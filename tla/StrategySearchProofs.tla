------------------------ MODULE StrategySearchProofs ------------------------
(***************************************************************************)
(* What TLAPS proves of StrategySearch, for every space of architectures,  *)
(* every stream of samples and every population size, whatever was lost in *)
(* a crash: the population ages, proposals are accounted for, the ancestry *)
(* a report tells is a forest, and a search ends as exhausted only when    *)
(* its space is.                                                           *)
(*                                                                         *)
(* Grounded is about one state of a strategy, in memory or in the          *)
(* checkpoint, and the results it was told of; rows only get nearer to     *)
(* completion, so what was grounded when it was saved is grounded when it  *)
(* is loaded.  RowsOK, TasksOK and OfferOK are about a search after any    *)
(* number of resumes, FirstProcess about one that was not resumed.         *)
(*                                                                         *)
(* The walks of Lineage are recursive functions; RecursionExists says that *)
(* they are what their equations say, and PathsGetOlder why they end.      *)
(***************************************************************************)
EXTENDS StrategySearch, TLAPS, FiniteSetTheorems, SequenceTheorems, WellFoundedInduction

Statuses == {Absent, "QUEUED", "RUNNING", "COMPLETED", "FAILED"}

Parents == Archs \cup {NoParent}

Members == [arch : Archs, value : Scores, parent : Parents, generation : Nat]

States ==
    [seen : SUBSET Archs, drawn : Nat, proposed : 0..MaxEvaluations, observed : Nat,
     succeeded : Nat, failed : Nat, duplicates : Nat, misses : Nat, exhausted : BOOLEAN,
     population : Seq(Members), pending : SUBSET (Archs \X Archs), generation : Nat,
     fallbacks : Nat, mutation_failures : Nat, retired : Nat]

TypeOK ==
    /\ setting \in Settings
    /\ stream \in Seq(Archs \cup {Miss})
    /\ table \in [Archs -> Statuses]
    /\ score \in [Archs -> Scores \cup {Unscored}]
    /\ parent \in [Archs -> Parents]
    /\ retries \in [Archs -> Nat]
    /\ inserted \in Seq(Archs)
    /\ saved \in Seq([strategy : States, told : Seq(Archs)])
    /\ pc \in {"loop", "propose", "accept", "results", "save", "stopped", "down"}
    /\ strategy \in States
    /\ parents \in [Archs -> Parents \cup {Unknown}]
    /\ offer \in Seq(Archs \X Parents)
    /\ wanted \in Nat
    /\ tasks \in Seq(Archs)
    /\ idle \in Nat
    /\ refused \in Nat
    /\ told \in Seq(Archs)
    /\ reason \in {"NONE", "BUDGET_EXHAUSTED", "STRATEGY_FINISHED", "SPACE_EXHAUSTED"}
    /\ resumes \in Nat

(***************************************************************************)
(* One state of a strategy                                                 *)
(***************************************************************************)
\* The population is what is left of the results t, the newest of them.
Aged(s, t, sc, pa) ==
    LET gone == Len(t) - Len(s.population) IN
    /\ gone = s.retired
    /\ Len(s.population) = Least(Len(t), PopulationSize)
    /\ s.generation = Len(t)
    /\ s.generation = s.succeeded
    /\ \A i \in DOMAIN s.population :
         /\ s.population[i].arch = t[gone + i]
         /\ s.population[i].value = sc[t[gone + i]]
         /\ s.population[i].parent = pa[t[gone + i]]
         /\ s.population[i].generation = gone + i

\* What it was told of has completed, with the score it was told.
Grounded(s, t, tb, sc, pa) ==
    /\ s.observed = s.succeeded + s.failed
    /\ \A i \in DOMAIN t : tb[t[i]] = "COMPLETED" /\ sc[t[i]] # Unscored
    /\ setting.evolving => Aged(s, t, sc, pa)
    /\ ~setting.evolving => s.population = <<>> /\ s.pending = {}

(***************************************************************************)
(* The rows and the round                                                  *)
(***************************************************************************)
Rows == {a \in Archs : table[a] # Absent}

\* Rows are inserted once, after their parents, and nobody's parents are
\* remembered wrongly.
RowsOK ==
    /\ \A i, j \in DOMAIN inserted : inserted[i] = inserted[j] => i = j
    /\ Rows = {inserted[i] : i \in DOMAIN inserted}
    /\ \A a \in Archs : parents[a] # Unknown => parents[a] = parent[a]
    /\ \A i \in DOMAIN inserted :
         parent[inserted[i]] # NoParent =>
            \E j \in DOMAIN inserted :
               /\ j < i
               /\ inserted[j] = parent[inserted[i]]
               /\ table[inserted[j]] = "COMPLETED"
               /\ score[inserted[j]] # Unscored

TasksOK ==
    /\ pc # "results" => tasks = <<>>
    /\ \A i, j \in DOMAIN tasks : tasks[i] = tasks[j] => i = j
    /\ \A i \in DOMAIN tasks : table[tasks[i]] = "RUNNING" /\ parents[tasks[i]] # Unknown

Offered == {offer[i][1] : i \in DOMAIN offer}

\* A round proposes no more than it may, children of scored rows only, and
\* ends before the next.
OfferOK ==
    /\ pc \notin {"propose", "accept"} => offer = <<>>
    /\ pc # "propose" => wanted = 0
    /\ wanted <= Remaining(strategy)
    /\ strategy.seen \subseteq Rows \cup Offered
    /\ \A i \in DOMAIN offer :
         offer[i][2] # NoParent =>
            table[offer[i][2]] = "COMPLETED" /\ score[offer[i][2]] # Unscored
    /\ pc \notin {"save", "stopped"} => reason = "NONE"
    /\ pc = "down" => refused = 0

SavedOK ==
    \A i \in DOMAIN saved :
        /\ Grounded(saved[i].strategy, saved[i].told, table, score, parent)
        /\ saved[i].strategy.seen \subseteq Rows

(***************************************************************************)
(* A search that was not resumed                                           *)
(***************************************************************************)
Waiting == {a \in Archs : table[a] \in {"QUEUED", "RUNNING"}}

AllAccounted ==
    /\ strategy.proposed = strategy.observed + Len(offer) + Cardinality(Waiting)
    /\ strategy.pending =
         {<<a, parent[a]>> : a \in {b \in Waiting : parent[b] # NoParent}}
         \cup {o \in {offer[i] : i \in DOMAIN offer} : o[2] # NoParent}

\* Whatever was proposed is new.
AllNew ==
    /\ refused = 0
    /\ \A i \in DOMAIN offer : table[offer[i][1]] = Absent
    /\ \A i, j \in DOMAIN offer : offer[i][1] = offer[j][1] => i = j
    /\ strategy.seen = Rows \cup Offered

\* Random search has missed once for each idle round in a row.
Dry ==
    /\ pc = "loop" => strategy.misses >= idle
    /\ pc = "propose" /\ offer = <<>> /\ Queue = {} =>
          strategy.misses >= idle /\ (wanted = 0 => Finished(strategy))
    /\ pc = "accept" /\ offer = <<>> /\ Queue = {} =>
          Finished(strategy) \/ strategy.misses >= idle + 1
    /\ pc = "results" => idle = 0
    /\ reason = "SPACE_EXHAUSTED" => strategy.misses >= 2

FirstProcess ==
    resumes = 0 /\ ~setting.twins /\ pc # "down" =>
        AllAccounted /\ AllNew /\ (~setting.evolving => Dry)

IInv ==
    /\ TypeOK
    /\ Grounded(strategy, told, table, score, parent)
    /\ RowsOK
    /\ TasksOK
    /\ OfferOK
    /\ SavedOK
    /\ FirstProcess

-----------------------------------------------------------------------------
(***************************************************************************)
(* Least elements, and the queue as a sequence.                            *)
(***************************************************************************)
Below == {ss \in Nat \X Nat : ss[1] < ss[2]}

LEMMA LeastNat ==
    ASSUME NEW T \in SUBSET Nat, T # {}
    PROVE  \E x \in T : \A y \in T : x <= y
<1>1. IsWellFoundedOn(Below, Nat)
  BY NatLessThanWellFounded, Zenon DEF OpToRel, Below
<1>2. PICK x \in T : \A y \in T : ~(<<y, x>> \in Below)
  <2>1. \E x \in T : \A y \in T : ~(<<y, x>> \in Below) BY <1>1, WFMin
  <2> QED BY <2>1
<1>3. \A m, n \in Nat : m < n => <<m, n>> \in Below BY DEF Below
<1>4. ASSUME NEW y \in T PROVE x <= y
  <2>1. x \in Nat /\ y \in Nat OBVIOUS
  <2>2. ~(y < x) BY <1>2, <1>3, <2>1
  <2> QED BY <2>1, <2>2
<1> QED BY <1>4

\* What induction on the natural numbers needs, for a property that is a set.
LEMMA NatSetInduction ==
    ASSUME NEW T \in SUBSET Nat, 0 \in T, \A n \in T : n + 1 \in T
    PROVE  T = Nat
<1> SUFFICES ASSUME Nat \ T # {} PROVE FALSE OBVIOUS
<1>1. PICK x \in Nat \ T : \A y \in Nat \ T : x <= y BY LeastNat
<1>2. x # 0 BY <1>1
<1>3. x - 1 \in Nat /\ x - 1 \in T BY <1>1, <1>2
<1>4. (x - 1) + 1 = x BY <1>1
<1> QED BY <1>1, <1>3, <1>4

LEMMA FiniteQueue ==
    ASSUME inserted \in Seq(Archs)
    PROVE  /\ IsFiniteSet(Queue) /\ Cardinality(Queue) \in Nat
           /\ Cardinality(Queue) = 0 <=> Queue = {}
           /\ Queue \subseteq Nat
           /\ \A i : IsFiniteSet(UpTo(i)) /\ Cardinality(UpTo(i)) \in Nat
<1>1. IsFiniteSet(DOMAIN inserted) /\ DOMAIN inserted \subseteq Nat
  <2>1. DOMAIN inserted = 1..Len(inserted) /\ Len(inserted) \in Nat
    BY LenProperties
  <2>2. IsFiniteSet(1..Len(inserted)) BY <2>1, FS_Interval
  <2> QED BY <2>1, <2>2
<1>2. Queue \subseteq DOMAIN inserted BY DEF Queue
<1>3. IsFiniteSet(Queue) BY <1>1, <1>2, FS_Subset
<1>4. \A i : UpTo(i) \subseteq Queue BY DEF UpTo
<1>5. \A i : IsFiniteSet(UpTo(i)) BY <1>3, <1>4, FS_Subset
<1> QED BY <1>1, <1>2, <1>3, <1>5, FS_CardinalityType, FS_EmptySet

\* Each place of the queue is somebody's.
LEMMA PlacesTaken ==
    ASSUME inserted \in Seq(Archs), NEW k \in 1..Cardinality(Queue)
    PROVE  \E i \in Queue : Cardinality(UpTo(i)) = k
<1> DEFINE K == Cardinality(Queue)
           T == {n \in Nat : n + 1 \in 1..K => \E i \in Queue : Cardinality(UpTo(i)) = n + 1}
<1>1. K \in Nat /\ IsFiniteSet(Queue) /\ Queue \subseteq Nat
      /\ \A i : IsFiniteSet(UpTo(i)) /\ Cardinality(UpTo(i)) \in Nat
  BY FiniteQueue
<1>2. ASSUME NEW L \in SUBSET Queue, NEW i \in Queue \ L, UpTo(i) = L \cup {i}
      PROVE  Cardinality(UpTo(i)) = Cardinality(L) + 1
  <2>1. IsFiniteSet(L) BY <1>1, FS_Subset
  <2> QED BY <1>2, <2>1, FS_AddElement
<1>5. \A i \in Queue : i \in Nat BY <1>1
<1>3. 0 \in T
  <2> SUFFICES ASSUME 1 \in 1..K
               PROVE  \E i \in Queue : Cardinality(UpTo(i)) = 0 + 1
    OBVIOUS
  <2>1. Queue # {} BY <1>1, FS_EmptySet
  <2>2. PICK i \in Queue : \A j \in Queue : i <= j
    <3>1. Queue \in SUBSET Nat BY <1>1
    <3>2. \E i \in Queue : \A j \in Queue : i <= j BY <2>1, <3>1, LeastNat
    <3> QED BY <3>2
  <2>3. UpTo(i) = {} \cup {i}
    <3>1. \A j \in Queue : j <= i <=> j = i BY <1>5, <2>2
    <3> QED BY <3>1 DEF UpTo
  <2>4. Cardinality(UpTo(i)) = Cardinality({}) + 1 BY <1>2, <2>3
  <2> QED BY <2>4, FS_EmptySet
<1>4. ASSUME NEW n \in T PROVE n + 1 \in T
  <2> SUFFICES ASSUME (n + 1) + 1 \in 1..K
               PROVE  \E i \in Queue : Cardinality(UpTo(i)) = (n + 1) + 1
    OBVIOUS
  <2>1. n \in Nat /\ n + 1 \in 1..K BY <1>1
  <2>2. PICK i \in Queue : Cardinality(UpTo(i)) = n + 1 BY <2>1
  <2>3. \E j \in Queue : j > i
    <3> SUFFICES ASSUME \A j \in Queue : ~(j > i) PROVE FALSE OBVIOUS
    <3>1. \A j \in Queue : j <= i BY <1>5
    <3>2. UpTo(i) = Queue BY <3>1 DEF UpTo
    <3> QED BY <1>1, <2>1, <2>2, <3>2
  <2>4. PICK j \in {m \in Queue : m > i} : \A m \in {l \in Queue : l > i} : j <= m
    <3>1. {m \in Queue : m > i} \in SUBSET Nat /\ {m \in Queue : m > i} # {}
      BY <1>1, <2>3
    <3>2. \E j \in {m \in Queue : m > i} : \A m \in {l \in Queue : l > i} : j <= m
      BY <3>1, LeastNat
    <3> QED BY <3>2
  <2>5. UpTo(i) \subseteq Queue /\ j \notin UpTo(i) /\ UpTo(j) = UpTo(i) \cup {j}
    <3>1. UpTo(i) \subseteq Queue /\ j \notin UpTo(i) /\ i \in Queue /\ j \in Queue
      BY <1>5, <2>4 DEF UpTo
    <3>2. \A m \in Queue : m <= j <=> m <= i \/ m = j BY <1>5, <2>4
    <3> QED BY <3>1, <3>2 DEF UpTo
  <2>6. Cardinality(UpTo(j)) = Cardinality(UpTo(i)) + 1 BY <1>2, <2>4, <2>5
  <2> QED BY <2>1, <2>2, <2>4, <2>6
<1> HIDE DEF K
<1>8. T = Nat BY <1>3, <1>4, NatSetInduction
<1>6. k - 1 \in Nat /\ (k - 1) + 1 = k BY DEF K
<1>7. k - 1 \in T BY <1>6, <1>8
<1> QED BY <1>6, <1>7 DEF K

\* The queued rows as a sequence: queued, each of them once, none left out
\* when there is one.
LEMMA QueueOrder ==
    ASSUME inserted \in Seq(Archs),
           \A i, j \in DOMAIN inserted : inserted[i] = inserted[j] => i = j
    PROVE  /\ QueuedRows \in Seq(Archs)
           /\ \A n \in DOMAIN QueuedRows : table[QueuedRows[n]] = "QUEUED"
           /\ \A m, n \in DOMAIN QueuedRows : QueuedRows[m] = QueuedRows[n] => m = n
           /\ Len(QueuedRows) = Cardinality(Queue)
           /\ QueuedRows = <<>> <=> Queue = {}
<1> DEFINE K == Cardinality(Queue)
           At(n) == CHOOSE i \in Queue : Cardinality(UpTo(i)) = n
<1>1. K \in Nat /\ (K = 0 <=> Queue = {}) BY FiniteQueue
<1>2. \A n \in 1..K : At(n) \in Queue /\ Cardinality(UpTo(At(n))) = n
  BY PlacesTaken
<1>3. QueuedRows = [n \in 1..K |-> inserted[At(n)]] BY DEF QueuedRows
<1> HIDE DEF K, At
<1>4. \A n \in 1..K :
         /\ At(n) \in DOMAIN inserted /\ inserted[At(n)] \in Archs
         /\ table[inserted[At(n)]] = "QUEUED"
  BY <1>2, ElementOfSeq, LenProperties DEF Queue
<1>5. /\ QueuedRows \in Seq(Archs) /\ Len(QueuedRows) = K /\ DOMAIN QueuedRows = 1..K
  BY <1>1, <1>3, <1>4, IsASeq
<1>6. \A m, n \in 1..K : QueuedRows[m] = QueuedRows[n] => m = n
  <2> SUFFICES ASSUME NEW m \in 1..K, NEW n \in 1..K, QueuedRows[m] = QueuedRows[n]
               PROVE  m = n
    OBVIOUS
  <2>1. At(m) = At(n) BY <1>3, <1>4
  <2> QED BY <1>2, <2>1
<1>7. QueuedRows = <<>> <=> K = 0 BY <1>1, <1>5, EmptySeq
<1> QED BY <1>1, <1>3, <1>4, <1>5, <1>6, <1>7 DEF K

-----------------------------------------------------------------------------
(***************************************************************************)
(* What one proposal makes of a strategy.                                  *)
(***************************************************************************)
\* The results a strategy has seen are the same in t as in s.
SameResults(s, t) ==
    /\ t.observed = s.observed /\ t.succeeded = s.succeeded /\ t.failed = s.failed
    /\ t.population = s.population /\ t.generation = s.generation /\ t.retired = s.retired

\* The member a result becomes, and the children still waiting after it.
Entry(s, a, v, p) ==
    [arch |-> a, value |-> v, parent |-> p, generation |-> s.generation + 1]

WaitingFor(s, a) == {q \in s.pending : q[1] # a}

LEMMA Countable ==
    ASSUME NEW s \in States
    PROVE  /\ s.fallbacks \in Nat /\ s.fallbacks + 1 \in Nat
           /\ s.observed \in Nat /\ s.succeeded \in Nat /\ s.failed \in Nat
           /\ s.misses \in Nat /\ s.duplicates \in Nat /\ s.generation \in Nat
           /\ s.retired \in Nat /\ s.proposed \in 0..MaxEvaluations
           /\ s.seen \subseteq Archs /\ s.pending \subseteq Archs \X Archs
           /\ s.population \in Seq(Members)
BY DEF States

\* A counter of its own.
LEMMA Counts ==
    ASSUME NEW s \in States, NEW n \in Nat,
           NEW t \in {[s EXCEPT !.fallbacks = n], [s EXCEPT !.duplicates = n],
                      [s EXCEPT !.mutation_failures = n]}
    PROVE  /\ t \in States /\ SameResults(s, t) /\ t.seen = s.seen
           /\ t.proposed = s.proposed /\ t.pending = s.pending
           /\ t.misses = s.misses /\ t.exhausted = s.exhausted
<1>1. t \in States BY DEF States
<1>2. /\ SameResults(s, t) /\ t.seen = s.seen
      /\ t.proposed = s.proposed /\ t.pending = s.pending
      /\ t.misses = s.misses /\ t.exhausted = s.exhausted
  BY DEF States, SameResults
<1> QED BY <1>1, <1>2

LEMMA CountsMisses ==
    ASSUME NEW s \in States, NEW n \in Nat, NEW t, t = [s EXCEPT !.misses = n]
    PROVE  /\ t \in States /\ SameResults(s, t) /\ t.seen = s.seen
           /\ t.proposed = s.proposed /\ t.pending = s.pending /\ t.misses = n
<1>1. t \in States BY DEF States
<1>2. /\ SameResults(s, t) /\ t.seen = s.seen
      /\ t.proposed = s.proposed /\ t.pending = s.pending /\ t.misses = n
  BY DEF States, SameResults
<1> QED BY <1>1, <1>2

\* A draw moves the generator and finds something new, or nothing.
LEMMA Draws ==
    ASSUME NEW s \in States, NEW st \in Seq(Archs \cup {Miss})
    PROVE  /\ SampledArch(s, st) \in (Archs \ s.seen) \cup {Miss}
           /\ AfterDraw(s, st) \in States
           /\ SameResults(s, AfterDraw(s, st))
           /\ AfterDraw(s, st).seen = s.seen
           /\ AfterDraw(s, st).proposed = s.proposed
           /\ AfterDraw(s, st).pending = s.pending
           /\ AfterDraw(s, st).misses = s.misses
<1>1. NewDraws(s, st) \in SUBSET (1..Len(st)) /\ Len(st) \in Nat
  BY LenProperties DEF NewDraws, States
<1>2. ASSUME NewDraws(s, st) # {}
      PROVE  FirstDraw(s, st) \in NewDraws(s, st)
  <2>1. \E i \in NewDraws(s, st) : \A j \in NewDraws(s, st) : i <= j
    BY <1>1, <1>2, LeastNat
  <2> QED BY <2>1 DEF FirstDraw
<1>3. ASSUME NEW i \in NewDraws(s, st)
      PROVE  st[i] \in (Archs \cup {Miss}) \ s.seen
  <2>1. i \in 1..Len(st) BY <1>1
  <2>2. st[i] \in Archs \cup {Miss} BY <2>1, ElementOfSeq
  <2> QED BY <2>2 DEF NewDraws
<1>4. SampledArch(s, st) \in (Archs \ s.seen) \cup {Miss}
  BY <1>2, <1>3 DEF SampledArch
<1> DEFINE d == IF NewDraws(s, st) = {} THEN Len(st) ELSE FirstDraw(s, st)
<1>5. d \in Nat BY <1>1, <1>2
<1>6. AfterDraw(s, st) = [s EXCEPT !.drawn = d] BY DEF AfterDraw
<1> HIDE DEF d
<1>7. AfterDraw(s, st) \in States BY <1>5, <1>6 DEF States
<1> QED BY <1>4, <1>6, <1>7 DEF States, SameResults

\* A proposal of a with parent p.
Hits(a, p) ==
    /\ a \in Archs /\ p \in Parents
    /\ strategy' \in States
    /\ SameResults(strategy, strategy')
    /\ strategy'.seen = strategy.seen \cup {a}
    /\ strategy'.proposed = strategy.proposed + 1
    /\ strategy'.pending = IF p = NoParent THEN strategy.pending
                           ELSE WaitingFor(strategy, a) \cup {<<a, p>>}
    /\ offer' = Append(offer, <<a, p>>)
    /\ wanted' = wanted - 1
    /\ pc' = pc
    /\ a \notin strategy.seen \/ setting.twins
    /\ p # NoParent =>
          setting.evolving /\ \E i \in DOMAIN strategy.population :
                                 p = strategy.population[i].arch

\* The sampler is asked, and finds nothing.
FindsNothing ==
    /\ strategy' \in States
    /\ SameResults(strategy, strategy')
    /\ strategy'.seen = strategy.seen
    /\ strategy'.proposed = strategy.proposed
    /\ strategy'.pending = strategy.pending
    /\ ~setting.evolving => strategy'.misses = strategy.misses + 1
    /\ offer' = offer
    /\ wanted' = 0
    /\ pc' = "accept"

Proposes ==
    ProposeRandomly \/ ProposeFounder \/ ProposeChild \/ ProposeUnmutated \/ ProposeUnrelated

\* Sampling for a strategy s that differs from the one in memory in counters
\* of its own, and ends as one of hit and miss.
LEMMA SampleEffect ==
    ASSUME TypeOK, OfferOK, wanted > 0,
           NEW s \in States, SameResults(strategy, s), s.seen = strategy.seen,
           s.proposed = strategy.proposed, s.pending = strategy.pending,
           NEW hit, NEW miss, SampleInto(s, hit, miss),
           \A a \in Archs : Found(s) = a =>
              /\ hit \in States /\ SameResults(strategy, hit)
              /\ hit.seen = strategy.seen \cup {a}
              /\ hit.proposed = strategy.proposed + 1 /\ hit.pending = strategy.pending,
           /\ miss \in States /\ SameResults(strategy, miss)
           /\ miss.seen = strategy.seen /\ miss.proposed = strategy.proposed
           /\ miss.pending = strategy.pending
           /\ ~setting.evolving => miss.misses = strategy.misses + 1
    PROVE  (\E a \in Archs : Hits(a, NoParent)) \/ FindsNothing
<1>1. SampledArch(s, stream) \in (Archs \ s.seen) \cup {Miss} BY Draws DEF TypeOK
<1>2. CASE Found(s) = Miss
  BY <1>2 DEF SampleInto, NoOffer, FindsNothing
<1>3. CASE Found(s) # Miss
  <2>1. Found(s) \in Archs \ strategy.seen BY <1>1, <1>3 DEF Found
  <2>2. strategy' = hit /\ Offer(Found(s), NoParent) BY <1>3 DEF SampleInto
  <2>3. Hits(Found(s), NoParent)
    BY <2>1, <2>2 DEF Offer, Hits, Parents
  <2> QED BY <2>1, <2>3
<1> QED BY <1>2, <1>3

\* Registering a proposal of an architecture.
LEMMA RegisteredEffect ==
    ASSUME NEW s \in States, NEW a \in Archs, s.proposed < MaxEvaluations
    PROVE  /\ Registered(s, a) \in States /\ SameResults(s, Registered(s, a))
           /\ Registered(s, a).seen = s.seen \cup {a}
           /\ Registered(s, a).proposed = s.proposed + 1
           /\ Registered(s, a).pending = s.pending
           /\ Registered(s, a).misses = s.misses
<1> DEFINE r == Registered(s, a)
<1>1. s.proposed + 1 \in 0..MaxEvaluations
  BY StrategyAssumption DEF States, PlanValid
<1>2. r = [s EXCEPT !.seen = s.seen \cup {a}, !.proposed = s.proposed + 1]
  BY DEF Registered
<1> HIDE DEF r
<1>3. r \in States BY <1>1, <1>2 DEF States
<1> QED BY <1>2, <1>3 DEF r, States, SameResults

LEMMA ProposeEffect ==
    ASSUME TypeOK, OfferOK, Proposes
    PROVE  /\ (\E a \in Archs, p \in Parents : Hits(a, p)) \/ FindsNothing
           /\ pc = "propose" /\ wanted > 0
           /\ UNCHANGED <<setting, stream, rows, saved, parents, tasks, idle, refused, told,
                          reason, resumes>>
<1>1. /\ pc = "propose" /\ wanted > 0
      /\ UNCHANGED <<setting, stream, rows, saved, parents, tasks, idle, refused, told,
                     reason, resumes>>
  BY DEF Proposes, ProposeRandomly, ProposeFounder, ProposeChild, ProposeUnmutated,
     ProposeUnrelated, Mutating, Proposing
<1>2. /\ strategy \in States /\ strategy.proposed < MaxEvaluations
      /\ MaxEvaluations \in Nat /\ NoParent \in Parents
      /\ stream \in Seq(Archs \cup {Miss})
  <2>1. /\ strategy \in States /\ wanted \in Nat /\ wanted <= MaxEvaluations - strategy.proposed
        /\ stream \in Seq(Archs \cup {Miss})
    BY DEF TypeOK, OfferOK, Remaining
  <2>2. strategy.proposed \in 0..MaxEvaluations /\ MaxEvaluations \in Nat
    BY <2>1, StrategyAssumption DEF States, PlanValid
  <2> QED BY <1>1, <2>1, <2>2 DEF Parents
<1> DEFINE Goal == (\E a \in Archs, p \in Parents : Hits(a, p)) \/ FindsNothing
<1> SUFFICES Goal BY <1>1
<1>3. ASSUME (\E a \in Archs : Hits(a, NoParent)) \/ FindsNothing
      PROVE  Goal
  BY <1>2, <1>3
<1>4. ASSUME NEW s \in States, SameResults(strategy, s), s.seen = strategy.seen,
             s.proposed = strategy.proposed, s.pending = strategy.pending,
             FallBack(s), setting.evolving
      PROVE  Goal
  <2> DEFINE d == Drawn(s)
             hit == [Registered(d, Found(s)) EXCEPT !.fallbacks = @ + 1]
  <2>1. /\ d \in States /\ SameResults(s, d) /\ d.seen = s.seen
        /\ d.proposed = s.proposed /\ d.pending = s.pending
    BY <1>2, <1>4, Draws DEF Drawn
  <2>2. SampleInto(s, hit, d) BY <1>4 DEF FallBack
  <2> HIDE DEF d
  <2>3. ASSUME NEW a \in Archs, Found(s) = a
        PROVE  /\ hit \in States /\ SameResults(strategy, hit)
               /\ hit.seen = strategy.seen \cup {a}
               /\ hit.proposed = strategy.proposed + 1 /\ hit.pending = strategy.pending
    <3> DEFINE r == Registered(d, a)
    <3>1. /\ r \in States /\ SameResults(d, r) /\ r.seen = d.seen \cup {a}
          /\ r.proposed = d.proposed + 1 /\ r.pending = d.pending
      BY <1>2, <1>4, <2>1, RegisteredEffect
    <3>2. hit = [r EXCEPT !.fallbacks = r.fallbacks + 1] BY <2>3
    <3> HIDE DEF r, hit
    <3>5. r \in States BY <3>1
    <3>4. r.fallbacks + 1 \in Nat BY <3>5, Countable
    <3>3. /\ hit \in States /\ SameResults(r, hit) /\ hit.seen = r.seen
          /\ hit.proposed = r.proposed /\ hit.pending = r.pending
      BY <3>1, <3>2, <3>4, Counts
    <3> QED BY <1>4, <2>1, <3>1, <3>3 DEF SameResults
  <2> HIDE DEF hit
  <2>4. SameResults(strategy, d) BY <1>4, <2>1 DEF SameResults
  <2>5. (\E a \in Archs : Hits(a, NoParent)) \/ FindsNothing
    BY <1>1, <1>4, <2>1, <2>2, <2>3, <2>4, SampleEffect
  <2> QED BY <1>3, <2>5
<1>5. CASE ProposeRandomly
  <2> DEFINE d == Drawn(strategy)
             hit == RandomProposal(d, Found(strategy))
             miss == Missed(d)
  <2>1. /\ d \in States /\ SameResults(strategy, d) /\ d.seen = strategy.seen
        /\ d.proposed = strategy.proposed /\ d.pending = strategy.pending
        /\ d.misses = strategy.misses
    BY <1>2, Draws DEF Drawn
  <2>2. SampleInto(strategy, hit, miss) BY <1>5 DEF ProposeRandomly
  <2> HIDE DEF d
  <2>3. ASSUME NEW a \in Archs, Found(strategy) = a
        PROVE  /\ hit \in States /\ SameResults(strategy, hit)
               /\ hit.seen = strategy.seen \cup {a}
               /\ hit.proposed = strategy.proposed + 1 /\ hit.pending = strategy.pending
    <3> DEFINE r == Registered(d, a)
    <3>1. /\ r \in States /\ SameResults(d, r) /\ r.seen = d.seen \cup {a}
          /\ r.proposed = d.proposed + 1 /\ r.pending = d.pending
      BY <1>2, <2>1, RegisteredEffect
    <3>2. hit = [r EXCEPT !.misses = 0] BY <2>3 DEF RandomProposal
    <3> HIDE DEF r, hit
    <3>4. 0 \in Nat OBVIOUS
    <3>3. /\ hit \in States /\ SameResults(r, hit) /\ hit.seen = r.seen
          /\ hit.proposed = r.proposed /\ hit.pending = r.pending
      BY <3>1, <3>2, <3>4, CountsMisses
    <3> QED BY <2>1, <3>1, <3>3 DEF SameResults
  <2>4. /\ miss \in States /\ SameResults(strategy, miss)
        /\ miss.seen = strategy.seen /\ miss.proposed = strategy.proposed
        /\ miss.pending = strategy.pending /\ miss.misses = strategy.misses + 1
    <3> DEFINE e == d.exhausted \/ d.misses + 1 >= MaxMisses
               n == d.misses + 1
    <3>1. miss = [d EXCEPT !.misses = n, !.exhausted = e]
      BY DEF Missed
    <3>2. e \in BOOLEAN /\ n \in Nat BY <2>1 DEF States
    <3>4. n = strategy.misses + 1 BY <2>1
    <3> HIDE DEF miss, e, n
    <3>3. miss \in States BY <2>1, <3>1, <3>2 DEF States
    <3>5. /\ SameResults(d, miss) /\ miss.seen = d.seen /\ miss.proposed = d.proposed
          /\ miss.pending = d.pending /\ miss.misses = n
      BY <2>1, <3>1 DEF States, SameResults
    <3> QED BY <2>1, <3>3, <3>4, <3>5 DEF SameResults
  <2>5. SameResults(strategy, strategy) BY DEF SameResults
  <2> HIDE DEF hit, miss
  <2>6. (\E a \in Archs : Hits(a, NoParent)) \/ FindsNothing
    BY <1>1, <1>2, <2>2, <2>3, <2>4, <2>5, SampleEffect
  <2> QED BY <1>3, <2>6
<1>6. CASE ProposeFounder
  <2> DEFINE s == IF Founding(strategy) THEN strategy
                  ELSE [strategy EXCEPT !.fallbacks = @ + 1]
             d == Drawn(s)
             hit == Registered(d, Found(s))
  <2>1. SampleInto(s, hit, d) /\ setting.evolving BY <1>6 DEF ProposeFounder
  <2>2. /\ s \in States /\ SameResults(strategy, s) /\ s.seen = strategy.seen
        /\ s.proposed = strategy.proposed /\ s.pending = strategy.pending
    <3>1. CASE s = strategy BY <1>2, <3>1 DEF SameResults
    <3>2. CASE s = [strategy EXCEPT !.fallbacks = strategy.fallbacks + 1]
      <4>1. strategy.fallbacks + 1 \in Nat BY <1>2 DEF States
      <4> HIDE DEF s
      <4> QED BY <1>2, <3>2, <4>1, Counts
    <3> QED BY <3>1, <3>2
  <2> HIDE DEF s
  <2>3. /\ d \in States /\ SameResults(s, d) /\ d.seen = s.seen
        /\ d.proposed = s.proposed /\ d.pending = s.pending
    BY <1>2, <2>2, Draws DEF Drawn
  <2> HIDE DEF d
  <2>4. ASSUME NEW a \in Archs, Found(s) = a
        PROVE  /\ hit \in States /\ SameResults(strategy, hit)
               /\ hit.seen = strategy.seen \cup {a}
               /\ hit.proposed = strategy.proposed + 1 /\ hit.pending = strategy.pending
    <3>1. /\ hit \in States /\ SameResults(d, hit) /\ hit.seen = d.seen \cup {a}
          /\ hit.proposed = d.proposed + 1 /\ hit.pending = d.pending
      BY <1>2, <2>2, <2>3, <2>4, RegisteredEffect
    <3> HIDE DEF hit
    <3> QED BY <2>2, <2>3, <3>1 DEF SameResults
  <2>5. SameResults(strategy, d) BY <2>2, <2>3 DEF SameResults
  <2> HIDE DEF hit
  <2>6. (\E a \in Archs : Hits(a, NoParent)) \/ FindsNothing
    BY <1>1, <2>1, <2>2, <2>3, <2>4, <2>5, SampleEffect
  <2> QED BY <1>3, <2>6
<1>7. CASE ProposeChild
  <2>15. PICK m \in Winners(strategy) : \E a \in Children[m.arch] :
           /\ a \notin strategy.seen \/ setting.twins
           /\ strategy' = ChildProposal(strategy, a, m.arch)
           /\ Offer(a, m.arch)
    BY <1>7 DEF ProposeChild
  <2>1. PICK a \in Children[m.arch] :
           /\ a \notin strategy.seen \/ setting.twins
           /\ strategy' = ChildProposal(strategy, a, m.arch)
           /\ Offer(a, m.arch)
    BY <2>15
  <2>2. PICK i \in DOMAIN strategy.population : m = strategy.population[i]
    BY DEF Winners
  <2>3. m \in Members
    <3>1. strategy.population \in Seq(Members) BY <1>2 DEF States
    <3> QED BY <2>2, <3>1, ElementOfSeq, LenProperties
  <2>4. m.arch \in Archs /\ a \in Archs BY <2>1, <2>3, StrategyAssumption DEF Members
  <2>5. m.arch # NoParent BY <2>4, StrategyAssumption DEF NoParent
  <2> DEFINE r == Registered(strategy, a)
             q == {x \in r.pending : x[1] # a} \cup {<<a, m.arch>>}
  <2>6. /\ r \in States /\ SameResults(strategy, r) /\ r.seen = strategy.seen \cup {a}
        /\ r.proposed = strategy.proposed + 1 /\ r.pending = strategy.pending
    BY <1>2, <2>4, RegisteredEffect
  <2>7. strategy' = [r EXCEPT !.pending = q] BY <2>1 DEF ChildProposal
  <2> HIDE DEF r
  <2>8. q \subseteq Archs \X Archs BY <2>4, <2>6 DEF States
  <2>9. q = {x \in strategy.pending : x[1] # a} \cup {<<a, m.arch>>} BY <2>6
  <2> HIDE DEF q
  <2>10. strategy' \in States BY <2>6, <2>7, <2>8 DEF States
  <2>11. /\ strategy'.pending = q /\ SameResults(r, strategy')
         /\ strategy'.seen = r.seen /\ strategy'.proposed = r.proposed
    BY <2>6, <2>7 DEF States, SameResults
  <2>12. SameResults(strategy, strategy') BY <2>6, <2>11 DEF SameResults
  <2>13. setting.evolving BY <1>7 DEF ProposeChild, Mutating
  <2>14. Hits(a, m.arch)
    BY <2>1, <2>2, <2>4, <2>5, <2>6, <2>9, <2>10, <2>11, <2>12, <2>13
    DEF Hits, Offer, Parents, WaitingFor
  <2> QED BY <2>4, <2>14 DEF Parents
<1>8. CASE ProposeUnmutated
  <2> DEFINE s == [strategy EXCEPT !.mutation_failures = strategy.mutation_failures + 1]
  <2>1. FallBack(s) /\ setting.evolving BY <1>8 DEF ProposeUnmutated, Mutating
  <2>3. strategy.mutation_failures + 1 \in Nat BY <1>2 DEF States
  <2>2. /\ s \in States /\ SameResults(strategy, s) /\ s.seen = strategy.seen
        /\ s.proposed = strategy.proposed /\ s.pending = strategy.pending
    BY <1>2, <2>3, Counts
  <2> HIDE DEF s
  <2> QED BY <1>4, <2>1, <2>2
<1>9. CASE ProposeUnrelated
  <2> DEFINE s == [strategy EXCEPT !.duplicates = strategy.duplicates + 1]
  <2>1. FallBack(s) /\ setting.evolving BY <1>9 DEF ProposeUnrelated, Mutating
  <2>3. strategy.duplicates + 1 \in Nat BY <1>2 DEF States
  <2>2. /\ s \in States /\ SameResults(strategy, s) /\ s.seen = strategy.seen
        /\ s.proposed = strategy.proposed /\ s.pending = strategy.pending
    BY <1>2, <2>3, Counts
  <2> HIDE DEF s
  <2> QED BY <1>4, <2>1, <2>2
<1>10. Goal BY <1>5, <1>6, <1>7, <1>8, <1>9 DEF Proposes
<1> QED BY <1>1, <1>10

-----------------------------------------------------------------------------
(***************************************************************************)
(* What a result makes of it.                                              *)
(***************************************************************************)
LEMMA Rejects ==
    ASSUME NEW s \in States, NEW a \in Archs
    PROVE  LET r == Rejected(s, a) IN
           /\ r \in States /\ SameResults(s, r) /\ r.seen = s.seen \cup {a}
           /\ r.proposed = s.proposed /\ r.pending = s.pending /\ r.misses = s.misses
<1> DEFINE r == Rejected(s, a)
           n == s.duplicates + 1
           seen == s.seen \cup {a}
<1>1. r = [s EXCEPT !.duplicates = n, !.seen = seen] BY DEF Rejected
<1>2. n \in Nat /\ seen \in SUBSET Archs BY Countable
<1> HIDE DEF r, n
<1> HIDE DEF seen
<1>3. r \in States BY <1>1, <1>2 DEF States
<1>4. /\ SameResults(s, r) /\ r.seen = seen
      /\ r.proposed = s.proposed /\ r.pending = s.pending /\ r.misses = s.misses
  BY <1>1, <1>2 DEF States, SameResults
<1> QED BY <1>3, <1>4 DEF r, seen

\* What both strategies count of a result.
Counted(s, a, o) ==
    /\ o \in States
    /\ o.seen = s.seen \cup {a}
    /\ o.proposed = s.proposed
    /\ o.observed = s.observed + 1
    /\ s.observed = s.succeeded + s.failed => o.observed = o.succeeded + o.failed

LEMMA RandomCounts ==
    ASSUME NEW s \in States, NEW a \in Archs, NEW b \in BOOLEAN
    PROVE  LET o == RandomObserved(s, a, b) IN
           /\ Counted(s, a, o)
           /\ o.population = s.population /\ o.pending = s.pending
           /\ o.misses = s.misses /\ o.exhausted = s.exhausted
<1> DEFINE o == RandomObserved(s, a, b)
           seen == s.seen \cup {a}
           n == s.observed + 1
           k == IF b THEN s.succeeded + 1 ELSE s.succeeded
           l == IF b THEN s.failed ELSE s.failed + 1
<1>1. o = [s EXCEPT !.observed = n, !.seen = seen, !.succeeded = k, !.failed = l]
  BY DEF RandomObserved
<1>2. n \in Nat /\ seen \in SUBSET Archs /\ k \in Nat /\ l \in Nat BY Countable
<1>3. s.observed = s.succeeded + s.failed => n = k + l BY Countable
<1>4. n = s.observed + 1 /\ seen = s.seen \cup {a} OBVIOUS
<1> HIDE DEF o, n, seen, k, l
<1>5. o \in States BY <1>1, <1>2 DEF States
<1>6. /\ o.seen = seen /\ o.proposed = s.proposed /\ o.observed = n
      /\ o.succeeded = k /\ o.failed = l
      /\ o.population = s.population /\ o.pending = s.pending
      /\ o.misses = s.misses /\ o.exhausted = s.exhausted
  BY <1>1, <1>2 DEF States
<1> QED BY <1>3, <1>4, <1>5, <1>6 DEF o, Counted

\* A result without a score.
LEMMA FailureCounts ==
    ASSUME NEW s \in States, NEW a \in Archs, NEW b \in BOOLEAN, NEW v, NEW p,
           ~b \/ v = Unscored
    PROVE  LET o == EvolutionObserved(s, a, b, v, p) IN
           /\ Counted(s, a, o)
           /\ o.population = s.population /\ o.generation = s.generation
           /\ o.succeeded = s.succeeded /\ o.retired = s.retired
           /\ o.pending = WaitingFor(s, a)
<1> DEFINE o == EvolutionObserved(s, a, b, v, p)
           seen == s.seen \cup {a}
           left == {q \in s.pending : q[1] # a}
           n == s.observed + 1
           l == s.failed + 1
<1>1. o = [[s EXCEPT !.observed = n, !.seen = seen, !.pending = left] EXCEPT !.failed = l]
  BY Countable DEF EvolutionObserved, Noted, States
<1>2. n \in Nat /\ seen \in SUBSET Archs /\ left \in SUBSET (Archs \X Archs) /\ l \in Nat
  BY Countable
<1>3. s.observed = s.succeeded + s.failed => n = s.succeeded + l BY Countable
<1>4. n = s.observed + 1 /\ seen = s.seen \cup {a} /\ left = {q \in s.pending : q[1] # a}
  OBVIOUS
<1> HIDE DEF o, n, seen, left, l
<1>5. o \in States BY <1>1, <1>2 DEF States
<1>6. /\ o.seen = seen /\ o.proposed = s.proposed /\ o.observed = n
      /\ o.succeeded = s.succeeded /\ o.failed = l
      /\ o.population = s.population /\ o.pending = left
      /\ o.generation = s.generation /\ o.retired = s.retired
  BY <1>1, <1>2 DEF States
<1> QED BY <1>3, <1>4, <1>5, <1>6 DEF o, Counted, WaitingFor

\* A scored result.
LEMMA SuccessCounts ==
    ASSUME NEW s \in States, NEW a \in Archs, NEW v \in Scores, NEW p \in Parents,
           v # Unscored
    PROVE  LET o == EvolutionObserved(s, a, TRUE, v, p) IN
           /\ Counted(s, a, o)
           /\ o.population = Appended(s, Entry(s, a, v, p))
           /\ o.generation = s.generation + 1 /\ o.succeeded = s.succeeded + 1
           /\ o.retired = IF Len(s.population) = PopulationSize THEN s.retired + 1
                          ELSE s.retired
           /\ o.pending = WaitingFor(s, a)
<1> DEFINE o == EvolutionObserved(s, a, TRUE, v, p)
           m == [arch |-> a, value |-> v, parent |-> p, generation |-> s.generation + 1]
           seen == s.seen \cup {a}
           left == {q \in s.pending : q[1] # a}
           n == s.observed + 1
           k == s.succeeded + 1
           g == s.generation + 1
           pop == Appended(s, m)
           r == IF Len(s.population) = PopulationSize THEN s.retired + 1 ELSE s.retired
<1>1. o = [[s EXCEPT !.observed = n, !.seen = seen, !.pending = left]
             EXCEPT !.succeeded = k, !.generation = g, !.population = pop, !.retired = r]
  BY Countable DEF EvolutionObserved, Noted, States
<1>2. m \in Members BY Countable DEF Members
<1> HIDE DEF m
<1>3. pop \in Seq(Members)
  <2>1. s.population \in Seq(Members) BY Countable
  <2>2. CASE Len(s.population) < PopulationSize
    BY <1>2, <2>1, <2>2, AppendProperties DEF Appended
  <2>3. CASE ~(Len(s.population) < PopulationSize)
    <3>1. s.population # <<>>
      BY <2>1, <2>3, StrategyAssumption, EmptySeq DEF PlanValid
    <3>2. Tail(s.population) \in Seq(Members) BY <2>1, <3>1, HeadTailProperties
    <3> QED BY <1>2, <2>3, <3>2, AppendProperties DEF Appended
  <2> QED BY <2>2, <2>3
<1>4. /\ n \in Nat /\ seen \in SUBSET Archs /\ left \in SUBSET (Archs \X Archs)
      /\ k \in Nat /\ g \in Nat /\ r \in Nat
  BY Countable
<1>5. s.observed = s.succeeded + s.failed => n = k + s.failed BY Countable
<1>6. /\ n = s.observed + 1 /\ seen = s.seen \cup {a} /\ left = {q \in s.pending : q[1] # a}
      /\ k = s.succeeded + 1 /\ g = s.generation + 1
  OBVIOUS
<1> HIDE DEF o, n, seen, left, k, g, pop, r
<1>7. o \in States BY <1>1, <1>3, <1>4 DEF States
<1>8. /\ o.seen = seen /\ o.proposed = s.proposed /\ o.observed = n
      /\ o.succeeded = k /\ o.failed = s.failed
      /\ o.population = pop /\ o.pending = left
      /\ o.generation = g /\ o.retired = r
  BY <1>1, <1>3, <1>4 DEF States
<1> QED BY <1>5, <1>6, <1>7, <1>8 DEF o, m, pop, r, Counted, Entry, WaitingFor

-----------------------------------------------------------------------------
(***************************************************************************)
(* What is grounded stays so.                                              *)
(***************************************************************************)
\* Rows come and complete; none goes, and none completes twice.
RowsGrow ==
    /\ setting' = setting
    /\ \A a \in Archs : table[a] = "COMPLETED" =>
          table'[a] = "COMPLETED" /\ score'[a] = score[a]
    /\ \A a \in Archs : table[a] # Absent => table'[a] # Absent /\ parent'[a] = parent[a]

LEMMA GroundedStays ==
    ASSUME RowsGrow, NEW s \in States, NEW t \in Seq(Archs),
           Grounded(s, t, table, score, parent)
    PROVE  Grounded(s, t, table', score', parent')
<1>1. \A i \in DOMAIN t : t[i] \in Archs /\ table[t[i]] = "COMPLETED" /\ score[t[i]] # Unscored
  BY ElementOfSeq, LenProperties DEF Grounded
<1>2. \A i \in DOMAIN t :
         /\ table'[t[i]] = "COMPLETED" /\ score'[t[i]] = score[t[i]]
         /\ parent'[t[i]] = parent[t[i]]
  BY <1>1 DEF RowsGrow, Absent
<1>3. ASSUME setting.evolving PROVE Aged(s, t, score', parent')
  <2>1. Aged(s, t, score, parent) BY <1>3 DEF Grounded
  <2> DEFINE gone == Len(t) - Len(s.population)
  <2>2. /\ Len(t) \in Nat /\ Len(s.population) = Least(Len(t), PopulationSize)
        /\ DOMAIN t = 1..Len(t)
    BY <2>1, LenProperties DEF Aged
  <2>3. gone \in Nat /\ Len(s.population) \in Nat
    BY <2>2, StrategyAssumption DEF PlanValid, Least
  <2>5. DOMAIN s.population = 1..Len(s.population)
    BY Countable, LenProperties
  <2>4. ASSUME NEW i \in DOMAIN s.population
        PROVE  /\ s.population[i].arch = t[gone + i]
               /\ s.population[i].value = score'[t[gone + i]]
               /\ s.population[i].parent = parent'[t[gone + i]]
               /\ s.population[i].generation = gone + i
    <3>1. /\ s.population[i].arch = t[gone + i]
          /\ s.population[i].value = score[t[gone + i]]
          /\ s.population[i].parent = parent[t[gone + i]]
          /\ s.population[i].generation = gone + i
      BY <2>1 DEF Aged
    <3>2. gone + i \in DOMAIN t BY <2>2, <2>3, <2>5
    <3> QED BY <1>2, <3>1, <3>2
  <2> QED BY <2>1, <2>4 DEF Aged
<1> QED BY <1>1, <1>2, <1>3 DEF Grounded

LEMMA LeastIs ==
    ASSUME NEW m \in Nat, NEW n \in Nat
    PROVE  /\ Least(m, n) \in Nat /\ Least(m, n) <= m /\ Least(m, n) <= n
           /\ m <= n => Least(m, n) = m
           /\ n <= m => Least(m, n) = n
<1>1. CASE m < n BY <1>1 DEF Least
<1>2. CASE ~(m < n) BY <1>2 DEF Least
<1> QED BY <1>1, <1>2

\* A scored result of a row that was not told of before.
LEMMA AgedGrows ==
    ASSUME NEW s \in States, NEW t \in Seq(Archs), NEW sc, NEW pa, Aged(s, t, sc, pa),
           NEW a \in Archs, NEW o \in States,
           o.population = Appended(s, Entry(s, a, sc[a], pa[a])),
           o.generation = s.generation + 1, o.succeeded = s.succeeded + 1,
           o.retired = IF Len(s.population) = PopulationSize THEN s.retired + 1
                       ELSE s.retired
    PROVE  Aged(o, Append(t, a), sc, pa)
<1> DEFINE m == Entry(s, a, sc[a], pa[a])
           u == Append(t, a)
           gone == Len(t) - Len(s.population)
           left == Len(u) - Len(o.population)
<1>1. /\ s.population \in Seq(Members) /\ o.population \in Seq(Members)
      /\ PopulationSize \in Nat /\ PopulationSize >= 2
  BY Countable, StrategyAssumption DEF PlanValid
<1>2. /\ Len(t) \in Nat /\ DOMAIN t = 1..Len(t)
      /\ Len(s.population) \in Nat /\ DOMAIN s.population = 1..Len(s.population)
      /\ DOMAIN o.population = 1..Len(o.population)
  BY <1>1, LenProperties
<1>3. /\ Len(u) = Len(t) + 1 /\ u[Len(t) + 1] = a
      /\ \A i \in 1..Len(t) : u[i] = t[i]
  BY AppendProperties
<1>4. /\ gone = s.retired /\ Len(s.population) = Least(Len(t), PopulationSize)
      /\ s.generation = Len(t) /\ s.generation = s.succeeded
      /\ \A i \in DOMAIN s.population :
           /\ s.population[i].arch = t[gone + i]
           /\ s.population[i].value = sc[t[gone + i]]
           /\ s.population[i].parent = pa[t[gone + i]]
           /\ s.population[i].generation = gone + i
  BY DEF Aged
<1>5. m.arch = a /\ m.value = sc[a] /\ m.parent = pa[a] /\ m.generation = Len(t) + 1
  BY <1>4 DEF Entry
<1> HIDE DEF m, u
<1>6. CASE Len(s.population) < PopulationSize
  <2>1. o.population = Append(s.population, m) BY <1>6 DEF Appended, m
  <2>2. /\ Len(o.population) = Len(s.population) + 1
        /\ o.population[Len(s.population) + 1] = m
        /\ \A i \in 1..Len(s.population) : o.population[i] = s.population[i]
    BY <1>1, <2>1, AppendProperties
  <2>3. Len(s.population) = Len(t) /\ gone = 0 /\ left = 0
    BY <1>2, <1>3, <1>4, <1>6, <2>2 DEF Least
  <2>4. o.retired = s.retired BY <1>6, <1>2
  <2>5. ASSUME NEW i \in DOMAIN o.population
        PROVE  /\ o.population[i].arch = u[left + i]
               /\ o.population[i].value = sc[u[left + i]]
               /\ o.population[i].parent = pa[u[left + i]]
               /\ o.population[i].generation = left + i
    <3>1. i \in 1..(Len(t) + 1) /\ left + i = i BY <1>2, <2>2, <2>3
    <3>2. CASE i = Len(t) + 1 BY <1>3, <1>5, <2>2, <2>3, <3>1, <3>2
    <3>3. CASE i \in 1..Len(t)
      <4>1. o.population[i] = s.population[i] /\ u[i] = t[i] /\ gone + i = i
        BY <1>3, <2>2, <2>3, <3>3
      <4> QED BY <1>2, <1>4, <2>3, <3>1, <3>3, <4>1
    <3> QED BY <1>2, <3>1, <3>2, <3>3
  <2>6. Len(o.population) = Least(Len(u), PopulationSize)
    <3>1. Len(u) = Len(t) + 1 /\ Len(o.population) = Len(t) + 1 /\ Len(t) < PopulationSize
      BY <1>3, <1>6, <2>2, <2>3
    <3> QED BY <1>1, <1>2, <3>1, LeastIs
  <2> QED BY <1>2, <1>3, <1>4, <2>3, <2>4, <2>5, <2>6 DEF Aged, u
<1>7. CASE ~(Len(s.population) < PopulationSize)
  <2>1. o.population = Append(Tail(s.population), m) BY <1>7 DEF Appended, m
  <2>2. Len(s.population) = PopulationSize /\ Len(t) >= PopulationSize
    BY <1>1, <1>2, <1>4, <1>7 DEF Least
  <2>3. s.population # <<>> BY <1>1, <2>2, EmptySeq
  <2>4. /\ Tail(s.population) \in Seq(Members)
        /\ Len(Tail(s.population)) = Len(s.population) - 1
        /\ \A i \in 1..(Len(s.population) - 1) : Tail(s.population)[i] = s.population[i + 1]
    BY <1>1, <2>3, HeadTailProperties
  <2>5. /\ Len(o.population) = Len(s.population)
        /\ o.population[Len(s.population)] = m
        /\ \A i \in 1..(Len(s.population) - 1) : o.population[i] = s.population[i + 1]
    <3> DEFINE rest == Tail(s.population)
    <3>1. /\ Len(o.population) = Len(rest) + 1 /\ o.population[Len(rest) + 1] = m
          /\ \A i \in 1..Len(rest) : o.population[i] = rest[i]
      BY <2>1, <2>4, AppendProperties
    <3> QED BY <1>2, <2>4, <3>1
  <2>6. left = gone + 1 /\ o.retired = s.retired + 1
    BY <1>2, <1>3, <2>2, <2>5
  <2>7. ASSUME NEW i \in DOMAIN o.population
        PROVE  /\ o.population[i].arch = u[left + i]
               /\ o.population[i].value = sc[u[left + i]]
               /\ o.population[i].parent = pa[u[left + i]]
               /\ o.population[i].generation = left + i
    <3>4. i \in 1..Len(s.population) BY <1>2, <2>5
    <3>5. gone \in Int /\ left = gone + 1 BY <1>2, <2>6
    <3> HIDE DEF gone, left
    <3>1. i \in 1..Len(s.population) /\ left + i = gone + (i + 1) BY <1>2, <3>4, <3>5
    <3> USE DEF gone, left
    <3>2. CASE i = Len(s.population)
      <4>1. left + i = Len(t) + 1 BY <1>2, <2>6, <3>2
      <4> QED BY <1>3, <1>5, <2>5, <3>2, <4>1
    <3>3. CASE i \in 1..(Len(s.population) - 1)
      <4>1. i + 1 \in DOMAIN s.population /\ o.population[i] = s.population[i + 1]
        BY <1>2, <2>5, <3>3
      <4>2. gone + (i + 1) \in 1..Len(t) BY <1>2, <2>2, <3>3
      <4>3. u[left + i] = t[gone + (i + 1)] BY <1>3, <3>1, <4>2
      <4> QED BY <1>4, <3>1, <4>1, <4>3
    <3> QED BY <1>2, <3>1, <3>2, <3>3
  <2>8. Len(o.population) = Least(Len(u), PopulationSize)
    <3>1. Len(u) = Len(t) + 1 /\ Len(o.population) = PopulationSize
      BY <1>3, <2>2, <2>5
    <3> QED BY <1>1, <1>2, <2>2, <3>1, LeastIs
  <2> QED BY <1>2, <1>3, <1>4, <2>6, <2>7, <2>8 DEF Aged, u
<1> QED BY <1>6, <1>7

-----------------------------------------------------------------------------
(***************************************************************************)
(* The batch, the result at its head, and the rows.                        *)
(***************************************************************************)
\* What a batch takes are queued rows, each once.
LEMMA BatchTaken ==
    ASSUME TypeOK, RowsOK, RunBatch
    PROVE  /\ tasks' \in Seq(Archs)
           /\ \A i, j \in DOMAIN tasks' : tasks'[i] = tasks'[j] => i = j
           /\ \A i \in DOMAIN tasks' : table[tasks'[i]] = "QUEUED"
           /\ parents' = WithParents(tasks')
           /\ table' = [a \in Archs |->
                 IF \E i \in DOMAIN tasks' : tasks'[i] = a THEN "RUNNING" ELSE table[a]]
<1> DEFINE n == Least(InFlight, Len(QueuedRows))
<1>1. /\ tasks' = SubSeq(QueuedRows, 1, n)
      /\ parents' = WithParents(tasks')
      /\ table' = [a \in Archs |->
            IF \E i \in DOMAIN tasks' : tasks'[i] = a THEN "RUNNING" ELSE table[a]]
  BY DEF RunBatch
<1>2. /\ QueuedRows \in Seq(Archs)
      /\ \A i \in DOMAIN QueuedRows : table[QueuedRows[i]] = "QUEUED"
      /\ \A i, j \in DOMAIN QueuedRows : QueuedRows[i] = QueuedRows[j] => i = j
  BY QueueOrder DEF TypeOK, RowsOK
<1>3. Len(QueuedRows) \in Nat /\ DOMAIN QueuedRows = 1..Len(QueuedRows)
  BY <1>2, LenProperties
<1>4. n \in Nat /\ n <= Len(QueuedRows)
  BY <1>3, LeastIs, StrategySearchAssumption
<1> HIDE DEF n
<1>5. /\ tasks' \in Seq(Archs) /\ DOMAIN tasks' = 1..n
      /\ \A i \in 1..n : tasks'[i] = QueuedRows[i] /\ i \in DOMAIN QueuedRows
  <2>1. \A i \in 1..n : QueuedRows[i] \in Archs BY <1>2, <1>3, <1>4, ElementOfSeq
  <2>2. /\ SubSeq(QueuedRows, 1, n) \in Seq(Archs)
        /\ Len(SubSeq(QueuedRows, 1, n)) = n
        /\ \A i \in 1..n : SubSeq(QueuedRows, 1, n)[i] = QueuedRows[i]
    BY <1>2, <1>3, <1>4, <2>1, SubSeqProperties
  <2> QED BY <1>1, <1>3, <1>4, <2>2, LenProperties
<1> QED BY <1>1, <1>2, <1>5

\* The result at the head is that of a running row whose parent is known.
LEMMA AtHead ==
    ASSUME TypeOK, RowsOK, TasksOK, tasks # <<>>
    PROVE  /\ Head(tasks) \in Archs /\ table[Head(tasks)] = "RUNNING"
           /\ parents[Head(tasks)] = parent[Head(tasks)]
           /\ parent[Head(tasks)] \in Parents
           /\ Tail(tasks) \in Seq(Archs)
           /\ \A i, j \in DOMAIN Tail(tasks) : Tail(tasks)[i] = Tail(tasks)[j] => i = j
           /\ \A i \in DOMAIN Tail(tasks) :
                 /\ Tail(tasks)[i] # Head(tasks)
                 /\ \E j \in DOMAIN tasks : Tail(tasks)[i] = tasks[j]
<1>1. /\ tasks \in Seq(Archs) /\ Len(tasks) \in Nat /\ DOMAIN tasks = 1..Len(tasks)
      /\ tasks # <<>>
  BY LenProperties DEF TypeOK
<1>2. /\ Head(tasks) = tasks[1] /\ Tail(tasks) \in Seq(Archs)
      /\ Len(Tail(tasks)) = Len(tasks) - 1
      /\ \A i \in 1..(Len(tasks) - 1) : Tail(tasks)[i] = tasks[i + 1]
  BY <1>1, HeadTailProperties
<1>3. Len(tasks) # 0 BY <1>1, EmptySeq
<1>4. 1 \in DOMAIN tasks BY <1>1, <1>3
<1>5. Head(tasks) \in Archs BY <1>1, <1>2, <1>4, ElementOfSeq
<1>6. /\ \A i, j \in DOMAIN tasks : tasks[i] = tasks[j] => i = j
      /\ table[tasks[1]] = "RUNNING" /\ parents[tasks[1]] # Unknown
  BY <1>4 DEF TasksOK
<1>7. /\ parents[Head(tasks)] = parent[Head(tasks)] /\ parent[Head(tasks)] \in Parents
  BY <1>2, <1>5, <1>6 DEF RowsOK, TypeOK
<1>8. DOMAIN Tail(tasks) = 1..(Len(tasks) - 1) BY <1>1, <1>2, LenProperties
<1>9. \A i \in DOMAIN Tail(tasks) : i + 1 \in DOMAIN tasks /\ i + 1 # 1 /\ i \in Nat
  BY <1>1, <1>8
<1> QED BY <1>2, <1>4, <1>5, <1>6, <1>7, <1>8, <1>9

LEMMA GrowingRows ==
    ASSUME TypeOK, RowsOK, TasksOK, OfferOK, Next
    PROVE  RowsGrow
<1>1. CASE UNCHANGED <<setting, table, score, parent>>
  BY <1>1 DEF RowsGrow
<1>2. CASE Proposes BY <1>1, <1>2, ProposeEffect DEF rows
<1>3. CASE \/ StopOnBudget \/ StartRound \/ ProposedEnough \/ AcceptDuplicate
           \/ IdleRound \/ BatchDone \/ Finalise \/ Crash
  BY <1>1, <1>3 DEF StopOnBudget, StartRound, ProposedEnough, AcceptDuplicate, IdleRound,
     BatchDone, Finalise, Crash, rows
<1>4. CASE AcceptNew
  <2> DEFINE a == Head(offer)[1]
             p == Head(offer)[2]
  <2>1. /\ table[a] = Absent /\ table' = [table EXCEPT ![a] = "QUEUED"]
        /\ parent' = [parent EXCEPT ![a] = p]
        /\ score' = score /\ setting' = setting
    BY <1>4 DEF AcceptNew
  <2> HIDE DEF a, p
  <2> QED BY <2>1 DEF RowsGrow, TypeOK, Absent
<1>5. CASE RunBatch
  <2>1. \A b \in Archs : table[b] = "COMPLETED" => table'[b] = "COMPLETED"
    BY <1>5, BatchTaken
  <2>2. \A b \in Archs : table[b] # Absent => table'[b] # Absent
    BY <1>5, BatchTaken DEF Absent
  <2> QED BY <1>5, <2>1, <2>2 DEF RowsGrow, RunBatch
<1>6. CASE Succeed \/ Retry \/ Fail
  <2> DEFINE a == Head(tasks)
  <2>1. a \in Archs /\ table[a] = "RUNNING"
    BY <1>6, AtHead DEF Succeed, Retry, Fail, AtResult
  <2>2. /\ \E st \in {"COMPLETED", "QUEUED", "FAILED"} : table' = [table EXCEPT ![a] = st]
        /\ score' = score \/ \E v : score' = [score EXCEPT ![a] = v]
        /\ parent' = parent /\ setting' = setting
    BY <1>6 DEF Succeed, Retry, Fail, AtResult
  <2> HIDE DEF a
  <2> QED BY <2>1, <2>2 DEF RowsGrow, TypeOK, Absent
<1>7. CASE Resume
  BY <1>7 DEF Resume, RowsGrow, Absent
<1> QED BY <1>2, <1>3, <1>4, <1>5, <1>6, <1>7 DEF Next, EngineStep, Proposes

\* The offer at the head, and what is left.
LEMMA OfferHead ==
    ASSUME TypeOK, offer # <<>>
    PROVE  /\ Head(offer) = <<Head(offer)[1], Head(offer)[2]>>
           /\ Head(offer)[1] \in Archs /\ Head(offer)[2] \in Parents
           /\ Tail(offer) \in Seq(Archs \X Parents)
           /\ Len(offer) \in Nat /\ Len(Tail(offer)) = Len(offer) - 1
           /\ DOMAIN offer = 1..Len(offer) /\ DOMAIN Tail(offer) = 1..(Len(offer) - 1)
           /\ 1 \in DOMAIN offer /\ offer[1] = Head(offer)
           /\ \A i \in DOMAIN Tail(offer) :
                 i + 1 \in DOMAIN offer /\ i + 1 # 1 /\ Tail(offer)[i] = offer[i + 1]
           /\ \A i \in DOMAIN offer : i = 1 \/ (i - 1) \in DOMAIN Tail(offer)
<1>1. /\ offer \in Seq(Archs \X Parents) /\ Len(offer) \in Nat /\ DOMAIN offer = 1..Len(offer)
  BY LenProperties DEF TypeOK
<1>2. /\ Head(offer) = offer[1] /\ Tail(offer) \in Seq(Archs \X Parents)
      /\ Len(Tail(offer)) = Len(offer) - 1
      /\ \A i \in 1..(Len(offer) - 1) : Tail(offer)[i] = offer[i + 1]
  BY <1>1, HeadTailProperties
<1>3. Len(offer) # 0 BY <1>1, EmptySeq
<1>4. 1 \in DOMAIN offer BY <1>1, <1>3
<1>5. offer[1] \in Archs \X Parents BY <1>1, <1>4, ElementOfSeq
<1>6. DOMAIN Tail(offer) = 1..(Len(offer) - 1) BY <1>1, <1>2, LenProperties
<1>7. \A i \in DOMAIN Tail(offer) : i + 1 \in DOMAIN offer /\ i + 1 # 1
  BY <1>1, <1>6
<1>8. \A i \in DOMAIN offer : i = 1 \/ (i - 1) \in DOMAIN Tail(offer)
  BY <1>1, <1>6
<1> QED BY <1>1, <1>2, <1>4, <1>5, <1>6, <1>7, <1>8

\* Rows are finitely many.
LEMMA FiniteRows ==
    ASSUME TypeOK, RowsOK
    PROVE  /\ IsFiniteSet(Rows)
           /\ IsFiniteSet(Waiting) /\ Cardinality(Waiting) \in Nat
           /\ CompletedCount \in Nat
<1>1. inserted \in Surjection(1..Len(inserted), Rows)
  <2>1. inserted \in [1..Len(inserted) -> Archs] BY LenProperties DEF TypeOK
  <2>2. Rows = {inserted[i] : i \in 1..Len(inserted)} BY <2>1 DEF RowsOK
  <2> QED BY <2>1, <2>2 DEF Surjection
<1>2. IsFiniteSet(1..Len(inserted))
  <2>1. Len(inserted) \in Nat BY LenProperties DEF TypeOK
  <2> QED BY <2>1, FS_Interval
<1>3. IsFiniteSet(Rows) BY <1>1, <1>2, FS_Surjection
<1>4. Waiting \subseteq Rows BY DEF Waiting, Rows, Absent
<1>5. {a \in Archs : table[a] = "COMPLETED"} \subseteq Rows BY DEF Rows, Absent
<1> QED BY <1>3, <1>4, <1>5, FS_Subset, FS_CardinalityType DEF CompletedCount

\* A round asks for no more than the strategy may propose; it asks for
\* something when there is nothing to run and the strategy goes on.
LEMMA RoundWants ==
    ASSUME TypeOK, RowsOK, StartRound
    PROVE  /\ wanted' \in Nat /\ wanted' <= Remaining(strategy)
           /\ wanted' = 0 /\ Queue = {} => Finished(strategy)
<1> DEFINE r == Remaining(strategy)
           c == MaxEvaluations - CompletedCount
           w == Least(Least(FreeSlots, c), r)
<1>1. wanted' = IF Finished(strategy) THEN 0 ELSE w BY DEF StartRound
<1>2. r \in Nat /\ (~Finished(strategy) => r > 0)
  <2>1. strategy \in States BY DEF TypeOK
  <2>2. strategy.proposed \in 0..MaxEvaluations /\ MaxEvaluations \in Nat
    BY <2>1, Countable, StrategyAssumption DEF PlanValid
  <2> QED BY <2>2 DEF Remaining, Finished
<1>3. c \in Nat /\ c > 0
  <2>1. CompletedCount \in Nat /\ MaxEvaluations \in Nat
    BY FiniteRows, StrategyAssumption DEF PlanValid
  <2>2. CompletedCount < MaxEvaluations BY DEF StartRound
  <2> QED BY <2>1, <2>2
<1>4. FreeSlots \in Nat /\ (Queue = {} => FreeSlots > 0)
  <2>1. Len(QueuedRows) \in Nat /\ (Queue = {} => Len(QueuedRows) = 0)
    BY QueueOrder, FiniteQueue DEF TypeOK, RowsOK
  <2>2. InFlight \in Nat /\ InFlight > 0 BY StrategySearchAssumption
  <2> QED BY <2>1, <2>2 DEF FreeSlots
<1> HIDE DEF r, c
<1> DEFINE l == Least(FreeSlots, c)
<1>5. l \in Nat /\ (Queue = {} => l > 0) BY <1>3, <1>4, LeastIs
<1> HIDE DEF l
<1>6. w = Least(l, r) BY DEF l
<1> HIDE DEF w
<1>7. w \in Nat /\ w <= r /\ (l > 0 /\ r > 0 => w > 0) BY <1>2, <1>5, <1>6, LeastIs
<1> QED BY <1>1, <1>2, <1>5, <1>7 DEF r

\* What a strategy makes of a result.
LEMMA Observes ==
    ASSUME TypeOK, NEW a \in Archs, parents[a] \in Parents, NEW b \in BOOLEAN,
           NEW v \in Scores \cup {Unscored}
    PROVE  Counted(strategy, a, Observed(strategy, a, b, v))
<1>1. strategy \in States BY DEF TypeOK
<1>2. CASE setting.evolving
  <2>1. CASE ~b \/ v = Unscored
    BY <1>1, <1>2, <2>1, FailureCounts DEF Observed
  <2>2. CASE ~(~b \/ v = Unscored)
    <3>1. b = TRUE /\ v \in Scores /\ v # Unscored BY <2>2
    <3>2. Counted(strategy, a, EvolutionObserved(strategy, a, TRUE, v, parents[a]))
      BY <1>1, <3>1, SuccessCounts
    <3> QED BY <1>2, <3>1, <3>2 DEF Observed
  <2> QED BY <2>1, <2>2
<1>3. CASE ~setting.evolving BY <1>1, <1>3, RandomCounts DEF Observed
<1> QED BY <1>2, <1>3

LEMMA FreshTyped ==
    /\ Fresh \in States
    /\ Fresh.seen = {} /\ Fresh.proposed = 0 /\ Fresh.population = <<>>
    /\ Fresh.pending = {} /\ Fresh.misses = 0
    /\ \A t : t = <<>> => Grounded(Fresh, t, table, score, parent)
<1>1. MaxEvaluations \in Nat /\ PopulationSize \in Nat BY StrategyAssumption DEF PlanValid
<1>2. Fresh \in States BY <1>1 DEF Fresh, States
<1>3. Fresh.seen = {} /\ Fresh.proposed = 0 /\ Fresh.population = <<>>
      /\ Fresh.pending = {} /\ Fresh.misses = 0 /\ Fresh.observed = 0
      /\ Fresh.succeeded = 0 /\ Fresh.failed = 0 /\ Fresh.generation = 0 /\ Fresh.retired = 0
  BY DEF Fresh
<1>4. Grounded(Fresh, <<>>, table, score, parent)
  <2>1. Len(<<>>) = 0 /\ Least(0, PopulationSize) = 0 /\ DOMAIN <<>> = {}
    BY <1>1, LeastIs
  <2> QED BY <1>3, <2>1 DEF Grounded, Aged
<1> QED BY <1>2, <1>3, <1>4

-----------------------------------------------------------------------------
(***************************************************************************)
(* Types.                                                                  *)
(***************************************************************************)
LEMMA TypeStep ==
    ASSUME IInv, [Next]_vars
    PROVE  TypeOK'
<1>1. TypeOK /\ RowsOK /\ TasksOK /\ OfferOK BY DEF IInv
<1> DEFINE T == Archs \X Parents
<1>2. CASE UNCHANGED vars
  BY <1>1, <1>2 DEF vars, rows, memory, TypeOK
<1>3. CASE StopOnBudget BY <1>1, <1>3 DEF StopOnBudget, rows, TypeOK
<1>4. CASE StartRound
  <2>1. wanted' \in Nat /\ offer' = <<>> BY <1>1, <1>4, RoundWants DEF StartRound
  <2>2. <<>> \in Seq(T) BY EmptySeq
  <2> QED BY <1>1, <1>4, <2>1, <2>2 DEF StartRound, rows, TypeOK
<1>5. CASE Proposes
  <2>1. /\ (\E a \in Archs, p \in Parents : Hits(a, p)) \/ FindsNothing
        /\ pc = "propose" /\ wanted > 0
        /\ UNCHANGED <<setting, stream, rows, saved, parents, tasks, idle, refused, told,
                       reason, resumes>>
    BY <1>1, <1>5, ProposeEffect
  <2>2. ASSUME strategy' \in States, offer' \in Seq(T), wanted' \in Nat,
               pc' \in {"propose", "accept"}
        PROVE  TypeOK'
    BY <1>1, <2>1, <2>2 DEF rows, TypeOK
  <2>3. CASE FindsNothing BY <1>1, <2>2, <2>3 DEF FindsNothing, TypeOK
  <2>4. ASSUME NEW a \in Archs, NEW p \in Parents, Hits(a, p)
        PROVE  TypeOK'
    <3>1. <<a, p>> \in T OBVIOUS
    <3>2. offer' \in Seq(T) BY <1>1, <2>4, <3>1, AppendProperties DEF Hits, TypeOK
    <3>3. wanted' \in Nat BY <1>1, <2>1, <2>4 DEF Hits, TypeOK
    <3>4. pc' = "propose" /\ strategy' \in States BY <2>1, <2>4 DEF Hits
    <3> QED BY <2>2, <3>2, <3>3, <3>4
  <2> QED BY <2>1, <2>3, <2>4
<1>6. CASE ProposedEnough BY <1>1, <1>6 DEF ProposedEnough, rows, memory, TypeOK
<1>7. CASE AcceptDuplicate
  <2>1. /\ Head(offer)[1] \in Archs /\ Tail(offer) \in Seq(T)
    BY <1>1, <1>7, OfferHead DEF AcceptDuplicate
  <2>2. strategy' \in States BY <1>1, <1>7, <2>1, Rejects DEF AcceptDuplicate, TypeOK
  <2> QED BY <1>1, <1>7, <2>1, <2>2 DEF AcceptDuplicate, rows, TypeOK
<1>8. CASE AcceptNew
  <2> DEFINE a == Head(offer)[1]
             p == Head(offer)[2]
  <2>1. /\ a \in Archs /\ p \in Parents /\ Tail(offer) \in Seq(T)
    BY <1>1, <1>8, OfferHead DEF AcceptNew
  <2>2. /\ table' = [table EXCEPT ![a] = "QUEUED"]
        /\ parent' = [parent EXCEPT ![a] = p]
        /\ parents' = [parents EXCEPT ![a] = p]
        /\ inserted' = Append(inserted, a)
        /\ offer' = Tail(offer)
    BY <1>8 DEF AcceptNew
  <2> HIDE DEF a, p
  <2>3. table' \in [Archs -> Statuses] BY <1>1, <2>1, <2>2 DEF TypeOK, Statuses
  <2>4. parent' \in [Archs -> Parents] /\ parents' \in [Archs -> Parents \cup {Unknown}]
    BY <1>1, <2>1, <2>2 DEF TypeOK
  <2>5. inserted' \in Seq(Archs) BY <1>1, <2>1, <2>2, AppendProperties DEF TypeOK
  <2> QED BY <1>1, <1>8, <2>1, <2>2, <2>3, <2>4, <2>5 DEF AcceptNew, TypeOK
<1>9. CASE RunBatch
  <2>1. /\ tasks' \in Seq(Archs) /\ parents' = WithParents(tasks')
        /\ table' = [a \in Archs |->
              IF \E i \in DOMAIN tasks' : tasks'[i] = a THEN "RUNNING" ELSE table[a]]
    BY <1>1, <1>9, BatchTaken
  <2>2. table' \in [Archs -> Statuses] BY <1>1, <2>1 DEF TypeOK, Statuses
  <2>3. parents' \in [Archs -> Parents \cup {Unknown}]
    BY <1>1, <2>1 DEF TypeOK, WithParents
  <2> QED BY <1>1, <1>9, <2>1, <2>2, <2>3 DEF RunBatch, TypeOK
<1>10. CASE IdleRound
  <2>1. idle' \in Nat BY <1>1, <1>10 DEF IdleRound, TypeOK
  <2>2. /\ pc' \in {"save", "loop"}
        /\ reason' \in {reason, "STRATEGY_FINISHED", "SPACE_EXHAUSTED"}
    BY <1>10 DEF IdleRound
  <2> QED BY <1>1, <1>10, <2>1, <2>2 DEF IdleRound, rows, TypeOK
<1>11. CASE Succeed \/ Retry \/ Fail
  <2> DEFINE a == Head(tasks)
  <2>1. /\ a \in Archs /\ parents[a] \in Parents /\ Tail(tasks) \in Seq(Archs)
    BY <1>1, <1>11, AtHead DEF Succeed, Retry, Fail, AtResult
  <2>2. /\ tasks' = Tail(tasks)
        /\ UNCHANGED <<setting, stream, parent, inserted, saved, pc, parents, offer, wanted,
                       idle, refused, reason, resumes>>
    BY <1>11 DEF Succeed, Retry, Fail, AtResult
  <2>3. ASSUME NEW st \in Statuses, table' = [table EXCEPT ![a] = st]
        PROVE  table' \in [Archs -> Statuses]
    BY <1>1, <2>3 DEF TypeOK
  <2>4. ASSUME table' \in [Archs -> Statuses], score' \in [Archs -> Scores \cup {Unscored}],
               retries' \in [Archs -> Nat], strategy' \in States, told' \in Seq(Archs)
        PROVE  TypeOK'
    BY <1>1, <2>1, <2>2, <2>4 DEF TypeOK
  <2>5. CASE Succeed
    <3>1. PICK v \in Scores \cup {Unscored} :
            /\ table' = [table EXCEPT ![a] = "COMPLETED"]
            /\ score' = [score EXCEPT ![a] = v]
            /\ strategy' = Observed(strategy, a, TRUE, v)
            /\ told' = IF v = Unscored THEN told ELSE Append(told, a)
      BY <2>5 DEF Succeed
    <3>2. strategy' \in States
      <4>1. Counted(strategy, a, Observed(strategy, a, TRUE, v)) BY <1>1, <2>1, Observes
      <4> QED BY <3>1, <4>1 DEF Counted
    <3>3. told' \in Seq(Archs) BY <1>1, <2>1, <3>1, AppendProperties DEF TypeOK
    <3>4. table' \in [Archs -> Statuses] BY <2>3, <3>1 DEF Statuses
    <3>5. score' \in [Archs -> Scores \cup {Unscored}] BY <1>1, <3>1 DEF TypeOK
    <3>6. retries' \in [Archs -> Nat] BY <1>1, <2>5 DEF Succeed, TypeOK
    <3> QED BY <2>4, <3>2, <3>3, <3>4, <3>5, <3>6
  <2>6. CASE Retry
    <3>1. /\ retries' = [retries EXCEPT ![a] = @ + 1]
          /\ table' = [table EXCEPT ![a] = "QUEUED"]
          /\ score' = score /\ strategy' = strategy /\ told' = told
      BY <2>6 DEF Retry
    <3>2. table' \in [Archs -> Statuses] BY <2>3, <3>1 DEF Statuses
    <3>5. retries \in [Archs -> Nat] /\ retries[a] + 1 \in Nat BY <1>1, <2>1 DEF TypeOK
    <3> DEFINE n == retries[a] + 1
    <3>6. retries' = [retries EXCEPT ![a] = n] BY <3>1
    <3> HIDE DEF n, a
    <3>3. retries' \in [Archs -> Nat] BY <2>1, <3>5, <3>6 DEF n
    <3>4. /\ score' \in [Archs -> Scores \cup {Unscored}] /\ strategy' \in States
          /\ told' \in Seq(Archs)
      BY <1>1, <3>1 DEF TypeOK
    <3> QED BY <2>4, <3>2, <3>3, <3>4
  <2>7. CASE Fail
    <3>1. /\ table' = [table EXCEPT ![a] = "FAILED"]
          /\ strategy' = Observed(strategy, a, FALSE, Unscored)
          /\ score' = score /\ retries' = retries /\ told' = told
      BY <2>7 DEF Fail
    <3>2. strategy' \in States
      <4>1. Counted(strategy, a, Observed(strategy, a, FALSE, Unscored))
        BY <1>1, <2>1, Observes
      <4> QED BY <3>1, <4>1 DEF Counted
    <3>3. table' \in [Archs -> Statuses] BY <2>3, <3>1 DEF Statuses
    <3>4. /\ score' \in [Archs -> Scores \cup {Unscored}] /\ retries' \in [Archs -> Nat]
          /\ told' \in Seq(Archs)
      BY <1>1, <3>1 DEF TypeOK
    <3> QED BY <2>4, <3>2, <3>3, <3>4
  <2> QED BY <1>11, <2>5, <2>6, <2>7
<1>12. ASSUME saved' \in {saved, Checkpoint}
       PROVE  saved' \in Seq([strategy : States, told : Seq(Archs)])
  <2>1. [strategy |-> strategy, told |-> told] \in [strategy : States, told : Seq(Archs)]
    BY <1>1 DEF TypeOK
  <2>2. Checkpoint \in Seq([strategy : States, told : Seq(Archs)])
    BY <2>1 DEF Checkpoint
  <2> QED BY <1>1, <1>12, <2>2 DEF TypeOK
<1>13. CASE BatchDone \/ Finalise
  <2>1. saved' \in Seq([strategy : States, told : Seq(Archs)])
    BY <1>12, <1>13 DEF BatchDone, Finalise
  <2>2. pc' \in {"loop", "stopped"} /\ UNCHANGED <<setting, stream, rows, memory, resumes>>
    BY <1>13 DEF BatchDone, Finalise
  <2> QED BY <1>1, <2>1, <2>2 DEF rows, memory, TypeOK
<1>14. ASSUME NEW s \in States, NEW t \in Seq(Archs), Booted(s, t)
       PROVE  /\ strategy' \in States /\ told' \in Seq(Archs)
              /\ parents' \in [Archs -> Parents \cup {Unknown}]
              /\ offer' \in Seq(T) /\ wanted' \in Nat /\ tasks' \in Seq(Archs)
              /\ idle' \in Nat /\ refused' \in Nat /\ reason' = "NONE"
  <2>1. <<>> \in Seq(T) /\ <<>> \in Seq(Archs) BY EmptySeq
  <2> QED BY <1>14, <2>1 DEF Booted
<1>15. <<>> \in Seq(Archs) /\ Fresh \in States BY FreshTyped, EmptySeq
<1>16. CASE Crash
  <2>1. Booted(Fresh, <<>>) BY <1>16 DEF Crash
  <2> QED BY <1>1, <1>14, <1>15, <1>16, <2>1 DEF Crash, rows, TypeOK
<1>17. CASE Resume
  <2>1. \E s \in States, t \in Seq(Archs) : Booted(s, t)
    <3>1. CASE saved = <<>> BY <1>15, <1>17, <3>1 DEF Resume
    <3>2. CASE saved # <<>>
      <4>1. saved \in Seq([strategy : States, told : Seq(Archs)]) BY <1>1 DEF TypeOK
      <4>2. saved[1] \in [strategy : States, told : Seq(Archs)]
        <5>1. 1 \in 1..Len(saved) BY <3>2, <4>1, EmptySeq, LenProperties
        <5> QED BY <4>1, <5>1, ElementOfSeq
      <4>3. Booted(saved[1].strategy, saved[1].told) BY <1>17, <3>2 DEF Resume
      <4> QED BY <4>2, <4>3
    <3> QED BY <3>1, <3>2
  <2>2. table' \in [Archs -> Statuses] BY <1>1, <1>17 DEF Resume, TypeOK, Statuses
  <2>3. retries' \in [Archs -> Nat] BY <1>1, <1>17 DEF Resume, TypeOK
  <2>4. resumes' \in Nat BY <1>1, <1>17 DEF Resume, TypeOK
  <2> QED BY <1>1, <1>14, <1>17, <2>1, <2>2, <2>3, <2>4 DEF Resume, TypeOK
<1> QED BY <1>2, <1>3, <1>4, <1>5, <1>6, <1>7, <1>8, <1>9, <1>10, <1>11, <1>13, <1>16, <1>17
    DEF Next, EngineStep, Proposes

-----------------------------------------------------------------------------
(***************************************************************************)
(* The rows and the round.                                                 *)
(***************************************************************************)
\* Rows that stay rows, whatever becomes of them.
LEMMA SameRows ==
    ASSUME TypeOK, RowsOK, TypeOK', RowsGrow, inserted' = inserted,
           \A a \in Archs : table'[a] # Absent => table[a] # Absent,
           \A a \in Archs : parents'[a] # Unknown => parents'[a] = parent'[a],
           parent' = parent
    PROVE  RowsOK' /\ Rows' = Rows
<1>1. Rows' = Rows BY DEF Rows, RowsGrow
<1>2. \A i \in DOMAIN inserted : inserted[i] \in Archs
  BY ElementOfSeq, LenProperties DEF TypeOK
<1>3. ASSUME NEW i \in DOMAIN inserted', parent'[inserted'[i]] # NoParent
      PROVE  \E j \in DOMAIN inserted' :
               /\ j < i
               /\ inserted'[j] = parent'[inserted'[i]]
               /\ table'[inserted'[j]] = "COMPLETED"
               /\ score'[inserted'[j]] # Unscored
  <2>1. PICK j \in DOMAIN inserted :
               /\ j < i
               /\ inserted[j] = parent[inserted[i]]
               /\ table[inserted[j]] = "COMPLETED"
               /\ score[inserted[j]] # Unscored
    BY <1>3 DEF RowsOK
  <2>2. table'[inserted[j]] = "COMPLETED" /\ score'[inserted[j]] = score[inserted[j]]
    BY <1>2, <2>1 DEF RowsGrow
  <2> QED BY <2>1, <2>2
<1> QED BY <1>1, <1>3 DEF RowsOK

\* A row that was not there.
LEMMA NewRow ==
    ASSUME TypeOK, RowsOK, OfferOK, AcceptNew
    PROVE  LET a == Head(offer)[1] IN
           /\ RowsOK' /\ Rows' = Rows \cup {a} /\ a \notin Rows /\ a \in Archs
<1> DEFINE a == Head(offer)[1]
           p == Head(offer)[2]
           n == Len(inserted)
<1>1. /\ a \in Archs /\ p \in Parents /\ 1 \in DOMAIN offer /\ offer[1] = Head(offer)
  BY OfferHead DEF AcceptNew
<1>2. p # NoParent => table[p] = "COMPLETED" /\ score[p] # Unscored
  BY <1>1 DEF OfferOK
<1>3. /\ table[a] = Absent
      /\ table' = [table EXCEPT ![a] = "QUEUED"]
      /\ parent' = [parent EXCEPT ![a] = p]
      /\ parents' = [parents EXCEPT ![a] = p]
      /\ inserted' = Append(inserted, a)
      /\ score' = score
  BY DEF AcceptNew
<1> HIDE DEF a, p
<1>4. /\ n \in Nat /\ DOMAIN inserted = 1..n
      /\ \A i \in 1..n : inserted[i] \in Archs /\ inserted[i] \in Rows
  BY ElementOfSeq, LenProperties DEF TypeOK, RowsOK
<1>5. /\ DOMAIN inserted' = 1..(n + 1) /\ inserted'[n + 1] = a
      /\ \A i \in 1..n : inserted'[i] = inserted[i]
  <2>1. inserted \in Seq(Archs) BY DEF TypeOK
  <2>2. /\ Len(inserted') = n + 1 /\ inserted'[n + 1] = a
        /\ \A i \in 1..n : inserted'[i] = inserted[i]
        /\ inserted' \in Seq(Archs)
    BY <1>1, <1>3, <2>1, AppendProperties
  <2> QED BY <2>2, LenProperties
<1> HIDE DEF n
<1>6. a \notin Rows BY <1>3 DEF Rows
<1>7. /\ table'[a] = "QUEUED" /\ parent'[a] = p /\ parents'[a] = p
      /\ \A b \in Archs : b # a =>
            table'[b] = table[b] /\ parent'[b] = parent[b] /\ parents'[b] = parents[b]
  BY <1>1, <1>3 DEF TypeOK
<1>8. Rows' = Rows \cup {a} BY <1>1, <1>7 DEF Rows, Absent
<1>9. \A i \in 1..(n + 1) : i = n + 1 \/ i \in 1..n BY <1>4
<1>10. \A i, j \in DOMAIN inserted' : inserted'[i] = inserted'[j] => i = j
  <2>1. \A i \in 1..n : inserted'[i] # a BY <1>4, <1>5, <1>6
  <2>2. \A i, j \in 1..n : inserted'[i] = inserted'[j] => i = j
    BY <1>4, <1>5 DEF RowsOK
  <2> QED BY <1>5, <1>9, <2>1, <2>2
<1>11. Rows' = {inserted'[i] : i \in DOMAIN inserted'}
  <2>1. Rows = {inserted[i] : i \in 1..n} BY <1>4 DEF RowsOK
  <2>2. {inserted'[i] : i \in 1..(n + 1)} = {inserted[i] : i \in 1..n} \cup {a}
    <3>1. n + 1 \in 1..(n + 1) /\ 1..n \subseteq 1..(n + 1) BY <1>4
    <3> QED BY <1>5, <1>9, <3>1
  <2> QED BY <1>5, <1>8, <2>1, <2>2
<1>12. \A b \in Archs : parents'[b] # Unknown => parents'[b] = parent'[b]
  BY <1>7 DEF RowsOK
<1>13. ASSUME NEW i \in DOMAIN inserted', parent'[inserted'[i]] # NoParent
       PROVE  \E j \in DOMAIN inserted' :
                /\ j < i
                /\ inserted'[j] = parent'[inserted'[i]]
                /\ table'[inserted'[j]] = "COMPLETED"
                /\ score'[inserted'[j]] # Unscored
  <2>1. CASE i = n + 1
    <3>1. inserted'[i] = a /\ parent'[a] = p /\ p # NoParent BY <1>5, <1>7, <1>13, <2>1
    <3>2. p \in Archs /\ table[p] = "COMPLETED" /\ score[p] # Unscored
      BY <1>1, <1>2, <3>1 DEF Parents
    <3>3. p \in Rows /\ p # a BY <1>3, <3>2 DEF Rows, Absent
    <3>4. PICK j \in 1..n : inserted[j] = p BY <1>4, <3>3 DEF RowsOK
    <3>5. j \in DOMAIN inserted' /\ j < n + 1 /\ inserted'[j] = p BY <1>4, <1>5, <3>4
    <3> QED BY <1>3, <1>7, <2>1, <3>1, <3>2, <3>3, <3>5
  <2>2. CASE i \in 1..n
    <3>1. inserted'[i] = inserted[i] /\ inserted[i] # a /\ inserted[i] \in Archs
      BY <1>4, <1>5, <1>6, <2>2
    <3>2. parent[inserted[i]] # NoParent /\ parent'[inserted'[i]] = parent[inserted[i]]
      BY <1>7, <1>13, <3>1
    <3>3. PICK j \in 1..n :
               /\ j < i
               /\ inserted[j] = parent[inserted[i]]
               /\ table[inserted[j]] = "COMPLETED"
               /\ score[inserted[j]] # Unscored
      BY <1>4, <2>2, <3>2 DEF RowsOK
    <3>4. inserted'[j] = inserted[j] /\ inserted[j] # a /\ inserted[j] \in Archs
          /\ j \in DOMAIN inserted'
      BY <1>4, <1>5, <1>6, <3>3
    <3> QED BY <1>3, <1>7, <3>2, <3>3, <3>4
  <2> QED BY <1>5, <1>9, <2>1, <2>2
<1>14. RowsOK' BY <1>10, <1>11, <1>12, <1>13 DEF RowsOK
<1> QED BY <1>1, <1>6, <1>8, <1>14 DEF a

\* No step but one makes rows.
LEMMA RowsStep ==
    ASSUME IInv, Next
    PROVE  RowsOK' /\ (~AcceptNew => Rows' = Rows)
<1>1. TypeOK /\ RowsOK /\ TasksOK /\ OfferOK /\ TypeOK' /\ RowsGrow
  <2>1. TypeOK /\ RowsOK /\ TasksOK /\ OfferOK BY DEF IInv
  <2> QED BY <2>1, TypeStep, GrowingRows
<1>2. CASE AcceptNew BY <1>1, <1>2, NewRow
<1>3. CASE UNCHANGED <<rows, parents>>
  <2>1. \A a \in Archs : parents'[a] # Unknown => parents'[a] = parent'[a]
    BY <1>1, <1>3 DEF rows, RowsOK
  <2> QED BY <1>1, <1>3, <2>1, SameRows DEF rows
<1>4. CASE Proposes BY <1>1, <1>3, <1>4, ProposeEffect
<1>5. CASE \/ StopOnBudget \/ StartRound \/ ProposedEnough \/ AcceptDuplicate
           \/ IdleRound \/ BatchDone \/ Finalise
  BY <1>3, <1>5 DEF StopOnBudget, StartRound, ProposedEnough, AcceptDuplicate, IdleRound,
     BatchDone, Finalise, memory
<1>6. CASE RunBatch
  <2>1. \A a \in Archs : table'[a] # Absent => table[a] # Absent
    <3>1. \A a \in Archs : table'[a] # table[a] => \E i \in DOMAIN tasks' : tasks'[i] = a
      BY <1>1, <1>6, BatchTaken
    <3>2. \A i \in DOMAIN tasks' : table[tasks'[i]] # Absent
      BY <1>1, <1>6, BatchTaken DEF Absent
    <3> QED BY <3>1, <3>2
  <2>2. \A a \in Archs : parents'[a] # Unknown => parents'[a] = parent'[a]
    <3>1. parents' = WithParents(tasks') /\ parent' = parent
      BY <1>1, <1>6, BatchTaken DEF RunBatch
    <3> QED BY <1>1, <3>1 DEF WithParents, RowsOK
  <2>3. inserted' = inserted /\ parent' = parent BY <1>6 DEF RunBatch
  <2> QED BY <1>1, <2>1, <2>2, <2>3, SameRows
<1>7. CASE Succeed \/ Retry \/ Fail
  <2> DEFINE a == Head(tasks)
  <2>1. a \in Archs /\ table[a] = "RUNNING"
    BY <1>1, <1>7, AtHead DEF Succeed, Retry, Fail, AtResult
  <2>2. /\ inserted' = inserted /\ parent' = parent /\ parents' = parents
        /\ \E st \in {"COMPLETED", "QUEUED", "FAILED"} : table' = [table EXCEPT ![a] = st]
    BY <1>7 DEF Succeed, Retry, Fail, AtResult
  <2> HIDE DEF a
  <2>3. \A b \in Archs : table'[b] # Absent => table[b] # Absent
    BY <1>1, <2>1, <2>2 DEF TypeOK, Absent
  <2>4. \A b \in Archs : parents'[b] # Unknown => parents'[b] = parent'[b]
    BY <1>1, <2>2 DEF RowsOK
  <2> QED BY <1>1, <2>2, <2>3, <2>4, SameRows
<1>8. CASE Crash \/ Resume
  <2>1. \A b \in Archs : parents'[b] = Unknown
    BY <1>8 DEF Crash, Resume, Booted
  <2>2. inserted' = inserted /\ parent' = parent BY <1>8 DEF Crash, Resume, rows
  <2>3. \A b \in Archs : table'[b] # Absent => table[b] # Absent
    BY <1>8 DEF Crash, Resume, rows, Absent
  <2> QED BY <1>1, <2>1, <2>2, <2>3, SameRows
<1> QED BY <1>2, <1>4, <1>5, <1>6, <1>7, <1>8 DEF Next, EngineStep, Proposes

LEMMA TasksStep ==
    ASSUME IInv, Next
    PROVE  TasksOK'
<1>1. TypeOK /\ RowsOK /\ TasksOK /\ OfferOK BY DEF IInv
<1>2. CASE tasks' = <<>>
  <2>1. DOMAIN tasks' = {} BY <1>2
  <2> QED BY <1>2, <2>1 DEF TasksOK
<1>3. CASE RunBatch
  <2>1. /\ \A i, j \in DOMAIN tasks' : tasks'[i] = tasks'[j] => i = j
        /\ tasks' \in Seq(Archs) /\ parents' = WithParents(tasks')
        /\ table' = [a \in Archs |->
              IF \E i \in DOMAIN tasks' : tasks'[i] = a THEN "RUNNING" ELSE table[a]]
        /\ pc' = "results"
    BY <1>1, <1>3, BatchTaken DEF RunBatch
  <2>2. \A i \in DOMAIN tasks' : tasks'[i] \in Archs BY <2>1, ElementOfSeq, LenProperties
  <2>3. \A a \in Archs : parent[a] # Unknown
    BY <1>1, StrategyAssumption DEF TypeOK, Parents, Unknown, NoParent
  <2> QED BY <2>1, <2>2, <2>3 DEF TasksOK, WithParents
<1>4. CASE Succeed \/ Retry \/ Fail
  <2> DEFINE a == Head(tasks)
  <2>1. /\ a \in Archs /\ Tail(tasks) \in Seq(Archs)
        /\ \A i, j \in DOMAIN Tail(tasks) : Tail(tasks)[i] = Tail(tasks)[j] => i = j
        /\ \A i \in DOMAIN Tail(tasks) :
              /\ Tail(tasks)[i] # a
              /\ \E j \in DOMAIN tasks : Tail(tasks)[i] = tasks[j]
    BY <1>1, <1>4, AtHead DEF Succeed, Retry, Fail, AtResult
  <2>2. /\ tasks' = Tail(tasks) /\ pc' = pc /\ pc = "results" /\ parents' = parents
        /\ \E st \in {"COMPLETED", "QUEUED", "FAILED"} : table' = [table EXCEPT ![a] = st]
    BY <1>4 DEF Succeed, Retry, Fail, AtResult
  <2> HIDE DEF a
  <2>3. ASSUME NEW i \in DOMAIN tasks'
        PROVE  table'[tasks'[i]] = "RUNNING" /\ parents'[tasks'[i]] # Unknown
    <3>1. PICK j \in DOMAIN tasks : tasks'[i] = tasks[j] BY <2>1, <2>2
    <3>2. table[tasks[j]] = "RUNNING" /\ parents[tasks[j]] # Unknown BY <1>1 DEF TasksOK
    <3>3. tasks'[i] # a BY <2>1, <2>2
    <3>4. tasks'[i] \in Archs
      <4>1. tasks \in Seq(Archs) BY <1>1 DEF TypeOK
      <4>2. tasks[j] \in Archs BY <4>1, ElementOfSeq, LenProperties
      <4> QED BY <3>1, <4>2
    <3> QED BY <1>1, <2>2, <3>1, <3>2, <3>3, <3>4 DEF TypeOK
  <2> QED BY <2>1, <2>2, <2>3 DEF TasksOK
<1>5. CASE Proposes
  <2>1. pc = "propose" /\ tasks' = tasks BY <1>1, <1>5, ProposeEffect
  <2> QED BY <1>1, <1>2, <2>1 DEF TasksOK
<1>6. CASE \/ StopOnBudget \/ StartRound \/ ProposedEnough \/ AcceptDuplicate
           \/ AcceptNew \/ IdleRound \/ BatchDone \/ Finalise
  <2>1. tasks' = tasks /\ (pc # "results" \/ tasks = <<>>)
    BY <1>6 DEF StopOnBudget, StartRound, ProposedEnough, AcceptDuplicate, AcceptNew, IdleRound,
       BatchDone, Finalise, memory
  <2> QED BY <1>1, <1>2, <2>1 DEF TasksOK
<1>7. CASE Crash \/ Resume BY <1>2, <1>7 DEF Crash, Resume, Booted
<1> QED BY <1>3, <1>4, <1>5, <1>6, <1>7 DEF Next, EngineStep, Proposes

\* The offers, when one comes and when one goes.
LEMMA OfferComes ==
    ASSUME TypeOK, NEW a, NEW p, offer' = Append(offer, <<a, p>>), a \in Archs, p \in Parents
    PROVE  /\ Offered' = Offered \cup {a}
           /\ Len(offer') = Len(offer) + 1
           /\ \A i \in DOMAIN offer' :
                 \/ i = Len(offer) + 1 /\ offer'[i] = <<a, p>>
                 \/ i \in DOMAIN offer /\ offer'[i] = offer[i]
           /\ \A i \in DOMAIN offer : i \in DOMAIN offer' /\ offer'[i] = offer[i]
           /\ \E i \in DOMAIN offer' : offer'[i] = <<a, p>>
           /\ offer' # <<>>
<1> DEFINE n == Len(offer)
           T == Archs \X Parents
<1>1. offer \in Seq(T) /\ <<a, p>> \in T BY DEF TypeOK
<1>2. n \in Nat /\ DOMAIN offer = 1..n BY <1>1, LenProperties
<1>3. /\ offer' \in Seq(T) /\ Len(offer') = n + 1 /\ offer'[n + 1] = <<a, p>>
      /\ \A i \in 1..n : offer'[i] = offer[i]
  BY <1>1, AppendProperties
<1>4. DOMAIN offer' = 1..(n + 1) BY <1>3, LenProperties
<1> HIDE DEF n, T
<1>5. \A i \in 1..(n + 1) : i = n + 1 \/ i \in 1..n BY <1>2
<1>6. n + 1 \in 1..(n + 1) /\ 1..n \subseteq 1..(n + 1) BY <1>2
<1>7. \A i \in DOMAIN offer' :
         \/ i = n + 1 /\ offer'[i] = <<a, p>>
         \/ i \in DOMAIN offer /\ offer'[i] = offer[i]
  BY <1>2, <1>3, <1>4, <1>5
<1>8. \A i \in DOMAIN offer : i \in DOMAIN offer' /\ offer'[i] = offer[i]
  BY <1>2, <1>3, <1>4, <1>6
<1>9. \E i \in DOMAIN offer' : offer'[i] = <<a, p>> BY <1>3, <1>4, <1>6
<1>10. Offered' = Offered \cup {a} BY <1>7, <1>8, <1>9 DEF Offered
<1>11. offer' # <<>> BY <1>2, <1>3, EmptySeq
<1> QED BY <1>3, <1>7, <1>8, <1>9, <1>10, <1>11 DEF n

LEMMA OfferGoes ==
    ASSUME TypeOK, offer # <<>>, offer' = Tail(offer)
    PROVE  /\ Offered = Offered' \cup {Head(offer)[1]}
           /\ Len(offer) \in Nat /\ Len(offer') = Len(offer) - 1
           /\ \A i \in DOMAIN offer' : \E j \in DOMAIN offer : j # 1 /\ offer'[i] = offer[j]
           /\ \A j \in DOMAIN offer :
                 offer[j] = Head(offer) \/ \E i \in DOMAIN offer' : offer'[i] = offer[j]
           /\ 1 \in DOMAIN offer /\ offer[1] = Head(offer)
<1>1. /\ Len(offer) \in Nat /\ Len(offer') = Len(offer) - 1
      /\ 1 \in DOMAIN offer /\ offer[1] = Head(offer)
      /\ DOMAIN offer = 1..Len(offer)
      /\ \A i \in DOMAIN offer' :
            i + 1 \in DOMAIN offer /\ i + 1 # 1 /\ offer'[i] = offer[i + 1]
      /\ \A i \in DOMAIN offer : i = 1 \/ (i - 1) \in DOMAIN offer'
  BY OfferHead
<1>2. \A i \in DOMAIN offer' : \E j \in DOMAIN offer : j # 1 /\ offer'[i] = offer[j]
  BY <1>1
<1>3. ASSUME NEW j \in DOMAIN offer, j # 1
      PROVE  \E i \in DOMAIN offer' : offer'[i] = offer[j]
  <2>1. j - 1 \in DOMAIN offer' /\ (j - 1) + 1 = j BY <1>1, <1>3
  <2> QED BY <1>1, <2>1
<1>4. Offered = Offered' \cup {Head(offer)[1]}
  <2>1. ASSUME NEW x \in Offered PROVE x \in Offered' \cup {Head(offer)[1]}
    <3>1. PICK j \in DOMAIN offer : x = offer[j][1] BY DEF Offered
    <3>2. CASE j = 1 BY <1>1, <3>1, <3>2
    <3>3. CASE j # 1
      <4>1. PICK i \in DOMAIN offer' : offer'[i] = offer[j] BY <1>3, <3>3
      <4>2. x = offer'[i][1] BY <3>1, <4>1
      <4> QED BY <4>1, <4>2 DEF Offered
    <3> QED BY <3>2, <3>3
  <2>2. ASSUME NEW x \in Offered' PROVE x \in Offered
    <3>1. PICK i \in DOMAIN offer' : x = offer'[i][1] BY DEF Offered
    <3>2. PICK j \in DOMAIN offer : offer'[i] = offer[j] BY <1>2, <3>1
    <3> QED BY <3>1, <3>2 DEF Offered
  <2>3. Head(offer)[1] \in Offered BY <1>1 DEF Offered
  <2> QED BY <2>1, <2>2, <2>3
<1> QED BY <1>1, <1>2, <1>3, <1>4

LEMMA NothingOffered ==
    /\ offer = <<>> => Offered = {} /\ DOMAIN offer = {}
    /\ offer' = <<>> => Offered' = {} /\ DOMAIN offer' = {}
BY DEF Offered

\* The parent of a child is a member of the population, so it was told of.
LEMMA ParentsScored ==
    ASSUME TypeOK, Grounded(strategy, told, table, score, parent), setting.evolving,
           NEW i \in DOMAIN strategy.population
    PROVE  LET p == strategy.population[i].arch IN
           p \in Archs /\ table[p] = "COMPLETED" /\ score[p] # Unscored
<1> DEFINE gone == Len(told) - Len(strategy.population)
<1>1. /\ strategy.population \in Seq(Members) /\ told \in Seq(Archs)
  <2>1. strategy \in States BY DEF TypeOK
  <2> QED BY <2>1, Countable DEF TypeOK
<1>2. /\ Len(told) \in Nat /\ DOMAIN told = 1..Len(told)
      /\ Len(strategy.population) \in Nat
      /\ DOMAIN strategy.population = 1..Len(strategy.population)
  BY <1>1, LenProperties
<1>3. /\ Len(strategy.population) = Least(Len(told), PopulationSize)
      /\ strategy.population[i].arch = told[gone + i]
      /\ \A j \in DOMAIN told : table[told[j]] = "COMPLETED" /\ score[told[j]] # Unscored
  BY DEF Grounded, Aged
<1>4. Len(strategy.population) <= Len(told)
  BY <1>2, <1>3, LeastIs, StrategyAssumption DEF PlanValid
<1>5. gone + i \in DOMAIN told BY <1>2, <1>4
<1>6. told[gone + i] \in Archs BY <1>1, <1>2, <1>5, ElementOfSeq
<1> QED BY <1>3, <1>5, <1>6

LEMMA OfferStep ==
    ASSUME IInv, Next
    PROVE  OfferOK'
<1>1. /\ TypeOK /\ RowsOK /\ TasksOK /\ OfferOK /\ SavedOK
      /\ Grounded(strategy, told, table, score, parent)
  BY DEF IInv
<1>2. RowsGrow /\ (~AcceptNew => Rows' = Rows) /\ TypeOK'
  BY <1>1, GrowingRows, RowsStep, TypeStep
<1>3. /\ strategy \in States /\ strategy.proposed \in 0..MaxEvaluations
      /\ MaxEvaluations \in Nat /\ wanted \in Nat
  <2>1. strategy \in States BY <1>1 DEF TypeOK
  <2> QED BY <1>1, <2>1, Countable, StrategyAssumption DEF PlanValid, TypeOK
\* Offered children keep their parents, whatever a step does to the rows.
<1>4. ASSUME \A i \in DOMAIN offer' : offer'[i][2] # NoParent =>
                table[offer'[i][2]] = "COMPLETED" /\ score[offer'[i][2]] # Unscored
      PROVE  \A i \in DOMAIN offer' : offer'[i][2] # NoParent =>
                table'[offer'[i][2]] = "COMPLETED" /\ score'[offer'[i][2]] # Unscored
  <2> SUFFICES ASSUME NEW i \in DOMAIN offer', offer'[i][2] # NoParent
               PROVE  table'[offer'[i][2]] = "COMPLETED" /\ score'[offer'[i][2]] # Unscored
    OBVIOUS
  <2>1. offer' \in Seq(Archs \X Parents) BY <1>2 DEF TypeOK
  <2>2. offer'[i] \in Archs \X Parents BY <2>1, ElementOfSeq, LenProperties
  <2>3. offer'[i][2] \in Archs BY <2>2 DEF Parents
  <2> QED BY <1>2, <1>4, <2>3 DEF RowsGrow
\* Steps between rounds, after which nothing is on offer.
<1>5. ASSUME offer' = <<>>, wanted' = 0 \/ pc' = "propose",
             wanted' <= Remaining(strategy'), strategy'.seen \subseteq Rows',
             pc' \notin {"save", "stopped"} => reason' = "NONE", pc' = "down" => refused' = 0
      PROVE  OfferOK'
  BY <1>5, NothingOffered DEF OfferOK
<1>6. ASSUME offer = <<>>
      PROVE  strategy.seen \subseteq Rows
  BY <1>1, <1>6, NothingOffered DEF OfferOK
<1>7. 0 <= Remaining(strategy) BY <1>3 DEF Remaining
<1>8. CASE StopOnBudget \/ BatchDone \/ Finalise
  <2>1. /\ offer' = offer /\ offer = <<>> /\ strategy' = strategy
        /\ wanted' = wanted /\ wanted = 0 /\ ~AcceptNew
        /\ pc' \notin {"save", "stopped"} => reason' = "NONE"
        /\ pc' # "down"
    BY <1>1, <1>8 DEF StopOnBudget, BatchDone, Finalise, memory, OfferOK, AcceptNew
  <2> QED BY <1>2, <1>5, <1>6, <1>7, <2>1
<1>9. CASE StartRound
  <2>1. /\ offer' = <<>> /\ offer = <<>> /\ strategy' = strategy /\ pc' = "propose"
        /\ reason' = reason /\ reason = "NONE" /\ ~AcceptNew
    BY <1>1, <1>9 DEF StartRound, OfferOK, AcceptNew
  <2>2. wanted' <= Remaining(strategy) BY <1>1, <1>9, RoundWants
  <2> QED BY <1>2, <1>5, <1>6, <2>1, <2>2
<1>10. CASE Proposes
  <2>1. /\ (\E a \in Archs, p \in Parents : Hits(a, p)) \/ FindsNothing
        /\ pc = "propose" /\ wanted > 0 /\ table' = table /\ score' = score
        /\ reason' = reason /\ reason = "NONE" /\ Rows' = Rows
    BY <1>1, <1>10, ProposeEffect DEF rows, OfferOK, Rows
  <2>2. CASE FindsNothing
    <3>1. /\ offer' = offer /\ pc' = "accept" /\ wanted' = 0
          /\ strategy'.seen = strategy.seen /\ Remaining(strategy') = Remaining(strategy)
      BY <2>2 DEF FindsNothing, Remaining
    <3>2. Offered' = Offered BY <3>1 DEF Offered
    <3> QED BY <1>1, <1>4, <1>7, <2>1, <3>1, <3>2 DEF OfferOK
  <2>3. ASSUME NEW a \in Archs, NEW p \in Parents, Hits(a, p)
        PROVE  OfferOK'
    <3>1. /\ offer' = Append(offer, <<a, p>>) /\ pc' = "propose" /\ wanted' = wanted - 1
          /\ strategy'.seen = strategy.seen \cup {a}
          /\ strategy'.proposed = strategy.proposed + 1
      BY <2>1, <2>3 DEF Hits
    <3>2. /\ Offered' = Offered \cup {a}
          /\ \A i \in DOMAIN offer' :
                offer'[i] = <<a, p>> \/ (i \in DOMAIN offer /\ offer'[i] = offer[i])
      BY <1>1, <3>1, OfferComes
    <3>3. p # NoParent => table[p] = "COMPLETED" /\ score[p] # Unscored
      BY <1>1, <2>3, ParentsScored DEF Hits
    <3>4. \A i \in DOMAIN offer' : offer'[i][2] # NoParent =>
                table[offer'[i][2]] = "COMPLETED" /\ score[offer'[i][2]] # Unscored
      BY <1>1, <3>2, <3>3 DEF OfferOK
    <3>5. wanted' <= Remaining(strategy')
      <4>1. wanted <= Remaining(strategy) BY <1>1 DEF OfferOK
      <4> QED BY <1>3, <3>1, <4>1 DEF Remaining
    <3>6. strategy'.seen \subseteq Rows' \cup Offered'
      BY <1>1, <2>1, <3>1, <3>2 DEF OfferOK
    <3> QED BY <1>4, <2>1, <3>1, <3>4, <3>5, <3>6 DEF OfferOK
  <2> QED BY <2>1, <2>2, <2>3
<1>11. CASE ProposedEnough
  <2>1. /\ pc' = "accept" /\ wanted' = 0 /\ offer' = offer /\ strategy' = strategy
        /\ reason' = reason /\ reason = "NONE" /\ ~AcceptNew
    BY <1>1, <1>11 DEF ProposedEnough, memory, OfferOK, AcceptNew
  <2>2. Offered' = Offered BY <2>1 DEF Offered
  <2> QED BY <1>1, <1>2, <1>4, <1>7, <2>1, <2>2 DEF OfferOK
<1>12. CASE AcceptDuplicate
  <2> DEFINE a == Head(offer)[1]
  <2>1. /\ pc = "accept" /\ pc' = pc /\ offer # <<>> /\ offer' = Tail(offer)
        /\ table[a] # Absent /\ strategy' = Rejected(strategy, a)
        /\ wanted' = wanted /\ wanted = 0 /\ reason' = reason /\ reason = "NONE"
        /\ Rows' = Rows
    BY <1>1, <1>12 DEF AcceptDuplicate, OfferOK, rows, Rows
  <2>2. a \in Archs /\ a \in Rows BY <1>1, <2>1, OfferHead DEF Rows
  <2>3. /\ Offered = Offered' \cup {a}
        /\ \A i \in DOMAIN offer' : \E j \in DOMAIN offer : offer'[i] = offer[j]
    BY <1>1, <2>1, OfferGoes
  <2>4. /\ strategy'.seen = strategy.seen \cup {a}
        /\ strategy'.proposed = strategy.proposed
    BY <1>3, <2>1, <2>2, Rejects
  <2>5. \A i \in DOMAIN offer' : offer'[i][2] # NoParent =>
                table[offer'[i][2]] = "COMPLETED" /\ score[offer'[i][2]] # Unscored
    BY <1>1, <2>3 DEF OfferOK
  <2>6. strategy'.seen \subseteq Rows' \cup Offered'
    BY <1>1, <2>1, <2>2, <2>3, <2>4 DEF OfferOK
  <2>7. wanted' <= Remaining(strategy') BY <1>7, <2>1, <2>4 DEF Remaining
  <2> HIDE DEF a
  <2> QED BY <1>4, <2>1, <2>5, <2>6, <2>7 DEF OfferOK
<1>13. CASE AcceptNew
  <2> DEFINE a == Head(offer)[1]
  <2>1. /\ pc = "accept" /\ pc' = pc /\ offer # <<>> /\ offer' = Tail(offer)
        /\ strategy' = strategy
        /\ wanted' = wanted /\ wanted = 0 /\ reason' = reason /\ reason = "NONE"
    BY <1>1, <1>13 DEF AcceptNew, OfferOK
  <2>2. Rows' = Rows \cup {a} BY <1>1, <1>13, NewRow
  <2>3. /\ Offered = Offered' \cup {a}
        /\ \A i \in DOMAIN offer' : \E j \in DOMAIN offer : offer'[i] = offer[j]
    BY <1>1, <2>1, OfferGoes
  <2>4. \A i \in DOMAIN offer' : offer'[i][2] # NoParent =>
                table[offer'[i][2]] = "COMPLETED" /\ score[offer'[i][2]] # Unscored
    BY <1>1, <2>3 DEF OfferOK
  <2> HIDE DEF a
  <2>5. strategy'.seen \subseteq Rows' \cup Offered'
    BY <1>1, <2>1, <2>2, <2>3 DEF OfferOK
  <2> QED BY <1>4, <1>7, <2>1, <2>4, <2>5 DEF OfferOK
<1>14. CASE RunBatch \/ IdleRound
  <2>1. /\ offer = <<>> /\ offer' = offer /\ strategy' = strategy /\ wanted' = wanted
        /\ wanted = 0 /\ pc' # "down" /\ ~AcceptNew
        /\ pc' \notin {"save", "stopped"} => reason' = "NONE"
    BY <1>1, <1>14 DEF RunBatch, IdleRound, OfferOK, AcceptNew
  <2> QED BY <1>2, <1>5, <1>6, <1>7, <2>1
<1>15. CASE Succeed \/ Retry \/ Fail
  <2> DEFINE a == Head(tasks)
  <2>1. /\ pc = "results" /\ pc' = pc /\ offer' = offer /\ offer = <<>>
        /\ wanted' = wanted /\ wanted = 0 /\ reason' = reason /\ reason = "NONE"
        /\ ~AcceptNew
    BY <1>1, <1>15 DEF Succeed, Retry, Fail, AtResult, OfferOK, AcceptNew
  <2>2. a \in Archs /\ a \in Rows /\ parents[a] \in Parents
    BY <1>1, <1>15, AtHead DEF Succeed, Retry, Fail, AtResult, Rows, Absent
  <2>3. \/ strategy' = strategy
        \/ \E b \in BOOLEAN, v \in Scores \cup {Unscored} :
              strategy' = Observed(strategy, a, b, v)
    BY <1>15 DEF Succeed, Retry, Fail
  <2>4. /\ strategy'.proposed = strategy.proposed
        /\ strategy'.seen \subseteq strategy.seen \cup {a}
    BY <1>1, <2>2, <2>3, Observes DEF Counted
  <2>5. strategy'.seen \subseteq Rows' BY <1>2, <1>6, <2>1, <2>2, <2>4
  <2>6. wanted' <= Remaining(strategy') BY <1>7, <2>1, <2>4 DEF Remaining
  <2> QED BY <1>5, <2>1, <2>5, <2>6
<1>16. ASSUME NEW s \in States, s.seen \subseteq Rows, NEW t, Booted(s, t), ~AcceptNew
       PROVE  OfferOK'
  <2>1. /\ offer' = <<>> /\ wanted' = 0 /\ strategy' = s /\ reason' = "NONE"
        /\ refused' = 0
    BY <1>16 DEF Booted
  <2>2. s.proposed \in 0..MaxEvaluations BY Countable
  <2>3. 0 <= Remaining(s) BY <1>3, <2>2 DEF Remaining
  <2> QED BY <1>2, <1>5, <1>16, <2>1, <2>3
<1>17. Fresh \in States /\ Fresh.seen = {} BY FreshTyped
<1>18. CASE Crash
  <2>1. Booted(Fresh, <<>>) BY <1>18 DEF Crash
  <2>2. pc' = "down" BY <1>18 DEF Crash
  <2>3. ~AcceptNew
    <3>1. AcceptNew => pc = "accept" /\ pc' = pc BY DEF AcceptNew
    <3> QED BY <2>2, <3>1
  <2> QED BY <1>16, <1>17, <2>1, <2>3
<1>19. CASE Resume
  <2>1. ~AcceptNew BY <1>19 DEF Resume, AcceptNew
  <2>2. CASE saved = <<>> BY <1>16, <1>17, <1>19, <2>1, <2>2 DEF Resume
  <2>3. CASE saved # <<>>
    <3>1. saved \in Seq([strategy : States, told : Seq(Archs)]) BY <1>1 DEF TypeOK
    <3>2. 1 \in DOMAIN saved BY <2>3, <3>1, EmptySeq, LenProperties
    <3>3. saved[1] \in [strategy : States, told : Seq(Archs)]
      BY <3>1, <3>2, ElementOfSeq, LenProperties
    <3>4. saved[1].strategy.seen \subseteq Rows BY <1>1, <3>2 DEF SavedOK
    <3>5. Booted(saved[1].strategy, saved[1].told) BY <1>19, <2>3 DEF Resume
    <3> QED BY <1>16, <2>1, <3>3, <3>4, <3>5
  <2> QED BY <2>2, <2>3
<1> QED BY <1>8, <1>9, <1>10, <1>11, <1>12, <1>13, <1>14, <1>15, <1>18, <1>19
    DEF Next, EngineStep, Proposes

-----------------------------------------------------------------------------
(***************************************************************************)
(* What the strategy was told.                                             *)
(***************************************************************************)
\* The strategy's part of the memory survives when the results it has seen do.
LEMMA GroundedKept ==
    ASSUME TypeOK, Grounded(strategy, told, table, score, parent), RowsGrow,
           strategy' \in States, SameResults(strategy, strategy'), told' = told,
           ~setting.evolving => strategy'.pending = strategy.pending
    PROVE  Grounded(strategy, told, table, score, parent)'
<1>1. strategy \in States /\ told \in Seq(Archs) BY DEF TypeOK
<1>2. Grounded(strategy, told, table', score', parent') BY <1>1, GroundedStays
<1>3. setting' = setting BY DEF RowsGrow
<1> QED BY <1>2, <1>3 DEF Grounded, Aged, SameResults

\* A result, whose row has now ended.
LEMMA GroundedObserves ==
    ASSUME IInv, TypeOK', RowsGrow, Succeed \/ Fail
    PROVE  Grounded(strategy, told, table, score, parent)'
<1> DEFINE a == Head(tasks)
<1>1. /\ TypeOK /\ RowsOK /\ TasksOK /\ Grounded(strategy, told, table, score, parent)
      /\ setting' = setting
  BY DEF IInv, RowsGrow
<1>2. /\ a \in Archs /\ parents[a] = parent[a] /\ parents[a] \in Parents
      /\ parent' = parent
  BY <1>1, AtHead DEF Succeed, Fail, AtResult
<1>3. strategy \in States /\ told \in Seq(Archs) BY <1>1 DEF TypeOK
<1>4. Grounded(strategy, told, table', score', parent') BY <1>1, <1>3, GroundedStays
<1> HIDE DEF a
\* Without a score nothing enters the population.
<1>5. ASSUME NEW b \in BOOLEAN, NEW v, ~b \/ v = Unscored, told' = told,
             strategy' = Observed(strategy, a, b, v)
      PROVE  Grounded(strategy, told, table, score, parent)'
  <2>1. CASE setting.evolving
    <3>1. strategy' = EvolutionObserved(strategy, a, b, v, parents[a])
      BY <1>5, <2>1 DEF Observed
    <3>2. /\ Counted(strategy, a, strategy')
          /\ strategy'.population = strategy.population
          /\ strategy'.generation = strategy.generation
          /\ strategy'.succeeded = strategy.succeeded
          /\ strategy'.retired = strategy.retired
      BY <1>2, <1>3, <1>5, <3>1, FailureCounts
    <3> QED BY <1>1, <1>4, <1>5, <2>1, <3>2 DEF Grounded, Aged, Counted
  <2>2. CASE ~setting.evolving
    <3>1. strategy' = RandomObserved(strategy, a, b) BY <1>5, <2>2 DEF Observed
    <3>2. /\ Counted(strategy, a, strategy')
          /\ strategy'.population = strategy.population
          /\ strategy'.pending = strategy.pending
      BY <1>2, <1>3, <3>1, RandomCounts
    <3> QED BY <1>1, <1>4, <1>5, <2>2, <3>2 DEF Grounded, Counted
  <2> QED BY <2>1, <2>2
<1>6. CASE Fail
  <2>1. told' = told /\ strategy' = Observed(strategy, a, FALSE, Unscored)
    BY <1>6 DEF Fail, a
  <2> QED BY <1>5, <2>1
<1>7. CASE Succeed
  <2>1. PICK v \in Scores \cup {Unscored} :
            /\ table' = [table EXCEPT ![a] = "COMPLETED"]
            /\ score' = [score EXCEPT ![a] = v]
            /\ strategy' = Observed(strategy, a, TRUE, v)
            /\ told' = IF v = Unscored THEN told ELSE Append(told, a)
    BY <1>7 DEF Succeed, a
  <2>2. CASE v = Unscored BY <1>5, <2>1, <2>2
  <2>3. CASE v # Unscored
    <3>1. /\ v \in Scores /\ told' = Append(told, a)
          /\ table'[a] = "COMPLETED" /\ score'[a] = v
      BY <1>1, <1>2, <2>1, <2>3 DEF TypeOK
    <3>2. \A i \in DOMAIN told' :
             table'[told'[i]] = "COMPLETED" /\ score'[told'[i]] # Unscored
      <4>1. /\ DOMAIN told = 1..Len(told) /\ Len(told) \in Nat
            /\ DOMAIN told' = 1..(Len(told) + 1)
            /\ told'[Len(told) + 1] = a /\ \A i \in 1..Len(told) : told'[i] = told[i]
        <5>1. /\ told' \in Seq(Archs) /\ Len(told') = Len(told) + 1
              /\ told'[Len(told) + 1] = a /\ \A i \in 1..Len(told) : told'[i] = told[i]
          BY <1>2, <1>3, <3>1, AppendProperties
        <5> QED BY <1>3, <5>1, LenProperties
      <4>2. ASSUME NEW i \in DOMAIN told' PROVE i = Len(told) + 1 \/ i \in DOMAIN told
        BY <4>1
      <4> QED BY <1>4, <2>3, <3>1, <4>1, <4>2 DEF Grounded
    <3>3. CASE setting.evolving
      <4>1. strategy' = EvolutionObserved(strategy, a, TRUE, v, parents[a])
        BY <2>1, <3>3 DEF Observed
      <4>2. score'[a] = v /\ parent'[a] = parents[a] BY <1>2, <3>1
      <4>3. /\ Counted(strategy, a, strategy')
            /\ strategy'.population =
                  Appended(strategy, Entry(strategy, a, score'[a], parent'[a]))
            /\ strategy'.generation = strategy.generation + 1
            /\ strategy'.succeeded = strategy.succeeded + 1
            /\ strategy'.retired =
                  IF Len(strategy.population) = PopulationSize THEN strategy.retired + 1
                  ELSE strategy.retired
        BY <1>2, <1>3, <2>3, <3>1, <4>1, <4>2, SuccessCounts
      <4>4. Aged(strategy, told, score', parent') BY <1>4, <3>3 DEF Grounded
      <4>5. strategy' \in States BY <4>3 DEF Counted
      <4>6. Aged(strategy', Append(told, a), score', parent')
        BY <1>2, <1>3, <4>3, <4>4, <4>5, AgedGrows
      <4> QED BY <1>1, <1>4, <3>1, <3>2, <3>3, <4>3, <4>6 DEF Grounded, Counted, Aged
    <3>4. CASE ~setting.evolving
      <4>1. strategy' = RandomObserved(strategy, a, TRUE) BY <2>1, <3>4 DEF Observed
      <4>2. /\ Counted(strategy, a, strategy')
            /\ strategy'.population = strategy.population
            /\ strategy'.pending = strategy.pending
        BY <1>2, <1>3, <4>1, RandomCounts
      <4> QED BY <1>1, <1>4, <3>2, <3>4, <4>2 DEF Grounded, Counted
    <3> QED BY <3>3, <3>4
  <2> QED BY <2>2, <2>3
<1> QED BY <1>6, <1>7

\* What is in memory, also that of a process that starts with a checkpoint.
LEMMA GroundedStep ==
    ASSUME IInv, Next
    PROVE  Grounded(strategy, told, table, score, parent)'
<1>1. /\ TypeOK /\ RowsOK /\ TasksOK /\ OfferOK /\ SavedOK /\ TypeOK' /\ RowsGrow
      /\ Grounded(strategy, told, table, score, parent)
  BY TypeStep, GrowingRows DEF IInv
<1>2. /\ strategy' \in States /\ strategy \in States
      /\ SameResults(strategy, strategy)
  BY <1>1 DEF TypeOK, SameResults
<1>3. CASE UNCHANGED <<strategy, told>> BY <1>1, <1>2, <1>3, GroundedKept
<1>4. CASE \/ StopOnBudget \/ StartRound \/ ProposedEnough \/ AcceptNew \/ RunBatch
           \/ IdleRound \/ Retry \/ BatchDone \/ Finalise
  BY <1>3, <1>4 DEF StopOnBudget, StartRound, ProposedEnough, AcceptNew, RunBatch, IdleRound,
     Retry, BatchDone, Finalise, memory
<1>5. CASE Proposes
  <2>1. /\ (\E a \in Archs, p \in Parents : Hits(a, p)) \/ FindsNothing
        /\ told' = told
    BY <1>1, <1>5, ProposeEffect
  <2>2. /\ SameResults(strategy, strategy')
        /\ ~setting.evolving => strategy'.pending = strategy.pending
    <3>1. CASE FindsNothing BY <3>1 DEF FindsNothing
    <3>2. ASSUME NEW a \in Archs, NEW p \in Parents, Hits(a, p)
          PROVE  /\ SameResults(strategy, strategy')
                 /\ ~setting.evolving => strategy'.pending = strategy.pending
      BY <3>2 DEF Hits
    <3> QED BY <2>1, <3>1, <3>2
  <2> QED BY <1>1, <1>2, <2>1, <2>2, GroundedKept
<1>6. CASE AcceptDuplicate
  <2> DEFINE a == Head(offer)[1]
  <2>1. a \in Archs /\ strategy' = Rejected(strategy, a) /\ told' = told
    BY <1>1, <1>6, OfferHead DEF AcceptDuplicate
  <2> HIDE DEF a
  <2>2. SameResults(strategy, strategy') /\ strategy'.pending = strategy.pending
    BY <1>2, <2>1, Rejects
  <2> QED BY <1>1, <1>2, <2>1, <2>2, GroundedKept
<1>7. CASE Succeed \/ Fail BY <1>1, <1>7, GroundedObserves
<1>8. ASSUME NEW s \in States, NEW t \in Seq(Archs), Booted(s, t),
             Grounded(s, t, table, score, parent)
      PROVE  Grounded(strategy, told, table, score, parent)'
  <2>1. Grounded(s, t, table', score', parent') BY <1>1, <1>8, GroundedStays
  <2>2. strategy' = s /\ told' = t /\ setting' = setting
    BY <1>1, <1>8 DEF Booted, RowsGrow
  <2> QED BY <2>1, <2>2 DEF Grounded, Aged
<1>9. <<>> \in Seq(Archs) BY EmptySeq
<1>10. CASE Crash BY <1>8, <1>9, <1>10, FreshTyped DEF Crash
<1>11. CASE Resume
  <2>1. CASE saved = <<>> BY <1>8, <1>9, <1>11, <2>1, FreshTyped DEF Resume
  <2>2. CASE saved # <<>>
    <3>1. saved \in Seq([strategy : States, told : Seq(Archs)]) BY <1>1 DEF TypeOK
    <3>2. 1 \in DOMAIN saved BY <2>2, <3>1, EmptySeq, LenProperties
    <3>3. saved[1] \in [strategy : States, told : Seq(Archs)]
      BY <3>1, <3>2, ElementOfSeq, LenProperties
    <3>4. Grounded(saved[1].strategy, saved[1].told, table, score, parent)
      BY <1>1, <3>2 DEF SavedOK
    <3>5. Booted(saved[1].strategy, saved[1].told) BY <1>11, <2>2 DEF Resume
    <3> QED BY <1>8, <3>3, <3>4, <3>5
  <2> QED BY <2>1, <2>2
<1> QED BY <1>4, <1>5, <1>6, <1>7, <1>10, <1>11 DEF Next, EngineStep, Proposes

LEMMA SavedStep ==
    ASSUME IInv, Next
    PROVE  SavedOK'
<1>1. /\ TypeOK /\ RowsOK /\ TasksOK /\ OfferOK /\ SavedOK /\ RowsGrow
      /\ Grounded(strategy, told, table, score, parent)
      /\ (~AcceptNew => Rows' = Rows) /\ setting' = setting
  <2>1. TypeOK /\ RowsOK /\ TasksOK /\ OfferOK /\ SavedOK
        /\ Grounded(strategy, told, table, score, parent)
    BY DEF IInv
  <2> QED BY <2>1, GrowingRows, RowsStep DEF RowsGrow
<1>2. Rows \subseteq Rows' BY <1>1, NewRow
<1>3. ASSUME NEW s \in States, NEW t \in Seq(Archs), Grounded(s, t, table, score, parent)
      PROVE  Grounded(s, t, table', score', parent')
  BY <1>1, <1>3, GroundedStays
<1>4. \A i \in DOMAIN saved : saved[i].strategy \in States /\ saved[i].told \in Seq(Archs)
  <2>1. saved \in Seq([strategy : States, told : Seq(Archs)]) BY <1>1 DEF TypeOK
  <2>2. \A i \in DOMAIN saved : saved[i] \in [strategy : States, told : Seq(Archs)]
    BY <2>1, ElementOfSeq, LenProperties
  <2> QED BY <2>2
<1>5. ASSUME saved' = saved
      PROVE  SavedOK'
  <2>1. \A i \in DOMAIN saved :
           /\ Grounded(saved[i].strategy, saved[i].told, table', score', parent')
           /\ saved[i].strategy.seen \subseteq Rows'
    BY <1>1, <1>2, <1>3, <1>4 DEF SavedOK
  <2>2. ASSUME NEW i \in DOMAIN saved'
        PROVE  /\ Grounded(saved[i].strategy, saved[i].told, table, score, parent)'
               /\ (saved[i].strategy.seen \subseteq Rows)'
    BY <1>1, <1>5, <2>1, ZenonT(60) DEF Grounded, Aged
  <2> QED BY <2>2 DEF SavedOK
<1>6. CASE BatchDone \/ Finalise
  <2>1. saved' \in {saved, Checkpoint} /\ offer = <<>> /\ ~AcceptNew
        /\ rows' = rows
    BY <1>1, <1>6 DEF BatchDone, Finalise, OfferOK, AcceptNew
  <2>2. CASE saved' = Checkpoint
    <3>1. \A i \in DOMAIN saved' :
             saved'[i].strategy = strategy /\ saved'[i].told = told
      BY <2>2 DEF Checkpoint
    <3>2. strategy.seen \subseteq Rows' BY <1>1, <2>1, NothingOffered DEF OfferOK
    <3>3. Grounded(strategy, told, table', score', parent')
      BY <1>1, <2>1 DEF rows
    <3>4. ASSUME NEW i \in DOMAIN saved'
          PROVE  /\ Grounded(saved[i].strategy, saved[i].told, table, score, parent)'
                 /\ (saved[i].strategy.seen \subseteq Rows)'
      <4>1. /\ saved'[i].strategy = strategy /\ saved'[i].told = told
            /\ setting' = setting
        BY <1>1, <3>1
      <4>2. Grounded(saved[i].strategy, saved[i].told, table, score, parent)'
        BY <3>3, <4>1 DEF Grounded, Aged
      <4> QED BY <3>2, <4>1, <4>2
    <3> QED BY <3>4 DEF SavedOK
  <2> QED BY <1>5, <2>1, <2>2
<1>7. CASE \/ StopOnBudget \/ StartRound \/ Proposes \/ ProposedEnough \/ AcceptDuplicate
           \/ AcceptNew \/ RunBatch \/ IdleRound \/ Succeed \/ Retry \/ Fail
           \/ Crash \/ Resume
  <2>1. Proposes => saved' = saved BY <1>1, ProposeEffect
  <2>2. saved' = saved
    BY <1>7, <2>1 DEF StopOnBudget, StartRound, ProposedEnough, AcceptDuplicate, AcceptNew,
       RunBatch, IdleRound, Succeed, Retry, Fail, AtResult, Crash, Resume, memory
  <2> QED BY <1>5, <2>2
<1> QED BY <1>6, <1>7 DEF Next, EngineStep, Proposes

-----------------------------------------------------------------------------
(***************************************************************************)
(* A search that was not resumed.                                          *)
(***************************************************************************)
Uninterrupted == resumes = 0 /\ ~setting.twins /\ pc # "down"

LEMMA StillUninterrupted ==
    ASSUME IInv, Next, Uninterrupted'
    PROVE  /\ EngineStep /\ Uninterrupted /\ setting' = setting
           /\ AllAccounted /\ AllNew /\ (~setting.evolving => Dry)
<1>1. /\ TypeOK /\ RowsGrow BY GrowingRows DEF IInv
<1>2. resumes \in Nat /\ setting' = setting BY <1>1 DEF TypeOK, RowsGrow
<1>3. ~Crash BY DEF Crash, Uninterrupted
<1>4. ~Resume
  <2>1. Resume => resumes' = resumes + 1 BY DEF Resume
  <2> QED BY <1>2, <2>1 DEF Uninterrupted
<1>5. EngineStep BY <1>3, <1>4 DEF Next
<1>6. resumes' = resumes /\ pc # "down"
  <2>1. Proposes => resumes' = resumes /\ pc # "down"
    BY <1>1, ProposeEffect DEF IInv
  <2> QED BY <1>5, <2>1 DEF EngineStep, Proposes, StopOnBudget, StartRound, ProposedEnough,
        AcceptDuplicate, AcceptNew, RunBatch, IdleRound, Succeed, Retry, Fail, AtResult,
        BatchDone, Finalise
<1> QED BY <1>2, <1>5, <1>6 DEF Uninterrupted, IInv, FirstProcess

\* Nothing that was rejected or is on offer has a row already.
LEMMA NewStep ==
    ASSUME IInv, Next, Uninterrupted'
    PROVE  AllNew'
<1>1. /\ EngineStep /\ Uninterrupted /\ setting' = setting /\ AllNew
      /\ TypeOK /\ RowsOK /\ TasksOK /\ OfferOK /\ TypeOK'
      /\ (~AcceptNew => Rows' = Rows)
  BY StillUninterrupted, TypeStep, RowsStep DEF IInv
<1>2. strategy \in States BY <1>1 DEF TypeOK
<1>3. ASSUME offer' = offer, Rows' = Rows, refused' = 0, strategy'.seen = strategy.seen
      PROVE  AllNew'
  <2>1. Offered' = Offered BY <1>3 DEF Offered
  <2>2. \A i \in DOMAIN offer : offer[i][1] \in Archs /\ offer[i][1] \notin Rows
    <3>1. offer \in Seq(Archs \X Parents) BY <1>1 DEF TypeOK
    <3>2. \A i \in DOMAIN offer : offer[i] \in Archs \X Parents
      BY <3>1, ElementOfSeq, LenProperties
    <3> QED BY <1>1, <3>2 DEF AllNew, Rows
  <2>3. \A i \in DOMAIN offer' : table'[offer'[i][1]] = Absent BY <1>3, <2>2 DEF Rows
  <2> QED BY <1>1, <1>3, <2>1, <2>3 DEF AllNew
<1>4. CASE \/ StopOnBudget \/ StartRound \/ ProposedEnough \/ RunBatch
           \/ IdleRound \/ Retry \/ BatchDone \/ Finalise
  <2>1. /\ offer' = offer /\ strategy' = strategy /\ refused' \in {0, refused}
        /\ pc # "accept" \/ offer = <<>>
    BY <1>1, <1>4 DEF StopOnBudget, StartRound, ProposedEnough, RunBatch, IdleRound,
       Retry, AtResult, BatchDone, Finalise, memory, OfferOK
  <2>2. ~AcceptNew BY <2>1 DEF AcceptNew
  <2> QED BY <1>1, <1>3, <2>1, <2>2 DEF AllNew
<1>5. CASE Proposes
  <2>1. /\ (\E a \in Archs, p \in Parents : Hits(a, p)) \/ FindsNothing
        /\ refused' = 0 /\ Rows' = Rows /\ table' = table
    BY <1>1, <1>5, ProposeEffect DEF rows, AllNew, Rows
  <2>2. CASE FindsNothing BY <1>3, <2>1, <2>2 DEF FindsNothing
  <2>3. ASSUME NEW a \in Archs, NEW p \in Parents, Hits(a, p)
        PROVE  AllNew'
    <3>1. /\ offer' = Append(offer, <<a, p>>) /\ strategy'.seen = strategy.seen \cup {a}
          /\ a \notin strategy.seen
      BY <1>1, <2>3 DEF Hits, Uninterrupted
    <3>2. a \notin Rows /\ a \notin Offered /\ table[a] = Absent
      BY <1>1, <3>1 DEF AllNew, Rows
    <3>3. /\ Offered' = Offered \cup {a}
          /\ \A i \in DOMAIN offer' :
                \/ i = Len(offer) + 1 /\ offer'[i] = <<a, p>>
                \/ i \in DOMAIN offer /\ offer'[i] = offer[i]
      BY <1>1, <3>1, OfferComes
    <3>4. \A i \in DOMAIN offer' : table'[offer'[i][1]] = Absent
      BY <1>1, <2>1, <3>2, <3>3 DEF AllNew
    <3>5. ASSUME NEW i \in DOMAIN offer', NEW j \in DOMAIN offer', offer'[i][1] = offer'[j][1]
          PROVE  i = j
      <4>1. \A k \in DOMAIN offer : offer[k][1] # a BY <3>2 DEF Offered
      <4> QED BY <1>1, <3>3, <3>5, <4>1 DEF AllNew
    <3>6. strategy'.seen = Rows' \cup Offered' BY <1>1, <2>1, <3>1, <3>3 DEF AllNew
    <3> QED BY <2>1, <3>4, <3>5, <3>6 DEF AllNew
  <2> QED BY <2>1, <2>2, <2>3
<1>6. CASE AcceptDuplicate
  <2>1. 1 \in DOMAIN offer /\ offer[1] = Head(offer)
    BY <1>1, <1>6, OfferHead DEF AcceptDuplicate
  <2> QED BY <1>1, <1>6, <2>1 DEF AcceptDuplicate, AllNew
<1>7. CASE AcceptNew
  <2> DEFINE a == Head(offer)[1]
  <2>1. /\ offer # <<>> /\ offer' = Tail(offer) /\ strategy' = strategy /\ refused' = refused
    BY <1>7 DEF AcceptNew
  <2>2. Rows' = Rows \cup {a} BY <1>1, <1>7, NewRow
  <2>3. /\ 1 \in DOMAIN offer /\ offer[1] = Head(offer)
        /\ \A i \in DOMAIN offer' :
              i + 1 \in DOMAIN offer /\ i + 1 # 1 /\ offer'[i] = offer[i + 1]
        /\ \A i \in DOMAIN offer' : i \in Int
        /\ \A i \in DOMAIN offer : offer[i][1] \in Archs
    <3>1. /\ offer \in Seq(Archs \X Parents)
          /\ DOMAIN offer' = 1..(Len(offer) - 1)
      BY <1>1, <2>1, OfferHead DEF TypeOK
    <3>2. \A i \in DOMAIN offer : offer[i] \in Archs \X Parents
      BY <3>1, ElementOfSeq, LenProperties
    <3> QED BY <1>1, <2>1, <3>1, <3>2, OfferHead
  <2>4. Offered = Offered' \cup {a} BY <1>1, <2>1, OfferGoes
  <2>5. \A i \in DOMAIN offer' : offer'[i][1] \in Archs /\ offer'[i][1] \notin Rows'
    <3> SUFFICES ASSUME NEW i \in DOMAIN offer'
                 PROVE  offer'[i][1] \in Archs /\ offer'[i][1] \notin Rows'
      OBVIOUS
    <3>1. /\ i + 1 \in DOMAIN offer /\ i + 1 # 1 /\ offer'[i] = offer[i + 1]
          /\ offer'[i][1] \in Archs
      BY <2>3
    <3>2. offer[i + 1][1] # offer[1][1] /\ offer[i + 1][1] \notin Rows
      BY <1>1, <2>3, <3>1 DEF AllNew, Rows
    <3> QED BY <2>2, <2>3, <3>1, <3>2
  <2>6. ASSUME NEW i \in DOMAIN offer', NEW j \in DOMAIN offer', offer'[i][1] = offer'[j][1]
        PROVE  i = j
    <3>1. i + 1 = j + 1 BY <1>1, <2>3, <2>6 DEF AllNew
    <3> QED BY <2>3, <3>1
  <2>7. \A i \in DOMAIN offer' : table'[offer'[i][1]] = Absent BY <2>5 DEF Rows
  <2> HIDE DEF a
  <2>8. strategy'.seen = Rows' \cup Offered' BY <1>1, <2>1, <2>2, <2>4 DEF AllNew
  <2> QED BY <1>1, <2>1, <2>6, <2>7, <2>8 DEF AllNew
<1>8. CASE Succeed \/ Fail
  <2> DEFINE a == Head(tasks)
  <2>1. a \in Archs /\ a \in Rows /\ parents[a] \in Parents
    BY <1>1, <1>8, AtHead DEF Succeed, Fail, AtResult, Rows, Absent
  <2>2. /\ \E b \in BOOLEAN, v \in Scores \cup {Unscored} :
              strategy' = Observed(strategy, a, b, v)
        /\ offer' = offer /\ refused' = refused /\ pc = "results"
    BY <1>8 DEF Succeed, Fail, AtResult
  <2> HIDE DEF a
  <2>3. strategy'.seen = strategy.seen \cup {a} BY <1>1, <2>1, <2>2, Observes DEF Counted
  <2>4. ~AcceptNew BY <2>2 DEF AcceptNew
  <2> QED BY <1>1, <1>3, <2>1, <2>2, <2>3, <2>4 DEF AllNew
<1> QED BY <1>1, <1>4, <1>5, <1>6, <1>7, <1>8 DEF EngineStep, Proposes

\* Random search misses once for each round that had nothing to run.
LEMMA DryStep ==
    ASSUME IInv, Next, Uninterrupted', ~setting.evolving
    PROVE  Dry'
<1>1. /\ EngineStep /\ Uninterrupted /\ setting' = setting /\ AllNew /\ Dry
      /\ TypeOK /\ RowsOK /\ TasksOK /\ OfferOK /\ TypeOK'
  BY StillUninterrupted, TypeStep DEF IInv
<1>2. /\ strategy \in States /\ strategy.misses \in Nat /\ idle \in Nat
  BY <1>1, Countable DEF TypeOK
<1>3. CASE StopOnBudget BY <1>3 DEF StopOnBudget, Dry
<1>4. CASE StartRound
  <2>1. /\ pc = "loop" /\ pc' = "propose" /\ strategy' = strategy /\ idle' = idle
        /\ reason' = "NONE" /\ Queue' = Queue
    BY <1>1, <1>4 DEF StartRound, OfferOK, rows, Queue
  <2>2. wanted' = 0 /\ Queue = {} => Finished(strategy) BY <1>1, <1>4, RoundWants
  <2> QED BY <1>1, <2>1, <2>2 DEF Dry
<1>5. CASE Proposes
  <2>1. /\ (\E a \in Archs, p \in Parents : Hits(a, p)) \/ FindsNothing
        /\ pc = "propose" /\ idle' = idle /\ reason' = "NONE" /\ Queue' = Queue
    BY <1>1, <1>5, ProposeEffect DEF rows, Queue, OfferOK
  <2>2. CASE FindsNothing
    <3>1. /\ pc' = "accept" /\ offer' = offer
          /\ strategy'.misses = strategy.misses + 1
      BY <2>2 DEF FindsNothing
    <3>2. offer = <<>> /\ Queue = {} => strategy'.misses >= idle' + 1
      BY <1>1, <1>2, <2>1, <3>1 DEF Dry
    <3> QED BY <2>1, <3>1, <3>2 DEF Dry
  <2>3. ASSUME NEW a \in Archs, NEW p \in Parents, Hits(a, p)
        PROVE  Dry'
    <3>1. pc' = "propose" /\ offer' # <<>>
      <4>1. offer' = Append(offer, <<a, p>>) /\ pc' = pc BY <2>3 DEF Hits
      <4> QED BY <1>1, <2>1, <4>1, OfferComes
    <3> QED BY <2>1, <3>1 DEF Dry
  <2> QED BY <2>1, <2>2, <2>3
<1>6. CASE ProposedEnough
  <2>1. /\ pc = "propose" /\ wanted = 0 /\ pc' = "accept" /\ strategy' = strategy
        /\ offer' = offer /\ Queue' = Queue /\ reason' = "NONE"
    BY <1>1, <1>6 DEF ProposedEnough, memory, rows, Queue, OfferOK
  <2> QED BY <1>1, <2>1 DEF Dry
<1>7. CASE AcceptDuplicate
  <2>1. 1 \in DOMAIN offer /\ offer[1] = Head(offer)
    BY <1>1, <1>7, OfferHead DEF AcceptDuplicate
  <2> QED BY <1>1, <1>7, <2>1 DEF AcceptDuplicate, AllNew
<1>8. CASE AcceptNew
  <2> DEFINE a == Head(offer)[1]
  <2>1. a \in Archs BY <1>1, <1>8, OfferHead DEF AcceptNew
  <2>2. /\ inserted' = Append(inserted, a) /\ table' = [table EXCEPT ![a] = "QUEUED"]
        /\ pc' = "accept" /\ reason' = "NONE"
    BY <1>1, <1>8 DEF AcceptNew, OfferOK
  <2> HIDE DEF a
  <2>3. Queue' # {}
    <3>1. inserted \in Seq(Archs) BY <1>1 DEF TypeOK
    <3>2. /\ inserted' \in Seq(Archs) /\ Len(inserted') = Len(inserted) + 1
          /\ inserted'[Len(inserted) + 1] = a /\ Len(inserted) \in Nat
      BY <2>1, <2>2, <3>1, AppendProperties, LenProperties
    <3>3. Len(inserted) + 1 \in DOMAIN inserted' BY <3>2, LenProperties
    <3>4. table'[a] = "QUEUED" BY <1>1, <2>1, <2>2 DEF TypeOK
    <3>5. Len(inserted) + 1 \in Queue' BY <3>2, <3>3, <3>4 DEF Queue
    <3> QED BY <3>5
  <2> QED BY <2>2, <2>3 DEF Dry
<1>9. CASE RunBatch
  <2>1. pc' = "results" /\ idle' = 0 /\ reason' = "NONE"
    BY <1>1, <1>9 DEF RunBatch, OfferOK
  <2> QED BY <2>1 DEF Dry
<1>10. CASE IdleRound
  <2>1. /\ pc = "accept" /\ offer = <<>> /\ strategy' = strategy /\ Queue = {}
        /\ reason = "NONE"
    BY <1>1, <1>10, QueueOrder DEF IdleRound, OfferOK, TypeOK, RowsOK
  <2>2. Finished(strategy) \/ strategy.misses >= idle + 1 BY <1>1, <2>1 DEF Dry
  <2>3. CASE Finished(strategy)
    <3>1. reason' = "STRATEGY_FINISHED" /\ pc' = "save" BY <1>10, <2>3 DEF IdleRound
    <3> QED BY <3>1 DEF Dry
  <2>4. CASE ~Finished(strategy)
    <3>1. /\ idle' = idle + 1
          /\ \/ idle' >= 2 /\ pc' = "save"
             \/ pc' = "loop" /\ reason' = "NONE"
      BY <1>10, <2>1, <2>4 DEF IdleRound
    <3>2. strategy'.misses >= idle' BY <2>1, <2>2, <2>4, <3>1
    <3>3. idle' >= 2 => strategy'.misses >= 2 BY <1>2, <2>1, <3>1, <3>2
    <3> QED BY <3>1, <3>2, <3>3 DEF Dry
  <2> QED BY <2>3, <2>4
<1>11. CASE Succeed \/ Retry \/ Fail
  <2>1. pc = "results" /\ pc' = pc /\ idle' = idle /\ reason' = "NONE"
    BY <1>1, <1>11 DEF Succeed, Retry, Fail, AtResult, OfferOK
  <2> QED BY <1>1, <2>1 DEF Dry
<1>12. CASE BatchDone
  <2>1. /\ pc = "results" /\ pc' = "loop" /\ idle' = idle /\ strategy' = strategy
        /\ reason' = "NONE"
    BY <1>1, <1>12 DEF BatchDone, memory, OfferOK
  <2>2. idle = 0 BY <1>1, <2>1 DEF Dry
  <2> QED BY <1>2, <2>1, <2>2 DEF Dry
<1>13. CASE Finalise
  <2>1. pc' = "stopped" /\ reason' = reason /\ strategy' = strategy
    BY <1>13 DEF Finalise, memory
  <2> QED BY <1>1, <2>1 DEF Dry
<1> QED BY <1>1, <1>3, <1>4, <1>5, <1>6, <1>7, <1>8, <1>9, <1>10, <1>11, <1>12, <1>13
    DEF EngineStep, Proposes

\* The children that wait with their parents: queued or running, and on offer.
ChildrenWaiting == {<<a, parent[a]>> : a \in {b \in Waiting : parent[b] # NoParent}}

ChildrenOffered == {o \in {offer[i] : i \in DOMAIN offer} : o[2] # NoParent}

LEMMA AllAccountedIs ==
    AllAccounted <=>
        /\ strategy.proposed = strategy.observed + Len(offer) + Cardinality(Waiting)
        /\ strategy.pending = ChildrenWaiting \cup ChildrenOffered
BY DEF AllAccounted, ChildrenWaiting, ChildrenOffered

\* Every proposal is accounted for.
LEMMA AccountStep ==
    ASSUME IInv, Next, Uninterrupted'
    PROVE  AllAccounted'
<1>1. /\ EngineStep /\ Uninterrupted /\ setting' = setting /\ AllNew /\ AllAccounted
      /\ TypeOK /\ RowsOK /\ TasksOK /\ OfferOK /\ TypeOK'
      /\ Grounded(strategy, told, table, score, parent)
  BY StillUninterrupted, TypeStep DEF IInv
<1>2. /\ strategy \in States /\ strategy.proposed \in Nat /\ strategy.observed \in Nat
      /\ Len(offer) \in Nat
      /\ IsFiniteSet(Waiting) /\ Cardinality(Waiting) \in Nat
  <2>1. strategy \in States /\ offer \in Seq(Archs \X Parents) BY <1>1 DEF TypeOK
  <2> QED BY <1>1, <2>1, Countable, FiniteRows, LenProperties
<1>3. /\ strategy.proposed = strategy.observed + Len(offer) + Cardinality(Waiting)
      /\ strategy.pending = ChildrenWaiting \cup ChildrenOffered
  BY <1>1, AllAccountedIs
<1> DEFINE Goal == /\ strategy'.proposed =
                        strategy'.observed + Len(offer') + Cardinality(Waiting')
                   /\ strategy'.pending = ChildrenWaiting' \cup ChildrenOffered'
<1>4. ASSUME Goal PROVE AllAccounted'
  BY <1>4 DEF AllAccounted, ChildrenWaiting, ChildrenOffered
\* Steps that leave the waiting rows alone.
<1>5. ASSUME Waiting' = Waiting, parent' = parent
      PROVE  ChildrenWaiting' = ChildrenWaiting
  BY <1>5 DEF ChildrenWaiting
<1>6. ASSUME offer' = offer
      PROVE  ChildrenOffered' = ChildrenOffered
  BY <1>6 DEF ChildrenOffered
<1>7. ASSUME Waiting' = Waiting, parent' = parent, offer' = offer, strategy' = strategy
      PROVE  AllAccounted'
  BY <1>3, <1>4, <1>5, <1>6, <1>7
<1>8. CASE \/ StopOnBudget \/ StartRound \/ ProposedEnough \/ IdleRound \/ BatchDone \/ Finalise
  <2>1. /\ rows' = rows /\ offer' = offer /\ strategy' = strategy
    BY <1>1, <1>8 DEF StopOnBudget, StartRound, ProposedEnough, IdleRound, BatchDone,
       Finalise, memory, OfferOK
  <2> QED BY <1>7, <2>1 DEF rows, Waiting
<1>9. CASE Proposes
  <2>1. /\ (\E a \in Archs, p \in Parents : Hits(a, p)) \/ FindsNothing
        /\ Waiting' = Waiting /\ parent' = parent
    BY <1>1, <1>9, ProposeEffect DEF rows, Waiting
  <2>2. CASE FindsNothing
    <3>1. /\ offer' = offer /\ strategy'.proposed = strategy.proposed
          /\ strategy'.observed = strategy.observed /\ strategy'.pending = strategy.pending
      BY <2>2 DEF FindsNothing, SameResults
    <3> QED BY <1>3, <1>4, <1>5, <1>6, <2>1, <3>1
  <2>3. ASSUME NEW a \in Archs, NEW p \in Parents, Hits(a, p)
        PROVE  AllAccounted'
    <3>1. /\ offer' = Append(offer, <<a, p>>)
          /\ strategy'.proposed = strategy.proposed + 1
          /\ strategy'.observed = strategy.observed
          /\ strategy'.pending = IF p = NoParent THEN strategy.pending
                                 ELSE WaitingFor(strategy, a) \cup {<<a, p>>}
          /\ a \notin strategy.seen
      BY <1>1, <2>3 DEF Hits, SameResults, Uninterrupted
    <3>2. /\ Len(offer') = Len(offer) + 1
          /\ \A i \in DOMAIN offer' :
                \/ i = Len(offer) + 1 /\ offer'[i] = <<a, p>>
                \/ i \in DOMAIN offer /\ offer'[i] = offer[i]
          /\ \A i \in DOMAIN offer : i \in DOMAIN offer' /\ offer'[i] = offer[i]
          /\ \E i \in DOMAIN offer' : offer'[i] = <<a, p>>
      BY <1>1, <3>1, OfferComes
    <3>3. strategy'.proposed = strategy'.observed + Len(offer') + Cardinality(Waiting')
      <4>1. Cardinality(Waiting') = Cardinality(Waiting) BY <2>1
      <4>2. /\ Len(offer') = Len(offer) + 1 /\ strategy'.proposed = strategy.proposed + 1
            /\ strategy'.observed = strategy.observed
        BY <3>1, <3>2
      <4> QED BY <1>2, <1>3, <4>1, <4>2
    <3> DEFINE O == {offer[i] : i \in DOMAIN offer}
    <3>4. {offer'[i] : i \in DOMAIN offer'} = O \cup {<<a, p>>} BY <3>2
    <3>5. ChildrenOffered' = IF p = NoParent THEN ChildrenOffered
                             ELSE ChildrenOffered \cup {<<a, p>>}
      <4>1. ChildrenOffered = {o \in O : o[2] # NoParent} BY DEF ChildrenOffered
      <4>2. ChildrenOffered' = {o \in {offer'[i] : i \in DOMAIN offer'} : o[2] # NoParent}
        BY DEF ChildrenOffered
      <4> HIDE DEF O
      <4>3. ChildrenOffered' = {o \in O \cup {<<a, p>>} : o[2] # NoParent}
        BY <3>4, <4>2
      <4>4. <<a, p>>[2] = p OBVIOUS
      <4> QED BY <4>1, <4>3, <4>4
    <3>6. WaitingFor(strategy, a) = strategy.pending
      <4>1. a \notin Rows /\ a \notin Offered BY <1>1, <3>1 DEF AllNew
      <4>2. \A q \in ChildrenWaiting : q[1] # a
        <5>1. a \notin Waiting BY <4>1 DEF Waiting, Rows, Absent
        <5> QED BY <5>1 DEF ChildrenWaiting
      <4>3. \A q \in ChildrenOffered : q[1] # a BY <4>1 DEF ChildrenOffered, Offered
      <4> QED BY <1>3, <4>2, <4>3 DEF WaitingFor
    <3>7. strategy'.pending = ChildrenWaiting' \cup ChildrenOffered'
      <4>1. ChildrenWaiting' = ChildrenWaiting BY <1>5, <2>1
      <4>2. CASE p = NoParent BY <1>3, <3>1, <3>5, <4>1, <4>2
      <4>3. CASE p # NoParent BY <1>3, <3>1, <3>5, <3>6, <4>1, <4>3
      <4> QED BY <4>2, <4>3
    <3> QED BY <1>4, <3>3, <3>7
  <2> QED BY <2>1, <2>2, <2>3
<1>10. CASE AcceptDuplicate
  <2>1. 1 \in DOMAIN offer /\ offer[1] = Head(offer)
    BY <1>1, <1>10, OfferHead DEF AcceptDuplicate
  <2> QED BY <1>1, <1>10, <2>1 DEF AcceptDuplicate, AllNew
<1>11. CASE AcceptNew
  <2> DEFINE a == Head(offer)[1]
             p == Head(offer)[2]
  <2>1. /\ offer # <<>> /\ offer' = Tail(offer) /\ strategy' = strategy
        /\ table' = [table EXCEPT ![a] = "QUEUED"]
        /\ parent' = [parent EXCEPT ![a] = p]
        /\ table[a] = Absent
    BY <1>11 DEF AcceptNew
  <2>2. a \in Archs /\ p \in Parents /\ Head(offer) = <<a, p>>
    BY <1>1, <2>1, OfferHead
  <2>3. /\ Len(offer') = Len(offer) - 1
        /\ \A i \in DOMAIN offer' : \E j \in DOMAIN offer : j # 1 /\ offer'[i] = offer[j]
        /\ \A j \in DOMAIN offer :
              offer[j] = <<a, p>> \/ \E i \in DOMAIN offer' : offer'[i] = offer[j]
        /\ \E i \in DOMAIN offer : offer[i] = <<a, p>>
    BY <1>1, <2>1, <2>2, OfferGoes
  <2> HIDE DEF a, p
  <2>4. a \notin Waiting /\ Waiting' = Waiting \cup {a}
    BY <1>1, <2>1, <2>2 DEF Waiting, TypeOK, Absent
  <2>5. Cardinality(Waiting') = Cardinality(Waiting) + 1 BY <1>2, <2>4, FS_AddElement
  <2>6. strategy'.proposed = strategy'.observed + Len(offer') + Cardinality(Waiting')
    BY <1>2, <1>3, <2>1, <2>3, <2>5
  <2>7. /\ parent'[a] = p /\ \A b \in Waiting : parent'[b] = parent[b]
    BY <1>1, <2>1, <2>2, <2>4 DEF TypeOK, Waiting
  <2>8. ChildrenWaiting' = IF p = NoParent THEN ChildrenWaiting
                           ELSE ChildrenWaiting \cup {<<a, p>>}
    <3>1. ASSUME NEW b \in Waiting', parent'[b] # NoParent
          PROVE  \/ b \in Waiting /\ parent[b] # NoParent /\ parent'[b] = parent[b]
                 \/ b = a /\ parent'[b] = p
      BY <2>4, <2>7, <3>1
    <3>2. ASSUME NEW b \in Waiting, parent[b] # NoParent
          PROVE  b \in Waiting' /\ parent'[b] = parent[b]
      BY <2>4, <2>7
    <3>3. a \in Waiting' /\ parent'[a] = p BY <2>4, <2>7
    <3>4. \A x \in ChildrenWaiting' : x \in ChildrenWaiting \/ (p # NoParent /\ x = <<a, p>>)
      <4> SUFFICES ASSUME NEW x \in ChildrenWaiting'
                   PROVE  x \in ChildrenWaiting \/ (p # NoParent /\ x = <<a, p>>)
        OBVIOUS
      <4>1. PICK b \in Waiting' : parent'[b] # NoParent /\ x = <<b, parent'[b]>>
        BY DEF ChildrenWaiting
      <4>2. CASE b \in Waiting /\ parent[b] # NoParent /\ parent'[b] = parent[b]
        BY <4>1, <4>2 DEF ChildrenWaiting
      <4>3. CASE b = a /\ parent'[b] = p BY <4>1, <4>3
      <4> QED BY <3>1, <4>1, <4>2, <4>3
    <3>5. ChildrenWaiting \subseteq ChildrenWaiting' BY <3>2 DEF ChildrenWaiting
    <3>6. p # NoParent => <<a, p>> \in ChildrenWaiting' BY <3>3 DEF ChildrenWaiting
    <3> QED BY <3>4, <3>5, <3>6
  <2>9. ChildrenOffered = IF p = NoParent THEN ChildrenOffered'
                          ELSE ChildrenOffered' \cup {<<a, p>>}
    <3>1. \A x \in ChildrenOffered : x \in ChildrenOffered' \/ (p # NoParent /\ x = <<a, p>>)
      BY <2>3 DEF ChildrenOffered
    <3>2. ChildrenOffered' \subseteq ChildrenOffered BY <2>3 DEF ChildrenOffered
    <3>3. p # NoParent => <<a, p>> \in ChildrenOffered BY <2>3 DEF ChildrenOffered
    <3> QED BY <3>1, <3>2, <3>3
  <2>10. strategy'.pending = ChildrenWaiting' \cup ChildrenOffered'
    <3>1. CASE p = NoParent BY <1>3, <2>1, <2>8, <2>9, <3>1
    <3>2. CASE p # NoParent BY <1>3, <2>1, <2>8, <2>9, <3>2
    <3> QED BY <3>1, <3>2
  <2> QED BY <1>4, <2>6, <2>10
<1>12. CASE RunBatch
  <2>1. offer' = offer /\ strategy' = strategy /\ parent' = parent BY <1>12 DEF RunBatch
  <2>2. Waiting' = Waiting
    <3>1. /\ \A i \in DOMAIN tasks' : table[tasks'[i]] = "QUEUED"
          /\ table' = [b \in Archs |->
                IF \E i \in DOMAIN tasks' : tasks'[i] = b THEN "RUNNING" ELSE table[b]]
      BY <1>1, <1>12, BatchTaken
    <3>2. \A b \in Archs : table'[b] = table[b] \/ (table[b] = "QUEUED" /\ table'[b] = "RUNNING")
      BY <3>1
    <3> QED BY <3>2 DEF Waiting
  <2> QED BY <1>7, <2>1, <2>2
<1>13. CASE Retry
  <2> DEFINE a == Head(tasks)
  <2>1. a \in Archs /\ table[a] = "RUNNING" BY <1>1, <1>13, AtHead DEF Retry, AtResult
  <2>2. /\ offer' = offer /\ strategy' = strategy /\ parent' = parent
        /\ table' = [table EXCEPT ![a] = "QUEUED"]
    BY <1>13 DEF Retry, AtResult
  <2> HIDE DEF a
  <2>3. Waiting' = Waiting BY <1>1, <2>1, <2>2 DEF Waiting, TypeOK
  <2> QED BY <1>7, <2>2, <2>3
<1>14. CASE Succeed \/ Fail
  <2> DEFINE a == Head(tasks)
  <2>1. a \in Archs /\ table[a] = "RUNNING" /\ parents[a] \in Parents
    BY <1>1, <1>14, AtHead DEF Succeed, Fail, AtResult
  <2>2. /\ offer' = offer /\ offer = <<>> /\ parent' = parent
        /\ \E st \in {"COMPLETED", "FAILED"} : table' = [table EXCEPT ![a] = st]
    BY <1>1, <1>14 DEF Succeed, Fail, AtResult, OfferOK
  <2>3. \E b \in BOOLEAN, v \in Scores \cup {Unscored} :
              strategy' = Observed(strategy, a, b, v)
    BY <1>14 DEF Succeed, Fail
  <2> HIDE DEF a
  <2>4. a \in Waiting /\ Waiting' = Waiting \ {a}
    BY <1>1, <2>1, <2>2 DEF Waiting, TypeOK
  <2>5. Cardinality(Waiting') = Cardinality(Waiting) - 1 BY <1>2, <2>4, FS_RemoveElement
  <2>6. /\ strategy'.proposed = strategy.proposed
        /\ strategy'.observed = strategy.observed + 1
    BY <1>1, <2>1, <2>3, Observes DEF Counted
  <2>7. strategy'.proposed = strategy'.observed + Len(offer') + Cardinality(Waiting')
    BY <1>2, <1>3, <2>2, <2>5, <2>6
  <2>8. ChildrenWaiting' = {q \in ChildrenWaiting : q[1] # a}
    <3>1. ASSUME NEW x \in ChildrenWaiting' PROVE x \in ChildrenWaiting /\ x[1] # a
      <4>1. PICK b \in Waiting' : parent[b] # NoParent /\ x = <<b, parent[b]>>
        BY <2>2 DEF ChildrenWaiting
      <4> QED BY <2>4, <4>1 DEF ChildrenWaiting
    <3>2. ASSUME NEW x \in ChildrenWaiting, x[1] # a PROVE x \in ChildrenWaiting'
      <4>1. PICK b \in Waiting : parent[b] # NoParent /\ x = <<b, parent[b]>>
        BY DEF ChildrenWaiting
      <4> QED BY <2>2, <2>4, <3>2, <4>1 DEF ChildrenWaiting
    <3> QED BY <3>1, <3>2
  <2>9. ChildrenOffered = {} /\ ChildrenOffered' = {}
    BY <2>2, NothingOffered DEF ChildrenOffered
  <2>10. strategy'.pending = ChildrenWaiting'
    <3>1. CASE setting.evolving
      <4>1. PICK b \in BOOLEAN, v \in Scores \cup {Unscored} :
              strategy' = EvolutionObserved(strategy, a, b, v, parents[a])
        BY <2>3, <3>1 DEF Observed
      <4>2. strategy'.pending = WaitingFor(strategy, a)
        <5>1. CASE ~b \/ v = Unscored BY <1>2, <2>1, <4>1, <5>1, FailureCounts
        <5>2. CASE ~(~b \/ v = Unscored)
          <6>1. b = TRUE /\ v \in Scores /\ v # Unscored BY <5>2
          <6>2. strategy' = EvolutionObserved(strategy, a, TRUE, v, parents[a])
            BY <4>1, <6>1
          <6> QED BY <1>2, <2>1, <6>1, <6>2, SuccessCounts
        <5> QED BY <5>1, <5>2
      <4> QED BY <1>3, <2>8, <2>9, <4>2 DEF WaitingFor
    <3>2. CASE ~setting.evolving
      <4>1. strategy.pending = {} BY <1>1, <3>2 DEF Grounded
      <4>2. PICK b \in BOOLEAN : strategy' = RandomObserved(strategy, a, b)
        BY <2>3, <3>2 DEF Observed
      <4>3. strategy'.pending = {} BY <1>2, <2>1, <4>1, <4>2, RandomCounts
      <4> QED BY <1>3, <2>8, <4>1, <4>3
    <3> QED BY <3>1, <3>2
  <2>11. strategy'.pending = ChildrenWaiting' \cup ChildrenOffered' BY <2>9, <2>10
  <2> QED BY <1>4, <2>7, <2>11
<1> QED BY <1>1, <1>8, <1>9, <1>10, <1>11, <1>12, <1>13, <1>14 DEF EngineStep, Proposes

-----------------------------------------------------------------------------
(***************************************************************************)
(* The invariant.                                                          *)
(***************************************************************************)
LEMMA InitOK ==
    ASSUME Init
    PROVE  IInv
<1>1. /\ <<>> \in Seq(Archs) /\ <<>> \in Seq(Archs \X Parents)
      /\ <<>> \in Seq([strategy : States, told : Seq(Archs)])
  BY EmptySeq
<1>2. /\ Fresh \in States /\ Fresh.seen = {} /\ Fresh.proposed = 0
      /\ Fresh.pending = {} /\ Fresh.misses = 0
      /\ Grounded(Fresh, <<>>, table, score, parent)
  BY FreshTyped
<1>3. Fresh.observed = 0 BY DEF Fresh
<1>4. TypeOK
  <2>1. stream \in Seq(Archs \cup {Miss}) BY StrategySearchAssumption DEF Init
  <2>2. setting \in Settings BY DEF Init
  <2> QED BY <1>1, <1>2, <2>1, <2>2 DEF Init, TypeOK, Statuses, Parents
<1>5. DOMAIN <<>> = {} OBVIOUS
<1>6. Rows = {} /\ Waiting = {} BY DEF Init, Rows, Waiting, Absent
<1>7. RowsOK /\ TasksOK BY <1>5, <1>6 DEF Init, RowsOK, TasksOK
<1>8. MaxEvaluations \in Nat BY StrategyAssumption DEF PlanValid
<1>9. OfferOK
  <2>1. 0 <= Remaining(Fresh) BY <1>2, <1>8 DEF Remaining
  <2> QED BY <1>2, <1>5, <2>1 DEF Init, OfferOK
<1>10. SavedOK BY <1>5 DEF Init, SavedOK
<1>11. FirstProcess
  <2>1. Len(<<>>) = 0 /\ Cardinality({}) = 0 BY FS_EmptySet
  <2>2. AllAccounted BY <1>2, <1>3, <1>5, <1>6, <2>1 DEF Init, AllAccounted
  <2>3. AllNew BY <1>2, <1>5, <1>6 DEF Init, AllNew, Offered
  <2>4. Dry BY <1>2 DEF Init, Dry
  <2> QED BY <2>2, <2>3, <2>4 DEF FirstProcess
<1>12. Grounded(strategy, told, table, score, parent) BY <1>2 DEF Init
<1> QED BY <1>4, <1>7, <1>9, <1>10, <1>11, <1>12 DEF IInv

LEMMA StepOK ==
    ASSUME IInv, [Next]_vars
    PROVE  IInv'
<1>1. CASE Next
  <2>1. TypeOK' /\ RowsOK' /\ TasksOK' /\ OfferOK' /\ SavedOK'
        /\ Grounded(strategy, told, table, score, parent)'
    BY <1>1, TypeStep, RowsStep, TasksStep, OfferStep, SavedStep, GroundedStep
  <2>2. FirstProcess'
    <3>1. ASSUME Uninterrupted'
          PROVE  AllAccounted' /\ AllNew' /\ (~setting'.evolving => Dry')
      <4>1. setting' = setting BY <1>1, <3>1, StillUninterrupted
      <4> QED BY <1>1, <3>1, <4>1, AccountStep, NewStep, DryStep
    <3> QED BY <3>1 DEF FirstProcess, Uninterrupted
  <2> QED BY <2>1, <2>2 DEF IInv
<1>2. CASE UNCHANGED vars
  <2>1. TypeOK' BY <1>2, TypeStep
  <2>2. /\ setting' = setting /\ rows' = rows /\ saved' = saved /\ pc' = pc
        /\ memory' = memory /\ resumes' = resumes
    BY <1>2 DEF vars
  <2>3. /\ table' = table /\ score' = score /\ parent' = parent /\ inserted' = inserted
        /\ strategy' = strategy /\ parents' = parents /\ offer' = offer /\ wanted' = wanted
        /\ tasks' = tasks /\ idle' = idle /\ refused' = refused /\ told' = told
        /\ reason' = reason
    BY <2>2 DEF rows, memory
  <2>4. Rows' = Rows /\ Offered' = Offered /\ Waiting' = Waiting /\ Queue' = Queue
    BY <2>3 DEF Rows, Offered, Waiting, Queue
  <2>5. RowsOK' /\ TasksOK' BY <2>2, <2>3, <2>4 DEF IInv, RowsOK, TasksOK
  <2>6. OfferOK' BY <2>2, <2>3, <2>4 DEF IInv, OfferOK
  <2>7. Grounded(strategy, told, table, score, parent)'
    BY <2>2, <2>3 DEF IInv, Grounded, Aged
  <2>8. SavedOK'
    <3>1. ASSUME NEW i \in DOMAIN saved'
          PROVE  /\ Grounded(saved[i].strategy, saved[i].told, table, score, parent)'
                 /\ (saved[i].strategy.seen \subseteq Rows)'
      <4>1. /\ Grounded(saved[i].strategy, saved[i].told, table, score, parent)
            /\ saved[i].strategy.seen \subseteq Rows
        BY <2>2 DEF IInv, SavedOK
      <4> QED BY <2>2, <2>3, <2>4, <4>1 DEF Grounded, Aged
    <3> QED BY <3>1 DEF SavedOK
  <2>9. FirstProcess'
    <3>1. AllAccounted => AllAccounted' BY <2>3, <2>4 DEF AllAccounted
    <3>2. AllNew => AllNew' BY <2>3, <2>4 DEF AllNew
    <3>3. Dry => Dry' BY <2>2, <2>3, <2>4 DEF Dry
    <3> QED BY <2>2, <3>1, <3>2, <3>3 DEF IInv, FirstProcess
  <2> QED BY <2>1, <2>5, <2>6, <2>7, <2>8, <2>9 DEF IInv
<1> QED BY <1>1, <1>2

\* In every state: what the strategy knows is in the rows, in memory and in the
\* checkpoint, a round proposes what it may, and, in a search that was not
\* resumed, everything proposed is accounted for.
\* (propose, observe, _checkpoint, _accept_proposal)
THEOREM StrategyInvariant == Spec => []IInv
<1>1. Init => IInv BY InitOK
<1>2. IInv /\ [Next]_vars => IInv' BY StepOK
<1> QED BY <1>1, <1>2, PTL DEF Spec

\* The population is the newest PopulationSize scored results, in the order in
\* which they were told, and retired counts those that left, however many
\* crashes the search has survived.
\* (RegularizedEvolution.observe, load_state_dict)
THEOREM OldestRetiresTheorem == Spec => []OldestRetires
<1>1. IInv => OldestRetires BY DEF IInv, Grounded, Aged, OldestRetires
<1> QED BY <1>1, StrategyInvariant, PTL

\* Every proposal is accounted for: the counters of observe add up, no
\* checkpoint is ahead of the rows, no round asks for more than is left, and in
\* a search that was not resumed nothing is proposed that is not observed,
\* waiting or on offer.
\* (propose, observe, _pending_parents, _process_result before _checkpoint)
THEOREM ProposalsTheorem == Spec => []ProposalsAccounted
<1>1. IInv => ProposalsAccounted
  <2> SUFFICES ASSUME IInv PROVE ProposalsAccounted OBVIOUS
  <2>1. /\ TypeOK /\ Grounded(strategy, told, table, score, parent) /\ OfferOK /\ FirstProcess
    BY DEF IInv
  <2>2. setting.evolving => strategy.generation = strategy.succeeded
    BY <2>1 DEF Grounded, Aged
  <2>3. \A i \in DOMAIN told : table[told[i]] = "COMPLETED" BY <2>1 DEF Grounded
  <2>4. ASSUME NEW a \in strategy.seen
        PROVE  table[a] # Absent \/ \E o \in {offer[i] : i \in DOMAIN offer} : o[1] = a
    BY <2>1 DEF OfferOK, Rows, Offered
  <2>5. ASSUME resumes = 0 /\ ~setting.twins /\ pc # "down"
        PROVE  AllAccounted
    BY <2>1, <2>5 DEF FirstProcess
  <2>6. strategy.observed = strategy.succeeded + strategy.failed
        /\ wanted <= Remaining(strategy)
    BY <2>1 DEF Grounded, OfferOK
  <2> QED BY <2>2, <2>3, <2>4, <2>5, <2>6 DEF ProposalsAccounted, AllAccounted, Waiting
<1> QED BY <1>1, StrategyInvariant, PTL

\* A search that was not resumed refuses nothing it proposed, and ends as
\* exhausted only when everything its strategy has seen has a row and random
\* search has missed twice in a row.
\* (sample_unique, the seen sets, _accept_proposal, _loop)
THEOREM ExhaustedTheorem == Spec => []ExhaustedWhenDry
<1>1. IInv => ExhaustedWhenDry
  <2> SUFFICES ASSUME IInv, resumes = 0 /\ ~setting.twins
               PROVE  /\ refused = 0
                      /\ \A i \in DOMAIN offer : table[offer[i][1]] = Absent
                      /\ reason = "SPACE_EXHAUSTED" =>
                            /\ strategy.seen = {a \in Archs : table[a] # Absent}
                            /\ ~setting.evolving => strategy.misses >= 2
    BY DEF ExhaustedWhenDry
  <2>1. TypeOK /\ OfferOK /\ FirstProcess BY DEF IInv
  <2>2. CASE pc = "down"
    <3>1. refused = 0 /\ offer = <<>> /\ reason = "NONE" BY <2>1, <2>2 DEF OfferOK
    <3> QED BY <3>1
  <2>3. CASE pc # "down"
    <3>1. AllNew /\ (~setting.evolving => Dry) BY <2>1, <2>3 DEF FirstProcess
    <3>2. ASSUME reason = "SPACE_EXHAUSTED"
          PROVE  strategy.seen = Rows
      <4>1. offer = <<>> BY <2>1, <3>2 DEF OfferOK
      <4> QED BY <3>1, <4>1, NothingOffered DEF AllNew
    <3> QED BY <3>1, <3>2 DEF AllNew, Dry, Rows
  <2> QED BY <2>2, <2>3
<1> QED BY <1>1, StrategyInvariant, PTL

\* No ancestry has a cycle: the parent of a row is an older row, completed and
\* scored, whatever crashes lie between them.
\* (_propose_one, _accept_proposal, _build_tasks)
ParentsComeFirst ==
    \A i \in DOMAIN inserted :
        parent[inserted[i]] # NoParent =>
            \E j \in DOMAIN inserted :
                /\ j < i
                /\ inserted[j] = parent[inserted[i]]
                /\ table[inserted[j]] = "COMPLETED"
                /\ score[inserted[j]] # Unscored

THEOREM ParentsTheorem == Spec => []ParentsComeFirst
<1>1. IInv => ParentsComeFirst BY DEF IInv, RowsOK, ParentsComeFirst
<1> QED BY <1>1, StrategyInvariant, PTL

-----------------------------------------------------------------------------
(***************************************************************************)
(* Recursive functions of a number.                                        *)
(***************************************************************************)
Steps(T) == [Nat -> [T -> T]]

\* f is what step i makes of the value at i - 1.
Follows(f, T, base, step) ==
    f \in [Nat -> T] /\ f[0] = base /\ \A i \in Nat : f[i + 1] = step[i + 1][f[i]]

\* Such a function exists, for any steps.
LEMMA RecursionExists ==
    ASSUME NEW T, NEW base \in T, NEW step, step \in Steps(T)
    PROVE  \E f : Follows(f, T, base, step)
<1> USE DEF Steps
<1> DEFINE Prefix(n, f) ==
               /\ f \in [0..n -> T]
               /\ f[0] = base
               /\ \A i \in 0..n : i # 0 => f[i] = step[i][f[i - 1]]
           E == {n \in Nat : \E f : Prefix(n, f)}
           U == {n \in Nat : \A f, g : Prefix(n, f) /\ Prefix(n, g) => f[n] = g[n]}
<1>1. ASSUME NEW n \in Nat, NEW f, Prefix(n + 1, f)
      PROVE  Prefix(n, [i \in 0..n |-> f[i]])
  <2>1. \A i \in 0..n : i \in 0..(n + 1) /\ (i # 0 => i - 1 \in 0..n) OBVIOUS
  <2> QED BY <1>1, <2>1
<1>2. E = Nat
  <2>1. 0 \in E
    <3>1. Prefix(0, [i \in 0..0 |-> base]) OBVIOUS
    <3> HIDE DEF Prefix
    <3> QED BY <3>1
  <2>2. ASSUME NEW n \in E PROVE n + 1 \in E
    <3>1. PICK f : Prefix(n, f) OBVIOUS
    <3> DEFINE g == [i \in 0..(n + 1) |-> IF i = n + 1 THEN step[n + 1][f[n]] ELSE f[i]]
    <3>2. n \in Nat /\ n \in 0..n /\ n + 1 \notin 0..n /\ n + 1 \in Nat OBVIOUS
    <3>3. \A i \in 0..(n + 1) : i = n + 1 \/ i \in 0..n BY <3>2
    <3>4. \A i \in 0..n : g[i] = f[i] BY <3>2
    <3>5. f[n] \in T /\ g[n + 1] = step[n + 1][f[n]] /\ g[n] = f[n] BY <3>1, <3>2
    <3>6. g \in [0..(n + 1) -> T]
      <4>1. step[n + 1] \in [T -> T] BY <3>2
      <4>2. \A i \in 0..(n + 1) : g[i] \in T BY <3>1, <3>3, <3>4, <3>5, <4>1
      <4> QED BY <4>2
    <3>7. ASSUME NEW i \in 0..(n + 1), i # 0 PROVE g[i] = step[i][g[i - 1]]
      <4>1. i - 1 \in 0..n BY <3>2, <3>7
      <4>2. g[i - 1] = f[i - 1] BY <3>4, <4>1
      <4>3. CASE i = n + 1
        <5>1. i - 1 = n BY <3>2, <4>3
        <5> HIDE DEF g
        <5> QED BY <3>5, <4>3, <5>1
      <4>4. CASE i \in 0..n
        <5>1. g[i] = f[i] /\ f[i] = step[i][f[i - 1]] BY <3>1, <3>4, <3>7, <4>4
        <5> HIDE DEF g
        <5> QED BY <4>2, <5>1
      <4> QED BY <3>3, <4>3, <4>4
    <3>8. g[0] = base BY <3>1, <3>2, <3>4
    <3> HIDE DEF g
    <3>9. Prefix(n + 1, g) BY <3>6, <3>7, <3>8
    <3> HIDE DEF Prefix
    <3> QED BY <3>2, <3>9
  <2>3. E \in SUBSET Nat OBVIOUS
  <2> HIDE DEF E
  <2> QED BY <2>1, <2>2, <2>3, NatSetInduction
<1>3. U = Nat
  <2>1. 0 \in U OBVIOUS
  <2>2. ASSUME NEW n \in U PROVE n + 1 \in U
    <3>1. n \in Nat /\ n + 1 \in Nat OBVIOUS
    <3>2. ASSUME NEW f, NEW g, Prefix(n + 1, f), Prefix(n + 1, g)
          PROVE  f[n + 1] = g[n + 1]
      <4> DEFINE p == [i \in 0..n |-> f[i]]
                 q == [i \in 0..n |-> g[i]]
      <4>1. Prefix(n, p) /\ Prefix(n, q) BY <1>1, <3>1, <3>2
      <4>2. p[n] = q[n]
        <5> HIDE DEF Prefix, p, q
        <5> QED BY <4>1 DEF U
      <4>3. f[n] = g[n] BY <3>1, <4>2
      <4>4. n + 1 \in 0..(n + 1) /\ n + 1 # 0 /\ (n + 1) - 1 = n BY <3>1
      <4>5. f[n + 1] = step[n + 1][f[n]] /\ g[n + 1] = step[n + 1][g[n]]
        BY <3>2, <4>4
      <4> QED BY <4>3, <4>5
    <3> HIDE DEF Prefix
    <3> QED BY <3>1, <3>2
  <2>3. U \in SUBSET Nat OBVIOUS
  <2> HIDE DEF U
  <2> QED BY <2>1, <2>2, <2>3, NatSetInduction
<1> DEFINE up(n) == CHOOSE f : Prefix(n, f)
           F == [n \in Nat |-> up(n)[n]]
<1>4. \A n \in Nat : Prefix(n, up(n))
  <2> HIDE DEF Prefix
  <2>1. \A n \in Nat : \E f : Prefix(n, f) BY <1>2
  <2> QED BY <2>1
<1> HIDE DEF up
<1>5. F \in [Nat -> T]
  <2>1. ASSUME NEW n \in Nat PROVE up(n)[n] \in T
    <3>1. n \in 0..n OBVIOUS
    <3> QED BY <1>4, <3>1
  <2> QED BY <2>1
<1>6. F[0] = base BY <1>4
<1>7. ASSUME NEW n \in Nat PROVE F[n + 1] = step[n + 1][F[n]]
  <2> DEFINE p == [i \in 0..n |-> up(n + 1)[i]]
  <2>1. Prefix(n + 1, up(n + 1)) /\ Prefix(n, up(n)) BY <1>4
  <2>2. Prefix(n, p) BY <1>1, <2>1
  <2>3. p[n] = up(n)[n]
    <3> HIDE DEF Prefix, p
    <3> QED BY <1>3, <2>1, <2>2 DEF U
  <2>4. n \in 0..n /\ n + 1 \in 0..(n + 1) /\ n + 1 # 0 /\ (n + 1) - 1 = n OBVIOUS
  <2>5. up(n + 1)[n + 1] = step[n + 1][up(n + 1)[n]] BY <2>1, <2>4
  <2> QED BY <2>3, <2>4, <2>5
<1> HIDE DEF F
<1>8. Follows(F, T, base, step) BY <1>5, <1>6, <1>7 DEF Follows
<1> QED BY <1>8

-----------------------------------------------------------------------------
(***************************************************************************)
(* Walks in a forest.                                                      *)
(***************************************************************************)
\* Every parent is a node, and younger nodes are the children of older ones.
Forest(graph, age) ==
    LET D == DOMAIN graph IN
    /\ graph \in [D -> D \cup {NoParent}]
    /\ NoParent \notin D
    /\ Cardinality(D) \in Nat
    /\ age \in [D -> 1..Cardinality(D)]
    /\ \A a \in D : graph[a] # NoParent => age[graph[a]] < age[a]

\* c leads upwards from a, from child to parent.
Path(graph, a, c) ==
    /\ c \in Seq(DOMAIN graph) /\ Len(c) >= 1 /\ c[1] = a
    /\ \A i \in 1..(Len(c) - 1) : graph[c[i]] = c[i + 1]

LEMMA PathsGetOlder ==
    ASSUME NEW graph, NEW age, Forest(graph, age), NEW a, NEW c, Path(graph, a, c),
           NEW i \in 1..Len(c), NEW j \in 1..Len(c), i <= j
    PROVE  age[c[j]] + (j - i) <= age[c[i]]
<1> DEFINE D == DOMAIN graph
           S == {k \in Nat : i + k \in 1..Len(c) => age[c[i + k]] + k <= age[c[i]]}
<1>1. Len(c) \in Nat /\ \A k \in 1..Len(c) : c[k] \in D /\ age[c[k]] \in Nat
  BY DEF Path, Forest
<1>2. \A x \in D : graph[x] # NoParent => age[graph[x]] < age[x] BY DEF Forest
<1>3. NoParent \notin D BY DEF Forest
<1> HIDE DEF D
<1>4. 0 \in S BY <1>1
<1>5. ASSUME NEW k \in S PROVE k + 1 \in S
  <2> SUFFICES ASSUME i + (k + 1) \in 1..Len(c)
               PROVE  age[c[i + (k + 1)]] + (k + 1) <= age[c[i]]
    OBVIOUS
  <2>1. i + k \in 1..Len(c) /\ i + k \in 1..(Len(c) - 1) /\ k \in Nat
        /\ i + (k + 1) = (i + k) + 1
    BY <1>1
  <2>2. age[c[i + k]] + k <= age[c[i]] BY <2>1
  <2>3. graph[c[i + k]] = c[(i + k) + 1] BY <2>1 DEF Path
  <2>4. age[c[i + (k + 1)]] < age[c[i + k]] BY <1>1, <1>2, <1>3, <2>1, <2>3
  <2>5. age[c[i + (k + 1)]] \in Nat /\ age[c[i + k]] \in Nat /\ age[c[i]] \in Nat
    BY <1>1, <2>1
  <2> QED BY <2>1, <2>2, <2>4, <2>5
<1>6. S \in SUBSET Nat OBVIOUS
<1> HIDE DEF S
<1>7. j - i \in S
  <2>1. S = Nat BY <1>4, <1>5, <1>6, NatSetInduction
  <2> QED BY <1>1, <2>1
<1>8. i + (j - i) = j BY <1>1
<1> QED BY <1>7, <1>8 DEF S

LEMMA PathsEnd ==
    ASSUME NEW graph, NEW age, Forest(graph, age), NEW a, NEW c, Path(graph, a, c)
    PROVE  /\ Len(c) <= Cardinality(DOMAIN graph)
           /\ \A i \in 1..Len(c) : graph[c[Len(c)]] # c[i]
<1>1. Len(c) \in Nat /\ Len(c) \in 1..Len(c) /\ 1 \in 1..Len(c) BY DEF Path
<1>2. /\ Cardinality(DOMAIN graph) \in Nat
      /\ \A k \in 1..Len(c) : c[k] \in DOMAIN graph
                              /\ age[c[k]] \in 1..Cardinality(DOMAIN graph)
  BY DEF Path, Forest
<1>3. Len(c) <= Cardinality(DOMAIN graph)
  <2>1. age[c[Len(c)]] + (Len(c) - 1) <= age[c[1]] BY <1>1, PathsGetOlder
  <2> QED BY <1>1, <1>2, <2>1
<1>4. ASSUME NEW i \in 1..Len(c), graph[c[Len(c)]] = c[i] PROVE FALSE
  <2>1. i <= Len(c) BY <1>1
  <2>2. age[c[Len(c)]] + (Len(c) - i) <= age[c[i]] BY <1>1, <2>1, PathsGetOlder
  <2>3. c[i] # NoParent BY <1>2 DEF Forest
  <2>4. age[c[i]] < age[c[Len(c)]] BY <1>1, <1>2, <1>4, <2>3 DEF Forest
  <2> QED BY <1>1, <1>2, <2>1, <2>2, <2>4
<1> QED BY <1>3, <1>4

LEMMA SameCardinality == \A S : Family!Cardinality(S) = Cardinality(S)
BY DEF Family!Cardinality, Cardinality

\* A walk goes up from its node until it comes to a root, or is as long as
\* it may get.
LEMMA WalkIs ==
    ASSUME NEW graph, NEW age, Forest(graph, age), NEW a \in DOMAIN graph,
           NEW depth \in Nat
    PROVE  LET c == Family!Walk(graph, a, depth) IN
           /\ Path(graph, a, c)
           /\ Family!AtRoot(graph, c) \/ Family!CutOff(graph, c, depth)
           /\ Family!CutOff(graph, c, depth) => Len(c) >= depth
<1> DEFINE D == DOMAIN graph
           T == {c \in Seq(D) : Len(c) >= 1}
           stopped(c) == Family!AtRoot(graph, c) \/ Family!CutOff(graph, c, depth)
           climb(c) == IF stopped(c) THEN c ELSE Append(c, graph[c[Len(c)]])
           step == [i \in Nat |-> [c \in T |-> climb(c)]]
           eq(f) == f = [n \in Nat |-> IF n = 0 THEN <<a>> ELSE climb(f[n - 1])]
<1>1. graph \in [D -> D \cup {NoParent}] /\ Cardinality(D) \in Nat /\ a \in D
  BY DEF Forest
<1> HIDE DEF D
<1>2. <<a>> \in T BY <1>1
<1>3. \A c \in T : Len(c) \in Nat /\ Len(c) \in 1..Len(c) /\ c[Len(c)] \in D BY <1>1
<1>4. ASSUME NEW c \in T, ~stopped(c) PROVE graph[c[Len(c)]] \in D
  <2>1. graph[c[Len(c)]] # NoParent BY <1>4 DEF Family!AtRoot
  <2> QED BY <1>1, <1>3, <2>1
<1>5. \A c \in T : climb(c) \in T
  <2> SUFFICES ASSUME NEW c \in T PROVE climb(c) \in T OBVIOUS
  <2>1. CASE stopped(c) BY <2>1
  <2>2. CASE ~stopped(c)
    <3>1. graph[c[Len(c)]] \in D BY <1>4, <2>2
    <3> DEFINE up == graph[c[Len(c)]]
    <3> HIDE DEF up, stopped
    <3>2. Append(c, up) \in Seq(D) /\ Len(Append(c, up)) = Len(c) + 1 BY <3>1 DEF up
    <3>3. climb(c) = Append(c, up) BY <2>2 DEF up
    <3> QED BY <1>3, <3>2, <3>3
  <2> QED BY <2>1, <2>2
<1> HIDE DEF stopped, T
<1>6. step \in Steps(T) BY <1>5 DEF Steps
<1>7. \E f : eq(f)
  <2>1. PICK f : Follows(f, T, <<a>>, step)
    <3> HIDE DEF step
    <3> QED BY <1>2, <1>6, RecursionExists
  <2>2. f \in [Nat -> T] /\ f[0] = <<a>> /\ \A n \in Nat : f[n + 1] = step[n + 1][f[n]]
    <3> HIDE DEF step
    <3> QED BY <2>1 DEF Follows
  <2>3. ASSUME NEW n \in Nat PROVE f[n] = IF n = 0 THEN <<a>> ELSE climb(f[n - 1])
    <3>1. CASE n = 0 BY <2>2, <3>1
    <3>2. CASE n # 0
      <4>1. n - 1 \in Nat /\ (n - 1) + 1 = n BY <3>2
      <4>2. f[n] = step[n][f[n - 1]] /\ f[n - 1] \in T
        <5> HIDE DEF step
        <5> QED BY <2>2, <4>1
      <4>3. f[n] = climb(f[n - 1]) BY <4>2
      <4> QED BY <3>2, <4>3
    <3> QED BY <3>1, <3>2
  <2>4. eq(f)
    <3> HIDE DEF climb
    <3> QED BY <2>2, <2>3
  <2> QED BY <2>4
<1> DEFINE w == CHOOSE f : eq(f)
<1>8. eq(w) BY <1>7
<1>9. Family!Walk(graph, a, depth) = w[Cardinality(D)]
  <2>1. Family!Walk(graph, a, depth) = w[Family!Cardinality(DOMAIN graph)]
    BY DEF Family!Walk, stopped
  <2> HIDE DEF w
  <2> QED BY <2>1, SameCardinality DEF D
<1> HIDE DEF w
<1>10. w[0] = <<a>> BY <1>8
<1>11. ASSUME NEW n \in Nat PROVE w[n + 1] = climb(w[n])
  <2>1. n + 1 \in Nat /\ n + 1 # 0 /\ (n + 1) - 1 = n OBVIOUS
  <2> HIDE DEF climb
  <2> QED BY <1>8, <2>1
<1> DEFINE S == {n \in Nat : Path(graph, a, w[n]) /\ (stopped(w[n]) \/ Len(w[n]) = n + 1)}
<1>12. S = Nat
  <2>1. 0 \in S
    <3>1. <<a>> \in Seq(D) /\ Len(<<a>>) = 1 /\ <<a>>[1] = a BY <1>1
    <3>2. Path(graph, a, <<a>>) BY <3>1 DEF Path, D
    <3> QED BY <1>10, <3>1, <3>2
  <2>2. ASSUME NEW n \in S PROVE n + 1 \in S
    <3>1. n \in Nat /\ Path(graph, a, w[n]) /\ w[n + 1] = climb(w[n]) BY <1>11
    <3>2. w[n] \in T BY <3>1 DEF Path, T, D
    <3>3. CASE stopped(w[n])
      <4>1. w[n + 1] = w[n] BY <3>1, <3>3
      <4> QED BY <3>1, <3>3, <4>1
    <3>4. CASE ~stopped(w[n])
      <4> DEFINE c == w[n]
                 up == graph[c[Len(c)]]
      <4>1. up \in D BY <1>4, <3>2, <3>4
      <4>2. w[n + 1] = Append(c, up) BY <3>1, <3>4
      <4>3. Len(c) = n + 1 BY <3>4
      <4>4. c \in Seq(D) /\ c[1] = a /\ \A i \in 1..(Len(c) - 1) : graph[c[i]] = c[i + 1]
        BY <3>1 DEF Path, D
      <4> HIDE DEF c
      <4>5. up = graph[c[Len(c)]] OBVIOUS
      <4> HIDE DEF up
      <4> DEFINE d == Append(c, up)
      <4>6. d \in Seq(D) /\ Len(d) = n + 2 /\ \A i \in 1..(n + 1) : d[i] = c[i]
            /\ d[n + 2] = up
        BY <3>1, <4>1, <4>3, <4>4
      <4> HIDE DEF d
      <4>7. d[1] = a BY <3>1, <4>4, <4>6
      <4>8. \A i \in 1..(n + 1) : graph[d[i]] = d[i + 1]
        <5> SUFFICES ASSUME NEW i \in 1..(n + 1) PROVE graph[d[i]] = d[i + 1] OBVIOUS
        <5>1. CASE i = n + 1
          <6>1. i + 1 = n + 2 BY <3>1, <5>1
          <6> QED BY <4>3, <4>5, <4>6, <5>1, <6>1
        <5>2. CASE i # n + 1
          <6>1. i \in 1..(Len(c) - 1) /\ i + 1 \in 1..(n + 1) BY <3>1, <4>3, <5>2
          <6> QED BY <4>4, <4>6, <6>1
        <5> QED BY <5>1, <5>2
      <4>9. Path(graph, a, d) BY <3>1, <4>6, <4>7, <4>8 DEF Path, D
      <4>10. w[n + 1] = d BY <4>2 DEF d
      <4>11. Len(w[n + 1]) = (n + 1) + 1 BY <3>1, <4>6, <4>10
      <4>12. n + 1 \in Nat /\ Path(graph, a, w[n + 1]) BY <3>1, <4>9, <4>10
      <4> HIDE DEF climb
      <4> QED BY <4>11, <4>12
    <3> QED BY <3>3, <3>4
  <2>3. S \in SUBSET Nat OBVIOUS
  <2> HIDE DEF S
  <2> QED BY <2>1, <2>2, <2>3, NatSetInduction
<1> DEFINE c == w[Cardinality(D)]
<1>13. Path(graph, a, c) /\ (stopped(c) \/ Len(c) = Cardinality(D) + 1)
  <2>1. Cardinality(D) \in S BY <1>1, <1>12
  <2> QED BY <2>1
<1> HIDE DEF c
<1>14. Len(c) <= Cardinality(D) /\ \A i \in 1..Len(c) : graph[c[Len(c)]] # c[i]
  BY <1>13, PathsEnd DEF D
<1>15. stopped(c) BY <1>1, <1>13, <1>14 DEF Path
<1>16. ASSUME Family!CutOff(graph, c, depth) PROVE Len(c) >= depth
  <2>1. c \in Seq(D) /\ Len(c) >= 1 BY <1>13 DEF Path, D
  <2>2. DOMAIN c = 1..Len(c) BY <2>1
  <2>3. c[Len(c)] \in D BY <2>1
  <2>4. graph[c[Len(c)]] # NoParent BY <1>16 DEF Family!CutOff
  <2>5. graph[c[Len(c)]] \in D BY <1>1, <2>3, <2>4
  <2> QED BY <1>14, <1>16, <2>2, <2>5 DEF Family!CutOff, D
<1> QED BY <1>9, <1>13, <1>15, <1>16 DEF c, stopped

\* The descendants of a node are among the nodes, have it on every path that
\* leads from them to a root, and are all that have it on a path.
LEMMA DescendantsAre ==
    ASSUME NEW graph, NEW age, Forest(graph, age), NEW a \in DOMAIN graph
    PROVE  /\ \A b \in Family!Descendants(graph, a) :
                 /\ b \in DOMAIN graph
                 /\ \A c : Path(graph, b, c) /\ graph[c[Len(c)]] = NoParent
                              => \E i \in 2..Len(c) : c[i] = a
           /\ \A b, c : Path(graph, b, c) /\ (\E i \in 2..Len(c) : c[i] = a)
                           => b \in Family!Descendants(graph, a)
<1> DEFINE D == DOMAIN graph
           T == SUBSET D
           next(s) == s \cup UNION {Family!ChildrenOf(graph, b) : b \in s}
           first == Family!ChildrenOf(graph, a)
           step == [n \in Nat |-> [s \in T |-> next(s)]]
           eq(f) == f = [n \in Nat |-> IF n = 0 THEN first ELSE next(f[n - 1])]
<1>1. graph \in [D -> D \cup {NoParent}] /\ Cardinality(D) \in Nat /\ a \in D
      /\ NoParent \notin D
  BY DEF Forest
<1> HIDE DEF D
<1>2. \A b, x : b \in Family!ChildrenOf(graph, x) <=> b \in D /\ graph[b] = x
  BY DEF Family!ChildrenOf, D
<1>3. \A b, s : b \in next(s) <=> b \in s \/ \E x \in s : b \in D /\ graph[b] = x
  BY <1>2
<1> HIDE DEF next, first
<1>4. first \in T BY <1>2 DEF first
<1>5. \A s \in T : next(s) \in T BY <1>3
<1> HIDE DEF T
<1>6. step \in Steps(T) BY <1>5 DEF Steps
<1>7. \E f : eq(f)
  <2>1. PICK f : Follows(f, T, first, step)
    <3> HIDE DEF step
    <3> QED BY <1>4, <1>6, RecursionExists
  <2>2. f \in [Nat -> T] /\ f[0] = first /\ \A n \in Nat : f[n + 1] = step[n + 1][f[n]]
    <3> HIDE DEF step
    <3> QED BY <2>1 DEF Follows
  <2>3. ASSUME NEW n \in Nat PROVE f[n] = IF n = 0 THEN first ELSE next(f[n - 1])
    <3>1. CASE n = 0 BY <2>2, <3>1
    <3>2. CASE n # 0
      <4>1. n - 1 \in Nat /\ (n - 1) + 1 = n BY <3>2
      <4>2. f[n] = step[n][f[n - 1]] /\ f[n - 1] \in T
        <5> HIDE DEF step
        <5> QED BY <2>2, <4>1
      <4>3. f[n] = next(f[n - 1]) BY <4>2
      <4> QED BY <3>2, <4>3
    <3> QED BY <3>1, <3>2
  <2>4. eq(f) BY <2>2, <2>3
  <2> QED BY <2>4
<1> DEFINE r == CHOOSE f : eq(f)
<1>8. eq(r) BY <1>7
<1>9. Family!Descendants(graph, a) = r[Cardinality(D)]
  <2>1. Family!Descendants(graph, a) = r[Family!Cardinality(DOMAIN graph)]
    BY DEF Family!Descendants, first, next
  <2> HIDE DEF r
  <2> QED BY <2>1, SameCardinality DEF D
<1> HIDE DEF r
<1>10. r[0] = first BY <1>8
<1>11. ASSUME NEW n \in Nat PROVE r[n + 1] = next(r[n])
  <2>1. n + 1 \in Nat /\ n + 1 # 0 /\ (n + 1) - 1 = n OBVIOUS
  <2> QED BY <1>8, <2>1
<1> DEFINE Passes(b) == \A c : Path(graph, b, c) /\ graph[c[Len(c)]] = NoParent
                                  => \E i \in 2..Len(c) : c[i] = a
           S == {n \in Nat : \A b \in r[n] : b \in D /\ Passes(b)}
<1>12. \A b \in D : \A c : Path(graph, b, c) /\ graph[c[Len(c)]] = NoParent /\ graph[b] \in D
                          => /\ Len(c) \in Nat /\ Len(c) >= 2 /\ c[2] = graph[b]
                             /\ Path(graph, graph[b], Tail(c))
                             /\ Len(Tail(c)) = Len(c) - 1
                             /\ \A i \in 1..Len(Tail(c)) : Tail(c)[i] = c[i + 1]
                             /\ graph[Tail(c)[Len(Tail(c))]] = NoParent
  <2> SUFFICES ASSUME NEW b \in D, NEW c, Path(graph, b, c), graph[c[Len(c)]] = NoParent,
                      graph[b] \in D
               PROVE  /\ Len(c) \in Nat /\ Len(c) >= 2 /\ c[2] = graph[b]
                      /\ Path(graph, graph[b], Tail(c))
                      /\ Len(Tail(c)) = Len(c) - 1
                      /\ \A i \in 1..Len(Tail(c)) : Tail(c)[i] = c[i + 1]
                      /\ graph[Tail(c)[Len(Tail(c))]] = NoParent
    OBVIOUS
  <2>1. /\ c \in Seq(D) /\ Len(c) >= 1 /\ c[1] = b /\ Len(c) \in Nat
        /\ \A i \in 1..(Len(c) - 1) : graph[c[i]] = c[i + 1]
    BY DEF Path, D
  <2>2. Len(c) >= 2
    <3>1. Len(c) # 1
      <4> SUFFICES ASSUME Len(c) = 1 PROVE FALSE OBVIOUS
      <4>1. graph[b] = NoParent BY <2>1
      <4> QED BY <1>1, <4>1
    <3> DEFINE n == Len(c)
    <3>2. n \in Nat /\ n >= 1 /\ n # 1 BY <2>1, <3>1
    <3> HIDE DEF n
    <3>3. n >= 2 BY <3>2
    <3> QED BY <3>3 DEF n
  <2>3. c[2] = graph[b] BY <2>1, <2>2
  <2> DEFINE t == Tail(c)
             n == Len(c)
  <2>4. t \in Seq(D) /\ Len(t) = n - 1 /\ \A i \in 1..(n - 1) : t[i] = c[i + 1]
    BY <2>1, <2>2
  <2> HIDE DEF t
  <2>5. t[1] = graph[b] BY <2>1, <2>2, <2>3, <2>4
  <2>6. \A i \in 1..(Len(t) - 1) : graph[t[i]] = t[i + 1]
    <3> SUFFICES ASSUME NEW i \in 1..(Len(t) - 1) PROVE graph[t[i]] = t[i + 1] OBVIOUS
    <3>1. i \in 1..(n - 1) /\ i + 1 \in 1..(n - 1) BY <2>1, <2>4
    <3> QED BY <2>1, <2>4, <3>1
  <2>7. t[Len(t)] = c[Len(c)]
    <3>1. n - 1 \in 1..(n - 1) /\ (n - 1) + 1 = n BY <2>1, <2>2
    <3> QED BY <2>4, <3>1
  <2>8. Path(graph, graph[b], t) BY <2>1, <2>2, <2>4, <2>5, <2>6 DEF Path, D
  <2> QED BY <2>1, <2>2, <2>3, <2>4, <2>7, <2>8 DEF t
<1>13. S = Nat
  <2>1. 0 \in S
    <3> SUFFICES ASSUME NEW b \in first PROVE b \in D /\ Passes(b) BY <1>10
    <3>1. b \in D /\ graph[b] = a BY <1>2 DEF first
    <3>2. ASSUME NEW c, Path(graph, b, c), graph[c[Len(c)]] = NoParent
          PROVE  \E i \in 2..Len(c) : c[i] = a
      <4>1. Len(c) \in Nat /\ Len(c) >= 2 /\ c[2] = a BY <1>1, <1>12, <3>1, <3>2
      <4>2. 2 \in 2..Len(c) BY <4>1
      <4> QED BY <4>1, <4>2
    <3> QED BY <3>1, <3>2
  <2>2. ASSUME NEW n \in S PROVE n + 1 \in S
    <3>1. n \in Nat /\ r[n + 1] = next(r[n]) BY <1>11
    <3> SUFFICES ASSUME NEW b \in r[n + 1] PROVE b \in D /\ Passes(b) BY <3>1
    <3>2. CASE b \in r[n] BY <3>2
    <3>3. CASE \E x \in r[n] : b \in D /\ graph[b] = x
      <4>1. PICK x \in r[n] : b \in D /\ graph[b] = x BY <3>3
      <4>2. x \in D /\ Passes(x) OBVIOUS
      <4>3. ASSUME NEW c, Path(graph, b, c), graph[c[Len(c)]] = NoParent
            PROVE  \E i \in 2..Len(c) : c[i] = a
        <5>1. /\ Len(c) \in Nat /\ Path(graph, x, Tail(c)) /\ Len(Tail(c)) = Len(c) - 1
              /\ \A i \in 1..Len(Tail(c)) : Tail(c)[i] = c[i + 1]
              /\ graph[Tail(c)[Len(Tail(c))]] = NoParent
          BY <1>12, <4>1, <4>2, <4>3
        <5>2. PICK i \in 2..Len(Tail(c)) : Tail(c)[i] = a BY <4>2, <5>1
        <5>3. i + 1 \in 2..Len(c) /\ i \in 1..Len(Tail(c)) BY <5>1
        <5> QED BY <5>1, <5>2, <5>3
      <4> QED BY <4>1, <4>3
    <3> QED BY <1>3, <3>1, <3>2, <3>3
  <2>3. S \in SUBSET Nat OBVIOUS
  <2> HIDE DEF S
  <2> QED BY <2>1, <2>2, <2>3, NatSetInduction
<1>14. \A b \in Family!Descendants(graph, a) : b \in D /\ Passes(b)
  <2>1. Cardinality(D) \in S BY <1>1, <1>13
  <2> QED BY <1>9, <2>1
<1>15. ASSUME NEW b, NEW c, Path(graph, b, c), NEW i \in 2..Len(c), c[i] = a
       PROVE  b \in Family!Descendants(graph, a)
  <2>1. /\ c \in Seq(D) /\ Len(c) >= 1 /\ c[1] = b /\ Len(c) \in Nat
        /\ \A k \in 1..(Len(c) - 1) : graph[c[k]] = c[k + 1]
    BY <1>15 DEF Path, D
  <2>2. Len(c) <= Cardinality(D) BY <1>15, PathsEnd DEF D
  <2> DEFINE U == {k \in Nat : k <= i - 2 => c[i - 1 - k] \in r[k]}
             V == {k \in Nat : b \in r[(i - 2) + k]}
  <2>3. i \in Nat /\ i >= 2 /\ i <= Len(c) BY <2>1
  <2>4. \A k \in 1..(i - 1) : c[k] \in D /\ graph[c[k]] = c[k + 1] BY <2>1, <2>3
  <2>5. U = Nat
    <3>1. 0 \in U
      <4>1. i - 1 \in 1..(i - 1) /\ (i - 1) + 1 = i BY <2>3
      <4>2. c[i - 1] \in first BY <1>2, <1>15, <2>4, <4>1 DEF first
      <4>3. i - 1 - 0 = i - 1 BY <2>3
      <4> QED BY <1>10, <4>2, <4>3
    <3>2. ASSUME NEW k \in U PROVE k + 1 \in U
      <4> SUFFICES ASSUME k + 1 <= i - 2 PROVE c[i - 1 - (k + 1)] \in r[k + 1] OBVIOUS
      <4> DEFINE j == i - 1 - (k + 1)
      <4>1. k \in Nat /\ j \in 1..(i - 1) /\ j + 1 = i - 1 - k /\ k <= i - 2 BY <2>3
      <4>2. c[j + 1] \in r[k] BY <4>1
      <4> HIDE DEF j
      <4>3. c[j] \in D /\ graph[c[j]] = c[j + 1] BY <2>4, <4>1
      <4>4. r[k + 1] = next(r[k]) BY <1>11, <4>1
      <4>5. c[j] \in next(r[k]) BY <1>3, <4>2, <4>3
      <4> QED BY <4>4, <4>5 DEF j
    <3>3. U \in SUBSET Nat OBVIOUS
    <3> HIDE DEF U
    <3> QED BY <3>1, <3>2, <3>3, NatSetInduction
  <2>6. b \in r[i - 2]
    <3>1. i - 2 \in U /\ i - 2 \in Nat /\ i - 1 - (i - 2) = 1 BY <2>3, <2>5
    <3> QED BY <2>1, <3>1
  <2>7. V = Nat
    <3>1. 0 \in V
      <4>1. (i - 2) + 0 = i - 2 BY <2>3
      <4> QED BY <2>6, <4>1
    <3>2. ASSUME NEW k \in V PROVE k + 1 \in V
      <4>1. (i - 2) + k \in Nat /\ (i - 2) + (k + 1) = ((i - 2) + k) + 1 /\ k \in Nat
        BY <2>3
      <4>2. r[((i - 2) + k) + 1] = next(r[(i - 2) + k]) BY <1>11, <4>1
      <4>3. b \in r[(i - 2) + k] OBVIOUS
      <4>4. b \in r[(i - 2) + (k + 1)] BY <1>3, <4>1, <4>2, <4>3
      <4> QED BY <4>1, <4>4
    <3>3. V \in SUBSET Nat OBVIOUS
    <3> HIDE DEF V
    <3> QED BY <3>1, <3>2, <3>3, NatSetInduction
  <2>8. b \in r[Cardinality(D)]
    <3> DEFINE k == Cardinality(D) - (i - 2)
    <3>1. k \in Nat /\ (i - 2) + k = Cardinality(D) BY <1>1, <2>1, <2>2, <2>3
    <3>2. k \in V BY <2>7, <3>1
    <3> QED BY <3>1, <3>2
  <2> QED BY <1>9, <2>8
<1> QED BY <1>14, <1>15 DEF D

-----------------------------------------------------------------------------
(***************************************************************************)
(* The rows as a forest.                                                   *)
(***************************************************************************)
AgeOf(a) == CHOOSE i \in DOMAIN inserted : inserted[i] = a

LEMMA RowsAreAForest ==
    ASSUME TypeOK, RowsOK
    PROVE  /\ DOMAIN FamilyTree = Rows
           /\ \A a \in Rows : FamilyTree[a] = parent[a]
           /\ \A a \in Rows : FamilyTree[a] # NoParent =>
                 /\ FamilyTree[a] \in Rows
                 /\ table[FamilyTree[a]] = "COMPLETED" /\ score[FamilyTree[a]] # Unscored
           /\ Forest(FamilyTree, [a \in Rows |-> AgeOf(a)])
<1> DEFINE n == Len(inserted)
           age == [a \in Rows |-> AgeOf(a)]
<1>1. /\ n \in Nat /\ DOMAIN inserted = 1..n /\ inserted \in [1..n -> Archs]
  BY LenProperties DEF TypeOK
<1>2. FamilyTree = [a \in Rows |-> parent[a]]
  BY DEF FamilyTree, Family!LineageOf, Rows
<1> HIDE DEF n
<1>3. \A i, j \in 1..n : inserted[i] = inserted[j] => i = j BY <1>1 DEF RowsOK
<1>4. Rows = {inserted[i] : i \in 1..n} BY <1>1 DEF RowsOK
<1>5. Cardinality(Rows) = n
  <2>1. inserted \in Bijection(1..n, Rows)
    BY <1>1, <1>3, <1>4 DEF Bijection, Injection, Surjection, IsInjective
  <2>2. ExistsBijection(1..n, Rows) BY <2>1 DEF ExistsBijection
  <2> QED BY <1>1, <2>2, FS_CountingElements
<1>6. \A i \in 1..n : AgeOf(inserted[i]) = i
  <2> SUFFICES ASSUME NEW i \in 1..n PROVE AgeOf(inserted[i]) = i OBVIOUS
  <2>1. \A j \in DOMAIN inserted : inserted[j] = inserted[i] <=> j = i BY <1>1, <1>3
  <2> QED BY <1>1, <2>1 DEF AgeOf
<1>7. age \in [Rows -> 1..n] BY <1>4, <1>6
<1>8. ASSUME NEW a \in Rows, parent[a] # NoParent
      PROVE  /\ parent[a] \in Rows /\ AgeOf(parent[a]) < AgeOf(a)
             /\ table[parent[a]] = "COMPLETED" /\ score[parent[a]] # Unscored
  <2>1. PICK i \in 1..n : inserted[i] = a BY <1>4
  <2>2. PICK j \in 1..n : /\ j < i /\ inserted[j] = parent[a]
                          /\ table[inserted[j]] = "COMPLETED"
                          /\ score[inserted[j]] # Unscored
    BY <1>1, <1>8, <2>1 DEF RowsOK
  <2> QED BY <1>4, <1>6, <2>1, <2>2
<1>9. NoParent \notin Rows BY StrategyAssumption DEF Rows, NoParent
<1>10. Forest(FamilyTree, age)
  <2>1. DOMAIN FamilyTree = Rows BY <1>2
  <2>2. FamilyTree \in [Rows -> Rows \cup {NoParent}]
    <3>1. \A a \in Rows : parent[a] \in Rows \cup {NoParent} BY <1>8
    <3> QED BY <1>2, <3>1
  <2>3. \A a \in Rows : FamilyTree[a] # NoParent => age[FamilyTree[a]] < age[a]
    BY <1>2, <1>8
  <2> HIDE DEF age
  <2> QED BY <1>1, <1>5, <1>7, <1>9, <2>1, <2>2, <2>3 DEF Forest
<1> QED BY <1>2, <1>8, <1>10

LEMMA WalksAreRooted ==
    ASSUME TypeOK, RowsOK, NEW depth \in Depths
    PROVE  WalksRooted(depth)
<1> DEFINE tree == FamilyTree
           age == [a \in Rows |-> AgeOf(a)]
           walk(a) == Family!Walk(tree, a, depth)
           walks == [a \in DOMAIN tree |-> Family!Ancestry(tree, a, depth)]
           above == [a \in DOMAIN tree |->
                        {walks[a].nodes[i] : i \in 2..Len(walks[a].nodes)}]
           Cut(a) == Family!CutOff(tree, walk(a), depth)
<1>1. /\ DOMAIN tree = Rows /\ Forest(tree, age)
      /\ \A a \in Rows : tree[a] # NoParent =>
            /\ tree[a] \in Rows
            /\ table[tree[a]] = "COMPLETED" /\ score[tree[a]] # Unscored
  BY RowsAreAForest
<1>2. depth \in Nat /\ depth >= 2 BY StrategySearchAssumption
<1>3. \A a \in Rows : age[a] = AgeOf(a) /\ age[a] \in Nat BY <1>1 DEF Forest
<1>4. \A a \in Rows : walks[a].nodes = walk(a) /\ (walks[a].truncated <=> Cut(a))
  BY <1>1 DEF Family!Ancestry
<1>5. \A a \in Rows : above[a] = {walk(a)[i] : i \in 2..Len(walk(a))} BY <1>1, <1>4
<1> HIDE DEF tree, age
<1>6. \A a \in Rows : /\ Path(tree, a, walk(a)) /\ Len(walk(a)) \in Nat
                      /\ walk(a)[1] = a /\ Len(walk(a)) >= 1
                      /\ \A i \in 1..Len(walk(a)) : walk(a)[i] \in Rows
                      /\ Family!AtRoot(tree, walk(a)) \/ Cut(a)
                      /\ Cut(a) => Len(walk(a)) >= depth
  <2> SUFFICES ASSUME NEW a \in Rows
               PROVE  /\ Path(tree, a, walk(a)) /\ Len(walk(a)) \in Nat
                      /\ walk(a)[1] = a /\ Len(walk(a)) >= 1
                      /\ \A i \in 1..Len(walk(a)) : walk(a)[i] \in Rows
                      /\ Family!AtRoot(tree, walk(a)) \/ Cut(a)
                      /\ Cut(a) => Len(walk(a)) >= depth
    OBVIOUS
  <2>1. /\ Path(tree, a, walk(a))
        /\ Family!AtRoot(tree, walk(a)) \/ Cut(a)
        /\ Cut(a) => Len(walk(a)) >= depth
    BY <1>1, <1>2, WalkIs
  <2> DEFINE c == walk(a)
  <2>2. Path(tree, a, c) BY <2>1
  <2> HIDE DEF c
  <2>3. Len(c) \in Nat /\ c[1] = a /\ Len(c) >= 1 /\ \A i \in 1..Len(c) : c[i] \in Rows
    BY <1>1, <2>2 DEF Path
  <2> QED BY <2>1, <2>3 DEF c
<1> HIDE DEF walk, walks, above, Cut
<1>7. ASSUME NEW a \in Rows, NEW b \in above[a]
      PROVE  table[b] = "COMPLETED" /\ score[b] # Unscored /\ AgeOf(b) < AgeOf(a)
  <2> DEFINE c == walk(a)
  <2>1. PICK i \in 2..Len(c) : b = c[i] BY <1>5, <1>7
  <2>2. /\ Len(c) \in Nat /\ i - 1 \in 1..(Len(c) - 1) /\ (i - 1) + 1 = i /\ i \in 1..Len(c)
        /\ i - 1 \in 1..Len(c) /\ 1 \in 1..Len(c) /\ 1 <= i
    BY <1>6
  <2>3. tree[c[i - 1]] = b /\ c[i - 1] \in Rows /\ b \in Rows
    BY <1>6, <2>1, <2>2 DEF Path
  <2>4. b # NoParent BY <1>1, <2>3 DEF Forest
  <2>5. table[b] = "COMPLETED" /\ score[b] # Unscored BY <1>1, <2>3, <2>4
  <2>6. age[c[i]] + (i - 1) <= age[c[1]] BY <1>1, <1>6, <2>2, PathsGetOlder
  <2>7. age[b] < age[a] BY <1>3, <1>6, <2>1, <2>2, <2>3, <2>6
  <2> QED BY <1>3, <2>3, <2>5, <2>7
<1>8. ASSUME NEW a \in Rows, NEW b \in Rows
      PROVE  /\ a \in above[b] => b \in Family!Descendants(tree, a)
             /\ b \in Family!Descendants(tree, a) => a \in above[b] \/ Cut(b)
  <2>1. a \in above[b] <=> \E i \in 2..Len(walk(b)) : walk(b)[i] = a BY <1>5
  <2>2. a \in above[b] => b \in Family!Descendants(tree, a)
    BY <1>1, <1>6, <2>1, DescendantsAre
  <2>3. ASSUME b \in Family!Descendants(tree, a), ~Cut(b) PROVE a \in above[b]
    <3>1. tree[walk(b)[Len(walk(b))]] = NoParent BY <1>6, <2>3 DEF Family!AtRoot
    <3>2. \E i \in 2..Len(walk(b)) : walk(b)[i] = a
      BY <1>1, <1>6, <2>3, <3>1, DescendantsAre
    <3> QED BY <2>1, <3>2
  <2> QED BY <2>2, <2>3
<1>9. ASSUME NEW a \in Rows
      PROVE  Family!ReportedChain(walks[a]) = <<>> <=> a \in Family!Roots(tree)
  <2> DEFINE c == walk(a)
  <2>1. Family!ReportedChain(walks[a]) = <<>> <=> Len(c) <= 1
    <3>1. walks[a].nodes = c BY <1>4
    <3>2. c # <<>> BY <1>6
    <3> QED BY <3>1, <3>2 DEF Family!ReportedChain
  <2>2. a \in Family!Roots(tree) <=> tree[a] = NoParent BY <1>1 DEF Family!Roots
  <2>3. ASSUME Len(c) <= 1 PROVE tree[a] = NoParent
    <3>1. Len(c) \in Nat /\ Len(c) >= 1 /\ c[1] = a
          /\ (Cut(a) => Len(c) >= depth) /\ (Family!AtRoot(tree, c) \/ Cut(a))
      BY <1>6
    <3> HIDE DEF c
    <3>2. Len(c) = 1 /\ ~(Len(c) >= depth) BY <1>2, <2>3, <3>1
    <3> QED BY <3>1, <3>2 DEF Family!AtRoot
  <2>4. ASSUME tree[a] = NoParent PROVE Len(c) <= 1
    <3> SUFFICES ASSUME Len(c) >= 2 PROVE FALSE BY <1>6
    <3>1. 1 \in 1..(Len(c) - 1) /\ 2 \in 1..Len(c) BY <1>6
    <3>2. tree[c[1]] = c[2] BY <1>6, <3>1 DEF Path
    <3> QED BY <1>1, <1>6, <2>4, <3>1, <3>2 DEF Forest
  <2> QED BY <2>1, <2>2, <2>3, <2>4
<1>10. \A a \in DOMAIN tree :
         /\ walks[a].truncated => Len(walks[a].nodes) >= depth
         /\ \A b \in above[a] :
              table[b] = "COMPLETED" /\ score[b] # Unscored /\ AgeOf(b) < AgeOf(a)
         /\ \A b \in DOMAIN tree :
              /\ a \in above[b] => b \in Family!Descendants(tree, a)
              /\ b \in Family!Descendants(tree, a) => a \in above[b] \/ walks[b].truncated
         /\ Family!ReportedChain(walks[a]) = <<>> <=> a \in Family!Roots(tree)
  <2> QED BY <1>1, <1>4, <1>6, <1>7, <1>8, <1>9
<1> QED BY <1>10 DEF WalksRooted, tree, walks, above, AgeOf

\* The report's ancestry is a forest of older, completed and scored rows: a
\* walk is cut off by its depth only, descendants and walks agree, and a chain
\* is empty exactly for a founder; and a member of the population has the
\* parent of its row; for any depth and whatever was lost in a crash.
\* (_propose_one, _accept_proposal, _build_tasks, LineageGraph)
THEOREM LineageTheorem == Spec => []LineageRooted
<1>1. IInv => LineageRooted
  <2> SUFFICES ASSUME IInv PROVE LineageRooted OBVIOUS
  <2>1. TypeOK /\ RowsOK /\ Grounded(strategy, told, table, score, parent) BY DEF IInv
  <2>2. \A i \in DOMAIN strategy.population :
           strategy.population[i].parent = parent[strategy.population[i].arch]
    <3>1. CASE setting.evolving BY <2>1, <3>1 DEF Grounded, Aged
    <3>2. CASE ~setting.evolving BY <2>1, <3>2 DEF Grounded
    <3> QED BY <3>1, <3>2
  <2>3. \A depth \in Depths : WalksRooted(depth) BY <2>1, WalksAreRooted
  <2>4. Family!Roots(FamilyTree) = {a \in DOMAIN FamilyTree : parent[a] = NoParent}
    BY <2>1, RowsAreAForest DEF Family!Roots
  <2> QED BY <2>2, <2>3, <2>4 DEF LineageRooted
<1> QED BY <1>1, StrategyInvariant, PTL
=============================================================================
