------------------------ MODULE HalvingSearchProofs ------------------------
(***************************************************************************)
(* What TLAPS proves of SuccessiveHalving and HalvingSearch, for every     *)
(* ladder, space, stream of draws, in-flight limit and retry allowance,    *)
(* and any number of interruptions, crashes and resumes.                   *)
(*                                                                         *)
(* First the promotion: Best is well defined (its CHOOSE always finds an   *)
(* element, because different successes have different places) and takes   *)
(* exactly the first places.  Then the search: no strategy state, in       *)
(* memory or in a checkpoint, disagrees with the rows, because a row that  *)
(* is closed is never touched again; and so nobody enters a rung without a *)
(* measurement at the rung below, from whatever checkpoint a resume        *)
(* started.  Then the bracket as a whole: who enters a rung is decided     *)
(* before the rung is entered, so the rows are always those of one         *)
(* bracket.  Last, the end: what the strategy waits for is always          *)
(* somewhere in the engine, so that a search stops for a reason that its   *)
(* rows show.                                                              *)
(***************************************************************************)
EXTENDS HalvingSearch, TLAPS, FiniteSetTheorems, SequenceTheorems, WellFoundedInduction

-----------------------------------------------------------------------------
(***************************************************************************)
(* Promotion.                                                              *)
(***************************************************************************)
\* Those placed before a among the successes.
Ahead(res, a) == {c \in Successes(res) : Better(res, c, a)}

LEMMA SuccessesFinite ==
  ASSUME NEW res
  PROVE  /\ IsFiniteSet(Successes(res))
         /\ Cardinality(Successes(res)) \in Nat
<1>1. IsFiniteSet(Successes(res))
  BY HalvingAssumption, FS_Subset DEF Successes
<1> QED  BY <1>1, FS_CardinalityType

\* The place of a success is one of 1 .. the number of successes.
LEMMA PlaceRange ==
  ASSUME NEW res \in [Archs -> Int], NEW a \in Successes(res)
  PROVE  Place(res, a) \in 1 .. Cardinality(Successes(res))
<1> DEFINE S == Successes(res)
<1>1. IsFiniteSet(S) /\ Cardinality(S) \in Nat
  BY SuccessesFinite
<1>2. S \subseteq Archs /\ \A c \in S : c \in Nat /\ res[c] \in Int
  BY HalvingAssumption DEF Successes
<1>3. Ahead(res, a) \subseteq S \ {a}
  BY <1>2 DEF Ahead, Better
<1>4. IsFiniteSet(S \ {a}) /\ Cardinality(S \ {a}) = Cardinality(S) - 1
  BY <1>1, FS_RemoveElement
<1>5. /\ Cardinality(Ahead(res, a)) <= Cardinality(S) - 1
      /\ Cardinality(Ahead(res, a)) \in Nat
  BY <1>3, <1>4, FS_Subset, FS_CardinalityType
<1> QED  BY <1>1, <1>5 DEF Place, Ahead

\* The order of promotion is strict, so that no two successes share a place.
LEMMA PlaceInjective ==
  ASSUME NEW res \in [Archs -> Int],
         NEW a \in Successes(res), NEW c \in Successes(res), a # c
  PROVE  Place(res, a) # Place(res, c)
<1> DEFINE S == Successes(res)
<1>1. IsFiniteSet(S)
  BY SuccessesFinite
<1>2. S \subseteq Archs /\ \A x \in S : x \in Nat /\ res[x] \in Int
  BY HalvingAssumption DEF Successes
<1>3. ASSUME NEW x \in S, NEW y \in S, Better(res, x, y)
      PROVE  Place(res, x) # Place(res, y)
  <2>1. Ahead(res, x) \subseteq Ahead(res, y)
    BY <1>2, <1>3 DEF Ahead, Better
  <2>2. x \in Ahead(res, y) /\ x \notin Ahead(res, x)
    BY <1>2, <1>3 DEF Ahead, Better
  <2>3. IsFiniteSet(Ahead(res, y)) /\ IsFiniteSet(Ahead(res, x))
    BY <1>1, FS_Subset DEF Ahead
  <2>4. Cardinality(Ahead(res, x)) # Cardinality(Ahead(res, y))
    BY <2>1, <2>2, <2>3, FS_Subset
  <2> QED  BY <2>3, <2>4, FS_CardinalityType DEF Place, Ahead
<1>4. Better(res, a, c) \/ Better(res, c, a)
  BY <1>2 DEF Better
<1> QED  BY <1>3, <1>4

\* Every place is taken: an injection of the successes into one place fewer
\* would share a place.
LEMMA PlaceTaken ==
  ASSUME NEW res \in [Archs -> Int], NEW i \in 1 .. Cardinality(Successes(res))
  PROVE  \E a \in Successes(res) : Place(res, a) = i
<1> DEFINE S == Successes(res)
           m == Cardinality(S)
           f == [a \in S |-> Place(res, a)]
<1> SUFFICES ASSUME \A a \in S : Place(res, a) # i PROVE FALSE
  OBVIOUS
<1>1. IsFiniteSet(S) /\ m \in Nat
  BY SuccessesFinite
<1>2. IsFiniteSet(1 .. m) /\ Cardinality(1 .. m) = m
  BY <1>1, FS_Interval
<1>3. IsFiniteSet((1 .. m) \ {i}) /\ Cardinality((1 .. m) \ {i}) = m - 1
  BY <1>2, FS_RemoveElement
<1>4. f \in [S -> (1 .. m) \ {i}]
  BY PlaceRange
<1>5. Cardinality((1 .. m) \ {i}) < Cardinality(S)
  BY <1>1, <1>3
<1>6. \E x, y \in S : x # y /\ f[x] = f[y]
  <2> HIDE DEF f, S, m
  <2> QED  BY <1>1, <1>3, <1>4, <1>5, FS_PigeonHole
<1> QED  BY <1>6, PlaceInjective

\* Best returns successes, each at its place and as many as there are places.
\* This is the promotion of _advance_rung: scored[:survivors] after the sort.
THEOREM BestTakesFirstPlaces ==
  ASSUME NEW res \in [Archs -> Int], NEW n \in Nat
  PROVE  /\ Best(res, n) \in Seq(Successes(res))
         /\ \A i \in 1 .. Len(Best(res, n)) : Place(res, Best(res, n)[i]) = i
         /\ \A a \in Successes(res) :
               Place(res, a) <= n <=> \E i \in 1 .. Len(Best(res, n)) : Best(res, n)[i] = a
<1> DEFINE S == Successes(res)
           m == Cardinality(S)
           k == IF n < m THEN n ELSE m
<1>1. IsFiniteSet(S) /\ m \in Nat
  BY SuccessesFinite
<1>2. \A i \in 1 .. k : \E a \in S : Place(res, a) = i
  BY <1>1, PlaceTaken
<1>3. Best(res, n) = [i \in 1 .. k |-> CHOOSE a \in S : Place(res, a) = i]
  BY DEF Best
<1>4. \A i \in 1 .. k : Best(res, n)[i] \in S /\ Place(res, Best(res, n)[i]) = i
  BY <1>2, <1>3
<1>5. k \in Nat /\ DOMAIN Best(res, n) = 1 .. k
  BY <1>1, <1>3
<1>6. Best(res, n) \in [1 .. k -> S]
  BY <1>3, <1>4
<1>7. Best(res, n) \in Seq(S) /\ Len(Best(res, n)) = k
  <2> HIDE DEF k, S
  <2> QED  BY <1>5, <1>6, SeqDef
<1>8. ASSUME NEW a \in S
      PROVE  Place(res, a) <= n <=> \E i \in 1 .. k : Best(res, n)[i] = a
  <2>1. Place(res, a) \in 1 .. m
    BY PlaceRange
  <2>2. Place(res, a) <= n => Place(res, a) \in 1 .. k
    BY <1>1, <2>1
  <2>3. \A i \in 1 .. k : Best(res, n)[i] = a <=> Place(res, a) = i
    BY <1>4, PlaceInjective
  <2>4. \A i \in 1 .. k : i <= n
    BY <1>1
  <2> QED  BY <2>2, <2>3, <2>4
<1> QED  BY <1>4, <1>7, <1>8

-----------------------------------------------------------------------------
(***************************************************************************)
(* The inductive invariant of the search.                                  *)
(***************************************************************************)
Closed == {"COMPLETED", "FAILED"}

\* A row has a score once it is completed, and none before it is closed.
RowsScored ==
    \A r \in Rungs, a \in Archs :
        /\ table[r][a] = "COMPLETED" => score[r][a] \in Scores
        /\ table[r][a] = "FAILED" => score[r][a] \in {Pending, None}
        /\ table[r][a] \notin Closed => score[r][a] = Pending

\* A strategy state, in memory or in a checkpoint, against the rows.
Agrees(b, status, value) ==
    \A r \in Rungs :
        /\ \A a \in Reported(b, r) :
              b.rungs[r].results[a] = value[r][a] /\ status[r][a] \in Closed
        /\ \A i \in DOMAIN b.rungs[r].promoted :
              status[r][b.rungs[r].promoted[i]] = "COMPLETED"

StatesAgree ==
    /\ Agrees(bracket, table, score)
    /\ saved # <<>> => Agrees(saved[1], table, score)

\* A proposal above rung 0 is of a candidate measured at the rung below.
Merit(k, status) == k[1] > 0 => status[k[1] - 1][k[2]] = "COMPLETED"

OfferOK == \A i \in DOMAIN offer : Merit(offer[i], table)

\* The rows of the tasks in hand are running, each in one task, but for the
\* one whose result is about to be observed.
TasksOK ==
    /\ pc \in {"loop", "propose", "accept"} => tasks = <<>>
    /\ pc \in {"claim", "results", "observe"} =>
           \A i, j \in 1 .. Len(tasks) : tasks[i] = tasks[j] => i = j
    /\ pc \in {"claim", "results"} =>
           \A i \in 1 .. Len(tasks) : Status(tasks[i]) = "RUNNING"
    /\ pc = "observe" =>
           /\ tasks # <<>>
           /\ Status(tasks[1]) \in Closed
           /\ \A i \in 2 .. Len(tasks) : Status(tasks[i]) = "RUNNING"

IInv ==
    TypeOK /\ RowsScored /\ StatesAgree /\ EntersByMerit /\ OfferOK /\ TasksOK

-----------------------------------------------------------------------------
(***************************************************************************)
(* The operations of the strategy: types, and what they leave alone.       *)
(***************************************************************************)
\* c has the results and the promotions of b.
SameReports(b, c) ==
    \A r \in Rungs : /\ c.rungs[r].results = b.rungs[r].results
                     /\ c.rungs[r].promoted = b.rungs[r].promoted

LEMMA RungsTyped ==
  /\ Rungs \subseteq Nat
  /\ 0 \in Rungs
  /\ NumRungs \in Nat \ {0}
  /\ \A r \in 0 .. NumRungs : r # NumRungs => r \in Rungs
  /\ \A r \in Rungs : r # Last => r + 1 \in Rungs
  /\ \A r \in Rungs : r # 0 => r - 1 \in Rungs
  /\ \A r \in Rungs : Sizes[r] \in Nat \ {0}
BY HalvingAssumption DEF Rungs, Last

LEMMA FreshTyped ==
  /\ FreshBracket \in Brackets
  /\ \A status, value : Agrees(FreshBracket, status, value)
<1>1. EmptyRung \in RungStates
  BY DEF EmptyRung, RungStates, Results
<1>2. FreshBracket \in Brackets
  BY <1>1, RungsTyped DEF FreshBracket, Brackets
<1>3. \A r \in Rungs : FreshBracket.rungs[r] = EmptyRung
  BY DEF FreshBracket
<1>4. ASSUME NEW status, NEW value PROVE Agrees(FreshBracket, status, value)
  BY <1>3 DEF Agrees, Reported, EmptyRung
<1> QED  BY <1>2, <1>4

LEMMA WithEntrantTyped ==
  ASSUME NEW b \in Brackets, NEW r \in Rungs, NEW a \in Archs
  PROVE  /\ WithEntrant(b, r, a) \in [Rungs -> RungStates]
         /\ \A q \in Rungs : /\ WithEntrant(b, r, a)[q].results = b.rungs[q].results
                             /\ WithEntrant(b, r, a)[q].promoted = b.rungs[q].promoted
<1>1. b.rungs \in [Rungs -> RungStates] /\ b.rungs[r] \in RungStates
  BY DEF Brackets
<1> DEFINE old == b.rungs[r]
           new == [proposed |-> Append(old.proposed, a), results |-> old.results,
                   promoted |-> old.promoted]
<1>2. /\ old.proposed \in Seq(Archs)
      /\ old.results \in [Archs -> Results]
      /\ old.promoted \in Seq(Archs)
      /\ old = [proposed |-> old.proposed, results |-> old.results,
                promoted |-> old.promoted]
  BY <1>1 DEF RungStates
<1>3. Append(old.proposed, a) \in Seq(Archs)
  BY <1>2
<1>4. new \in RungStates
  BY <1>2, <1>3 DEF RungStates
<1>5. [old EXCEPT !.proposed = Append(@, a)] = new
  BY <1>2, SMTT(40)
<1>6. WithEntrant(b, r, a) = [b.rungs EXCEPT ![r] = new]
  BY <1>1, <1>5 DEF WithEntrant
<1>7. new.results = old.results /\ new.promoted = old.promoted
  OBVIOUS
<1> HIDE DEF new
<1> QED  BY <1>1, <1>4, <1>6, <1>7

LEMMA SampledTyped ==
  ASSUME NEW b \in Brackets, NEW s \in Seq(Archs), NEW i \in DOMAIN s
  PROVE  Sampled(b, s, i) \in Brackets /\ SameReports(b, Sampled(b, s, i))
<1>1. s[i] \in Archs /\ i \in Nat
  BY ElementOfSeq, LenProperties
<1>2. 0 \in Rungs
  BY RungsTyped
<1>3. WithEntrant(b, 0, s[i]) \in [Rungs -> RungStates]
  BY <1>1, <1>2, WithEntrantTyped
<1>4. Sampled(b, s, i).rungs = WithEntrant(b, 0, s[i])
  BY DEF Sampled, Brackets
<1>5. Sampled(b, s, i) \in Brackets
  BY <1>1, <1>3 DEF Sampled, Brackets
<1> QED  BY <1>1, <1>2, <1>4, <1>5, WithEntrantTyped DEF SameReports

LEMMA PromotedTyped ==
  ASSUME NEW b \in Brackets, NEW r \in Rungs, NextSurvivor(b, r) \in Archs
  PROVE  Promoted(b, r) \in Brackets /\ SameReports(b, Promoted(b, r))
<1>1. WithEntrant(b, r, NextSurvivor(b, r)) \in [Rungs -> RungStates]
  BY WithEntrantTyped
<1>2. Promoted(b, r).rungs = WithEntrant(b, r, NextSurvivor(b, r))
  BY DEF Promoted, Brackets
<1>3. Promoted(b, r) \in Brackets
  BY <1>1 DEF Promoted, Brackets
<1> QED  BY <1>2, <1>3, WithEntrantTyped DEF SameReports

LEMMA DryTyped ==
  ASSUME NEW b \in Brackets
  PROVE  SamplerDry(b) \in Brackets /\ SameReports(b, SamplerDry(b))
BY DEF SamplerDry, Brackets, SameReports

LEMMA DuplicatedTyped ==
  ASSUME NEW b \in Brackets, NEW a \in Archs
  PROVE  Duplicated(b, a) \in Brackets /\ SameReports(b, Duplicated(b, a))
BY DEF Duplicated, Brackets, SameReports

\* observe files the result under its own rung and touches nothing else.
LEMMA ObservedTyped ==
  ASSUME NEW b \in Brackets, NEW r \in Rungs, NEW a \in Archs, NEW v \in Results
  PROVE  /\ Observed(b, a, r, v) \in Brackets
         /\ \A q \in Rungs :
               /\ Observed(b, a, r, v).rungs[q].promoted = b.rungs[q].promoted
               /\ \A c \in Archs : Observed(b, a, r, v).rungs[q].results[c] =
                        IF q = r /\ c = a THEN v ELSE b.rungs[q].results[c]
<1>1. b.rungs \in [Rungs -> RungStates] /\ b.rungs[r] \in RungStates
  BY DEF Brackets
<1> DEFINE more == IF a \in Entrants(b, r) THEN b.rungs[r].proposed
                   ELSE Append(b.rungs[r].proposed, a)
           res == [b.rungs[r].results EXCEPT ![a] = v]
           new == [proposed |-> more, results |-> res, promoted |-> b.rungs[r].promoted]
<1>2. more \in Seq(Archs)
  BY <1>1 DEF RungStates
<1>3. res \in [Archs -> Results]
  BY <1>1 DEF RungStates
<1>4. new \in RungStates
  BY <1>1, <1>2, <1>3 DEF RungStates
<1>5. /\ DOMAIN b.rungs = Rungs
      /\ b.rungs[r] = [proposed |-> b.rungs[r].proposed, results |-> b.rungs[r].results,
                       promoted |-> b.rungs[r].promoted]
      /\ b = [rungs |-> b.rungs, current |-> b.current, seen |-> b.seen,
              drawn |-> b.drawn, exhausted |-> b.exhausted]
  BY <1>1 DEF Brackets, RungStates
<1>6. Observed(b, a, r, v) = [b EXCEPT !.rungs = [b.rungs EXCEPT ![r] = new]]
  BY <1>5 DEF Observed
<1>7. Observed(b, a, r, v).rungs = [b.rungs EXCEPT ![r] = new]
  BY <1>5, <1>6
<1>8. [b.rungs EXCEPT ![r] = new] \in [Rungs -> RungStates]
  BY <1>1, <1>4
<1>9. Observed(b, a, r, v) \in Brackets
  BY <1>6, <1>8 DEF Brackets
<1>10. \A c \in Archs : res[c] = IF c = a THEN v ELSE b.rungs[r].results[c]
  BY <1>1 DEF RungStates
<1> HIDE DEF more, res
<1> QED  BY <1>1, <1>7, <1>9, <1>10

\* _advance_rung promotes successes of the current rung, or stops.
LEMMA AdvancedTyped ==
  ASSUME NEW b \in Brackets, b.current \in Rungs
  PROVE  /\ Advanced(b) \in Brackets
         /\ \A q \in Rungs :
               /\ Advanced(b).rungs[q].results = b.rungs[q].results
               /\ \/ Advanced(b).rungs[q].promoted = b.rungs[q].promoted
                  \/ Advanced(b).rungs[q].promoted
                        \in Seq(Successes(b.rungs[q].results))
<1> DEFINE r == b.current
           res == b.rungs[r].results
           top == Best(res, Sizes[r + 1])
<1>1. b.rungs \in [Rungs -> RungStates] /\ b.rungs[r] \in RungStates
  BY DEF Brackets
<1>2. Results \subseteq Int
  BY HalvingAssumption DEF Results, Pending, None
<1>3. res \in [Archs -> Results]
  BY <1>1 DEF RungStates
<1>4. res \in [Archs -> Int]
  BY <1>2, <1>3
<1>5. CASE r = Last
  BY <1>5, RungsTyped DEF Advanced, Brackets
<1>6. CASE r # Last /\ top = <<>>
  BY <1>6 DEF Advanced, Brackets
<1>7. CASE r # Last /\ top # <<>>
  <2>1. r + 1 \in Rungs /\ Sizes[r + 1] \in Nat
    BY <1>7, RungsTyped
  <2>2. top \in Seq(Successes(res))
    BY <1>4, <2>1, BestTakesFirstPlaces
  <2>3. top \in Seq(Archs)
    BY <2>2, SeqMonotonic DEF Successes
  <2> DEFINE new == [b.rungs[r] EXCEPT !.promoted = top]
  <2>4. /\ new \in RungStates
        /\ new.results = res
        /\ new.promoted = top
    BY <1>1, <2>3 DEF RungStates
  <2>5. Advanced(b) = [b EXCEPT !.rungs = [b.rungs EXCEPT ![r] = new], !.current = r + 1]
    BY <1>1, <1>7 DEF Advanced, Brackets
  <2>6. [b.rungs EXCEPT ![r] = new] \in [Rungs -> RungStates]
    BY <1>1, <2>4
  <2>7. r + 1 \in 0 .. NumRungs
    BY <2>1, RungsTyped DEF Rungs
  <2>8. Advanced(b) \in Brackets
    BY <2>5, <2>6, <2>7 DEF Brackets
  <2>9. Advanced(b).rungs = [b.rungs EXCEPT ![r] = new]
    BY <2>5 DEF Brackets
  <2> HIDE DEF new, top
  <2> QED  BY <1>1, <2>2, <2>4, <2>8, <2>9
<1> QED  BY <1>5, <1>6, <1>7

-----------------------------------------------------------------------------
(***************************************************************************)
(* A strategy state against the rows, when either moves.                   *)
(***************************************************************************)
\* The closed rows of t keep their status and score in u.
ClosedKept(t, s, u, w) ==
    \A r \in Rungs, a \in Archs :
        t[r][a] \in Closed => u[r][a] = t[r][a] /\ w[r][a] = s[r][a]

LEMMA AgreesForward ==
  ASSUME NEW b \in Brackets, NEW c \in Brackets, NEW t, NEW s, NEW u, NEW w,
         Agrees(b, t, s), ClosedKept(t, s, u, w), SameReports(b, c)
  PROVE  Agrees(c, u, w)
<1> SUFFICES ASSUME NEW r \in Rungs
             PROVE  /\ \A a \in Reported(c, r) :
                          c.rungs[r].results[a] = w[r][a] /\ u[r][a] \in Closed
                    /\ \A i \in DOMAIN c.rungs[r].promoted :
                          u[r][c.rungs[r].promoted[i]] = "COMPLETED"
  BY DEF Agrees
<1>1. /\ c.rungs[r].results = b.rungs[r].results
      /\ c.rungs[r].promoted = b.rungs[r].promoted
  BY DEF SameReports
<1>2. \A a \in Reported(b, r) :
         b.rungs[r].results[a] = s[r][a] /\ t[r][a] \in Closed
  BY DEF Agrees
<1>3. \A i \in DOMAIN b.rungs[r].promoted : t[r][b.rungs[r].promoted[i]] = "COMPLETED"
  BY DEF Agrees
<1>4. \A a \in Reported(c, r) : a \in Reported(b, r) /\ a \in Archs
  BY <1>1 DEF Reported
<1>5. \A a \in Reported(c, r) :
         c.rungs[r].results[a] = w[r][a] /\ u[r][a] \in Closed
  BY <1>1, <1>2, <1>4 DEF ClosedKept
<1>6. b.rungs[r].promoted \in Seq(Archs)
  BY DEF Brackets, RungStates
<1>7. \A i \in DOMAIN b.rungs[r].promoted : b.rungs[r].promoted[i] \in Archs
  BY <1>6, ElementOfSeq
<1>8. \A i \in DOMAIN c.rungs[r].promoted : u[r][c.rungs[r].promoted[i]] = "COMPLETED"
  BY <1>1, <1>3, <1>7 DEF ClosedKept, Closed
<1> QED  BY <1>5, <1>8

\* The result of a closed row is observed.
LEMMA AgreesObserved ==
  ASSUME NEW b \in Brackets, NEW r \in Rungs, NEW a \in Archs, NEW t, NEW s,
         Agrees(b, t, s), s[r][a] \in Results, t[r][a] \in Closed
  PROVE  Agrees(Observed(b, a, r, s[r][a]), t, s)
<1> DEFINE c == Observed(b, a, r, s[r][a])
<1>1. \A q \in Rungs :
         /\ c.rungs[q].promoted = b.rungs[q].promoted
         /\ \A e \in Archs : c.rungs[q].results[e] =
                  IF q = r /\ e = a THEN s[r][a] ELSE b.rungs[q].results[e]
  BY ObservedTyped
<1> HIDE DEF c
<1>2. \A q \in Rungs : \A e \in Archs :
         b.rungs[q].results[e] # Pending =>
             b.rungs[q].results[e] = s[q][e] /\ t[q][e] \in Closed
  BY DEF Agrees, Reported
<1>3. \A q \in Rungs : \A e \in Archs :
         c.rungs[q].results[e] # Pending =>
             c.rungs[q].results[e] = s[q][e] /\ t[q][e] \in Closed
  BY <1>1, <1>2
<1>4. \A q \in Rungs : \A i \in DOMAIN c.rungs[q].promoted :
         t[q][c.rungs[q].promoted[i]] = "COMPLETED"
  BY <1>1 DEF Agrees
<1>5. Agrees(c, t, s)
  BY <1>3, <1>4 DEF Agrees, Reported
<1> QED  BY <1>5 DEF c

\* The promoted are successes, so their rows are completed: a failed row has
\* no score.
LEMMA AgreesAdvanced ==
  ASSUME NEW b \in Brackets, b.current \in Rungs, NEW t, NEW s,
         Agrees(b, t, s),
         \A r \in Rungs, a \in Archs : t[r][a] = "FAILED" => s[r][a] \in {Pending, None}
  PROVE  Agrees(Advanced(b), t, s)
<1> DEFINE c == Advanced(b)
<1>1. \A q \in Rungs :
         /\ c.rungs[q].results = b.rungs[q].results
         /\ \/ c.rungs[q].promoted = b.rungs[q].promoted
            \/ c.rungs[q].promoted \in Seq(Successes(b.rungs[q].results))
  BY AdvancedTyped
<1> HIDE DEF c
<1>2. \A q \in Rungs : \A a \in Successes(b.rungs[q].results) : t[q][a] = "COMPLETED"
  <2> TAKE q \in Rungs
  <2> TAKE a \in Successes(b.rungs[q].results)
  <2>1. a \in Archs /\ b.rungs[q].results[a] >= 0
    BY DEF Successes, Succeeded
  <2>2. b.rungs[q].results[a] # Pending /\ b.rungs[q].results[a] # None
    BY <2>1 DEF Pending, None
  <2>3. b.rungs[q].results[a] = s[q][a] /\ t[q][a] \in Closed
    BY <2>1, <2>2 DEF Agrees, Reported
  <2> QED  BY <2>1, <2>2, <2>3 DEF Closed
<1>3. ASSUME NEW q \in Rungs, NEW i \in DOMAIN c.rungs[q].promoted
      PROVE  t[q][c.rungs[q].promoted[i]] = "COMPLETED"
  <2>1. CASE c.rungs[q].promoted = b.rungs[q].promoted
    BY <2>1 DEF Agrees
  <2>2. CASE c.rungs[q].promoted \in Seq(Successes(b.rungs[q].results))
    <3>1. c.rungs[q].promoted[i] \in Successes(b.rungs[q].results)
      BY <2>2, ElementOfSeq
    <3> QED  BY <1>2, <3>1
  <2> QED  BY <1>1, <2>1, <2>2
<1>4. \A q \in Rungs : \A a \in Reported(c, q) :
         c.rungs[q].results[a] = s[q][a] /\ t[q][a] \in Closed
  BY <1>1 DEF Agrees, Reported
<1>5. Agrees(c, t, s)
  BY <1>3, <1>4 DEF Agrees
<1> QED  BY <1>5 DEF c

-----------------------------------------------------------------------------
(***************************************************************************)
(* The rows when one of them moves.                                        *)
(***************************************************************************)
LEMMA WithStatusTyped ==
  ASSUME table \in [Rungs -> [Archs -> RowStates]], NEW k \in Keys, NEW st \in RowStates
  PROVE  /\ WithStatus(k, st) \in [Rungs -> [Archs -> RowStates]]
         /\ \A r \in Rungs, a \in Archs : WithStatus(k, st)[r][a] =
                IF r = k[1] /\ a = k[2] THEN st ELSE table[r][a]
<1>1. k[1] \in Rungs /\ k[2] \in Archs
  BY DEF Keys
<1>2. table[k[1]] \in [Archs -> RowStates]
  BY <1>1
<1>3. [table[k[1]] EXCEPT ![k[2]] = st] \in [Archs -> RowStates]
  BY <1>1, <1>2
<1>4. WithStatus(k, st) = [table EXCEPT ![k[1]] = [table[k[1]] EXCEPT ![k[2]] = st]]
  BY <1>1 DEF WithStatus
<1> QED  BY <1>1, <1>2, <1>3, <1>4

\* The same for a score.
LEMMA WithScoreTyped ==
  ASSUME score \in [Rungs -> [Archs -> Results]], NEW k \in Keys, NEW v \in Results
  PROVE  LET new == [score EXCEPT ![k[1]][k[2]] = v]
         IN /\ new \in [Rungs -> [Archs -> Results]]
            /\ \A r \in Rungs, a \in Archs : new[r][a] =
                   IF r = k[1] /\ a = k[2] THEN v ELSE score[r][a]
<1>1. k[1] \in Rungs /\ k[2] \in Archs
  BY DEF Keys
<1>2. score[k[1]] \in [Archs -> Results]
  BY <1>1
<1>3. [score[k[1]] EXCEPT ![k[2]] = v] \in [Archs -> Results]
  BY <1>1, <1>2
<1> QED  BY <1>1, <1>2, <1>3

-----------------------------------------------------------------------------
(***************************************************************************)
(* Types.                                                                  *)
(***************************************************************************)
LEMMA HeadTail ==
  ASSUME NEW S, NEW q \in Seq(S), q # <<>>
  PROVE  /\ Head(q) \in S /\ Head(q) = q[1]
         /\ Tail(q) \in Seq(S) /\ Len(q) \in Nat \ {0}
         /\ Len(Tail(q)) = Len(q) - 1
         /\ \A i \in 1 .. Len(Tail(q)) : Tail(q)[i] = q[i + 1]
BY EmptySeq, HeadTailProperties, LenProperties, ElementOfSeq

\* The element of the longer of two sequences that follows the shorter one.
LEMMA NextOfLonger ==
  ASSUME NEW S, NEW p \in Seq(S), NEW q \in Seq(S), Len(p) < Len(q)
  PROVE  Len(p) + 1 \in DOMAIN q /\ q[Len(p) + 1] \in S
<1>1. /\ Len(p) \in Nat /\ Len(q) \in Nat
      /\ DOMAIN q = 1 .. Len(q)
  BY LenProperties
<1>2. Len(p) + 1 \in 1 .. Len(q)
  BY <1>1
<1> QED  BY <1>1, <1>2, ElementOfSeq

\* What a proposal step does to the bracket and to the offer.
LEMMA SurvivorTyped ==
  ASSUME NEW b \in Brackets, b.current \in Rungs \ {0}, SurvivorsLeft(b, b.current)
  PROVE  /\ b.current - 1 \in Rungs
         /\ Len(b.rungs[b.current].proposed) + 1
                \in DOMAIN b.rungs[b.current - 1].promoted
         /\ NextSurvivor(b, b.current) \in Archs
<1>1. b.current - 1 \in Rungs
  BY RungsTyped
<1>2. /\ b.rungs[b.current].proposed \in Seq(Archs)
      /\ b.rungs[b.current - 1].promoted \in Seq(Archs)
  BY <1>1 DEF Brackets, RungStates
<1>3. Len(b.rungs[b.current].proposed) < Len(b.rungs[b.current - 1].promoted)
  BY DEF SurvivorsLeft
<1>4. /\ Len(b.rungs[b.current].proposed) + 1
             \in DOMAIN b.rungs[b.current - 1].promoted
      /\ b.rungs[b.current - 1].promoted[Len(b.rungs[b.current].proposed) + 1] \in Archs
  BY <1>2, <1>3, NextOfLonger
<1> QED  BY <1>1, <1>4 DEF NextSurvivor

LEMMA TypeInit == Init => TypeOK
<1> SUFFICES ASSUME Init PROVE TypeOK
  OBVIOUS
<1>1. stream \in Seq(Archs)
  BY HalvingSearchAssumption DEF Init
<1>2. bracket \in Brackets
  BY FreshTyped DEF Init
<1>3. table \in [Rungs -> [Archs -> RowStates]]
  BY DEF Init, RowStates
<1>4. score \in [Rungs -> [Archs -> Results]]
  BY DEF Init, Results
<1>5. retries \in [Rungs -> [Archs -> 0 .. MaxRetries]]
  BY HalvingSearchAssumption DEF Init
<1>6. 0 \in 0 .. MaxResumes
  BY HalvingSearchAssumption
<1> QED  BY <1>1, <1>2, <1>3, <1>4, <1>5, <1>6 DEF Init, TypeOK, Reasons

LEMMA TypeStep ==
  ASSUME TypeOK, TasksOK, [Next]_vars
  PROVE  TypeOK'
<1> USE DEF Stop, Reasons
<1>1. CASE UNCHANGED vars
  BY <1>1 DEF TypeOK, vars, durable, table_vars, memory
<1>2. CASE StopOnBudget \/ NothingToPropose \/ Interrupt \/ Crash
  BY <1>2 DEF TypeOK, StopOnBudget, NothingToPropose, Interrupt, Crash, durable,
              table_vars, memory
<1>3. CASE StartProposing
  <2>1. CompletedCount < MaxEvaluations /\ FreeSlots > 0
    BY <1>3 DEF StartProposing
  <2>2. \A k \in Keys : k[1] \in Rungs /\ k[2] \in Archs
    BY DEF Keys
  <2>3. IsFiniteSet(Rungs)
    BY HalvingAssumption, FS_Interval DEF Rungs
  <2>4. IsFiniteSet(Keys)
    BY <2>3, HalvingAssumption, FS_Product DEF Keys
  <2>5. \A st : IsFiniteSet(InStatus(st)) /\ Cardinality(InStatus(st)) \in Nat
    BY <2>4, FS_Subset, FS_CardinalityType DEF InStatus
  <2>6. CompletedCount \in Nat
    BY <2>5 DEF CompletedCount
  <2>7. FreeSlots \in Nat
    BY <2>5, HalvingSearchAssumption DEF FreeSlots
  <2>8. WantedProposals \in Nat
    BY <2>6, <2>7, HalvingSearchAssumption DEF WantedProposals
  <2> QED  BY <1>3, <2>8 DEF TypeOK, StartProposing, durable, table_vars
<1>4. CASE ProposeSample
  <2> PICK i \in DOMAIN stream : /\ bracket' = Sampled(bracket, stream, i)
                                 /\ Entering(stream[i])
    BY <1>4 DEF ProposeSample
  <2>1. stream[i] \in Archs
    BY ElementOfSeq DEF TypeOK
  <2>2. bracket' \in Brackets
    BY SampledTyped DEF TypeOK
  <2>3. <<bracket.current, stream[i]>> \in Keys
    BY <1>4, <2>1, RungsTyped DEF ProposeSample, Keys
  <2>4. offer' \in Seq(Keys)
    BY <2>3 DEF Entering, TypeOK
  <2> QED  BY <1>4, <2>2, <2>4 DEF TypeOK, ProposeSample, durable, table_vars
<1>5. CASE ProposeNoSample
  BY <1>5, DryTyped DEF TypeOK, ProposeNoSample, durable, table_vars
<1>6. CASE ProposeSurvivor
  <2>1. bracket \in Brackets /\ bracket.current \in Rungs \ {0}
        /\ SurvivorsLeft(bracket, bracket.current)
    BY <1>6, RungsTyped DEF ProposeSurvivor, Proposing, TypeOK, Brackets
  <2>2. NextSurvivor(bracket, bracket.current) \in Archs
    BY <2>1, SurvivorTyped
  <2>3. bracket' \in Brackets
    BY <1>6, <2>1, <2>2, PromotedTyped DEF ProposeSurvivor
  <2>4. offer' \in Seq(Keys)
    BY <1>6, <2>1, <2>2 DEF ProposeSurvivor, Entering, Keys, TypeOK
  <2> QED  BY <1>6, <2>3, <2>4 DEF TypeOK, ProposeSurvivor, durable, table_vars
<1>7. CASE ProposeNoSurvivor \/ WaitAtBarrier \/ ProposedEnough
  BY <1>7 DEF TypeOK, ProposeNoSurvivor, WaitAtBarrier, ProposedEnough, durable,
              table_vars, memory
<1>8. CASE AdvanceRung
  <2>1. bracket \in Brackets /\ bracket.current \in Rungs
    BY <1>8, RungsTyped DEF AdvanceRung, Proposing, TypeOK, Brackets
  <2>2. bracket' \in Brackets
    BY <1>8, <2>1, AdvancedTyped DEF AdvanceRung
  <2>3. pc' \in {"accept", "propose"}
    BY <1>8 DEF AdvanceRung, Proposing
  <2> QED  BY <1>8, <2>2, <2>3 DEF TypeOK, AdvanceRung, durable, table_vars
<1>9. CASE AcceptDuplicate
  <2>1. Head(offer)[2] \in Archs /\ Tail(offer) \in Seq(Keys)
    BY <1>9, HeadTail DEF AcceptDuplicate, TypeOK, Keys
  <2>2. bracket' \in Brackets
    BY <1>9, <2>1, DuplicatedTyped DEF AcceptDuplicate, TypeOK
  <2> QED  BY <1>9, <2>1, <2>2 DEF TypeOK, AcceptDuplicate, durable, table_vars
<1>10. CASE AcceptNew
  <2>1. Head(offer) \in Keys /\ Tail(offer) \in Seq(Keys)
    BY <1>10, HeadTail DEF AcceptNew, TypeOK
  <2>2. table' \in [Rungs -> [Archs -> RowStates]]
    BY <1>10, <2>1, WithStatusTyped DEF AcceptNew, TypeOK, RowStates
  <2>3. inserted' \in Seq(Keys)
    BY <1>10, <2>1 DEF AcceptNew, TypeOK
  <2> QED  BY <1>10, <2>1, <2>2, <2>3 DEF TypeOK, AcceptNew
<1>11. CASE AcceptDone
  BY <1>11 DEF TypeOK, AcceptDone, durable, table_vars, memory
<1>12. CASE ClaimNext
  <2> PICK i \in DOMAIN inserted : /\ table' = WithStatus(inserted[i], "RUNNING")
                                   /\ tasks' = Append(tasks, inserted[i])
    BY <1>12 DEF ClaimNext
  <2>1. inserted[i] \in Keys
    BY ElementOfSeq DEF TypeOK
  <2>2. table' \in [Rungs -> [Archs -> RowStates]]
    BY <2>1, WithStatusTyped DEF TypeOK, RowStates
  <2>3. tasks' \in Seq(Keys)
    BY <2>1 DEF TypeOK
  <2> QED  BY <1>12, <2>2, <2>3 DEF TypeOK, ClaimNext
<1>13. CASE RunBatch
  BY <1>13 DEF TypeOK, RunBatch, durable, table_vars
<1>14. CASE ClaimedNothing
  <2>1. idle' \in Nat /\ reason' \in Reasons /\ pc' \in {"save", "loop"}
    BY <1>14 DEF TypeOK, ClaimedNothing
  <2> QED  BY <1>14, <2>1 DEF TypeOK, ClaimedNothing, durable, table_vars
<1>15. CASE Complete
  <2> PICK v \in Scores :
         score' = [score EXCEPT ![Head(tasks)[1]][Head(tasks)[2]] = v]
    BY <1>15 DEF Complete
  <2>1. Head(tasks) \in Keys
    BY <1>15, HeadTail DEF Complete, TypeOK
  <2>2. table' \in [Rungs -> [Archs -> RowStates]]
    BY <1>15, <2>1, WithStatusTyped DEF Complete, TypeOK, RowStates
  <2>3. v \in Results
    BY DEF Results
  <2>4. score' \in [Rungs -> [Archs -> Results]]
    BY <2>1, <2>3, WithScoreTyped DEF TypeOK
  <2> QED  BY <1>15, <2>2, <2>4 DEF TypeOK, Complete, memory
<1>16. CASE RetryLater
  <2>1. Head(tasks) \in Keys /\ Tail(tasks) \in Seq(Keys)
    BY <1>16, HeadTail DEF RetryLater, TypeOK
  <2>2. table' \in [Rungs -> [Archs -> RowStates]]
    BY <1>16, <2>1, WithStatusTyped DEF RetryLater, TypeOK, RowStates
  <2>3. Head(tasks)[1] \in Rungs /\ Head(tasks)[2] \in Archs
    BY <2>1 DEF Keys
  <2>4. /\ retries[Head(tasks)[1]] \in [Archs -> 0 .. MaxRetries]
        /\ retries[Head(tasks)[1]][Head(tasks)[2]] + 1 \in 0 .. MaxRetries
    BY <1>16, <2>3, HalvingSearchAssumption DEF RetryLater, TypeOK
  <2>5. retries' \in [Rungs -> [Archs -> 0 .. MaxRetries]]
    BY <1>16, <2>3, <2>4 DEF RetryLater, TypeOK
  <2> QED  BY <1>16, <2>1, <2>2, <2>5 DEF TypeOK, RetryLater
<1>17. CASE Fail
  <2>1. Head(tasks) \in Keys
    BY <1>17, HeadTail DEF Fail, TypeOK
  <2>2. table' \in [Rungs -> [Archs -> RowStates]]
    BY <1>17, <2>1, WithStatusTyped DEF Fail, TypeOK, RowStates
  <2>3. score' \in [Rungs -> [Archs -> Results]]
    BY <1>17, <2>1, WithScoreTyped DEF Fail, TypeOK, Results
  <2> QED  BY <1>17, <2>2, <2>3 DEF TypeOK, Fail, memory
<1>18. CASE Observe
  <2>1. tasks \in Seq(Keys) /\ tasks # <<>>
    BY <1>18 DEF TypeOK, TasksOK, Observe
  <2>2. Head(tasks) \in Keys /\ Tail(tasks) \in Seq(Keys)
    BY <2>1, HeadTail
  <2>3. Head(tasks)[1] \in Rungs /\ Head(tasks)[2] \in Archs
    BY <2>2 DEF Keys
  <2>4. score[Head(tasks)[1]][Head(tasks)[2]] \in Results
    BY <2>3 DEF TypeOK
  <2>5. bracket' \in Brackets
    BY <1>18, <2>3, <2>4, ObservedTyped DEF Observe, TypeOK
  <2> QED  BY <1>18, <2>2, <2>5 DEF TypeOK, Observe, durable, table_vars
<1>19. CASE BatchDone
  <2>1. Len(<<bracket>>) = 1 /\ <<bracket>> \in Seq(Brackets)
    BY DEF TypeOK
  <2>2. saved' = <<>> \/ (Len(saved') = 1 /\ saved' \in Seq(Brackets))
    BY <1>19, <2>1 DEF BatchDone, TypeOK
  <2> QED  BY <1>19, <2>2 DEF TypeOK, BatchDone, table_vars, memory
<1>20. CASE Finalise
  <2>1. Len(<<bracket>>) = 1 /\ <<bracket>> \in Seq(Brackets)
    BY DEF TypeOK
  <2> QED  BY <1>20, <2>1 DEF TypeOK, Finalise, table_vars, memory
<1>21. CASE Resume
  <2>1. table' \in [Rungs -> [Archs -> RowStates]]
    <3>1. \A r \in Rungs, a \in Archs : table[r][a] \in RowStates
      BY DEF TypeOK
    <3> QED  BY <1>21, <3>1 DEF Resume, RowStates
  <2>2. retries' \in [Rungs -> [Archs -> 0 .. MaxRetries]]
    <3>1. \A r \in Rungs, a \in Archs : retries[r][a] \in 0 .. MaxRetries
      BY DEF TypeOK
    <3> QED  BY <1>21, <3>1, HalvingSearchAssumption DEF Resume
  <2>3. saved # <<>> => saved[1] \in Brackets
    BY ElementOfSeq DEF TypeOK
  <2>4. bracket' \in Brackets
    BY <1>21, <2>3, FreshTyped DEF Resume
  <2>5. resumes' \in 0 .. MaxResumes
    BY <1>21, HalvingSearchAssumption DEF Resume, TypeOK
  <2> QED  BY <1>21, <2>1, <2>2, <2>4, <2>5 DEF TypeOK, Resume
<1> QED  BY <1>1, <1>2, <1>3, <1>4, <1>5, <1>6, <1>7, <1>8, <1>9, <1>10, <1>11, <1>12,
            <1>13, <1>14, <1>15, <1>16, <1>17, <1>18, <1>19, <1>20, <1>21
         DEF Next, EngineStep

-----------------------------------------------------------------------------
(***************************************************************************)
(* What one step does to the rows.                                         *)
(***************************************************************************)
\* A step that is none of these leaves the rows alone.
MovesARow == AcceptNew \/ ClaimNext \/ Complete \/ RetryLater \/ Fail \/ Resume

LEMMA RowsQuiet ==
  ASSUME [Next]_vars, ~MovesARow
  PROVE  UNCHANGED <<table, score>>
BY DEF MovesARow, Next, EngineStep, vars, durable, table_vars, memory, Stop, StopOnBudget,
       StartProposing, NothingToPropose, ProposeSample, ProposeNoSample, ProposeSurvivor,
       ProposeNoSurvivor, WaitAtBarrier, AdvanceRung, ProposedEnough, AcceptDuplicate,
       AcceptDone, RunBatch, ClaimedNothing, Observe, BatchDone, Finalise, Interrupt, Crash

\* A step of one row.
Moves(k, st) ==
    \A r \in Rungs, a \in Archs :
        table'[r][a] = IF r = k[1] /\ a = k[2] THEN st ELSE table[r][a]

LEMMA AcceptMoves ==
  ASSUME TypeOK, AcceptNew
  PROVE  /\ offer # <<>> /\ offer[1] \in Keys /\ Status(offer[1]) = Absent
         /\ Moves(offer[1], "QUEUED") /\ score' = score
         /\ table[offer[1][1]][offer[1][2]] = Absent
<1>1. offer[1] \in Keys /\ Head(offer) = offer[1]
  BY HeadTail DEF AcceptNew, TypeOK
<1>2. Moves(offer[1], "QUEUED")
  BY <1>1, WithStatusTyped DEF AcceptNew, TypeOK, RowStates, Moves
<1> QED  BY <1>1, <1>2 DEF AcceptNew, Status

LEMMA ClaimMoves ==
  ASSUME TypeOK, ClaimNext
  PROVE  \E k \in Keys : /\ table[k[1]][k[2]] = "QUEUED"
                         /\ Moves(k, "RUNNING") /\ score' = score
                         /\ tasks' = Append(tasks, k)
<1> PICK i \in DOMAIN inserted : /\ OldestQueued(i)
                                 /\ table' = WithStatus(inserted[i], "RUNNING")
                                 /\ tasks' = Append(tasks, inserted[i])
  BY DEF ClaimNext
<1>1. inserted[i] \in Keys
  BY ElementOfSeq DEF TypeOK
<1>2. Moves(inserted[i], "RUNNING")
  BY <1>1, WithStatusTyped DEF TypeOK, RowStates, Moves
<1> QED  BY <1>1, <1>2 DEF OldestQueued, Status, ClaimNext

\* The head of the tasks is running when its result is taken.
LEMMA ResultMoves ==
  ASSUME TypeOK, TasksOK, Complete \/ RetryLater \/ Fail
  PROVE  /\ tasks # <<>> /\ tasks[1] \in Keys
         /\ table[tasks[1][1]][tasks[1][2]] = "RUNNING"
         /\ Complete => /\ Moves(tasks[1], "COMPLETED")
                        /\ \E v \in Scores : \A r \in Rungs, a \in Archs :
                              score'[r][a] = IF r = tasks[1][1] /\ a = tasks[1][2]
                                             THEN v ELSE score[r][a]
         /\ RetryLater => Moves(tasks[1], "QUEUED") /\ score' = score
         /\ Fail => /\ Moves(tasks[1], "FAILED")
                    /\ \A r \in Rungs, a \in Archs :
                          score'[r][a] = IF r = tasks[1][1] /\ a = tasks[1][2]
                                         THEN None ELSE score[r][a]
<1>1. tasks # <<>> /\ tasks \in Seq(Keys) /\ pc = "results"
  BY DEF Complete, RetryLater, Fail, TypeOK
<1>2. tasks[1] \in Keys /\ Head(tasks) = tasks[1] /\ 1 \in 1 .. Len(tasks)
  BY <1>1, HeadTail
<1>3. table[tasks[1][1]][tasks[1][2]] = "RUNNING"
  BY <1>1, <1>2 DEF TasksOK, Status
<1>4. ASSUME Complete
      PROVE  /\ Moves(tasks[1], "COMPLETED")
             /\ \E v \in Scores : \A r \in Rungs, a \in Archs :
                   score'[r][a] = IF r = tasks[1][1] /\ a = tasks[1][2]
                                  THEN v ELSE score[r][a]
  <2>1. Moves(tasks[1], "COMPLETED")
    BY <1>2, <1>4, WithStatusTyped DEF Complete, TypeOK, RowStates, Moves
  <2>2. PICK v \in Scores : score' = [score EXCEPT ![tasks[1][1]][tasks[1][2]] = v]
    BY <1>2, <1>4 DEF Complete
  <2>3. v \in Results
    BY DEF Results
  <2>4. \A r \in Rungs, a \in Archs :
           score'[r][a] = IF r = tasks[1][1] /\ a = tasks[1][2] THEN v ELSE score[r][a]
    BY <1>2, <2>2, <2>3, WithScoreTyped DEF TypeOK
  <2> QED  BY <2>1, <2>4
<1>5. RetryLater => Moves(tasks[1], "QUEUED") /\ score' = score
  BY <1>2, WithStatusTyped DEF RetryLater, TypeOK, RowStates, Moves
<1>6. ASSUME Fail
      PROVE  /\ Moves(tasks[1], "FAILED")
             /\ \A r \in Rungs, a \in Archs :
                   score'[r][a] = IF r = tasks[1][1] /\ a = tasks[1][2]
                                  THEN None ELSE score[r][a]
  <2>1. Moves(tasks[1], "FAILED")
    BY <1>2, <1>6, WithStatusTyped DEF Fail, TypeOK, RowStates, Moves
  <2>2. score' = [score EXCEPT ![tasks[1][1]][tasks[1][2]] = None] /\ None \in Results
    BY <1>2, <1>6 DEF Fail, Results
  <2>3. \A r \in Rungs, a \in Archs :
           score'[r][a] = IF r = tasks[1][1] /\ a = tasks[1][2] THEN None ELSE score[r][a]
    BY <1>2, <2>2, WithScoreTyped DEF TypeOK
  <2> QED  BY <2>1, <2>3
<1> QED  BY <1>1, <1>2, <1>3, <1>4, <1>5, <1>6

\* Recovery touches the running rows only.
LEMMA ResumeMoves ==
  ASSUME Resume
  PROVE  /\ score' = score
         /\ \A r \in Rungs, a \in Archs :
               /\ table[r][a] # "RUNNING" => table'[r][a] = table[r][a]
               /\ table[r][a] = "RUNNING" => table'[r][a] \in {"QUEUED", "FAILED"}
BY DEF Resume

-----------------------------------------------------------------------------
(***************************************************************************)
(* A closed row is never touched again, and a row appears by merit.        *)
(***************************************************************************)
LEMMA ClosedStep ==
  ASSUME TypeOK, TasksOK, [Next]_vars
  PROVE  ClosedKept(table, score, table', score')
<1> USE DEF ClosedKept, Closed, Absent
<1>1. CASE ~MovesARow
  BY <1>1, RowsQuiet
<1>2. CASE AcceptNew
  BY <1>2, AcceptMoves DEF Moves
<1>3. CASE ClaimNext
  BY <1>3, ClaimMoves DEF Moves
<1>4. CASE Complete
  BY <1>4, ResultMoves DEF Moves
<1>5. CASE RetryLater
  BY <1>5, ResultMoves DEF Moves
<1>6. CASE Fail
  BY <1>6, ResultMoves DEF Moves
<1>7. CASE Resume
  BY <1>7, ResumeMoves
<1> QED  BY <1>1, <1>2, <1>3, <1>4, <1>5, <1>6, <1>7 DEF MovesARow

LEMMA AppearStep ==
  ASSUME TypeOK, TasksOK, OfferOK, [Next]_vars
  PROVE  \A r \in Rungs, a \in Archs :
            table'[r][a] # Absent =>
                table[r][a] # Absent \/ (r > 0 => table[r - 1][a] = "COMPLETED")
<1> SUFFICES ASSUME NEW r \in Rungs, NEW a \in Archs, table'[r][a] # Absent,
                    table[r][a] = Absent
             PROVE  r > 0 => table[r - 1][a] = "COMPLETED"
  OBVIOUS
<1>1. CASE ~MovesARow
  BY <1>1, RowsQuiet
<1>2. CASE AcceptNew
  <2>1. r = offer[1][1] /\ a = offer[1][2]
    BY <1>2, AcceptMoves DEF Moves
  <2>2. 1 \in DOMAIN offer
    BY <1>2, HeadTail DEF TypeOK, AcceptNew
  <2> QED  BY <2>1, <2>2 DEF OfferOK, Merit
<1>3. CASE ClaimNext
  BY <1>3, ClaimMoves DEF Moves, Absent
<1>4. CASE Complete \/ RetryLater \/ Fail
  BY <1>4, ResultMoves DEF Moves, Absent
<1>5. CASE Resume
  BY <1>5, ResumeMoves DEF Absent
<1> QED  BY <1>1, <1>2, <1>3, <1>4, <1>5 DEF MovesARow

-----------------------------------------------------------------------------
(***************************************************************************)
(* The conjuncts of the invariant, one after the other.                    *)
(***************************************************************************)
LEMMA RowsScoredStep ==
  ASSUME TypeOK, TasksOK, RowsScored, [Next]_vars
  PROVE  RowsScored'
<1> USE DEF RowsScored, Closed
<1>1. CASE ~MovesARow
  BY <1>1, RowsQuiet
<1>2. CASE AcceptNew
  <2>1. \A r \in Rungs, a \in Archs :
           table'[r][a] = table[r][a] \/ (table[r][a] = Absent /\ table'[r][a] = "QUEUED")
    BY <1>2, AcceptMoves DEF Moves
  <2> QED  BY <1>2, <2>1, AcceptMoves DEF Absent
<1>3. CASE ClaimNext
  <2>1. score' = score /\ \A r \in Rungs, a \in Archs :
           table'[r][a] = table[r][a] \/ (table[r][a] = "QUEUED" /\ table'[r][a] = "RUNNING")
    BY <1>3, ClaimMoves DEF Moves
  <2> QED  BY <2>1
<1>4. CASE Complete
  BY <1>4, ResultMoves DEF Moves
<1>5. CASE RetryLater
  BY <1>5, ResultMoves DEF Moves
<1>6. CASE Fail
  BY <1>6, ResultMoves DEF Moves
<1>7. CASE Resume
  BY <1>7, ResumeMoves
<1> QED  BY <1>1, <1>2, <1>3, <1>4, <1>5, <1>6, <1>7 DEF MovesARow

LEMMA EntersStep ==
  ASSUME TypeOK, TasksOK, OfferOK, EntersByMerit, [Next]_vars
  PROVE  EntersByMerit'
<1> SUFFICES ASSUME NEW r \in Rungs \ {0}, NEW a \in Archs, table'[r][a] # Absent
             PROVE  table'[r - 1][a] = "COMPLETED"
  BY DEF EntersByMerit, Rows
<1>1. r \in Rungs /\ r - 1 \in Rungs /\ r > 0
  BY RungsTyped
<1>2. table[r - 1][a] = "COMPLETED"
  BY <1>1, AppearStep DEF EntersByMerit, Rows
<1> QED  BY <1>1, <1>2, ClosedStep DEF ClosedKept, Closed

LEMMA OfferStep ==
  ASSUME TypeOK, TasksOK, StatesAgree, OfferOK, [Next]_vars
  PROVE  OfferOK'
<1>1. \A k \in Keys : Merit(k, table) => Merit(k, table')
  <2> SUFFICES ASSUME NEW k \in Keys, k[1] > 0, table[k[1] - 1][k[2]] = "COMPLETED"
               PROVE  table'[k[1] - 1][k[2]] = "COMPLETED"
    BY DEF Merit
  <2>1. k[1] \in Rungs /\ k[2] \in Archs
    BY DEF Keys
  <2>2. k[1] \in Nat
    BY <2>1, RungsTyped
  <2>3. k[1] # 0
    BY <2>2
  <2>4. k[1] - 1 \in Rungs
    BY <2>1, <2>3, RungsTyped
  <2> QED  BY <2>1, <2>4, ClosedStep DEF ClosedKept, Closed
<1>2. \A i \in DOMAIN offer : offer[i] \in Keys /\ Merit(offer[i], table')
  BY <1>1, ElementOfSeq DEF OfferOK, TypeOK
<1>3. CASE offer' = offer
  BY <1>2, <1>3 DEF OfferOK
<1>4. CASE offer' = <<>>
  BY <1>4 DEF OfferOK
<1>5. CASE offer # <<>> /\ offer' = Tail(offer)
  <2>1. /\ Len(offer') \in Nat /\ Len(offer') = Len(offer) - 1
        /\ \A i \in 1 .. Len(offer') : offer'[i] = offer[i + 1]
        /\ DOMAIN offer' = 1 .. Len(offer') /\ DOMAIN offer = 1 .. Len(offer)
        /\ Len(offer) \in Nat
    BY <1>5, HeadTail, LenProperties DEF TypeOK
  <2>2. \A i \in DOMAIN offer' : Merit(offer[i + 1], table')
    BY <1>2, <2>1
  <2> QED  BY <2>1, <2>2 DEF OfferOK, Merit
<1>6. ASSUME NEW k, Merit(k, table'), offer' = Append(offer, k)
      PROVE  OfferOK'
  <2>1. /\ DOMAIN offer' = 1 .. Len(offer) + 1 /\ DOMAIN offer = 1 .. Len(offer)
        /\ Len(offer) \in Nat
        /\ \A i \in 1 .. Len(offer) : offer'[i] = offer[i]
        /\ offer'[Len(offer) + 1] = k
    BY <1>6, AppendProperties, LenProperties DEF TypeOK
  <2>2. \A i \in 1 .. Len(offer) : Merit(offer'[i], table')
    BY <1>2, <2>1 DEF Merit
  <2> QED  BY <1>6, <2>1, <2>2 DEF OfferOK, Merit
<1>7. CASE ProposeSample
  <2> PICK i \in DOMAIN stream : offer' = Append(offer, <<0, stream[i]>>)
    BY <1>7 DEF ProposeSample, Entering
  <2>1. Merit(<<0, stream[i]>>, table')
    BY DEF Merit
  <2> QED  BY <1>6, <2>1
<1>8. CASE ProposeSurvivor
  <2> DEFINE r == bracket.current
             a == NextSurvivor(bracket, r)
  <2>1. /\ bracket \in Brackets /\ r \in Rungs \ {0} /\ SurvivorsLeft(bracket, r)
        /\ offer' = Append(offer, <<r, a>>)
    BY <1>8, RungsTyped DEF ProposeSurvivor, Proposing, Entering, TypeOK, Brackets
  <2>2. r - 1 \in Rungs /\ a \in Archs
        /\ Len(bracket.rungs[r].proposed) + 1 \in DOMAIN bracket.rungs[r - 1].promoted
    BY <2>1, SurvivorTyped
  <2>3. table[r - 1][a] = "COMPLETED"
    BY <2>2 DEF StatesAgree, Agrees, NextSurvivor
  <2>4. table'[r - 1][a] = "COMPLETED"
    BY <2>2, <2>3, ClosedStep DEF ClosedKept, Closed
  <2>5. Merit(<<r, a>>, table')
    BY <2>4 DEF Merit
  <2> QED  BY <1>6, <2>1, <2>5
<1>9. \/ offer' = offer \/ offer' = <<>> \/ (offer # <<>> /\ offer' = Tail(offer))
      \/ ProposeSample \/ ProposeSurvivor
  BY DEF Next, EngineStep, vars, durable, table_vars, memory, Stop, StopOnBudget,
         StartProposing, NothingToPropose, ProposeNoSample, ProposeNoSurvivor,
         WaitAtBarrier, AdvanceRung, ProposedEnough, AcceptDuplicate, AcceptNew,
         AcceptDone, ClaimNext, RunBatch, ClaimedNothing, Complete, RetryLater, Fail,
         Observe, BatchDone, Finalise, Interrupt, Crash, Resume
<1> QED  BY <1>3, <1>4, <1>5, <1>7, <1>8, <1>9

LEMMA StatesStep ==
  ASSUME TypeOK, TypeOK', TasksOK, RowsScored, StatesAgree, [Next]_vars
  PROVE  StatesAgree'
<1>1. ClosedKept(table, score, table', score')
  BY ClosedStep
<1>2. bracket \in Brackets /\ bracket' \in Brackets
      /\ (saved # <<>> => saved[1] \in Brackets)
  BY ElementOfSeq DEF TypeOK
<1>3. ASSUME NEW b \in Brackets, Agrees(b, table, score) PROVE Agrees(b, table', score')
  BY <1>1, <1>3, AgreesForward DEF SameReports
<1>4. saved' = saved => (saved' # <<>> => Agrees(saved'[1], table', score'))
  BY <1>2, <1>3 DEF StatesAgree
<1>5. ASSUME SameReports(bracket, bracket') PROVE Agrees(bracket', table', score')
  BY <1>1, <1>2, <1>5, AgreesForward DEF StatesAgree
<1>6. ASSUME bracket' = bracket PROVE Agrees(bracket', table', score')
  BY <1>2, <1>3, <1>6 DEF StatesAgree
<1>7. CASE ProposeSample
  <2>1. SameReports(bracket, bracket') /\ saved' = saved
    BY <1>2, <1>7, SampledTyped DEF ProposeSample, TypeOK, durable
  <2> QED  BY <1>4, <1>5, <2>1 DEF StatesAgree
<1>8. CASE ProposeNoSample
  BY <1>2, <1>4, <1>5, <1>8, DryTyped DEF ProposeNoSample, StatesAgree, durable
<1>9. CASE ProposeSurvivor
  <2>1. bracket.current \in Rungs \ {0} /\ SurvivorsLeft(bracket, bracket.current)
    BY <1>2, <1>9, RungsTyped DEF ProposeSurvivor, Proposing, Brackets
  <2>2. SameReports(bracket, bracket') /\ saved' = saved
    BY <1>2, <1>9, <2>1, SurvivorTyped, PromotedTyped DEF ProposeSurvivor, durable
  <2> QED  BY <1>4, <1>5, <2>2 DEF StatesAgree
<1>10. CASE AdvanceRung
  <2>1. bracket.current \in Rungs /\ bracket' = Advanced(bracket)
        /\ UNCHANGED <<table, score, saved>>
    BY <1>2, <1>10, RungsTyped DEF AdvanceRung, Proposing, Brackets, durable, table_vars
  <2>2. Agrees(Advanced(bracket), table, score)
    BY <1>2, <2>1, AgreesAdvanced DEF StatesAgree, RowsScored
  <2> QED BY <1>4, <2>1, <2>2 DEF StatesAgree
<1>11. CASE AcceptDuplicate
  <2>1. Head(offer)[2] \in Archs
    BY <1>11, HeadTail, SMTT(40) DEF AcceptDuplicate, TypeOK, Keys
  <2> QED  BY <1>2, <1>4, <1>5, <1>11, <2>1, DuplicatedTyped
           DEF AcceptDuplicate, StatesAgree, durable
<1>12. CASE Observe
  <2>1. /\ tasks \in Seq(Keys) /\ tasks # <<>>
        /\ table[tasks[1][1]][tasks[1][2]] \in Closed
    BY <1>12 DEF TypeOK, TasksOK, Observe, Status
  <2>2. tasks[1] \in Keys /\ Head(tasks) = tasks[1]
    BY <2>1, HeadTail
  <2>3. tasks[1][1] \in Rungs /\ tasks[1][2] \in Archs
    BY <2>2 DEF Keys
  <2>4. score[tasks[1][1]][tasks[1][2]] \in Results
    BY <2>3 DEF TypeOK
  <2>5. /\ bracket' = Observed(bracket, tasks[1][2], tasks[1][1],
                               score[tasks[1][1]][tasks[1][2]])
        /\ UNCHANGED <<table, score, saved>>
    BY <1>12, <2>2 DEF Observe, durable, table_vars
  <2>6. Agrees(bracket', table, score)
    BY <1>2, <2>1, <2>3, <2>4, <2>5, AgreesObserved DEF StatesAgree
  <2> QED  BY <1>4, <2>5, <2>6 DEF StatesAgree
<1>13. CASE BatchDone \/ Finalise
  <2>1. UNCHANGED <<bracket, table, score>> /\ (saved' = saved \/ saved' = <<bracket>>)
    BY <1>13 DEF BatchDone, Finalise, table_vars, memory
  <2> QED  BY <1>4, <1>6, <2>1 DEF StatesAgree
<1>14. CASE Resume
  <2>1. saved' = saved /\ bracket' = IF saved = <<>> THEN FreshBracket ELSE saved[1]
    BY <1>14 DEF Resume
  <2> QED  BY <1>2, <1>3, <1>4, <2>1, FreshTyped DEF StatesAgree
<1>15. \/ bracket' = bracket /\ saved' = saved
       \/ ProposeSample \/ ProposeNoSample \/ ProposeSurvivor \/ AdvanceRung
       \/ AcceptDuplicate \/ Observe \/ BatchDone \/ Finalise \/ Resume
  BY DEF Next, EngineStep, vars, durable, table_vars, memory, Stop, StopOnBudget,
         StartProposing, NothingToPropose, ProposeNoSurvivor,
         WaitAtBarrier, ProposedEnough, AcceptNew,
         AcceptDone, ClaimNext, RunBatch, ClaimedNothing, Complete, RetryLater, Fail,
         Interrupt, Crash
<1>16. CASE bracket' = bracket /\ saved' = saved
  BY <1>4, <1>6, <1>16 DEF StatesAgree
<1> QED  BY <1>7, <1>8, <1>9, <1>10, <1>11, <1>12, <1>13, <1>14, <1>15, <1>16

LEMMA TasksStep ==
  ASSUME TypeOK, TasksOK, [Next]_vars
  PROVE  TasksOK'
<1> USE DEF Status
<1>1. Len(tasks) \in Nat /\ DOMAIN tasks = 1 .. Len(tasks)
      /\ \A i \in 1 .. Len(tasks) : tasks[i] \in Keys
  BY LenProperties, ElementOfSeq DEF TypeOK
<1>2. tasks # <<>> =>
          /\ Head(tasks) = tasks[1] /\ Len(tasks) >= 1
          /\ Len(Tail(tasks)) = Len(tasks) - 1
          /\ \A i \in 1 .. Len(Tail(tasks)) : Tail(tasks)[i] = tasks[i + 1]
  BY HeadTail DEF TypeOK
<1>3. CASE UNCHANGED vars
  BY <1>3 DEF TasksOK, vars, durable, table_vars, memory
\* pc leaves for a place where the tasks are not constrained, or there are none.
<1>4. CASE StopOnBudget \/ Interrupt \/ Crash \/ Finalise \/ Resume
  BY <1>4 DEF TasksOK, StopOnBudget, Interrupt, Crash, Finalise, Resume, Stop, memory
<1>5. CASE \/ StartProposing \/ NothingToPropose \/ ProposeSample \/ ProposeNoSample
           \/ ProposeSurvivor \/ ProposeNoSurvivor \/ WaitAtBarrier \/ AdvanceRung
           \/ ProposedEnough \/ AcceptDuplicate \/ AcceptNew \/ AcceptDone
           \/ ClaimedNothing \/ BatchDone
  <2>1. tasks = <<>> /\ tasks' = <<>>
    BY <1>5 DEF TasksOK, StartProposing, NothingToPropose, ProposeSample,
         ProposeNoSample, ProposeSurvivor, ProposeNoSurvivor, WaitAtBarrier, AdvanceRung,
         ProposedEnough, AcceptDuplicate, AcceptNew, AcceptDone, ClaimedNothing,
         BatchDone, Proposing, memory
  <2>2. Len(tasks') = 0 /\ pc' # "observe"
    BY <1>5, <2>1 DEF StartProposing, NothingToPropose, ProposeSample,
         ProposeNoSample, ProposeSurvivor, ProposeNoSurvivor, WaitAtBarrier, AdvanceRung,
         ProposedEnough, AcceptDuplicate, AcceptNew, AcceptDone, ClaimedNothing,
         BatchDone, Proposing
  <2> QED  BY <2>1, <2>2 DEF TasksOK
<1>6. CASE ClaimNext
  <2> PICK k \in Keys : /\ table[k[1]][k[2]] = "QUEUED"
                        /\ Moves(k, "RUNNING")
                        /\ tasks' = Append(tasks, k)
    BY <1>6, ClaimMoves
  <2>1. pc = "claim" /\ pc' = "claim"
    BY <1>6 DEF ClaimNext
  <2>2. /\ Len(tasks') = Len(tasks) + 1 /\ tasks'[Len(tasks) + 1] = k
        /\ \A i \in 1 .. Len(tasks) : tasks'[i] = tasks[i]
    BY AppendProperties DEF TypeOK
  <2>3. \A i \in 1 .. Len(tasks) : table[tasks[i][1]][tasks[i][2]] = "RUNNING"
    BY <2>1 DEF TasksOK
  <2>4. \A i \in 1 .. Len(tasks) : tasks[i] # k
    BY <2>3
  <2>5. \A i, j \in 1 .. Len(tasks') : tasks'[i] = tasks'[j] => i = j
    BY <1>1, <2>1, <2>2, <2>4 DEF TasksOK
  <2>6. \A q \in Keys : q[1] \in Rungs /\ q[2] \in Archs
    BY DEF Keys
  <2>7. \A i \in 1 .. Len(tasks) : table'[tasks[i][1]][tasks[i][2]] = "RUNNING"
    BY <1>1, <2>3, <2>6 DEF Moves
  <2>8. table'[k[1]][k[2]] = "RUNNING"
    BY <2>6 DEF Moves
  <2>9. \A i \in 1 .. Len(tasks') : table'[tasks'[i][1]][tasks'[i][2]] = "RUNNING"
    BY <1>1, <2>2, <2>7, <2>8
  <2> QED  BY <2>1, <2>5, <2>9 DEF TasksOK
<1>7. CASE RunBatch
  BY <1>7 DEF TasksOK, RunBatch, durable, table_vars
\* The head takes its result; the others are other rows and stay.
<1>8. CASE Complete \/ RetryLater \/ Fail
  <2>1. /\ pc = "results" /\ tasks # <<>> /\ tasks[1] \in Keys
        /\ \E st \in {"COMPLETED", "QUEUED", "FAILED"} :
              Moves(tasks[1], st) /\ (~RetryLater => st # "QUEUED")
    BY <1>8, ResultMoves DEF Complete, RetryLater, Fail
  <2>2. \A q \in Keys : q[1] \in Rungs /\ q[2] \in Archs /\ q = <<q[1], q[2]>>
    BY DEF Keys
  <2>3. \A i \in 2 .. Len(tasks) : /\ tasks[i] # tasks[1] /\ tasks[i] \in Keys
                                   /\ table[tasks[i][1]][tasks[i][2]] = "RUNNING"
    BY <1>1, <1>2, <2>1 DEF TasksOK
  <2>4. \A i \in 2 .. Len(tasks) : table'[tasks[i][1]][tasks[i][2]] = "RUNNING"
    BY <2>1, <2>2, <2>3 DEF Moves
  <2>5. \A i, j \in 1 .. Len(tasks) : tasks[i] = tasks[j] => i = j
    BY <2>1 DEF TasksOK
  <2>6. CASE RetryLater
    <3>1. tasks' = Tail(tasks) /\ pc' = "results"
      BY <2>1, <2>6 DEF RetryLater
    <3> QED  BY <1>1, <1>2, <2>1, <2>4, <2>5, <3>1 DEF TasksOK
  <2>7. CASE Complete \/ Fail
    <3>1. tasks' = tasks /\ pc' = "observe"
      BY <2>7 DEF Complete, Fail, memory
    <3>2. ~RetryLater
      BY <2>7, <3>1 DEF RetryLater
    <3>3. table'[tasks[1][1]][tasks[1][2]] \in Closed
      BY <2>1, <2>2, <3>2 DEF Moves, Closed
    <3> QED  BY <2>1, <2>4, <2>5, <3>1, <3>3 DEF TasksOK
  <2> QED  BY <1>8, <2>6, <2>7
<1>9. CASE Observe
  <2>1. pc = "observe" /\ pc' = "results" /\ tasks # <<>> /\ tasks' = Tail(tasks)
        /\ table' = table
    BY <1>9 DEF Observe, TasksOK, durable, table_vars
  <2> QED  BY <1>1, <1>2, <2>1 DEF TasksOK
<1> QED  BY <1>3, <1>4, <1>5, <1>6, <1>7, <1>8, <1>9 DEF Next, EngineStep

-----------------------------------------------------------------------------
(***************************************************************************)
(* The theorems.                                                           *)
(***************************************************************************)
LEMMA InvInit == Init => IInv
<1> SUFFICES ASSUME Init PROVE IInv
  OBVIOUS
<1>1. TypeOK
  BY TypeInit
<1>2. RowsScored
  BY DEF Init, RowsScored, Closed, Absent
<1>3. StatesAgree
  BY FreshTyped DEF Init, StatesAgree
<1>4. EntersByMerit
  BY RungsTyped DEF Init, EntersByMerit, Rows
<1>5. OfferOK /\ TasksOK
  BY DEF Init, OfferOK, TasksOK
<1> QED  BY <1>1, <1>2, <1>3, <1>4, <1>5 DEF IInv

LEMMA InvStep == IInv /\ [Next]_vars => IInv'
BY TypeStep, RowsScoredStep, StatesStep, EntersStep, OfferStep, TasksStep DEF IInv

\* The invariant holds in every state that a search reaches, through any
\* sequence of batches, promotions, interruptions, crashes and resumes.
THEOREM Invariance == Spec => []IInv
BY InvInit, InvStep, PTL DEF Spec

\* Every variable of the search keeps its type: in particular a bracket that
\* a resume restores is one that the strategy can continue from.
THEOREM TypeCorrect == Spec => []TypeOK
<1>1. IInv => TypeOK
  BY DEF IInv
<1> QED  BY <1>1, Invariance, PTL

\* An architecture is evaluated at a rung only if it was measured at the rung
\* below, from whatever checkpoint the strategy was restored.
THEOREM OnlyTheMeasuredEnter == Spec => []EntersByMerit
<1>1. IInv => EntersByMerit
  BY DEF IInv
<1> QED  BY <1>1, Invariance, PTL

\* What the strategy in memory, or the one in the checkpoint, takes for a
\* result is the score of a row that is closed for good.
THEOREM StrategyMatchesRows == Spec => []ResultsMatchRows
<1>1. IInv => ResultsMatchRows
  <2> SUFFICES ASSUME IInv, NEW b \in {bracket} \cup {saved[i] : i \in DOMAIN saved},
                      NEW r \in Rungs, NEW a \in Reported(b, r)
               PROVE  /\ b.rungs[r].results[a] = score[r][a]
                      /\ table[r][a] \in {"COMPLETED", "FAILED"}
    BY DEF ResultsMatchRows
  <2>1. b = bracket \/ (saved # <<>> /\ b = saved[1])
    BY LenProperties DEF IInv, TypeOK
  <2>2. Agrees(b, table, score)
    BY <2>1 DEF IInv, StatesAgree
  <2> QED  BY <2>2 DEF Agrees, Closed
<1> QED  BY <1>1, Invariance, PTL

-----------------------------------------------------------------------------
(***************************************************************************)
(* The rows of one bracket.                                                *)
(*                                                                         *)
(* Who may enter a rung is decided before the rung is entered: rung 0 by   *)
(* the stream of draws, a later rung by the scores of the rung below, once *)
(* that rung is decided.  Neither changes any more, so every process that  *)
(* a resume starts, however old its checkpoint, plans the same rung.       *)
(***************************************************************************)
\* What the first draws of the stream are, before position n.
SeenBefore(strm, n) == {strm[j] : j \in {k \in DOMAIN strm : k < n}}

\* The candidates of rung 0: as many different draws as it has places.
Drawable(strm) ==
    {strm[i] : i \in {k \in DOMAIN strm : Cardinality(SeenBefore(strm, k)) < Sizes[0]}}

TakenAt(t, r) == {a \in Archs : t[r][a] # Absent}

\* Every place of rung r is taken, by a row that is closed.
Decided(t, r) ==
    /\ Cardinality(TakenAt(t, r)) = Sizes[r]
    /\ \A a \in TakenAt(t, r) : t[r][a] \in Closed

Chosen(res, n) == {Best(res, n)[i] : i \in 1 .. Len(Best(res, n))}

Planned(strm, t, s, r) ==
    IF r = 0 THEN Drawable(strm)
    ELSE IF Decided(t, r - 1) THEN Chosen(s[r - 1], Sizes[r]) ELSE {}

\* A strategy state promotes the planned.  While it samples, it has drawn the
\* start of the stream, and proposed at least what it has drawn.
Follows(b, strm, t, s) ==
    /\ \A r \in Rungs \ {Last} : \A i \in DOMAIN b.rungs[r].promoted :
          b.rungs[r].promoted[i] \in Planned(strm, t, s, r + 1)
    /\ b.current = 0 => /\ b.seen = SeenBefore(strm, b.drawn + 1)
                        /\ Cardinality(b.seen) <= Len(b.rungs[0].proposed)

RowsPlanned ==
    \A r \in Rungs : TakenAt(table, r) \subseteq Planned(stream, table, score, r)

OffersPlanned ==
    \A i \in DOMAIN offer :
        /\ offer[i][2] \in Planned(stream, table, score, offer[i][1])
        /\ bracket.current = 0 => offer[i][2] \in bracket.seen

StatesPlanned ==
    /\ Follows(bracket, stream, table, score)
    /\ saved # <<>> => Follows(saved[1], stream, table, score)

OneBracket == RowsPlanned /\ OffersPlanned /\ StatesPlanned

LEMMA SeenTyped ==
  ASSUME NEW strm \in Seq(Archs), NEW n
  PROVE  /\ SeenBefore(strm, n) \subseteq Archs
         /\ IsFiniteSet(SeenBefore(strm, n))
         /\ Cardinality(SeenBefore(strm, n)) \in Nat
<1>1. SeenBefore(strm, n) \subseteq Archs
  BY ElementOfSeq DEF SeenBefore
<1> QED  BY <1>1, HalvingAssumption, FS_Subset, FS_CardinalityType

\* Two draws at different positions, the earlier one seen before the later.
LEMMA SeenGrows ==
  ASSUME NEW strm \in Seq(Archs), NEW i \in DOMAIN strm, NEW k \in DOMAIN strm, i < k,
         strm[i] \notin SeenBefore(strm, i)
  PROVE  Cardinality(SeenBefore(strm, i)) < Cardinality(SeenBefore(strm, k))
<1>1. i \in Nat /\ k \in Nat /\ DOMAIN strm \subseteq Nat
  BY LenProperties
<1>2. SeenBefore(strm, i) \subseteq SeenBefore(strm, k)
  BY <1>1 DEF SeenBefore
<1>3. strm[i] \in SeenBefore(strm, k)
  BY DEF SeenBefore
<1>4. SeenBefore(strm, i) # SeenBefore(strm, k)
  BY <1>3
<1> QED  BY <1>2, <1>4, SeenTyped, FS_Subset

Below == {ss \in Nat \X Nat : ss[1] < ss[2]}

LEMMA LeastNat ==
    ASSUME NEW T \in SUBSET Nat, T # {}
    PROVE  \E x \in T : \A y \in T : x <= y
<1>1. IsWellFoundedOn(Below, Nat)
  BY NatLessThanWellFounded, Zenon DEF OpToRel, Below
<1>2. PICK x \in T : \A y \in T : ~(<<y, x>> \in Below)
  <2>1. \E x \in T : \A y \in T : ~(<<y, x>> \in Below) BY <1>1, WFMin
  <2> QED BY <2>1
<1>3. \A m, n \in Nat : m < n => <<m, n>> \in Below BY DEF Below
<1>4. ASSUME NEW y \in T PROVE x <= y
  <2>1. x \in Nat /\ y \in Nat OBVIOUS
  <2>2. ~(y < x) BY <1>2, <1>3, <2>1
  <2> QED BY <2>1, <2>2
<1> QED BY <1>4

\* Rung 0 has room for what it may draw: a candidate is known by how many
\* others were drawn before it.
LEMMA DrawableBound ==
  ASSUME NEW strm \in Seq(Archs)
  PROVE  Drawable(strm) \subseteq Archs /\ Cardinality(Drawable(strm)) <= Sizes[0]
<1> DEFINE First(a, i) == /\ i \in DOMAIN strm /\ strm[i] = a
                          /\ \A j \in DOMAIN strm : strm[j] = a => i <= j
           before == [a \in Drawable(strm) |->
                        Cardinality(SeenBefore(strm, CHOOSE i \in DOMAIN strm : First(a, i)))]
<1>1. Drawable(strm) \subseteq Archs
  BY ElementOfSeq DEF Drawable
<1>2. DOMAIN strm \subseteq Nat
  BY LenProperties
<1>3. Sizes[0] \in Nat \ {0}
  BY RungsTyped
<1>4. ASSUME NEW a \in Drawable(strm)
      PROVE  \E i \in DOMAIN strm : /\ First(a, i) /\ a \notin SeenBefore(strm, i)
                                    /\ before[a] = Cardinality(SeenBefore(strm, i))
                                    /\ before[a] \in 0 .. (Sizes[0] - 1)
  <2>1. PICK k \in DOMAIN strm : strm[k] = a /\ Cardinality(SeenBefore(strm, k)) < Sizes[0]
    BY DEF Drawable
  <2> DEFINE S == {j \in DOMAIN strm : strm[j] = a}
  <2>2. PICK m \in S : \A y \in S : m <= y
    BY <1>2, <2>1, LeastNat
  <2>3. \E i \in DOMAIN strm : First(a, i)
    BY <2>2
  <2> DEFINE i == CHOOSE j \in DOMAIN strm : First(a, j)
  <2>4. i \in DOMAIN strm /\ First(a, i)
    BY <2>3
  <2>5. before[a] = Cardinality(SeenBefore(strm, i))
    OBVIOUS
  <2> HIDE DEF i, before
  <2>6. i <= k /\ i \in Nat /\ k \in Nat
    BY <1>2, <2>1, <2>4
  <2>7. SeenBefore(strm, i) \subseteq SeenBefore(strm, k)
    BY <1>2, <2>6 DEF SeenBefore
  <2>8. Cardinality(SeenBefore(strm, i)) <= Cardinality(SeenBefore(strm, k))
    BY <2>7, SeenTyped, FS_Subset
  <2>9. before[a] \in 0 .. (Sizes[0] - 1)
    BY <1>3, <2>1, <2>5, <2>8, SeenTyped
  <2>10. a \notin SeenBefore(strm, i)
    BY <1>2, <2>4 DEF SeenBefore
  <2> QED  BY <2>4, <2>5, <2>9, <2>10
<1>5. before \in [Drawable(strm) -> 0 .. (Sizes[0] - 1)]
  BY <1>4
<1>6. ASSUME NEW a \in Drawable(strm), NEW c \in Drawable(strm), before[a] = before[c]
      PROVE  a = c
  <2> HIDE DEF before
  <2>1. PICK i \in DOMAIN strm : /\ First(a, i) /\ a \notin SeenBefore(strm, i)
                                 /\ before[a] = Cardinality(SeenBefore(strm, i))
    BY <1>4
  <2>2. PICK k \in DOMAIN strm : /\ First(c, k) /\ c \notin SeenBefore(strm, k)
                                 /\ before[c] = Cardinality(SeenBefore(strm, k))
    BY <1>4
  <2>3. /\ Cardinality(SeenBefore(strm, i)) \in Nat
        /\ Cardinality(SeenBefore(strm, k)) \in Nat
        /\ Cardinality(SeenBefore(strm, i)) = Cardinality(SeenBefore(strm, k))
    BY <1>6, <2>1, <2>2, SeenTyped
  <2>4. ~(i < k) /\ ~(k < i)
    BY <2>1, <2>2, <2>3, SeenGrows
  <2> QED  BY <1>2, <2>1, <2>2, <2>4
<1>7. IsFiniteSet(0 .. (Sizes[0] - 1)) /\ Cardinality(0 .. (Sizes[0] - 1)) = Sizes[0]
  <2>1. 0 \in Int /\ Sizes[0] - 1 \in Int /\ ~(0 > Sizes[0] - 1)
    BY <1>3
  <2>2. Cardinality(0 .. (Sizes[0] - 1)) = (Sizes[0] - 1) - 0 + 1
    BY <2>1, FS_Interval
  <2> QED  BY <1>3, <2>1, <2>2, FS_Interval
<1>8. IsFiniteSet(Drawable(strm)) /\ Cardinality(Drawable(strm)) \in Nat
  BY <1>1, HalvingAssumption, FS_Subset, FS_CardinalityType
<1>9. ~(Cardinality(0 .. (Sizes[0] - 1)) < Cardinality(Drawable(strm)))
  <2> HIDE DEF before
  <2> QED  BY <1>5, <1>6, <1>7, <1>8, FS_PigeonHole
<1> QED  BY <1>1, <1>3, <1>7, <1>8, <1>9

\* No rung has more planned entrants than places.
LEMMA ChosenBound ==
  ASSUME NEW res \in [Archs -> Int], NEW n \in Nat
  PROVE  /\ Chosen(res, n) \subseteq Successes(res)
         /\ Chosen(res, n) \subseteq Archs
         /\ Cardinality(Chosen(res, n)) <= n
<1> DEFINE top == Best(res, n)
           k == Len(top)
           f == [a \in Chosen(res, n) |-> Place(res, a)]
<1>1. top \in Seq(Successes(res)) /\ \A i \in 1 .. k : Place(res, top[i]) = i
  BY BestTakesFirstPlaces
<1>2. \A i \in 1 .. k : top[i] \in Successes(res)
  <2> HIDE DEF top
  <2> QED  BY <1>1, ElementOfSeq
<1>3. Chosen(res, n) \subseteq Successes(res)
  BY <1>2 DEF Chosen
<1>4. Successes(res) \subseteq Archs
  BY DEF Successes
<1>5. \A a \in Chosen(res, n) : Place(res, a) \in 1 .. n
  <2> TAKE a \in Chosen(res, n)
  <2>1. Place(res, a) <= n
    BY <1>3, BestTakesFirstPlaces DEF Chosen
  <2>2. Place(res, a) \in 1 .. Cardinality(Successes(res))
    BY <1>3, PlaceRange
  <2> QED  BY <2>1, <2>2, SuccessesFinite
<1>6. f \in [Chosen(res, n) -> 1 .. n]
  BY <1>5
<1>7. \A a, c \in Chosen(res, n) : f[a] = f[c] => a = c
  BY <1>3, PlaceInjective
<1>8. IsFiniteSet(1 .. n) /\ Cardinality(1 .. n) = n
  BY FS_Interval
<1>9. IsFiniteSet(Chosen(res, n)) /\ Cardinality(Chosen(res, n)) \in Nat
  BY <1>3, SuccessesFinite, FS_Subset, FS_CardinalityType
<1>10. ~(Cardinality(1 .. n) < Cardinality(Chosen(res, n)))
  <2> HIDE DEF f
  <2> QED  BY <1>6, <1>7, <1>8, <1>9, FS_PigeonHole
<1> QED  BY <1>3, <1>4, <1>8, <1>9, <1>10

LEMMA PlannedBound ==
  ASSUME NEW strm \in Seq(Archs), NEW t, NEW s \in [Rungs -> [Archs -> Results]],
         NEW r \in Rungs
  PROVE  /\ Planned(strm, t, s, r) \subseteq Archs
         /\ IsFiniteSet(Planned(strm, t, s, r))
         /\ Cardinality(Planned(strm, t, s, r)) \in Nat
         /\ Cardinality(Planned(strm, t, s, r)) <= Sizes[r]
<1>1. /\ Planned(strm, t, s, r) \subseteq Archs
      /\ Cardinality(Planned(strm, t, s, r)) <= Sizes[r]
  <2>1. CASE r = 0
    BY <2>1, DrawableBound DEF Planned
  <2>2. CASE r # 0
    <3>1. r - 1 \in Rungs /\ Sizes[r] \in Nat
      BY <2>2, RungsTyped
    <3>2. s[r - 1] \in [Archs -> Int]
      <4>1. Results \subseteq Int
        BY HalvingAssumption DEF Results, Pending, None
      <4>2. s[r - 1] \in [Archs -> Results]
        BY <3>1
      <4> QED  BY <4>1, <4>2
    <3>3. Cardinality({}) = 0
      BY FS_EmptySet
    <3> QED  BY <2>2, <3>1, <3>2, <3>3, ChosenBound DEF Planned
  <2> QED  BY <2>1, <2>2
<1> QED  BY <1>1, HalvingAssumption, FS_Subset, FS_CardinalityType

-----------------------------------------------------------------------------
(***************************************************************************)
(* A rung that is decided stays decided, and so does the plan of the next. *)
(***************************************************************************)
LEMMA StreamKept ==
  ASSUME [Next]_vars
  PROVE  stream' = stream
BY DEF Next, EngineStep, vars, durable, table_vars, memory, Stop, StopOnBudget,
       StartProposing, NothingToPropose, ProposeSample, ProposeNoSample, ProposeSurvivor,
       ProposeNoSurvivor, WaitAtBarrier, AdvanceRung, ProposedEnough, AcceptDuplicate,
       AcceptNew, AcceptDone, ClaimNext, RunBatch, ClaimedNothing, Complete, RetryLater,
       Fail, Observe, BatchDone, Finalise, Interrupt, Crash, Resume

\* A row appears only for an offer.
LEMMA AppearsFromOffer ==
  ASSUME TypeOK, TasksOK, [Next]_vars, NEW r \in Rungs, NEW a \in Archs,
         table'[r][a] # Absent, table[r][a] = Absent
  PROVE  \E i \in DOMAIN offer : offer[i][1] = r /\ offer[i][2] = a
<1>1. CASE ~MovesARow
  BY <1>1, RowsQuiet
<1>2. CASE AcceptNew
  <2>1. r = offer[1][1] /\ a = offer[1][2]
    BY <1>2, AcceptMoves DEF Moves
  <2>2. 1 \in DOMAIN offer
    BY <1>2, HeadTail DEF TypeOK, AcceptNew
  <2> QED  BY <2>1, <2>2
<1>3. CASE ClaimNext
  BY <1>3, ClaimMoves DEF Moves, Absent
<1>4. CASE Complete \/ RetryLater \/ Fail
  BY <1>4, ResultMoves DEF Moves, Absent
<1>5. CASE Resume
  BY <1>5, ResumeMoves DEF Absent
<1> QED  BY <1>1, <1>2, <1>3, <1>4, <1>5 DEF MovesARow

\* A decided rung has a row for everyone it planned, so that no offer can add
\* one, and its scores are final.
LEMMA DecidedKept ==
  ASSUME TypeOK, TypeOK', TasksOK, RowsScored, RowsScored', RowsPlanned, OffersPlanned,
         [Next]_vars, NEW r \in Rungs, Decided(table, r)
  PROVE  /\ Decided(table', r)
         /\ score'[r] = score[r]
<1> DEFINE P == Planned(stream, table, score, r)
<1>1. TakenAt(table, r) \subseteq P
  BY DEF RowsPlanned
<1>2. IsFiniteSet(P) /\ Cardinality(P) \in Nat /\ Cardinality(P) <= Sizes[r]
  BY PlannedBound DEF TypeOK
<1>3. Cardinality(TakenAt(table, r)) = Sizes[r] /\ Sizes[r] \in Nat
  BY RungsTyped DEF Decided
<1>4. TakenAt(table, r) = P
  <2> HIDE DEF P
  <2> QED  BY <1>1, <1>2, <1>3, FS_Subset
<1>5. ClosedKept(table, score, table', score')
  BY ClosedStep
<1>6. \A a \in TakenAt(table, r) : table'[r][a] = table[r][a] /\ score'[r][a] = score[r][a]
  BY <1>5 DEF ClosedKept, Decided, TakenAt
<1>7. ASSUME NEW a \in Archs, a \notin TakenAt(table, r)
      PROVE  table'[r][a] = Absent
  <2> SUFFICES ASSUME table'[r][a] # Absent PROVE FALSE
    OBVIOUS
  <2>1. PICK i \in DOMAIN offer : offer[i][1] = r /\ offer[i][2] = a
    BY <1>7, AppearsFromOffer DEF TakenAt
  <2>2. a \in P
    BY <2>1 DEF OffersPlanned
  <2> QED  BY <1>4, <1>7, <2>2
<1>8. TakenAt(table', r) = TakenAt(table, r)
  BY <1>6, <1>7 DEF TakenAt
<1>9. Decided(table', r)
  BY <1>6, <1>8 DEF Decided
<1>10. \A a \in Archs : score'[r][a] = score[r][a]
  <2> TAKE a \in Archs
  <2>1. CASE a \in TakenAt(table, r)
    BY <1>6, <2>1
  <2>2. CASE a \notin TakenAt(table, r)
    <3>1. table[r][a] = Absent /\ table'[r][a] = Absent
      BY <1>7, <2>2 DEF TakenAt
    <3>2. Absent \notin Closed
      BY DEF Absent, Closed
    <3> QED  BY <3>1, <3>2 DEF RowsScored
  <2> QED  BY <2>1, <2>2
<1>11. score[r] \in [Archs -> Results] /\ score'[r] \in [Archs -> Results]
  BY DEF TypeOK
<1>12. score'[r] = score[r]
  BY <1>10, <1>11
<1> QED  BY <1>9, <1>12

PlansKept(strm, t, s, u, w) ==
    \A r \in Rungs : Planned(strm, t, s, r) \subseteq Planned(strm, u, w, r)

LEMMA PlansStay ==
  ASSUME TypeOK, TypeOK', TasksOK, RowsScored, RowsScored', RowsPlanned, OffersPlanned,
         [Next]_vars
  PROVE  PlansKept(stream, table, score, table', score')
<1> SUFFICES ASSUME NEW r \in Rungs
             PROVE  Planned(stream, table, score, r)
                        \subseteq Planned(stream, table', score', r)
  BY DEF PlansKept
<1>1. CASE r = 0
  BY <1>1 DEF Planned
<1>2. CASE r # 0
  <2>1. r - 1 \in Rungs
    BY <1>2, RungsTyped
  <2>2. CASE Decided(table, r - 1)
    <3>1. Decided(table', r - 1) /\ score'[r - 1] = score[r - 1]
      BY <2>1, <2>2, DecidedKept
    <3> QED  BY <1>2, <3>1 DEF Planned
  <2>3. CASE ~Decided(table, r - 1)
    BY <1>2, <2>3 DEF Planned
  <2> QED  BY <2>2, <2>3
<1> QED  BY <1>1, <1>2

LEMMA RowsPlannedStep ==
  ASSUME TypeOK, TypeOK', TasksOK, RowsScored, RowsScored', RowsPlanned, OffersPlanned,
         [Next]_vars
  PROVE  RowsPlanned'
<1> SUFFICES ASSUME NEW r \in Rungs, NEW a \in Archs, table'[r][a] # Absent
             PROVE  a \in Planned(stream', table', score', r)
  BY DEF RowsPlanned, TakenAt
<1>1. a \in Planned(stream, table, score, r)
  <2>1. CASE table[r][a] # Absent
    BY <2>1 DEF RowsPlanned, TakenAt
  <2>2. CASE table[r][a] = Absent
    BY <2>2, AppearsFromOffer DEF OffersPlanned
  <2> QED  BY <2>1, <2>2
<1>2. Planned(stream, table, score, r) \subseteq Planned(stream, table', score', r)
  BY PlansStay DEF PlansKept
<1> QED  BY <1>1, <1>2, StreamKept

-----------------------------------------------------------------------------
(***************************************************************************)
(* A strategy state follows the plan, whatever it does.                    *)
(***************************************************************************)
\* c is b, with more entrants perhaps.
Continues(b, c) ==
    /\ \A r \in Rungs : c.rungs[r].promoted = b.rungs[r].promoted
    /\ c.current = 0 =>
          /\ b.current = 0 /\ c.seen = b.seen /\ c.drawn = b.drawn
          /\ Len(b.rungs[0].proposed) <= Len(c.rungs[0].proposed)

LEMMA FollowsForward ==
  ASSUME NEW b \in Brackets, NEW c \in Brackets, NEW strm \in Seq(Archs), NEW t, NEW s,
         NEW u, NEW w,
         Follows(b, strm, t, s), PlansKept(strm, t, s, u, w), Continues(b, c)
  PROVE  Follows(c, strm, u, w)
<1>1. ASSUME NEW r \in Rungs \ {Last}, NEW i \in DOMAIN c.rungs[r].promoted
      PROVE  c.rungs[r].promoted[i] \in Planned(strm, u, w, r + 1)
  <2>1. c.rungs[r].promoted = b.rungs[r].promoted /\ r + 1 \in Rungs
    BY RungsTyped DEF Continues
  <2>2. b.rungs[r].promoted[i] \in Planned(strm, t, s, r + 1)
    BY <2>1 DEF Follows
  <2> QED  BY <2>1, <2>2 DEF PlansKept
<1>2. ASSUME c.current = 0
      PROVE  /\ c.seen = SeenBefore(strm, c.drawn + 1)
             /\ Cardinality(c.seen) <= Len(c.rungs[0].proposed)
  <2>1. /\ b.seen = SeenBefore(strm, b.drawn + 1)
        /\ Cardinality(b.seen) <= Len(b.rungs[0].proposed)
        /\ c.seen = b.seen /\ c.drawn = b.drawn
        /\ Len(b.rungs[0].proposed) <= Len(c.rungs[0].proposed)
    BY <1>2 DEF Follows, Continues
  <2>2. Cardinality(b.seen) \in Nat
    BY <2>1, SeenTyped
  <2>3. b.rungs[0].proposed \in Seq(Archs) /\ c.rungs[0].proposed \in Seq(Archs)
    BY RungsTyped DEF Brackets, RungStates
  <2>4. Len(b.rungs[0].proposed) \in Nat /\ Len(c.rungs[0].proposed) \in Nat
    BY <2>3, LenProperties
  <2>5. Cardinality(c.seen) = Cardinality(b.seen)
    BY <2>1
  <2> QED  BY <2>1, <2>2, <2>4, <2>5
<1> QED  BY <1>1, <1>2 DEF Follows

LEMMA FollowsFresh ==
  ASSUME NEW strm \in Seq(Archs), NEW t, NEW s
  PROVE  Follows(FreshBracket, strm, t, s)
<1>1. \A r \in Rungs : FreshBracket.rungs[r] = EmptyRung
  BY DEF FreshBracket
<1>2. FreshBracket.seen = {} /\ FreshBracket.drawn = 0
  BY DEF FreshBracket
<1>3. SeenBefore(strm, 1) = {}
  BY LenProperties DEF SeenBefore
<1>4. FreshBracket.rungs[0].proposed = <<>>
  BY <1>1, RungsTyped DEF EmptyRung
<1>5. Cardinality({}) = 0
  BY FS_EmptySet
<1>6. \A r \in Rungs : FreshBracket.rungs[r].promoted = <<>>
  BY <1>1 DEF EmptyRung
<1> QED  BY <1>2, <1>3, <1>4, <1>5, <1>6 DEF Follows

\* The sampler's next draw is one that rung 0 has planned: as long as a place
\* is free, fewer candidates than places were drawn.
LEMMA FollowsSampled ==
  ASSUME NEW b \in Brackets, NEW strm \in Seq(Archs), NEW t, NEW s, NEW i \in DOMAIN strm,
         Follows(b, strm, t, s), b.current = 0, ~Filled(b, 0), IsFirstDraw(b, strm, i)
  PROVE  /\ Follows(Sampled(b, strm, i), strm, t, s)
         /\ strm[i] \in Drawable(strm)
<1> DEFINE c == Sampled(b, strm, i)
<1>1. i \in Nat /\ DOMAIN strm \subseteq Nat /\ strm[i] \in Archs /\ b.drawn \in Nat
      /\ b.seen \subseteq Archs
  BY LenProperties, ElementOfSeq DEF Brackets
<1>2. b.rungs[0].proposed \in Seq(Archs) /\ 0 \in Rungs
  BY RungsTyped DEF Brackets, RungStates
<1>3. Len(b.rungs[0].proposed) \in Nat /\ Len(b.rungs[0].proposed) < Sizes[0]
      /\ Sizes[0] \in Nat
  BY <1>2, LenProperties, RungsTyped DEF Filled
<1>4. /\ b.seen = SeenBefore(strm, b.drawn + 1)
      /\ Cardinality(b.seen) <= Len(b.rungs[0].proposed)
  BY DEF Follows
<1>5. /\ i > b.drawn /\ strm[i] \notin b.seen
      /\ \A j \in DOMAIN strm : j > b.drawn /\ strm[j] \notin b.seen => i <= j
  BY DEF IsFirstDraw, NextDraws
<1>6. SeenBefore(strm, i) = b.seen
  <2>1. SeenBefore(strm, i) \subseteq b.seen
    <3> SUFFICES ASSUME NEW j \in DOMAIN strm, j < i PROVE strm[j] \in b.seen
      BY DEF SeenBefore
    <3>1. j \in Nat
      BY <1>1
    <3>2. CASE j > b.drawn
      BY <1>1, <1>5, <3>1, <3>2
    <3>3. CASE ~(j > b.drawn)
      BY <1>1, <1>4, <3>1, <3>3 DEF SeenBefore
    <3> QED  BY <3>2, <3>3
  <2>2. b.seen \subseteq SeenBefore(strm, i)
    <3>1. \A j \in DOMAIN strm : j < b.drawn + 1 => j < i
      BY <1>1, <1>5
    <3> QED  BY <1>4, <3>1 DEF SeenBefore
  <2> QED  BY <2>1, <2>2
<1>7. Cardinality(b.seen) \in Nat /\ IsFiniteSet(b.seen)
  BY <1>4, SeenTyped
<1>8. Cardinality(SeenBefore(strm, i)) < Sizes[0]
  BY <1>3, <1>4, <1>6, <1>7
<1>9. strm[i] \in Drawable(strm)
  BY <1>8 DEF Drawable
<1>10. SeenBefore(strm, i + 1) = b.seen \cup {strm[i]}
  <2>1. \A j \in DOMAIN strm : j < i + 1 <=> (j < i \/ j = i)
    BY <1>1
  <2> QED  BY <1>6, <2>1 DEF SeenBefore
<1>11. /\ c.seen = b.seen \cup {strm[i]} /\ c.drawn = i /\ c.current = 0
       /\ c.rungs = WithEntrant(b, 0, strm[i])
  BY DEF Sampled, Brackets
<1>12. c.rungs[0].proposed = Append(b.rungs[0].proposed, strm[i])
  BY <1>2, <1>11 DEF WithEntrant, Brackets, RungStates
<1>13. Len(c.rungs[0].proposed) = Len(b.rungs[0].proposed) + 1
  BY <1>1, <1>2, <1>12, AppendProperties
<1>14. Cardinality(b.seen \cup {strm[i]}) = Cardinality(b.seen) + 1
  BY <1>5, <1>7, FS_AddElement
<1>15. \A r \in Rungs : c.rungs[r].promoted = b.rungs[r].promoted
  BY <1>1, <1>2, <1>11, WithEntrantTyped
<1> HIDE DEF c
<1>16. Cardinality(c.seen) = Cardinality(b.seen) + 1
  BY <1>11, <1>14
<1>17. c.seen = SeenBefore(strm, c.drawn + 1)
  BY <1>10, <1>11
<1>18. \A r \in Rungs \ {Last} : \A j \in DOMAIN c.rungs[r].promoted :
          c.rungs[r].promoted[j] \in Planned(strm, t, s, r + 1)
  BY <1>15 DEF Follows
<1>19. Follows(c, strm, t, s)
  BY <1>3, <1>4, <1>7, <1>13, <1>16, <1>17, <1>18 DEF Follows
<1> QED  BY <1>9, <1>11, <1>19 DEF c

\* When as many results are in as the rung has places, they are those of
\* everyone planned, and the scores of the table.
LEMMA EveryResultIsIn ==
  ASSUME NEW b \in Brackets, NEW strm \in Seq(Archs), NEW t,
         NEW s \in [Rungs -> [Archs -> Results]], NEW r \in Rungs,
         Filled(b, r), Outstanding(b, r) <= 0, Agrees(b, t, s),
         TakenAt(t, r) \subseteq Planned(strm, t, s, r),
         \A a \in Archs : t[r][a] \notin Closed => s[r][a] = Pending
  PROVE  Decided(t, r) /\ b.rungs[r].results = s[r]
<1> DEFINE res == b.rungs[r].results
           P == Planned(strm, t, s, r)
<1>1. b.rungs[r] \in RungStates /\ Sizes[r] \in Nat
  BY RungsTyped DEF Brackets
<1>2. Reported(b, r) \subseteq TakenAt(t, r)
  BY DEF Agrees, Reported, TakenAt, Closed, Absent
<1>3. IsFiniteSet(P) /\ Cardinality(P) \in Nat /\ Cardinality(P) <= Sizes[r]
  BY PlannedBound
<1>4. TakenAt(t, r) \subseteq P
  OBVIOUS
<1>5. Len(b.rungs[r].proposed) \in Nat
  BY <1>1, LenProperties DEF RungStates
<1>6. IsFiniteSet(Reported(b, r)) /\ Cardinality(Reported(b, r)) \in Nat
  BY HalvingAssumption, FS_Subset, FS_CardinalityType DEF Reported
<1>7. Cardinality(Reported(b, r)) >= Sizes[r]
  BY <1>1, <1>5, <1>6 DEF Filled, Outstanding
<1>8. Reported(b, r) = P /\ TakenAt(t, r) = P /\ Cardinality(P) = Sizes[r]
  <2>1. Reported(b, r) \subseteq P
    BY <1>2, <1>4
  <2>2. Cardinality(Reported(b, r)) <= Cardinality(P)
    BY <1>3, <2>1, FS_Subset
  <2>3. Cardinality(Reported(b, r)) = Cardinality(P) /\ Cardinality(P) = Sizes[r]
    BY <1>1, <1>3, <1>6, <1>7, <2>2
  <2>4. Reported(b, r) = P
    BY <1>3, <2>1, <2>3, FS_Subset
  <2> QED  BY <1>2, <1>4, <2>3, <2>4
<1>9. \A a \in Reported(b, r) : res[a] = s[r][a] /\ t[r][a] \in Closed
  BY DEF Agrees
<1>10. Decided(t, r)
  BY <1>8, <1>9 DEF Decided
<1>11. res \in [Archs -> Results] /\ s[r] \in [Archs -> Results]
  BY <1>1 DEF RungStates
<1>12. \A a \in Archs : res[a] = s[r][a]
  <2> TAKE a \in Archs
  <2>1. CASE a \in Reported(b, r)
    BY <1>9, <2>1
  <2>2. CASE a \notin Reported(b, r)
    <3>1. res[a] = Pending
      BY <2>2 DEF Reported
    <3>2. t[r][a] = Absent
      BY <1>8, <2>2 DEF TakenAt
    <3> QED  BY <3>1, <3>2 DEF Absent, Closed
  <2> QED  BY <2>1, <2>2
<1>13. res = s[r]
  BY <1>11, <1>12
<1> QED  BY <1>10, <1>13

\* _advance_rung by its cases.
LEMMA AdvancedCases ==
  ASSUME NEW b \in Brackets, b.current \in Rungs
  PROVE  LET r == b.current
             top == Best(b.rungs[r].results, Sizes[r + 1])
             c == Advanced(b)
         IN /\ r = Last => c.rungs = b.rungs /\ c.current = NumRungs
                            /\ c.exhausted = b.exhausted
            /\ r # Last /\ top = <<>> =>
                  /\ c.rungs = b.rungs /\ c.current = r /\ c.exhausted
                  /\ c.seen = b.seen /\ c.drawn = b.drawn
            /\ r # Last /\ top # <<>> =>
                  /\ c.current = r + 1 /\ c.exhausted = b.exhausted
                  /\ \A q \in Rungs : c.rungs[q].proposed = b.rungs[q].proposed
                  /\ c.rungs[r].promoted = top
                  /\ \A q \in Rungs : q # r => c.rungs[q] = b.rungs[q]
<1> DEFINE r == b.current
           top == Best(b.rungs[r].results, Sizes[r + 1])
           c == Advanced(b)
<1>1. b.rungs \in [Rungs -> RungStates] /\ b.rungs[r] \in RungStates
  BY DEF Brackets
<1>2. CASE r = Last
  BY <1>2, RungsTyped DEF Advanced, Brackets
<1>3. CASE r # Last /\ top = <<>>
  BY <1>3 DEF Advanced, Brackets
<1>4. CASE r # Last /\ top # <<>>
  <2> DEFINE new == [b.rungs[r] EXCEPT !.promoted = top]
  <2>1. new.promoted = top /\ new.proposed = b.rungs[r].proposed
    BY <1>1 DEF RungStates
  <2>2. /\ c.rungs = [b.rungs EXCEPT ![r] = new] /\ c.current = r + 1
        /\ c.exhausted = b.exhausted
    BY <1>1, <1>4 DEF Advanced, Brackets
  <2> HIDE DEF new, top, c
  <2>3. /\ c.rungs[r].promoted = top /\ c.rungs[r].proposed = b.rungs[r].proposed
        /\ \A q \in Rungs : q # r => c.rungs[q] = b.rungs[q]
    BY <1>1, <2>1, <2>2
  <2>4. \A q \in Rungs : c.rungs[q].proposed = b.rungs[q].proposed
    BY <2>3
  <2> QED  BY <1>4, <2>2, <2>3, <2>4 DEF top, c
<1> QED  BY <1>2, <1>3, <1>4

\* _advance_rung: the promoted are the best of everyone planned.
LEMMA FollowsAdvanced ==
  ASSUME NEW b \in Brackets, NEW strm \in Seq(Archs), NEW t,
         NEW s \in [Rungs -> [Archs -> Results]], b.current \in Rungs,
         Follows(b, strm, t, s), Decided(t, b.current),
         b.rungs[b.current].results = s[b.current]
  PROVE  Follows(Advanced(b), strm, t, s)
<1> DEFINE r == b.current
           res == b.rungs[r].results
           top == Best(res, Sizes[r + 1])
           c == Advanced(b)
<1>1. b.rungs[r] \in RungStates /\ c \in Brackets
  BY AdvancedTyped DEF Brackets
<1>2. PlansKept(strm, t, s, t, s)
  BY DEF PlansKept
<1>3. CASE r = Last
  <2>1. c.rungs = b.rungs /\ c.current = NumRungs
    BY <1>3, AdvancedCases
  <2>2. Continues(b, c)
    BY <2>1, RungsTyped DEF Continues
  <2> QED  BY <1>1, <1>2, <2>2, FollowsForward
<1>4. CASE r # Last /\ top = <<>>
  <2>1. c.rungs = b.rungs /\ c.current = b.current /\ c.seen = b.seen /\ c.drawn = b.drawn
    BY <1>4, AdvancedCases
  <2>2. b.rungs[0].proposed \in Seq(Archs)
    BY RungsTyped DEF Brackets, RungStates
  <2>3. Len(b.rungs[0].proposed) \in Nat
    BY <2>2, LenProperties
  <2>4. Continues(b, c)
    BY <2>1, <2>3 DEF Continues
  <2> QED  BY <1>1, <1>2, <2>4, FollowsForward
<1>5. CASE r # Last /\ top # <<>>
  <2>1. r + 1 \in Rungs /\ r \in Nat
    BY <1>5, RungsTyped
  <2>2. Sizes[r + 1] \in Nat
    BY <2>1, RungsTyped
  <2>3. \A n \in Nat : n + 1 # 0 /\ (n + 1) - 1 = n
    OBVIOUS
  <2>4. r + 1 # 0 /\ (r + 1) - 1 = r
    BY <2>1, <2>3, Zenon
  <2>5. Planned(strm, t, s, r + 1) = Chosen(res, Sizes[r + 1])
    BY <2>4 DEF Planned
  <2>6. \A i \in DOMAIN top : top[i] \in Chosen(res, Sizes[r + 1])
    <3>1. res \in [Archs -> Int]
      <4>1. Results \subseteq Int
        BY HalvingAssumption DEF Results, Pending, None
      <4> QED  BY <1>1, <4>1 DEF RungStates
    <3>2. top \in Seq(Successes(res))
      BY <2>2, <3>1, BestTakesFirstPlaces
    <3>3. DOMAIN top = 1 .. Len(top)
      <4> HIDE DEF top
      <4> QED  BY <3>2, LenProperties
    <3> QED  BY <3>3 DEF Chosen
  <2>7. /\ c.current = r + 1 /\ c.rungs[r].promoted = top
        /\ \A q \in Rungs : q # r => c.rungs[q] = b.rungs[q]
    BY <1>5, AdvancedCases
  <2> HIDE DEF top, c
  <2>8. ASSUME NEW q \in Rungs \ {Last}, NEW i \in DOMAIN c.rungs[q].promoted
        PROVE  c.rungs[q].promoted[i] \in Planned(strm, t, s, q + 1)
    <3>1. CASE q = r
      BY <2>5, <2>6, <2>7, <3>1
    <3>2. CASE q # r
      BY <2>7, <3>2 DEF Follows
    <3> QED  BY <3>1, <3>2
  <2>9. c.current # 0
    BY <2>4, <2>7
  <2>10. Follows(c, strm, t, s)
    BY <2>8, <2>9 DEF Follows
  <2> QED  BY <2>10 DEF c
<1> QED  BY <1>3, <1>4, <1>5

\* observe adds at most an entrant, and touches neither draws nor promotions.
LEMMA ObservedContinues ==
  ASSUME NEW b \in Brackets, NEW r \in Rungs, NEW a \in Archs, NEW v \in Results
  PROVE  Continues(b, Observed(b, a, r, v))
<1> DEFINE c == Observed(b, a, r, v)
           old == b.rungs[r]
           more == IF a \in Entrants(b, r) THEN old.proposed ELSE Append(old.proposed, a)
           new == [proposed |-> more, results |-> [old.results EXCEPT ![a] = v],
                   promoted |-> old.promoted]
<1>1. b.rungs \in [Rungs -> RungStates] /\ old \in RungStates /\ 0 \in Rungs
  BY RungsTyped DEF Brackets
<1>2. old.proposed \in Seq(Archs)
  BY <1>1 DEF RungStates
<1>3. Len(old.proposed) \in Nat /\ Len(more) >= Len(old.proposed)
  BY <1>2, LenProperties, AppendProperties
<1>4. c.current = b.current /\ c.seen = b.seen /\ c.drawn = b.drawn
      /\ c.rungs = [b.rungs EXCEPT ![r] = new]
  BY <1>1 DEF Observed, Brackets
<1>5. new.proposed = more
  OBVIOUS
<1> HIDE DEF new, more
<1>6. c.rungs[r].proposed = more /\ \A q \in Rungs : q # r => c.rungs[q] = b.rungs[q]
  BY <1>1, <1>4, <1>5
<1>7. Len(b.rungs[0].proposed) <= Len(c.rungs[0].proposed)
  <2>1. CASE r = 0
    BY <1>3, <1>6, <2>1
  <2>2. CASE r # 0
    <3>1. Len(b.rungs[0].proposed) \in Nat
      BY <1>1, LenProperties DEF RungStates
    <3> QED  BY <1>1, <1>6, <2>2, <3>1
  <2> QED  BY <2>1, <2>2
<1>8. \A q \in Rungs : c.rungs[q].promoted = b.rungs[q].promoted
  BY ObservedTyped
<1> HIDE DEF c
<1>9. Continues(b, c)
  BY <1>4, <1>7, <1>8 DEF Continues
<1> QED  BY <1>9 DEF c

\* The other operations of the strategy.
LEMMA OthersContinue ==
  ASSUME NEW b \in Brackets
  PROVE  /\ Continues(b, b)
         /\ Continues(b, SamplerDry(b))
         /\ \A a \in b.seen : Continues(b, Duplicated(b, a))
         /\ b.current # 0 => \A a : Continues(b, Duplicated(b, a))
<1>1. b.rungs[0].proposed \in Seq(Archs)
  BY RungsTyped DEF Brackets, RungStates
<1>2. Len(b.rungs[0].proposed) \in Nat
  BY <1>1, LenProperties
<1>3. \A a \in b.seen : b.seen \cup {a} = b.seen
  OBVIOUS
<1> QED  BY <1>2, <1>3 DEF Continues, SamplerDry, Duplicated, Brackets

LEMMA PromotedContinues ==
  ASSUME NEW b \in Brackets, NEW r \in Rungs, NextSurvivor(b, r) \in Archs, b.current # 0
  PROVE  Continues(b, Promoted(b, r))
<1>1. Promoted(b, r).current = b.current
  BY DEF Promoted, Brackets
<1>2. SameReports(b, Promoted(b, r))
  BY PromotedTyped
<1> QED  BY <1>1, <1>2 DEF Continues, SameReports

-----------------------------------------------------------------------------
(***************************************************************************)
(* The invariant over a step.                                              *)
(***************************************************************************)
\* The barrier opens over a rung that is decided.
LEMMA CurrentIsDecided ==
  ASSUME IInv, OneBracket, AdvanceRung
  PROVE  /\ Decided(table, bracket.current)
         /\ bracket.rungs[bracket.current].results = score[bracket.current]
<1> DEFINE r == bracket.current
<1>1. bracket \in Brackets /\ stream \in Seq(Archs)
      /\ score \in [Rungs -> [Archs -> Results]]
  BY DEF IInv, TypeOK
<1>2. r \in Rungs /\ Filled(bracket, r) /\ Outstanding(bracket, r) <= 0
  BY <1>1, RungsTyped DEF AdvanceRung, Proposing, Brackets
<1>3. Agrees(bracket, table, score)
  BY DEF IInv, StatesAgree
<1>4. TakenAt(table, r) \subseteq Planned(stream, table, score, r)
  BY <1>2 DEF OneBracket, RowsPlanned
<1>5. \A a \in Archs : table[r][a] \notin Closed => score[r][a] = Pending
  BY <1>2 DEF IInv, RowsScored
<1> HIDE DEF r
<1> QED  BY <1>1, <1>2, <1>3, <1>4, <1>5, EveryResultIsIn DEF r

LEMMA StatesPlannedStep ==
  ASSUME IInv, IInv', OneBracket, [Next]_vars
  PROVE  StatesPlanned'
<1>1. PlansKept(stream, table, score, table', score') /\ stream' = stream
      /\ stream \in Seq(Archs)
  BY PlansStay, StreamKept DEF IInv, OneBracket, TypeOK
<1>2. bracket \in Brackets /\ bracket' \in Brackets
      /\ (saved # <<>> => saved[1] \in Brackets)
  BY ElementOfSeq DEF IInv, TypeOK
<1>3. ASSUME Continues(bracket, bracket')
      PROVE  Follows(bracket', stream, table', score')
  BY <1>1, <1>2, <1>3, FollowsForward DEF OneBracket, StatesPlanned
<1>4. ASSUME NEW b \in Brackets, Follows(b, stream, table, score)
      PROVE  Follows(b, stream, table', score')
  BY <1>1, <1>4, FollowsForward, OthersContinue
<1>5. saved # <<>> => Follows(saved[1], stream, table', score')
  BY <1>2, <1>4 DEF OneBracket, StatesPlanned
<1>6. saved' = saved => (saved' # <<>> => Follows(saved'[1], stream, table', score'))
  BY <1>5
<1> DEFINE Goal == /\ Follows(bracket', stream, table', score')
                   /\ saved' # <<>> => Follows(saved'[1], stream, table', score')
<1> SUFFICES Goal
  BY <1>1 DEF StatesPlanned
<1>7. CASE ProposeSample
  <2> PICK i \in DOMAIN stream : /\ IsFirstDraw(bracket, stream, i)
                                 /\ bracket' = Sampled(bracket, stream, i)
    BY <1>7 DEF ProposeSample
  <2>1. bracket.current = 0 /\ ~Filled(bracket, 0) /\ UNCHANGED <<table, score, saved>>
    BY <1>7 DEF ProposeSample, durable, table_vars
  <2>2. Follows(bracket', stream, table, score)
    BY <1>1, <1>2, <2>1, FollowsSampled DEF OneBracket, StatesPlanned
  <2> QED  BY <1>6, <2>1, <2>2
<1>8. CASE ProposeNoSample
  <2>1. Continues(bracket, bracket') /\ saved' = saved
    BY <1>2, <1>8, OthersContinue DEF ProposeNoSample, durable
  <2> QED  BY <1>3, <1>6, <2>1
<1>9. CASE ProposeSurvivor
  <2>1. bracket.current \in Rungs \ {0} /\ SurvivorsLeft(bracket, bracket.current)
    BY <1>2, <1>9, RungsTyped DEF ProposeSurvivor, Proposing, Brackets
  <2>2. bracket.current # 0 /\ bracket' = Promoted(bracket, bracket.current)
        /\ saved' = saved
    BY <1>9, <2>1 DEF ProposeSurvivor, durable
  <2>3. Continues(bracket, bracket')
    BY <1>2, <2>1, <2>2, SurvivorTyped, PromotedContinues
  <2> QED  BY <1>3, <1>6, <2>2, <2>3
<1>10. CASE AdvanceRung
  <2>1. /\ bracket.current \in Rungs /\ bracket' = Advanced(bracket)
        /\ UNCHANGED <<table, score, saved>>
    BY <1>2, <1>10, RungsTyped DEF AdvanceRung, Proposing, Brackets, durable, table_vars
  <2>2. /\ Decided(table, bracket.current)
        /\ bracket.rungs[bracket.current].results = score[bracket.current]
    BY <1>10, CurrentIsDecided
  <2>3. Follows(bracket, stream, table, score) /\ score \in [Rungs -> [Archs -> Results]]
    BY DEF IInv, TypeOK, OneBracket, StatesPlanned
  <2>4. Follows(Advanced(bracket), stream, table, score)
    BY <1>1, <1>2, <2>1, <2>2, <2>3, FollowsAdvanced
  <2> QED  BY <1>6, <2>1, <2>4
<1>11. CASE AcceptDuplicate
  <2>1. 1 \in DOMAIN offer /\ Head(offer) = offer[1]
    BY <1>11, HeadTail DEF AcceptDuplicate, IInv, TypeOK
  <2>2. bracket.current = 0 => Head(offer)[2] \in bracket.seen
    BY <2>1 DEF OneBracket, OffersPlanned
  <2>3. Continues(bracket, bracket') /\ saved' = saved
    BY <1>2, <1>11, <2>2, OthersContinue DEF AcceptDuplicate, durable
  <2> QED  BY <1>3, <1>6, <2>3
<1>12. CASE Observe
  <2>1. tasks \in Seq(Keys) /\ tasks # <<>>
    BY <1>12 DEF IInv, TypeOK, TasksOK, Observe
  <2>2. Head(tasks)[1] \in Rungs /\ Head(tasks)[2] \in Archs
    BY <2>1, HeadTail DEF Keys
  <2>3. score[Head(tasks)[1]][Head(tasks)[2]] \in Results
    BY <2>2 DEF IInv, TypeOK
  <2>4. Continues(bracket, bracket') /\ saved' = saved
    BY <1>2, <1>12, <2>2, <2>3, ObservedContinues DEF Observe, durable
  <2> QED  BY <1>3, <1>6, <2>4
<1>13. CASE BatchDone \/ Finalise
  <2>1. bracket' = bracket /\ (saved' = saved \/ saved' = <<bracket>>)
    BY <1>13 DEF BatchDone, Finalise, memory
  <2>2. Follows(bracket', stream, table', score')
    BY <1>2, <1>3, <2>1, OthersContinue
  <2> QED  BY <1>6, <2>1, <2>2
<1>14. CASE Resume
  <2>1. saved' = saved /\ bracket' = IF saved = <<>> THEN FreshBracket ELSE saved[1]
    BY <1>14 DEF Resume
  <2> QED  BY <1>1, <1>5, <1>6, <2>1, FollowsFresh
<1>15. CASE bracket' = bracket /\ saved' = saved
  <2>1. Follows(bracket', stream, table', score')
    BY <1>2, <1>3, <1>15, OthersContinue
  <2> QED  BY <1>6, <1>15, <2>1
<1>16. \/ bracket' = bracket /\ saved' = saved
       \/ ProposeSample \/ ProposeNoSample \/ ProposeSurvivor \/ AdvanceRung
       \/ AcceptDuplicate \/ Observe \/ BatchDone \/ Finalise \/ Resume
  BY DEF Next, EngineStep, vars, durable, table_vars, memory, Stop, StopOnBudget,
         StartProposing, NothingToPropose, ProposeNoSurvivor,
         WaitAtBarrier, ProposedEnough, AcceptNew,
         AcceptDone, ClaimNext, RunBatch, ClaimedNothing, Complete, RetryLater, Fail,
         Interrupt, Crash
<1> QED  BY <1>7, <1>8, <1>9, <1>10, <1>11, <1>12, <1>13, <1>14, <1>15, <1>16

\* An offer against the rows and the strategy that made it.
OfferGood(k, b, strm, t, s) ==
    /\ k[2] \in Planned(strm, t, s, k[1])
    /\ b.current = 0 => k[2] \in b.seen

LEMMA OffersPlannedStep ==
  ASSUME IInv, IInv', OneBracket, [Next]_vars
  PROVE  OffersPlanned'
<1> DEFINE Good(k) == OfferGood(k, bracket', stream, table', score')
<1>1. PlansKept(stream, table, score, table', score') /\ stream' = stream
      /\ stream \in Seq(Archs)
  BY PlansStay, StreamKept DEF IInv, OneBracket, TypeOK
<1>2. bracket \in Brackets /\ bracket' \in Brackets /\ offer \in Seq(Keys)
  BY DEF IInv, TypeOK
<1>3. \A i \in DOMAIN offer :
         /\ offer[i] \in Keys /\ offer[i][1] \in Rungs
         /\ OfferGood(offer[i], bracket, stream, table, score)
  <2> TAKE i \in DOMAIN offer
  <2>1. offer[i] \in Keys
    BY <1>2, ElementOfSeq
  <2> QED  BY <2>1 DEF OneBracket, OffersPlanned, OfferGood, Keys
<1>4. ASSUME bracket'.current = 0 => bracket.current = 0 /\ bracket.seen \subseteq bracket'.seen
      PROVE  \A i \in DOMAIN offer : Good(offer[i])
  BY <1>1, <1>3, <1>4 DEF PlansKept, OfferGood
<1> SUFFICES \A i \in DOMAIN offer' : Good(offer'[i])
  BY <1>1 DEF OffersPlanned, OfferGood
<1> HIDE DEF Good
<1>5. ASSUME NEW k, Good(k), \A i \in DOMAIN offer : Good(offer[i]),
             offer' = Append(offer, k)
      PROVE  \A i \in DOMAIN offer' : Good(offer'[i])
  <2>1. /\ DOMAIN offer' = 1 .. Len(offer) + 1 /\ DOMAIN offer = 1 .. Len(offer)
        /\ Len(offer) \in Nat
        /\ \A i \in 1 .. Len(offer) : offer'[i] = offer[i]
        /\ offer'[Len(offer) + 1] = k
    <3>1. k \in {k} \cup Keys /\ offer \in Seq({k} \cup Keys)
      BY <1>2, SeqMonotonic
    <3> QED  BY <1>5, <3>1, AppendProperties, LenProperties
  <2> QED  BY <1>5, <2>1
<1>6. CASE ProposeSample
  <2> PICK i \in DOMAIN stream : /\ IsFirstDraw(bracket, stream, i)
                                 /\ bracket' = Sampled(bracket, stream, i)
                                 /\ offer' = Append(offer, <<bracket.current, stream[i]>>)
    BY <1>6 DEF ProposeSample, Entering
  <2>1. bracket.current = 0 /\ ~Filled(bracket, 0) /\ UNCHANGED <<table, score>>
    BY <1>6 DEF ProposeSample, durable, table_vars
  <2>2. /\ stream[i] \in Drawable(stream)
        /\ bracket'.seen = bracket.seen \cup {stream[i]}
    <3>1. Follows(bracket, stream, table, score)
      BY DEF OneBracket, StatesPlanned
    <3>2. stream \in Seq(Archs) /\ bracket \in Brackets /\ IsFirstDraw(bracket, stream, i)
          /\ i \in DOMAIN stream
      BY <1>1, <1>2
    <3>3. bracket.current = 0 /\ ~Filled(bracket, 0)
      BY <2>1
    <3>4. stream[i] \in Drawable(stream)
      BY <3>1, <3>2, <3>3, FollowsSampled
    <3>5. Sampled(bracket, stream, i).seen = bracket.seen \cup {stream[i]}
      BY <1>2 DEF Sampled, Brackets
    <3> QED  BY <3>4, <3>5
  <2>3. Good(<<0, stream[i]>>)
    BY <2>2 DEF Good, OfferGood, Planned
  <2>4. \A j \in DOMAIN offer : Good(offer[j])
    BY <1>4, <2>1, <2>2
  <2> QED  BY <1>5, <2>1, <2>3, <2>4
<1>7. CASE ProposeSurvivor
  <2> DEFINE r == bracket.current
             a == NextSurvivor(bracket, r)
  <2>1. /\ r \in Rungs \ {0} /\ SurvivorsLeft(bracket, r)
        /\ bracket' = Promoted(bracket, r)
        /\ offer' = Append(offer, <<r, a>>) /\ UNCHANGED <<table, score>>
    BY <1>2, <1>7, RungsTyped
    DEF ProposeSurvivor, Proposing, Entering, Brackets, durable, table_vars
  <2>2. /\ r - 1 \in Rungs /\ r - 1 # Last /\ (r - 1) + 1 = r
        /\ Len(bracket.rungs[r].proposed) + 1 \in DOMAIN bracket.rungs[r - 1].promoted
    BY <1>2, <2>1, SurvivorTyped DEF Rungs, Last
  <2>3. a \in Planned(stream, table, score, r)
    BY <2>2 DEF OneBracket, StatesPlanned, Follows, NextSurvivor
  <2>4. bracket'.current = bracket.current /\ bracket.current # 0
    BY <1>2, <2>1 DEF Promoted, Brackets
  <2>5. Good(<<r, a>>)
    BY <2>1, <2>3, <2>4 DEF Good, OfferGood
  <2>6. \A j \in DOMAIN offer : Good(offer[j])
    BY <1>4, <2>4
  <2> QED  BY <1>5, <2>1, <2>5, <2>6
<1>8. CASE offer' = <<>>
  BY <1>8
<1>9. CASE AcceptDuplicate \/ AcceptNew
  <2>1. /\ offer # <<>> /\ offer' = Tail(offer)
        /\ bracket' = bracket \/ bracket' = Duplicated(bracket, Head(offer)[2])
    BY <1>9 DEF AcceptDuplicate, AcceptNew
  <2>2. bracket'.current = bracket.current /\ bracket.seen \subseteq bracket'.seen
    BY <1>2, <2>1 DEF Duplicated, Brackets
  <2>3. \A i \in DOMAIN offer : Good(offer[i])
    BY <1>4, <2>2
  <2>4. /\ Len(offer') \in Nat /\ Len(offer') = Len(offer) - 1
        /\ \A i \in 1 .. Len(offer') : offer'[i] = offer[i + 1]
        /\ DOMAIN offer' = 1 .. Len(offer') /\ DOMAIN offer = 1 .. Len(offer)
        /\ Len(offer) \in Nat
    BY <1>2, <2>1, HeadTail, LenProperties
  <2> QED  BY <2>3, <2>4
<1>10. ASSUME offer' = offer,
              bracket'.current = 0 =>
                  bracket.current = 0 /\ bracket.seen \subseteq bracket'.seen
       PROVE  \A i \in DOMAIN offer' : Good(offer'[i])
  BY <1>4, <1>10
<1>11. CASE offer' = offer /\ bracket' = bracket
  BY <1>10, <1>11
<1>12. CASE ProposeNoSample
  BY <1>2, <1>10, <1>12 DEF ProposeNoSample, SamplerDry, Brackets
<1>13. CASE AdvanceRung
  <2>1. bracket' = Advanced(bracket) /\ offer' = offer /\ bracket.current \in Rungs
    BY <1>2, <1>13, RungsTyped DEF AdvanceRung, Proposing, Brackets
  <2>2. /\ bracket'.seen = bracket.seen
        /\ \/ bracket'.current = NumRungs \/ bracket'.current = bracket.current
           \/ bracket'.current = bracket.current + 1
    BY <1>2, <2>1 DEF Advanced, Brackets
  <2>3. bracket'.current = 0 => bracket.current = 0
    <3>1. bracket.current \in Nat /\ NumRungs # 0
      BY <2>1, RungsTyped
    <3> QED  BY <2>2, <3>1
  <2> QED  BY <1>10, <2>1, <2>2, <2>3
<1>14. CASE Observe
  <2>1. bracket'.current = bracket.current /\ bracket'.seen = bracket.seen /\ offer' = offer
    BY <1>2, <1>14 DEF Observe, Observed, Brackets
  <2> QED  BY <1>10, <2>1
<1>15. \/ offer' = offer /\ bracket' = bracket
       \/ offer' = <<>>
       \/ ProposeSample \/ ProposeNoSample \/ ProposeSurvivor \/ AdvanceRung
       \/ AcceptDuplicate \/ AcceptNew \/ Observe
  BY DEF Next, EngineStep, vars, durable, table_vars, memory, Stop, StopOnBudget,
         StartProposing, NothingToPropose, ProposeNoSurvivor, WaitAtBarrier,
         ProposedEnough, AcceptDone, ClaimNext, RunBatch, ClaimedNothing, Complete,
         RetryLater, Fail, BatchDone, Finalise, Interrupt, Crash, Resume
<1> QED  BY <1>6, <1>7, <1>8, <1>9, <1>11, <1>12, <1>13, <1>14, <1>15

LEMMA OneBracketInit == Init => OneBracket
<1> SUFFICES ASSUME Init PROVE OneBracket
  OBVIOUS
<1>1. RowsPlanned
  BY DEF Init, RowsPlanned, TakenAt
<1>2. OffersPlanned
  BY DEF Init, OffersPlanned
<1>3. stream \in Seq(Archs)
  BY TypeInit DEF TypeOK
<1>4. StatesPlanned
  BY <1>3, FollowsFresh DEF Init, StatesPlanned
<1> QED  BY <1>1, <1>2, <1>4 DEF OneBracket

LEMMA OneBracketStep == IInv /\ OneBracket /\ [Next]_vars => OneBracket'
<1> SUFFICES ASSUME IInv, OneBracket, [Next]_vars PROVE OneBracket'
  OBVIOUS
<1>1. IInv'
  BY InvStep
<1>2. RowsPlanned'
  BY <1>1, RowsPlannedStep DEF IInv, OneBracket
<1> QED  BY <1>1, <1>2, OffersPlannedStep, StatesPlannedStep DEF OneBracket

\* The rows of every reachable table are planned, and so are the offers and
\* the promotions that will become rows.
THEOREM EveryoneIsPlanned == Spec => [](IInv /\ OneBracket)
<1>1. Init => IInv /\ OneBracket
  BY InvInit, OneBracketInit
<1>2. IInv /\ OneBracket /\ [Next]_vars => (IInv /\ OneBracket)'
  BY InvStep, OneBracketStep
<1> QED  BY <1>1, <1>2, PTL DEF Spec

\* The planned are the first of all the measured, by the table's own scores.
LEMMA CutAtTheBest == IInv /\ OneBracket => OnlyTheBestEnter
<1> SUFFICES ASSUME IInv, OneBracket, NEW r \in Rungs \ {0}, NEW a \in Rows(r)
             PROVE  Cardinality({c \in Archs : table[r - 1][c] = "COMPLETED"
                                  /\ score[r - 1][c] > score[r - 1][a]}) < Sizes[r]
  BY DEF OnlyTheBestEnter
<1> DEFINE res == score[r - 1]
           Beaters == {c \in Archs : table[r - 1][c] = "COMPLETED" /\ res[c] > res[a]}
<1>1. r \in Rungs /\ r # 0 /\ r - 1 \in Rungs /\ Sizes[r] \in Nat
  BY RungsTyped
<1>2. a \in Planned(stream, table, score, r)
  BY DEF OneBracket, RowsPlanned, TakenAt, Rows
<1>3. a \in Chosen(res, Sizes[r])
  BY <1>1, <1>2 DEF Planned
<1>4. res \in [Archs -> Results] /\ Results \subseteq Int
  BY <1>1, HalvingAssumption DEF IInv, TypeOK, Results, Pending, None
<1>5. res \in [Archs -> Int]
  BY <1>4
<1>6. a \in Successes(res) /\ Place(res, a) <= Sizes[r]
  <2> HIDE DEF res
  <2> QED  BY <1>1, <1>3, <1>5, ChosenBound, BestTakesFirstPlaces DEF Chosen
<1>7. \A c \in Archs : table[r - 1][c] = "COMPLETED" => c \in Successes(res)
  <2>1. \A c \in Archs : table[r - 1][c] = "COMPLETED" => res[c] \in Scores
    BY <1>1 DEF IInv, RowsScored
  <2>2. \A v \in Scores : v >= 0
    BY HalvingAssumption
  <2> QED  BY <2>1, <2>2 DEF Successes, Succeeded
<1>8. Beaters \subseteq Ahead(res, a)
  BY <1>7 DEF Ahead, Better
<1>9. IsFiniteSet(Ahead(res, a)) /\ Cardinality(Ahead(res, a)) \in Nat
  BY SuccessesFinite, FS_Subset, FS_CardinalityType DEF Ahead
<1>10. Cardinality(Ahead(res, a)) < Sizes[r]
  <2>1. Place(res, a) = 1 + Cardinality(Ahead(res, a))
    BY DEF Place, Ahead
  <2> QED  BY <1>1, <1>6, <1>9, <2>1
<1>11. Cardinality(Beaters) <= Cardinality(Ahead(res, a)) /\ Cardinality(Beaters) \in Nat
  BY <1>8, <1>9, FS_Subset, FS_CardinalityType
<1> QED  BY <1>1, <1>9, <1>10, <1>11

\* The rows of every table that a search reaches are those of one bracket:
\* cut at the best of each rung, a rung after the one below has closed, and no
\* rung larger than its plan, whatever crashes, and whatever checkpoint a
\* resume started from.
THEOREM OneBracketWhateverHappens == Spec => []RowsFormABracket
<1>1. ASSUME IInv, OneBracket PROVE BarrierHolds
  <2> SUFFICES ASSUME NEW r \in Rungs \ {0}, Rows(r) # {}, NEW a \in Archs
               PROVE  table[r - 1][a] \notin {"QUEUED", "RUNNING"}
    BY DEF BarrierHolds
  <2>1. TakenAt(table, r) # {} /\ r \in Rungs /\ r # 0
    BY DEF TakenAt, Rows
  <2>2. Planned(stream, table, score, r) # {}
    BY <1>1, <2>1 DEF OneBracket, RowsPlanned
  <2>3. Decided(table, r - 1)
    BY <2>1, <2>2 DEF Planned
  <2> QED  BY <2>3 DEF Decided, TakenAt, Closed, Absent
<1>2. ASSUME IInv, OneBracket PROVE RungSizeKept
  <2> SUFFICES ASSUME NEW r \in Rungs PROVE Cardinality(Rows(r)) <= Sizes[r]
    BY DEF RungSizeKept
  <2> DEFINE P == Planned(stream, table, score, r)
  <2>1. IsFiniteSet(P) /\ Cardinality(P) \in Nat /\ Cardinality(P) <= Sizes[r]
    BY <1>2, PlannedBound DEF IInv, TypeOK
  <2>2. Rows(r) \subseteq P
    BY <1>2 DEF OneBracket, RowsPlanned, TakenAt, Rows
  <2> HIDE DEF P
  <2>3. Cardinality(Rows(r)) <= Cardinality(P) /\ Cardinality(Rows(r)) \in Nat
    BY <2>1, <2>2, FS_Subset, FS_CardinalityType
  <2>4. Sizes[r] \in Nat
    BY RungsTyped
  <2> QED  BY <2>1, <2>3, <2>4
<1>3. IInv /\ OneBracket => RowsFormABracket
  BY <1>1, <1>2, CutAtTheBest DEF RowsFormABracket
<1> QED  BY <1>3, EveryoneIsPlanned, PTL

-----------------------------------------------------------------------------
(***************************************************************************)
(* How far a strategy state has climbed.                                   *)
(***************************************************************************)
\* The space has fewer members than rung 0 has places.
Dry(strm) == Cardinality({strm[i] : i \in DOMAIN strm}) < Sizes[0]

\* A decided rung without a survivor.
Barren(t, r) == Decided(t, r) /\ \A a \in TakenAt(t, r) : t[r][a] = "FAILED"

\* The rungs below the current one are decided, and their best promoted.  A
\* bracket that gave up, or is through, has seen why.
Climbed(b, strm, t, s) ==
    /\ \A r \in Rungs \ {Last} : r < b.current =>
          Decided(t, r) /\ b.rungs[r].promoted = Best(s[r], Sizes[r + 1])
    /\ b.exhausted => Dry(strm) \/ \E r \in Rungs : Barren(t, r)
    /\ b.current = NumRungs => \E a \in Archs : t[Last][a] \in Closed

StatesClimbed ==
    /\ Climbed(bracket, stream, table, score)
    /\ saved # <<>> => Climbed(saved[1], stream, table, score)

\* What is decided stays, and what is closed.
RowsSettle(t, s, u, w) ==
    /\ ClosedKept(t, s, u, w)
    /\ \A r \in Rungs : Decided(t, r) => Decided(u, r) /\ w[r] = s[r]

SameClimb(b, c) ==
    /\ c.current = b.current /\ c.exhausted = b.exhausted
    /\ \A r \in Rungs : c.rungs[r].promoted = b.rungs[r].promoted

LEMMA RowsSettleStep ==
  ASSUME IInv, IInv', OneBracket, [Next]_vars
  PROVE  RowsSettle(table, score, table', score')
BY ClosedStep, DecidedKept DEF IInv, OneBracket, RowsSettle

LEMMA BarrenKept ==
  ASSUME NEW t, NEW s, NEW u, NEW w, RowsSettle(t, s, u, w), NEW r \in Rungs, Barren(t, r)
  PROVE  Barren(u, r)
<1>1. Decided(u, r) /\ Decided(t, r)
  BY DEF RowsSettle, Barren
<1>2. \A a \in TakenAt(t, r) : u[r][a] = "FAILED"
  BY DEF RowsSettle, ClosedKept, Barren, Closed, TakenAt
<1>3. TakenAt(t, r) \subseteq TakenAt(u, r)
  BY <1>2 DEF TakenAt, Absent
<1>4. IsFiniteSet(TakenAt(u, r))
  BY HalvingAssumption, FS_Subset DEF TakenAt
<1>5. Cardinality(TakenAt(t, r)) = Cardinality(TakenAt(u, r))
  BY <1>1 DEF Decided
<1>6. TakenAt(t, r) = TakenAt(u, r)
  BY <1>3, <1>4, <1>5, FS_Subset
<1> QED  BY <1>1, <1>2, <1>6 DEF Barren

LEMMA ClimbedForward ==
  ASSUME NEW b, NEW c, NEW strm, NEW t, NEW s, NEW u, NEW w,
         Climbed(b, strm, t, s), RowsSettle(t, s, u, w), SameClimb(b, c)
  PROVE  Climbed(c, strm, u, w)
<1>1. ASSUME NEW r \in Rungs \ {Last}, r < c.current
      PROVE  Decided(u, r) /\ c.rungs[r].promoted = Best(w[r], Sizes[r + 1])
  BY <1>1 DEF Climbed, RowsSettle, SameClimb
<1>2. c.exhausted => Dry(strm) \/ \E r \in Rungs : Barren(u, r)
  BY BarrenKept DEF Climbed, SameClimb
<1>3. c.current = NumRungs => \E a \in Archs : u[Last][a] \in Closed
  BY RungsTyped DEF Climbed, RowsSettle, ClosedKept, SameClimb, Rungs, Last
<1> QED  BY <1>1, <1>2, <1>3 DEF Climbed

LEMMA ClimbedFresh ==
  ASSUME NEW strm, NEW t, NEW s
  PROVE  Climbed(FreshBracket, strm, t, s)
<1>1. FreshBracket.current = 0 /\ FreshBracket.exhausted = FALSE
  BY DEF FreshBracket
<1>2. \A r \in Rungs : ~(r < 0)
  BY RungsTyped
<1> QED  BY <1>1, <1>2, RungsTyped DEF Climbed

\* The sampler gives up when all it can draw was drawn, and rung 0 has places
\* left: the space is too small for it.
LEMMA DryWhenDry ==
  ASSUME NEW b \in Brackets, NEW strm \in Seq(Archs), NEW t, NEW s,
         Follows(b, strm, t, s), b.current = 0, ~Filled(b, 0), NextDraws(b, strm) = {}
  PROVE  Dry(strm)
<1> DEFINE All == {strm[i] : i \in DOMAIN strm}
<1>1. /\ b.seen = SeenBefore(strm, b.drawn + 1) /\ b.drawn \in Nat
      /\ Cardinality(b.seen) <= Len(b.rungs[0].proposed)
  BY DEF Follows, Brackets
<1>2. DOMAIN strm \subseteq Nat
  BY LenProperties
<1>3. All \subseteq b.seen
  <2> SUFFICES ASSUME NEW i \in DOMAIN strm PROVE strm[i] \in b.seen
    OBVIOUS
  <2>1. CASE i > b.drawn
    BY <2>1 DEF NextDraws
  <2>2. CASE ~(i > b.drawn)
    <3>1. i < b.drawn + 1
      BY <1>1, <1>2, <2>2
    <3> QED  BY <1>1, <3>1 DEF SeenBefore
  <2> QED  BY <2>1, <2>2
<1>4. IsFiniteSet(b.seen) /\ Cardinality(b.seen) \in Nat
  BY <1>1, SeenTyped
<1>5. Cardinality(All) <= Cardinality(b.seen) /\ Cardinality(All) \in Nat
  BY <1>3, <1>4, FS_Subset, FS_CardinalityType
<1>6. b.rungs[0].proposed \in Seq(Archs) /\ Sizes[0] \in Nat
  BY RungsTyped DEF Brackets, RungStates
<1>7. Len(b.rungs[0].proposed) \in Nat
  BY <1>6, LenProperties
<1>8. Cardinality(All) < Sizes[0]
  BY <1>1, <1>4, <1>5, <1>6, <1>7 DEF Filled
<1> QED  BY <1>8 DEF Dry

\* A rung is left upwards with its best promoted, or for good because nobody
\* succeeded, or because it is the last one.
LEMMA ClimbedAdvanced ==
  ASSUME NEW b \in Brackets, NEW strm, NEW t, NEW s \in [Rungs -> [Archs -> Results]],
         b.current \in Rungs, Climbed(b, strm, t, s), Decided(t, b.current),
         b.rungs[b.current].results = s[b.current],
         \A a \in Archs : t[b.current][a] = "COMPLETED" => s[b.current][a] \in Scores
  PROVE  Climbed(Advanced(b), strm, t, s)
<1> DEFINE r == b.current
           res == b.rungs[r].results
           top == Best(res, Sizes[r + 1])
           c == Advanced(b)
<1>1. RowsSettle(t, s, t, s)
  BY DEF RowsSettle, ClosedKept
<1>2. Sizes[r] \in Nat \ {0} /\ r \in Nat
  BY RungsTyped
<1>3. TakenAt(t, r) # {}
  BY <1>2, FS_EmptySet DEF Decided
<1>4. CASE r = Last
  <2>1. c.rungs = b.rungs /\ c.current = NumRungs /\ c.exhausted = b.exhausted
    BY <1>4, AdvancedCases
  <2>2. \E a \in Archs : t[Last][a] \in Closed
    BY <1>3, <1>4 DEF Decided, TakenAt
  <2>3. \A q \in Rungs \ {Last} : q < r
    BY <1>4, HalvingAssumption DEF Rungs, Last
  <2> HIDE DEF c
  <2>4. Climbed(c, strm, t, s)
    BY <2>1, <2>2, <2>3 DEF Climbed
  <2> QED  BY <2>4 DEF c
<1>5. CASE r # Last /\ top = <<>>
  <2>1. c.rungs = b.rungs /\ c.current = r /\ c.exhausted
    BY <1>5, AdvancedCases
  <2>2. Sizes[r + 1] \in Nat \ {0}
    <3>1. r + 1 \in Rungs
      BY <1>5, RungsTyped
    <3> QED  BY <3>1, RungsTyped
  <2>3. res \in [Archs -> Int]
    <3>1. Results \subseteq Int
      BY HalvingAssumption DEF Results, Pending, None
    <3>2. res \in [Archs -> Results]
      OBVIOUS
    <3> QED  BY <3>1, <3>2
  <2>4. Successes(res) = {}
    <3> SUFFICES ASSUME NEW x \in Successes(res) PROVE FALSE
      OBVIOUS
    <3> HIDE DEF res
    <3>1. IsFiniteSet(Successes(res)) /\ Cardinality(Successes(res)) \in Nat
      BY SuccessesFinite
    <3>2. Cardinality(Successes(res)) # 0
      BY <3>1, FS_EmptySet
    <3>3. PICK a \in Successes(res) : Place(res, a) = 1
      BY <2>3, <3>1, <3>2, PlaceTaken
    <3>4. 1 <= Sizes[r + 1]
      BY <2>2
    <3>5. \E i \in 1 .. Len(Best(res, Sizes[r + 1])) : Best(res, Sizes[r + 1])[i] = a
      BY <2>2, <2>3, <3>3, <3>4, BestTakesFirstPlaces
    <3> QED  BY <1>5, <3>5
  <2>5. \A a \in TakenAt(t, r) : t[r][a] = "FAILED"
    <3> SUFFICES ASSUME NEW a \in TakenAt(t, r), t[r][a] = "COMPLETED" PROVE FALSE
      BY DEF Decided, Closed
    <3>1. res[a] \in Scores /\ a \in Archs
      BY DEF TakenAt
    <3>2. \A v \in Scores : v >= 0
      BY HalvingAssumption
    <3>3. a \in Successes(res)
      BY <3>1, <3>2, Zenon DEF Successes, Succeeded
    <3> QED  BY <2>4, <3>3
  <2>6. Barren(t, r)
    BY <2>5 DEF Barren
  <2> HIDE DEF c
  <2>7. Climbed(c, strm, t, s)
    BY <2>1, <2>6 DEF Climbed
  <2> QED  BY <2>7 DEF c
<1>6. CASE r # Last /\ top # <<>>
  <2>1. /\ c.current = r + 1 /\ c.exhausted = b.exhausted /\ c.rungs[r].promoted = top
        /\ \A q \in Rungs : q # r => c.rungs[q] = b.rungs[q]
    BY <1>6, AdvancedCases
  <2>2. r + 1 # NumRungs
    BY <1>2, <1>6, HalvingAssumption DEF Last
  <2> HIDE DEF c, top
  <2>3. ASSUME NEW q \in Rungs \ {Last}, q < c.current
        PROVE  Decided(t, q) /\ c.rungs[q].promoted = Best(s[q], Sizes[q + 1])
    <3>1. CASE q = r
      BY <2>1, <3>1 DEF top
    <3>2. CASE q # r
      <4>1. q < r
        BY <1>2, <2>1, <2>3, <3>2, RungsTyped
      <4> QED  BY <2>1, <3>2, <4>1 DEF Climbed
    <3> QED  BY <3>1, <3>2
  <2>4. Climbed(c, strm, t, s)
    BY <2>1, <2>2, <2>3 DEF Climbed
  <2> QED  BY <2>4 DEF c
<1> QED  BY <1>4, <1>5, <1>6

LEMMA OthersClimb ==
  ASSUME NEW b \in Brackets
  PROVE  /\ SameClimb(b, b)
         /\ \A a : SameClimb(b, Duplicated(b, a))
         /\ \A strm \in Seq(Archs) : \A i \in DOMAIN strm : SameClimb(b, Sampled(b, strm, i))
         /\ \A r \in Rungs : NextSurvivor(b, r) \in Archs => SameClimb(b, Promoted(b, r))
         /\ \A r \in Rungs, a \in Archs, v \in Results : SameClimb(b, Observed(b, a, r, v))
<1>1. SameClimb(b, b) /\ \A a : SameClimb(b, Duplicated(b, a))
  BY DEF SameClimb, Duplicated, Brackets
<1>2. ASSUME NEW strm \in Seq(Archs), NEW i \in DOMAIN strm
      PROVE  SameClimb(b, Sampled(b, strm, i))
  <2>1. Sampled(b, strm, i).current = b.current
        /\ Sampled(b, strm, i).exhausted = b.exhausted
    BY DEF Sampled, Brackets
  <2> QED  BY <2>1, SampledTyped DEF SameClimb, SameReports
<1>3. ASSUME NEW r \in Rungs, NextSurvivor(b, r) \in Archs
      PROVE  SameClimb(b, Promoted(b, r))
  <2>1. Promoted(b, r).current = b.current /\ Promoted(b, r).exhausted = b.exhausted
    BY DEF Promoted, Brackets
  <2> QED  BY <1>3, <2>1, PromotedTyped DEF SameClimb, SameReports
<1>4. ASSUME NEW r \in Rungs, NEW a \in Archs, NEW v \in Results
      PROVE  SameClimb(b, Observed(b, a, r, v))
  <2>1. Observed(b, a, r, v).current = b.current
        /\ Observed(b, a, r, v).exhausted = b.exhausted
    BY DEF Observed, Brackets
  <2> QED  BY <2>1, ObservedTyped DEF SameClimb
<1> QED  BY <1>1, <1>2, <1>3, <1>4

LEMMA StatesClimbedStep ==
  ASSUME IInv, IInv', OneBracket, StatesClimbed, [Next]_vars
  PROVE  StatesClimbed'
<1>1. RowsSettle(table, score, table', score') /\ stream' = stream
      /\ stream \in Seq(Archs)
  BY RowsSettleStep, StreamKept DEF IInv, TypeOK
<1>2. bracket \in Brackets
  BY DEF IInv, TypeOK
<1>3. ASSUME SameClimb(bracket, bracket')
      PROVE  Climbed(bracket', stream, table', score')
  BY <1>1, <1>3, ClimbedForward DEF StatesClimbed
<1>4. saved # <<>> => Climbed(saved[1], stream, table', score')
  <2> SUFFICES ASSUME saved # <<>> PROVE Climbed(saved[1], stream, table', score')
    OBVIOUS
  <2>1. SameClimb(saved[1], saved[1])
    BY DEF SameClimb
  <2> QED  BY <1>1, <2>1, ClimbedForward DEF StatesClimbed
<1>5. saved' = saved => (saved' # <<>> => Climbed(saved'[1], stream, table', score'))
  BY <1>4
<1> SUFFICES /\ Climbed(bracket', stream, table', score')
             /\ saved' # <<>> => Climbed(saved'[1], stream, table', score')
  BY <1>1 DEF StatesClimbed
<1>6. CASE ProposeSample
  <2>1. SameClimb(bracket, bracket') /\ saved' = saved
    BY <1>1, <1>2, <1>6, OthersClimb DEF ProposeSample, durable
  <2> QED  BY <1>3, <1>5, <2>1
<1>7. CASE ProposeNoSample
  <2>1. /\ bracket' = SamplerDry(bracket) /\ UNCHANGED <<table, score, saved>>
        /\ bracket.current = 0 /\ ~Filled(bracket, 0) /\ NextDraws(bracket, stream) = {}
    BY <1>7 DEF ProposeNoSample, durable, table_vars
  <2>2. Follows(bracket, stream, table, score)
    BY DEF OneBracket, StatesPlanned
  <2>3. Dry(stream)
    BY <1>1, <1>2, <2>1, <2>2, DryWhenDry
  <2>4. bracket'.current = bracket.current /\ bracket'.rungs = bracket.rungs
    BY <1>2, <2>1 DEF SamplerDry, Brackets
  <2>5. Climbed(bracket', stream, table, score)
    BY <2>3, <2>4 DEF StatesClimbed, Climbed
  <2> QED  BY <1>5, <2>1, <2>5
<1>8. CASE ProposeSurvivor
  <2>1. bracket.current \in Rungs \ {0} /\ SurvivorsLeft(bracket, bracket.current)
    BY <1>2, <1>8, RungsTyped DEF ProposeSurvivor, Proposing, Brackets
  <2>2. bracket' = Promoted(bracket, bracket.current) /\ saved' = saved
    BY <1>8, <2>1 DEF ProposeSurvivor, durable
  <2>3. SameClimb(bracket, bracket')
    BY <1>2, <2>1, <2>2, SurvivorTyped, OthersClimb
  <2> QED  BY <1>3, <1>5, <2>2, <2>3
<1>9. CASE AdvanceRung
  <2>1. /\ bracket.current \in Rungs /\ bracket' = Advanced(bracket)
        /\ UNCHANGED <<table, score, saved>>
    BY <1>2, <1>9, RungsTyped DEF AdvanceRung, Proposing, Brackets, durable, table_vars
  <2>2. /\ Decided(table, bracket.current)
        /\ bracket.rungs[bracket.current].results = score[bracket.current]
    BY <1>9, CurrentIsDecided
  <2>3. /\ score \in [Rungs -> [Archs -> Results]]
        /\ Climbed(bracket, stream, table, score)
    BY DEF IInv, TypeOK, StatesClimbed
  <2>4. \A a \in Archs : table[bracket.current][a] = "COMPLETED" =>
            score[bracket.current][a] \in Scores
    BY <2>1 DEF IInv, RowsScored
  <2>5. Climbed(Advanced(bracket), stream, table, score)
    BY <1>2, <2>1, <2>2, <2>3, <2>4, ClimbedAdvanced
  <2> QED  BY <1>5, <2>1, <2>5
<1>10. CASE AcceptDuplicate
  <2>1. SameClimb(bracket, bracket') /\ saved' = saved
    BY <1>2, <1>10, OthersClimb DEF AcceptDuplicate, durable
  <2> QED  BY <1>3, <1>5, <2>1
<1>11. CASE Observe
  <2>1. tasks \in Seq(Keys) /\ tasks # <<>>
    BY <1>11 DEF IInv, TypeOK, TasksOK, Observe
  <2>2. Head(tasks)[1] \in Rungs /\ Head(tasks)[2] \in Archs
    BY <2>1, HeadTail DEF Keys
  <2>3. score[Head(tasks)[1]][Head(tasks)[2]] \in Results
    BY <2>2 DEF IInv, TypeOK
  <2>4. SameClimb(bracket, bracket') /\ saved' = saved
    BY <1>2, <1>11, <2>2, <2>3, OthersClimb DEF Observe, durable
  <2> QED  BY <1>3, <1>5, <2>4
<1>12. CASE BatchDone \/ Finalise
  <2>1. bracket' = bracket /\ (saved' = saved \/ saved' = <<bracket>>)
    BY <1>12 DEF BatchDone, Finalise, memory
  <2>2. Climbed(bracket', stream, table', score')
    BY <1>2, <1>3, <2>1, OthersClimb
  <2> QED  BY <1>5, <2>1, <2>2
<1>13. CASE Resume
  <2>1. saved' = saved /\ bracket' = IF saved = <<>> THEN FreshBracket ELSE saved[1]
    BY <1>13 DEF Resume
  <2> QED  BY <1>4, <1>5, <2>1, ClimbedFresh
<1>14. CASE bracket' = bracket /\ saved' = saved
  <2>1. Climbed(bracket', stream, table', score')
    BY <1>2, <1>3, <1>14, OthersClimb
  <2> QED  BY <1>5, <1>14, <2>1
<1>15. \/ bracket' = bracket /\ saved' = saved
       \/ ProposeSample \/ ProposeNoSample \/ ProposeSurvivor \/ AdvanceRung
       \/ AcceptDuplicate \/ Observe \/ BatchDone \/ Finalise \/ Resume
  BY DEF Next, EngineStep, vars, durable, table_vars, memory, Stop, StopOnBudget,
         StartProposing, NothingToPropose, ProposeNoSurvivor,
         WaitAtBarrier, ProposedEnough, AcceptNew,
         AcceptDone, ClaimNext, RunBatch, ClaimedNothing, Complete, RetryLater, Fail,
         Interrupt, Crash
<1> QED  BY <1>6, <1>7, <1>8, <1>9, <1>10, <1>11, <1>12, <1>13, <1>14, <1>15

-----------------------------------------------------------------------------
(***************************************************************************)
(* The books of a search that was not resumed.                             *)
(*                                                                         *)
(* Its strategy knows every row and every offer, and nothing else, so that *)
(* what it waits for is always somewhere in the engine: when the engine    *)
(* has nothing left to run, the rung has its results.                      *)
(***************************************************************************)
Once(q) == \A i, j \in DOMAIN q : q[i] = q[j] => i = j

Offered(o, r, a) == \E i \in DOMAIN o : o[i] = <<r, a>>

\* The entrants are the rows and the offers, each one once; those of a rung
\* above rung 0 are the promoted of the rung below, in their order.
Booked(b, t, o) ==
    /\ \A r \in Rungs, a \in Archs :
          a \in Entrants(b, r) <=> t[r][a] # Absent \/ Offered(o, r, a)
    /\ \A r \in Rungs : Once(b.rungs[r].proposed)
    /\ \A r \in Rungs \ {0} : \A i \in DOMAIN b.rungs[r].proposed :
          /\ i \in DOMAIN b.rungs[r - 1].promoted
          /\ b.rungs[r].proposed[i] = b.rungs[r - 1].promoted[i]
    /\ \A r \in Rungs : r > b.current => b.rungs[r].proposed = <<>>
    /\ b.current = 0 => Entrants(b, 0) \subseteq b.seen

OffersNew(t, o) == Once(o) /\ \A i \in DOMAIN o : t[o[i][1]][o[i][2]] = Absent

\* A closed row is reported, but for the one whose result is about to be.
Heard ==
    /\ \A r \in Rungs, a \in Archs :
          table[r][a] \in Closed =>
              a \in Reported(bracket, r) \/ (pc = "observe" /\ tasks[1] = <<r, a>>)
    /\ pc = "observe" => score[tasks[1][1]][tasks[1][2]] # Pending

RunningHeld ==
    \A k \in Keys : Status(k) = "RUNNING" => \E i \in DOMAIN tasks : tasks[i] = k

\* The rung that is open got fewer survivors than it has places.
Short ==
    /\ bracket.current \in Rungs \ {0}
    /\ Cardinality({a \in Archs : table[bracket.current - 1][a] = "COMPLETED"})
           < Sizes[bracket.current]

Busy == Queued \/ Finished(bracket) \/ Short

\* What is left to do in each phase of the loop.
PhasesOK ==
    /\ pc \in {"loop", "claim", "results", "observe"} => offer = <<>>
    /\ pc = "propose" => wanted >= 1
    /\ pc = "accept" => offer # <<>> \/ Busy
    /\ pc = "claim" => tasks # <<>> \/ Busy

FirstRun == resumes = 0 /\ pc \notin {"save", "stopped", "down"}

RowsInserted ==
    \A k \in Keys : Status(k) # Absent => \E i \in DOMAIN inserted : inserted[i] = k

Balanced ==
    FirstRun => /\ Booked(bracket, table, offer) /\ OffersNew(table, offer)
                /\ Heard /\ RunningHeld /\ PhasesOK

\* Why the search stopped.
ReasonOK ==
    /\ reason \in {"STRATEGY_FINISHED", "SPACE_EXHAUSTED"} =>
           pc \in {"save", "stopped", "down"}
    /\ reason = "STRATEGY_FINISHED" => Finished(bracket)
    /\ reason = "SPACE_EXHAUSTED" /\ resumes = 0 => Short

LEMMA SeqTail ==
  ASSUME NEW S, NEW q \in Seq(S), q # <<>>
  PROVE  /\ DOMAIN q = 1 .. Len(q) /\ Len(q) \in Nat
         /\ DOMAIN Tail(q) = 1 .. (Len(q) - 1)
         /\ \A i \in DOMAIN Tail(q) : i + 1 \in DOMAIN q /\ Tail(q)[i] = q[i + 1]
         /\ \A i \in DOMAIN q : i = 1 \/ (i - 1 \in DOMAIN Tail(q) /\ q[i] = Tail(q)[i - 1])
         /\ 1 \in DOMAIN q /\ Head(q) = q[1]
<1>1. /\ Head(q) = q[1] /\ Tail(q) \in Seq(S) /\ Len(q) \in Nat \ {0}
      /\ Len(Tail(q)) = Len(q) - 1
      /\ \A i \in 1 .. Len(Tail(q)) : Tail(q)[i] = q[i + 1]
  BY HeadTail
<1>2. DOMAIN q = 1 .. Len(q) /\ DOMAIN Tail(q) = 1 .. (Len(q) - 1)
  BY <1>1, LenProperties
<1>3. \A i \in 1 .. (Len(q) - 1) : i + 1 \in 1 .. Len(q)
  BY <1>1
<1>4. ASSUME NEW i \in 1 .. Len(q), i # 1
      PROVE  i - 1 \in 1 .. (Len(q) - 1) /\ (i - 1) + 1 = i
  BY <1>1, <1>4
<1>5. \A i \in DOMAIN q : i = 1 \/ (i - 1 \in DOMAIN Tail(q) /\ q[i] = Tail(q)[i - 1])
  BY <1>1, <1>2, <1>4
<1> QED  BY <1>1, <1>2, <1>3, <1>5

LEMMA SeqAppend ==
  ASSUME NEW S, NEW q \in Seq(S), NEW e \in S
  PROVE  /\ DOMAIN q = 1 .. Len(q) /\ Len(q) \in Nat
         /\ DOMAIN Append(q, e) = 1 .. (Len(q) + 1)
         /\ \A i \in DOMAIN q : i \in DOMAIN Append(q, e) /\ Append(q, e)[i] = q[i]
         /\ Append(q, e)[Len(q) + 1] = e
         /\ \A i \in DOMAIN Append(q, e) : i \in DOMAIN q \/ i = Len(q) + 1
BY AppendProperties, LenProperties

LEMMA OnceAppend ==
  ASSUME NEW S, NEW q \in Seq(S), NEW e \in S, Once(q), \A i \in DOMAIN q : q[i] # e
  PROVE  Once(Append(q, e))
<1> DEFINE n == Append(q, e)
<1>1. SUFFICES ASSUME NEW i \in DOMAIN n, NEW j \in DOMAIN n, n[i] = n[j] PROVE i = j
  BY DEF Once
<1>2. /\ \A x \in DOMAIN q : n[x] = q[x]
      /\ n[Len(q) + 1] = e
      /\ \A x \in DOMAIN n : x \in DOMAIN q \/ x = Len(q) + 1
  BY SeqAppend
<1> HIDE DEF n
<1>3. CASE i \in DOMAIN q /\ j \in DOMAIN q
  BY <1>1, <1>2, <1>3 DEF Once
<1>4. CASE i \in DOMAIN q /\ j = Len(q) + 1
  BY <1>1, <1>2, <1>4
<1>5. CASE i = Len(q) + 1 /\ j \in DOMAIN q
  BY <1>1, <1>2, <1>5
<1> QED  BY <1>2, <1>3, <1>4, <1>5

LEMMA OnceTail ==
  ASSUME NEW S, NEW q \in Seq(S), q # <<>>, Once(q)
  PROVE  Once(Tail(q)) /\ \A i \in DOMAIN Tail(q) : Tail(q)[i] # Head(q)
<1>1. /\ \A i \in DOMAIN Tail(q) : i + 1 \in DOMAIN q /\ Tail(q)[i] = q[i + 1]
      /\ DOMAIN Tail(q) = 1 .. (Len(q) - 1) /\ 1 \in DOMAIN q /\ Head(q) = q[1]
      /\ Len(q) \in Nat
  BY SeqTail
<1>2. ASSUME NEW i \in DOMAIN Tail(q), NEW j \in DOMAIN Tail(q), Tail(q)[i] = Tail(q)[j]
      PROVE  i = j
  <2>1. i + 1 = j + 1
    BY <1>1, <1>2 DEF Once
  <2> QED  BY <1>1, <2>1
<1>3. ASSUME NEW i \in DOMAIN Tail(q), Tail(q)[i] = Head(q) PROVE FALSE
  <2>1. i + 1 = 1
    BY <1>1, <1>3 DEF Once
  <2> QED  BY <1>1, <2>1
<1> QED  BY <1>2, <1>3 DEF Once

LEMMA OfferedAppend ==
  ASSUME NEW o \in Seq(Keys), NEW r \in Rungs, NEW a \in Archs, NEW q, NEW x
  PROVE  Offered(Append(o, <<r, a>>), q, x) <=> Offered(o, q, x) \/ (q = r /\ x = a)
<1> DEFINE n == Append(o, <<r, a>>)
<1>1. <<r, a>> \in Keys
  BY DEF Keys
<1>2. /\ \A i \in DOMAIN o : i \in DOMAIN n /\ n[i] = o[i]
      /\ Len(o) + 1 \in DOMAIN n /\ n[Len(o) + 1] = <<r, a>>
      /\ \A i \in DOMAIN n : i \in DOMAIN o \/ i = Len(o) + 1
  BY <1>1, SeqAppend
<1>3. <<r, a>> = <<q, x>> <=> q = r /\ x = a
  OBVIOUS
<1> HIDE DEF n
<1>4. Offered(n, q, x) <=> Offered(o, q, x) \/ (q = r /\ x = a)
  BY <1>2, <1>3 DEF Offered
<1> QED  BY <1>4 DEF n

LEMMA OfferedTail ==
  ASSUME NEW o \in Seq(Keys), o # <<>>, NEW q, NEW x
  PROVE  Offered(o, q, x) <=> Offered(Tail(o), q, x) \/ Head(o) = <<q, x>>
<1>1. /\ \A i \in DOMAIN Tail(o) : i + 1 \in DOMAIN o /\ Tail(o)[i] = o[i + 1]
      /\ \A i \in DOMAIN o : i = 1 \/ (i - 1 \in DOMAIN Tail(o) /\ o[i] = Tail(o)[i - 1])
      /\ 1 \in DOMAIN o /\ Head(o) = o[1]
  BY SeqTail
<1> QED  BY <1>1 DEF Offered

\* The promoted are different, and as many as there are successes or places.
LEMMA BestOnce ==
  ASSUME NEW res \in [Archs -> Int], NEW n \in Nat
  PROVE  /\ Once(Best(res, n))
         /\ Len(Best(res, n)) < n => Cardinality(Successes(res)) < n
<1>1. /\ Best(res, n) \in Seq(Successes(res))
      /\ \A i \in 1 .. Len(Best(res, n)) : Place(res, Best(res, n)[i]) = i
  BY BestTakesFirstPlaces
<1>2. DOMAIN Best(res, n) = 1 .. Len(Best(res, n))
  BY <1>1, LenProperties
<1>3. Once(Best(res, n))
  BY <1>1, <1>2 DEF Once
<1> DEFINE m == Cardinality(Successes(res))
           k == IF n < m THEN n ELSE m
<1>4. m \in Nat
  BY SuccessesFinite
<1>5. DOMAIN Best(res, n) = 1 .. k
  BY DEF Best
<1>6. Len(Best(res, n)) = k
  <2> HIDE DEF m
  <2>1. k \in Nat /\ Len(Best(res, n)) \in Nat
    BY <1>1, <1>4, LenProperties
  <2>2. 1 .. k = 1 .. Len(Best(res, n))
    BY <1>2, <1>5
  <2> HIDE DEF k
  <2> QED  BY <2>1, <2>2
<1> QED  BY <1>3, <1>4, <1>6

-----------------------------------------------------------------------------
(***************************************************************************)
(* The books, operation by operation.                                      *)
(***************************************************************************)
\* c has the entrants, the draws and the promotions of b.
SameBook(b, c) ==
    /\ c.current = b.current /\ c.seen = b.seen
    /\ \A r \in Rungs : /\ c.rungs[r].proposed = b.rungs[r].proposed
                        /\ c.rungs[r].promoted = b.rungs[r].promoted

SameRows(t, u) == \A r \in Rungs, a \in Archs : u[r][a] # Absent <=> t[r][a] # Absent

LEMMA BookedSame ==
  ASSUME NEW b, NEW c, NEW t, NEW u, NEW o,
         Booked(b, t, o), SameBook(b, c), SameRows(t, u)
  PROVE  Booked(c, u, o)
<1>1. \A r \in Rungs : Entrants(c, r) = Entrants(b, r)
  BY DEF Entrants, SameBook
<1>2. \A r \in Rungs, a \in Archs :
         a \in Entrants(c, r) <=> u[r][a] # Absent \/ Offered(o, r, a)
  BY <1>1 DEF Booked, SameRows
<1>3. \A r \in Rungs : Once(c.rungs[r].proposed)
  BY DEF Booked, SameBook
<1>4. \A r \in Rungs \ {0} : \A i \in DOMAIN c.rungs[r].proposed :
         /\ i \in DOMAIN c.rungs[r - 1].promoted
         /\ c.rungs[r].proposed[i] = c.rungs[r - 1].promoted[i]
  BY RungsTyped DEF Booked, SameBook
<1>5. \A r \in Rungs : r > c.current => c.rungs[r].proposed = <<>>
  BY DEF Booked, SameBook
<1>6. c.current = 0 => Entrants(c, 0) \subseteq c.seen
  BY <1>1, RungsTyped DEF Booked, SameBook
<1> QED  BY <1>2, <1>3, <1>4, <1>5, <1>6 DEF Booked

\* c has one entrant more than b, at rung r.
OneMore(b, c, r, a) ==
    /\ \A q \in Rungs : c.rungs[q].promoted = b.rungs[q].promoted
    /\ c.rungs[r].proposed = Append(b.rungs[r].proposed, a)
    /\ \A q \in Rungs : q # r => /\ c.rungs[q].proposed = b.rungs[q].proposed
                                 /\ Entrants(c, q) = Entrants(b, q)
    /\ \A x : x \in Entrants(c, r) <=> x \in Entrants(b, r) \/ x = a

LEMMA EntrantAdded ==
  ASSUME NEW b \in Brackets, NEW c, NEW r \in Rungs, NEW a \in Archs,
         c.rungs = WithEntrant(b, r, a)
  PROVE  OneMore(b, c, r, a)
<1>1. b.rungs \in [Rungs -> RungStates] /\ b.rungs[r].proposed \in Seq(Archs)
  BY DEF Brackets, RungStates
<1>2. c.rungs[r].proposed = Append(b.rungs[r].proposed, a)
  BY <1>1 DEF WithEntrant, RungStates
<1>3. \A q \in Rungs : q # r => c.rungs[q].proposed = b.rungs[q].proposed
  BY <1>1 DEF WithEntrant
<1>4. \A q \in Rungs : q # r => Entrants(c, q) = Entrants(b, q)
  BY <1>3 DEF Entrants
<1>5. \A q \in Rungs : c.rungs[q].promoted = b.rungs[q].promoted
  BY WithEntrantTyped
<1> DEFINE old == b.rungs[r].proposed
           new == c.rungs[r].proposed
<1>6. /\ \A i \in DOMAIN old : i \in DOMAIN new /\ new[i] = old[i]
      /\ Len(old) + 1 \in DOMAIN new /\ new[Len(old) + 1] = a
      /\ \A i \in DOMAIN new : i \in DOMAIN old \/ i = Len(old) + 1
  <2> HIDE DEF old
  <2> QED  BY <1>1, <1>2, SeqAppend DEF old
<1>7. Entrants(b, r) = {old[i] : i \in DOMAIN old}
      /\ Entrants(c, r) = {new[i] : i \in DOMAIN new}
  BY DEF Entrants
<1> HIDE DEF old, new
<1>8. ASSUME NEW x PROVE x \in Entrants(c, r) <=> x \in Entrants(b, r) \/ x = a
  BY <1>6, <1>7
<1> QED  BY <1>2, <1>3, <1>4, <1>5, <1>8 DEF OneMore

\* A proposal of somebody new is one entrant and one offer more.
LEMMA BookedEnter ==
  ASSUME NEW b \in Brackets, NEW c \in Brackets, NEW t, NEW o \in Seq(Keys),
         NEW r \in Rungs, NEW a \in Archs,
         Booked(b, t, o), b.current = r, c.current = r, c.rungs = WithEntrant(b, r, a),
         a \notin Entrants(b, r), b.seen \subseteq c.seen,
         r = 0 => a \in c.seen,
         r # 0 => /\ Len(b.rungs[r].proposed) + 1 \in DOMAIN b.rungs[r - 1].promoted
                  /\ a = b.rungs[r - 1].promoted[Len(b.rungs[r].proposed) + 1]
  PROVE  Booked(c, t, Append(o, <<r, a>>))
<1>1. /\ \A q \in Rungs : c.rungs[q].promoted = b.rungs[q].promoted
      /\ c.rungs[r].proposed = Append(b.rungs[r].proposed, a)
      /\ \A q \in Rungs : q # r => /\ c.rungs[q].proposed = b.rungs[q].proposed
                                   /\ Entrants(c, q) = Entrants(b, q)
      /\ \A x : x \in Entrants(c, r) <=> x \in Entrants(b, r) \/ x = a
  <2>1. OneMore(b, c, r, a)
    BY EntrantAdded
  <2> QED  BY <2>1 DEF OneMore
<1>2. b.rungs[r].proposed \in Seq(Archs) /\ r \in Nat
  BY RungsTyped DEF Brackets, RungStates
<1>3. ASSUME NEW q \in Rungs, NEW x \in Archs
      PROVE  x \in Entrants(c, q) <=> t[q][x] # Absent \/ Offered(Append(o, <<r, a>>), q, x)
  <2>1. x \in Entrants(b, q) <=> t[q][x] # Absent \/ Offered(o, q, x)
    BY DEF Booked
  <2>2. Offered(Append(o, <<r, a>>), q, x) <=> Offered(o, q, x) \/ (q = r /\ x = a)
    BY OfferedAppend
  <2>3. x \in Entrants(c, q) <=> x \in Entrants(b, q) \/ (q = r /\ x = a)
    BY <1>1
  <2> QED  BY <2>1, <2>2, <2>3
<1>4. ASSUME NEW q \in Rungs PROVE Once(c.rungs[q].proposed)
  <2>1. CASE q # r
    BY <1>1, <2>1 DEF Booked
  <2>2. CASE q = r
    <3>1. \A i \in DOMAIN b.rungs[r].proposed : b.rungs[r].proposed[i] # a
      BY DEF Entrants
    <3>2. Once(b.rungs[r].proposed)
      BY DEF Booked
    <3>3. Once(Append(b.rungs[r].proposed, a))
      BY <1>2, <3>1, <3>2, OnceAppend, Zenon
    <3> QED  BY <1>1, <2>2, <3>3
  <2> QED  BY <2>1, <2>2
<1>5. ASSUME NEW q \in Rungs \ {0}, NEW i \in DOMAIN c.rungs[q].proposed
      PROVE  /\ i \in DOMAIN c.rungs[q - 1].promoted
             /\ c.rungs[q].proposed[i] = c.rungs[q - 1].promoted[i]
  <2>1. q - 1 \in Rungs
    BY RungsTyped
  <2>2. c.rungs[q - 1].promoted = b.rungs[q - 1].promoted
    BY <1>1, <2>1
  <2>3. CASE q # r
    BY <1>1, <2>2, <2>3 DEF Booked
  <2>4. CASE q = r
    <3>1. /\ \A j \in DOMAIN b.rungs[r].proposed :
                c.rungs[r].proposed[j] = b.rungs[r].proposed[j]
          /\ c.rungs[r].proposed[Len(b.rungs[r].proposed) + 1] = a
          /\ \/ i \in DOMAIN b.rungs[r].proposed
             \/ i = Len(b.rungs[r].proposed) + 1
      <4> DEFINE old == b.rungs[r].proposed
      <4>1. old \in Seq(Archs) /\ c.rungs[r].proposed = Append(old, a)
            /\ i \in DOMAIN Append(old, a)
        BY <1>1, <1>2, <2>4
      <4> HIDE DEF old
      <4>2. /\ \A j \in DOMAIN old : Append(old, a)[j] = old[j]
            /\ Append(old, a)[Len(old) + 1] = a
            /\ \A j \in DOMAIN Append(old, a) : j \in DOMAIN old \/ j = Len(old) + 1
        BY <4>1, SeqAppend
      <4> QED  BY <4>1, <4>2, Zenon DEF old
    <3>2. CASE i \in DOMAIN b.rungs[r].proposed
      BY <2>2, <2>4, <3>1, <3>2 DEF Booked
    <3>3. CASE i = Len(b.rungs[r].proposed) + 1
      BY <2>2, <2>4, <3>1, <3>3
    <3> QED  BY <3>1, <3>2, <3>3
  <2> QED  BY <2>3, <2>4
<1>6. \A q \in Rungs : q > c.current => c.rungs[q].proposed = <<>>
  <2> SUFFICES ASSUME NEW q \in Rungs, q > c.current PROVE c.rungs[q].proposed = <<>>
    OBVIOUS
  <2>1. q # r
    BY <1>2
  <2> QED  BY <1>1, <2>1 DEF Booked
<1>7. c.current = 0 => Entrants(c, 0) \subseteq c.seen
  <2> SUFFICES ASSUME c.current = 0, NEW x \in Entrants(c, 0) PROVE x \in c.seen
    OBVIOUS
  <2>1. r = 0 /\ b.current = 0
    OBVIOUS
  <2>2. x \in Entrants(b, 0) \/ x = a
    BY <1>1, <2>1
  <2> QED  BY <2>1, <2>2 DEF Booked
<1> QED  BY <1>3, <1>4, <1>5, <1>6, <1>7 DEF Booked

\* An offer becomes a row.
LEMMA BookedAccept ==
  ASSUME NEW b, NEW t, NEW u, NEW o \in Seq(Keys), o # <<>>,
         Booked(b, t, o), OffersNew(t, o),
         \A r \in Rungs, a \in Archs :
            u[r][a] # Absent <=> t[r][a] # Absent \/ (r = Head(o)[1] /\ a = Head(o)[2])
  PROVE  Booked(b, u, Tail(o)) /\ OffersNew(u, Tail(o))
<1>1. /\ Head(o) \in Keys /\ Head(o) = <<Head(o)[1], Head(o)[2]>>
      /\ Tail(o) \in Seq(Keys)
  BY HeadTail DEF Keys
<1>2. ASSUME NEW r \in Rungs, NEW a \in Archs
      PROVE  a \in Entrants(b, r) <=> u[r][a] # Absent \/ Offered(Tail(o), r, a)
  <2>1. a \in Entrants(b, r) <=> t[r][a] # Absent \/ Offered(o, r, a)
    BY DEF Booked
  <2>2. Offered(o, r, a) <=> Offered(Tail(o), r, a) \/ Head(o) = <<r, a>>
    BY OfferedTail
  <2>3. Head(o) = <<r, a>> <=> r = Head(o)[1] /\ a = Head(o)[2]
    BY <1>1
  <2> QED  BY <2>1, <2>2, <2>3
<1>3. Once(Tail(o)) /\ \A i \in DOMAIN Tail(o) : Tail(o)[i] # Head(o)
  BY OnceTail DEF OffersNew
<1>4. ASSUME NEW i \in DOMAIN Tail(o)
      PROVE  u[Tail(o)[i][1]][Tail(o)[i][2]] = Absent
  <2>1. i + 1 \in DOMAIN o /\ Tail(o)[i] = o[i + 1]
    BY SeqTail
  <2>2. t[Tail(o)[i][1]][Tail(o)[i][2]] = Absent
    BY <2>1 DEF OffersNew
  <2>3. Tail(o)[i] \in Keys
    BY <1>1, ElementOfSeq
  <2>4. /\ Tail(o)[i][1] \in Rungs /\ Tail(o)[i][2] \in Archs
        /\ Tail(o)[i] = <<Tail(o)[i][1], Tail(o)[i][2]>>
    BY <2>3 DEF Keys
  <2>5. ~(Tail(o)[i][1] = Head(o)[1] /\ Tail(o)[i][2] = Head(o)[2])
    BY <1>1, <1>3, <2>4
  <2> QED  BY <2>2, <2>4, <2>5
<1> QED  BY <1>2, <1>3, <1>4 DEF Booked, OffersNew

\* The barrier opens: the next rung has no entrant yet.
LEMMA BookedAdvanced ==
  ASSUME NEW b \in Brackets, b.current \in Rungs, NEW t, NEW o, Booked(b, t, o)
  PROVE  Booked(Advanced(b), t, o)
<1> DEFINE r == b.current
           top == Best(b.rungs[r].results, Sizes[r + 1])
           c == Advanced(b)
<1>1. SameRows(t, t)
  BY DEF SameRows
<1>2. c.seen = b.seen /\ r \in Nat
  BY RungsTyped DEF Advanced, Brackets
<1>3. CASE r = Last
  <2>1. c.rungs = b.rungs /\ c.current = NumRungs
    BY <1>3, AdvancedCases
  <2>2. \A q \in Rungs : ~(q > NumRungs)
    BY HalvingAssumption DEF Rungs
  <2>3. NumRungs # 0 /\ \A q \in Rungs : Entrants(c, q) = Entrants(b, q)
    BY <2>1, RungsTyped DEF Entrants
  <2> HIDE DEF c
  <2>4. Booked(c, t, o)
    BY <2>1, <2>2, <2>3 DEF Booked
  <2> QED  BY <2>4 DEF c
<1>4. CASE r # Last /\ top = <<>>
  <2>1. c.rungs = b.rungs /\ c.current = r
    BY <1>4, AdvancedCases
  <2>2. SameBook(b, c)
    BY <1>2, <2>1 DEF SameBook
  <2> QED  BY <1>1, <2>2, BookedSame
<1>5. CASE r # Last /\ top # <<>>
  <2>1. /\ c.current = r + 1
        /\ \A q \in Rungs : c.rungs[q].proposed = b.rungs[q].proposed
        /\ \A q \in Rungs : q # r => c.rungs[q] = b.rungs[q]
    BY <1>5, AdvancedCases
  <2> HIDE DEF c, top
  <2>2. \A q \in Rungs : Entrants(c, q) = Entrants(b, q)
    BY <2>1 DEF Entrants
  <2>3. ASSUME NEW q \in Rungs, q > c.current PROVE c.rungs[q].proposed = <<>>
    <3>1. q > r
      BY <1>2, <2>1, <2>3, RungsTyped
    <3> QED  BY <2>1, <3>1 DEF Booked
  <2>4. ASSUME NEW q \in Rungs \ {0}, NEW i \in DOMAIN c.rungs[q].proposed
        PROVE  /\ i \in DOMAIN c.rungs[q - 1].promoted
               /\ c.rungs[q].proposed[i] = c.rungs[q - 1].promoted[i]
    <3>1. q - 1 \in Rungs /\ q \in Nat
      BY RungsTyped
    <3>2. CASE q - 1 = r
      <4>1. q > r
        BY <1>2, <3>1, <3>2
      <4>2. c.rungs[q].proposed = <<>>
        BY <2>1, <4>1 DEF Booked
      <4> QED  BY <4>2
    <3>3. CASE q - 1 # r
      BY <2>1, <3>1, <3>3 DEF Booked
    <3> QED  BY <3>2, <3>3
  <2>5. c.current # 0
    BY <1>2, <2>1
  <2>6. Booked(c, t, o)
    BY <2>1, <2>2, <2>3, <2>4, <2>5 DEF Booked
  <2> QED  BY <2>6 DEF c
<1> QED  BY <1>3, <1>4, <1>5

\* A result of an entrant changes no book.
LEMMA ObservedBook ==
  ASSUME NEW b \in Brackets, NEW r \in Rungs, NEW a \in Archs, NEW v \in Results,
         a \in Entrants(b, r)
  PROVE  SameBook(b, Observed(b, a, r, v))
<1> DEFINE c == Observed(b, a, r, v)
           new == [proposed |-> b.rungs[r].proposed,
                   results |-> [b.rungs[r].results EXCEPT ![a] = v],
                   promoted |-> b.rungs[r].promoted]
<1>1. b.rungs \in [Rungs -> RungStates]
  BY DEF Brackets
<1>2. /\ c.current = b.current /\ c.seen = b.seen
      /\ c.rungs = [b.rungs EXCEPT ![r] = new]
  BY <1>1 DEF Observed, Brackets
<1>3. new.proposed = b.rungs[r].proposed /\ new.promoted = b.rungs[r].promoted
  OBVIOUS
<1> HIDE DEF new, c
<1>4. SameBook(b, c)
  BY <1>1, <1>2, <1>3 DEF SameBook
<1> QED  BY <1>4 DEF c

-----------------------------------------------------------------------------
(***************************************************************************)
(* The books over a step.                                                  *)
(***************************************************************************)
\* What a step of the first process may be.
LEMMA FirstRunBack ==
  ASSUME TypeOK, [Next]_vars, FirstRun'
  PROVE  /\ FirstRun
         /\ ~Resume /\ ~Finalise /\ ~Crash /\ ~Interrupt /\ ~StopOnBudget
<1>1. ~Resume
  BY DEF FirstRun, Resume, TypeOK
<1>2. ~Finalise /\ ~Crash /\ ~Interrupt /\ ~StopOnBudget
  BY DEF FirstRun, Finalise, Crash, Interrupt, StopOnBudget, Stop
<1>3. resumes' = resumes
  BY <1>1 DEF Next, EngineStep, vars, durable, table_vars, memory, Stop, StopOnBudget,
       StartProposing, NothingToPropose, ProposeSample, ProposeNoSample, ProposeSurvivor,
       ProposeNoSurvivor, WaitAtBarrier, AdvanceRung, ProposedEnough, AcceptDuplicate,
       AcceptNew, AcceptDone, ClaimNext, RunBatch, ClaimedNothing, Complete, RetryLater,
       Fail, Observe, BatchDone, Finalise, Interrupt, Crash
<1>4. pc \notin {"save", "stopped", "down"}
  BY <1>1, <1>2 DEF FirstRun, Next, EngineStep, vars, StartProposing, NothingToPropose,
       ProposeSample, ProposeNoSample, ProposeSurvivor, Proposing, ProposeNoSurvivor,
       WaitAtBarrier, AdvanceRung, ProposedEnough, AcceptDuplicate, AcceptNew, AcceptDone,
       ClaimNext, RunBatch, ClaimedNothing, Complete, RetryLater, Fail, Observe, BatchDone
<1> QED  BY <1>1, <1>2, <1>3, <1>4 DEF FirstRun

\* Only AcceptNew adds a row, and none disappears.
LEMMA OnlyAcceptsAdd ==
  ASSUME TypeOK, TasksOK, [Next]_vars, ~AcceptNew
  PROVE  SameRows(table, table')
<1> USE DEF SameRows, Absent
<1>1. CASE ~MovesARow
  BY <1>1, RowsQuiet
<1>2. CASE ClaimNext
  BY <1>2, ClaimMoves DEF Moves
<1>3. CASE Complete
  BY <1>3, ResultMoves DEF Moves
<1>4. CASE RetryLater
  BY <1>4, ResultMoves DEF Moves
<1>5. CASE Fail
  BY <1>5, ResultMoves DEF Moves
<1>6. CASE Resume
  BY <1>6, ResumeMoves
<1> QED  BY <1>1, <1>2, <1>3, <1>4, <1>5, <1>6 DEF MovesARow

LEMMA RowsInsertedStep ==
  ASSUME IInv, RowsInserted, [Next]_vars
  PROVE  RowsInserted'
<1>1. inserted \in Seq(Keys) /\ TypeOK /\ TasksOK
  BY DEF IInv, TypeOK
<1>2. \A k \in Keys : k[1] \in Rungs /\ k[2] \in Archs /\ k = <<k[1], k[2]>>
  BY DEF Keys
<1>3. CASE AcceptNew
  <2>1. /\ offer[1] \in Keys /\ Moves(offer[1], "QUEUED")
        /\ inserted' = Append(inserted, offer[1])
    BY <1>1, <1>3, AcceptMoves, HeadTail DEF AcceptNew, TypeOK
  <2>2. /\ \A i \in DOMAIN inserted : i \in DOMAIN inserted' /\ inserted'[i] = inserted[i]
        /\ Len(inserted) + 1 \in DOMAIN inserted'
        /\ inserted'[Len(inserted) + 1] = offer[1]
    BY <1>1, <2>1, SeqAppend
  <2>3. ASSUME NEW k \in Keys, table'[k[1]][k[2]] # Absent
        PROVE  \E i \in DOMAIN inserted' : inserted'[i] = k
    <3>1. CASE k = offer[1]
      BY <2>2, <3>1
    <3>2. CASE k # offer[1]
      <4>1. ~(k[1] = offer[1][1] /\ k[2] = offer[1][2])
        BY <1>2, <2>1, <3>2
      <4>2. table[k[1]][k[2]] # Absent
        BY <1>2, <2>1, <2>3, <4>1 DEF Moves
      <4>3. PICK i \in DOMAIN inserted : inserted[i] = k
        BY <4>2 DEF RowsInserted, Status
      <4> QED  BY <2>2, <4>3
    <3> QED  BY <3>1, <3>2
  <2> QED  BY <2>3 DEF RowsInserted, Status
<1>4. CASE ~AcceptNew
  <2>1. inserted' = inserted
    BY <1>4 DEF Next, EngineStep, vars, durable, table_vars, memory, Stop, StopOnBudget,
       StartProposing, NothingToPropose, ProposeSample, ProposeNoSample, ProposeSurvivor,
       ProposeNoSurvivor, WaitAtBarrier, AdvanceRung, ProposedEnough, AcceptDuplicate,
       AcceptDone, ClaimNext, RunBatch, ClaimedNothing, Complete, RetryLater,
       Fail, Observe, BatchDone, Finalise, Interrupt, Crash, Resume
  <2>2. \A r \in Rungs, a \in Archs : table'[r][a] # Absent => table[r][a] # Absent
    BY <1>1, <1>4, OnlyAcceptsAdd DEF SameRows
  <2> QED  BY <1>2, <2>1, <2>2 DEF RowsInserted, Status
<1> QED  BY <1>3, <1>4

\* The bracket of a step of the first process, against the books.
LEMMA BookStep ==
  ASSUME IInv, IInv', OneBracket, StatesClimbed, Balanced, FirstRun, [Next]_vars, FirstRun'
  PROVE  Booked(bracket', table', offer') /\ OffersNew(table', offer')
<1>1. /\ Booked(bracket, table, offer) /\ OffersNew(table, offer)
      /\ (pc = "loop" => offer = <<>>)
  BY DEF Balanced, PhasesOK
<1>2. /\ bracket \in Brackets /\ bracket' \in Brackets /\ offer \in Seq(Keys)
      /\ stream \in Seq(Archs) /\ TypeOK /\ TasksOK
  BY DEF IInv, TypeOK
<1>3. ~Resume /\ ~Finalise /\ ~Crash /\ ~Interrupt /\ ~StopOnBudget
  BY <1>2, FirstRunBack
<1>4. \A b : SameBook(b, b)
  BY DEF SameBook
<1>5. ASSUME SameRows(table, table'), offer' = offer
      PROVE  OffersNew(table', offer')
  <2>1. \A i \in DOMAIN offer : offer[i][1] \in Rungs /\ offer[i][2] \in Archs
    <3> TAKE i \in DOMAIN offer
    <3>1. offer[i] \in Keys
      BY <1>2, ElementOfSeq
    <3> QED  BY <3>1 DEF Keys
  <2> QED  BY <1>1, <1>5, <2>1 DEF OffersNew, SameRows
<1>6. ASSUME SameBook(bracket, bracket'), SameRows(table, table'), offer' = offer
      PROVE  Booked(bracket', table', offer') /\ OffersNew(table', offer')
  BY <1>1, <1>5, <1>6, BookedSame
<1>7. table' = table => SameRows(table, table')
  BY DEF SameRows
<1>8. ASSUME NEW r \in Rungs, NEW a \in Archs, table' = table,
             offer' = Append(offer, <<r, a>>), a \notin Entrants(bracket, r)
      PROVE  OffersNew(table', offer')
  <2>1. table[r][a] = Absent /\ ~Offered(offer, r, a) /\ <<r, a>> \in Keys
    BY <1>1, <1>8 DEF Booked, Keys
  <2>2. \A i \in DOMAIN offer : offer[i] # <<r, a>>
    BY <2>1 DEF Offered
  <2>3. Once(offer')
    BY <1>1, <1>2, <1>8, <2>1, <2>2, OnceAppend DEF OffersNew
  <2>4. /\ \A i \in DOMAIN offer : offer'[i] = offer[i]
        /\ offer'[Len(offer) + 1] = <<r, a>>
        /\ \A i \in DOMAIN offer' : i \in DOMAIN offer \/ i = Len(offer) + 1
    BY <1>2, <1>8, <2>1, SeqAppend
  <2>5. ASSUME NEW i \in DOMAIN offer' PROVE table'[offer'[i][1]][offer'[i][2]] = Absent
    <3>1. CASE i \in DOMAIN offer
      BY <1>1, <1>8, <2>4, <3>1 DEF OffersNew
    <3>2. CASE i = Len(offer) + 1
      BY <1>8, <2>1, <2>4, <3>2
    <3> QED  BY <2>4, <3>1, <3>2
  <2> QED  BY <2>3, <2>5 DEF OffersNew
<1>9. CASE ProposeSample
  <2> PICK i \in DOMAIN stream : /\ IsFirstDraw(bracket, stream, i)
                                 /\ bracket' = Sampled(bracket, stream, i)
                                 /\ offer' = Append(offer, <<bracket.current, stream[i]>>)
    BY <1>9 DEF ProposeSample, Entering
  <2>1. bracket.current = 0 /\ table' = table
    BY <1>9 DEF ProposeSample, durable, table_vars
  <2>2. stream[i] \in Archs /\ 0 \in Rungs
    BY <1>2, ElementOfSeq, RungsTyped
  <2>3. stream[i] \notin bracket.seen
    BY DEF IsFirstDraw, NextDraws
  <2>4. stream[i] \notin Entrants(bracket, 0)
    BY <1>1, <2>1, <2>3 DEF Booked
  <2>5. /\ bracket'.current = 0 /\ bracket'.rungs = WithEntrant(bracket, 0, stream[i])
        /\ bracket'.seen = bracket.seen \cup {stream[i]}
    BY <1>2, <2>1 DEF Sampled, Brackets
  <2>6. bracket.seen \subseteq bracket'.seen /\ stream[i] \in bracket'.seen
    BY <2>5
  <2>7. Booked(bracket', table, Append(offer, <<0, stream[i]>>))
    BY <1>1, <1>2, <2>1, <2>2, <2>4, <2>5, <2>6, BookedEnter
  <2> QED  BY <1>8, <2>1, <2>2, <2>4, <2>7
<1>10. CASE ProposeSurvivor
  <2> DEFINE r == bracket.current
             a == NextSurvivor(bracket, r)
             n == Len(bracket.rungs[r].proposed) + 1
  <2>1. /\ r \in Rungs \ {0} /\ SurvivorsLeft(bracket, r)
        /\ bracket' = Promoted(bracket, r)
        /\ offer' = Append(offer, <<r, a>>) /\ table' = table
    BY <1>2, <1>10, RungsTyped
    DEF ProposeSurvivor, Proposing, Entering, Brackets, durable, table_vars
  <2>2. r - 1 \in Rungs \ {Last} /\ a \in Archs /\ n \in DOMAIN bracket.rungs[r - 1].promoted
        /\ r - 1 < r /\ (r - 1) + 1 = r /\ a = bracket.rungs[r - 1].promoted[n]
    BY <1>2, <2>1, SurvivorTyped DEF Rungs, Last, NextSurvivor
  <2>3. bracket.rungs[r - 1].promoted = Best(score[r - 1], Sizes[r])
    BY <2>2 DEF StatesClimbed, Climbed
  <2>4. score[r - 1] \in [Archs -> Int] /\ Sizes[r] \in Nat
    <3>1. Results \subseteq Int
      BY HalvingAssumption DEF Results, Pending, None
    <3>2. score[r - 1] \in [Archs -> Results]
      BY <2>2 DEF IInv, TypeOK
    <3> QED  BY <2>1, <3>1, <3>2, RungsTyped
  <2>5. Once(bracket.rungs[r - 1].promoted)
    BY <2>3, <2>4, BestOnce
  <2>6. a \notin Entrants(bracket, r)
    <3> SUFFICES ASSUME NEW i \in DOMAIN bracket.rungs[r].proposed,
                        bracket.rungs[r].proposed[i] = a
                 PROVE  FALSE
      BY DEF Entrants
    <3>1. /\ i \in DOMAIN bracket.rungs[r - 1].promoted
          /\ bracket.rungs[r - 1].promoted[i] = a
      BY <1>1, <2>1 DEF Booked
    <3>2. i = n
      BY <2>2, <2>5, <3>1 DEF Once
    <3>3. bracket.rungs[r].proposed \in Seq(Archs)
      BY <1>2, <2>1 DEF Brackets, RungStates
    <3>4. i \in 1 .. Len(bracket.rungs[r].proposed) /\ Len(bracket.rungs[r].proposed) \in Nat
      BY <3>3, LenProperties
    <3> QED  BY <3>2, <3>4
  <2>7. /\ bracket'.current = r /\ bracket'.rungs = WithEntrant(bracket, r, a)
        /\ bracket'.seen = bracket.seen
    BY <1>2, <2>1 DEF Promoted, Brackets
  <2> HIDE DEF r, a, n
  <2>8. Booked(bracket', table, Append(offer, <<r, a>>))
    BY <1>1, <1>2, <2>1, <2>2, <2>6, <2>7, BookedEnter DEF r, n
  <2> QED  BY <1>8, <2>1, <2>2, <2>6, <2>8
<1>11. CASE ProposeNoSample
  <2>1. SameBook(bracket, bracket') /\ table' = table /\ offer' = offer
    BY <1>2, <1>11 DEF ProposeNoSample, SamplerDry, Brackets, SameBook, durable, table_vars
  <2> QED  BY <1>6, <1>7, <2>1
<1>12. CASE AdvanceRung
  <2>1. /\ bracket.current \in Rungs /\ bracket' = Advanced(bracket)
        /\ table' = table /\ offer' = offer
    BY <1>2, <1>12, RungsTyped DEF AdvanceRung, Proposing, Brackets, durable, table_vars
  <2>2. Booked(bracket', table', offer')
    BY <1>1, <1>2, <2>1, BookedAdvanced
  <2> QED  BY <1>5, <1>7, <2>1, <2>2
<1>13. CASE AcceptDuplicate
  <2>1. 1 \in DOMAIN offer /\ Head(offer) = offer[1]
    BY <1>2, <1>13, SeqTail DEF AcceptDuplicate
  <2> QED  BY <1>1, <1>13, <2>1 DEF AcceptDuplicate, OffersNew, Status
<1>14. CASE AcceptNew
  <2>1. /\ offer # <<>> /\ offer' = Tail(offer) /\ bracket' = bracket
        /\ Head(offer) = offer[1] /\ Moves(Head(offer), "QUEUED")
        /\ table[Head(offer)[1]][Head(offer)[2]] = Absent
    BY <1>2, <1>14, AcceptMoves, SeqTail DEF AcceptNew
  <2>2. \A r \in Rungs, a \in Archs :
           table'[r][a] # Absent <=>
               table[r][a] # Absent \/ (r = Head(offer)[1] /\ a = Head(offer)[2])
    BY <2>1 DEF Moves, Absent
  <2> QED  BY <1>1, <1>2, <2>1, <2>2, BookedAccept
<1>15. CASE Observe
  <2>1. /\ tasks \in Seq(Keys) /\ tasks # <<>> /\ table' = table /\ offer' = offer
        /\ Status(tasks[1]) \in Closed
    BY <1>2, <1>15 DEF TypeOK, TasksOK, Observe, durable, table_vars
  <2>2. Head(tasks)[1] \in Rungs /\ Head(tasks)[2] \in Archs /\ Head(tasks) = tasks[1]
    BY <2>1, HeadTail DEF Keys
  <2>3. score[Head(tasks)[1]][Head(tasks)[2]] \in Results
    BY <1>2, <2>2 DEF TypeOK
  <2>4. table[Head(tasks)[1]][Head(tasks)[2]] # Absent
    BY <2>1, <2>2 DEF Status, Closed, Absent
  <2>5. Head(tasks)[2] \in Entrants(bracket, Head(tasks)[1])
    BY <1>1, <2>2, <2>4 DEF Booked
  <2>6. SameBook(bracket, bracket')
    BY <1>2, <1>15, <2>2, <2>3, <2>5, ObservedBook DEF Observe
  <2> QED  BY <1>6, <1>7, <2>1, <2>6
<1>16. CASE ClaimNext \/ Complete \/ RetryLater \/ Fail
  <2>1. SameRows(table, table')
    <3>1. ~AcceptNew
      BY <1>2, <1>16 DEF ClaimNext, Complete, RetryLater, Fail, AcceptNew
    <3> QED  BY <1>2, <3>1, OnlyAcceptsAdd
  <2>2. bracket' = bracket /\ offer' = offer
    BY <1>16 DEF ClaimNext, Complete, RetryLater, Fail, memory
  <2> QED  BY <1>4, <1>6, <2>1, <2>2
<1>17. CASE StartProposing
  <2>1. offer' = offer /\ bracket' = bracket /\ table' = table
    BY <1>1, <1>17 DEF StartProposing, durable, table_vars
  <2> QED  BY <1>4, <1>6, <1>7, <2>1
<1>18. CASE UNCHANGED <<bracket, offer, table>>
  BY <1>4, <1>6, <1>7, <1>18
<1>19. \/ UNCHANGED <<bracket, offer, table>>
       \/ ProposeSample \/ ProposeNoSample \/ ProposeSurvivor \/ AdvanceRung
       \/ AcceptDuplicate \/ AcceptNew \/ Observe \/ StartProposing
       \/ ClaimNext \/ Complete \/ RetryLater \/ Fail
  BY <1>3 DEF Next, EngineStep, vars, durable, table_vars, memory, NothingToPropose,
         ProposeNoSurvivor, WaitAtBarrier, ProposedEnough, AcceptDone, RunBatch,
         ClaimedNothing, BatchDone
<1> QED  BY <1>9, <1>10, <1>11, <1>12, <1>13, <1>14, <1>15, <1>16, <1>17, <1>18, <1>19

\* The results of c are those of b.
SameResults(b, c) == \A r \in Rungs : c.rungs[r].results = b.rungs[r].results

NoneCloses(t, u) == \A r \in Rungs, a \in Archs : u[r][a] \in Closed => t[r][a] \in Closed

\* Every step but Observe keeps the results.
LEMMA ResultsKept ==
  ASSUME TypeOK, [Next]_vars, ~Observe, ~Resume
  PROVE  SameResults(bracket, bracket')
<1>1. bracket \in Brackets /\ stream \in Seq(Archs) /\ offer \in Seq(Keys)
  BY DEF TypeOK
<1>2. CASE bracket' = bracket
  BY <1>2 DEF SameResults
<1>3. CASE ProposeSample
  BY <1>1, <1>3, SampledTyped DEF ProposeSample, SameReports, SameResults
<1>4. CASE ProposeNoSample
  BY <1>1, <1>4, DryTyped DEF ProposeNoSample, SameReports, SameResults
<1>5. CASE ProposeSurvivor
  <2>1. bracket.current \in Rungs \ {0} /\ SurvivorsLeft(bracket, bracket.current)
    BY <1>1, <1>5, RungsTyped DEF ProposeSurvivor, Proposing, Brackets
  <2> QED  BY <1>1, <1>5, <2>1, SurvivorTyped, PromotedTyped
           DEF ProposeSurvivor, SameReports, SameResults
<1>6. CASE AdvanceRung
  <2>1. bracket.current \in Rungs
    BY <1>1, <1>6, RungsTyped DEF AdvanceRung, Proposing, Brackets
  <2> QED  BY <1>1, <1>6, <2>1, AdvancedTyped DEF AdvanceRung, SameResults
<1>7. CASE AcceptDuplicate
  <2>1. Head(offer)[2] \in Archs
    BY <1>1, <1>7, HeadTail DEF AcceptDuplicate, Keys
  <2> QED  BY <1>1, <1>7, <2>1, DuplicatedTyped DEF AcceptDuplicate, SameReports, SameResults
<1>8. \/ bracket' = bracket
      \/ ProposeSample \/ ProposeNoSample \/ ProposeSurvivor \/ AdvanceRung
      \/ AcceptDuplicate
  BY DEF Next, EngineStep, vars, durable, table_vars, memory, Stop, StopOnBudget,
         StartProposing, NothingToPropose, ProposeNoSurvivor,
         WaitAtBarrier, ProposedEnough, AcceptNew,
         AcceptDone, ClaimNext, RunBatch, ClaimedNothing, Complete, RetryLater, Fail,
         BatchDone, Finalise, Interrupt, Crash
<1> QED  BY <1>2, <1>3, <1>4, <1>5, <1>6, <1>7, <1>8

LEMMA HeardStep ==
  ASSUME IInv, IInv', Balanced, FirstRun, [Next]_vars, FirstRun'
  PROVE  Heard'
<1>1. TypeOK /\ TasksOK /\ Heard /\ bracket \in Brackets /\ tasks \in Seq(Keys)
  BY DEF IInv, TypeOK, Balanced
<1>2. ~Resume /\ ~Finalise /\ ~Crash /\ ~Interrupt /\ ~StopOnBudget
  BY <1>1, FirstRunBack
<1>3. ASSUME SameResults(bracket, bracket')
      PROVE  \A r \in Rungs : Reported(bracket', r) = Reported(bracket, r)
  BY <1>3 DEF SameResults, Reported
<1>4. CASE Complete \/ Fail
  <2>1. SameResults(bracket, bracket')
    BY <1>1, <1>4, ResultsKept DEF Complete, Fail, Observe, Resume
  <2>2. /\ tasks[1] \in Keys /\ tasks[1] = <<tasks[1][1], tasks[1][2]>>
        /\ tasks[1][1] \in Rungs /\ tasks[1][2] \in Archs
        /\ tasks' = tasks /\ pc = "results" /\ pc' = "observe"
    BY <1>1, <1>4, ResultMoves DEF Complete, Fail, memory, Keys
  <2>3. \A r \in Rungs, a \in Archs :
           table'[r][a] \in Closed =>
               table[r][a] \in Closed \/ (r = tasks[1][1] /\ a = tasks[1][2])
    BY <1>1, <1>4, ResultMoves DEF Moves
  <2>4. score'[tasks[1][1]][tasks[1][2]] # Pending
    <3>1. \A v \in Scores : v # Pending
      BY HalvingAssumption DEF Pending
    <3>2. None # Pending
      BY DEF None, Pending
    <3>3. CASE Complete
      BY <1>1, <2>2, <3>1, <3>3, ResultMoves
    <3>4. CASE Fail
      BY <1>1, <2>2, <3>2, <3>4, ResultMoves
    <3> QED  BY <1>4, <3>3, <3>4
  <2> QED  BY <1>1, <1>3, <2>1, <2>2, <2>3, <2>4 DEF Heard
<1>5. CASE Observe
  <2>1. /\ tasks # <<>> /\ pc' = "results" /\ pc = "observe"
        /\ table' = table
    BY <1>1, <1>5 DEF TasksOK, Observe, durable, table_vars
  <2>2. Head(tasks)[1] \in Rungs /\ Head(tasks)[2] \in Archs /\ Head(tasks) = tasks[1]
    BY <1>1, <2>1, HeadTail DEF Keys
  <2> DEFINE r == Head(tasks)[1]
             a == Head(tasks)[2]
  <2>3. score[r][a] \in Results /\ score[r][a] # Pending
    BY <1>1, <2>1, <2>2 DEF TypeOK, Heard
  <2>4. bracket' = Observed(bracket, a, r, score[r][a])
    BY <1>5 DEF Observe
  <2> HIDE DEF r, a
  <2>5. r \in Rungs /\ a \in Archs
    BY <2>2 DEF r, a
  <2>6. \A q \in Rungs, c \in Archs :
           bracket'.rungs[q].results[c] =
               IF q = r /\ c = a THEN score[r][a] ELSE bracket.rungs[q].results[c]
    BY <1>1, <2>3, <2>4, <2>5, ObservedTyped
  <2>7. \A q \in Rungs, c \in Archs :
           c \in Reported(bracket', q) <=> c \in Reported(bracket, q) \/ (q = r /\ c = a)
    BY <2>3, <2>6 DEF Reported
  <2>8. \A q \in Rungs, c \in Archs : tasks[1] = <<q, c>> => q = r /\ c = a
    BY <2>2 DEF r, a
  <2> QED  BY <1>1, <2>1, <2>7, <2>8 DEF Heard
<1>6. CASE ~Complete /\ ~Fail /\ ~Observe
  <2>1. SameResults(bracket, bracket')
    BY <1>1, <1>2, <1>6, ResultsKept
  <2>2. NoneCloses(table, table')
    <3>1. CASE ~MovesARow
      BY <3>1, RowsQuiet DEF NoneCloses
    <3>2. CASE AcceptNew
      BY <1>1, <3>2, AcceptMoves DEF Moves, NoneCloses, Closed
    <3>3. CASE ClaimNext
      BY <1>1, <3>3, ClaimMoves DEF Moves, NoneCloses, Closed
    <3>4. CASE RetryLater
      BY <1>1, <3>4, ResultMoves DEF Moves, NoneCloses, Closed
    <3> QED  BY <1>2, <1>6, <3>1, <3>2, <3>3, <3>4 DEF MovesARow
  <2>3. CASE UNCHANGED vars
    BY <1>1, <2>3 DEF Heard, vars, durable, table_vars, memory, Reported
  <2>4. CASE ~(UNCHANGED vars)
    <3>1. pc # "observe" /\ pc' # "observe"
      BY <1>2, <1>6, <2>4 DEF Next, EngineStep, StartProposing, NothingToPropose,
         ProposeSample, ProposeNoSample, ProposeSurvivor, Proposing, ProposeNoSurvivor,
         WaitAtBarrier, AdvanceRung, ProposedEnough, AcceptDuplicate, AcceptNew,
         AcceptDone, ClaimNext, RunBatch, ClaimedNothing, RetryLater, BatchDone
    <3>2. \A r \in Rungs : Reported(bracket', r) = Reported(bracket, r)
      BY <1>3, <2>1
    <3> QED  BY <1>1, <2>2, <3>1, <3>2 DEF Heard, NoneCloses
  <2> QED  BY <2>3, <2>4
<1> QED  BY <1>4, <1>5, <1>6

\* What runs is in the batch that the engine waits for.
LEMMA RunningHeldStep ==
  ASSUME IInv, RunningHeld, [Next]_vars, FirstRun'
  PROVE  RunningHeld'
<1>1. TypeOK /\ TasksOK /\ tasks \in Seq(Keys)
  BY DEF IInv, TypeOK
<1>2. ~Resume /\ ~Finalise /\ ~Crash /\ ~Interrupt /\ ~StopOnBudget
  BY <1>1, FirstRunBack
<1>3. \A k \in Keys : k[1] \in Rungs /\ k[2] \in Archs /\ k = <<k[1], k[2]>>
  BY DEF Keys
<1>4. CASE ClaimNext
  <2> PICK k \in Keys : Moves(k, "RUNNING") /\ tasks' = Append(tasks, k)
    BY <1>1, <1>4, ClaimMoves
  <2>1. /\ \A i \in DOMAIN tasks : i \in DOMAIN tasks' /\ tasks'[i] = tasks[i]
        /\ Len(tasks) + 1 \in DOMAIN tasks' /\ tasks'[Len(tasks) + 1] = k
    BY <1>1, SeqAppend
  <2>2. ASSUME NEW j \in Keys, table'[j[1]][j[2]] = "RUNNING"
        PROVE  \E i \in DOMAIN tasks' : tasks'[i] = j
    <3>1. CASE j = k
      BY <2>1, <3>1
    <3>2. CASE j # k
      <4>1. table[j[1]][j[2]] = "RUNNING"
        BY <1>3, <2>2, <3>2 DEF Moves
      <4>2. PICK i \in DOMAIN tasks : tasks[i] = j
        BY <4>1 DEF RunningHeld, Status
      <4> QED  BY <2>1, <4>2
    <3> QED  BY <3>1, <3>2
  <2> QED  BY <2>2 DEF RunningHeld, Status
<1>5. CASE Complete \/ Fail
  <2>1. tasks' = tasks
    BY <1>5 DEF Complete, Fail, memory
  <2>2. \A r \in Rungs, a \in Archs : table'[r][a] = "RUNNING" => table[r][a] = "RUNNING"
    BY <1>1, <1>5, ResultMoves DEF Moves
  <2> QED  BY <1>3, <2>1, <2>2 DEF RunningHeld, Status
<1>6. CASE RetryLater \/ Observe
  <2>1. tasks # <<>> /\ tasks' = Tail(tasks)
    BY <1>1, <1>6 DEF RetryLater, Observe, TasksOK
  <2>2. \A i \in DOMAIN tasks :
           i = 1 \/ (i - 1 \in DOMAIN Tail(tasks) /\ tasks[i] = Tail(tasks)[i - 1])
    BY <1>1, <2>1, SeqTail
  <2>3. ASSUME NEW j \in Keys, table'[j[1]][j[2]] = "RUNNING"
        PROVE  table[j[1]][j[2]] = "RUNNING" /\ j # tasks[1]
    <3>1. CASE RetryLater
      BY <1>1, <1>3, <2>3, <3>1, ResultMoves DEF Moves
    <3>2. CASE Observe
      <4>1. table' = table /\ Status(tasks[1]) \in Closed
        BY <1>1, <3>2 DEF Observe, TasksOK, durable, table_vars
      <4> QED  BY <2>3, <4>1 DEF Status, Closed
    <3> QED  BY <1>6, <3>1, <3>2
  <2>4. ASSUME NEW j \in Keys, table'[j[1]][j[2]] = "RUNNING"
        PROVE  \E i \in DOMAIN tasks' : tasks'[i] = j
    <3>1. PICK i \in DOMAIN tasks : tasks[i] = j
      BY <2>3, <2>4 DEF RunningHeld, Status
    <3>2. i # 1
      BY <2>3, <2>4, <3>1
    <3> QED  BY <2>1, <2>2, <3>1, <3>2
  <2> QED  BY <2>4 DEF RunningHeld, Status
<1>7. CASE AcceptNew
  <2>1. \A r \in Rungs, a \in Archs : table'[r][a] = "RUNNING" => table[r][a] = "RUNNING"
    BY <1>1, <1>7, AcceptMoves DEF Moves
  <2> QED  BY <1>3, <1>7, <2>1 DEF RunningHeld, Status, AcceptNew
<1>8. CASE UNCHANGED <<table, tasks>>
  BY <1>8 DEF RunningHeld, Status
<1>9. \/ UNCHANGED <<table, tasks>>
      \/ ClaimNext \/ Complete \/ Fail \/ RetryLater \/ Observe \/ AcceptNew
  BY <1>2 DEF Next, EngineStep, vars, durable, table_vars, memory, StartProposing,
       NothingToPropose, ProposeSample, ProposeNoSample, ProposeSurvivor,
       ProposeNoSurvivor, WaitAtBarrier, AdvanceRung, ProposedEnough, AcceptDuplicate,
       AcceptDone, RunBatch, ClaimedNothing, BatchDone
<1> QED  BY <1>4, <1>5, <1>6, <1>7, <1>8, <1>9

\* A sequence without repetition is as long as its range.
LEMMA OnceRange ==
  ASSUME NEW S, NEW q \in Seq(S), Once(q)
  PROVE  LET R == {q[i] : i \in DOMAIN q} IN IsFiniteSet(R) /\ Cardinality(R) = Len(q)
<1> DEFINE R == {q[i] : i \in DOMAIN q}
           f == [i \in 1 .. Len(q) |-> q[i]]
<1>1. DOMAIN q = 1 .. Len(q) /\ Len(q) \in Nat
  BY LenProperties
<1>2. f \in Injection(1 .. Len(q), R)
  BY <1>1 DEF Injection, IsInjective, Once
<1>3. f \in Surjection(1 .. Len(q), R)
  BY <1>1 DEF Surjection
<1>4. IsFiniteSet(1 .. Len(q)) /\ Cardinality(1 .. Len(q)) = Len(q)
  BY <1>1, FS_Interval
<1> HIDE DEF f, R
<1>5. IsFiniteSet(R) /\ Cardinality(R) = Len(q)
  BY <1>2, <1>3, <1>4, FS_Surjection
<1> QED  BY <1>5 DEF R

\* If the rung still waits for a result, somebody that it proposed has none.
LEMMA SomebodyIsOut ==
  ASSUME NEW b \in Brackets, NEW r \in Rungs, Once(b.rungs[r].proposed),
         Outstanding(b, r) > 0
  PROVE  \E a \in Archs : a \in Entrants(b, r) /\ a \notin Reported(b, r)
<1>1. b.rungs[r].proposed \in Seq(Archs)
  BY DEF Brackets, RungStates
<1>2. IsFiniteSet(Entrants(b, r)) /\ Cardinality(Entrants(b, r)) = Len(b.rungs[r].proposed)
  BY <1>1, OnceRange DEF Entrants
<1>3. IsFiniteSet(Reported(b, r)) /\ Cardinality(Reported(b, r)) \in Nat
  BY HalvingAssumption, FS_Subset, FS_CardinalityType DEF Reported
<1>4. Entrants(b, r) \subseteq Archs
  BY <1>1, ElementOfSeq DEF Entrants
<1>5. Len(b.rungs[r].proposed) \in Nat
  BY <1>1, LenProperties
<1>6. ~(Entrants(b, r) \subseteq Reported(b, r))
  <2> SUFFICES ASSUME Entrants(b, r) \subseteq Reported(b, r) PROVE FALSE
    OBVIOUS
  <2>1. Cardinality(Entrants(b, r)) <= Cardinality(Reported(b, r))
    BY <1>3, FS_Subset
  <2> QED  BY <1>2, <1>3, <1>5, <2>1 DEF Outstanding
<1> QED  BY <1>4, <1>6

\* While the strategy waits at its barrier, what it waits for is queued or
\* about to be.
LEMMA WaitsForSomething ==
  ASSUME IInv, RowsInserted, Balanced, FirstRun, WaitAtBarrier
  PROVE  offer # <<>> \/ Queued
<1> DEFINE r == bracket.current
<1>1. bracket \in Brackets /\ offer \in Seq(Keys)
      /\ table \in [Rungs -> [Archs -> RowStates]] /\ pc = "propose"
  BY DEF IInv, TypeOK, WaitAtBarrier, Proposing
<1>2. r \in Rungs /\ Outstanding(bracket, r) > 0
  BY <1>1, RungsTyped DEF WaitAtBarrier, Proposing, Brackets
<1>3. Booked(bracket, table, offer) /\ Heard /\ RunningHeld
  BY DEF Balanced
<1> HIDE DEF r
<1>4. Once(bracket.rungs[r].proposed)
  BY <1>2, <1>3 DEF Booked
<1>5. PICK a \in Archs : a \in Entrants(bracket, r) /\ a \notin Reported(bracket, r)
  BY <1>1, <1>2, <1>4, SomebodyIsOut
<1>6. table[r][a] # Absent \/ Offered(offer, r, a)
  BY <1>2, <1>3, <1>5 DEF Booked
<1>7. CASE Offered(offer, r, a)
  <2>1. DOMAIN offer # {}
    BY <1>7 DEF Offered
  <2> QED  BY <2>1
<1>8. CASE table[r][a] # Absent
  <2>1. table[r][a] \notin Closed /\ table[r][a] \in RowStates
    BY <1>1, <1>2, <1>3, <1>5 DEF Heard
  <2>2. <<r, a>> \in Keys /\ Status(<<r, a>>) = table[r][a]
    BY <1>2 DEF Keys, Status
  <2>3. table[r][a] # "RUNNING"
    <3>1. tasks = <<>>
      BY <1>1 DEF IInv, TasksOK
    <3>2. DOMAIN tasks = {}
      BY <3>1
    <3> QED  BY <1>3, <2>2, <3>2 DEF RunningHeld
  <2>4. table[r][a] = "QUEUED"
    BY <1>8, <2>1, <2>3 DEF RowStates, Closed
  <2> QED  BY <1>8, <2>2, <2>4 DEF RowsInserted, Queued
<1> QED  BY <1>6, <1>7, <1>8

\* If nobody is left to promote and the rung has places, it was short.
LEMMA ShortOfSurvivors ==
  ASSUME IInv, StatesClimbed, ProposeNoSurvivor
  PROVE  Short
<1> DEFINE r == bracket.current
           res == score[r - 1]
           done == {a \in Archs : table[r - 1][a] = "COMPLETED"}
<1>1. bracket \in Brackets /\ score \in [Rungs -> [Archs -> Results]]
  BY DEF IInv, TypeOK
<1>2. /\ r \in Rungs \ {0} /\ ~Filled(bracket, r) /\ ~SurvivorsLeft(bracket, r)
  BY <1>1, RungsTyped DEF ProposeNoSurvivor, Proposing, Brackets
<1>3. r - 1 \in Rungs \ {Last} /\ r - 1 < r /\ (r - 1) + 1 = r /\ Sizes[r] \in Nat
  BY <1>2, RungsTyped DEF Rungs, Last
<1>4. bracket.rungs[r - 1].promoted = Best(res, Sizes[r])
  BY <1>3 DEF StatesClimbed, Climbed
<1>5. /\ bracket.rungs[r].proposed \in Seq(Archs)
      /\ bracket.rungs[r - 1].promoted \in Seq(Archs)
  BY <1>1, <1>2, <1>3 DEF Brackets, RungStates
<1>6. Len(Best(res, Sizes[r])) < Sizes[r]
  <2>1. /\ Len(bracket.rungs[r].proposed) \in Nat
        /\ Len(bracket.rungs[r - 1].promoted) \in Nat
    BY <1>5, LenProperties
  <2> HIDE DEF r, res
  <2>2. /\ Len(bracket.rungs[r].proposed) < Sizes[r]
        /\ Len(bracket.rungs[r - 1].promoted) <= Len(bracket.rungs[r].proposed)
    <3>1. /\ ~(Len(bracket.rungs[r].proposed) >= Sizes[r])
          /\ ~(Len(bracket.rungs[r].proposed) < Len(bracket.rungs[r - 1].promoted))
      BY <1>2, Zenon DEF Filled, SurvivorsLeft
    <3> QED  BY <1>3, <2>1, <3>1
  <2>3. Len(bracket.rungs[r - 1].promoted) < Sizes[r]
    BY <1>3, <2>1, <2>2
  <2> QED  BY <1>4, <2>3
<1>7. res \in [Archs -> Int]
  <2>1. Results \subseteq Int
    BY HalvingAssumption DEF Results, Pending, None
  <2>2. res \in [Archs -> Results]
    BY <1>1, <1>3
  <2> QED  BY <2>1, <2>2
<1>8. done \subseteq Successes(res)
  <2>1. \A a \in Archs : table[r - 1][a] = "COMPLETED" => res[a] \in Scores
    BY <1>3 DEF IInv, RowsScored
  <2>2. \A v \in Scores : v >= 0
    BY HalvingAssumption
  <2> QED  BY <2>1, <2>2 DEF Successes, Succeeded
<1> HIDE DEF res, done, r
<1>9. Cardinality(Successes(res)) < Sizes[r]
  BY <1>3, <1>6, <1>7, BestOnce
<1>10. IsFiniteSet(Successes(res)) /\ Cardinality(Successes(res)) \in Nat
  BY SuccessesFinite
<1>11. Cardinality(done) <= Cardinality(Successes(res)) /\ Cardinality(done) \in Nat
  BY <1>8, <1>10, FS_Subset, FS_CardinalityType
<1>12. Cardinality(done) < Sizes[r]
  BY <1>3, <1>9, <1>10, <1>11
<1> QED  BY <1>2, <1>12 DEF Short, r, done

\* A propose call is made for at least one candidate, or a row is queued.
LEMMA SlotsTyped ==
  /\ FreeSlots \in Nat
  /\ FreeSlots = 0 => \E k \in Keys : Status(k) = "QUEUED"
  /\ FreeSlots > 0 /\ CompletedCount < MaxEvaluations => WantedProposals >= 1
<1>1. IsFiniteSet(Keys)
  <2>1. IsFiniteSet(Rungs)
    BY HalvingAssumption, FS_Interval DEF Rungs
  <2> QED  BY <2>1, HalvingAssumption, FS_Product DEF Keys
<1>2. \A s : IsFiniteSet(InStatus(s)) /\ Cardinality(InStatus(s)) \in Nat
  <2> TAKE s
  <2>1. InStatus(s) \subseteq Keys
    BY DEF InStatus
  <2> QED  BY <1>1, <2>1, FS_Subset, FS_CardinalityType
<1>3. Cardinality(InStatus("QUEUED")) \in Nat /\ CompletedCount \in Nat
  BY <1>2 DEF CompletedCount
<1>4. InFlight \in Nat \ {0} /\ MaxEvaluations \in Nat
  BY HalvingSearchAssumption
<1>5. FreeSlots \in Nat
  BY <1>3, <1>4 DEF FreeSlots
<1>6. ASSUME FreeSlots = 0 PROVE \E k \in Keys : Status(k) = "QUEUED"
  <2>1. Cardinality(InStatus("QUEUED")) # 0
    BY <1>3, <1>4, <1>6 DEF FreeSlots
  <2>2. InStatus("QUEUED") # {}
    BY <2>1, FS_EmptySet
  <2> QED  BY <2>2 DEF InStatus
<1>7. ASSUME FreeSlots > 0, CompletedCount < MaxEvaluations PROVE WantedProposals >= 1
  <2> HIDE DEF FreeSlots, CompletedCount
  <2> QED  BY <1>3, <1>4, <1>5, <1>7 DEF WantedProposals
<1> QED  BY <1>5, <1>6, <1>7

\* The phases of a search that was not resumed: when the engine has nothing
\* to run, the strategy is through, or its rung was short.
LEMMA PhasesStep ==
  ASSUME IInv, RowsInserted, StatesClimbed, Balanced, FirstRun, [Next]_vars, FirstRun'
  PROVE  PhasesOK'
<1>1. /\ TypeOK /\ TasksOK /\ bracket \in Brackets /\ offer \in Seq(Keys)
      /\ tasks \in Seq(Keys) /\ PhasesOK
  BY DEF IInv, TypeOK, Balanced
<1>2. ~Resume /\ ~Finalise /\ ~Crash /\ ~Interrupt /\ ~StopOnBudget
  BY <1>1, FirstRunBack
<1>3. ASSUME UNCHANGED <<table, inserted, bracket>>
      PROVE  (Busy => Busy') /\ (Queued => Queued')
  BY <1>3 DEF Busy, Queued, Short, Status
<1>4. CASE StartProposing
  <2>1. wanted' >= 1
    BY <1>4, SlotsTyped DEF StartProposing
  <2> QED  BY <1>4, <2>1 DEF StartProposing, PhasesOK
<1>5. CASE NothingToPropose
  <2>1. FreeSlots = 0 => Queued
    <3> SUFFICES ASSUME FreeSlots = 0 PROVE Queued
      OBVIOUS
    <3>1. PICK k \in Keys : Status(k) = "QUEUED"
      BY SlotsTyped
    <3>2. PICK i \in DOMAIN inserted : inserted[i] = k
      BY <3>1 DEF RowsInserted, Absent
    <3> QED  BY <3>1, <3>2 DEF Queued
  <2>2. Busy
    BY <1>5, <2>1 DEF NothingToPropose, Busy
  <2>3. /\ pc' = "claim" /\ pc = "loop"
        /\ UNCHANGED <<table, inserted, bracket, offer, tasks, wanted>>
    BY <1>5 DEF NothingToPropose, durable, table_vars, memory
  <2> QED  BY <1>1, <1>3, <2>2, <2>3 DEF PhasesOK
<1>6. CASE ProposeSample \/ ProposeSurvivor
  <2>1. pc' = "propose" /\ pc = "propose" /\ wanted' = wanted
    BY <1>6 DEF ProposeSample, ProposeSurvivor, Proposing
  <2> QED  BY <1>1, <2>1 DEF PhasesOK
<1>7. CASE ProposeNoSample
  <2>1. pc' = "accept" /\ bracket'.exhausted
    BY <1>1, <1>7 DEF ProposeNoSample, SamplerDry, Brackets
  <2> QED  BY <2>1 DEF PhasesOK, Busy, Finished
<1>8. CASE ProposeNoSurvivor
  <2>1. Short /\ pc' = "accept"
    BY <1>8, ShortOfSurvivors DEF ProposeNoSurvivor
  <2>2. UNCHANGED <<table, inserted, bracket>>
    BY <1>8 DEF ProposeNoSurvivor, durable, table_vars, memory
  <2>3. Busy'
    BY <1>3, <2>1, <2>2 DEF Busy
  <2> QED  BY <2>1, <2>3 DEF PhasesOK
<1>9. CASE WaitAtBarrier
  <2>1. offer # <<>> \/ Queued
    BY <1>9, WaitsForSomething
  <2>2. pc' = "accept" /\ UNCHANGED <<table, inserted, bracket, offer>>
    BY <1>9 DEF WaitAtBarrier, durable, table_vars, memory
  <2>3. offer' # <<>> \/ Busy'
    BY <1>3, <2>1, <2>2 DEF Busy
  <2> QED  BY <2>2, <2>3 DEF PhasesOK
<1>10. CASE AdvanceRung
  <2>1. pc = "propose" /\ wanted' = wanted
        /\ pc' = IF bracket'.exhausted \/ bracket'.current = NumRungs THEN "accept" ELSE pc
    BY <1>10 DEF AdvanceRung, Proposing
  <2>2. pc' = "accept" => Finished(bracket')
    BY <2>1, HalvingAssumption DEF Finished
  <2>3. pc' \in {"propose", "accept"}
    BY <2>1
  <2> QED  BY <1>1, <2>1, <2>2, <2>3 DEF PhasesOK, Busy
<1>11. CASE ProposedEnough
  <2>1. /\ pc' = "accept" /\ pc = "propose"
        /\ UNCHANGED <<table, inserted, bracket, offer>>
    BY <1>11 DEF ProposedEnough, durable, table_vars, memory
  <2>2. offer # <<>> \/ Finished(bracket)
    <3>1. CASE Len(offer) = wanted
      <4>1. Len(offer) # 0
        BY <1>1, <2>1, <3>1 DEF PhasesOK
      <4> QED  BY <4>1
    <3>2. CASE bracket.exhausted \/ bracket.current >= NumRungs
      BY <3>2 DEF Finished
    <3> QED  BY <1>11, <3>1, <3>2 DEF ProposedEnough
  <2>3. offer' # <<>> \/ Busy'
    BY <1>3, <2>1, <2>2 DEF Busy
  <2> QED  BY <2>1, <2>3 DEF PhasesOK
<1>12. CASE AcceptDuplicate
  <2>1. 1 \in DOMAIN offer /\ Head(offer) = offer[1] /\ OffersNew(table, offer)
    BY <1>1, <1>12, SeqTail DEF AcceptDuplicate, Balanced
  <2> QED  BY <1>12, <2>1 DEF AcceptDuplicate, OffersNew, Status
<1>13. CASE AcceptNew
  <2>1. /\ pc' = "accept" /\ inserted' = Append(inserted, offer[1])
        /\ offer[1] \in Keys /\ Moves(offer[1], "QUEUED") /\ inserted \in Seq(Keys)
    BY <1>1, <1>13, AcceptMoves, HeadTail DEF AcceptNew, TypeOK
  <2>2. Len(inserted) + 1 \in DOMAIN inserted' /\ inserted'[Len(inserted) + 1] = offer[1]
    BY <2>1, SeqAppend
  <2>3. table'[offer[1][1]][offer[1][2]] = "QUEUED"
    BY <2>1 DEF Moves, Keys
  <2>4. Queued'
    BY <2>2, <2>3 DEF Queued, Status
  <2> QED  BY <2>1, <2>4 DEF PhasesOK, Busy
<1>14. CASE AcceptDone
  <2>1. /\ pc' = "claim" /\ pc = "accept" /\ offer = <<>>
        /\ UNCHANGED <<table, inserted, bracket, offer>>
    BY <1>14 DEF AcceptDone, durable, table_vars, memory
  <2>2. Busy'
    BY <1>1, <1>3, <2>1 DEF PhasesOK
  <2> QED  BY <2>1, <2>2 DEF PhasesOK
<1>15. CASE ClaimNext
  <2>1. pc = "claim" /\ pc' = "claim" /\ offer' = offer
    BY <1>15 DEF ClaimNext
  <2>2. \E k \in Keys : tasks' = Append(tasks, k)
    BY <1>1, <1>15, ClaimMoves
  <2>3. tasks' # <<>>
    BY <1>1, <2>2
  <2> QED  BY <1>1, <2>1, <2>3 DEF PhasesOK
<1>16. CASE RunBatch \/ Complete \/ RetryLater \/ Fail \/ Observe
  <2>1. pc \in {"claim", "results", "observe"} /\ pc' \in {"results", "observe"}
        /\ offer' = offer
    BY <1>16 DEF RunBatch, Complete, RetryLater, Fail, Observe, memory
  <2> QED  BY <1>1, <2>1 DEF PhasesOK
<1>17. CASE ClaimedNothing \/ BatchDone
  <2>1. pc \in {"claim", "results"} /\ pc' \in {"loop", "save"} /\ offer' = offer
    BY <1>17 DEF ClaimedNothing, BatchDone, memory
  <2> QED  BY <1>1, <2>1 DEF PhasesOK
<1>18. CASE UNCHANGED vars
  <2>1. UNCHANGED <<table, inserted, bracket, offer, tasks, wanted, pc>>
    BY <1>18 DEF vars, durable, table_vars, memory
  <2> QED  BY <1>1, <1>3, <2>1 DEF PhasesOK
<1> QED  BY <1>2, <1>4, <1>5, <1>6, <1>7, <1>8, <1>9, <1>10, <1>11, <1>12, <1>13, <1>14,
            <1>15, <1>16, <1>17, <1>18 DEF Next, EngineStep

\* The reason of a stop, when it is set and as long as it stands.
LEMMA ReasonStep ==
  ASSUME IInv, Balanced, ReasonOK, [Next]_vars
  PROVE  ReasonOK'
<1>1. TypeOK
  BY DEF IInv
<1> DEFINE Said == {"STRATEGY_FINISHED", "SPACE_EXHAUSTED"}
<1>2. CASE ClaimedNothing
  <2>1. /\ pc = "claim" /\ tasks = <<>> /\ ~Queued
        /\ UNCHANGED <<table, bracket, resumes>>
    BY <1>2 DEF ClaimedNothing, durable, table_vars
  <2>2. reason \notin Said
    BY <2>1 DEF ReasonOK
  <2>3. \/ Finished(bracket) /\ reason' = "STRATEGY_FINISHED" /\ pc' = "save"
        \/ ~Finished(bracket) /\ reason' = "SPACE_EXHAUSTED" /\ pc' = "save"
        \/ reason' = reason
    BY <1>2 DEF ClaimedNothing
  <2>4. ~Finished(bracket) /\ resumes = 0 => Short
    BY <2>1 DEF Balanced, FirstRun, PhasesOK, Busy
  <2>5. Short' <=> Short
    BY <2>1 DEF Short
  <2>6. Finished(bracket') <=> Finished(bracket)
    BY <2>1
  <2>7. CASE reason' = "STRATEGY_FINISHED"
    BY <2>2, <2>3, <2>6, <2>7 DEF ReasonOK
  <2>8. CASE reason' = "SPACE_EXHAUSTED"
    BY <2>1, <2>2, <2>3, <2>4, <2>5, <2>8 DEF ReasonOK
  <2>9. CASE reason' \notin Said
    BY <2>9 DEF ReasonOK
  <2> QED  BY <2>7, <2>8, <2>9
<1>3. CASE StopOnBudget \/ Interrupt \/ Resume
  <2>1. reason' \notin Said
    BY <1>3 DEF StopOnBudget, Interrupt, Resume, Stop
  <2> QED  BY <2>1 DEF ReasonOK
<1>4. CASE Finalise \/ Crash \/ UNCHANGED vars
  <2>1. /\ pc' = pc \/ pc' \in {"stopped", "down"}
        /\ UNCHANGED <<table, bracket, reason, resumes>>
    BY <1>4 DEF Finalise, Crash, vars, durable, table_vars, memory
  <2>2. Short' <=> Short
    BY <2>1 DEF Short
  <2> QED  BY <2>1, <2>2 DEF ReasonOK
<1>5. CASE ~ClaimedNothing /\ ~StopOnBudget /\ ~Interrupt /\ ~Resume /\ ~Finalise
           /\ ~Crash /\ ~(UNCHANGED vars)
  <2>1. pc \notin {"save", "stopped", "down"} /\ reason' = reason
    BY <1>5 DEF Next, EngineStep, StartProposing, NothingToPropose, ProposeSample,
         ProposeNoSample, ProposeSurvivor, Proposing, ProposeNoSurvivor, WaitAtBarrier,
         AdvanceRung, ProposedEnough, AcceptDuplicate, AcceptNew, AcceptDone, ClaimNext,
         RunBatch, Complete, RetryLater, Fail, Observe, BatchDone, memory
  <2>2. reason' \notin Said
    BY <2>1 DEF ReasonOK
  <2> QED  BY <2>2 DEF ReasonOK
<1> QED  BY <1>2, <1>3, <1>4, <1>5

-----------------------------------------------------------------------------
(***************************************************************************)
(* Why a search stops.                                                     *)
(***************************************************************************)
Bookkeeping == StatesClimbed /\ RowsInserted /\ Balanced /\ ReasonOK

LEMMA BookkeepingInit == Init => Bookkeeping
<1> SUFFICES ASSUME Init PROVE Bookkeeping
  OBVIOUS
<1>1. StatesClimbed
  BY ClimbedFresh DEF Init, StatesClimbed
<1>2. RowsInserted /\ ReasonOK
  BY DEF Init, RowsInserted, Status, Keys, ReasonOK
<1>3. \A r \in Rungs : FreshBracket.rungs[r] = EmptyRung
  BY DEF FreshBracket
<1>4. \A r \in Rungs : FreshBracket.rungs[r].proposed = <<>> /\ Entrants(FreshBracket, r) = {}
  BY <1>3 DEF EmptyRung, Entrants
<1>5. \A r, a : ~Offered(<<>>, r, a)
  BY DEF Offered
<1>6. Once(<<>>)
  BY DEF Once
<1>7. Booked(FreshBracket, table, <<>>)
  <2>1. \A r \in Rungs, a \in Archs : table[r][a] = Absent
    BY DEF Init
  <2>2. DOMAIN FreshBracket.rungs[0].proposed = {} /\ DOMAIN <<>> = {}
    BY <1>4, RungsTyped
  <2>3. ASSUME NEW r \in Rungs \ {0}, NEW i \in DOMAIN FreshBracket.rungs[r].proposed
        PROVE  FALSE
    BY <1>4, <2>2, <2>3
  <2>4. Entrants(FreshBracket, 0) \subseteq FreshBracket.seen
    BY <1>4, RungsTyped
  <2> QED  BY <1>4, <1>5, <1>6, <2>1, <2>3, <2>4, Zenon DEF Booked
<1>8. OffersNew(table, <<>>)
  BY <1>6 DEF OffersNew
<1>9. Heard /\ RunningHeld /\ PhasesOK
  BY DEF Init, Heard, RunningHeld, PhasesOK, Status, Keys, Closed, Absent
<1>10. Balanced
  BY <1>7, <1>8, <1>9 DEF Balanced, Init
<1> QED  BY <1>1, <1>2, <1>10 DEF Bookkeeping

LEMMA BookkeepingStep ==
  IInv /\ OneBracket /\ Bookkeeping /\ [Next]_vars => Bookkeeping'
<1> SUFFICES ASSUME IInv, OneBracket, Bookkeeping, [Next]_vars PROVE Bookkeeping'
  OBVIOUS
<1>1. IInv'
  BY InvStep
<1>2. StatesClimbed' /\ RowsInserted' /\ ReasonOK'
  BY <1>1, StatesClimbedStep, RowsInsertedStep, ReasonStep DEF Bookkeeping
<1>3. Balanced'
  <2> SUFFICES ASSUME FirstRun'
               PROVE  /\ Booked(bracket', table', offer') /\ OffersNew(table', offer')
                      /\ Heard' /\ RunningHeld' /\ PhasesOK'
    BY DEF Balanced
  <2>1. FirstRun
    BY FirstRunBack DEF IInv
  <2>2. Booked(bracket', table', offer') /\ OffersNew(table', offer')
    BY <1>1, <2>1, BookStep DEF Bookkeeping
  <2>3. Heard' /\ PhasesOK'
    BY <1>1, <2>1, HeardStep, PhasesStep DEF Bookkeeping
  <2>4. RunningHeld'
    BY <2>1, RunningHeldStep DEF Bookkeeping, Balanced
  <2> QED  BY <2>2, <2>3, <2>4
<1> QED  BY <1>2, <1>3 DEF Bookkeeping

\* In every search that was not resumed, rows, offers and entrants balance;
\* in every search, a strategy state has climbed over decided rungs only.
THEOREM BooksBalance == Spec => [](IInv /\ OneBracket /\ Bookkeeping)
<1>1. Init => IInv /\ OneBracket /\ Bookkeeping
  BY InvInit, OneBracketInit, BookkeepingInit
<1>2. IInv /\ OneBracket /\ Bookkeeping /\ [Next]_vars
         => (IInv /\ OneBracket /\ Bookkeeping)'
  BY InvStep, OneBracketStep, BookkeepingStep
<1> QED  BY <1>1, <1>2, PTL DEF Spec

\* What a strategy that says it is finished has seen, in the rows.
LEMMA FinishedHasClimbed ==
  ASSUME IInv, StatesClimbed, Finished(bracket)
  PROVE  \/ \E a \in Archs : table[Last][a] \in {"COMPLETED", "FAILED"}
         \/ \E r \in Rungs : Rows(r) # {} /\ \A a \in Rows(r) : table[r][a] = "FAILED"
         \/ Cardinality({stream[i] : i \in DOMAIN stream}) < Sizes[0]
<1>1. bracket \in Brackets /\ Climbed(bracket, stream, table, score)
  BY DEF IInv, TypeOK, StatesClimbed
<1>2. CASE bracket.exhausted
  <2>1. CASE Dry(stream)
    BY <2>1 DEF Dry
  <2>2. ASSUME NEW r \in Rungs, Barren(table, r)
        PROVE  Rows(r) # {} /\ \A a \in Rows(r) : table[r][a] = "FAILED"
    <3>1. Rows(r) = TakenAt(table, r)
      BY DEF Rows, TakenAt
    <3>2. Cardinality(TakenAt(table, r)) # 0
      BY <2>2, RungsTyped DEF Barren, Decided
    <3>3. TakenAt(table, r) # {}
      BY <3>2, FS_EmptySet
    <3> QED  BY <2>2, <3>1, <3>3 DEF Barren
  <2> QED  BY <1>1, <1>2, <2>1, <2>2 DEF Climbed
<1>3. CASE bracket.current >= NumRungs
  <2>1. bracket.current = NumRungs
    BY <1>1, <1>3, RungsTyped DEF Brackets
  <2> QED  BY <1>1, <2>1 DEF Climbed, Closed
<1>4. CASE Filled(bracket, Last) /\ Outstanding(bracket, Last) = 0
  <2>1. Last \in Rungs
    BY HalvingAssumption DEF Last, Rungs
  <2>2. bracket.rungs[Last].proposed \in Seq(Archs) /\ Sizes[Last] \in Nat \ {0}
    BY <1>1, <2>1, RungsTyped DEF Brackets, RungStates
  <2>3. IsFiniteSet(Reported(bracket, Last)) /\ Cardinality(Reported(bracket, Last)) \in Nat
    BY HalvingAssumption, FS_Subset, FS_CardinalityType DEF Reported
  <2>4. Cardinality(Reported(bracket, Last)) # 0
    <3>1. Len(bracket.rungs[Last].proposed) \in Nat
      BY <2>2, LenProperties
    <3> QED  BY <1>4, <2>2, <2>3, <3>1 DEF Filled, Outstanding
  <2>5. PICK a \in Reported(bracket, Last) : TRUE
    BY <2>4, FS_EmptySet
  <2>6. a \in Archs /\ table[Last][a] \in Closed
    BY <2>1, <2>5 DEF IInv, StatesAgree, Agrees, Reported
  <2> QED  BY <2>6 DEF Closed
<1> QED  BY <1>2, <1>3, <1>4 DEF Finished

\* A search never stops half-way up its bracket without a reason that the rows
\* show: without a resume it gives up only over a rung that got too few
\* survivors, and it says that its strategy finished, after whatever crashes
\* and resumes, only at the last rung, at a rung without a survivor, or in a
\* space that is smaller than rung 0.
THEOREM NoStopWithoutAReason == Spec => []StopsForAReason
<1>1. ASSUME IInv, Bookkeeping PROVE StallsOnlyWhenShort
  BY <1>1 DEF Bookkeeping, ReasonOK, StallsOnlyWhenShort, Short
<1>2. ASSUME IInv, Bookkeeping PROVE FinishedMeansClimbed
  BY <1>2, FinishedHasClimbed DEF Bookkeeping, ReasonOK, FinishedMeansClimbed
<1>3. IInv /\ Bookkeeping => StopsForAReason
  BY <1>1, <1>2 DEF StopsForAReason
<1> QED  BY <1>3, BooksBalance, PTL
=============================================================================
