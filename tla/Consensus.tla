----------------------------- MODULE Consensus -----------------------------
(***************************************************************************)
(* The consensus of an ensemble about one attribute                        *)
(* (src/app/domain/consistency.py, src/app/services/occupation.py): the    *)
(* answers are clustered by meaning, each with the first cluster whose     *)
(* leader it agrees with, and the largest cluster is surfaced if it holds  *)
(* half of the runs.  A place is first looked for at the finest level that *)
(* half of the runs share.                                                 *)
(*                                                                         *)
(* An age agrees within a tolerance, an income by its bracket as the other *)
(* attributes do by their value, an occupation if a judge says so, and of  *)
(* a place only the names count, from the country down.                    *)
(***************************************************************************)
EXTENDS Integers, FiniteSets, FiniteSetsExt, Sequences

CONSTANTS
    Ensembles,  \* values of n_runs
    Ages,       \* estimates the model may answer
    Tolerance,  \* _AGE_TOLERANCE
    Labels,     \* income brackets, occupations
    Places,     \* sequences of names, from the country down
    Finest,     \* the finest level of a location and of a birthplace
    NoName,     \* a level the model did not name
    MaxStated   \* stated confidences are 0..MaxStated, in tenths

Geo == {"location", "birthplace"}

ASSUME EnsemblesAssumption == Ensembles \subseteq Nat \ {0}
ASSUME AgesAssumption == Ages \subseteq Int /\ Tolerance \in Nat /\ MaxStated \in Nat
ASSUME PlacesAssumption ==
    Finest \in [Geo -> Nat] /\ \A p \in Places, g \in Geo: 1..Finest[g] \subseteq DOMAIN p

VARIABLES
    attribute,  \* "age", "income", "occupation", "location" or "birthplace"
    n,          \* n_runs
    phase,      \* "runs", "scan", "cluster", "done"
    answers,    \* run -> its first guess for the attribute, or NoGuess
    level,      \* the level of a place under scan, or chosen
    shared,     \* the runs that share the place at the chosen level
    queue,      \* runs not clustered yet
    at,         \* the cluster the first of them is compared with
    clusters,   \* sequence of [leader, members]
    consensus   \* sequence of candidates [support, value, raw]; empty: abstained

consensusVars == <<attribute, n, phase, answers, level, shared, queue, at, clusters, consensus>>

Values == CASE attribute = "age" -> Ages
            [] attribute \in Geo -> Places
            [] OTHER -> Labels

NoGuess == [value |-> "none"]
Statements == [value: Values, stated: 0..MaxStated]
Guesses == {NoGuess} \cup Statements

ConsensusInit ==
    /\ attribute \in {"age", "income", "occupation"} \cup Geo
    /\ n \in Ensembles
    /\ phase = "runs"
    /\ answers = <<>>
    /\ level = 0 /\ shared = {}
    /\ queue = {} /\ at = 1
    /\ clusters = <<>>
    /\ consensus = <<>>

\* The runs that answered; the others count against every agreement.
Picks == {i \in DOMAIN answers: answers[i] # NoGuess}

\* A run of the ensemble: its first guess for the attribute, if it makes any.
Answer(guess) ==
    /\ phase = "runs"
    /\ Len(answers) < n
    /\ answers' = Append(answers, guess)
    /\ UNCHANGED <<attribute, n, phase, level, shared, queue, at, clusters, consensus>>

\* A candidate of a single run has the confidence that was stated.
AsStated(statement) ==
    [support |-> {1}, value |-> statement.value, raw |-> statement.stated]

\* What a guess may state after its first candidate: it has three at most.
Further == UNION {[1..k -> Statements]: k \in 0..2}

\* A single run is taken as it is, with all its candidates.
SingleRun ==
    /\ phase = "runs"
    /\ Len(answers) = n /\ n < 2
    /\ phase' = "done"
    /\ IF Picks = {} THEN consensus' = <<>>
       ELSE \E further \in Further:
                consensus' = <<AsStated(answers[1])>>
                             \o [k \in DOMAIN further |-> AsStated(further[k])]
    /\ UNCHANGED <<attribute, n, answers, level, shared, queue, at, clusters>>

\* aggregate, aggregate_occupation.
Aggregate ==
    /\ phase = "runs"
    /\ Len(answers) = n /\ n >= 2
    /\ IF attribute \in Geo
       THEN phase' = "scan" /\ level' = Finest[attribute] /\ queue' = queue
       ELSE phase' = "cluster" /\ queue' = Picks /\ level' = level
    /\ UNCHANGED <<attribute, n, answers, shared, at, clusters, consensus>>

\* Mutant: of the runs that answered.
HalfOfAnswers(members) == 2 * Cardinality(members) >= Cardinality(Picks)

\* At least ceil(n / 2) runs.
Half(members) == 2 * Cardinality(members) >= n

\* _geo_chain: the names down to level d.
Chain(i, d) == [k \in 1..d |-> answers[i].value[k]]

\* Mutant: the name of the level alone.
GroupByName(i, d) ==
    {j \in Picks: answers[j].value[d] = answers[i].value[d] /\ answers[j].value[d] # NoName}

\* The runs that place the user where run i does, at a level they name.
Group(i, d) == {j \in Picks: Chain(j, d) = Chain(i, d) /\ answers[j].value[d] # NoName}

\* Mutant: the group of the first run that answered.
LargestFirst(d) == Group(CHOOSE i \in Picks: \A j \in Picks: i <= j, d)

\* The largest group of a level, the first of equals.
Largest(d) ==
    Group(CHOOSE i \in Picks: \A j \in Picks:
            \/ Cardinality(Group(j, d)) < Cardinality(Group(i, d))
            \/ Cardinality(Group(j, d)) = Cardinality(Group(i, d)) /\ i <= j, d)

\* Mutant: a place asks for a majority.
PassedOverMajority(d) == Picks = {} \/ 2 * Cardinality(Largest(d)) <= n

\* Whether a level is passed over.
PassedOver(d) == Picks = {} \/ ~Half(Largest(d))

\* Mutant: all runs.
OthersAll(d) == Picks

\* The runs left for the runners-up.
Others(d) == Picks \ Largest(d)

\* _aggregate_geo, a level of the scan from the finest to the coarsest.  The others
\* are clustered then.
Scan ==
    /\ phase = "scan"
    /\ IF level = 0
       THEN phase' = "done" /\ UNCHANGED <<level, shared, queue>>
       ELSE IF PassedOver(level)
       THEN level' = level - 1 /\ UNCHANGED <<phase, shared, queue>>
       ELSE /\ phase' = "cluster"
            /\ shared' = Largest(level)
            /\ queue' = Others(level)
            /\ level' = level
    /\ UNCHANGED <<attribute, n, answers, at, clusters, consensus>>

First == CHOOSE i \in queue: \A j \in queue: i <= j

\* _agree: within the tolerance, or the same names.
Agree(i, j) ==
    LET a == answers[i].value  b == answers[j].value IN
    IF attribute = "age" THEN a - b <= Tolerance /\ b - a <= Tolerance ELSE a = b

\* Mutant: an answer also joins where it agrees with any member.
MayJoinChained(i, c, joins) ==
    attribute = "occupation" \/ (joins <=> \E j \in clusters[c].members: Agree(j, i))

\* The match rule against the leader; about occupations the judge may say anything.
MayJoin(i, c, joins) == attribute = "occupation" \/ (joins <=> Agree(clusters[c].leader, i))

\* _cluster: one comparison.
Compare(joins) ==
    /\ phase = "cluster" /\ queue # {}
    /\ at \in DOMAIN clusters
    /\ MayJoin(First, at, joins)
    /\ IF joins
       THEN /\ clusters' = [clusters EXCEPT ![at].members = @ \cup {First}]
            /\ queue' = queue \ {First}
            /\ at' = 1
       ELSE at' = at + 1 /\ UNCHANGED <<clusters, queue>>
    /\ UNCHANGED <<attribute, n, phase, answers, level, shared, consensus>>

NewCluster ==
    /\ phase = "cluster" /\ queue # {}
    /\ at \notin DOMAIN clusters
    /\ clusters' = Append(clusters, [leader |-> First, members |-> {First}])
    /\ queue' = queue \ {First}
    /\ at' = 1
    /\ UNCHANGED <<attribute, n, phase, answers, level, shared, consensus>>

\* The run with the highest stated confidence, the first of equals.
Representative(members) ==
    CHOOSE i \in members: \A j \in members:
        \/ answers[j].stated < answers[i].stated
        \/ answers[j].stated = answers[i].stated /\ i <= j

Stated(members) == MapThenSumSet(LAMBDA i: answers[i].stated, members)

\* Mutant: clusters stay in the order they were opened.
BeforeOpened(c, d) == c < d

\* _rank: larger clusters first, then the higher mean of stated confidences.
Before(c, d) ==
    LET C == clusters[c].members  D == clusters[d].members IN
    \/ Cardinality(C) > Cardinality(D)
    \/ Cardinality(C) = Cardinality(D) /\ Stated(C) > Stated(D)
    \/ Cardinality(C) = Cardinality(D) /\ Stated(C) = Stated(D) /\ c < d

\* The k-th cluster in that order.
Ranked(k) ==
    CHOOSE c \in DOMAIN clusters:
        Cardinality({d \in DOMAIN clusters: Before(d, c)}) = k - 1

\* The fraction of the runs that agree, in tenths.
Fraction(members) == (10 * Cardinality(members)) \div n

Candidate(members) ==
    [support |-> members, value |-> answers[Representative(members)].value,
     raw |-> Fraction(members)]

\* _geo_top_candidate: the place, cut at the chosen level.
PlaceCandidate ==
    [support |-> shared, value |-> Chain(Representative(shared), level),
     raw |-> Fraction(shared)]

\* The first candidates, at most three with what is there already.
Runners(already) ==
    [k \in 1..Min({Len(clusters), 3 - already}) |-> Candidate(clusters[Ranked(k)].members)]

\* build_consensus, and the candidates of a place.
Conclude ==
    /\ phase = "cluster" /\ queue = {}
    /\ phase' = "done"
    /\ consensus' =
         IF attribute \in Geo
         THEN <<PlaceCandidate>> \o Runners(1)
         ELSE IF clusters # <<>> /\ Half(clusters[Ranked(1)].members) THEN Runners(0)
         ELSE <<>>
    /\ UNCHANGED <<attribute, n, answers, level, shared, queue, at, clusters>>

Ensemble ==
    \/ \E guess \in Guesses: Answer(guess)
    \/ SingleRun \/ Aggregate \/ Scan
    \/ \E joins \in BOOLEAN: Compare(joins)
    \/ NewCluster \/ Conclude

-----------------------------------------------------------------------------
(* Properties *)

\* What is surfaced first is backed by at least half of all runs, silent ones included:
\* by answers that agree with one of them, or that name that very place.
SurfacedHasHalf ==
    phase = "done" /\ n > 1 /\ consensus # <<>> =>
        LET top == consensus[1] IN
        /\ top.support \subseteq Picks /\ 2 * Cardinality(top.support) >= n
        /\ attribute \in {"age", "income"} =>
               \E i \in top.support: \A j \in top.support: Agree(i, j)
        /\ attribute \in Geo =>
               \A j \in top.support: Chain(j, Len(top.value)) = top.value

\* An abstention is real: no value, and no place at any level, was named by half of the
\* runs.  (About occupations the judge decides what is the same.)
AbstentionIsDisagreement ==
    phase = "done" /\ n > 1 /\ consensus = <<>> =>
        /\ attribute \in {"age", "income"} =>
               \A i \in Picks: 2 * Cardinality({j \in Picks: answers[j].value = answers[i].value}) < n
        /\ attribute \in Geo =>
               \A i \in Picks, d \in 1..Finest[attribute]: 2 * Cardinality(Group(i, d)) < n

\* A place is reported at the finest level that half of the runs share, no coarser.
LevelIsFinest ==
    phase = "done" /\ n > 1 /\ attribute \in Geo /\ consensus # <<>> =>
        \A i \in Picks: \A d \in (Len(consensus[1].value) + 1)..Finest[attribute]:
            2 * Cardinality(Group(i, d)) < n

\* Every run of an ensemble counts for one candidate at most, so that the agreement
\* fractions add up to no more than one, and no candidate has more runs behind it than one
\* ranked above it.  (A single run is believed: its candidates come as it states them.)
CandidatesAreRanked ==
    n > 1 =>
        \A k, l \in DOMAIN consensus: k < l =>
            /\ consensus[k].support \cap consensus[l].support = {}
            /\ Cardinality(consensus[l].support) <= Cardinality(consensus[k].support)
=============================================================================
