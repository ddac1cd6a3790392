----------------------------- MODULE Normalize -----------------------------
(***************************************************************************)
(* What becomes of a value a model states in words                         *)
(* (src/app/domain/normalize.py, src/app/services/geocoding.py): a phrase  *)
(* is parsed by the rule of its attribute, a place is looked up, and a     *)
(* candidate that means nothing is dropped.                                *)
(*                                                                         *)
(* A phrase is what the parsers can find in the text:                      *)
(*   age, income  [decade, modifiers, figures, numerals, splits]: a decade *)
(*                that is named (0: none), the modifiers before it, "six   *)
(*                figures" (0: none), the numerals in order as <<digits,   *)
(*                unit>>, and of each range separator that occurs, in the  *)
(*                order they are tried, how many numerals are left of it   *)
(*   categories   [form, tokens, begins]: the whole, its tokens, and the   *)
(*                allowed values it begins with                            *)
(*   places       a sequence of names, as the commas part them             *)
(*   occupation   a text, or Blank                                         *)
(* Every operator gives the set of possible outcomes.  Ranges are left     *)
(* out: nothing is decided by them.                                        *)
(***************************************************************************)
EXTENDS Integers, Sequences, FiniteSets

CONSTANTS
    Categorical, \* the categorical attributes
    Allowed,     \* Allowed[a]: the values of a, in order
    Synonyms,    \* Synonyms[a]: word -> value
    Gazetteer,   \* names asked for -> [country, region, city, hood, precision]
    NoName,      \* a level of a place that has no name
    Blank,       \* an empty text
    Dropped      \* no value

Geo == {"location", "birthplace"}

ParseNumber(numeral) == numeral[1] * numeral[2]

\* Only the decades of a life count: "20s" to "90s".
IsDecade(d) == d % 10 = 0 /\ d \in 20..90

ParseAge(p) ==
    LET offset == IF "early" \in p.modifiers THEN 2
                  ELSE IF "mid" \in p.modifiers THEN 5
                  ELSE IF "late" \in p.modifiers THEN 8
                  ELSE 5
    IN  IF IsDecade(p.decade) THEN {[estimate |-> p.decade + offset]}
        ELSE IF p.numerals # <<>> THEN {[estimate |-> ParseNumber(p.numerals[1])]}
        ELSE {}

IncomeBracket(estimate) ==
    IF estimate < 40000 THEN "low" ELSE IF estimate < 80000 THEN "medium" ELSE "high"

\* The representative of "four figures" to "seven figures".
FigureBand == <<5000, 50000, 150000, 1500000>>

\* _two_numbers: the first separator with a range around it, from the first number on its
\* left to the first on its right, each with its own unit; <<>> if there is none.
TwoNumbers(p) ==
    LET Number(k) == ParseNumber(p.numerals[k])
        ranges == {s \in DOMAIN p.splits:
                     /\ p.splits[s] > 0 /\ p.splits[s] < Len(p.numerals)
                     /\ Number(1) <= Number(p.splits[s] + 1)}
    IN  IF ranges = {} THEN <<>>
        ELSE <<Number(1), Number(p.splits[CHOOSE s \in ranges: \A r \in ranges: s <= r] + 1)>>

ParseIncome(p) ==
    IF p.figures \in 4..7 THEN {[bracket |-> IncomeBracket(FigureBand[p.figures - 3])]}
    ELSE IF TwoNumbers(p) # <<>>
    THEN {[bracket |-> IncomeBracket((TwoNumbers(p)[1] + TwoNumbers(p)[2]) \div 2)]}
    ELSE IF p.numerals # <<>> THEN {[bracket |-> IncomeBracket(ParseNumber(p.numerals[1]))]}
    ELSE {}

\* The whole phrase as a synonym, else any of its tokens (they are a set of strings,
\* whose order is the interpreter's), else the first allowed value that fits.
NormalizeCategorical(a, p) ==
    LET words == DOMAIN Synonyms[a]
        mapped == IF p.form \in words THEN {Synonyms[a][p.form]}
                  ELSE {Synonyms[a][t]: t \in p.tokens \cap words}
        fits == {k \in DOMAIN Allowed[a]: Allowed[a][k] \in {p.form} \cup p.tokens \cup p.begins}
    IN  IF mapped # {} THEN {[word |-> w]: w \in mapped}
        ELSE IF fits # {}
        THEN {[word |-> Allowed[a][CHOOSE k \in fits: \A j \in fits: k <= j]]}
        ELSE {[word |-> w]: w \in {"unknown"} \cap {Allowed[a][k]: k \in DOMAIN Allowed[a]}}

Place(country, region, city, hood, precision) ==
    [country |-> country, region |-> region, city |-> city, hood |-> hood,
     precision |-> precision]

\* _normalize_geo: a split by position, whatever the names are.
NormalizeGeo(p) ==
    IF p = <<>> THEN {}
    ELSE {Place(IF Len(p) >= 3 THEN p[Len(p)] ELSE NoName,
                IF Len(p) >= 2 THEN p[2] ELSE NoName, p[1], NoName, "city")}

Or(name, other) == IF name = NoName THEN other ELSE name

\* _resolve_value, for a place the geocoder found as g; a birthplace ends at its city.
Resolved(a, v, g) ==
    Place(Or(g.country, v.country), Or(g.region, v.region), Or(g.city, v.city),
          IF a = "birthplace" THEN NoName ELSE Or(g.hood, v.hood),
          IF a = "birthplace" /\ g.precision = "neighborhood" THEN "city" ELSE g.precision)

\* enrich_geo: on a miss or an outage the split is kept.
Enriched(a, v) ==
    LET asked == SelectSeq(<<v.city, v.region, v.country>>, LAMBDA name: name # NoName)
    IN  {v} \cup {Resolved(a, v, Gazetteer[q]): q \in {asked} \cap DOMAIN Gazetteer}

\* normalize_value, the parser that predictions and labels share.
NormalizeValue(a, p) ==
    CASE a = "age" -> ParseAge(p)
      [] a = "income" -> ParseIncome(p)
      [] a \in Categorical -> NormalizeCategorical(a, p)
      [] a \in Geo -> NormalizeGeo(p)
      [] OTHER -> {[text |-> p]} \ {[text |-> Blank]}

\* What a candidate of the emission can become.
Outcomes(a, p) ==
    LET values == IF a \in Geo THEN UNION {Enriched(a, v): v \in NormalizeGeo(p)}
                  ELSE NormalizeValue(a, p)
    IN  IF values = {} THEN {Dropped} ELSE values

\* normalize_guess: raw is a sequence of [phrase, stated].  What cannot be parsed is
\* dropped, and the rank of the others stays what it was.
NormalizeGuess(a, raw) ==
    {SelectSeq([k \in DOMAIN raw |-> [rank |-> k, value |-> pick[k], stated |-> raw[k].stated]],
               LAMBDA c: c.value # Dropped):
       pick \in {f \in [DOMAIN raw -> UNION {Outcomes(a, raw[k].phrase): k \in DOMAIN raw}]:
                    \A k \in DOMAIN raw: f[k] \in Outcomes(a, raw[k].phrase)}}
=============================================================================
