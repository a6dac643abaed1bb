---------------------------- MODULE UnitMatching ----------------------------
(* How the units on offer are scored and ranked against what the person of   *)
(* an opportunity looks for.  A score is computed twice: by the query that   *)
(* ranks and pages the units (unit-matching.service.ts), and, for each unit  *)
(* of the page, by the function that explains it (unit-compatibility-        *)
(* score.ts).  presentUnitMatch throws, and the whole page with it, when the *)
(* two differ: "Score de compatibilidade divergente da ordenacao".           *)
EXTENDS Integers, FiniteSets, FiniteSetsExt

CONSTANTS
  Prices,    \* prices, of units and of preferences
  Areas,     \* areas, of the catalogue and of preferences
  Bedrooms,  \* numbers of bedrooms
  None       \* a bound that is not stated, an attribute that is not known

ASSUME MeasureAssumption ==
  /\ Prices \cup Areas \cup Bedrooms \subseteq Nat
  /\ None \notin Int \cup BOOLEAN

\* validateRanges: a range is never upside down.
Ranges(values) ==
  {r \in [min : values \cup {None}, max : values \cup {None}] :
     r.min # None /\ r.max # None => r.min <= r.max}

Stated(range) == range.min # None \/ range.max # None

PriceMultiplier == 1000
AreaMultiplier == 500
BedroomPoints == 50

Criteria == {"price", "area", "bedrooms"}

CriterionWeight == [criterion \in Criteria |-> IF criterion = "price" THEN 50 ELSE 25]

\* Half up; what is negative is raised to 0 wherever this is used.
RoundedHalfUp(numerator, denominator) ==
  (2 * numerator + denominator) \div (2 * denominator)

AtLeast0(n) == IF n < 0 THEN 0 ELSE n
-----------------------------------------------------------------------------
(* src/src/crm/unit-compatibility-score.ts                                   *)

\* The bound that the value violates.
Boundary(value, range) ==
  IF range.min # None /\ value < range.min THEN range.min
  ELSE IF range.max # None /\ value > range.max THEN range.max
  ELSE None

RangeScore(value, range, multiplier) ==
  IF value = None \/ ~Stated(range) THEN None
  ELSE LET boundary == Boundary(value, range)
           distance == IF value < boundary THEN boundary - value ELSE value - boundary
       IN CASE boundary = None -> 100
            [] boundary = 0    -> 0
            [] OTHER -> AtLeast0(RoundedHalfUp(100 * boundary - distance * multiplier,
                                               boundary))

ScoreBedrooms(value, range) ==
  IF value = None \/ ~Stated(range) THEN None
  ELSE LET distance ==
             CASE range.min # None /\ value < range.min -> range.min - value
               [] range.max # None /\ value > range.max -> value - range.max
               [] OTHER -> 0
       IN AtLeast0(100 - distance * BedroomPoints)

\* Criteria that cannot be evaluated leave the average.
ScoreUnitCompatibility(scores) ==
  LET evaluated == {c \in Criteria : scores[c] # None}
      weight == MapThenSumSet(LAMBDA c : CriterionWeight[c], evaluated)
      points == MapThenSumSet(LAMBDA c : scores[c] * CriterionWeight[c], evaluated)
  IN IF weight = 0 THEN None ELSE RoundedHalfUp(points, weight)
-----------------------------------------------------------------------------
(* The query of src/src/crm/unit-matching.service.ts                         *)

\* evaluated
InRange(value, range) ==
  IF ~Stated(range) \/ value = None THEN None
  ELSE /\ range.min = None \/ value >= range.min
       /\ range.max = None \/ value <= range.max

\* ranked
Deviation(value, range) ==
  CASE range.min # None /\ value < range.min -> range.min - value
    [] range.max # None /\ value > range.max -> value - range.max
    [] OTHER -> 0

\* scored: GREATEST takes what a division by NULLIF(0) gives for nothing.
ScoredRange(value, range, multiplier) ==
  LET match == InRange(value, range)
      bound == IF range.min # None /\ value < range.min THEN range.min ELSE range.max
  IN CASE match = None -> None
       [] match = TRUE -> 100
       [] OTHER ->
            IF bound = 0 THEN 0
            ELSE AtLeast0(RoundedHalfUp(
                   100 * bound - Deviation(value, range) * multiplier, bound))

ScoredBedrooms(value, range) ==
  LET match == InRange(value, range)
  IN CASE match = None -> None
       [] match = TRUE -> 100
       [] OTHER ->
            AtLeast0(100 - BedroomPoints *
              (IF range.min # None /\ value < range.min THEN range.min - value
               ELSE value - range.max))

\* weighted
WeightedScore(scores) ==
  LET Coalesced(c) == IF scores[c] = None THEN 0 ELSE scores[c]
      Counted(c) == IF scores[c] = None THEN 0 ELSE CriterionWeight[c]
      weight == Counted("price") + Counted("area") + Counted("bedrooms")
  IN IF weight = 0 THEN None
     ELSE RoundedHalfUp(Coalesced("price") * 50 + Coalesced("area") * 25
                          + Coalesced("bedrooms") * 25, weight)

\* What the query finds of each criterion.
PriceOutcomes ==
  {[match |-> InRange(v, r), score |-> ScoredRange(v, r, PriceMultiplier),
    deviation |-> Deviation(v, r)] : v \in Prices, r \in Ranges(Prices)}
AreaOutcomes ==
  {[match |-> InRange(v, r), score |-> ScoredRange(v, r, AreaMultiplier)] :
     v \in Areas, r \in Ranges(Areas)}
BedroomOutcomes ==
  {[match |-> InRange(v, r), score |-> ScoredBedrooms(v, r)] :
     v \in Bedrooms, r \in Ranges(Bedrooms)}

Outcomes == [price : PriceOutcomes, area : AreaOutcomes, bedrooms : BedroomOutcomes]

\* The ORDER BY up to the name of the unit: best score first and none last,
\* price out of range, more matches, fewer mismatches, nearest price.
RankingKey(outcome) ==
  LET score == WeightedScore([c \in Criteria |-> outcome[c].score])
      Count(match) == Cardinality({c \in Criteria : outcome[c].match = match})
  IN <<IF score = None THEN 1 ELSE -score,
       IF outcome["price"].match = FALSE THEN 1 ELSE 0,
       -Count(TRUE), Count(FALSE), outcome["price"].deviation>>

Precedes(k, l) ==
  \E i \in DOMAIN k : k[i] < l[i] /\ \A j \in 1..(i - 1) : k[j] = l[j]
-----------------------------------------------------------------------------
(* Properties.                                                               *)

Scores == {0, 33, 50, 67, 99, 100, None}

\* ScoresAgree: the query and the function that explains it give a unit the
\* same score, whatever the bounds, the attributes and what is not known.
ScoresAgree ==
  /\ \A r \in Ranges(Prices), v \in Prices :
       RangeScore(v, r, PriceMultiplier) = ScoredRange(v, r, PriceMultiplier)
  /\ \A r \in Ranges(Areas), v \in Areas \cup {None} :
       RangeScore(v, r, AreaMultiplier) = ScoredRange(v, r, AreaMultiplier)
  /\ \A r \in Ranges(Bedrooms), v \in Bedrooms \cup {None} :
       ScoreBedrooms(v, r) = ScoredBedrooms(v, r)
  /\ \A scores \in [Criteria -> Scores] :
       ScoreUnitCompatibility(scores) = WeightedScore(scores)

\* FitFirst: of two units whose attributes are known, the one that meets every
\* preference is ranked before the one that misses some, although rounding may
\* give both 100 points.
FitFirst ==
  \A missing \in Outcomes :
    LET Met(o) == IF o.match = FALSE THEN [o EXCEPT !.match = TRUE, !.score = 100] ELSE o
        fitting == [price    |-> [Met(missing.price) EXCEPT !.deviation = 0],
                    area     |-> Met(missing.area),
                    bedrooms |-> Met(missing.bedrooms)]
    IN (\E c \in Criteria : missing[c].match = FALSE)
         => Precedes(RankingKey(fitting), RankingKey(missing))
=============================================================================
