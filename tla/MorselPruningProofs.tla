------------------------- MODULE MorselPruningProofs -------------------------
(***************************************************************************)
(* Proofs about pruning: what outcomes say of a zone is true of its rows    *)
(* (ZonePruning), filters follow from the query (FilterLowering), and a     *)
(* morsel that any kind of metadata rules out has no visible row that       *)
(* satisfies the query (MorselPruning).                                     *)
(***************************************************************************)
EXTENDS MorselPruning, SetInduction

(* The rows of a zone whose integer value satisfies a range.                *)
Within(range, value, rows) ==
  {r \in rows : value[r] # Null /\ AboveLower(value[r], range) /\ BelowUpper(value[r], range)}

(* Statistics as build_zone_stats_entry (cove-arrow/src/parquet/stats.rs)   *)
(* writes them for integers: nulls are counted and every other value is     *)
(* between min and max.                                                     *)
Describes(z, value, rows) ==
  /\ z # None
  /\ z.nulls = "all" <=> \A r \in rows : value[r] = Null
  /\ z.nulls = "none" => \A r \in rows : value[r] # Null
  /\ z.min.value \in Int /\ z.max.value \in Int
  /\ \A r \in rows : value[r] # Null =>
       value[r] \in Int /\ z.min.value <= value[r] /\ value[r] <= z.max.value

IntBounds(range) ==
  /\ range.lower # None => range.lower.value \in Int
  /\ range.upper # None => range.upper.value \in Int

-----------------------------------------------------------------------------
(* The outcome of an AND is true of the rows that hold both predicates when *)
(* the outcomes of the two are true (predicate.rs, PredicateZoneOutcome::   *)
(* and).                                                                    *)
THEOREM AndAgrees ==
  ASSUME NEW x \in Outcomes, NEW y \in Outcomes, NEW R, NEW H \in SUBSET R, NEW K \in SUBSET R,
         Agrees(x, H, R), Agrees(y, K, R)
  PROVE  and(x, y) \in Outcomes /\ Agrees(and(x, y), H \cap K, R)
<1>1. and(x, y) \in Outcomes
  BY DEF and, Outcomes
<1>2. ASSUME and(x, y) = "AllMatch" PROVE H \cap K = R
  <2>1. x = "AllMatch" /\ y = "AllMatch"
    BY <1>2 DEF and, Outcomes
  <2>2. H = R /\ K = R
    BY <2>1 DEF Agrees
  <2> QED BY <2>2
<1>3. ASSUME and(x, y) = "NoMatch" PROVE H \cap K = {}
  <2>1. x = "NoMatch" \/ y = "NoMatch"
    BY <1>3 DEF and, Outcomes
  <2>2. H = {} \/ K = {}
    BY <2>1 DEF Agrees
  <2> QED BY <2>2
<1> QED BY <1>1, <1>2, <1>3 DEF Agrees

(* The same of OR (PredicateZoneOutcome::or): NoMatch only when neither can *)
(* match, so that an unknown child keeps the zone.                          *)
THEOREM OrAgrees ==
  ASSUME NEW x \in Outcomes, NEW y \in Outcomes, NEW R, NEW H \in SUBSET R, NEW K \in SUBSET R,
         Agrees(x, H, R), Agrees(y, K, R)
  PROVE  or(x, y) \in Outcomes /\ Agrees(or(x, y), H \cup K, R)
<1>1. or(x, y) \in Outcomes
  BY DEF or, Outcomes
<1>2. ASSUME or(x, y) = "AllMatch" PROVE H \cup K = R
  <2>1. x = "AllMatch" \/ y = "AllMatch"
    BY <1>2 DEF or, Outcomes
  <2>2. H = R \/ K = R
    BY <2>1 DEF Agrees
  <2> QED BY <2>2
<1>3. ASSUME or(x, y) = "NoMatch" PROVE H \cup K = {}
  <2>1. x = "NoMatch" /\ y = "NoMatch"
    BY <1>3 DEF or, Outcomes
  <2>2. H = {} /\ K = {}
    BY <2>1 DEF Agrees
  <2> QED BY <2>2
<1> QED BY <1>1, <1>2, <1>3 DEF Agrees

-----------------------------------------------------------------------------
(* A value between two ends is on the same side of a bound as the nearer    *)
(* end, inclusive or not.                                                   *)
LEMMA LowerMonotone ==
  ASSUME NEW range, IntBounds(range), NEW v \in Int, NEW w \in Int, v <= w, AboveLower(v, range)
  PROVE  AboveLower(w, range)
<1>1. CASE range.lower = None
  BY <1>1 DEF AboveLower
<1>2. CASE range.lower # None
  <2>1. range.lower.value \in Int
    BY <1>2 DEF IntBounds
  <2> QED BY <1>2, <2>1 DEF AboveLower
<1> QED BY <1>1, <1>2

(* The same for upper bounds.                                               *)
LEMMA UpperMonotone ==
  ASSUME NEW range, IntBounds(range), NEW v \in Int, NEW w \in Int, v <= w, BelowUpper(w, range)
  PROVE  BelowUpper(v, range)
<1>1. CASE range.upper = None
  BY <1>1 DEF BelowUpper
<1>2. CASE range.upper # None
  <2>1. range.upper.value \in Int
    BY <1>2 DEF IntBounds
  <2> QED BY <1>2, <2>1 DEF BelowUpper
<1> QED BY <1>1, <1>2

(* explain_numcode_range is true of every zone its statistics describe, for *)
(* every range of integers with inclusive, exclusive or missing bounds:     *)
(* NoMatch only when no row is in the range and AllMatch only when all are  *)
(* (pruning.rs, explain_numcode_range).                                     *)
THEOREM RangeSound ==
  ASSUME NEW range, NEW z, NEW value, NEW rows, IntBounds(range), Describes(z, value, rows)
  PROVE  Agrees(explain_numcode_range(range, z), Within(range, value, rows), rows)
<1>1. ASSUME explain_numcode_range(range, z) = "NoMatch",
             NEW r \in Within(range, value, rows)
      PROVE  FALSE
  <2>1. r \in rows /\ value[r] # Null /\ AboveLower(value[r], range) /\ BelowUpper(value[r], range)
    BY <1>1 DEF Within
  <2>2. value[r] \in Int /\ z.min.value <= value[r] /\ value[r] <= z.max.value
        /\ z.min.value \in Int /\ z.max.value \in Int
    BY <2>1 DEF Describes
  <2>3. AboveLower(z.max.value, range)
    BY <2>1, <2>2, LowerMonotone
  <2>4. BelowUpper(z.min.value, range)
    BY <2>1, <2>2, UpperMonotone
  <2>5. ~predicate_disjoint_from_zone(range, z)
    BY <2>3, <2>4 DEF predicate_disjoint_from_zone
  <2>6. ~NullOnly(z) /\ z # None
    BY <2>1 DEF NullOnly, Describes
  <2> QED BY <1>1, <2>5, <2>6 DEF explain_numcode_range
<1>2. ASSUME explain_numcode_range(range, z) = "AllMatch", NEW r \in rows
      PROVE  r \in Within(range, value, rows)
  <2>1. zone_fully_within_predicate(range, z) /\ z.nulls = "none"
    BY <1>2 DEF explain_numcode_range
  <2>2. value[r] # Null
    BY <1>2, <2>1 DEF Describes
  <2>3. value[r] \in Int /\ z.min.value <= value[r] /\ value[r] <= z.max.value
        /\ z.min.value \in Int /\ z.max.value \in Int
    BY <1>2, <2>2 DEF Describes
  <2>4. AboveLower(value[r], range)
    BY <2>1, <2>3, LowerMonotone DEF zone_fully_within_predicate
  <2>5. BelowUpper(value[r], range)
    BY <2>1, <2>3, UpperMonotone DEF zone_fully_within_predicate
  <2> QED BY <1>2, <2>2, <2>4, <2>5 DEF Within
<1>3. Within(range, value, rows) \subseteq rows
  BY DEF Within
<1> QED BY <1>1, <1>2, <1>3 DEF Agrees

(* It also says as much as the bounds allow, for the comparisons a scan      *)
(* makes (numeric_bounds of prune.rs: one bound, or both ends of an         *)
(* equality): a zone of comparable integers that is not proved empty has an *)
(* integer between its ends that satisfies the range                        *)
(* (predicate_disjoint_from_zone).                                          *)
THEOREM DisjointTight ==
  ASSUME NEW range, NEW z, IntBounds(range), z.min.value \in Int, z.max.value \in Int,
         z.min.value <= z.max.value, z # None, ~NullOnly(z), Comparable(range, z),
         explain_numcode_range(range, z) # "NoMatch",
         \/ None \in {range.lower, range.upper}
         \/ /\ range.lower_inclusive /\ range.upper_inclusive
            /\ range.lower.value <= range.upper.value
  PROVE  \E v \in z.min.value .. z.max.value : AboveLower(v, range) /\ BelowUpper(v, range)
<1>1. ~predicate_disjoint_from_zone(range, z)
  BY DEF explain_numcode_range
<1>2. AboveLower(z.max.value, range) /\ BelowUpper(z.min.value, range)
  BY <1>1 DEF predicate_disjoint_from_zone
<1>3. z.min.value \in z.min.value .. z.max.value /\ z.max.value \in z.min.value .. z.max.value
  OBVIOUS
<1>4. CASE range.lower = None
  BY <1>2, <1>3, <1>4 DEF AboveLower
<1>5. CASE range.upper = None
  BY <1>2, <1>3, <1>5 DEF BelowUpper
<1>6. CASE range.lower # None /\ range.upper # None
  <2> DEFINE low == range.lower.value
  <2>1. /\ low \in Int /\ range.upper.value \in Int /\ low <= range.upper.value
        /\ range.lower_inclusive /\ range.upper_inclusive
    BY <1>6 DEF IntBounds
  <2>2. AboveLower(low, range) /\ BelowUpper(low, range)
    BY <2>1 DEF AboveLower, BelowUpper
  <2>3. low <= z.max.value
    BY <1>2, <1>6, <2>1 DEF AboveLower
  <2>4. CASE z.min.value <= low
    <3>1. low \in z.min.value .. z.max.value
      BY <2>1, <2>3, <2>4
    <3> QED BY <2>2, <3>1
  <2>5. CASE low <= z.min.value
    <3>1. AboveLower(z.min.value, range)
      BY <2>1, <2>2, <2>5, LowerMonotone
    <3> QED BY <1>2, <1>3, <3>1
  <2> HIDE DEF low
  <2> QED BY <2>1, <2>4, <2>5
<1> QED BY <1>4, <1>5, <1>6

-----------------------------------------------------------------------------
(* Statistics over the ranks of a domain, as filecode_domain_stats writes   *)
(* them: `rank` gives the rank of every row that is not null.               *)
RanksDescribe(z, null, rank, rows) ==
  /\ z # None
  /\ z.nulls = "all" <=> rows \subseteq null
  /\ z.nulls = "none" => rows \cap null = {}
  /\ z.min_domain_rank \in Int /\ z.max_domain_rank \in Int
  /\ \A r \in rows \ null :
       rank[r] \in Int /\ z.min_domain_rank <= rank[r] /\ rank[r] <= z.max_domain_rank

(* explain_resolved_domain_rank_range is true of every zone its ranks       *)
(* describe, empty ranges included (pruning.rs,                             *)
(* explain_resolved_domain_rank_range).                                     *)
THEOREM RankRangeSound ==
  ASSUME NEW lo \in Int, NEW hi \in Int, NEW z, NEW d, NEW null, NEW rank, NEW rows,
         RanksDescribe(z, null, rank, rows)
  PROVE  Agrees(explain_resolved_domain_rank_range(lo, hi, z, d),
                {r \in rows \ null : lo <= rank[r] /\ rank[r] <= hi}, rows)
<1> DEFINE inside == {r \in rows \ null : lo <= rank[r] /\ rank[r] <= hi}
<1> DEFINE outcome == explain_resolved_domain_rank_range(lo, hi, z, d)
<1>1. ASSUME outcome = "NoMatch", NEW r \in inside PROVE FALSE
  <2>1. r \in rows \ null /\ lo <= rank[r] /\ rank[r] <= hi
    OBVIOUS
  <2>2. /\ rank[r] \in Int /\ z.min_domain_rank <= rank[r] /\ rank[r] <= z.max_domain_rank
        /\ z.min_domain_rank \in Int /\ z.max_domain_rank \in Int
    BY <2>1 DEF RanksDescribe
  <2>3. lo <= hi /\ ~(z.max_domain_rank < lo) /\ ~(z.min_domain_rank > hi)
    BY <2>1, <2>2
  <2>4. z # None /\ ~NullOnly(z)
    BY <2>1 DEF NullOnly, RanksDescribe
  <2> QED BY <1>1, <2>3, <2>4 DEF explain_resolved_domain_rank_range
<1>2. ASSUME outcome = "AllMatch", NEW r \in rows PROVE r \in inside
  <2>1. z.min_domain_rank >= lo /\ z.max_domain_rank <= hi /\ z.nulls = "none"
    BY <1>2 DEF explain_resolved_domain_rank_range
  <2>2. r \in rows \ null
    BY <1>2, <2>1 DEF RanksDescribe
  <2>3. /\ rank[r] \in Int /\ z.min_domain_rank <= rank[r] /\ rank[r] <= z.max_domain_rank
        /\ z.min_domain_rank \in Int /\ z.max_domain_rank \in Int
    BY <2>2 DEF RanksDescribe
  <2> QED BY <2>1, <2>2, <2>3
<1>3. inside \subseteq rows
  OBVIOUS
<1> HIDE DEF inside, outcome
<1>4. Agrees(outcome, inside, rows)
  BY <1>1, <1>2, <1>3 DEF Agrees
<1> QED BY <1>4 DEF inside, outcome

-----------------------------------------------------------------------------
(* The least and the greatest of a finite set of integers.                  *)
LEMMA MinMax ==
  ASSUME NEW S \in SUBSET Int, IsFiniteSet(S), S # {}
  PROVE  /\ Min(S) \in S /\ Max(S) \in S
         /\ \A v \in S : Min(S) <= v /\ v <= Max(S)
<1>1. \E x \in S : \A y \in S : x <= y
  BY FiniteExtremes
<1>2. \E x \in S : \A y \in S : x >= y
  BY FiniteExtremes
<1>3. Min(S) \in S /\ \A y \in S : Min(S) <= y
  BY <1>1 DEF Min
<1>4. Max(S) \in S /\ \A y \in S : Max(S) >= y
  BY <1>2 DEF Max
<1> QED BY <1>3, <1>4

(* A set of cardinality one is a singleton.                                 *)
LEMMA OneElement ==
  ASSUME NEW S, IsFiniteSet(S), Cardinality(S) = 1
  PROVE  \E x : S = {x}
  BY FS_Singleton

(* What the choice of a file in PruneInit leaves true of it.                *)
FileOK ==
  /\ table \in Tables /\ have \in Metadata /\ coverage \in Coverages /\ query \in Queries

(* The rows of a morsel are finitely many, at least one, and typed.         *)
LEMMA RowTypes ==
  ASSUME FileOK, NEW m \in Morsels
  PROVE  /\ table[m] # {} /\ IsFiniteSet(table[m])
         /\ \A r \in table[m] : \A c \in Columns :
              /\ r[c] \in Int \cup {Null, NaN}
              /\ c \notin FloatColumns => r[c] # NaN
              /\ c \in CodeColumns => r[c] \in DOMAIN Dictionary \cup {Null}
<1>1. table[m] \subseteq Rows /\ table[m] # {} /\ IsFiniteSet(table[m])
  BY FileAssumption DEF FileOK
<1>2. ASSUME NEW r \in table[m], NEW c \in Columns
      PROVE  /\ r[c] \in Int \cup {Null, NaN}
             /\ c \notin FloatColumns => r[c] # NaN
             /\ c \in CodeColumns => r[c] \in DOMAIN Dictionary \cup {Null}
  <2>1. r \in Rows
    BY <1>1
  <2>2. r \in [Columns -> Int \cup {Null, NaN}]
    BY <2>1 DEF Rows
  <2>3. \A d \in Columns : /\ r[d] = NaN => d \in FloatColumns
                           /\ d \in CodeColumns => r[d] \in DOMAIN Dictionary \cup {Null}
    BY <2>1, Zenon DEF Rows
  <2> QED BY <2>2, <2>3
<1> QED BY <1>1, <1>2

(* The values of a column in a morsel are finitely many integers, and a     *)
(* cell that is neither null nor NaN is one of them.                        *)
LEMMA CellTypes ==
  ASSUME FileOK, NEW m \in Morsels, NEW c \in Columns
  PROVE  /\ Values(m, c) \in SUBSET Int /\ IsFiniteSet(Values(m, c))
         /\ \A r \in table[m] : r[c] \notin {Null, NaN} => r[c] \in Values(m, c)
         /\ c \in CodeColumns => Values(m, c) \subseteq DOMAIN Dictionary
         /\ Cells(m, c) # {} /\ (\A r \in table[m] : r[c] \in Cells(m, c))
         /\ NaN \in Cells(m, c) => c \in FloatColumns
<1> DEFINE f == [r \in table[m] |-> r[c]]
<1>1. {f[r] : r \in table[m]} = Cells(m, c)
  BY DEF Cells
<1> HIDE DEF f
<1>2. IsFiniteSet({f[r] : r \in table[m]})
  BY RowTypes, FiniteImage
<1>3. IsFiniteSet(Values(m, c))
  BY <1>1, <1>2, FS_Subset DEF Values
<1>4. Values(m, c) \in SUBSET Int
  BY RowTypes DEF Values, Cells
<1> QED BY <1>3, <1>4, RowTypes DEF Values, Cells

(* The same for the values of a column in all morsels.                      *)
LEMMA AllTypes ==
  ASSUME FileOK, NEW c \in Columns
  PROVE  /\ AllValues(c) \in SUBSET Int /\ IsFiniteSet(AllValues(c))
         /\ \A m \in Morsels : Values(m, c) \subseteq AllValues(c)
         /\ c \in CodeColumns => AllValues(c) \subseteq DOMAIN Dictionary
<1> DEFINE f == [m \in Morsels |-> Values(m, c)]
           F == {f[m] : m \in Morsels}
<1>1. IsFiniteSet(F)
  <2> HIDE DEF f
  <2> QED BY FileAssumption, FiniteImage
<1>2. \A S \in F : IsFiniteSet(S)
  BY CellTypes
<1>3. IsFiniteSet(UNION F)
  <2> HIDE DEF F
  <2> QED BY <1>1, <1>2, FS_UNION
<1>4. AllValues(c) = UNION F
  BY DEF AllValues
<1>5. IsFiniteSet(AllValues(c))
  BY <1>3, <1>4
<1>6. \A m \in Morsels : Values(m, c) \subseteq AllValues(c)
  BY DEF AllValues
<1>7. AllValues(c) \in SUBSET Int /\ (c \in CodeColumns => AllValues(c) \subseteq DOMAIN Dictionary)
  BY CellTypes DEF AllValues
<1> QED BY <1>5, <1>6, <1>7

(* Statistics count nulls truthfully.                                       *)
LEMMA NullsTrue ==
  ASSUME FileOK, NEW m \in Morsels, NEW c \in Columns
  PROVE  /\ Nulls(m, c) \in {"none", "some", "all"}
         /\ Nulls(m, c) = "all" <=> \A r \in table[m] : r[c] = Null
         /\ Nulls(m, c) = "none" <=> \A r \in table[m] : r[c] # Null
<1>1. table[m] # {}
  BY RowTypes
<1>2. Cells(m, c) = {Null} <=> \A r \in table[m] : r[c] = Null
  BY <1>1 DEF Cells
<1>3. Null \notin Cells(m, c) <=> \A r \in table[m] : r[c] # Null
  BY DEF Cells
<1> QED BY <1>1, <1>2, <1>3 DEF Nulls

(* Statistics of both kinds of columns carry the count of nulls.            *)
LEMMA ZoneNulls ==
  ASSUME FileOK, NEW m \in Morsels, NEW c \in Columns, zone_stats_for(m, c) # None
  PROVE  zone_stats_for(m, c).nulls = Nulls(m, c)
  BY DEF zone_stats_for, NumberZone, CodeZone

(* IS NULL and IS NOT NULL are answered truthfully.                         *)
LEMMA NullAgrees ==
  ASSUME FileOK, NEW m \in Morsels, NEW p, p.column \in Columns, p.op \in NullTests, NEW lits
  PROVE  /\ NullOutcome(m, p) \in Outcomes
         /\ Agrees(NullOutcome(m, p),
                {r \in table[m] : MayHold(r[p.column], [column |-> p.column, op |-> p.op,
                                                         literals |-> lits])}, table[m])
<1> DEFINE c == p.column
           z == zone_stats_for(m, c)
           a == [column |-> c, op |-> p.op, literals |-> lits]
           H == {r \in table[m] : MayHold(r[c], a)}
<1>1. CASE z = None
  BY <1>1 DEF NullOutcome, explain_is_null, explain_is_not_null, Agrees, NullTests, Outcomes
<1>2. CASE z # None
  <2>1. z.nulls = Nulls(m, c)
    BY <1>2, ZoneNulls
  <2>2. /\ z.nulls \in {"none", "some", "all"}
        /\ z.nulls = "all" <=> \A r \in table[m] : r[c] = Null
        /\ z.nulls = "none" <=> \A r \in table[m] : r[c] # Null
    BY <2>1, NullsTrue
  <2>3. \A r \in table[m] : MayHold(r[c], a) <=> IF p.op = "IsNull" THEN r[c] = Null ELSE r[c] # Null
    BY MarkerAssumption DEF MayHold, NullTests
  <2> HIDE DEF z
  <2>4. H = {r \in table[m] : IF p.op = "IsNull" THEN r[c] = Null ELSE r[c] # Null}
    BY <2>3
  <2> HIDE DEF H
  <2>5. CASE p.op = "IsNull"
    <3>1. NullOutcome(m, p) = explain_is_null(z)
      BY <2>5 DEF NullOutcome, z
    <3> QED BY <1>2, <2>2, <2>4, <2>5, <3>1 DEF explain_is_null, Agrees, Outcomes, H
  <2>6. CASE p.op = "IsNotNull"
    <3>1. NullOutcome(m, p) = explain_is_not_null(z)
      BY <2>6 DEF NullOutcome, z
    <3> QED BY <1>2, <2>2, <2>4, <2>6, <3>1 DEF explain_is_not_null, Agrees, Outcomes, H
  <2> QED BY <2>5, <2>6 DEF NullTests
<1> QED BY <1>1, <1>2

-----------------------------------------------------------------------------
(* The range of a comparison holds the integers that satisfy it.            *)
LEMMA RangeMeans ==
  ASSUME NEW op \in Comparisons, NEW v \in Int, NEW x \in Int, NEW c
  PROVE  /\ IntBounds(numeric_bounds(op, v))
         /\ (AboveLower(x, numeric_bounds(op, v)) /\ BelowUpper(x, numeric_bounds(op, v)))
              <=> MayHold(x, [column |-> c, op |-> op, literals |-> {v}])
<1> DEFINE range == numeric_bounds(op, v)
           b == [kind |-> "NumCode", value |-> v]
<1>1. b # None /\ b.value = v
  BY MarkerAssumption DEF Bounds
<1>2. /\ range.lower = IF op \in {"Eq", "Gt", "GtEq"} THEN b ELSE None
      /\ range.upper = IF op \in {"Eq", "Lt", "LtEq"} THEN b ELSE None
      /\ range.lower_inclusive = (op \in {"Eq", "GtEq"})
      /\ range.upper_inclusive = (op \in {"Eq", "LtEq"})
  BY DEF numeric_bounds
<1> HIDE DEF range, b
<1>3. IntBounds(range)
  BY <1>1, <1>2 DEF IntBounds
<1>4. x # Null /\ x # NaN /\ v # Null
  BY MarkerAssumption
<1> DEFINE a == [column |-> c, op |-> op, literals |-> {v}]
<1> SUFFICES (AboveLower(x, range) /\ BelowUpper(x, range)) <=> MayHold(x, a)
  BY <1>3 DEF range
<1>5. CASE op = "Eq"
  <2>1. range.lower = b /\ range.upper = b /\ range.lower_inclusive /\ range.upper_inclusive
    BY <1>2, <1>5
  <2>2. MayHold(x, a) <=> x = v
    BY <1>4, <1>5 DEF MayHold
  <2> QED BY <1>1, <2>1, <2>2 DEF AboveLower, BelowUpper
<1>6. CASE op = "Lt"
  <2>1. range.lower = None /\ range.upper = b /\ ~range.upper_inclusive
    BY <1>2, <1>6
  <2>2. MayHold(x, a) <=> x < v
    BY <1>4, <1>6 DEF MayHold
  <2> QED BY <1>1, <2>1, <2>2 DEF AboveLower, BelowUpper
<1>7. CASE op = "LtEq"
  <2>1. range.lower = None /\ range.upper = b /\ range.upper_inclusive
    BY <1>2, <1>7
  <2>2. MayHold(x, a) <=> x <= v
    BY <1>4, <1>7 DEF MayHold
  <2> QED BY <1>1, <2>1, <2>2 DEF AboveLower, BelowUpper
<1>8. CASE op = "Gt"
  <2>1. range.lower = b /\ range.upper = None /\ ~range.lower_inclusive
    BY <1>2, <1>8
  <2>2. MayHold(x, a) <=> x > v
    BY <1>4, <1>8 DEF MayHold
  <2> QED BY <1>1, <2>1, <2>2 DEF AboveLower, BelowUpper
<1>9. CASE op = "GtEq"
  <2>1. range.lower = b /\ range.upper = None /\ range.lower_inclusive
    BY <1>2, <1>9
  <2>2. MayHold(x, a) <=> x >= v
    BY <1>4, <1>9 DEF MayHold
  <2> QED BY <1>1, <2>1, <2>2 DEF AboveLower, BelowUpper
<1> QED BY <1>5, <1>6, <1>7, <1>8, <1>9 DEF Comparisons

(* What the statistics of a numeric column say: flags, and the least and    *)
(* greatest value unless they are truncated.                                *)
LEMMA NumberZoneIs ==
  ASSUME FileOK, NEW m \in Morsels, NEW c \in Columns \ CodeColumns, zone_stats_for(m, c) # None
  PROVE  LET z == zone_stats_for(m, c) IN
         /\ z.nulls = Nulls(m, c)
         /\ "HAS_MIN_MAX" \in z.flags <=> Values(m, c) # {}
         /\ "HAS_NAN" \in z.flags <=> NaN \in Cells(m, c)
         /\ "MINMAX_TRUNCATED" \in z.flags <=> have.zone = "truncated"
         /\ Values(m, c) # {} /\ have.zone # "truncated" =>
              z.min.value = Min(Values(m, c)) /\ z.max.value = Max(Values(m, c))
<1>1. zone_stats_for(m, c) = NumberZone(m, c)
  BY DEF zone_stats_for
<1> QED BY <1>1 DEF NumberZone

(* A comparison with a number is answered truthfully.                       *)
LEMMA NumberAgrees ==
  ASSUME FileOK, NEW m \in Morsels, NEW c \in Columns \ CodeColumns, NEW op \in Comparisons,
         NEW v \in Int
  PROVE  /\ NumberOutcome(m, c, op, v) \in Outcomes
         /\ Agrees(NumberOutcome(m, c, op, v),
                {r \in table[m] : MayHold(r[c], [column |-> c, op |-> op, literals |-> {v}])},
                table[m])
<1> DEFINE range == numeric_bounds(op, v)
           z == zone_stats_for(m, c)
           a == [column |-> c, op |-> op, literals |-> {v}]
           H == {r \in table[m] : MayHold(r[c], a)}
           outcome == explain_numcode_range(range, z)
<1>1. NumberOutcome(m, c, op, v) = outcome
  BY DEF NumberOutcome
<1>2. outcome \in Outcomes
  BY DEF explain_numcode_range, Outcomes
<1> SUFFICES Agrees(outcome, H, table[m])
  BY <1>1, <1>2
<1>3. \A r \in table[m] : r[c] = Null => ~MayHold(r[c], a)
  BY DEF MayHold, Comparisons
<1>4. CASE z = None
  BY <1>4 DEF explain_numcode_range, Agrees
<1>5. CASE z # None /\ NullOnly(z)
  <2>1. outcome = "NoMatch"
    BY <1>5 DEF explain_numcode_range
  <2>2. \A r \in table[m] : r[c] = Null
    BY <1>5, NumberZoneIs, NullsTrue DEF NullOnly
  <2>3. H = {}
    BY <1>3, <2>2
  <2> HIDE DEF H, outcome
  <2> QED BY <2>1, <2>3 DEF Agrees
<1>6. CASE z # None /\ ~NullOnly(z) /\ ~Comparable(range, z)
  <2>1. outcome = "Unknown"
    BY <1>6 DEF explain_numcode_range
  <2> QED BY <2>1 DEF Agrees
<1>7. CASE z # None /\ Comparable(range, z)
  <2> DEFINE value == [r \in table[m] |-> r[c]]
             vs == Values(m, c)
  <2>1. /\ z.nulls = Nulls(m, c) /\ vs # {} /\ NaN \notin Cells(m, c)
        /\ z.min.value = Min(vs) /\ z.max.value = Max(vs)
    BY <1>7, NumberZoneIs DEF Comparable
  <2>2. \A r \in table[m] : r[c] # Null => r[c] \in vs
    BY <2>1, CellTypes
  <2>3. vs \in SUBSET Int /\ IsFiniteSet(vs)
    BY CellTypes
  <2>4. /\ Min(vs) \in Int /\ Max(vs) \in Int
        /\ \A x \in vs : x \in Int /\ Min(vs) <= x /\ x <= Max(vs)
    <3> HIDE DEF vs
    <3> QED BY <2>1, <2>3, MinMax
  <2>5. /\ z.nulls = "all" <=> \A r \in table[m] : r[c] = Null
        /\ z.nulls = "none" <=> \A r \in table[m] : r[c] # Null
    BY <2>1, NullsTrue
  <2>6. \A r \in table[m] : value[r] = r[c]
    OBVIOUS
  <2> HIDE DEF value, vs
  <2>7. Describes(z, value, table[m])
    <3> HIDE DEF z
    <3> QED BY <1>7, <2>1, <2>2, <2>4, <2>5, <2>6 DEF Describes
  <2>8. IntBounds(range)
    BY RangeMeans
  <2>9. Agrees(outcome, Within(range, value, table[m]), table[m])
    <3> HIDE DEF range, z
    <3> QED BY <2>7, <2>8, RangeSound
  <2>10. ASSUME NEW r \in table[m]
         PROVE  MayHold(r[c], a) <=> value[r] # Null /\ AboveLower(value[r], range)
                                     /\ BelowUpper(value[r], range)
    <3>1. CASE r[c] = Null
      BY <1>3, <2>6, <3>1
    <3>2. CASE r[c] # Null
      <4>1. r[c] \in Int
        BY <2>2, <2>4, <3>2
      <4> HIDE DEF range
      <4> QED BY <2>6, <3>2, <4>1, RangeMeans DEF range
    <3> QED BY <3>1, <3>2
  <2>11. Within(range, value, table[m]) = H
    <3> HIDE DEF range
    <3> QED BY <2>10 DEF Within
  <2> QED BY <2>9, <2>11
<1> QED BY <1>4, <1>5, <1>6, <1>7 DEF NullOnly

-----------------------------------------------------------------------------
(* Ranks follow the order of values and tell values of the column apart.    *)
LEMMA RankOrder ==
  ASSUME FileOK, NEW c \in Columns, NEW v \in AllValues(c), NEW w \in AllValues(c)
  PROVE  /\ RankOf(v, c) \in Int
         /\ v <= w => RankOf(v, c) <= RankOf(w, c)
         /\ RankOf(v, c) = RankOf(w, c) => v = w
<1> DEFINE B(x) == {y \in AllValues(c) : y < x}
<1>1. AllValues(c) \in SUBSET Int /\ IsFiniteSet(AllValues(c))
  BY AllTypes
<1>2. ASSUME NEW x \in AllValues(c)
      PROVE  IsFiniteSet(B(x)) /\ Cardinality(B(x)) \in Nat /\ RankOf(x, c) = Cardinality(B(x))
  <2>1. B(x) \in SUBSET AllValues(c)
    OBVIOUS
  <2>2. IsFiniteSet(B(x))
    <3> HIDE DEF B
    <3> QED BY <1>1, <2>1, FS_Subset
  <2> QED BY <2>2, FS_CardinalityType DEF RankOf
<1>3. ASSUME NEW x \in AllValues(c), NEW y \in AllValues(c), x <= y
      PROVE  /\ Cardinality(B(x)) <= Cardinality(B(y))
             /\ Cardinality(B(x)) = Cardinality(B(y)) => x = y
  <2>1. B(x) \in SUBSET B(y)
    BY <1>1, <1>3
  <2>2. B(x) = B(y) => x = y
    BY <1>1, <1>3
  <2>3. IsFiniteSet(B(y))
    BY <1>2
  <2> HIDE DEF B
  <2> QED BY <2>1, <2>2, <2>3, FS_Subset
<1> HIDE DEF B
<1>4. v \in Int /\ w \in Int
  BY <1>1
<1>5. CASE v <= w
  BY <1>2, <1>3, <1>5
<1>6. CASE w <= v
  BY <1>2, <1>3, <1>4, <1>6
<1> QED BY <1>4, <1>5, <1>6

(* A domain ranks the code of a value as the value is ranked.               *)
LEMMA DomainRank ==
  ASSUME FileOK, NEW c \in CodeColumns, column_domain_for(c) # None
  PROVE  /\ DOMAIN column_domain_for(c).rank = AllCodes(c)
         /\ \A v \in AllValues(c) : Dictionary[v] \in AllCodes(c)
              /\ column_domain_for(c).rank[Dictionary[v]] = RankOf(v, c)
<1>1. column_domain_for(c) = Domain(c)
  BY DEF column_domain_for
<1>2. c \in Columns
  BY DictionaryAssumption
<1>3. \A v \in AllValues(c) : v \in DOMAIN Dictionary
  BY <1>2, AllTypes
<1>4. ASSUME NEW v \in AllValues(c)
      PROVE  (CHOOSE w \in AllValues(c) : Dictionary[w] = Dictionary[v]) = v
  <2>1. \A w \in AllValues(c) : Dictionary[w] = Dictionary[v] => w = v
    BY <1>3, DictionaryAssumption
  <2> QED BY <2>1
<1> QED BY <1>1, <1>4 DEF Domain, AllCodes

(* What the statistics of a code column say.                                *)
LEMMA CodeZoneIs ==
  ASSUME FileOK, NEW m \in Morsels, NEW c \in CodeColumns, zone_stats_for(m, c) # None
  PROVE  LET z == zone_stats_for(m, c)
             vs == Values(m, c) IN
         /\ z.nulls = Nulls(m, c)
         /\ "HAS_DOMAIN_RANGE" \in z.flags <=> vs # {}
         /\ "CONSTANT" \in z.flags <=> Cardinality(vs) = 1
         /\ z.min_domain_rank = IF vs = {} THEN 0 ELSE RankOf(Min(vs), c)
         /\ z.max_domain_rank = IF vs = {} THEN 0 ELSE RankOf(Max(vs), c)
<1>1. zone_stats_for(m, c) = CodeZone(m, c)
  BY DEF zone_stats_for
<1> QED BY <1>1 DEF CodeZone

(* The ranks of a zone are those of the least and the greatest value.       *)
LEMMA ZoneRanks ==
  ASSUME FileOK, NEW m \in Morsels, NEW c \in CodeColumns, zone_stats_for(m, c) # None
  PROVE  LET z == zone_stats_for(m, c) IN
         /\ z.min_domain_rank \in Int /\ z.max_domain_rank \in Int
         /\ \A v \in Values(m, c) : /\ v \in AllValues(c) /\ RankOf(v, c) \in Int
                                    /\ z.min_domain_rank <= RankOf(v, c)
                                    /\ RankOf(v, c) <= z.max_domain_rank
<1> DEFINE z == zone_stats_for(m, c)
           vs == Values(m, c)
<1>1. c \in Columns
  BY DictionaryAssumption
<1>2. vs \in SUBSET Int /\ IsFiniteSet(vs) /\ vs \subseteq AllValues(c)
  BY <1>1, CellTypes, AllTypes
<1>3. /\ z.min_domain_rank = IF vs = {} THEN 0 ELSE RankOf(Min(vs), c)
      /\ z.max_domain_rank = IF vs = {} THEN 0 ELSE RankOf(Max(vs), c)
  BY CodeZoneIs
<1> HIDE DEF z, vs
<1>4. CASE vs = {}
  BY <1>3, <1>4 DEF z, vs
<1>5. CASE vs # {}
  <2>1. /\ Min(vs) \in vs /\ Max(vs) \in vs
        /\ \A v \in vs : Min(vs) <= v /\ v <= Max(vs)
    BY <1>2, <1>5, MinMax
  <2>2. RankOf(Min(vs), c) \in Int /\ RankOf(Max(vs), c) \in Int
    BY <1>1, <1>2, <2>1, RankOrder
  <2>3. \A v \in vs : /\ v \in AllValues(c) /\ RankOf(v, c) \in Int
                      /\ RankOf(Min(vs), c) <= RankOf(v, c)
                      /\ RankOf(v, c) <= RankOf(Max(vs), c)
    BY <1>1, <1>2, <2>1, RankOrder
  <2> QED BY <1>3, <1>5, <2>2, <2>3 DEF z, vs
<1> QED BY <1>4, <1>5

(* The rows of a morsel with a code.                                        *)
WithCode(m, c, code) == {r \in table[m] : r[c] # Null /\ Dictionary[r[c]] = code}

(* A cell of a code column that is not null is found in the values and the  *)
(* codes of its morsel and of the column.                                   *)
LEMMA CodedRow ==
  ASSUME FileOK, NEW m \in Morsels, NEW c \in CodeColumns, NEW r \in table[m], r[c] # Null
  PROVE  /\ r[c] \in Values(m, c) /\ r[c] \in AllValues(c) /\ r[c] \in DOMAIN Dictionary
         /\ Dictionary[r[c]] \in Codes(m, c) /\ Dictionary[r[c]] \in AllCodes(c)
<1>1. c \in Columns /\ c \notin FloatColumns
  BY DictionaryAssumption
<1>2. r[c] # NaN
  BY <1>1, RowTypes
<1>3. r[c] \in Values(m, c)
  BY <1>1, <1>2, CellTypes
<1>4. r[c] \in AllValues(c) /\ r[c] \in DOMAIN Dictionary
  BY <1>1, <1>3, AllTypes
<1> QED BY <1>3, <1>4 DEF Codes, AllCodes

(* Equality with a code is answered truthfully, from statistics, the domain *)
(* or an exact set that is not misread.                                     *)
LEMMA CodeAgrees ==
  ASSUME FileOK, ~ExactMisread, NEW m \in Morsels, NEW c \in CodeColumns, NEW code
  PROVE  /\ CodeOutcome(m, c, code) \in Outcomes
         /\ Agrees(CodeOutcome(m, c, code), WithCode(m, c, code), table[m])
<1> DEFINE z == zone_stats_for(m, c)
           d == column_domain_for(c)
           exact == exact_set_for(c)
           outcome == explain_file_code_equality(code, z, d, exact)
           H == WithCode(m, c, code)
<1>1. CodeOutcome(m, c, code) = outcome
  BY DEF CodeOutcome
<1>2. outcome \in Outcomes
  BY DEF explain_file_code_equality, Outcomes
<1>3. c \in Columns
  BY DictionaryAssumption
<1>4. H \subseteq table[m]
  BY DEF WithCode
<1>5. ASSUME outcome = "NoMatch", NEW r \in H PROVE FALSE
  <2>1. r \in table[m] /\ r[c] # Null /\ Dictionary[r[c]] = code
    BY <1>5 DEF WithCode
  <2>2. r[c] \in Values(m, c) /\ r[c] \in AllValues(c) /\ code \in AllCodes(c)
    BY <2>1, CodedRow
  <2>3. ~NullOnly(z)
    BY <1>3, <2>1, ZoneNulls, NullsTrue DEF NullOnly
  <2>4. usable_domain(d) => code \in DOMAIN d.rank /\ d.rank[code] = RankOf(r[c], c)
    BY <2>1, <2>2, DomainRank DEF usable_domain
  <2>5. usable_domain(d) /\ Ranged(z) => d.rank[code] \in z.min_domain_rank .. z.max_domain_rank
    BY <2>2, <2>4, ZoneRanks DEF Ranged
  <2>6. exact # None /\ exact.kind = "FileCode" => code \in exact.codes
    BY <2>2, MetadataAssumption DEF exact_set_for, ExactMisread, FileOK
  <2> HIDE DEF z, d, exact
  <2> QED BY <1>5, <2>3, <2>4, <2>5, <2>6 DEF explain_file_code_equality
<1>6. ASSUME outcome = "AllMatch", NEW r \in table[m] PROVE r \in H
  <2>1. /\ usable_domain(d) /\ Ranged(z) /\ code \in DOMAIN d.rank
        /\ "CONSTANT" \in z.flags /\ z.nulls = "none"
        /\ z.min_domain_rank = d.rank[code] /\ z.max_domain_rank = d.rank[code]
    <3> HIDE DEF z, d, exact
    <3> QED BY <1>6 DEF explain_file_code_equality
  <2>2. z # None /\ d # None
    BY <2>1 DEF Ranged, usable_domain
  <2>3. r[c] # Null
    BY <1>3, <2>1, <2>2, ZoneNulls, NullsTrue
  <2>4. r[c] \in Values(m, c) /\ r[c] \in AllValues(c)
    BY <2>3, CodedRow
  <2>5. PICK v \in AllValues(c) : Dictionary[v] = code
    BY <2>1, <2>2, DomainRank DEF AllCodes
  <2>6. d.rank[code] = RankOf(v, c)
    BY <2>2, <2>5, DomainRank
  <2>7. RankOf(r[c], c) = RankOf(v, c)
    BY <2>1, <2>2, <2>4, <2>6, ZoneRanks, <1>3, RankOrder
  <2>8. r[c] = v
    BY <1>3, <2>4, <2>7, RankOrder
  <2> QED BY <2>3, <2>5, <2>8 DEF WithCode
<1> HIDE DEF outcome, H
<1>7. Agrees(outcome, H, table[m])
  BY <1>4, <1>5, <1>6 DEF Agrees
<1> QED BY <1>1, <1>2, <1>7 DEF H

(* No kind of metadata about codes rules out a morsel that has a row with   *)
(* one of them, unless it is misread.                                       *)
LEMMA CodesPruneSound ==
  ASSUME FileOK, ~ExactMisread, ~BloomMisread,
         NEW m \in Morsels, NEW c \in CodeColumns, NEW codes, codes_prune(m, c, codes),
         NEW r \in table[m], r[c] # Null
  PROVE  Dictionary[r[c]] \notin codes
<1> DEFINE code == Dictionary[r[c]]
<1> SUFFICES ASSUME code \in codes PROVE FALSE
  OBVIOUS
<1>1. code \in Codes(m, c) /\ code \in AllCodes(c)
  BY CodedRow
<1>2. r \in WithCode(m, c, code)
  BY DEF WithCode
<1> HIDE DEF code
<1>3. ~lookup_prunes_file_codes(m, c, codes)
  BY <1>1 DEF lookup_prunes_file_codes
<1>4. ~inverted_prunes_file_codes(m, c, codes)
  BY <1>1 DEF inverted_prunes_file_codes
<1>5. CodeOutcome(m, c, code) # "NoMatch"
  BY <1>2, CodeAgrees DEF Agrees
<1>6. ~bloom_excludes_file_code(c, code)
  <2>1. SUFFICES ASSUME bloom_for(c) # None,
                        bloom_for(c).domain \in {"FileCode", "CanonicalValueHash"}
                 PROVE  code \in bloom_for(c).maybe
    BY DEF bloom_excludes_file_code, explain_bloom_membership
  <2>2. have.bloom \in {"good", "canonical"}
    BY <2>1, MetadataAssumption DEF bloom_for, BloomMisread, FileOK
  <2> QED BY <1>1, <2>2 DEF bloom_for
<1> QED BY <1>3, <1>4, <1>5, <1>6 DEF codes_prune

-----------------------------------------------------------------------------
(* What lowering makes of an atom: the kind goes with the column, and a     *)
(* comparison has one number.                                               *)
Shape(p) ==
  /\ p \in Predicates /\ IsFiniteSet(p.values)
  /\ p.kind = "Null" => p.op \in NullTests
  /\ p.kind \in {"Numeric", "NumericIn"} => p.column \notin CodeColumns /\ p.values \subseteq Int
  /\ p.kind = "Numeric" => p.op \in Comparisons /\ \E v \in Int : p.values = {v}
  /\ p.kind = "NumericIn" => p.op = "In"
  /\ p.kind \in {"FileCodeIn", "FileCodeNotIn"} => p.column \in CodeColumns /\ p.values \subseteq Int
  /\ p.kind = "FileCodeIn" => p.op \in {"Eq", "In"}

(* A predicate asks no more of a value than the atom it was lowered from.   *)
Weaker(p, a) ==
  /\ p.column = a.column
  /\ \A v : MayHold(v, a) => MayHold(v, PlainAtom(p))

(* Atoms on numeric columns (classify_in_list_filter and its callers).      *)
LEMMA LoweredNumber ==
  ASSUME NEW a \in Atoms, a.op \notin NullTests, a.column \notin CodeColumns,
         classify_number(a) # None
  PROVE  Shape(classify_number(a)) /\ Weaker(classify_number(a), a) /\ classify_number(a).codes = {}
<1> DEFINE p == classify_number(a)
<1>1. /\ a.column \in Columns /\ a.op \in Operators /\ a.literals \in SUBSET (Int \cup {Null})
      /\ IsFiniteSet(a.literals) /\ (a.op \in Comparisons => Cardinality(a.literals) = 1)
  BY DEF Atoms
<1>2. a.literals \subseteq Int
  BY <1>1 DEF classify_number
<1>3. PICK k \in {"Numeric", "NumericIn", "NumericNotIn"} :
        /\ p = Predicate(k, a, a.literals)
        /\ k = "Numeric" => a.op \in Comparisons
        /\ k = "NumericIn" => a.op = "In"
  BY DEF classify_number
<1>4. p = [kind |-> k, column |-> a.column, op |-> a.op, values |-> a.literals, codes |-> {}]
  BY <1>3 DEF Predicate
<1> HIDE DEF p
<1>5. p \in Predicates
  BY <1>1, <1>4 DEF Predicates
<1>6. k = "Numeric" => \E v \in Int : a.literals = {v}
  <2> SUFFICES ASSUME k = "Numeric" PROVE \E v \in Int : a.literals = {v}
    OBVIOUS
  <2>1. PICK v : a.literals = {v}
    BY <1>1, <1>3, OneElement
  <2> QED BY <1>2, <2>1
<1>7. Shape(p)
  BY <1>1, <1>2, <1>3, <1>4, <1>5, <1>6 DEF Shape
<1>8. PlainAtom(p).op = a.op /\ PlainAtom(p).literals = a.literals
  BY <1>4 DEF PlainAtom
<1>9. Weaker(p, a)
  BY <1>4, <1>8 DEF Weaker, MayHold
<1> QED BY <1>4, <1>7, <1>9 DEF p

(* Atoms on code columns: NULL is dropped from lists of literals, which     *)
(* costs nothing because no null satisfies them.                            *)
LEMMA LoweredCode ==
  ASSUME NEW a \in Atoms, a.op \notin NullTests, a.column \in CodeColumns,
         classify_code(a) # None
  PROVE  Shape(classify_code(a)) /\ Weaker(classify_code(a), a) /\ classify_code(a).codes = {}
<1> DEFINE p == classify_code(a)
<1>1. /\ a.column \in Columns /\ a.op \in Operators /\ a.literals \in SUBSET (Int \cup {Null})
      /\ IsFiniteSet(a.literals)
  BY DEF Atoms
<1>2. CASE a.op \in {"Eq", "In"}
  <2> DEFINE vs == a.literals \ {Null}
  <2>1. p = [kind |-> "FileCodeIn", column |-> a.column, op |-> a.op, values |-> vs, codes |-> {}]
    BY <1>2 DEF classify_code, Predicate
  <2>2. vs \in SUBSET Int /\ vs \in SUBSET (Int \cup {Null})
    BY <1>1
  <2>3. IsFiniteSet(vs)
    BY <1>1, FS_RemoveElement
  <2>4. \A v : MayHold(v, a) => v \in vs /\ v # Null /\ v # NaN
    BY <1>2 DEF MayHold
  <2> HIDE DEF p, vs
  <2>5. p \in Predicates
    BY <1>1, <2>1, <2>2 DEF Predicates
  <2>6. Shape(p)
    BY <1>1, <1>2, <2>1, <2>2, <2>3, <2>5 DEF Shape
  <2>7. PlainAtom(p).op = "In" /\ PlainAtom(p).literals = vs
    BY <2>1 DEF PlainAtom
  <2>8. Weaker(p, a)
    <3>1. \A v : v \in vs /\ v # Null /\ v # NaN => MayHold(v, PlainAtom(p))
      BY <2>7 DEF MayHold
    <3> QED BY <2>1, <2>4, <3>1 DEF Weaker
  <2> QED BY <2>1, <2>6, <2>8 DEF p
<1>3. CASE a.op \notin {"Eq", "In"}
  <2>1. /\ Null \notin a.literals
        /\ p = [kind |-> "FileCodeNotIn", column |-> a.column, op |-> a.op, values |-> a.literals,
                codes |-> {}]
    BY <1>3 DEF classify_code, Predicate
  <2>2. a.literals \in SUBSET Int
    BY <1>1, <2>1
  <2> HIDE DEF p
  <2>3. p \in Predicates
    BY <1>1, <2>1 DEF Predicates
  <2>4. Shape(p)
    BY <1>1, <2>1, <2>2, <2>3 DEF Shape
  <2>5. PlainAtom(p).op = a.op /\ PlainAtom(p).literals = a.literals
    BY <2>1 DEF PlainAtom
  <2>6. Weaker(p, a)
    BY <2>1, <2>5 DEF Weaker, MayHold
  <2> QED BY <2>1, <2>4, <2>6 DEF p
<1> QED BY <1>2, <1>3

(* An atom that can be lowered becomes a predicate that is no stronger.     *)
LEMMA LoweredAtom ==
  ASSUME NEW a \in Atoms, lower_atom_filter(a) # None
  PROVE  /\ Shape(lower_atom_filter(a)) /\ Weaker(lower_atom_filter(a), a)
         /\ lower_atom_filter(a).codes = {}
<1> DEFINE p == lower_atom_filter(a)
<1>1. CASE a.op \in NullTests
  <2>1. p = [kind |-> "Null", column |-> a.column, op |-> a.op, values |-> {}, codes |-> {}]
    BY <1>1 DEF lower_atom_filter, Predicate, NullTests
  <2>2. a.column \in Columns /\ a.op \in Operators
    BY DEF Atoms
  <2> HIDE DEF p
  <2>3. p \in Predicates
    BY <2>1, <2>2 DEF Predicates
  <2>4. Shape(p)
    BY <1>1, <2>1, <2>3, FS_EmptySet DEF Shape
  <2>5. PlainAtom(p).op = a.op
    BY <2>1 DEF PlainAtom
  <2>6. Weaker(p, a)
    BY <1>1, <2>1, <2>5 DEF Weaker, MayHold, NullTests
  <2> QED BY <2>1, <2>4, <2>6 DEF p
<1>2. CASE a.op \notin NullTests /\ a.column \in CodeColumns
  BY <1>2, LoweredCode DEF lower_atom_filter, NullTests
<1>3. CASE a.op \notin NullTests /\ a.column \notin CodeColumns
  BY <1>3, LoweredNumber DEF lower_atom_filter, NullTests
<1> QED BY <1>1, <1>2, <1>3

(* A row that satisfies a filter: its predicate, and all of some group.     *)
Passes(r, f) ==
  /\ f.predicate # None => MayHold(r[f.predicate.column], PlainAtom(f.predicate))
  /\ \E g \in f.groups : \A p \in g : MayHold(r[p.column], PlainAtom(p))

Clause(clause) ==
  IsFiniteSet(clause) /\ UNION clause \subseteq Atoms /\ IsFiniteSet(UNION clause)

HoldsClause(r, clause) == \E g \in clause : \A a \in g : MayHold(r[a.column], a)

Filters == [predicate : Predicates \cup {None}, groups : SUBSET SUBSET Predicates]

(* What lowering promises of a filter that stands for a clause.             *)
LoweredFrom(f, clause) ==
  /\ f \in Filters
  /\ f.predicate # None => Shape(f.predicate) /\ f.predicate.codes = {}
  /\ \A p \in UNION f.groups : Shape(p) /\ p.codes = {}
  /\ \A r : HoldsClause(r, clause) => Passes(r, f)

(* Predicates are told from the mark for a missing one.                     *)
LEMMA PredicateNotNone ==
  ASSUME NEW p, Shape(p)
  PROVE  p # None
  BY DictionaryAssumption DEF Shape

(* A filter of one predicate follows from a clause when the predicate does. *)
LEMMA SingleFilter ==
  ASSUME NEW p, NEW clause, Shape(p), p.codes = {},
         \A r : HoldsClause(r, clause) => MayHold(r[p.column], PlainAtom(p))
  PROVE  LoweredFrom(Filter(p), clause)
<1>1. p \in Predicates
  BY DEF Shape
<1>2. Filter(p) = [predicate |-> p, groups |-> {{p}}]
  BY DEF Filter
<1>3. Filter(p) \in Filters
  BY <1>1, <1>2 DEF Filters
<1>4. Filter(p).predicate = p /\ Filter(p).groups = {{p}}
  BY <1>2
<1>5. ASSUME NEW r, HoldsClause(r, clause) PROVE Passes(r, Filter(p))
  <2>1. MayHold(r[p.column], PlainAtom(p))
    BY <1>5
  <2>2. \E g \in {{p}} : \A q \in g : MayHold(r[q.column], PlainAtom(q))
    BY <2>1
  <2> QED BY <1>4, <2>1, <2>2 DEF Passes
<1>6. \A q \in UNION {{p}} : q = p
  OBVIOUS
<1> QED BY <1>3, <1>4, <1>5, <1>6 DEF LoweredFrom

(* An OR of equalities on one column as an IN list.                         *)
LEMMA MergedLowered ==
  ASSUME NEW clause, Clause(clause), EqualityOr(clause), clause # {}
  PROVE  LoweredFrom(Filter(MergedOr(clause)), clause)
<1> DEFINE atoms == UNION clause
           f == [a \in atoms |-> a.literals]
           L == {f[a] : a \in atoms}
           lits == UNION {a.literals : a \in atoms}
           b == [column |-> (CHOOSE a \in atoms : TRUE).column, op |-> "In", literals |-> lits]
           p == lower_atom_filter(b)
<1>1. atoms \subseteq Atoms /\ IsFiniteSet(atoms)
  BY DEF Clause
<1>2. atoms # {}
  BY DEF EqualityOr
<1>3. \A a \in atoms : /\ a.op = "Eq" /\ Null \notin a.literals /\ IsFiniteSet(a.literals)
                       /\ a.literals \in SUBSET (Int \cup {Null}) /\ a.column \in Columns
  <2>1. \A a \in atoms : a.op = "Eq" /\ Null \notin a.literals
    BY DEF EqualityOr
  <2>2. \A a \in atoms : /\ IsFiniteSet(a.literals) /\ a.column \in Columns
                         /\ a.literals \in SUBSET (Int \cup {Null})
    BY <1>1 DEF Atoms
  <2> QED BY <2>1, <2>2
<1>4. \A a \in atoms : a.column = b.column /\ b.column \in Columns
  <2>1. (CHOOSE a \in atoms : TRUE) \in atoms
    BY <1>2
  <2>2. \A x, y \in atoms : x.column = y.column
    BY DEF EqualityOr
  <2> HIDE DEF atoms
  <2> QED BY <1>3, <2>1, <2>2
<1>5. lits = UNION L
  OBVIOUS
<1>6. IsFiniteSet(L)
  <2> HIDE DEF f, atoms
  <2> QED BY <1>1, FiniteImage
<1>7. \A S \in L : IsFiniteSet(S)
  <2> HIDE DEF atoms
  <2> QED BY <1>3
<1>8. IsFiniteSet(lits)
  <2> HIDE DEF L, lits
  <2> QED BY <1>5, <1>6, <1>7, FS_UNION
<1>9. lits \in SUBSET (Int \cup {Null}) /\ Null \notin lits /\ \A a \in atoms : a.literals \subseteq lits
  <2> HIDE DEF atoms
  <2> QED BY <1>3
<1> HIDE DEF lits
<1>10. b \in Atoms
  <2>1. b.column \in Columns
    BY <1>2, <1>4
  <2> QED BY <1>8, <1>9, <2>1 DEF Atoms, Operators, Comparisons
<1>11. p # None
  <2>1. b.column \in Columns /\ b.op = "In" /\ b.literals = lits
    BY <1>2, <1>4
  <2> HIDE DEF b
  <2>2. \E k \in {"FileCodeIn", "NumericIn"} : \E vs \in SUBSET (Int \cup {Null}) :
          p = [kind |-> k, column |-> b.column, op |-> "In", values |-> vs, codes |-> {}]
    BY <1>9, <2>1 DEF lower_atom_filter, classify_code, classify_number, Predicate, NullTests, Comparisons
  <2>3. p \in Predicates
    BY <2>1, <2>2 DEF Predicates, Operators
  <2> QED BY <2>3, DictionaryAssumption
<1> HIDE DEF b
<1>12. Shape(p) /\ Weaker(p, b) /\ p.codes = {}
  BY <1>10, <1>11, LoweredAtom
<1> HIDE DEF p
<1>13. ASSUME NEW r, HoldsClause(r, clause) PROVE MayHold(r[p.column], PlainAtom(p))
  <2>1. PICK g \in clause : \A a \in g : MayHold(r[a.column], a)
    BY <1>13 DEF HoldsClause
  <2>2. PICK a \in g : TRUE
    BY DEF EqualityOr
  <2>3. a \in atoms /\ MayHold(r[a.column], a)
    BY <2>1, <2>2
  <2>4. a.op = "Eq" /\ a.column = b.column /\ a.literals \subseteq lits
    BY <1>3, <1>4, <1>9, <2>3
  <2>5. r[a.column] \in lits /\ r[a.column] # Null /\ r[a.column] # NaN
    BY <2>3, <2>4 DEF MayHold
  <2>6. b.op = "In" /\ b.literals = lits
    BY DEF b
  <2>7. MayHold(r[b.column], b)
    BY <2>4, <2>5, <2>6 DEF MayHold
  <2> QED BY <1>12, <2>7 DEF Weaker
<1>14. MergedOr(clause) = p
  BY DEF MergedOr, p, b, lits
<1> QED BY <1>12, <1>13, <1>14, SingleFilter

(* Any other OR, lowered whole.                                             *)
LEMMA OrLowered ==
  ASSUME NEW clause, Clause(clause), NEW f \in lower_or(clause)
  PROVE  LoweredFrom(f, clause)
<1> DEFINE low(g) == {lower_atom_filter(a) : a \in g}
           lowered == {low(g) : g \in clause}
<1>1. None \notin UNION lowered /\ f = [predicate |-> None, groups |-> lowered]
  BY DEF lower_or
<1>2. \A g \in clause : \A a \in g : a \in Atoms /\ lower_atom_filter(a) # None
  <2> SUFFICES ASSUME NEW g \in clause, NEW a \in g
               PROVE  a \in Atoms /\ lower_atom_filter(a) # None
    OBVIOUS
  <2>1. a \in Atoms
    BY DEF Clause
  <2>2. lower_atom_filter(a) \in low(g) /\ low(g) \in lowered
    OBVIOUS
  <2> HIDE DEF low, lowered
  <2> QED BY <1>1, <2>1, <2>2
<1>3. \A g \in clause : \A a \in g : Shape(lower_atom_filter(a)) /\ Weaker(lower_atom_filter(a), a)
                                     /\ lower_atom_filter(a).codes = {}
  BY <1>2, LoweredAtom
<1>4. \A p \in UNION lowered : Shape(p) /\ p.codes = {}
  BY <1>3
<1>5. \A p \in UNION lowered : p \in Predicates
  BY <1>4 DEF Shape
<1>6. lowered \in SUBSET SUBSET Predicates
  <2> HIDE DEF lowered
  <2> QED BY <1>5
<1>7. ASSUME NEW r, HoldsClause(r, clause) PROVE Passes(r, f)
  <2>1. PICK g \in clause : \A a \in g : MayHold(r[a.column], a)
    BY <1>7 DEF HoldsClause
  <2>2. \A p \in low(g) : MayHold(r[p.column], PlainAtom(p))
    BY <1>3, <2>1 DEF Weaker
  <2>3. low(g) \in f.groups
    BY <1>1
  <2> QED BY <1>1, <2>2, <2>3 DEF Passes
<1> HIDE DEF lowered
<1>8. f \in Filters
  BY <1>1, <1>6 DEF Filters
<1> QED BY <1>1, <1>4, <1>7, <1>8 DEF LoweredFrom

(* Every filter made of a clause follows from the clause.                   *)
LEMMA ClauseLowered ==
  ASSUME NEW clause, Clause(clause), NEW f \in lower_clause(clause)
  PROVE  LoweredFrom(f, clause)
<1>1. IsFiniteSet(clause) /\ Cardinality(clause) \in Nat
  BY FS_CardinalityType DEF Clause
<1>2. CASE EqualityOr(clause) /\ Cardinality(clause) > 1
  <2>1. clause # {}
    BY <1>2, FS_EmptySet
  <2> QED BY <1>2, <2>1, MergedLowered DEF lower_clause
<1>3. CASE ~EqualityOr(clause) /\ Cardinality(clause) > 1
  BY <1>3, OrLowered DEF lower_clause
<1>4. CASE ~(Cardinality(clause) > 1)
  <2>1. PICK a \in UNION clause : f = Filter(lower_atom_filter(a)) /\ lower_atom_filter(a) # None
    BY <1>4 DEF lower_clause
  <2> DEFINE p == lower_atom_filter(a)
  <2>2. PICK h : clause = {h}
    <3>1. Cardinality(clause) \in {0, 1}
      BY <1>1, <1>4
    <3>2. Cardinality(clause) # 0
      BY <1>1, <2>1, FS_EmptySet
    <3> QED BY <1>1, <3>1, <3>2, OneElement
  <2>3. a \in Atoms
    BY <2>1 DEF Clause
  <2>4. Shape(p) /\ Weaker(p, a) /\ p.codes = {}
    BY <2>1, <2>3, LoweredAtom
  <2>5. \A r : HoldsClause(r, clause) => MayHold(r[p.column], PlainAtom(p))
    <3> HIDE DEF p
    <3> QED BY <2>1, <2>2, <2>4 DEF HoldsClause, Weaker
  <2> QED BY <2>1, <2>4, <2>5, SingleFilter
<1> QED BY <1>2, <1>3, <1>4

-----------------------------------------------------------------------------
(* Codes in place of literals, for predicates on codes.                     *)
Coded(p) ==
  p.codes = IF p.kind \in {"FileCodeIn", "FileCodeNotIn"} THEN resolve_file_codes(p.values) ELSE {}

PlanMade ==
  /\ plan.filters = {resolved(f) : f \in lower_filters(query)}
  /\ plan.forms = {k.form : k \in coverage}

(* Resolving literals to codes changes nothing else of a filter.            *)
LEMMA ResolvedPredicate ==
  ASSUME NEW p, Shape(p), p.codes = {}, NEW gs
  PROVE  LET q == resolved([predicate |-> p, groups |-> gs]) IN
         /\ q.groups = gs
         /\ q.predicate.kind = p.kind /\ q.predicate.column = p.column
         /\ q.predicate.op = p.op /\ q.predicate.values = p.values
         /\ Shape(q.predicate) /\ Coded(q.predicate)
<1> DEFINE f == [predicate |-> p, groups |-> gs]
           q == resolved(f)
           codes == resolve_file_codes(p.values)
<1>1. p # None
  BY PredicateNotNone
<1>2. p \in Predicates
  BY DEF Shape
<1>3. codes \in SUBSET {Dictionary[v] : v \in DOMAIN Dictionary}
  BY DEF resolve_file_codes
<1>4. CASE p.kind \in {"FileCodeIn", "FileCodeNotIn"}
  <2>1. q = [f EXCEPT !.predicate.codes = codes]
    BY <1>1, <1>4 DEF resolved
  <2>2. q.predicate = [p EXCEPT !.codes = codes] /\ q.groups = gs
    BY <2>1
  <2> DEFINE x == q.predicate
  <2> HIDE DEF q, codes
  <2>3. /\ x.kind = p.kind /\ x.column = p.column /\ x.op = p.op /\ x.values = p.values
        /\ x.codes = codes /\ x \in Predicates
    BY <1>2, <1>3, <2>2 DEF Predicates
  <2> HIDE DEF x
  <2>4. Shape(x)
    BY <2>3 DEF Shape
  <2>5. Coded(x)
    BY <1>4, <2>3 DEF Coded, codes
  <2> QED BY <2>2, <2>3, <2>4, <2>5 DEF x, q
<1>5. CASE p.kind \notin {"FileCodeIn", "FileCodeNotIn"}
  <2>1. q = f
    BY <1>5 DEF resolved
  <2> QED BY <1>5, <2>1 DEF Coded
<1> QED BY <1>4, <1>5

(* Every filter of a plan follows from the query.                           *)
LEMMA PlanFollows ==
  ASSUME FileOK, PlanMade, NEW f \in plan.filters
  PROVE  /\ f.predicate # None => Shape(f.predicate) /\ Coded(f.predicate)
         /\ \A p \in UNION f.groups : Shape(p) /\ p.codes = {}
         /\ \A r : Satisfies(r, query) => Passes(r, f)
<1>0. PICK clause \in query : \E h \in lower_clause(clause) : f = resolved(h)
  BY DEF PlanMade, lower_filters
<1>1. PICK h \in lower_clause(clause) : f = resolved(h)
  BY <1>0
<1>2. Clause(clause)
  BY FileAssumption DEF FileOK, Clause
<1>3. LoweredFrom(h, clause)
  BY <1>1, <1>2, ClauseLowered
<1>4. /\ h \in Filters
      /\ h.predicate # None => Shape(h.predicate) /\ h.predicate.codes = {}
      /\ \A p \in UNION h.groups : Shape(p) /\ p.codes = {}
      /\ \A r : HoldsClause(r, clause) => Passes(r, h)
  BY <1>3 DEF LoweredFrom
<1>5. \A r : Satisfies(r, query) => Passes(r, h)
  BY <1>4 DEF Satisfies, HoldsClause
<1>6. CASE h.predicate = None
  <2>1. f = h
    BY <1>1, <1>6 DEF resolved
  <2> QED BY <1>4, <1>5, <1>6, <2>1
<1>7. CASE h.predicate # None
  <2>1. h = [predicate |-> h.predicate, groups |-> h.groups]
    BY <1>4 DEF Filters
  <2>2. /\ f.groups = h.groups
        /\ f.predicate.kind = h.predicate.kind /\ f.predicate.column = h.predicate.column
        /\ f.predicate.op = h.predicate.op /\ f.predicate.values = h.predicate.values
        /\ Shape(f.predicate) /\ Coded(f.predicate)
    BY <1>1, <1>4, <1>7, <2>1, ResolvedPredicate
  <2>3. PlainAtom(f.predicate) = PlainAtom(h.predicate)
    BY <2>2 DEF PlainAtom
  <2>4. \A r : Passes(r, h) => Passes(r, f)
    BY <1>7, <2>2, <2>3 DEF Passes
  <2> QED BY <1>4, <1>5, <2>2, <2>4
<1> QED BY <1>6, <1>7

(* A row that may hold a predicate on codes has one of its codes.           *)
LEMMA HoldsCode ==
  ASSUME FileOK, NEW m \in Morsels, NEW r \in table[m], NEW p, Shape(p), p.kind = "FileCodeIn"
  PROVE  /\ MayHold(r[p.column], PlainAtom(p)) <=> r[p.column] # Null /\ r[p.column] \in p.values
         /\ Coded(p) => (MayHold(r[p.column], PlainAtom(p))
                          <=> r[p.column] # Null /\ Dictionary[r[p.column]] \in p.codes)
<1> DEFINE c == p.column
<1>1. c \in CodeColumns /\ p.values \subseteq Int /\ c \in Columns
  BY DictionaryAssumption DEF Shape
<1>2. r[c] # Null => r[c] \in DOMAIN Dictionary /\ r[c] # NaN
  BY <1>1, RowTypes, DictionaryAssumption
<1>3. PlainAtom(p).op = "In" /\ PlainAtom(p).literals = p.values
  BY DEF PlainAtom
<1>4. MayHold(r[c], PlainAtom(p)) <=> r[c] # Null /\ r[c] \in p.values
  BY <1>2, <1>3 DEF MayHold
<1>5. ASSUME Coded(p), r[c] # Null PROVE r[c] \in p.values <=> Dictionary[r[c]] \in p.codes
  <2>1. p.codes = {Dictionary[v] : v \in p.values \cap DOMAIN Dictionary}
    BY <1>5 DEF Coded, resolve_file_codes
  <2>2. \A v \in DOMAIN Dictionary : Dictionary[v] = Dictionary[r[c]] => v = r[c]
    BY <1>2, <1>5, DictionaryAssumption
  <2> QED BY <1>2, <1>5, <2>1, <2>2
<1> QED BY <1>4, <1>5

(* A predicate rules out only morsels without a row that may hold it,       *)
(* unless it asks for codes in an index that is misread.                    *)
LEMMA PredicatePrunesSound ==
  ASSUME FileOK, NEW m \in Morsels, NEW p, Shape(p), Coded(p), predicate_prunes(m, p),
         p.kind = "FileCodeIn" /\ p.codes # {} => ~ExactMisread /\ ~BloomMisread,
         NEW r \in table[m]
  PROVE  ~MayHold(r[p.column], PlainAtom(p))
<1> DEFINE c == p.column
           a == PlainAtom(p)
<1>1. c \in Columns /\ p \in Predicates
  BY DEF Shape, Predicates
<1>2. a.column = c /\ a.literals = p.values /\ (p.kind # "FileCodeIn" => a.op = p.op)
  BY DEF PlainAtom
<1>3. CASE p.kind = "Null"
  <2>1. p.op \in NullTests /\ NullOutcome(m, p) = "NoMatch"
    BY <1>3 DEF Shape, predicate_prunes
  <2>2. a = [column |-> c, op |-> p.op, literals |-> p.values]
    BY <1>3 DEF PlainAtom
  <2>3. {x \in table[m] : MayHold(x[c], a)} = {}
    BY <1>1, <2>1, <2>2, NullAgrees DEF Agrees
  <2> QED BY <2>3
<1>4. CASE p.kind = "Numeric"
  <2>1. PICK v \in Int : p.values = {v}
    BY <1>4 DEF Shape
  <2>2. c \notin CodeColumns /\ p.op \in Comparisons /\ NumberOutcome(m, c, p.op, v) = "NoMatch"
    BY <1>4, <2>1 DEF Shape, predicate_prunes
  <2>3. a = [column |-> c, op |-> p.op, literals |-> {v}]
    BY <1>4, <2>1 DEF PlainAtom
  <2>4. {x \in table[m] : MayHold(x[c], a)} = {}
    BY <1>1, <2>2, <2>3, NumberAgrees DEF Agrees
  <2> QED BY <2>4
<1>5. CASE p.kind = "NumericIn"
  <2>1. /\ p.op = "In" /\ c \notin CodeColumns /\ p.values \subseteq Int
        /\ \A v \in p.values : NumberOutcome(m, c, "Eq", v) = "NoMatch"
    BY <1>5 DEF Shape, predicate_prunes
  <2> SUFFICES ASSUME MayHold(r[c], a) PROVE FALSE
    OBVIOUS
  <2>2. r[c] \in p.values /\ r[c] # Null /\ r[c] # NaN
    BY <1>2, <1>5, <2>1 DEF MayHold
  <2> DEFINE v == r[c]
             b == [column |-> c, op |-> "Eq", literals |-> {v}]
  <2>3. v \in Int /\ "Eq" \in Comparisons
    BY <2>1, <2>2 DEF Comparisons
  <2>4. MayHold(v, b)
    BY <2>2 DEF MayHold
  <2> HIDE DEF v
  <2>5. Agrees(NumberOutcome(m, c, "Eq", v), {x \in table[m] : MayHold(x[c], b)}, table[m])
    BY <1>1, <2>1, <2>3, NumberAgrees
  <2>6. NumberOutcome(m, c, "Eq", v) = "NoMatch"
    BY <2>1, <2>2 DEF v
  <2>7. {x \in table[m] : MayHold(x[c], b)} = {}
    BY <2>5, <2>6 DEF Agrees
  <2> QED BY <2>4, <2>7 DEF v
<1>6. CASE p.kind = "FileCodeIn"
  <2>1. codes_prune(m, c, p.codes) /\ c \in CodeColumns
    BY <1>6 DEF predicate_prunes, Shape
  <2>2. MayHold(r[c], a) => r[c] # Null /\ Dictionary[r[c]] \in p.codes
    BY <1>6, <2>1, HoldsCode
  <2>3. ASSUME MayHold(r[c], a) PROVE FALSE
    <3>1. ~ExactMisread /\ ~BloomMisread
      BY <1>6, <2>2, <2>3
    <3> QED BY <2>1, <2>2, <2>3, <3>1, CodesPruneSound
  <2> QED BY <2>3
<1> QED BY <1>3, <1>4, <1>5, <1>6 DEF predicate_prunes

(* Page null counts rule out only morsels without such rows.                *)
LEMMA NullPagesSound ==
  ASSUME FileOK, NEW m \in Morsels, NEW p, Shape(p), p.kind = "Null", NEW r \in table[m],
         \/ p.op = "IsNull" /\ Nulls(m, p.column) = "none"
         \/ p.op = "IsNotNull" /\ Nulls(m, p.column) = "all"
  PROVE  ~MayHold(r[p.column], PlainAtom(p))
<1>1. p.column \in Columns
  BY DEF Shape, Predicates
<1>2. PlainAtom(p).op = p.op
  BY DEF PlainAtom
<1>3. IF p.op = "IsNull" THEN r[p.column] # Null ELSE r[p.column] = Null
  BY <1>1, NullsTrue
<1> QED BY <1>2, <1>3 DEF MayHold

-----------------------------------------------------------------------------
(* The form that a predicate matches asks no more of a value than it.       *)
LEMMA FormFollows ==
  ASSUME NEW p, Shape(p), FormOf(p).column \in Columns, NEW v, MayHold(v, PlainAtom(p))
  PROVE  FormOf(p).column = p.column /\ MayHold(v, FormAtom(FormOf(p)))
<1> DEFINE a == PlainAtom(p)
           f == FormOf(p)
           w == CHOOSE x \in p.values : TRUE
<1>1. f # NoForm
  <2>1. NoForm.column = None
    BY DEF NoForm
  <2> QED BY <2>1, DictionaryAssumption
<1>2. a.literals = p.values /\ (p.kind # "FileCodeIn" => a.op = p.op)
  BY DEF PlainAtom
<1>3. CASE p.kind = "Null"
  <2>1. f = [column |-> p.column, op |-> p.op, value |-> None] /\ p.op \in NullTests
    BY <1>3 DEF FormOf, Shape
  <2>2. FormAtom(f).op = p.op
    BY <2>1 DEF FormAtom
  <2> QED BY <1>2, <1>3, <2>1, <2>2 DEF MayHold, NullTests
<1>4. CASE p.kind = "Numeric"
  <2>1. f = [column |-> p.column, op |-> p.op, value |-> w] /\ p.values = {w}
    BY <1>4 DEF FormOf, Shape
  <2>2. FormAtom(f).op = p.op /\ FormAtom(f).literals = p.values
    BY <2>1 DEF FormAtom
  <2> HIDE DEF f, w
  <2> QED BY <1>2, <1>4, <2>1, <2>2 DEF MayHold, f
<1>5. CASE p.kind \in {"NumericIn", "FileCodeIn"}
  <2>1. f = [column |-> p.column, op |-> "Eq", value |-> w] /\ Cardinality(p.values) = 1
    BY <1>1, <1>5 DEF FormOf
  <2>2. p.values = {w}
    <3>1. PICK x : p.values = {x}
      BY <2>1, OneElement DEF Shape
    <3> QED BY <3>1
  <2>3. a.op = "In"
    BY <1>5 DEF PlainAtom, Shape
  <2>4. FormAtom(f).op = "Eq" /\ FormAtom(f).literals = {w}
    BY <2>1 DEF FormAtom
  <2>5. v = w /\ v # Null /\ v # NaN
    <3> HIDE DEF f, w
    <3> QED BY <1>2, <2>2, <2>3 DEF MayHold
  <2>6. MayHold(v, FormAtom(f))
    <3> HIDE DEF f, w
    <3> QED BY <2>4, <2>5 DEF MayHold
  <2> QED BY <2>1, <2>6
<1> QED BY <1>1, <1>3, <1>4, <1>5 DEF FormOf

(* As many hidden rows as rows means that every row is hidden.              *)
LEMMA AllHidden ==
  ASSUME FileOK, NEW m \in Morsels, morsel_all_hidden(m)
  PROVE  table[m] \subseteq hidden[m]
<1>1. IsFiniteSet(table[m])
  BY RowTypes
<1>2. hidden[m] \cap table[m] \in SUBSET table[m]
  OBVIOUS
<1>3. Cardinality(hidden[m] \cap table[m]) = Cardinality(table[m])
  BY DEF morsel_all_hidden, hidden_rows_in_range
<1>4. hidden[m] \cap table[m] = table[m]
  BY <1>1, <1>2, <1>3, FS_Subset
<1> QED BY <1>4

(* Coverage proofs that may be used list every morsel with a row of their   *)
(* form.                                                                    *)
LEMMA CoverageSound ==
  ASSUME FileOK, NEW m \in Morsels, NEW form, NEW cached,
         coverage_atom_decision(m, form, cached) = "Pruned", NEW r \in table[m] \ hidden[m]
  PROVE  ~MayHold(r[form.column], FormAtom(form))
<1>1. ~morsel_all_hidden(m)
  BY AllHidden
<1>2. morsel_visibility_decision(m) # "Pruned"
  BY <1>1 DEF morsel_visibility_decision
<1>3. PICK ks \in SUBSET Usable(form) : RecordsDecision(m, ks) = "Pruned"
  BY <1>2 DEF coverage_atom_decision
<1>4. PICK k \in ks : ~coverage_set_covers_morsel(k, m)
  BY <1>3 DEF RecordsDecision
<1>5. /\ k \in coverage /\ k.form = form /\ coverage_record_usable(k)
      /\ coverage_snapshot_matches_selected(k) /\ coverage_chain_matches(k)
      /\ coverage_granularity_maps_to_morsels(k)
  BY <1>4 DEF Usable
<1>6. ~k.misses
  BY <1>5, CoverageAssumption DEF FileOK, coverage_record_usable,
     coverage_snapshot_matches_selected, coverage_chain_matches, coverage_granularity_maps_to_morsels
<1>7. m \notin Holding(form)
  BY <1>4, <1>5, <1>6 DEF coverage_set_covers_morsel
<1> QED BY <1>7 DEF Holding

(* Coverage forms are about columns of the table.                           *)
LEMMA FormColumn ==
  ASSUME FileOK, PlanMade, NEW form \in plan.forms
  PROVE  form.column \in Columns
  BY CoverageAssumption DEF FileOK, PlanMade

(* A visible row that may hold a predicate keeps its morsel from being      *)
(* pruned by coverage.                                                      *)
LEMMA CoveredPredicate ==
  ASSUME FileOK, PlanMade, NEW m \in Morsels, NEW p, Shape(p), FormOf(p) \in plan.forms,
         NEW cached, coverage_atom_decision(m, FormOf(p), cached) = "Pruned",
         NEW r \in table[m] \ hidden[m]
  PROVE  ~MayHold(r[p.column], PlainAtom(p))
<1> SUFFICES ASSUME MayHold(r[p.column], PlainAtom(p)) PROVE FALSE
  OBVIOUS
<1>1. FormOf(p).column = p.column /\ MayHold(r[p.column], FormAtom(FormOf(p)))
  BY FormColumn, FormFollows
<1> QED BY <1>1, CoverageSound

(* The coverage expressions of filters that a visible row passes include    *)
(* its morsel or leave it open.                                             *)
LEMMA ExpressionsSound ==
  ASSUME FileOK, PlanMade, NEW m \in Morsels, NEW f \in plan.filters, attached(f),
         NEW r \in table[m] \ hidden[m], Passes(r, f)
  PROVE  coverage_expr_decision(m, f.groups) # "Pruned"
<1> DEFINE D(p) == coverage_atom_decision(m, FormOf(p), TRUE)
           E(g) == AndDecision({D(p) : p \in g})
<1>1. PICK g \in f.groups : \A p \in g : MayHold(r[p.column], PlainAtom(p))
  BY DEF Passes
<1>2. \A p \in g : D(p) # "Pruned"
  <2> SUFFICES ASSUME NEW p \in g PROVE D(p) # "Pruned"
    OBVIOUS
  <2>1. Shape(p) /\ FormOf(p) \in plan.forms
    BY PlanFollows DEF attached
  <2> QED BY <1>1, <2>1, CoveredPredicate
<1>3. "Pruned" \notin {D(p) : p \in g}
  BY <1>2
<1>4. E(g) \in {"Included", "Unknown"}
  <2> HIDE DEF D
  <2> QED BY <1>3 DEF AndDecision
<1>5. coverage_expr_decision(m, f.groups) = OrDecision({E(h) : h \in f.groups})
  BY DEF coverage_expr_decision
<1> HIDE DEF E
<1>6. "Included" \in {E(h) : h \in f.groups} \/ "Unknown" \in {E(h) : h \in f.groups}
  BY <1>1, <1>4
<1> QED BY <1>5, <1>6 DEF OrDecision

-----------------------------------------------------------------------------
(* The place of word j of entry e among entries of w words.                 *)
LEMMA WordPlace ==
  ASSUME NEW w \in Nat \ {0}, NEW n \in Nat, NEW e \in 1..n, NEW j \in 1..w
  PROVE  LET i == (e - 1) * w + j IN
         i \in 1..(n * w) /\ ((i - 1) \div w) + 1 = e /\ ((i - 1) % w) + 1 = j
<1> DEFINE x == e - 1
           y == j - 1
           i == x * w + j
<1>1. x \in Nat /\ y \in Nat /\ y < w /\ x < n
  OBVIOUS
<1>2. i - 1 = x * w + y /\ x * w \in Nat /\ i \in Nat
  BY <1>1
<1> HIDE DEF x, y
<1>3. (x * w + y) \div w = x /\ (x * w + y) % w = y
  BY <1>1
<1>4. x * w + y < n * w
  BY <1>1
<1>5. i \in 1..(n * w)
  BY <1>1, <1>2, <1>4
<1> HIDE DEF i
<1>6. ((i - 1) \div w) + 1 = e /\ ((i - 1) % w) + 1 = j
  BY <1>2, <1>3 DEF x, y
<1> QED BY <1>5, <1>6 DEF i, x

(* The length of n entries of w words tells n.                              *)
LEMMA WholeEntries ==
  ASSUME NEW w \in Nat \ {0}, NEW n \in Nat
  PROVE  n * w \in Nat /\ (n * w) % w = 0 /\ (n * w) \div w = n
  OBVIOUS

(* An entry of the tuple layout has the codes of the keys in its odd words, *)
(* zeros in its even words, then segment and morsel.                        *)
LEMMA TupleLayout ==
  ASSUME NEW m \in Morsels, NEW r
  PROVE  LET t == TupleWords(m, r)
             keys == Len(KeyColumns)
         IN  /\ Len(t) = 2 * keys + 2 /\ t[2 * keys + 1] = 0 /\ t[2 * keys + 2] = m
             /\ \A k \in 1..keys : t[2 * k - 1] = Dictionary[r[KeyColumns[k]]] /\ t[2 * k] = 0
<1> DEFINE keys == Len(KeyColumns)
           word(k, j) == Low(Dictionary[r[KeyColumns[k]]])[j]
           s == [i \in 1..(keys * 2) |-> word(((i - 1) \div 2) + 1, ((i - 1) % 2) + 1)]
           t == TupleWords(m, r)
<1>1. keys \in Nat
  BY FileAssumption
<1>2. t = s \o <<0, m>>
  BY DEF TupleWords, InRow
<1>3. \A k, j : word(k, 1) = Dictionary[r[KeyColumns[k]]] /\ word(k, 2) = 0
  BY DEF Low
<1> HIDE DEF word, keys
<1>4. s \in Seq({s[i] : i \in 1..(keys * 2)} \cup {0, m}) /\ Len(s) = keys * 2
  <2>1. keys * 2 \in Nat /\ DOMAIN s = 1..(keys * 2)
    BY <1>1
  <2>2. s \in [1..(keys * 2) -> {s[i] : i \in 1..(keys * 2)} \cup {0, m}]
    OBVIOUS
  <2> HIDE DEF s
  <2> QED BY <2>1, <2>2
<1>5. ASSUME NEW k \in 1..keys
      PROVE  /\ s[2 * k - 1] = word(k, 1) /\ s[2 * k] = word(k, 2)
             /\ 2 * k - 1 \in 1..(keys * 2) /\ 2 * k \in 1..(keys * 2)
  <2>1. (k - 1) * 2 + 1 = 2 * k - 1 /\ (k - 1) * 2 + 2 = 2 * k
    BY <1>1
  <2>2. \A j \in 1..2 : LET i == (k - 1) * 2 + j IN
          i \in 1..(keys * 2) /\ ((i - 1) \div 2) + 1 = k /\ ((i - 1) % 2) + 1 = j
    BY <1>1, WordPlace
  <2>3. \A j \in 1..2 : s[(k - 1) * 2 + j] = word(k, j)
    BY <2>2
  <2> HIDE DEF s
  <2> QED BY <2>1, <2>2, <2>3
<1> HIDE DEF s
<1>6. Len(t) = 2 * keys + 2 /\ t[2 * keys + 1] = 0 /\ t[2 * keys + 2] = m
  <2> DEFINE X == {s[i] : i \in 1..(keys * 2)} \cup {0, m}
  <2>1. <<0, m>> \in Seq(X) /\ Len(<<0, m>>) = 2
    OBVIOUS
  <2>2. s \in Seq(X) /\ Len(s) = 2 * keys
    BY <1>1, <1>4
  <2> HIDE DEF t, X
  <2> QED BY <1>1, <1>2, <2>1, <2>2
<1>7. \A i \in 1..(keys * 2) : t[i] = s[i]
  BY <1>1, <1>2, <1>4
<1>8. \A k \in 1..keys : t[2 * k - 1] = Dictionary[r[KeyColumns[k]]] /\ t[2 * k] = 0
  BY <1>3, <1>5, <1>7
<1> HIDE DEF t
<1> QED BY <1>6, <1>8 DEF t, keys

(* A composite index has finitely many tuples.                              *)
LEMMA TuplesFinite ==
  ASSUME FileOK
  PROVE  IsFiniteSet(Tuples)
<1> DEFINE T(m) == {TupleWords(m, r) : r \in Keyed(m)}
           f == [m \in Morsels |-> T(m)]
           F == {f[m] : m \in Morsels}
<1>1. ASSUME NEW m \in Morsels PROVE IsFiniteSet(T(m))
  <2> DEFINE g == [r \in Keyed(m) |-> TupleWords(m, r)]
  <2>1. IsFiniteSet(Keyed(m))
    <3>1. Keyed(m) \in SUBSET table[m]
      BY DEF Keyed
    <3> QED BY <3>1, RowTypes, FS_Subset
  <2>2. T(m) = {g[r] : r \in Keyed(m)}
    OBVIOUS
  <2> HIDE DEF g, T
  <2> QED BY <2>1, <2>2, FiniteImage
<1>2. Tuples = UNION F
  BY DEF Tuples
<1> HIDE DEF T
<1>3. \A S \in F : IsFiniteSet(S)
  BY <1>1
<1>4. IsFiniteSet(F)
  <2> HIDE DEF f
  <2> QED BY FileAssumption, FiniteImage
<1> HIDE DEF F
<1> QED BY <1>2, <1>3, <1>4, FS_UNION

(* SetToSeq lists every member.                                             *)
LEMMA SeqOfSet ==
  ASSUME NEW S, IsFiniteSet(S)
  PROVE  /\ Cardinality(S) \in Nat /\ Len(SetToSeq(S)) = Cardinality(S)
         /\ \A x \in S : \E i \in 1..Cardinality(S) : SetToSeq(S)[i] = x
<1> DEFINE n == Cardinality(S)
           t == SetToSeq(S)
<1>1. n \in Nat /\ ExistsBijection(1..n, S)
  BY FS_CardinalityType
<1>2. \E f \in [1..n -> S] : IsInjective(f)
  BY <1>1 DEF ExistsBijection, Bijection, Injection, IsInjective
<1>3. t \in [1..n -> S] /\ IsInjective(t)
  BY <1>2 DEF SetToSeq
<1> HIDE DEF t, n
<1>4. t \in Injection(1..n, S)
  BY <1>3 DEF Injection, IsInjective
<1>5. IsFiniteSet(1..n) /\ Cardinality(1..n) = n
  BY <1>1, FS_Interval
<1>6. t \in Surjection(1..n, S)
  BY <1>4, <1>5, FS_Injection DEF n
<1>7. \A x \in S : \E i \in 1..n : t[i] = x
  BY <1>6 DEF Surjection
<1>8. Len(t) = n
  BY <1>1, <1>3
<1> QED BY <1>1, <1>7, <1>8 DEF t, n

(* A reader finds no entries in an index of the converter's layout and      *)
(* leaves the morsel alone, unless the length of its data is a multiple of  *)
(* an entry's.                                                              *)
LEMMA ConverterIgnored ==
  ASSUME FileOK, ~CompositeMisread, have.composite = "converter", NEW m \in Morsels
  PROVE  composite_tuple_has_match(m) # FALSE
<1> DEFINE n == Cardinality(Morsels)
           keys == Len(KeyColumns)
           N == n * (4 * keys + 3)
           words == CompositeWords
<1>1. n \in Nat /\ keys \in Nat
  BY FileAssumption, FS_CardinalityType
<1>2. N \in Nat
  BY <1>1
<1>3. \E s : words = [i \in 1..N |-> s[i]]
  <2> DEFINE zone(e, j) == ZoneWords(e - 1)[j]
             w == 4 * keys + 3
             s == [i \in 1..N |-> zone(((i - 1) \div w) + 1, ((i - 1) % w) + 1)]
  <2>1. words = s
    BY DEF CompositeWords, InRow
  <2>2. s = [i \in 1..N |-> s[i]]
    OBVIOUS
  <2> QED BY <2>1, <2>2
<1> HIDE DEF words, N
<1>4. Len(words) = N
  BY <1>2, <1>3
<1>5. N % (2 * keys + 2) # 0
  BY DEF CompositeMisread, N
<1>6. composite_tuple_has_match(m) = None
  BY <1>4, <1>5 DEF composite_tuple_has_match, words
<1> QED BY <1>6, MarkerAssumption

(* A file's tuples are all found by the reader.                             *)
LEMMA TuplesFound ==
  ASSUME FileOK, have.composite = "tuples", NEW m \in Morsels, NEW r \in Keyed(m)
  PROVE  LET width == 2 * Len(KeyColumns) + 2 IN
         /\ Len(CompositeWords) % width = 0
         /\ \E e \in 0..((Len(CompositeWords) \div width) - 1) :
              \A j \in 1..width : CompositeWords[e * width + j] = TupleWords(m, r)[j]
<1> DEFINE w == 2 * Len(KeyColumns) + 2
           ts == SetToSeq(Tuples)
           n == Cardinality(Tuples)
           words == CompositeWords
<1>1. w \in Nat \ {0}
  BY FileAssumption
<1>2. /\ n \in Nat /\ Len(ts) = n
      /\ \A x \in Tuples : \E i \in 1..n : ts[i] = x
  BY TuplesFinite, SeqOfSet
<1>3. TupleWords(m, r) \in Tuples
  BY DEF Tuples
<1>4. PICK i \in 1..n : ts[i] = TupleWords(m, r)
  BY <1>2, <1>3
<1>5. words = [x \in 1..(n * w) |-> ts[((x - 1) \div w) + 1][((x - 1) % w) + 1]]
  BY <1>2 DEF CompositeWords, InRow
<1> HIDE DEF w, ts, n, words
<1>6. n * w \in Nat /\ (n * w) % w = 0 /\ (n * w) \div w = n
  BY <1>1, <1>2, WholeEntries
<1>7. Len(words) = n * w
  BY <1>5, <1>6
<1>8. \A j \in 1..w : words[(i - 1) * w + j] = ts[i][j]
  <2> SUFFICES ASSUME NEW j \in 1..w PROVE words[(i - 1) * w + j] = ts[i][j]
    OBVIOUS
  <2> DEFINE x == (i - 1) * w + j
  <2>1. x \in 1..(n * w) /\ ((x - 1) \div w) + 1 = i /\ ((x - 1) % w) + 1 = j
    BY <1>1, <1>2, WordPlace
  <2> HIDE DEF x
  <2>2. words[x] = ts[i][j]
    BY <1>5, <2>1
  <2> QED BY <2>2 DEF x
<1>9. i - 1 \in 0..(n - 1)
  BY <1>2
<1>10. Len(words) % w = 0 /\ Len(words) \div w = n
  BY <1>6, <1>7
<1>11. \E e \in 0..(n - 1) : \A j \in 1..w : words[e * w + j] = TupleWords(m, r)[j]
  BY <1>4, <1>8, <1>9
<1> QED BY <1>10, <1>11 DEF w, words

(* A row that satisfies the query has codes that the query asks for in      *)
(* every column with such a filter.                                         *)
LEMMA FilterCodes ==
  ASSUME FileOK, PlanMade, NEW m \in Morsels, NEW r \in table[m], Satisfies(r, query),
         NEW c, file_code_filter_for_column(c) # None
  PROVE  r[c] # Null /\ Dictionary[r[c]] \in file_code_filter_for_column(c)
<1> DEFINE fs == {f \in plan.filters : /\ f.predicate # None /\ f.predicate.kind = "FileCodeIn"
                                       /\ f.predicate.column = c}
           f == CHOOSE x \in fs : TRUE
<1>1. fs # {} /\ file_code_filter_for_column(c) = f.predicate.codes
  BY DEF file_code_filter_for_column
<1>2. f \in fs
  BY <1>1
<1> HIDE DEF f
<1>3. /\ f \in plan.filters /\ f.predicate # None /\ f.predicate.kind = "FileCodeIn"
      /\ f.predicate.column = c
  BY <1>2
<1>4. Shape(f.predicate) /\ Coded(f.predicate) /\ Passes(r, f)
  BY <1>3, PlanFollows
<1>5. MayHold(r[c], PlainAtom(f.predicate))
  BY <1>3, <1>4 DEF Passes
<1> QED BY <1>1, <1>3, <1>4, <1>5, HoldsCode

(* A composite index rules out only morsels without a row of the query,     *)
(* unless it is misread.                                                    *)
LEMMA CompositeSound ==
  ASSUME FileOK, PlanMade, ~AsksMisread, NEW m \in Morsels, composite_prunes_morsel(m),
         NEW r \in table[m]
  PROVE  ~Satisfies(r, query)
<1> SUFFICES ASSUME Satisfies(r, query) PROVE FALSE
  OBVIOUS
<1> DEFINE codes(i) == file_code_filter_for_column(KeyColumns[i])
           keys == Len(KeyColumns)
           width == 2 * keys + 2
           words == CompositeWords
           Matches(i) == /\ words[i + 2 * keys + 1] = 0 /\ words[i + 2 * keys + 2] = m
                         /\ \A k \in 1..keys : /\ words[i + 2 * k] = 0
                                               /\ words[i + 2 * k - 1] \in codes(k)
<1>1. keys \in Nat /\ DOMAIN KeyColumns = 1..keys
  BY FileAssumption
<1>2. \A i \in 1..keys : codes(i) # None => /\ r[KeyColumns[i]] # Null
                                           /\ Dictionary[r[KeyColumns[i]]] \in codes(i)
  BY FilterCodes
<1>3. /\ have.composite \in {"tuples", "converter"}
      /\ \/ \E i \in 1..keys : codes(i) = {} /\ \A j \in 1..i : codes(j) # None
         \/ /\ \A i \in 1..keys : codes(i) # None
            /\ composite_tuple_has_match(m) = FALSE
  BY <1>1 DEF composite_prunes_morsel
<1> HIDE DEF codes
<1>4. ~\E i \in 1..keys : codes(i) = {} /\ \A j \in 1..i : codes(j) # None
  <2> SUFFICES ASSUME NEW i \in 1..keys, codes(i) = {}, codes(i) # None PROVE FALSE
    BY <1>1
  <2> QED BY <1>2
<1>5. (\A i \in 1..keys : codes(i) # None) /\ composite_tuple_has_match(m) = FALSE
  BY <1>3, <1>4
<1>6. have.composite = "tuples"
  <2>1. ~CompositeMisread
    BY <1>1, <1>5 DEF AsksMisread, codes
  <2> QED BY <1>3, <1>5, <2>1, ConverterIgnored
<1>7. r \in Keyed(m)
  BY <1>1, <1>2, <1>5 DEF Keyed
<1>8. /\ Len(words) % width = 0
      /\ \E e \in 0..((Len(words) \div width) - 1) :
           \A j \in 1..width : words[e * width + j] = TupleWords(m, r)[j]
  BY <1>6, <1>7, TuplesFound
<1>9. PICK e \in 0..((Len(words) \div width) - 1) :
        \A j \in 1..width : words[e * width + j] = TupleWords(m, r)[j]
  BY <1>8
<1>10. ~\E x \in 0..((Len(words) \div width) - 1) : Matches(x * width)
  <2>1. composite_tuple_has_match(m)
          = \E x \in 0..((Len(words) \div width) - 1) : Matches(x * width)
    BY <1>8 DEF composite_tuple_has_match, codes
  <2> HIDE DEF Matches, words, width
  <2> QED BY <1>5, <2>1
<1> DEFINE t == TupleWords(m, r)
           b == e * width
<1>11. /\ t[2 * keys + 1] = 0 /\ t[2 * keys + 2] = m
       /\ \A k \in 1..keys : t[2 * k - 1] = Dictionary[r[KeyColumns[k]]] /\ t[2 * k] = 0
  BY TupleLayout
<1> HIDE DEF t, words
<1>12. b \in Nat
  <2>1. width \in Nat /\ e \in Nat
    BY <1>1
  <2> HIDE DEF width
  <2> QED BY <2>1
<1>13. \A j \in 1..(2 * keys + 2) : words[b + j] = t[j]
  BY <1>9 DEF t
<1> HIDE DEF b
<1>14. words[b + 2 * keys + 1] = 0 /\ words[b + 2 * keys + 2] = m
  <2>1. 2 * keys + 1 \in 1..(2 * keys + 2) /\ 2 * keys + 2 \in 1..(2 * keys + 2)
    BY <1>1
  <2>2. b + (2 * keys + 1) = b + 2 * keys + 1 /\ b + (2 * keys + 2) = b + 2 * keys + 2
    BY <1>1, <1>12
  <2> QED BY <1>11, <1>13, <2>1, <2>2
<1>15. ASSUME NEW k \in 1..keys PROVE words[b + 2 * k] = 0 /\ words[b + 2 * k - 1] \in codes(k)
  <2>1. 2 * k \in 1..(2 * keys + 2) /\ 2 * k - 1 \in 1..(2 * keys + 2)
    BY <1>1
  <2>2. b + (2 * k - 1) = b + 2 * k - 1
    BY <1>1, <1>12
  <2>3. words[b + 2 * k] = t[2 * k] /\ words[b + 2 * k - 1] = t[2 * k - 1]
    BY <1>13, <2>1, <2>2
  <2>4. Dictionary[r[KeyColumns[k]]] \in codes(k)
    BY <1>2, <1>5
  <2> QED BY <1>11, <2>3, <2>4
<1>16. Matches(b)
  BY <1>14, <1>15
<1> QED BY <1>9, <1>10, <1>16 DEF b

-----------------------------------------------------------------------------
(* Whatever rules a morsel out, no visible row of it satisfies the query,   *)
(* unless the query asks an index that is misread.                          *)
LEMMA PruneSound ==
  ASSUME FileOK, PlanMade, ~AsksMisread, NEW m \in Morsels, prune_morsel(m),
         NEW r \in table[m] \ hidden[m]
  PROVE  ~Satisfies(r, query)
<1> SUFFICES ASSUME Satisfies(r, query) PROVE FALSE
  OBVIOUS
<1>1. \A f \in plan.filters : Passes(r, f)
  BY PlanFollows
<1>2. ~morsel_all_hidden(m)
  BY AllHidden
<1>3. ~composite_prunes_morsel(m)
  BY CompositeSound
<1>4. AndDecision({coverage_expr_decision(m, f.groups) : f \in {g \in plan.filters : attached(g)}})
        # "Pruned"
  <2>1. \A f \in {g \in plan.filters : attached(g)} : coverage_expr_decision(m, f.groups) # "Pruned"
    BY <1>1, ExpressionsSound
  <2> DEFINE ds == {coverage_expr_decision(m, f.groups) : f \in {g \in plan.filters : attached(g)}}
  <2>2. "Pruned" \notin ds
    BY <2>1
  <2> HIDE DEF ds
  <2>3. AndDecision(ds) # "Pruned"
    BY <2>2 DEF AndDecision
  <2> QED BY <2>3 DEF ds
<1>5. ASSUME NEW f \in plan.filters, filter_prunes_morsel(m, f) PROVE FALSE
  <2>1. f.predicate # None /\ Shape(f.predicate) /\ Coded(f.predicate)
    BY <1>5, PlanFollows DEF filter_prunes_morsel
  <2>2. MayHold(r[f.predicate.column], PlainAtom(f.predicate))
    BY <1>1, <2>1 DEF Passes
  <2>3. ~predicate_prunes(m, f.predicate)
    <3>1. f.predicate.kind = "FileCodeIn" /\ f.predicate.codes # {} => ~ExactMisread /\ ~BloomMisread
      BY <2>1 DEF AsksMisread
    <3> QED BY <2>1, <2>2, <3>1, PredicatePrunesSound
  <2>4. ~coverage_proof_prunes_morsel(m, f)
    BY <2>1, <2>2, CoveredPredicate DEF coverage_proof_prunes_morsel
  <2> QED BY <1>5, <2>3, <2>4 DEF filter_prunes_morsel
<1>6. ~morsel_pruned(m)
  BY <1>3, <1>4, <1>5 DEF morsel_pruned
<1>7. ~should_prune_morsel(m)
  <2> SUFFICES ASSUME NEW f \in plan.filters, f.predicate # None, f.predicate.kind = "Null",
                      \/ f.predicate.op = "IsNull" /\ Nulls(m, f.predicate.column) = "none"
                      \/ f.predicate.op = "IsNotNull" /\ Nulls(m, f.predicate.column) = "all"
               PROVE  FALSE
    BY DEF should_prune_morsel
  <2>1. Shape(f.predicate) /\ MayHold(r[f.predicate.column], PlainAtom(f.predicate))
    BY <1>1, PlanFollows DEF Passes
  <2> QED BY <2>1, NullPagesSound
<1> QED BY <1>2, <1>6, <1>7 DEF prune_morsel

(* Intact statistics of integers can be compared with every literal.        *)
LEMMA IntactZone ==
  ASSUME FileOK, NEW m \in Morsels, NEW c \in Columns \ CodeColumns, have.zone = "good"
  PROVE  LET z == zone_stats_for(m, c) IN
         z # None /\ z.min.kind = "NumCode" /\ z.max.kind = "NumCode"
<1> DEFINE z == NumberZone(m, c)
           vs == Values(m, c)
<1>1. vs \in SUBSET Int /\ IsFiniteSet(vs)
  BY CellTypes
<1>2. vs # {} => Min(vs) \in Int /\ Max(vs) \in Int
  BY <1>1, MinMax
<1>3. Nulls(m, c) \in {"none", "some", "all"}
  BY NullsTrue
<1>4. z.min.kind = "NumCode" /\ z.max.kind = "NumCode"
  BY DEF NumberZone
<1>5. z \in [nulls : {"none", "some", "all"}, min : Bounds, max : Bounds,
             flags : SUBSET {"HAS_MIN_MAX", "HAS_NAN", "MINMAX_TRUNCATED"}]
  BY <1>2, <1>3 DEF NumberZone, Bounds
<1>6. z # None
  BY <1>5, NoneIsNoZone
<1>7. zone_stats_for(m, c) = z
  BY <1>4 DEF zone_stats_for
<1> QED BY <1>4, <1>6, <1>7

(* A morsel that is read has a value between its ends for each comparison.  *)
LEMMA ReadTight ==
  ASSUME FileOK, PlanMade, NEW m \in Morsels, ~prune_morsel(m), NEW f \in plan.filters,
         f.predicate # None, f.predicate.kind = "Numeric", f.predicate.column \notin FloatColumns,
         have.zone = "good"
  PROVE  LET c == f.predicate.column IN
         /\ Values(m, c) # {}
         /\ \E v \in Min(Values(m, c))..Max(Values(m, c)) :
              MayHold(v, [column |-> c, op |-> f.predicate.op, literals |-> f.predicate.values])
<1> DEFINE p == f.predicate
           c == p.column
           op == p.op
           z == zone_stats_for(m, c)
           vs == Values(m, c)
<1>1. Shape(p) /\ ~predicate_prunes(m, p)
  BY PlanFollows DEF prune_morsel, morsel_pruned, filter_prunes_morsel
<1>2. PICK w \in Int : p.values = {w}
  BY <1>1 DEF Shape
<1>3. c \in Columns \ CodeColumns /\ op \in Comparisons
  BY <1>1 DEF Shape, Predicates
<1> DEFINE range == numeric_bounds(op, w)
<1>4. explain_numcode_range(range, z) # "NoMatch"
  BY <1>1, <1>2 DEF predicate_prunes, NumberOutcome
<1>5. z # None /\ z.min.kind = "NumCode" /\ z.max.kind = "NumCode"
  BY <1>3, IntactZone
<1>6. /\ z.nulls = Nulls(m, c)
      /\ "HAS_MIN_MAX" \in z.flags <=> vs # {}
      /\ "HAS_NAN" \in z.flags <=> NaN \in Cells(m, c)
      /\ "MINMAX_TRUNCATED" \notin z.flags
      /\ vs # {} => z.min.value = Min(vs) /\ z.max.value = Max(vs)
  BY <1>3, <1>5, NumberZoneIs
<1>7. ~NullOnly(z)
  BY <1>4, <1>5 DEF explain_numcode_range
<1>8. vs # {}
  <2>1. PICK r \in table[m] : r[c] # Null
    BY <1>3, <1>5, <1>6, <1>7, NullsTrue DEF NullOnly
  <2>2. r[c] # NaN
    BY <1>3, <2>1, RowTypes
  <2> QED BY <1>3, <2>1, <2>2, CellTypes
<1>9. vs \in SUBSET Int /\ IsFiniteSet(vs) /\ NaN \notin Cells(m, c)
  BY <1>3, CellTypes
<1>10. Min(vs) \in Int /\ Max(vs) \in Int /\ Min(vs) <= Max(vs)
  <2> HIDE DEF vs
  <2> QED BY <1>8, <1>9, MinMax
<1> DEFINE b == [kind |-> "NumCode", value |-> w]
<1>11. /\ range.lower \in {None, b} /\ range.upper \in {None, b}
       /\ op = "Eq" => range.lower = b /\ range.upper = b
                       /\ range.lower_inclusive /\ range.upper_inclusive
       /\ op # "Eq" => None \in {range.lower, range.upper}
  BY <1>3 DEF numeric_bounds, Comparisons
<1>12. IntBounds(range)
  BY <1>3, RangeMeans
<1> HIDE DEF range, z, vs, p
<1>13. Kind(range.lower, "NumCode") /\ Kind(range.upper, "NumCode")
  BY <1>11 DEF Kind
<1>14. Comparable(range, z)
  BY <1>5, <1>6, <1>8, <1>9, <1>13 DEF Comparable
<1>15. \/ None \in {range.lower, range.upper}
       \/ /\ range.lower_inclusive /\ range.upper_inclusive
          /\ range.lower.value <= range.upper.value
  BY <1>11
<1>16. PICK v \in z.min.value .. z.max.value : AboveLower(v, range) /\ BelowUpper(v, range)
  BY <1>4, <1>5, <1>6, <1>7, <1>8, <1>10, <1>12, <1>14, <1>15, DisjointTight
<1>17. v \in Min(vs)..Max(vs) /\ v \in Int
  BY <1>6, <1>8, <1>10, <1>16
<1>18. MayHold(v, [column |-> c, op |-> op, literals |-> {w}])
  BY <1>3, <1>16, <1>17, RangeMeans DEF range
<1> QED BY <1>2, <1>8, <1>17, <1>18 DEF vs, p

-----------------------------------------------------------------------------
(* The outcome of a plain predicate is true of the rows of a morsel.        *)
LEMMA OutcomeAgrees ==
  ASSUME FileOK, NEW m \in Morsels, NEW p, Shape(p), Coded(p),
         p.kind = "FileCodeIn" => ~ExactMisread
  PROVE  /\ Outcome(m, p) \in Outcomes
         /\ Agrees(Outcome(m, p), {r \in table[m] : MayHold(r[p.column], PlainAtom(p))}, table[m])
<1> DEFINE c == p.column
           a == PlainAtom(p)
           H == {r \in table[m] : MayHold(r[c], a)}
<1>1. c \in Columns
  BY DEF Shape, Predicates
<1>2. CASE p.kind = "Null"
  <2>1. p.op \in NullTests /\ Outcome(m, p) = NullOutcome(m, p)
    BY <1>2 DEF Shape, Outcome
  <2>2. a = [column |-> c, op |-> p.op, literals |-> p.values]
    BY <1>2 DEF PlainAtom
  <2> QED BY <1>1, <2>1, <2>2, NullAgrees
<1>3. CASE p.kind = "Numeric"
  <2>1. PICK v \in Int : p.values = {v}
    BY <1>3 DEF Shape
  <2>2. (CHOOSE x \in p.values : TRUE) = v
    BY <2>1
  <2>3. Outcome(m, p) = NumberOutcome(m, c, p.op, v)
    BY <1>3, <2>2 DEF Outcome
  <2>4. c \in Columns \ CodeColumns /\ p.op \in Comparisons
    BY <1>1, <1>3 DEF Shape
  <2>5. a = [column |-> c, op |-> p.op, literals |-> {v}]
    BY <1>3, <2>1 DEF PlainAtom
  <2> QED BY <2>3, <2>4, <2>5, NumberAgrees
<1>4. CASE p.kind = "FileCodeIn" /\ Cardinality(p.codes) = 1
  <2>1. p.codes = {Dictionary[v] : v \in p.values \cap DOMAIN Dictionary}
    BY <1>4 DEF Coded, resolve_file_codes
  <2>2. IsFiniteSet(p.values \cap DOMAIN Dictionary)
    BY FS_Intersection DEF Shape
  <2>3. IsFiniteSet(p.codes)
    BY <2>1, <2>2, FiniteImage
  <2>4. PICK k : p.codes = {k}
    BY <1>4, <2>3, OneElement
  <2>5. (CHOOSE x \in p.codes : TRUE) = k
    BY <2>4
  <2>6. Outcome(m, p) = CodeOutcome(m, c, k) /\ c \in CodeColumns
    BY <1>4, <2>5 DEF Outcome, Shape
  <2>7. H = WithCode(m, c, k)
    BY <1>4, <2>4, HoldsCode DEF WithCode
  <2> QED BY <1>4, <2>6, <2>7, CodeAgrees
<1>5. CASE /\ p.kind \notin {"Null", "Numeric"}
           /\ ~(p.kind = "FileCodeIn" /\ Cardinality(p.codes) = 1)
  <2>1. Outcome(m, p) = "Unknown"
    BY <1>5 DEF Outcome
  <2> QED BY <2>1 DEF Outcomes, Agrees
<1> QED BY <1>2, <1>3, <1>4, <1>5

(* Ranges of ranks are true of the rows of a morsel.                        *)
LEMMA RanksAgree ==
  ASSUME FileOK, NEW m \in Morsels, NEW c \in CodeColumns, NEW lo \in Int, NEW hi \in Int
  PROVE  Agrees(explain_resolved_domain_rank_range(lo, hi, zone_stats_for(m, c), column_domain_for(c)),
                {r \in table[m] : r[c] # Null /\ RankOf(r[c], c) \in lo..hi}, table[m])
<1> DEFINE z == zone_stats_for(m, c)
           d == column_domain_for(c)
           null == {r \in table[m] : r[c] = Null}
           rank == [r \in table[m] |-> RankOf(r[c], c)]
           H == {r \in table[m] : r[c] # Null /\ RankOf(r[c], c) \in lo..hi}
           outcome == explain_resolved_domain_rank_range(lo, hi, z, d)
<1>1. c \in Columns
  BY DictionaryAssumption
<1>2. CASE z = None
  <2>1. lo > hi => H = {}
    OBVIOUS
  <2>2. outcome = IF lo > hi THEN "NoMatch" ELSE "Unknown"
    BY <1>2 DEF explain_resolved_domain_rank_range
  <2> HIDE DEF outcome, H
  <2>3. Agrees(outcome, H, table[m])
    BY <2>1, <2>2 DEF Agrees
  <2> QED BY <2>3 DEF outcome, H
<1>3. CASE z # None
  <2>1. z.nulls = Nulls(m, c)
    BY <1>1, <1>3, ZoneNulls
  <2>2. /\ z.nulls = "all" <=> table[m] \subseteq null
        /\ z.nulls = "none" => table[m] \cap null = {}
    BY <1>1, <2>1, NullsTrue
  <2>3. z.min_domain_rank \in Int /\ z.max_domain_rank \in Int
    BY <1>3, ZoneRanks
  <2>4. ASSUME NEW r \in table[m] \ null
        PROVE  rank[r] = RankOf(r[c], c) /\ rank[r] \in Int
               /\ z.min_domain_rank <= rank[r] /\ rank[r] <= z.max_domain_rank
    <3>1. r[c] \in Values(m, c)
      BY CodedRow
    <3> QED BY <1>3, <3>1, ZoneRanks
  <2> HIDE DEF z, d, rank
  <2>5. RanksDescribe(z, null, rank, table[m])
    BY <1>3, <2>2, <2>3, <2>4 DEF RanksDescribe
  <2>6. Agrees(outcome, {r \in table[m] \ null : lo <= rank[r] /\ rank[r] <= hi}, table[m])
    BY <2>5, RankRangeSound
  <2>7. H = {r \in table[m] \ null : lo <= rank[r] /\ rank[r] <= hi}
    BY <2>4
  <2>8. Agrees(outcome, H, table[m])
    BY <2>6, <2>7
  <2> QED BY <2>8 DEF z, d
<1> QED BY <1>2, <1>3

-----------------------------------------------------------------------------
(* The file does not change, and the plan is the lowered query.             *)
PlanInv ==
  /\ FileOK
  /\ plan # None => PlanMade
  /\ pruned \subseteq Morsels /\ kept \subseteq Morsels \ pruned
  /\ plan = None => pruned \cup kept = {}

(* The invariant holds of every file before planning.                       *)
LEMMA PlanInvInit == PruneInit => PlanInv
  BY DEF PruneInit, PlanInv, FileOK

(* Planning establishes the plan, and skipping and reading leave it and the *)
(* file alone.                                                              *)
LEMMA PlanInvNext == PlanInv /\ [PruneNext]_prune_vars => PlanInv'
<1> SUFFICES ASSUME PlanInv, [PruneNext]_prune_vars PROVE PlanInv'
  OBVIOUS
<1>1. UNCHANGED file
  BY DEF PruneNext, Plan, Skip, Read, prune_vars, file
<1>2. FileOK'
  BY <1>1 DEF PlanInv, FileOK, file
<1>3. CASE Plan
  <2>1. PlanMade'
    BY <1>1, <1>3 DEF Plan, PlanMade, file
  <2> QED BY <1>2, <1>3, <2>1 DEF Plan, PlanInv
<1>4. ASSUME NEW m \in Morsels, Skip(m) \/ Read(m) PROVE PlanInv'
  <2>1. plan' = plan /\ plan # None
    BY <1>4 DEF Skip, Read, Undecided
  <2>2. PlanMade'
    BY <1>1, <2>1 DEF PlanInv, PlanMade, file
  <2>3. pruned' \subseteq Morsels /\ kept' \subseteq Morsels \ pruned'
    BY <1>4 DEF Skip, Read, Undecided, PlanInv
  <2> QED BY <1>2, <2>1, <2>2, <2>3 DEF PlanInv
<1>5. CASE UNCHANGED prune_vars
  <2>1. PlanMade => PlanMade'
    BY <1>5 DEF PlanMade, prune_vars
  <2> QED BY <1>2, <1>5, <2>1 DEF PlanInv, prune_vars
<1> QED BY <1>3, <1>4, <1>5 DEF PruneNext

(* In every reachable state the plan is the lowered and resolved query of   *)
(* an unchanged file.                                                       *)
THEOREM PlanInvariance == PruneSpec => []PlanInv
  BY PlanInvInit, PlanInvNext, PTL DEF PruneSpec

(* Plans hold only codes of the file's dictionary, and a morsel is read or  *)
(* skipped, never both.                                                     *)
THEOREM PlansTyped == PruneSpec => []PruneTypeOK
<1>1. PlanInv => PruneTypeOK
  <2> SUFFICES ASSUME PlanInv PROVE PruneTypeOK
    OBVIOUS
  <2>1. ASSUME plan # None, NEW f \in plan.filters, f.predicate # None
        PROVE  f.predicate.codes \subseteq {Dictionary[v] : v \in DOMAIN Dictionary}
    <3>1. Shape(f.predicate)
      BY <2>1, PlanFollows DEF PlanInv
    <3>2. f.predicate \in Predicates
      BY <3>1 DEF Shape
    <3> QED BY <3>2 DEF Predicates
  <2> QED BY <2>1 DEF PlanInv, PruneTypeOK
<1> QED BY <1>1, PlanInvariance, PTL

(* For any rows, queries, metadata and coverage proofs, and any number of   *)
(* morsels and keys: a row is lost only in a file with an index that is     *)
(* misread, to a query that asks this index (prune.rs, morsel_pruned).      *)
THEOREM SkippingInvisible == PruneSpec => []LossMeansMisread
<1>1. PruneInit => LossMeansMisread
  BY DEF PruneInit, LossMeansMisread
<1>2. PlanInv /\ LossMeansMisread /\ [PruneNext]_prune_vars => LossMeansMisread'
  <2> SUFFICES ASSUME PlanInv, LossMeansMisread, [PruneNext]_prune_vars PROVE LossMeansMisread'
    OBVIOUS
  <2>1. UNCHANGED file
    BY DEF PruneNext, Plan, Skip, Read, prune_vars, file
  <2>2. plan' = plan => AsksMisread' = AsksMisread
    BY <2>1 DEF AsksMisread, ExactMisread, BloomMisread, CompositeMisread,
                file_code_filter_for_column, file
  <2>3. CASE pruned' = pruned /\ plan' = plan
    BY <2>1, <2>2, <2>3 DEF LossMeansMisread, file
  <2>4. CASE Plan
    <3>1. pruned' = {}
      BY <2>4 DEF Plan, PlanInv
    <3> QED BY <3>1 DEF LossMeansMisread
  <2>5. ASSUME NEW m \in Morsels, Skip(m) PROVE LossMeansMisread'
    <3>1. ~AsksMisread => \A r \in table[m] \ hidden[m] : ~Satisfies(r, query)
      BY <2>5, PruneSound DEF Skip, Undecided, PlanInv
    <3>2. pruned' = pruned \cup {m} /\ plan' = plan
      BY <2>5 DEF Skip
    <3> QED BY <2>1, <2>2, <3>1, <3>2 DEF LossMeansMisread, file
  <2> QED BY <2>3, <2>4, <2>5 DEF PruneNext, Read, prune_vars
<1> QED BY <1>1, <1>2, PlanInvariance, PTL DEF PruneSpec

(* Intact integer statistics are used to their ends: a morsel is read only  *)
(* when each comparison of the plan holds of some integer between its least *)
(* and greatest value.                                                      *)
THEOREM ReadingNeeded == PruneSpec => []ReadsWithinBounds
<1>1. PruneInit => ReadsWithinBounds
  BY DEF PruneInit, ReadsWithinBounds
<1>2. PlanInv /\ ReadsWithinBounds /\ [PruneNext]_prune_vars => ReadsWithinBounds'
  <2> SUFFICES ASSUME PlanInv, ReadsWithinBounds, [PruneNext]_prune_vars PROVE ReadsWithinBounds'
    OBVIOUS
  <2>1. UNCHANGED file
    BY DEF PruneNext, Plan, Skip, Read, prune_vars, file
  <2>2. \A m, c : Values(m, c)' = Values(m, c)
    BY <2>1 DEF Values, Cells, file
  <2>3. CASE plan' = plan /\ kept' = kept
    BY <2>1, <2>2, <2>3 DEF ReadsWithinBounds, file
  <2>4. CASE Plan
    <3>1. kept' = {}
      BY <2>4 DEF Plan, PlanInv
    <3> QED BY <3>1 DEF ReadsWithinBounds
  <2>5. ASSUME NEW m \in Morsels, Read(m) PROVE ReadsWithinBounds'
    <3>1. plan' = plan /\ kept' = kept \cup {m} /\ PlanMade /\ ~prune_morsel(m) /\ FileOK
      BY <2>5 DEF Read, Undecided, PlanInv
    <3>2. \A f \in plan.filters :
            f.predicate # None /\ f.predicate.kind = "Numeric"
            /\ f.predicate.column \notin FloatColumns /\ have.zone = "good" =>
              LET c == f.predicate.column IN
              /\ Values(m, c) # {}
              /\ \E v \in Min(Values(m, c))..Max(Values(m, c)) :
                   MayHold(v, [column |-> c, op |-> f.predicate.op, literals |-> f.predicate.values])
      BY <3>1, ReadTight
    <3> QED BY <2>1, <2>2, <3>1, <3>2 DEF ReadsWithinBounds, file
  <2> QED BY <2>3, <2>4, <2>5 DEF PruneNext, Skip, prune_vars
<1> QED BY <1>1, <1>2, PlanInvariance, PTL DEF PruneSpec

(* Every outcome for a predicate of the plan, and for the AND and the OR of *)
(* any two, is true of the rows of every morsel, equalities with a code of  *)
(* a misread exact set excepted, as are the outcomes for ranges of domain   *)
(* ranks (predicate.rs, pruning.rs).                                        *)
THEOREM OutcomesTrue == PruneSpec => []OutcomesSound
<1>1. PlanInv => OutcomesSound
  <2> SUFFICES ASSUME PlanInv PROVE OutcomesSound
    OBVIOUS
  <2> DEFINE ps == UNION {UNION f.groups : f \in plan.filters}
             full == {q \in {resolved(Filter(p)).predicate : p \in ps} :
                        q.kind = "FileCodeIn" => ~ExactMisread}
             Where(m, p) == {r \in table[m] : MayHold(r[p.column], PlainAtom(p))}
  <2>1. FileOK
    BY DEF PlanInv
  <2>2. ASSUME plan # None, NEW p \in full
        PROVE  Shape(p) /\ Coded(p) /\ (p.kind = "FileCodeIn" => ~ExactMisread)
    <3>1. PICK q \in ps : p = resolved(Filter(q)).predicate
      BY <2>2
    <3>2. Shape(q) /\ q.codes = {}
      BY <2>2, <3>1, PlanFollows DEF PlanInv
    <3> QED BY <3>1, <3>2, ResolvedPredicate DEF Filter
  <2> HIDE DEF full
  <2>3. ASSUME plan # None, NEW m \in Morsels, NEW p \in full, NEW q \in full
        PROVE  /\ Agrees(and(Outcome(m, p), Outcome(m, q)), Where(m, p) \cap Where(m, q), table[m])
               /\ Agrees(or(Outcome(m, p), Outcome(m, q)), Where(m, p) \cup Where(m, q), table[m])
    <3>1. Outcome(m, p) \in Outcomes /\ Agrees(Outcome(m, p), Where(m, p), table[m])
      BY <2>1, <2>2, <2>3, OutcomeAgrees
    <3>2. Outcome(m, q) \in Outcomes /\ Agrees(Outcome(m, q), Where(m, q), table[m])
      BY <2>1, <2>2, <2>3, OutcomeAgrees
    <3>3. Where(m, p) \in SUBSET table[m] /\ Where(m, q) \in SUBSET table[m]
      OBVIOUS
    <3> HIDE DEF Where
    <3> QED BY <3>1, <3>2, <3>3, AndAgrees, OrAgrees
  <2>4. \A m \in Morsels : \A c \in CodeColumns : \A lo, hi \in 0..1 :
          Agrees(explain_resolved_domain_rank_range(lo, hi, zone_stats_for(m, c),
                                                    column_domain_for(c)),
                 {r \in table[m] : r[c] # Null /\ RankOf(r[c], c) \in lo..hi}, table[m])
    <3> SUFFICES ASSUME NEW m \in Morsels, NEW c \in CodeColumns, NEW lo \in 0..1, NEW hi \in 0..1
                 PROVE  Agrees(explain_resolved_domain_rank_range(lo, hi, zone_stats_for(m, c),
                                                                  column_domain_for(c)),
                               {r \in table[m] : r[c] # Null /\ RankOf(r[c], c) \in lo..hi},
                               table[m])
      OBVIOUS
    <3>1. lo \in Int /\ hi \in Int
      OBVIOUS
    <3> QED BY <2>1, <3>1, RanksAgree
  <2> QED BY <2>3, <2>4 DEF OutcomesSound, full
<1> QED BY <1>1, PlanInvariance, PTL
=============================================================================
