----------------------------- MODULE ZonePruning -----------------------------
(***************************************************************************)
(* What metadata can prove about a predicate on a zone of rows without      *)
(* decoding it: the outcomes and their combination (cove-core/src/          *)
(* predicate.rs) and the proofs from statistics, column domains and exact   *)
(* sets (cove-core/src/pruning.rs).  Row counts matter only as far as a     *)
(* zone has no nulls, some, or nothing else.                                *)
(***************************************************************************)
EXTENDS Integers

CONSTANTS
  None,  \* metadata or a bound that is not there
  Null,  \* a null cell
  NaN    \* a float cell that is not a number

(* A value that comes with the kind of its encoding.                        *)
Bounds == [kind : {"NumCode", "FixedBytes"}, value : Int]

ASSUME MarkerAssumption ==
  /\ Null # NaN /\ {Null, NaN} \cap Int = {}
  /\ None \notin Bounds \cup BOOLEAN

Outcomes == {"AllMatch", "NoMatch", "SomeMatch", "Unknown"}

(* What an outcome promises of the rows of a zone that hold the predicate.  *)
Agrees(outcome, holding, rows) ==
  (outcome = "AllMatch" => holding = rows) /\ (outcome = "NoMatch" => holding = {})

-----------------------------------------------------------------------------
and(x, y) ==
  IF "NoMatch" \in {x, y} THEN "NoMatch"
  ELSE IF x = "AllMatch" THEN y
  ELSE IF y = "AllMatch" THEN x
  ELSE IF "SomeMatch" \in {x, y} THEN "SomeMatch" ELSE "Unknown"

or_drops_unknown(x, y) ==    \* mutant: NoMatch wins over Unknown
  IF "AllMatch" \in {x, y} THEN "AllMatch"
  ELSE IF "SomeMatch" \in {x, y} THEN "SomeMatch"
  ELSE IF "NoMatch" \in {x, y} THEN "NoMatch" ELSE "Unknown"

or(x, y) ==
  IF "AllMatch" \in {x, y} THEN "AllMatch"
  ELSE IF x = "NoMatch" THEN y
  ELSE IF y = "NoMatch" THEN x
  ELSE IF "SomeMatch" \in {x, y} THEN "SomeMatch" ELSE "Unknown"

-----------------------------------------------------------------------------
(* A zone has `nulls` ("none", "some" or "all" of its rows), `flags`, the   *)
(* least and greatest value `min` and `max` with their `kind`, and the      *)
(* least and greatest domain rank.                                          *)
explain_is_null(z) ==
  IF z = None THEN "Unknown"
  ELSE IF z.nulls = "none" THEN "NoMatch"
  ELSE IF z.nulls = "all" THEN "AllMatch" ELSE "SomeMatch"

explain_is_not_null(z) ==
  IF z = None THEN "Unknown"
  ELSE IF z.nulls = "all" THEN "NoMatch"
  ELSE IF z.nulls = "none" THEN "AllMatch" ELSE "SomeMatch"

NullOnly(z) == z # None /\ z.nulls = "all"

(* A domain is usable when its rank map is consistent with its codes.       *)
usable_domain(d) == d # None /\ d.safe

Ranged(z) == z # None /\ "HAS_DOMAIN_RANGE" \in z.flags

(* `d.rank` has a rank for the codes of the column only.                    *)
explain_file_code_equality(code, z, d, exact) ==
  IF NullOnly(z) THEN "NoMatch"
  ELSE IF usable_domain(d) /\ code \notin DOMAIN d.rank THEN "NoMatch"
  ELSE IF /\ usable_domain(d) /\ Ranged(z)
          /\ d.rank[code] \notin z.min_domain_rank .. z.max_domain_rank THEN "NoMatch"
  ELSE IF /\ usable_domain(d) /\ Ranged(z)
          /\ "CONSTANT" \in z.flags /\ z.nulls = "none"
          /\ z.min_domain_rank = d.rank[code]
          /\ z.max_domain_rank = d.rank[code] THEN "AllMatch"
  ELSE IF exact # None /\ exact.kind = "FileCode"
       THEN IF code \in exact.codes THEN "SomeMatch" ELSE "NoMatch"
  ELSE IF usable_domain(d) /\ Ranged(z) THEN "SomeMatch" ELSE "Unknown"

explain_resolved_domain_rank_range(min_rank, max_rank, z, d) ==
  IF min_rank > max_rank THEN "NoMatch"
  ELSE IF z = None THEN "Unknown"
  ELSE IF NullOnly(z) THEN "NoMatch"
  ELSE IF ~usable_domain(d) \/ ~Ranged(z) THEN "Unknown"
  ELSE IF z.max_domain_rank < min_rank \/ z.min_domain_rank > max_rank THEN "NoMatch"
  ELSE IF /\ z.min_domain_rank >= min_rank /\ z.max_domain_rank <= max_rank
          /\ z.nulls = "none" THEN "AllMatch"
  ELSE "SomeMatch"

(* A range has optional bounds `lower` and `upper`, each with a kind, and   *)
(* says of each whether it is inclusive.                                    *)
Kind(bound, kind) == bound = None \/ bound.kind = kind

Comparable(range, z) ==
  /\ "HAS_MIN_MAX" \in z.flags
  /\ z.flags \cap {"HAS_NAN", "MINMAX_TRUNCATED"} = {}
  /\ z.min.kind = z.max.kind
  /\ Kind(range.lower, z.min.kind) /\ Kind(range.upper, z.min.kind)

AboveLower(v, range) ==
  \/ range.lower = None
  \/ v > range.lower.value
  \/ range.lower_inclusive /\ v = range.lower.value

BelowUpper(v, range) ==
  \/ range.upper = None
  \/ v < range.upper.value
  \/ range.upper_inclusive /\ v = range.upper.value

disjoint_inside(range, z) ==    \* mutant: < where the bound is exclusive
  \/ range.upper # None /\ range.upper.value < z.min.value
  \/ range.lower # None /\ range.lower.value > z.max.value

predicate_disjoint_from_zone(range, z) ==
  ~BelowUpper(z.min.value, range) \/ ~AboveLower(z.max.value, range)

zone_fully_within_predicate(range, z) ==
  AboveLower(z.min.value, range) /\ BelowUpper(z.max.value, range)

explain_numcode_range(range, z) ==
  IF z = None THEN "Unknown"
  ELSE IF NullOnly(z) THEN "NoMatch"
  ELSE IF ~Comparable(range, z) THEN "Unknown"
  ELSE IF predicate_disjoint_from_zone(range, z) THEN "NoMatch"
  ELSE IF zone_fully_within_predicate(range, z) /\ z.nulls = "none" THEN "AllMatch"
  ELSE "SomeMatch"

(* A filter that cannot rule the value out proves nothing.                  *)
explain_bloom_membership(code, bloom) ==
  IF bloom = None THEN "Unknown"
  ELSE IF code \in bloom.maybe THEN "SomeMatch" ELSE "NoMatch"
=============================================================================
