---------------------------- MODULE MorselPruning ----------------------------
(***************************************************************************)
(* Which morsels of a file a scan skips without reading their rows          *)
(* (cove-datafusion/src/prune.rs, called by decode.rs), from everything the *)
(* file says about itself: zone statistics, column domains, exact sets,     *)
(* Bloom filters, lookup, inverted and composite indexes, coverage proofs,  *)
(* page null counts and the overlay of hidden rows.                         *)
(*                                                                          *)
(* `have` tells which metadata the file holds: none, a truthful one, one    *)
(* whose contents are wrong for the file and which carries a mark that      *)
(* tells a reader not to use it, or one that is valid by the specification  *)
(* of the format and that this reader misreads.                             *)
(***************************************************************************)
EXTENDS FilterLowering, SequencesExt

CONSTANTS
  Morsels,     \* 0..n, in the order of the file's only segment
  Tables,      \* the contents a file may have: morsel -> nonempty set of rows
  KeyColumns,  \* the columns of the composite index
  Metadata,    \* which metadata files have
  Coverages,   \* sets of coverage proofs files may have
  Queries      \* the queries asked

VARIABLES
  table,     \* morsel -> rows, a row being column -> value
  hidden,    \* morsel -> the rows an overlay hides
  have,      \* what metadata there is
  coverage,  \* the coverage proofs of the file
  query,     \* the query being run
  plan,      \* its filters; None before planning
  pruned,    \* morsels the scan skipped
  kept       \* morsels it read

(* A cell of a code column has a code, only floats may be NaN.              *)
Rows == {r \in [Columns -> Int \cup {Null, NaN}] :
           \A c \in Columns : /\ r[c] = NaN => c \in FloatColumns
                              /\ c \in CodeColumns => r[c] \in DOMAIN Dictionary \cup {Null}}

ASSUME FileAssumption ==
  /\ IsFiniteSet(Morsels) /\ 0 \in Morsels /\ KeyColumns \in Seq(CodeColumns)
  /\ \A t \in Tables : \A m \in Morsels : t[m] \subseteq Rows /\ t[m] # {} /\ IsFiniteSet(t[m])
  /\ \A q \in Queries : \A clause \in q : /\ IsFiniteSet(clause) /\ UNION clause \subseteq Atoms
                                          /\ IsFiniteSet(UNION clause)

(* Exact sets and Bloom filters that files may have.                        *)
ASSUME MetadataAssumption ==
  \A h \in Metadata :
    /\ h.exact \in {"absent", "good", "num_keys", "bitset", "per_morsel"}
    /\ h.bloom \in {"absent", "good", "canonical", "num_hash", "several", "per_morsel"}

(* A coverage proof whose set is wrong says so in some way: it is not       *)
(* exact, not of this snapshot, not what it was, or not about rows.         *)
ASSUME CoverageAssumption ==
  \A ks \in Coverages : \A k \in ks :
    /\ k.form.column \in Columns
    /\ k.misses =>
         \/ k.strength \in {"ProbabilisticConservative", "AdvisoryOnly", "EngineLocal",
                            "ApproximateMayUnderInclude"}
         \/ k.exactness \in {"ApproximateMayUnderInclude", "Unknown"}
         \/ k.null_semantics = 255 \/ k.snapshot # "selected" \/ ~k.provider \/ ~k.checksum
         \/ k.granularity \in {"Object", "RowGroup", "MapNode", "DimensionalBucket", "ObjectPath",
                              "Association", "ProjectionFragment", "ExternalFragment"}

file == <<table, hidden, have, coverage, query>>
prune_vars == <<table, hidden, have, coverage, query, plan, pruned, kept>>

Cells(m, c) == {r[c] : r \in table[m]}
Values(m, c) == Cells(m, c) \ {Null, NaN}
AllValues(c) == UNION {Values(m, c) : m \in Morsels}
Codes(m, c) == {Dictionary[v] : v \in Values(m, c)}

-----------------------------------------------------------------------------
(* What writers put into a file.                                            *)
Nulls(m, c) == IF Null \notin Cells(m, c) THEN "none"
               ELSE IF Cells(m, c) = {Null} THEN "all" ELSE "some"

NumberZone(m, c) ==
  LET vs == Values(m, c)
      there == IF vs = {} THEN {} ELSE {"HAS_MIN_MAX"}
      nan == IF NaN \in Cells(m, c) THEN {"HAS_NAN"} ELSE {}
      truncated == have.zone = "truncated"
      kind == IF have.zone = "other_kind" THEN "FixedBytes" ELSE "NumCode"
      lo == IF vs = {} \/ truncated THEN 0 ELSE Min(vs)
      hi == IF vs = {} \/ truncated THEN 0 ELSE Max(vs)
  IN  [nulls |-> Nulls(m, c),
       flags |-> there \cup nan \cup (IF truncated THEN {"MINMAX_TRUNCATED"} ELSE {}),
       min |-> [kind |-> kind, value |-> lo], max |-> [kind |-> kind, value |-> hi]]

ASSUME NoneIsNoZone ==
  None \notin [nulls : {"none", "some", "all"}, min : Bounds, max : Bounds,
               flags : SUBSET {"HAS_MIN_MAX", "HAS_NAN", "MINMAX_TRUNCATED"}]

(* Ranks follow the order of values, codes do not.                          *)
RankOf(v, c) == Cardinality({w \in AllValues(c) : w < v})

CodeZone(m, c) ==
  LET vs == Values(m, c) IN
  [nulls |-> Nulls(m, c),
   flags |-> (IF vs = {} THEN {} ELSE {"HAS_DOMAIN_RANGE"})
             \cup (IF Cardinality(vs) = 1 THEN {"CONSTANT"} ELSE {}),
   min_domain_rank |-> IF vs = {} THEN 0 ELSE RankOf(Min(vs), c),
   max_domain_rank |-> IF vs = {} THEN 0 ELSE RankOf(Max(vs), c)]

Domain(c) ==
  [safe |-> have.domain = "good",
   rank |-> [k \in {Dictionary[v] : v \in AllValues(c)} |->
               RankOf(CHOOSE v \in AllValues(c) : Dictionary[v] = k, c)]]

(* The composite index as words of four bytes, `width` for each entry.      *)
InRow(n, width, word(_, _)) ==
  [i \in 1..(n * width) |-> word(((i - 1) \div width) + 1, ((i - 1) % width) + 1)]

Low(n) == <<n, 0>>

(* An entry of the layout that readers expect has the codes of a tuple of   *)
(* keys, segment and morsel;                                                *)
TupleWords(m, r) ==
  LET word(k, j) == Low(Dictionary[r[KeyColumns[k]]])[j]
  IN  InRow(Len(KeyColumns), 2, word) \o <<0, m>>

(* one that the Parquet converter writes has a morsel's number, first row   *)
(* and length, and the least and greatest code of each key column.          *)
ZoneWords(m) ==
  LET ends(c) == IF Codes(m, c) = {} THEN Low(0) \o Low(0)
                 ELSE Low(Min(Codes(m, c))) \o Low(Max(Codes(m, c)))
      word(k, j) == ends(KeyColumns[k])[j]
  IN  <<m, m * Cardinality(table[0]), Cardinality(table[m])>> \o InRow(Len(KeyColumns), 4, word)

Keyed(m) == {r \in table[m] : \A i \in DOMAIN KeyColumns : r[KeyColumns[i]] # Null}
Tuples == UNION {{TupleWords(m, r) : r \in Keyed(m)} : m \in Morsels}

CompositeWords ==
  LET tuples == SetToSeq(Tuples)
      tuple(e, j) == tuples[e][j]
      zone(e, j) == ZoneWords(e - 1)[j]
  IN  IF have.composite = "tuples" THEN InRow(Len(tuples), 2 * Len(KeyColumns) + 2, tuple)
      ELSE IF have.composite = "z_order" THEN <<>>
      ELSE InRow(Cardinality(Morsels), 4 * Len(KeyColumns) + 3, zone)

-----------------------------------------------------------------------------
(* What the planning cache hands out: metadata that binds to the table.     *)
column_domain_for(c) ==
  IF have.domain = "absent" THEN None
  ELSE LET d == Domain(c) IN IF d.safe THEN d ELSE None

zone_stats_for(m, c) ==
  IF have.zone = "absent" THEN None
  ELSE IF c \in CodeColumns
       THEN LET z == CodeZone(m, c) IN
            IF Ranged(z) /\ column_domain_for(c) = None THEN None ELSE z
  ELSE LET z == NumberZone(m, c) IN
       IF "HAS_MIN_MAX" \in z.flags /\ z.min.kind # "NumCode" THEN None ELSE z

AllCodes(c) == {Dictionary[v] : v \in AllValues(c)}

(* The keys of a sorted list are the codes of the column; a bitset or a     *)
(* roaring-like set is parsed without keys; of the sets of single morsels   *)
(* the cache keeps the first for the whole column.                          *)
exact_set_for(c) ==
  IF have.exact = "absent" THEN None
  ELSE [kind |-> IF have.exact = "num_keys" THEN "NumCode" ELSE "FileCode",
        codes |-> IF have.exact = "good" THEN AllCodes(c)
                  ELSE IF have.exact = "per_morsel" THEN Codes(0, c) ELSE {}]

FalsePositive == {99}

(* A filter may hash codes or canonical values.  Several filters under one  *)
(* header are read as one array of bits, and what is found in it is chance; *)
(* of the filters of single morsels the cache keeps the first.              *)
bloom_for(c) ==
  IF have.bloom = "absent" THEN None
  ELSE [domain |-> IF have.bloom = "num_hash" THEN "NumCode"
                   ELSE IF have.bloom = "canonical" THEN "CanonicalValueHash" ELSE "FileCode",
        maybe |-> IF have.bloom \in {"good", "canonical"} THEN AllCodes(c) \cup FalsePositive
                  ELSE IF have.bloom = "per_morsel" THEN Codes(0, c) \cup FalsePositive
                  ELSE IF have.bloom = "several" THEN have.chance[c] ELSE {}]

-----------------------------------------------------------------------------
(* What a file's metadata rules out.                                        *)
numeric_bounds(op, v) ==
  LET bound(ops) == IF op \in ops THEN [kind |-> "NumCode", value |-> v] ELSE None
  IN  [lower |-> bound({"Eq", "Gt", "GtEq"}), lower_inclusive |-> op \in {"Eq", "GtEq"},
       upper |-> bound({"Eq", "Lt", "LtEq"}), upper_inclusive |-> op \in {"Eq", "LtEq"}]

NumberOutcome(m, c, op, v) == explain_numcode_range(numeric_bounds(op, v), zone_stats_for(m, c))

CodeOutcome(m, c, code) ==
  explain_file_code_equality(code, zone_stats_for(m, c), column_domain_for(c), exact_set_for(c))

lookup_prunes_file_codes(m, c, codes) ==
  have.lookup = "good" /\ codes \cap Codes(m, c) = {}

(* A bitmap that lies outside the index's data says nothing.                *)
inverted_prunes_file_codes(m, c, codes) ==
  /\ have.inverted \in {"good", "out_of_range"}
  /\ \A code \in codes \cap AllCodes(c) : have.inverted = "good" /\ code \notin Codes(m, c)

(* A code that a literal was resolved to has a canonical value to hash:     *)
(* the reverse lookup holds no code of a redacted entry.                    *)
bloom_excludes_file_code(c, code) ==
  /\ bloom_for(c) # None /\ bloom_for(c).domain \in {"FileCode", "CanonicalValueHash"}
  /\ explain_bloom_membership(code, bloom_for(c)) = "NoMatch"

codes_prune(m, c, codes) ==
  \/ codes = {}
  \/ lookup_prunes_file_codes(m, c, codes)
  \/ inverted_prunes_file_codes(m, c, codes)
  \/ \A code \in codes : \/ CodeOutcome(m, c, code) = "NoMatch"
                         \/ bloom_excludes_file_code(c, code)

NullOutcome(m, p) == IF p.op = "IsNull" THEN explain_is_null(zone_stats_for(m, p.column))
                     ELSE explain_is_not_null(zone_stats_for(m, p.column))

predicate_prunes(m, p) ==
  \/ p.kind = "Null" /\ NullOutcome(m, p) = "NoMatch"
  \/ p.kind = "Numeric" /\ \A v \in p.values : NumberOutcome(m, p.column, p.op, v) = "NoMatch"
  \/ p.kind = "NumericIn" /\ \A v \in p.values : NumberOutcome(m, p.column, "Eq", v) = "NoMatch"
  \/ p.kind = "FileCodeIn" /\ codes_prune(m, p.column, p.codes)

file_code_filter_for_column(c) ==
  LET fs == {f \in plan.filters : /\ f.predicate # None /\ f.predicate.kind = "FileCodeIn"
                                  /\ f.predicate.column = c}
  IN  IF fs = {} THEN None ELSE (CHOOSE f \in fs : TRUE).predicate.codes

(* An entry has two words for each key, then the segment and the morsel.    *)
composite_tuple_has_match(m) ==
  LET words == CompositeWords
      keys == Len(KeyColumns)
      width == 2 * keys + 2
      Matches(i) == /\ words[i + 2 * keys + 1] = 0 /\ words[i + 2 * keys + 2] = m
                    /\ \A k \in 1..keys :
                         /\ words[i + 2 * k] = 0
                         /\ words[i + 2 * k - 1] \in file_code_filter_for_column(KeyColumns[k])
  IN  IF Len(words) % width # 0 THEN None
      ELSE \E e \in 0..((Len(words) \div width) - 1) : Matches(e * width)

composite_prunes_morsel(m) ==
  LET codes(i) == file_code_filter_for_column(KeyColumns[i]) IN
  /\ have.composite \in {"tuples", "converter"}
  /\ \/ \E i \in DOMAIN KeyColumns : codes(i) = {} /\ \A j \in 1..i : codes(j) # None
     \/ /\ \A i \in DOMAIN KeyColumns : codes(i) # None
        /\ composite_tuple_has_match(m) = FALSE

-----------------------------------------------------------------------------
(* Whether a row may satisfy an atom, a clause, the query: what a scan that *)
(* reads every row and compares values would return.  NaN compares as the   *)
(* engine likes, except that it equals no number.                           *)
MayHold(v, a) ==
  IF v = Null THEN a.op \in {"IsNull", "Unsupported"}
  ELSE IF v = NaN THEN a.op \notin {"IsNull", "Eq", "In"}
  ELSE \/ a.op \in {"IsNotNull", "Unsupported"}
       \/ a.op \in {"Eq", "In"} /\ v \in a.literals
       \/ a.op \in {"NotEq", "NotIn"} /\ v \notin a.literals /\ Null \notin a.literals
       \/ a.op = "Lt" /\ \E w \in a.literals \ {Null} : v < w
       \/ a.op = "LtEq" /\ \E w \in a.literals \ {Null} : v <= w
       \/ a.op = "Gt" /\ \E w \in a.literals \ {Null} : v > w
       \/ a.op = "GtEq" /\ \E w \in a.literals \ {Null} : v >= w

Satisfies(r, q) ==
  \A clause \in q : \E g \in clause : \A a \in g : MayHold(r[a.column], a)

-----------------------------------------------------------------------------
(* A coverage proof has a form [column, op, value] and lists the fragments  *)
(* that may hold rows of that form.  One that `misses` lists none at all.   *)
FormAtom(form) == [column |-> form.column, op |-> form.op, literals |-> {form.value}]

Holding(form) ==
  {m \in Morsels : \E r \in table[m] : MayHold(r[form.column], FormAtom(form))}

coverage_set_covers_morsel(k, m) ==
  /\ ~k.misses
  /\ \/ m \in Holding(k.form)
     \/ k.granularity # "Morsel" /\ Holding(k.form) # {}

coverage_record_usable(k) ==
  /\ k.strength \in {"ExactTight", "ExactConservative"}
  /\ k.exactness \in {"Exact", "ApproximateOverInclusiveOnly"}
  /\ k.null_semantics # 255

coverage_snapshot_matches_selected(k) == k.snapshot = "selected"

(* The provider and the set say the same as the record, and the set has the *)
(* checksum the record names.                                               *)
coverage_chain_matches(k) == k.provider /\ k.checksum

coverage_granularity_maps_to_morsels(k) ==
  k.granularity \in {"Dataset", "File", "Segment", "Page", "Morsel", "RowRange", "RowOrdinalSet"}

Usable(form) ==
  {k \in coverage : /\ k.form = form
                    /\ coverage_record_usable(k) /\ coverage_snapshot_matches_selected(k)
                    /\ coverage_chain_matches(k) /\ coverage_granularity_maps_to_morsels(k)}

RecordsDecision(m, ks) ==
  IF \E k \in ks : ~coverage_set_covers_morsel(k, m) THEN "Pruned"
  ELSE IF ks # {} THEN "Included" ELSE "Unknown"

hidden_rows_in_range(m) == Cardinality(hidden[m] \cap table[m])
morsel_all_hidden(m) == hidden_rows_in_range(m) = Cardinality(table[m])

morsel_visibility_decision(m) ==
  IF morsel_all_hidden(m) THEN "Pruned"
  ELSE IF hidden_rows_in_range(m) = 0 THEN "Included" ELSE "Unknown"

(* Sets named by the sidecar cache come first; the cache is not used when   *)
(* an overlay hides rows.                                                   *)
coverage_atom_decision(m, form, cached) ==
  LET visible == \A n \in Morsels : hidden[n] = {}
      refs == {k \in Usable(form) : cached /\ visible /\ k.cached}
  IN  IF morsel_visibility_decision(m) # "Included" THEN morsel_visibility_decision(m)
      ELSE IF refs # {} THEN RecordsDecision(m, refs)
      ELSE RecordsDecision(m, Usable(form))

AndDecision(ds) == IF "Pruned" \in ds THEN "Pruned"
                   ELSE IF "Unknown" \in ds THEN "Unknown" ELSE "Included"

OrDecision(ds) == IF "Included" \in ds THEN "Included"
                  ELSE IF "Unknown" \in ds THEN "Unknown" ELSE "Pruned"

coverage_expr_decision(m, groups) ==
  OrDecision({AndDecision({coverage_atom_decision(m, FormOf(p), TRUE) : p \in g}) : g \in groups})

coverage_proof_prunes_morsel(m, f) ==
  /\ FormOf(f.predicate) \in plan.forms
  /\ coverage_atom_decision(m, FormOf(f.predicate), FALSE) = "Pruned"

(* A filter has a coverage expression when all its predicates have a form.  *)
attached(f) == \A p \in UNION f.groups : FormOf(p) \in plan.forms

filter_prunes_morsel(m, f) ==
  /\ f.predicate # None
  /\ coverage_proof_prunes_morsel(m, f) \/ predicate_prunes(m, f.predicate)

morsel_pruned(m) ==
  \/ composite_prunes_morsel(m)
  \/ AndDecision({coverage_expr_decision(m, f.groups) : f \in {g \in plan.filters : attached(g)}})
       = "Pruned"
  \/ \E f \in plan.filters : filter_prunes_morsel(m, f)

(* The page index counts nulls as well.                                     *)
should_prune_morsel(m) ==
  \E f \in plan.filters :
    /\ f.predicate # None /\ f.predicate.kind = "Null"
    /\ \/ f.predicate.op = "IsNull" /\ Nulls(m, f.predicate.column) = "none"
       \/ f.predicate.op = "IsNotNull" /\ Nulls(m, f.predicate.column) = "all"

-----------------------------------------------------------------------------
PruneInit ==
  /\ table \in Tables
  /\ \E rows \in SUBSET table[0] : hidden = [m \in Morsels |-> IF m = 0 THEN rows ELSE {}]
  /\ have \in Metadata /\ coverage \in Coverages /\ query \in Queries
  /\ plan = None /\ pruned = {} /\ kept = {}

Plan ==
  /\ plan = None
  /\ plan' = [filters |-> {resolved(f) : f \in lower_filters(query)},
              forms |-> {k.form : k \in coverage}]
  /\ UNCHANGED <<file, pruned, kept>>

Undecided(m) == plan # None /\ m \notin pruned \cup kept

prune_morsel(m) == morsel_all_hidden(m) \/ morsel_pruned(m) \/ should_prune_morsel(m)

Skip(m) ==
  /\ Undecided(m) /\ prune_morsel(m)
  /\ pruned' = pruned \cup {m}
  /\ UNCHANGED <<file, plan, kept>>

Read(m) ==
  /\ Undecided(m) /\ ~prune_morsel(m)
  /\ kept' = kept \cup {m}
  /\ UNCHANGED <<file, plan, pruned>>

PruneNext == Plan \/ \E m \in Morsels : Skip(m) \/ Read(m)

PruneSpec == PruneInit /\ [][PruneNext]_prune_vars

-----------------------------------------------------------------------------
(* The filters a plan holds are some conjuncts of the query, in the file's  *)
(* codes, and every morsel is either read or skipped, never both            *)
(* (decode.rs: `continue` after counting a morsel as pruned).               *)
PruneTypeOK ==
  /\ pruned \subseteq Morsels /\ kept \subseteq Morsels \ pruned
  /\ plan = None => pruned \cup kept = {}
  /\ plan # None =>
       \A f \in plan.filters : f.predicate # None =>
         f.predicate.codes \subseteq {Dictionary[v] : v \in DOMAIN Dictionary}

(* Skipping is invisible: no visible row of a morsel the scan skipped could *)
(* have satisfied the query, whatever index the file has that the format    *)
(* allows: "Exact sets MUST NOT produce false negatives" and no index "may  *)
(* change logical results" (prune.rs, morsel_pruned).                       *)
PrunedHasNoMatch ==
  \A m \in pruned : \A r \in table[m] \ hidden[m] : ~Satisfies(r, query)

(* Indexes that this reader misreads.                                       *)
ExactMisread == have.exact \in {"bitset", "per_morsel"}
BloomMisread == have.bloom \in {"several", "per_morsel"}
CompositeMisread ==
  /\ have.composite = "converter"
  /\ (Cardinality(Morsels) * (4 * Len(KeyColumns) + 3)) % (2 * Len(KeyColumns) + 2) = 0

(* The query asks one of them: an exact set or a Bloom filter by an         *)
(* equality on a code column, a composite index by equalities on all of its *)
(* key columns.                                                             *)
AsksMisread ==
  \/ /\ ExactMisread \/ BloomMisread
     /\ \E f \in plan.filters : /\ f.predicate # None /\ f.predicate.kind = "FileCodeIn"
                                /\ f.predicate.codes # {}
  \/ /\ CompositeMisread
     /\ \A i \in DOMAIN KeyColumns : file_code_filter_for_column(KeyColumns[i]) # None

(* A visible row of a skipped morsel satisfies the query only in a file     *)
(* with an index that is misread, and only if the query asks that index.    *)
(* Otherwise skipping is invisible, however the WHERE clause was lowered    *)
(* and whichever proofs were combined (prune.rs, morsel_pruned).            *)
LossMeansMisread ==
  \A m \in pruned : (\E r \in table[m] \ hidden[m] : Satisfies(r, query)) => AsksMisread

(* A morsel whose integer statistics are intact is read only when some      *)
(* value between its least and greatest satisfies each comparison of the    *)
(* plan: inclusive and exclusive ends are not confused in the direction     *)
(* that costs reads either (pruning.rs, predicate_disjoint_from_zone).      *)
ReadsWithinBounds ==
  \A m \in kept : \A f \in plan.filters :
    f.predicate # None /\ f.predicate.kind = "Numeric"
    /\ f.predicate.column \notin FloatColumns /\ have.zone = "good" =>
      LET c == f.predicate.column IN
      /\ Values(m, c) # {}
      /\ \E v \in Min(Values(m, c))..Max(Values(m, c)) :
           MayHold(v, [column |-> c, op |-> f.predicate.op, literals |-> f.predicate.values])

(* The outcome of a plain predicate on a morsel, from statistics, domain    *)
(* and exact set.                                                           *)
Outcome(m, p) ==
  CASE p.kind = "Null" -> NullOutcome(m, p)
    [] p.kind = "Numeric" -> NumberOutcome(m, p.column, p.op, CHOOSE v \in p.values : TRUE)
    [] p.kind = "FileCodeIn" /\ Cardinality(p.codes) = 1 ->
         CodeOutcome(m, p.column, CHOOSE k \in p.codes : TRUE)
    [] OTHER -> "Unknown"

PlainAtom(p) ==
  [column |-> p.column, op |-> IF p.kind = "FileCodeIn" THEN "In" ELSE p.op,
   literals |-> p.values]

(* AllMatch and NoMatch mean what they say of the rows of the morsel, for   *)
(* each predicate of the plan and for the AND and the OR of any two of      *)
(* them (cove-core predicate.rs and pruning.rs), except for equalities with *)
(* a code where the exact set is misread; ranges of domain ranks agree with *)
(* the values they rank.                                                    *)
OutcomesSound ==
  LET ps == UNION {UNION f.groups : f \in plan.filters}
      Where(m, p) == {r \in table[m] : MayHold(r[p.column], PlainAtom(p))}
      full == {q \in {resolved(Filter(p)).predicate : p \in ps} :
                 q.kind = "FileCodeIn" => ~ExactMisread}
      Ranked(m, c, lo, hi) ==
        {r \in table[m] : r[c] # Null /\ RankOf(r[c], c) \in lo..hi}
  IN
  /\ plan # None =>
       \A m \in Morsels : \A p, q \in full :
         /\ Agrees(and(Outcome(m, p), Outcome(m, q)), Where(m, p) \cap Where(m, q), table[m])
         /\ Agrees(or(Outcome(m, p), Outcome(m, q)), Where(m, p) \cup Where(m, q), table[m])
  /\ \A m \in Morsels : \A c \in CodeColumns : \A lo, hi \in 0..1 :
       Agrees(explain_resolved_domain_rank_range(lo, hi, zone_stats_for(m, c), column_domain_for(c)),
              Ranked(m, c, lo, hi), table[m])
=============================================================================
