--------------------------- MODULE FilterLowering ---------------------------
(***************************************************************************)
(* How a WHERE clause becomes filters that metadata can be asked about      *)
(* (cove-datafusion/src/expr_lowering.rs), how the literals of those become *)
(* codes of one file (dataset_state.rs), and which predicate forms of the   *)
(* file's coverage metadata they match (coverage_plan.rs).                  *)
(*                                                                          *)
(* A query is a set of clauses, all of which a row must satisfy; a clause   *)
(* is a set of groups, one of which must hold; a group is a set of atoms.   *)
(* An atom has a column, an operator and a set of literals.                 *)
(***************************************************************************)
EXTENDS ZonePruning, FiniteSets

CONSTANTS
  Columns,       \* the columns of the table
  CodeColumns,   \* columns stored as codes of the file's dictionary
  FloatColumns,  \* numeric columns that may hold NaN
  Dictionary     \* value -> code of the file

Comparisons == {"Eq", "Lt", "LtEq", "Gt", "GtEq"}
NullTests == {"IsNull", "IsNotNull"}
Operators == Comparisons \cup NullTests \cup {"In", "NotEq", "NotIn", "Unsupported"}

Atoms == {a \in [column : Columns, op : Operators, literals : SUBSET (Int \cup {Null})] :
            IsFiniteSet(a.literals) /\ (a.op \in Comparisons => Cardinality(a.literals) = 1)}

Predicates ==
  [kind : {"Null", "Numeric", "NumericIn", "NumericNotIn", "FileCodeIn", "FileCodeNotIn"},
   column : Columns, op : Operators, values : SUBSET (Int \cup {Null}),
   codes : SUBSET {Dictionary[v] : v \in DOMAIN Dictionary}]

(* Equal codes mean equal values, floats are not stored as codes.           *)
ASSUME DictionaryAssumption ==
  /\ DOMAIN Dictionary \subseteq Int
  /\ \A v, w \in DOMAIN Dictionary : Dictionary[v] = Dictionary[w] => v = w
  /\ CodeColumns \subseteq Columns \ FloatColumns
  /\ None \notin Columns \cup Predicates

Predicate(kind, a, values) ==
  [kind |-> kind, column |-> a.column, op |-> a.op, values |-> values, codes |-> {}]

-----------------------------------------------------------------------------
(* numeric_literal takes no NULL; canonical_literal drops it.               *)
classify_number(a) ==
  IF Null \in a.literals THEN None
  ELSE IF a.op \in Comparisons THEN Predicate("Numeric", a, a.literals)
  ELSE IF a.op = "In" THEN Predicate("NumericIn", a, a.literals)
  ELSE IF a.op \in {"NotEq", "NotIn"} /\ a.column \notin FloatColumns /\ a.literals # {}
       THEN Predicate("NumericNotIn", a, a.literals)
  ELSE None

classify_code(a) ==
  IF a.op \in {"Eq", "In"} THEN Predicate("FileCodeIn", a, a.literals \ {Null})
  ELSE IF a.op \in {"NotEq", "NotIn"} /\ Null \notin a.literals /\ a.literals # {}
       THEN Predicate("FileCodeNotIn", a, a.literals)
  ELSE None

lower_atom_filter(a) ==
  IF a.op \in {"IsNull", "IsNotNull"} THEN Predicate("Null", a, {})
  ELSE IF a.op = "Unsupported" THEN None
  ELSE IF a.column \in CodeColumns THEN classify_code(a) ELSE classify_number(a)

(* An OR of equalities on one column is an IN list.                         *)
EqualityOr(clause) ==
  /\ \A g \in clause : \E a \in g : g = {a} /\ a.op = "Eq" /\ Null \notin a.literals
  /\ \A g, h \in clause : \A a \in g, b \in h : a.column = b.column

MergedOr(clause) ==
  LET atoms == UNION clause IN
  lower_atom_filter([column |-> (CHOOSE a \in atoms : TRUE).column, op |-> "In",
                     literals |-> UNION {a.literals : a \in atoms}])

Filter(p) == [predicate |-> p, groups |-> {{p}}]

lower_or_supported(clause) ==    \* mutant: children without a form are left out
  LET lowered == {{lower_atom_filter(a) : a \in g} : g \in clause}
  IN  {[predicate |-> None, groups |-> {g \in lowered : None \notin g}]}

(* Any other OR is lowered whole or not at all.                             *)
lower_or(clause) ==
  LET lowered == {{lower_atom_filter(a) : a \in g} : g \in clause} IN
  IF None \in UNION lowered THEN {} ELSE {[predicate |-> None, groups |-> lowered]}

lower_clause(clause) ==
  IF EqualityOr(clause) /\ Cardinality(clause) > 1 THEN {Filter(MergedOr(clause))}
  ELSE IF Cardinality(clause) > 1 THEN lower_or(clause)
  ELSE {Filter(p) : p \in {lower_atom_filter(a) : a \in UNION clause} \ {None}}

(* What cannot be lowered is left to the rows.                              *)
lower_filters(query) == UNION {lower_clause(clause) : clause \in query}

-----------------------------------------------------------------------------
resolve_keeps_values(values) == values    \* mutant: literals taken for codes

(* A value the file's dictionary lacks is in no row.                        *)
resolve_file_codes(values) == {Dictionary[v] : v \in values \cap DOMAIN Dictionary}

resolved(f) ==
  IF f.predicate # None /\ f.predicate.kind \in {"FileCodeIn", "FileCodeNotIn"}
  THEN [f EXCEPT !.predicate.codes = resolve_file_codes(f.predicate.values)]
  ELSE f

(* The coverage form a predicate matches; a form has at most one literal.   *)
NoForm == [column |-> None, op |-> None, value |-> None]

FormOf(p) ==
  IF p.kind = "Null" THEN [column |-> p.column, op |-> p.op, value |-> None]
  ELSE IF p.kind = "Numeric"
       THEN [column |-> p.column, op |-> p.op, value |-> CHOOSE v \in p.values : TRUE]
  ELSE IF p.kind \in {"NumericIn", "FileCodeIn"} /\ Cardinality(p.values) = 1
       THEN [column |-> p.column, op |-> "Eq", value |-> CHOOSE v \in p.values : TRUE]
  ELSE NoForm
=============================================================================
