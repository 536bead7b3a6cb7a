--------------------------- MODULE MCMorselPruning ---------------------------
(***************************************************************************)
(* Small files for MorselPruning: an integer, a float and two code columns, *)
(* two morsels of at most two rows, and the queries, metadata and coverage  *)
(* proofs that meet at their boundaries.                                    *)
(***************************************************************************)
EXTENDS MorselPruning

MCMorsels == 0..1
MCDictionary == 1 :> 2 @@ 2 :> 1
MCKeyColumns == <<"c", "d">>

Row(i, f, c, d) == [i |-> i, f |-> f, c |-> c, d |-> d]
A == Row(1, 1, 1, 1)
B == Row(2, 2, 2, 2)
C == Row(3, NaN, 1, 2)
D == Row(Null, Null, Null, 1)
E == Row(1, NaN, 2, Null)

MCTables == {0 :> t[1] @@ 1 :> t[2] : t \in {
  <<{A}, {B}>>, <<{A, B}, {C}>>, <<{A, C}, {D}>>, <<{B, D}, {A}>>, <<{C, E}, {B}>>,
  <<{E}, {D, A}>>, <<{B, E}, {C, A}>>}}

Nothing == [zone |-> "absent", domain |-> "absent", exact |-> "absent", bloom |-> "absent",
            lookup |-> "absent", inverted |-> "absent", composite |-> "absent",
            chance |-> [c \in CodeColumns |-> {}]]

MCMetadata == {
  Nothing,
  [Nothing EXCEPT !.zone = "good", !.domain = "good"],
  [Nothing EXCEPT !.zone = "good", !.domain = "unsafe", !.exact = "good"],
  [Nothing EXCEPT !.zone = "truncated", !.bloom = "good"],
  [Nothing EXCEPT !.zone = "other_kind", !.domain = "good", !.composite = "converter"],
  [Nothing EXCEPT !.exact = "num_keys", !.bloom = "num_hash", !.lookup = "num_keys",
                  !.inverted = "num_keys", !.composite = "z_order"],
  [Nothing EXCEPT !.lookup = "good", !.inverted = "out_of_range", !.composite = "tuples"],
  [Nothing EXCEPT !.zone = "good", !.domain = "good", !.inverted = "good", !.bloom = "canonical"],
  [Nothing EXCEPT !.zone = "good", !.domain = "good", !.exact = "bitset", !.bloom = "good"],
  [Nothing EXCEPT !.exact = "per_morsel", !.lookup = "good"],
  [Nothing EXCEPT !.exact = "good", !.bloom = "per_morsel"],
  [Nothing EXCEPT !.zone = "good", !.bloom = "several", !.chance["c"] = {1}]}

Atom(column, op, literals) == [column |-> column, op |-> op, literals |-> literals]
Less == Atom("i", "Lt", {2})
More == Atom("i", "Gt", {2})
Is(c, v) == Atom(c, "Eq", {v})
IsNull == Atom("c", "IsNull", {})
Like == Atom("c", "Unsupported", {})
Each(atoms) == {{{a}} : a \in atoms}
OneOf(atoms) == {{{a} : a \in atoms}}

MCQueries == {
  {}, Each({Less}), Each({More}), Each({Atom("i", "LtEq", {1})}), Each({Atom("i", "GtEq", {3})}),
  Each({Is("f", 1)}), Each({Atom("f", "Gt", {2})}), Each({Is("c", 1)}), Each({Is("c", 3)}),
  Each({Is("c", Null)}), Each({IsNull}), Each({Atom("d", "IsNotNull", {})}),
  Each({Is("c", 1), Is("d", 2)}), Each({Is("c", 2), Is("d", 1)}), Each({Less, Is("c", 1)}),
  Each({Atom("c", "NotIn", {1})}), Each({Atom("i", "NotEq", {2})}),
  OneOf({Less, Is("c", 1)}), OneOf({Less, More}), OneOf({Less, Like}), OneOf({Is("i", 1), Is("i", 3)}),
  OneOf({Is("c", 2), Is("c", 3)}), {{{Less, Is("c", 1)}, {More, Is("c", 1)}}},
  OneOf({Less, Is("c", 1)}) \cup Each({Atom("d", "In", {2, Null})})}

Form(column, op, value) == [column |-> column, op |-> op, value |-> value]
Proof(form) ==
  [form |-> form, granularity |-> "Morsel", strength |-> "ExactTight", exactness |-> "Exact",
   null_semantics |-> 0, snapshot |-> "selected", provider |-> TRUE, checksum |-> TRUE,
   cached |-> FALSE, misses |-> FALSE]

(* Proofs that must not be used: each misses rows and carries one mark.     *)
Wrong(form) ==
  LET w == [Proof(form) EXCEPT !.misses = TRUE] IN
  {[w EXCEPT !.strength = "AdvisoryOnly"], [w EXCEPT !.exactness = "ApproximateMayUnderInclude"],
   [w EXCEPT !.null_semantics = 255], [w EXCEPT !.snapshot = "other"],
   [w EXCEPT !.provider = FALSE], [w EXCEPT !.checksum = FALSE],
   [w EXCEPT !.granularity = "ObjectPath"]}

LessForm == Form("i", "Lt", 2)
CodeForm == Form("c", "Eq", 1)

MCCoverages == {
  {}, {Proof(LessForm)}, {Proof(LessForm), Proof(CodeForm)},
  {[k EXCEPT !.cached = TRUE] : k \in Wrong(LessForm)} \cup {Proof(CodeForm)},
  {[Proof(LessForm) EXCEPT !.cached = TRUE, !.granularity = "Segment",
                           !.strength = "ExactConservative"],
   Proof(Form("i", "Gt", 2)), Proof(Form("c", "IsNull", None))}}

(* A file of six morsels of one row: with a composite index of the          *)
(* converter's layout, or with a bitset as exact set, and nothing else.     *)
ConvertedMorsels == 0..5
ConvertedTables == {[m \in 0..5 |-> {IF m = 0 THEN r ELSE A}] : r \in {A, B, C}}
ConvertedMetadata == {[Nothing EXCEPT !.composite = "converter"],
                      [Nothing EXCEPT !.exact = "bitset"]}
ConvertedQueries == {Each({Is("c", v), Is("d", w)}) : v, w \in 1..2}
=============================================================================
