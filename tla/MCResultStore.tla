--------------------------- MODULE MCResultStore ---------------------------
(* Two clients; rows below, at and beyond what a page takes.                *)
EXTENDS ResultStore

MCSize == [small |-> 1, half |-> 3, large |-> 9]
MCResults == {<<>>,
              <<"half", "half", "small">>,
              <<"small", "large", "small", "small", "small", "small">>}
=============================================================================
