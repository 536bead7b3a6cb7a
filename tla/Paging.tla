------------------------------- MODULE Paging -------------------------------
(***************************************************************************)
(* What cove_query and cove_fetch_result_page of the MCP server promise to  *)
(* a client: the rows of its result, in order, each exactly once, in pages  *)
(* that are never empty while rows are left; or the result is lost.  How    *)
(* the server stores results, what it evicts and where a page ends is left  *)
(* open: ResultStore implements this specification.                         *)
(***************************************************************************)
EXTENDS Naturals, Sequences

CONSTANTS Clients, Results

VARIABLES status,  \* status[c] : "idle", "open", "done" or "lost"
          result,  \* result[c] : the rows of c's query
          got      \* got[c]    : the rows c has received

pagingVars == <<status, result, got>>

PagingInit == /\ status = [c \in Clients |-> "idle"]
              /\ result = [c \in Clients |-> <<>>]
              /\ got = [c \in Clients |-> <<>>]

(* A new query, after the last one has ended.                               *)
Open(c) ==
  /\ status[c] # "open"
  /\ \E v \in Results : result' = [result EXCEPT ![c] = v]
  /\ status' = [status EXCEPT ![c] = "open"]
  /\ got' = [got EXCEPT ![c] = <<>>]

(* A page with at least one row, if there is one left; the last ends it.    *)
Deliver(c) ==
  /\ status[c] = "open"
  /\ \E n \in Len(got[c])..Len(result[c]) :
       /\ n = Len(got[c]) => n = Len(result[c])
       /\ got' = [got EXCEPT ![c] = SubSeq(result[c], 1, n)]
       /\ status' = [status EXCEPT ![c] = IF n = Len(result[c]) THEN "done" ELSE @]
  /\ UNCHANGED result

(* The server no longer has the rest of the result.                         *)
Lose(c) ==
  /\ status[c] = "open"
  /\ status' = [status EXCEPT ![c] = "lost"]
  /\ UNCHANGED <<result, got>>

PagingNext == \E c \in Clients : Open(c) \/ Deliver(c) \/ Lose(c)

(* A client that goes on asking gets its next page or loses its result.     *)
PagingFairness == \A c \in Clients : WF_pagingVars(Deliver(c) \/ Lose(c))

PagingSafety == PagingInit /\ [][PagingNext]_pagingVars
PagingSpec == PagingSafety /\ PagingFairness
=============================================================================
