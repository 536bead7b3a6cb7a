----------------------------- MODULE ResultStore -----------------------------
(***************************************************************************)
(* The store of paged query results of the MCP server (cove-mcp results.rs  *)
(* and its callers in server.rs).  A query inserts its rows and then asks   *)
(* for the first page, two separate critical sections of one mutex; clients *)
(* fetch further pages by handle and offset.  Every operation first drops   *)
(* what has expired and then the oldest results beyond the limit.           *)
(***************************************************************************)
EXTENDS Naturals, Sequences, FiniteSets, Functions

CONSTANTS
  Clients,
  Results,      \* the row sequences that queries may return
  Size,         \* Size[r] : length of row r in serialized form
  PageSize,     \* page_size
  MaxBytes,     \* max_response_bytes
  MaxHandles,   \* max_result_handles
  TTL,          \* result_ttl
  MaxInserts,   \* bound: insertions
  MaxTime       \* bound: the clock

(* main.rs refuses a page size of zero; the other limits may be zero.       *)
ASSUME LimitsAssumption ==
  /\ PageSize \in Nat \ {0}
  /\ {MaxBytes, MaxHandles, TTL, MaxInserts, MaxTime} \subseteq Nat
  /\ \A v \in Results : v \in Seq(DOMAIN Size)
  /\ \A r \in DOMAIN Size : Size[r] \in Nat

VARIABLES
  sequence,  \* insertions so far; a handle is the number of its insertion
  handles,   \* handles[h] : values and created_at of each retained result
  order,     \* the handles in the order of their insertion
  now,       \* the clock
  status,    \* status[c] : "idle", "open", "done" or "lost"
  handle,    \* handle[c] : the handle of c's query
  asked,     \* asked[c]  : history: when c's query was inserted
  result,    \* result[c] : history: the rows of c's query
  offset,    \* offset[c] : the next_offset c was given
  got,       \* got[c]    : history: the rows c has received
  page       \* page[c]   : the rows of the last page c received

store == <<sequence, handles, order>>
client == <<status, handle, asked, result, offset, got, page>>
vars == <<store, now, client>>

Init == /\ sequence = 0 /\ handles = <<>> /\ order = <<>>
        /\ now = 0
        /\ status = [c \in Clients |-> "idle"]
        /\ handle = [c \in Clients |-> 0]
        /\ asked = [c \in Clients |-> 0]
        /\ result = [c \in Clients |-> <<>>]
        /\ offset = [c \in Clients |-> 0]
        /\ got = [c \in Clients |-> <<>>]
        /\ page = [c \in Clients |-> <<>>]

-----------------------------------------------------------------------------
Unexpired == {h \in DOMAIN handles : now - handles[h].created_at <= TTL}

(* VecDeque::retain: the members of live, in the order of the queue.        *)
Retained(queue, live) ==
  LET kept[i \in 0..Len(queue)] ==
        IF i = 0 THEN <<>>
        ELSE IF queue[i] \in live THEN Append(kept[i - 1], queue[i]) ELSE kept[i - 1]
  IN  kept[Len(queue)]

(* How many handles the loop pops from the front of the queue before the    *)
(* map is within the limit.                                                 *)
Popped(live, queue) ==
  CHOOSE k \in 0..Len(queue) :
    LET Enough(n) == \/ n = Len(queue)
                     \/ Cardinality(live \ {queue[i] : i \in 1..n}) <= MaxHandles
    IN Enough(k) /\ \A n \in 0..(k - 1) : ~Enough(n)

prune_newest ==    \* mutant: pop_back instead of pop_front
  LET live == Unexpired
      queue == Retained(order, live)
      k == Len(queue) - Popped(live, queue)
  IN [handles |-> Restrict(handles, {queue[i] : i \in 1..k}),
      order |-> SubSeq(queue, 1, k)]

prune_lazily ==    \* mutant: the queue keeps handles that have expired
  LET live == Unexpired
      k == Popped(live, order)
  IN [handles |-> Restrict(handles, live \ {order[i] : i \in 1..k}),
      order |-> SubSeq(order, k + 1, Len(order))]

(* prune_locked: retain what has not expired, in the map and in the queue,  *)
(* then evict the oldest while the map holds more than the limit.           *)
prune_locked ==
  LET live == Unexpired
      queue == Retained(order, live)
      k == Popped(live, queue)
  IN [handles |-> Restrict(handles, live \ {queue[i] : i \in 1..k}),
      order |-> SubSeq(queue, k + 1, Len(queue))]

-----------------------------------------------------------------------------
(* Length of the JSON array of the first n rows of v.                       *)
ArrayBytes(v, n) ==
  2 + SumFunction([i \in 1..n |-> Size[v[i]]]) + (n - 1)

Fits(v, n) == ArrayBytes(v, n) <= MaxBytes

RowsThatFit(rest) ==    \* mutant: a first row beyond the limit is left out as well
  CHOOSE n \in 0..Len(rest) :
    /\ n <= PageSize
    /\ \A m \in 1..n : Fits(rest, m)
    /\ n = Len(rest) \/ n = PageSize \/ ~Fits(rest, n + 1)

RowsWithoutCommas(rest) ==    \* mutant: separators are not counted
  CHOOSE n \in 0..Len(rest) :
    /\ n <= PageSize
    /\ \A m \in 2..n : ArrayBytes(rest, m) - (m - 1) <= MaxBytes
    /\ \/ n = Len(rest) \/ n = PageSize
       \/ n >= 1 /\ ArrayBytes(rest, n + 1) - n > MaxBytes

(* page_value: rows are taken up to the page size and to the byte limit,    *)
(* which does not hold back the first row.                                  *)
PageRows(rest) ==
  CHOOSE n \in 0..Len(rest) :
    /\ n <= PageSize
    /\ \A m \in 2..n : Fits(rest, m)
    /\ n = Len(rest) \/ n = PageSize \/ (n >= 1 /\ ~Fits(rest, n + 1))

(* cove_query up to the insertion, and store_diagnostics, whose result has  *)
(* no rows.                                                                 *)
Insert(c) ==
  /\ sequence < MaxInserts
  /\ status[c] # "open"
  /\ \E v \in Results :
       /\ sequence' = sequence + 1
       /\ order' = Append(prune_locked.order, sequence')
       /\ handles' = [h \in DOMAIN prune_locked.handles \cup {sequence'} |->
                        IF h = sequence' THEN [values |-> v, created_at |-> now]
                        ELSE prune_locked.handles[h]]
       /\ result' = [result EXCEPT ![c] = v]
  /\ status' = [status EXCEPT ![c] = "open"]
  /\ handle' = [handle EXCEPT ![c] = sequence']
  /\ asked' = [asked EXCEPT ![c] = now]
  /\ offset' = [offset EXCEPT ![c] = 0]
  /\ got' = [got EXCEPT ![c] = <<>>]
  /\ page' = [page EXCEPT ![c] = <<>>]
  /\ UNCHANGED now

FetchSkipsRow(c) ==    \* mutant: next_offset passes the row that did not fit
  /\ status[c] = "open"
  /\ handles' = prune_locked.handles /\ order' = prune_locked.order
  /\ handle[c] \in DOMAIN handles'
  /\ LET values == handles'[handle[c]].values
         rest == SubSeq(values, offset[c] + 1, Len(values))
         rows == SubSeq(rest, 1, PageRows(rest))
         next_offset == offset[c] + Len(rows) + 1
     IN /\ page' = [page EXCEPT ![c] = rows]
        /\ got' = [got EXCEPT ![c] = @ \o rows]
        /\ offset' = [offset EXCEPT ![c] = next_offset]
        /\ status' = [status EXCEPT ![c] =
                        IF next_offset < Len(values) THEN "open" ELSE "done"]
  /\ UNCHANGED <<sequence, now, handle, asked, result>>

(* The page at c's offset: the first one, which cove_query asks for itself, *)
(* or a later one that c asks for with cove_fetch_result_page.              *)
Fetch(c) ==
  /\ status[c] = "open"
  /\ handles' = prune_locked.handles /\ order' = prune_locked.order
  /\ handle[c] \in DOMAIN handles'
  /\ LET values == handles'[handle[c]].values
         rest == SubSeq(values, offset[c] + 1, Len(values))
         rows == SubSeq(rest, 1, PageRows(rest))
         next_offset == offset[c] + Len(rows)
     IN /\ page' = [page EXCEPT ![c] = rows]
        /\ got' = [got EXCEPT ![c] = @ \o rows]
        /\ offset' = [offset EXCEPT ![c] = next_offset]
        /\ status' = [status EXCEPT ![c] =
                        IF next_offset < Len(values) THEN "open" ELSE "done"]
  /\ UNCHANGED <<sequence, now, handle, asked, result>>

(* The handle is unknown or expired.                                        *)
FetchFails(c) ==
  /\ status[c] = "open"
  /\ handles' = prune_locked.handles /\ order' = prune_locked.order
  /\ handle[c] \notin DOMAIN handles'
  /\ status' = [status EXCEPT ![c] = "lost"]
  /\ UNCHANGED <<sequence, now, handle, asked, result, offset, got, page>>

(* cove_get_diagnostics and fetches of some other handle or offset.         *)
FetchElsewhere ==
  /\ handles' = prune_locked.handles /\ order' = prune_locked.order
  /\ UNCHANGED <<sequence, now, client>>

Tick == now < MaxTime /\ now' = now + 1 /\ UNCHANGED <<store, client>>

Next == \/ Tick \/ FetchElsewhere
        \/ \E c \in Clients : Insert(c) \/ Fetch(c) \/ FetchFails(c)

(* The server answers every request, and a client keeps following           *)
(* next_offset until there is none.                                         *)
Fairness == \A c \in Clients : WF_vars(Fetch(c) \/ FetchFails(c))

Spec == Init /\ [][Next]_vars /\ Fairness

(* What clients see of the store.                                           *)
P == INSTANCE Paging WITH status <- status, result <- result, got <- got

-----------------------------------------------------------------------------
TypeOK ==
  /\ sequence \in 0..MaxInserts /\ now \in 0..MaxTime
  /\ DOMAIN handles \subseteq 1..sequence
  /\ \A h \in DOMAIN handles : /\ handles[h].values \in Results
                               /\ handles[h].created_at \in 0..now
  /\ status \in [Clients -> {"idle", "open", "done", "lost"}]
  /\ handle \in [Clients -> 0..sequence]
  /\ \A c \in Clients : result[c] \in Results \cup {<<>>}
  /\ \A c \in Clients : offset[c] \in 0..Len(result[c])

(* Map and queue agree, in the order of insertion, so that eviction can     *)
(* always find its victim; and the store, which prunes before it inserts,   *)
(* never holds more than one result beyond its limit.                       *)
StoreBounded ==
  /\ {order[i] : i \in DOMAIN order} = DOMAIN handles
  /\ \A i, j \in DOMAIN order : i < j => order[i] < order[j]
  /\ Cardinality(DOMAIN handles) <= MaxHandles + 1

(* A client loses its result only to time, or to MaxHandles results that    *)
(* were inserted after its own, whatever other clients do in between; in    *)
(* particular between the insertion and the first page of one query.        *)
LostMeansDisplaced ==
  \A c \in Clients : status[c] = "lost" =>
    sequence - handle[c] >= MaxHandles \/ now - asked[c] > TTL

(* No response carries more than the limits, but for a single row.          *)
PageWithinLimits ==
  \A c \in Clients :
    /\ Len(page[c]) <= PageSize
    /\ Len(page[c]) <= 1 \/ Fits(page[c], Len(page[c]))

(* The store implements Paging: every client receives its rows in order,    *)
(* each exactly once, no page is empty while rows are left, and a client    *)
(* that keeps asking comes to an end.                                       *)
ImplementsPaging == P!PagingSpec
=============================================================================
