------------------------------- MODULE Paging -------------------------------
(***************************************************************************)
(* A client that reads a table page by page, with the limit and offset of  *)
(* List, while others insert, update and delete rows.  All four services   *)
(* page alike: ORDER BY one column, LIMIT, OFFSET, a statement per page,   *)
(* and nothing to tell rows apart that are equal in that column.           *)
(***************************************************************************)
EXTENDS Integers, FiniteSets

CONSTANTS
  Rows,      \* bound: the rows there can be at one time
  Keys,      \* values of the column ordered by; the greatest stands for NULL
  Limit,     \* request.limit
  MaxMoves,  \* bound: deletions and changes of keys during one reading
  NULL

ASSUME PagingAssumption ==
  /\ IsFiniteSet(Rows)
  /\ Keys \subseteq Int /\ NULL \notin Keys
  /\ Limit \in Nat \ {0} /\ MaxMoves \in Nat

VARIABLES
  key,      \* row -> its value in the column, NULL where there is no row
  phase,    \* whether the client still reads
  offset,   \* request.offset of the next page
  seen,     \* the rows on the pages read so far
  alone,    \* rows there since the first page and never equal to another
  moves     \* deletions and changes of keys since the first page

vars == <<key, phase, offset, seen, alone, moves>>

TypeOK ==
  /\ key \in [Rows -> Keys \cup {NULL}]
  /\ phase \in {"reading", "done"}
  /\ offset \in Nat
  /\ seen \subseteq Rows /\ alone \subseteq Rows
  /\ moves \in 0 .. MaxMoves

Present(k) == {r \in Rows : k[r] # NULL}
Unique(k) == {r \in Present(k) : \A q \in Rows \ {r} : k[q] # k[r]}

Init ==
  /\ key \in [Rows -> Keys \cup {NULL}]
  /\ phase = "reading"
  /\ offset = 0
  /\ seen = {}
  /\ alone = Unique(key)
  /\ moves = 0

\* A statement of somebody else.  Only what the client reads makes it count.
Write(r, k) ==
  /\ key' = [key EXCEPT ![r] = k]
  /\ alone' = alone \cap Unique(key')
  /\ UNCHANGED <<phase, offset, seen>>

Insert(r, k) ==
  /\ key[r] = NULL
  /\ Write(r, k)
  /\ UNCHANGED moves

Delete(r) ==
  /\ key[r] # NULL
  /\ moves < MaxMoves
  /\ Write(r, NULL)
  /\ moves' = moves + 1

\* Update, mark_used: the row gets another place in the order.
Rekey(r, k) ==
  /\ key[r] # NULL /\ key[r] # k
  /\ moves < MaxMoves
  /\ Write(r, k)
  /\ moves' = moves + 1

Precede(first, second) == \A a \in first, b \in second : key[a] <= key[b]

\* Mutant: no ORDER BY.
IsPageUnordered(before, page) ==
  LET after == Present(key) \ (before \cup page) IN
  /\ before \cap page = {}
  /\ Cardinality(before) <= offset
  /\ Cardinality(page) <= Limit
  /\ Cardinality(before) < offset => page \cup after = {}
  /\ Cardinality(page) < Limit => after = {}

\* OFFSET skips `before`, LIMIT ends `page`; rows with equal keys come in any
\* order, and in another one in the next statement.
IsPage(before, page) ==
  LET after == Present(key) \ (before \cup page) IN
  /\ before \cap page = {}
  /\ Cardinality(before) <= offset
  /\ Cardinality(page) <= Limit
  /\ Cardinality(before) < offset => page \cup after = {}
  /\ Cardinality(page) < Limit => after = {}
  /\ Precede(before, page \cup after)
  /\ Precede(page, after)

\* A page that is not full is the last one.
ReadPage ==
  /\ phase = "reading"
  /\ \E before, page \in SUBSET Present(key) :
       /\ IsPage(before, page)
       /\ seen' = seen \cup page
       /\ offset' = offset + Cardinality(page)
       /\ phase' = IF Cardinality(page) < Limit THEN "done" ELSE "reading"
  /\ UNCHANGED <<key, alone, moves>>

\* The client begins again.
Reread ==
  /\ phase = "done"
  /\ phase' = "reading"
  /\ offset' = 0
  /\ seen' = {}
  /\ alone' = Unique(key)
  /\ moves' = 0
  /\ UNCHANGED key

Next ==
  \/ \E r \in Rows :
       \/ Delete(r)
       \/ \E k \in Keys : Insert(r, k) \/ Rekey(r, k)
  \/ ReadPage
  \/ Reread

Spec == Init /\ [][Next]_vars

-----------------------------------------------------------------------------
\* A client that has read to the end missed at most one row for every deletion
\* and every change of a key in the meantime, and none for inserts, wherever in
\* the order they fall.  This is about rows that share their key with no other:
\* of rows that do, any may be missed on a table nobody touches.
MissesAreBounded == phase = "done" => Cardinality(alone \ seen) <= moves
=============================================================================
