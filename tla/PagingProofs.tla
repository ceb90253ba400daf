---------------------------- MODULE PagingProofs ----------------------------
(***************************************************************************)
(* How many rows a reader of pages can miss, for every table, page size    *)
(* and number of changes.                                                  *)
(*                                                                         *)
(* The argument: a row is missed for certain once the reader has counted   *)
(* past its place in the order.  An insert moves rows away from the part   *)
(* that was read; a deletion or a change of a key moves others by one      *)
(* place, and only one row can be at the boundary when it does.            *)
(***************************************************************************)
EXTENDS Paging, FiniteSetTheorems, TLAPS

\* The rows that come before a row whose key no other has.
Below(r) == {q \in Present(key) : key[q] < key[r]}

\* The rows whose place the reader has gone past without having read them.
Missed == {r \in alone \ seen : Cardinality(Below(r)) < offset}

MissedSoFar == IF phase = "reading" THEN Missed ELSE alone \ seen

\* The inductive invariant.  While the reader reads, a row it has not come to
\* is not counted; afterwards every row it has not read is.
IInv ==
  /\ TypeOK
  /\ alone \subseteq Unique(key)
  /\ Cardinality(MissedSoFar) <= moves

-----------------------------------------------------------------------------
(* Sets of rows, and the order *)

\* What a row that is there is ordered by.
LEMMA KeysAreNumbers == ASSUME TypeOK PROVE \A q \in Present(key) : key[q] \in Int
BY PagingAssumption DEF Present, TypeOK

\* The facts about finite sets that the counting of rows needs.
LEMMA RowSets ==
  ASSUME NEW S \in SUBSET Rows
  PROVE  /\ IsFiniteSet(S) /\ Cardinality(S) \in Nat
         /\ \A T \in SUBSET S : Cardinality(T) <= Cardinality(S)
         /\ \A x \in S : Cardinality(S \ {x}) = Cardinality(S) - 1
         /\ \A x : Cardinality(S \ {x}) >= Cardinality(S) - 1
<1>1. IsFiniteSet(S)
  BY FS_Subset, PagingAssumption
<1>2. Cardinality(S) \in Nat
  BY <1>1, FS_CardinalityType
<1>3. \A T \in SUBSET S : Cardinality(T) <= Cardinality(S)
  BY <1>1, FS_Subset
<1>4. \A x : Cardinality(S \ {x}) = IF x \in S THEN Cardinality(S) - 1 ELSE Cardinality(S)
  BY <1>1, FS_RemoveElement
<1>5. QED
  BY <1>1, <1>2, <1>3, <1>4

\* A set of rows that are all one row counts at most once.
LEMMA AtMostOne ==
  ASSUME NEW S \in SUBSET Rows, \A r, s \in S : r = s
  PROVE  Cardinality(S) <= 1
<1>1. CASE S = {}
  BY <1>1, FS_EmptySet
<1>2. ASSUME NEW r \in S
      PROVE  Cardinality(S) <= 1
  <2>1. S = {r}
    BY <1>2
  <2>2. QED
    BY <2>1, FS_Singleton
<1>3. QED
  BY <1>1, <1>2

\* Two rows of one place are one row: the lower one is before the higher one.
LEMMA PlacesDiffer ==
  ASSUME TypeOK, NEW r \in Unique(key), NEW s \in Unique(key),
         Cardinality(Below(r)) = Cardinality(Below(s))
  PROVE  r = s
<1>0. \A q \in Present(key) : key[q] \in Int
  BY KeysAreNumbers
<1>1. ASSUME NEW lower \in Unique(key), NEW upper \in Unique(key), key[lower] < key[upper]
      PROVE  Cardinality(Below(lower)) < Cardinality(Below(upper))
  <2>1. /\ Below(lower) \in SUBSET (Below(upper) \ {lower})
        /\ lower \in Below(upper) /\ Below(upper) \in SUBSET Rows
    <3>1. lower \in Present(key) /\ upper \in Present(key)
      BY DEF Unique
    <3>2. \A q \in Below(lower) : key[q] < key[upper] /\ q # lower
      BY <1>0, <1>1, <3>1 DEF Below
    <3>3. Below(lower) \subseteq Present(key) /\ Present(key) \subseteq Rows
      BY DEF Below, Present
    <3>4. \A q \in Below(lower) : q \in Below(upper)
      BY <3>2, <3>3 DEF Below
    <3>5. lower \in Below(upper) /\ Below(upper) \subseteq Rows
      BY <1>1, <3>1, <3>3 DEF Below
    <3>6. QED
      BY <3>2, <3>4, <3>5
  <2>2. /\ Cardinality(Below(lower)) <= Cardinality(Below(upper) \ {lower})
        /\ Cardinality(Below(upper) \ {lower}) = Cardinality(Below(upper)) - 1
        /\ Cardinality(Below(upper)) \in Nat
    <3>1. Below(upper) \ {lower} \in SUBSET Rows
      BY <2>1
    <3>2. QED
      BY <2>1, <3>1, RowSets
  <2>3. Below(lower) \in SUBSET Rows
    BY <2>1
  <2>4. Cardinality(Below(lower)) \in Nat
    BY <2>3, RowSets
  <2>5. QED
    BY <2>2, <2>4
<1>2. key[r] \in Int /\ key[s] \in Int
  BY <1>0 DEF Unique
<1>3. ~(key[r] < key[s]) /\ ~(key[s] < key[r])
  <2>1. /\ Below(r) \in SUBSET Rows /\ Below(s) \in SUBSET Rows
    BY DEF Below, Present
  <2>2. Cardinality(Below(r)) \in Nat /\ Cardinality(Below(s)) \in Nat
    BY <2>1, RowSets
  <2>3. QED
    BY <1>1, <2>2
<1>4. key[r] = key[s]
  BY <1>2, <1>3
<1>5. QED
  BY <1>4 DEF Unique, Present

-----------------------------------------------------------------------------
(* Writes *)

\* A write leaves a part of the rows alone, and changes what is before such a
\* row by no more than the row it writes.
LEMMA WriteEffect ==
  ASSUME IInv, NEW r \in Rows, NEW k \in Keys \cup {NULL}, Write(r, k)
  PROVE  /\ key' \in [Rows -> Keys \cup {NULL}] /\ key'[r] = k
         /\ alone' \subseteq alone /\ alone' \subseteq Unique(key')
         /\ \A s \in alone' \ {r} :
              /\ key'[s] = key[s]
              /\ \A q \in Rows \ {r} : q \in Below(s)' <=> q \in Below(s)
              /\ r \in Below(s)' <=> k # NULL /\ k < key[s]
<1>1. /\ key' \in [Rows -> Keys \cup {NULL}] /\ key'[r] = k
      /\ \A q \in Rows \ {r} : key'[q] = key[q]
  BY DEF IInv, TypeOK, Write
<1>2. alone' \subseteq alone /\ alone' \subseteq Unique(key')
  BY DEF Write
<1>3. ASSUME NEW s \in alone' \ {r}
      PROVE  /\ key'[s] = key[s]
             /\ \A q \in Rows \ {r} : q \in Below(s)' <=> q \in Below(s)
             /\ r \in Below(s)' <=> k # NULL /\ k < key[s]
  <2>1. key'[s] = key[s]
    BY <1>1, <1>2, <1>3 DEF Unique, Present
  <2>2. QED
    BY <1>1, <2>1 DEF Below, Present
<1>4. QED
  BY <1>1, <1>2, <1>3

\* What is missed stays missed, so a write that only moves rows away misses
\* nothing, and one that moves a single row of those left alone misses one.
LEMMA OneMoreMissed ==
  ASSUME IInv, alone' \subseteq alone, UNCHANGED <<phase, seen>>,
         \A s, t \in MissedSoFar' \ MissedSoFar : s = t
  PROVE  Cardinality(MissedSoFar') <= moves + 1
<1> DEFINE Late == MissedSoFar' \ MissedSoFar
<1>1. /\ MissedSoFar \in SUBSET Rows /\ MissedSoFar' \in SUBSET Rows
      /\ Late \in SUBSET Rows /\ MissedSoFar \cup Late \in SUBSET Rows
  BY DEF IInv, TypeOK, MissedSoFar, Missed
<1>2. Cardinality(Late) <= 1
  BY <1>1, AtMostOne
<1>3. Cardinality(MissedSoFar \cup Late)
        = Cardinality(MissedSoFar) + Cardinality(Late) - Cardinality(MissedSoFar \cap Late)
  BY <1>1, RowSets, FS_Union
<1>4. MissedSoFar \cap Late = {}
  OBVIOUS
<1>5. Cardinality(MissedSoFar \cap Late) = 0
  BY <1>4, FS_EmptySet
<1>6. Cardinality(MissedSoFar') <= Cardinality(MissedSoFar \cup Late)
  <2>1. MissedSoFar' \in SUBSET (MissedSoFar \cup Late)
    OBVIOUS
  <2>2. QED
    BY <1>1, <2>1, RowSets
<1>7. /\ Cardinality(MissedSoFar) \in Nat /\ Cardinality(Late) \in Nat
      /\ Cardinality(MissedSoFar') \in Nat /\ Cardinality(MissedSoFar \cup Late) \in Nat
  BY <1>1, RowSets
<1>8. moves \in Nat
  BY PagingAssumption DEF IInv, TypeOK
<1>9. QED
  BY <1>2, <1>3, <1>5, <1>6, <1>7, <1>8 DEF IInv

\* An insert puts rows further from the start, where the reader has not been.
LEMMA InsertKeepsInvariant ==
  ASSUME IInv, NEW r \in Rows, NEW k \in Keys, Insert(r, k)
  PROVE  IInv'
<1>1. Write(r, k) /\ key[r] = NULL /\ UNCHANGED <<phase, offset, seen, moves>>
  BY DEF Insert, Write
<1>2. /\ key' \in [Rows -> Keys \cup {NULL}] /\ key'[r] = k
      /\ alone' \subseteq alone /\ alone' \subseteq Unique(key')
      /\ \A s \in alone' \ {r} :
           \A q \in Rows \ {r} : q \in Below(s)' <=> q \in Below(s)
  BY <1>1, WriteEffect
<1>3. r \notin alone /\ \A s : r \notin Below(s)
  BY <1>1 DEF IInv, Unique, Present, Below
<1>4. MissedSoFar' \subseteq MissedSoFar
  <2>1. ASSUME NEW s \in alone'
        PROVE  /\ Below(s) \in SUBSET Below(s)' /\ Below(s)' \in SUBSET Rows
    BY <1>2, <1>3 DEF Below, Present
  <2>2. ASSUME NEW s \in alone'
        PROVE  Cardinality(Below(s)) <= Cardinality(Below(s)')
    BY <2>1, RowSets
  <2>3. ASSUME NEW s \in Missed'
        PROVE  s \in Missed
    <3>1. s \in alone' /\ s \in alone /\ s \notin seen /\ Cardinality(Below(s)') < offset
      BY <1>1, <1>2 DEF Missed
    <3>2. /\ Cardinality(Below(s)) \in Nat /\ Cardinality(Below(s)') \in Nat
      <4>1. Below(s) \in SUBSET Rows /\ Below(s)' \in SUBSET Rows
        BY DEF Below, Present
      <4>2. QED
        BY <4>1, RowSets
    <3>3. offset \in Nat
      BY DEF IInv, TypeOK
    <3>4. Cardinality(Below(s)) < offset
      BY <2>2, <3>1, <3>2, <3>3
    <3>5. QED
      BY <3>1, <3>4 DEF Missed
  <2>4. QED
    BY <1>1, <1>2, <2>3 DEF MissedSoFar
<1>5. Cardinality(MissedSoFar') <= Cardinality(MissedSoFar)
  <2>1. MissedSoFar \in SUBSET Rows
    BY DEF IInv, TypeOK, MissedSoFar, Missed
  <2>2. QED
    BY <1>4, <2>1, RowSets
<1>6. /\ Cardinality(MissedSoFar) \in Nat /\ Cardinality(MissedSoFar') \in Nat
  <2>1. MissedSoFar \in SUBSET Rows /\ MissedSoFar' \in SUBSET Rows
    BY <1>4 DEF IInv, TypeOK, MissedSoFar, Missed
  <2>2. QED
    BY <2>1, RowSets
<1>7. TypeOK'
  BY <1>1, <1>2 DEF IInv, TypeOK
<1>8. Cardinality(MissedSoFar') <= moves'
  BY <1>1, <1>5, <1>6, PagingAssumption DEF IInv, TypeOK
<1>9. QED
  BY <1>2, <1>7, <1>8 DEF IInv

\* A row that is taken from its place, and perhaps put elsewhere, moves others
\* by one place, so that only the one at the boundary is missed; or it is
\* itself put before the boundary, and then no other is.
LEMMA MoveKeepsInvariant ==
  ASSUME IInv, NEW r \in Rows, NEW k \in Keys \cup {NULL},
         key[r] # NULL, key[r] # k, moves < MaxMoves,
         Write(r, k), moves' = moves + 1
  PROVE  IInv'
<1>1. UNCHANGED <<phase, offset, seen>>
  BY DEF Write
<1>2. /\ key' \in [Rows -> Keys \cup {NULL}] /\ key'[r] = k
      /\ alone' \subseteq alone /\ alone' \subseteq Unique(key')
      /\ \A s \in alone' \ {r} :
           /\ key'[s] = key[s]
           /\ \A q \in Rows \ {r} : q \in Below(s)' <=> q \in Below(s)
           /\ r \in Below(s)' <=> k # NULL /\ k < key[s]
  BY WriteEffect
<1>3. \A s : /\ Below(s) \in SUBSET Rows /\ Below(s)' \in SUBSET Rows
             /\ Cardinality(Below(s)) \in Nat /\ Cardinality(Below(s)') \in Nat
  <2>1. \A s : Below(s) \in SUBSET Rows /\ Below(s)' \in SUBSET Rows
    BY DEF Below, Present
  <2>2. QED
    BY <2>1, RowSets
<1>4. offset \in Nat /\ alone \subseteq Unique(key) /\ TypeOK
  BY DEF IInv, TypeOK
<1> DEFINE Late(s) ==
      s \in alone' /\ Cardinality(Below(s)') < offset /\ offset <= Cardinality(Below(s))
\* The other rows that become missed are at the boundary.
<1>5. ASSUME NEW s, Late(s), s # r
      PROVE  Cardinality(Below(s)) = offset
  <2>1. Below(s) \ {r} \in SUBSET Below(s)'
    BY <1>2, <1>3, <1>5
  <2>2. Cardinality(Below(s) \ {r}) <= Cardinality(Below(s)')
    BY <1>3, <2>1, RowSets
  <2>3. Cardinality(Below(s) \ {r}) >= Cardinality(Below(s)) - 1
    BY <1>3, RowSets
  <2>4. Below(s) \ {r} \in SUBSET Rows
    BY <1>3
  <2>5. Cardinality(Below(s) \ {r}) \in Nat
    BY <2>4, RowSets
  <2>6. QED
    BY <1>3, <1>4, <1>5, <2>2, <2>3, <2>5
\* The row that was moved is missed only if it was moved towards the start.
<1>6. ASSUME Late(r)
      PROVE  k # NULL /\ k \in Int /\ key[r] \in Int /\ k < key[r]
  <2>1. r \in Unique(key) /\ r \in Unique(key')
    BY <1>2, <1>4, <1>6
  <2>2. k # NULL /\ k \in Int /\ key[r] \in Int
    BY <1>2, <2>1, PagingAssumption DEF Unique, Present, IInv, TypeOK
  <2>3. ASSUME key[r] < k
        PROVE  FALSE
    <3>1. ASSUME NEW q \in Below(r)
          PROVE  q \in Below(r)'
      <4>1. q \in Present(key) /\ key[q] < key[r]
        BY DEF Below
      <4>2. q \in Rows /\ key[q] # NULL /\ key[q] \in Int /\ q # r
        BY <1>4, <2>2, <4>1, KeysAreNumbers DEF Present
      <4>3. key'[q] = key[q]
        BY <4>2 DEF IInv, TypeOK, Write
      <4>4. key[q] < k
        BY <2>2, <2>3, <4>1, <4>2
      <4>5. QED
        BY <1>2, <4>2, <4>3, <4>4 DEF Below, Present
    <3>2. Cardinality(Below(r)) <= Cardinality(Below(r)')
      BY <1>3, <3>1, RowSets
    <3>3. QED
      BY <1>3, <1>4, <1>6, <3>2
  <2>4. QED
    BY <2>2, <2>3
<1>7. ASSUME NEW s, Late(s), s # r, Late(r)
      PROVE  FALSE
  <2>1. s \in alone' \ {r} /\ s \in Unique(key)
    BY <1>2, <1>4, <1>7
  <2>2. key[s] \in Int
    BY <2>1, PagingAssumption DEF Unique, Present, IInv, TypeOK
  <2>3. r \in Below(s) => r \in Below(s)'
    <3>1. k # NULL /\ k \in Int /\ key[r] \in Int /\ k < key[r]
      BY <1>6, <1>7
    <3>2. r \in Below(s) => key[r] < key[s]
      BY DEF Below
    <3>3. QED
      BY <1>2, <2>1, <2>2, <3>1, <3>2
  <2>4. Below(s) \in SUBSET Below(s)'
    BY <1>2, <1>3, <2>1, <2>3
  <2>5. Cardinality(Below(s)) <= Cardinality(Below(s)')
    BY <1>3, <2>4, RowSets
  <2>6. QED
    BY <1>3, <1>4, <1>7, <2>5
<1>8. \A s, t \in MissedSoFar' \ MissedSoFar : s = t
  <2>1. ASSUME NEW s \in MissedSoFar' \ MissedSoFar
        PROVE  Late(s)
    <3>1. phase = "reading"
      BY <1>1, <1>2, <2>1 DEF MissedSoFar
    <3>2. s \in Missed' /\ s \notin Missed
      BY <1>1, <2>1, <3>1 DEF MissedSoFar
    <3>3. s \in alone' /\ s \in alone /\ s \notin seen /\ Cardinality(Below(s)') < offset
      BY <1>1, <1>2, <3>2 DEF Missed
    <3>4. ~(Cardinality(Below(s)) < offset)
      BY <3>2, <3>3 DEF Missed
    <3>5. QED
      BY <1>3, <1>4, <3>3, <3>4
  <2>2. ASSUME NEW s, NEW t, Late(s), Late(t)
        PROVE  s = t
    <3>1. CASE s # r /\ t # r
      <4>1. Cardinality(Below(s)) = Cardinality(Below(t))
        BY <1>5, <2>2, <3>1
      <4>2. s \in Unique(key) /\ t \in Unique(key)
        BY <1>2, <1>4, <2>2
      <4>3. QED
        BY <1>4, <4>1, <4>2, PlacesDiffer
    <3>2. CASE s = r \/ t = r
      BY <1>7, <2>2, <3>2
    <3>3. QED
      BY <3>1, <3>2
  <2>3. QED
    BY <2>1, <2>2
<1>9. Cardinality(MissedSoFar') <= moves'
  BY <1>1, <1>2, <1>8, OneMoreMissed
<1>10. TypeOK'
  BY <1>1, <1>2, PagingAssumption DEF IInv, TypeOK
<1>11. QED
  BY <1>2, <1>9, <1>10 DEF IInv

-----------------------------------------------------------------------------
(* Reads *)

\* A row that no other equals has all of an earlier part of the order before
\* it, or none of a later one.
LEMMA PageBoundary ==
  ASSUME IInv, NEW before \in SUBSET Present(key), NEW page \in SUBSET Present(key),
         IsPage(before, page), NEW r \in alone, r \notin page
  PROVE  \/ r \in before /\ Cardinality(Below(r)) < offset
         \/ r \notin before /\ offset + Cardinality(page) <= Cardinality(Below(r))
<1> DEFINE after == Present(key) \ (before \cup page)
<1>1. /\ before \cap page = {}
      /\ Cardinality(before) <= offset
      /\ Cardinality(before) < offset => page \cup after = {}
      /\ Precede(before, page \cup after)
      /\ Precede(page, after)
  BY DEF IsPage
<1>2. /\ r \in Present(key) /\ key[r] \in Int
      /\ \A q \in Rows \ {r} : key[q] # key[r]
      /\ \A q \in Present(key) : key[q] \in Int
  BY KeysAreNumbers DEF IInv, Unique
<1>3. /\ before \in SUBSET Rows /\ page \in SUBSET Rows /\ Present(key) \in SUBSET Rows
      /\ Below(r) \in SUBSET Present(key) /\ Below(r) \in SUBSET Rows
  BY DEF Present, Below
<1>4. /\ Cardinality(before) \in Nat /\ Cardinality(page) \in Nat
      /\ Cardinality(Below(r)) \in Nat /\ offset \in Nat
  BY <1>3, RowSets DEF IInv, TypeOK
<1>5. CASE r \in before
  <2>1. Below(r) \in SUBSET (before \ {r})
    <3>1. ASSUME NEW q \in Below(r)
          PROVE  q \in before /\ q # r
      <4>1. q \in Present(key) /\ key[q] < key[r] /\ key[q] \in Int
        BY <1>2, <1>3 DEF Below
      <4>2. q \notin page \cup after
        BY <1>1, <1>2, <1>5, <4>1 DEF Precede
      <4>3. QED
        BY <1>2, <4>1, <4>2
    <3>2. QED
      BY <3>1
  <2>2. before \ {r} \in SUBSET Rows
    BY <1>3
  <2>3. /\ Cardinality(Below(r)) <= Cardinality(before \ {r})
        /\ Cardinality(before \ {r}) = Cardinality(before) - 1
    BY <1>3, <1>5, <2>1, <2>2, RowSets
  <2>4. QED
    BY <1>1, <1>4, <1>5, <2>3
<1>6. CASE r \notin before
  <2>1. r \in after
    BY <1>2, <1>6
  <2>2. Cardinality(before) = offset
    BY <1>1, <1>4, <2>1
  <2>3. before \cup page \in SUBSET Below(r)
    <3>1. ASSUME NEW q \in before \cup page
          PROVE  q \in Below(r)
      <4>1. q \in Present(key) /\ q \in Rows /\ q # r
        BY <1>3, <2>1
      <4>2. key[q] <= key[r]
        BY <1>1, <2>1 DEF Precede
      <4>3. key[q] < key[r]
        BY <1>2, <4>1, <4>2
      <4>4. QED
        BY <4>1, <4>3 DEF Below
    <3>2. QED
      BY <3>1
  <2>4. Cardinality(before \cup page) = Cardinality(before) + Cardinality(page)
    <3>1. /\ IsFiniteSet(before) /\ IsFiniteSet(page)
      BY <1>3, RowSets
    <3>2. Cardinality(before \cap page) = 0
      BY <1>1, FS_EmptySet
    <3>3. Cardinality(before \cup page)
            = Cardinality(before) + Cardinality(page) - Cardinality(before \cap page)
      BY <3>1, FS_Union
    <3>4. QED
      BY <1>4, <3>2, <3>3
  <2>5. Cardinality(before \cup page) <= Cardinality(Below(r))
    BY <1>3, <2>3, RowSets
  <2>6. QED
    BY <1>6, <2>2, <2>4, <2>5
<1>7. QED
  BY <1>5, <1>6

\* A page leaves no row behind that the reader had still before it.
LEMMA ReadKeepsInvariant ==
  ASSUME IInv, ReadPage
  PROVE  IInv'
<1>1. PICK before \in SUBSET Present(key), page \in SUBSET Present(key) :
        /\ IsPage(before, page)
        /\ seen' = seen \cup page
        /\ offset' = offset + Cardinality(page)
        /\ phase' = IF Cardinality(page) < Limit THEN "done" ELSE "reading"
  BY DEF ReadPage
<1>2. phase = "reading" /\ UNCHANGED <<key, alone, moves>>
  BY DEF ReadPage
<1>3. page \in SUBSET Rows /\ Cardinality(page) \in Nat
  <2>1. page \in SUBSET Rows
    BY DEF Present
  <2>2. QED
    BY <2>1, RowSets
<1>4. \A r : Below(r)' = Below(r)
  BY <1>2 DEF Below
<1>5. ASSUME NEW r \in alone, r \notin page
      PROVE  \/ r \in before /\ Cardinality(Below(r)) < offset
             \/ r \notin before /\ offset + Cardinality(page) <= Cardinality(Below(r))
  BY <1>1, <1>5, PageBoundary
<1>6. offset \in Nat /\ \A r : Cardinality(Below(r)) \in Nat
  <2>1. \A r : Below(r) \in SUBSET Rows
    BY DEF Below, Present
  <2>2. QED
    BY <2>1, RowSets DEF IInv, TypeOK
<1>7. ASSUME NEW r \in MissedSoFar'
      PROVE  r \in MissedSoFar
  <2>1. r \in alone /\ r \notin seen /\ r \notin page
    BY <1>1, <1>2, <1>7 DEF MissedSoFar, Missed
  <2>2. CASE phase' = "reading"
    <3>1. Cardinality(Below(r)) < offset + Cardinality(page)
      BY <1>1, <1>4, <1>7, <2>2 DEF MissedSoFar, Missed
    <3>2. Cardinality(Below(r)) < offset
      BY <1>3, <1>5, <1>6, <2>1, <3>1
    <3>3. QED
      BY <1>2, <2>1, <3>2 DEF MissedSoFar, Missed
\* The page is not full: nothing comes after it.
  <2>3. CASE phase' # "reading"
    <3>1. Present(key) \ (before \cup page) = {}
      BY <1>1, <2>3 DEF IsPage
    <3>2. r \in before
      BY <2>1, <3>1 DEF IInv, Unique
    <3>3. QED
      BY <1>2, <1>5, <2>1, <3>2 DEF MissedSoFar, Missed
  <2>4. QED
    BY <2>2, <2>3
<1>8. MissedSoFar \in SUBSET Rows /\ MissedSoFar' \in SUBSET MissedSoFar
  BY <1>7 DEF MissedSoFar, Missed, IInv, TypeOK
<1>9. /\ Cardinality(MissedSoFar') <= Cardinality(MissedSoFar)
      /\ Cardinality(MissedSoFar) \in Nat /\ Cardinality(MissedSoFar') \in Nat
  <2>1. MissedSoFar' \in SUBSET Rows
    BY <1>8
  <2>2. QED
    BY <1>8, <2>1, RowSets
<1>10. moves \in Nat
  BY PagingAssumption DEF IInv, TypeOK
<1>11. Cardinality(MissedSoFar') <= moves'
  BY <1>2, <1>9, <1>10 DEF IInv
<1>12. TypeOK'
  BY <1>1, <1>2, <1>3 DEF IInv, TypeOK
<1>13. QED
  BY <1>2, <1>11, <1>12 DEF IInv

\* A client that begins has missed nothing.
LEMMA BeginningMissesNothing ==
  ASSUME TypeOK, alone \subseteq Unique(key), phase = "reading", offset = 0, moves = 0
  PROVE  IInv
<1>1. \A r : Cardinality(Below(r)) \in Nat
  <2>1. \A r : Below(r) \in SUBSET Rows
    BY DEF Below, Present
  <2>2. QED
    BY <2>1, RowSets
<1>2. Missed = {}
  BY <1>1 DEF Missed
<1>3. Cardinality(MissedSoFar) = 0
  BY <1>2, FS_EmptySet DEF MissedSoFar
<1>4. QED
  BY <1>3 DEF IInv

LEMMA InitInvariant == Init => IInv
<1> SUFFICES ASSUME Init PROVE IInv
  OBVIOUS
<1>1. TypeOK
  BY PagingAssumption DEF Init, TypeOK, Unique, Present
<1>2. QED
  BY <1>1, BeginningMissesNothing DEF Init

LEMMA RereadKeepsInvariant == ASSUME IInv, Reread PROVE IInv'
<1>1. TypeOK' /\ alone' \subseteq Unique(key')
  BY PagingAssumption DEF IInv, TypeOK, Reread, Unique, Present
<1>2. phase' = "reading" /\ offset' = 0 /\ moves' = 0
  BY DEF Reread
<1>3. Missed' = {}
  <2>1. \A r : Below(r)' \in SUBSET Rows
    BY DEF Below, Present
  <2>2. \A r : Cardinality(Below(r)') \in Nat
    BY <2>1, RowSets
  <2>3. QED
    BY <1>2, <2>2 DEF Missed
<1>4. Cardinality(MissedSoFar') = 0
  BY <1>2, <1>3, FS_EmptySet DEF MissedSoFar
<1>5. QED
  BY <1>1, <1>2, <1>4 DEF IInv

LEMMA StepInvariant == IInv /\ [Next]_vars => IInv'
<1> SUFFICES ASSUME IInv, [Next]_vars PROVE IInv'
  OBVIOUS
<1>1. ASSUME NEW r \in Rows, Delete(r)
      PROVE  IInv'
  <2>1. key[r] # NULL /\ moves < MaxMoves /\ Write(r, NULL) /\ moves' = moves + 1
    BY <1>1 DEF Delete
  <2>2. QED
    BY <2>1, MoveKeepsInvariant
<1>2. ASSUME NEW r \in Rows, NEW k \in Keys, Insert(r, k)
      PROVE  IInv'
  BY <1>2, InsertKeepsInvariant
<1>3. ASSUME NEW r \in Rows, NEW k \in Keys, Rekey(r, k)
      PROVE  IInv'
  <2>1. /\ key[r] # NULL /\ key[r] # k /\ moves < MaxMoves
        /\ Write(r, k) /\ moves' = moves + 1
    BY <1>3 DEF Rekey
  <2>2. QED
    BY <2>1, MoveKeepsInvariant
<1>4. CASE ReadPage
  BY <1>4, ReadKeepsInvariant
<1>5. CASE Reread
  BY <1>5, RereadKeepsInvariant
<1>6. CASE UNCHANGED vars
  BY <1>6 DEF vars, IInv, TypeOK, MissedSoFar, Missed, Below
<1>7. QED
  BY <1>1, <1>2, <1>3, <1>4, <1>5, <1>6 DEF Next

LEMMA Invariant == Spec => []IInv
BY InitInvariant, StepInvariant, PTL DEF Spec

-----------------------------------------------------------------------------
(* Theorems *)

\* Reading a table to its end with LIMIT and OFFSET misses, of the rows that
\* were there all the time, at most one for every row that was deleted or
\* moved meanwhile, whatever is inserted.
THEOREM FewRowsAreMissed == Spec => []MissesAreBounded
<1>1. IInv => MissesAreBounded
  BY DEF IInv, MissedSoFar, MissesAreBounded
<1>2. QED
  BY <1>1, Invariant, PTL

\* If rows are only inserted during the reading, it misses none of them: the
\* new row pushes others to a later page and never to an earlier one.
THEOREM InsertsHideNothing == Spec => [](phase = "done" /\ moves = 0 => alone \subseteq seen)
<1>1. IInv => (phase = "done" /\ moves = 0 => alone \subseteq seen)
  <2> SUFFICES ASSUME IInv, phase = "done", moves = 0 PROVE alone \ seen = {}
    OBVIOUS
  <2>1. alone \ seen \in SUBSET Rows /\ Cardinality(alone \ seen) <= 0
    BY DEF IInv, TypeOK, MissedSoFar
  <2>2. IsFiniteSet(alone \ seen) /\ Cardinality(alone \ seen) \in Nat
    BY <2>1, RowSets
  <2>3. QED
    BY <2>1, <2>2, FS_EmptySet
<1>2. QED
  BY <1>1, Invariant, PTL

\* Every variable of a reading holds what it can hold.
THEOREM TypeCorrect == Spec => []TypeOK
<1>1. IInv => TypeOK
  BY DEF IInv
<1>2. QED
  BY <1>1, Invariant, PTL
=============================================================================
