------------------------- MODULE SessionLedgerProofs -------------------------
(***************************************************************************)
(* Where the rows of a session are, for any rows, any features and cancels *)
(* and any number of slots: each in one place at a time, and none of them  *)
(* lost or shown twice, which is what the ledger of inputs promises.       *)
(***************************************************************************)
EXTENDS SessionQueueProofs, SequenceTheorems

-----------------------------------------------------------------------------
(***************************************************************************)
(* Rows of a queue, each of them once.                                     *)
(***************************************************************************)
DistinctRows(q) == \A i, j \in DOMAIN q : q[i].row = q[j].row => i = j

\* The rows of a queue by their places.
LEMMA RowsIs ==
    ASSUME NEW q \in Seq(Entries)
    PROVE /\ DOMAIN q = 1..Len(q) /\ Len(q) \in Nat
          /\ \A i \in 1..Len(q) : q[i].row \in QueuedRows(q)
          /\ \A r \in QueuedRows(q) : \E i \in 1..Len(q) : q[i].row = r
<1>1. DOMAIN q = 1..Len(q) /\ Len(q) \in Nat
  OBVIOUS
<1> QED BY <1>1, Zenon DEF QueuedRows

\* One queue behind another.
LEMMA ConcatRows ==
    ASSUME NEW p \in Seq(Entries), NEW q \in Seq(Entries)
    PROVE /\ p \o q \in Seq(Entries)
          /\ QueuedRows(p \o q) = QueuedRows(p) \cup QueuedRows(q)
          /\ DistinctRows(p \o q) <=>
               DistinctRows(p) /\ DistinctRows(q) /\ QueuedRows(p) \cap QueuedRows(q) = {}
<1> DEFINE c == p \o q
<1>1. /\ c \in Seq(Entries) /\ Len(c) = Len(p) + Len(q)
      /\ \A i \in 1..Len(p) : c[i] = p[i]
      /\ \A i \in 1..Len(q) : c[i + Len(p)] = q[i]
      /\ \A i \in 1..Len(c) : i \in 1..Len(p) \/ (i - Len(p) \in 1..Len(q) /\ i = (i - Len(p)) + Len(p))
  BY ConcatProperties
<1>2. /\ Len(p) \in Nat /\ Len(q) \in Nat
      /\ \A i \in 1..Len(p) : i \in 1..Len(c)
      /\ \A i \in 1..Len(q) : i + Len(p) \in 1..Len(c)
  BY <1>1
<1>3. /\ DOMAIN p = 1..Len(p) /\ DOMAIN q = 1..Len(q) /\ DOMAIN c = 1..Len(c)
  BY <1>1
<1> HIDE DEF c
<1>4. \A r : r \in QueuedRows(c) => r \in QueuedRows(p) \cup QueuedRows(q)
  <2> SUFFICES ASSUME NEW i \in 1..Len(c) PROVE c[i].row \in QueuedRows(p) \cup QueuedRows(q)
    BY <1>3 DEF QueuedRows
  <2>1. CASE i \in 1..Len(p)
    BY <1>1, <1>3, <2>1 DEF QueuedRows
  <2>2. CASE i - Len(p) \in 1..Len(q) /\ i = (i - Len(p)) + Len(p)
    <3>1. c[i] = q[i - Len(p)]
      BY <1>1, <2>2
    <3> QED BY <1>3, <2>2, <3>1 DEF QueuedRows
  <2> QED BY <1>1, <2>1, <2>2
<1>5. \A i \in 1..Len(p) : p[i].row \in QueuedRows(c)
  BY <1>1, <1>2, <1>3 DEF QueuedRows
<1>6. \A i \in 1..Len(q) : q[i].row \in QueuedRows(c)
  <2> SUFFICES ASSUME NEW i \in 1..Len(q) PROVE q[i].row \in QueuedRows(c)
    OBVIOUS
  <2>1. c[i + Len(p)] = q[i] /\ i + Len(p) \in 1..Len(c)
    BY <1>1, <1>2
  <2> QED BY <1>3, <2>1, Zenon DEF QueuedRows
<1>7. QueuedRows(c) = QueuedRows(p) \cup QueuedRows(q)
  BY <1>3, <1>4, <1>5, <1>6 DEF QueuedRows
<1>8. ASSUME DistinctRows(c)
      PROVE DistinctRows(p) /\ DistinctRows(q) /\ QueuedRows(p) \cap QueuedRows(q) = {}
  <2>1. DistinctRows(p)
    BY <1>1, <1>2, <1>3, <1>8 DEF DistinctRows
  <2>2. DistinctRows(q)
    <3> SUFFICES ASSUME NEW i \in 1..Len(q), NEW j \in 1..Len(q), q[i].row = q[j].row PROVE i = j
      BY <1>3 DEF DistinctRows
    <3>1. i + Len(p) = j + Len(p)
      BY <1>1, <1>2, <1>3, <1>8 DEF DistinctRows
    <3> QED BY <1>2, <3>1
  <2>3. \A i \in 1..Len(p), j \in 1..Len(q) : p[i].row # q[j].row
    <3> SUFFICES ASSUME NEW i \in 1..Len(p), NEW j \in 1..Len(q), p[i].row = q[j].row PROVE FALSE
      OBVIOUS
    <3>1. i = j + Len(p)
      BY <1>1, <1>2, <1>3, <1>8 DEF DistinctRows
    <3> QED BY <1>2, <3>1
  <2> QED BY <1>3, <2>1, <2>2, <2>3 DEF QueuedRows
<1>9. ASSUME DistinctRows(p), DistinctRows(q), QueuedRows(p) \cap QueuedRows(q) = {}
      PROVE DistinctRows(c)
  <2> SUFFICES ASSUME NEW i \in 1..Len(c), NEW j \in 1..Len(c), c[i].row = c[j].row PROVE i = j
    BY <1>3 DEF DistinctRows
  <2>1. \A a \in 1..Len(p), b \in 1..Len(q) : p[a].row # q[b].row
    BY <1>3, <1>9 DEF QueuedRows
  <2>2. CASE i \in 1..Len(p) /\ j \in 1..Len(p)
    BY <1>1, <1>3, <1>9, <2>2 DEF DistinctRows
  <2>3. CASE i \notin 1..Len(p) /\ j \notin 1..Len(p)
    <3>1. /\ i - Len(p) \in 1..Len(q) /\ j - Len(p) \in 1..Len(q)
          /\ i = (i - Len(p)) + Len(p) /\ j = (j - Len(p)) + Len(p)
      BY <1>1, <2>3
    <3>2. c[i] = q[i - Len(p)] /\ c[j] = q[j - Len(p)]
      BY <1>1, <3>1
    <3>3. i - Len(p) = j - Len(p)
      BY <1>3, <1>9, <3>1, <3>2 DEF DistinctRows
    <3> QED BY <3>1, <3>3
  <2>4. ASSUME NEW a \in 1..Len(c), NEW b \in 1..Len(c), a \in 1..Len(p), b \notin 1..Len(p) PROVE c[a].row # c[b].row
    <3>1. b - Len(p) \in 1..Len(q) /\ b = (b - Len(p)) + Len(p)
      BY <1>1, <2>4
    <3>2. c[b] = q[b - Len(p)] /\ c[a] = p[a]
      BY <1>1, <2>4, <3>1
    <3> QED BY <2>1, <2>4, <3>1, <3>2
  <2> QED BY <2>2, <2>3, <2>4
<1> QED BY <1>1, <1>7, <1>8, <1>9 DEF c

\* Two queues without a common row.
LEMMA JoinRows ==
    ASSUME NEW p \in Seq(Entries), NEW q \in Seq(Entries), DistinctRows(p), DistinctRows(q),
           QueuedRows(p) \cap QueuedRows(q) = {}
    PROVE DistinctRows(p \o q)
  BY ConcatRows, Zenon

\* And the other way round.
LEMMA PartRows ==
    ASSUME NEW p \in Seq(Entries), NEW q \in Seq(Entries), DistinctRows(p \o q)
    PROVE DistinctRows(p) /\ DistinctRows(q) /\ QueuedRows(p) \cap QueuedRows(q) = {}
  BY ConcatRows, Zenon

\* A queue of one row.
LEMMA OneRow ==
    ASSUME NEW r \in Rows, NEW now \in BOOLEAN
    PROVE /\ <<Entry(r, now)>> \in Seq(Entries) /\ Entry(r, now) \in Entries
          /\ QueuedRows(<<Entry(r, now)>>) = {r}
          /\ DistinctRows(<<Entry(r, now)>>)
<1>1. Entry(r, now) \in Entries /\ Entry(r, now).row = r
  BY DEF Entry, Entries
<1> HIDE DEF Entry
<1> QED BY <1>1 DEF QueuedRows, DistinctRows

\* No row.
LEMMA NoRows == <<>> \in Seq(Entries) /\ QueuedRows(<<>>) = {} /\ DistinctRows(<<>>)
  BY DEF QueuedRows, DistinctRows

\* A row at the end.
LEMMA AppendRows ==
    ASSUME NEW q \in Seq(Entries), NEW r \in Rows, NEW now \in BOOLEAN
    PROVE /\ Append(q, Entry(r, now)) \in Seq(Entries)
          /\ QueuedRows(Append(q, Entry(r, now))) = QueuedRows(q) \cup {r}
          /\ DistinctRows(q) /\ r \notin QueuedRows(q) => DistinctRows(Append(q, Entry(r, now)))
<1> DEFINE e == Entry(r, now)
<1>1. e \in Entries /\ <<e>> \in Seq(Entries) /\ QueuedRows(<<e>>) = {r} /\ DistinctRows(<<e>>)
  BY OneRow
<1> HIDE DEF e
<1>2. Append(q, e) = q \o <<e>>
  BY <1>1, AppendIsConcat
<1>3. q \o <<e>> \in Seq(Entries) /\ QueuedRows(q \o <<e>>) = QueuedRows(q) \cup QueuedRows(<<e>>)
  BY <1>1, ConcatRows, Zenon
<1>4. DistinctRows(q) /\ r \notin QueuedRows(q) => DistinctRows(q \o <<e>>)
  BY <1>1, JoinRows
<1> QED BY <1>1, <1>2, <1>3, <1>4 DEF e

\* A queue cut in two.
LEMMA CutRows ==
    ASSUME NEW q \in Seq(Entries), NEW k \in 0..Len(q)
    PROVE /\ SubSeq(q, 1, k) \in Seq(Entries) /\ SubSeq(q, k + 1, Len(q)) \in Seq(Entries)
          /\ q = SubSeq(q, 1, k) \o SubSeq(q, k + 1, Len(q))
          /\ QueuedRows(q) = QueuedRows(SubSeq(q, 1, k)) \cup QueuedRows(SubSeq(q, k + 1, Len(q)))
          /\ DistinctRows(q) =>
               /\ DistinctRows(SubSeq(q, 1, k)) /\ DistinctRows(SubSeq(q, k + 1, Len(q)))
               /\ QueuedRows(SubSeq(q, 1, k)) \cap QueuedRows(SubSeq(q, k + 1, Len(q))) = {}
<1> DEFINE a == SubSeq(q, 1, k)
           b == SubSeq(q, k + 1, Len(q))
<1>1. a \in Seq(Entries) /\ b \in Seq(Entries)
  OBVIOUS
<1>2. a \o b = SubSeq(q, 1, Len(q))
  <2>1. 1 \in 1..(Len(q) + 1) /\ k \in (1 - 1)..Len(q) /\ Len(q) \in k..Len(q)
    OBVIOUS
  <2> QED BY <2>1, ConcatAdjacentSubSeq
<1>3. SubSeq(q, 1, Len(q)) = q
  BY SubSeqFull
<1> HIDE DEF a, b
<1>4. q = a \o b
  BY <1>2, <1>3
<1>5. QueuedRows(a \o b) = QueuedRows(a) \cup QueuedRows(b)
  BY <1>1, ConcatRows, Zenon
<1>6. DistinctRows(q) => DistinctRows(a) /\ DistinctRows(b) /\ QueuedRows(a) \cap QueuedRows(b) = {}
  BY <1>1, <1>4, PartRows
<1>7. /\ a \in Seq(Entries) /\ b \in Seq(Entries) /\ q = a \o b
      /\ QueuedRows(q) = QueuedRows(a) \cup QueuedRows(b)
  BY <1>1, <1>4, <1>5
<1> QED BY <1>6, <1>7, Zenon DEF a, b

\* A row in the middle.
LEMMA InsertRows ==
    ASSUME NEW q \in Seq(Entries), NEW r \in Rows, NEW now \in BOOLEAN, NEW i \in 1..(Len(q) + 1)
    PROVE /\ InsertAt(q, i, Entry(r, now)) \in Seq(Entries)
          /\ QueuedRows(InsertAt(q, i, Entry(r, now))) = QueuedRows(q) \cup {r}
          /\ DistinctRows(q) /\ r \notin QueuedRows(q) => DistinctRows(InsertAt(q, i, Entry(r, now)))
<1> DEFINE e == Entry(r, now)
           k == i - 1
           a == SubSeq(q, 1, k)
           b == SubSeq(q, k + 1, Len(q))
<1>1. e \in Entries /\ <<e>> \in Seq(Entries) /\ QueuedRows(<<e>>) = {r} /\ DistinctRows(<<e>>)
  BY OneRow
<1>2. k \in 0..Len(q) /\ k + 1 = i
  OBVIOUS
<1>3. InsertAt(q, i, e) = (a \o <<e>>) \o b
  BY <1>2 DEF InsertAt
<1> HIDE DEF e, k
<1>4. /\ a \in Seq(Entries) /\ b \in Seq(Entries)
      /\ QueuedRows(q) = QueuedRows(a) \cup QueuedRows(b)
      /\ DistinctRows(q) => DistinctRows(a) /\ DistinctRows(b) /\ QueuedRows(a) \cap QueuedRows(b) = {}
  BY <1>2, CutRows
<1> HIDE DEF a, b
<1>5. /\ a \o <<e>> \in Seq(Entries) /\ QueuedRows(a \o <<e>>) = QueuedRows(a) \cup {r}
      /\ DistinctRows(a) /\ r \notin QueuedRows(a) => DistinctRows(a \o <<e>>)
  <2>1. a \o <<e>> \in Seq(Entries) /\ QueuedRows(a \o <<e>>) = QueuedRows(a) \cup QueuedRows(<<e>>)
    BY <1>1, <1>4, ConcatRows, Zenon
  <2>2. DistinctRows(a) /\ r \notin QueuedRows(a) => DistinctRows(a \o <<e>>)
    BY <1>1, <1>4, JoinRows
  <2> QED BY <1>1, <2>1, <2>2
<1> DEFINE c == a \o <<e>>
<1>7. /\ c \o b \in Seq(Entries) /\ QueuedRows(c \o b) = QueuedRows(c) \cup QueuedRows(b)
      /\ DistinctRows(c) /\ DistinctRows(b) /\ QueuedRows(c) \cap QueuedRows(b) = {} => DistinctRows(c \o b)
  <2>1. c \o b \in Seq(Entries) /\ QueuedRows(c \o b) = QueuedRows(c) \cup QueuedRows(b)
    BY <1>4, <1>5, ConcatRows, Zenon
  <2>2. DistinctRows(c) /\ DistinctRows(b) /\ QueuedRows(c) \cap QueuedRows(b) = {} => DistinctRows(c \o b)
    BY <1>4, <1>5, JoinRows, Zenon
  <2> QED BY <2>1, <2>2
<1> HIDE DEF c
<1>6. /\ InsertAt(q, i, e) \in Seq(Entries) /\ QueuedRows(InsertAt(q, i, e)) = QueuedRows(q) \cup {r}
      /\ DistinctRows(q) /\ r \notin QueuedRows(q) => DistinctRows(InsertAt(q, i, e))
  BY <1>3, <1>4, <1>5, <1>7 DEF c
<1> QED BY <1>6 DEF e

\* Without some rows, the others stay.
LEMMA WithoutRowsIs ==
    ASSUME NEW q \in Seq(Entries), NEW rows
    PROVE /\ Without(q, rows) \in Seq(Entries)
          /\ QueuedRows(Without(q, rows)) = QueuedRows(q) \ rows
          /\ DistinctRows(q) => DistinctRows(Without(q, rows))
<1> DEFINE P == {i \in DOMAIN q : q[i].row \notin rows}
           w == Without(q, rows)
<1>1. DOMAIN q = 1..Len(q) /\ Len(q) \in Nat
  OBVIOUS
<1>2. P \in SUBSET (1..Len(q)) /\ \A i \in 1..Len(q) : i \in P <=> q[i].row \notin rows
  BY <1>1
<1>3. w = Kept(q, P)
  BY Zenon DEF Without
<1> HIDE DEF P, w
<1>4. /\ w \in Seq(Entries) /\ Len(w) = Cardinality(P)
      /\ \A n \in 1..Cardinality(P) : w[n] = q[Nth(P, n)]
  BY <1>2, <1>3, KeptIs
<1>5. /\ \A n \in 1..Cardinality(P) : Nth(P, n) \in P
      /\ \A n, m \in 1..Cardinality(P) : Nth(P, n) = Nth(P, m) => n = m
      /\ \A i \in P : \E n \in 1..Cardinality(P) : Nth(P, n) = i
  BY <1>1, <1>2, NthPlace
<1>6. DOMAIN w = 1..Cardinality(P)
  BY <1>4
<1>7. ASSUME NEW i \in P PROVE q[i].row \in QueuedRows(w)
  <2>1. PICK n \in 1..Cardinality(P) : Nth(P, n) = i
    BY <1>5, <1>7
  <2> QED BY <1>4, <1>6, <2>1, Zenon DEF QueuedRows
<1>8. \A n \in 1..Cardinality(P) : w[n].row \in QueuedRows(q) /\ w[n].row \notin rows
  BY <1>1, <1>2, <1>4, <1>5, Zenon DEF QueuedRows
<1>9. QueuedRows(w) = QueuedRows(q) \ rows
  BY <1>1, <1>2, <1>6, <1>7, <1>8 DEF QueuedRows
<1>10. ASSUME DistinctRows(q) PROVE DistinctRows(w)
  <2> SUFFICES ASSUME NEW n \in 1..Cardinality(P), NEW m \in 1..Cardinality(P), w[n].row = w[m].row PROVE n = m
    BY <1>6 DEF DistinctRows
  <2>1. Nth(P, n) \in DOMAIN q /\ Nth(P, m) \in DOMAIN q
    BY <1>1, <1>2, <1>5
  <2>2. Nth(P, n) = Nth(P, m)
    BY <1>4, <1>10, <2>1 DEF DistinctRows
  <2> QED BY <1>5, <2>2
<1> QED BY <1>4, <1>9, <1>10 DEF w

-----------------------------------------------------------------------------
(***************************************************************************)
(* Sequences without repetition: appended, filtered, put in order.         *)
(***************************************************************************)
\* The elements of one sequence behind another, each of them once.
LEMMA JoinRange ==
    ASSUME NEW T, NEW p \in Seq(T), NEW q \in Seq(T)
    PROVE /\ p \o q \in Seq(T)
          /\ Range(p \o q) = Range(p) \cup Range(q)
          /\ IsInjective(p) /\ IsInjective(q) /\ Range(p) \cap Range(q) = {} => IsInjective(p \o q)
<1> DEFINE c == p \o q
<1>1. /\ c \in Seq(T) /\ Len(c) = Len(p) + Len(q)
      /\ \A i \in 1..Len(p) : c[i] = p[i]
      /\ \A i \in 1..Len(q) : c[i + Len(p)] = q[i]
      /\ \A i \in 1..Len(c) : i \in 1..Len(p) \/ (i - Len(p) \in 1..Len(q) /\ i = (i - Len(p)) + Len(p))
  BY ConcatProperties
<1>2. DOMAIN p = 1..Len(p) /\ DOMAIN q = 1..Len(q) /\ DOMAIN c = 1..Len(c) /\ Len(p) \in Nat /\ Len(q) \in Nat
  BY <1>1
<1>3. Range(c) = Range(p) \cup Range(q)
  BY RangeConcatenation
<1> HIDE DEF c
<1>4. ASSUME IsInjective(p), IsInjective(q), Range(p) \cap Range(q) = {}
      PROVE IsInjective(c)
  <2> SUFFICES ASSUME NEW i \in 1..Len(c), NEW j \in 1..Len(c), c[i] = c[j] PROVE i = j
    BY <1>2 DEF IsInjective
  <2>1. \A a \in 1..Len(p), b \in 1..Len(q) : p[a] # q[b]
    BY <1>2, <1>4 DEF Range
  <2>2. CASE i \in 1..Len(p) /\ j \in 1..Len(p)
    BY <1>1, <1>2, <1>4, <2>2 DEF IsInjective
  <2>3. CASE i \notin 1..Len(p) /\ j \notin 1..Len(p)
    <3>1. /\ i - Len(p) \in 1..Len(q) /\ j - Len(p) \in 1..Len(q)
          /\ i = (i - Len(p)) + Len(p) /\ j = (j - Len(p)) + Len(p)
      BY <1>1, <2>3
    <3>2. c[i] = q[i - Len(p)] /\ c[j] = q[j - Len(p)]
      BY <1>1, <3>1
    <3>3. i - Len(p) = j - Len(p)
      BY <1>2, <1>4, <3>1, <3>2 DEF IsInjective
    <3> QED BY <3>1, <3>3
  <2>4. ASSUME NEW a \in 1..Len(c), NEW b \in 1..Len(c), a \in 1..Len(p), b \notin 1..Len(p) PROVE c[a] # c[b]
    <3>1. b - Len(p) \in 1..Len(q) /\ b = (b - Len(p)) + Len(p)
      BY <1>1, <2>4
    <3>2. c[b] = q[b - Len(p)] /\ c[a] = p[a]
      BY <1>1, <2>4, <3>1
    <3> QED BY <2>1, <2>4, <3>1, <3>2
  <2> QED BY <2>2, <2>3, <2>4
<1> QED BY <1>1, <1>3, <1>4 DEF c

\* One more element.
LEMMA AppendRange ==
    ASSUME NEW T, NEW p \in Seq(T), NEW x \in T
    PROVE /\ Append(p, x) \in Seq(T)
          /\ Range(Append(p, x)) = Range(p) \cup {x}
          /\ IsInjective(p) /\ x \notin Range(p) => IsInjective(Append(p, x))
<1>1. <<x>> \in Seq(T) /\ Append(p, x) = p \o <<x>>
  BY AppendIsConcat
<1>2. Range(<<x>>) = {x} /\ IsInjective(<<x>>)
  BY DEF Range, IsInjective
<1>3. /\ p \o <<x>> \in Seq(T)
      /\ Range(p \o <<x>>) = Range(p) \cup Range(<<x>>)
      /\ IsInjective(p) /\ IsInjective(<<x>>) /\ Range(p) \cap Range(<<x>>) = {} => IsInjective(p \o <<x>>)
  BY <1>1, JoinRange, Zenon
<1> QED BY <1>1, <1>2, <1>3

\* No element.
LEMMA NoRange == Range(<<>>) = {} /\ IsInjective(<<>>)
  BY DEF Range, IsInjective

\* The first element of a queue and the rest.
LEMMA TailRows ==
    ASSUME NEW q \in Seq(Entries), q # <<>>
    PROVE /\ Tail(q) \in Seq(Entries) /\ q[1].row \in QueuedRows(q)
          /\ QueuedRows(q) = {q[1].row} \cup QueuedRows(Tail(q))
          /\ DistinctRows(q) => DistinctRows(Tail(q)) /\ q[1].row \notin QueuedRows(Tail(q))
<1>1. 1 \in 0..Len(q) /\ Tail(q) = SubSeq(q, 1 + 1, Len(q))
  BY TailIsSubSeq
<1> DEFINE a == SubSeq(q, 1, 1)
           b == SubSeq(q, 1 + 1, Len(q))
<1>2. QueuedRows(a) = {q[1].row}
  <2>1. Len(a) = 1 /\ a[1] = q[1] /\ DOMAIN a = {1}
    BY <1>1
  <2> HIDE DEF a
  <2> QED BY <2>1 DEF QueuedRows
<1>3. /\ b \in Seq(Entries)
      /\ QueuedRows(q) = QueuedRows(a) \cup QueuedRows(b)
      /\ DistinctRows(q) => DistinctRows(b) /\ QueuedRows(a) \cap QueuedRows(b) = {}
  BY <1>1, CutRows, Zenon
<1> HIDE DEF a, b
<1> QED BY <1>1, <1>2, <1>3 DEF b

\* A sequence of rows as entries of the queue.
LEMMA EntriesRows ==
    ASSUME NEW s \in Seq(Rows), NEW now \in BOOLEAN
    PROVE /\ [i \in DOMAIN s |-> Entry(s[i], now)] \in Seq(Entries)
          /\ QueuedRows([i \in DOMAIN s |-> Entry(s[i], now)]) = Range(s)
          /\ IsInjective(s) => DistinctRows([i \in DOMAIN s |-> Entry(s[i], now)])
<1> DEFINE n == [i \in DOMAIN s |-> Entry(s[i], now)]
<1>1. n \in Seq(Entries)
  BY EntriesOf, Zenon
<1>2. DOMAIN n = DOMAIN s /\ \A i \in DOMAIN s : n[i].row = s[i]
  BY DEF Entry
<1> HIDE DEF n
<1>3. QueuedRows(n) = Range(s) /\ (IsInjective(s) => DistinctRows(n))
  BY <1>2 DEF QueuedRows, Range, IsInjective, DistinctRows
<1> QED BY <1>1, <1>3 DEF n

\* Interjections that were not drained join the queue.
LEMMA FlushedRows ==
    ASSUME pending \in Seq(Entries), buffer \in Seq(Rows), RunningRow
    PROVE /\ Flushed \in Seq(Entries)
          /\ QueuedRows(Flushed) = QueuedRows(pending) \cup Range(buffer)
          /\ DistinctRows(pending) /\ IsInjective(buffer) /\ QueuedRows(pending) \cap Range(buffer) = {}
               => DistinctRows(Flushed)
<1> DEFINE at == IF AtFront THEN 1 ELSE 0
           n == [i \in DOMAIN buffer |-> Entry(buffer[i], TRUE)]
           a == SubSeq(pending, 1, at)
           b == SubSeq(pending, at + 1, Len(pending))
<1>1. /\ n \in Seq(Entries) /\ QueuedRows(n) = Range(buffer)
      /\ IsInjective(buffer) => DistinctRows(n)
  BY EntriesRows, Zenon
<1>2. at \in 0..Len(pending)
  <2>1. AtFront => pending # <<>>
    BY AtFrontLeads DEF Leads
  <2> QED BY <2>1
<1>3. Flushed = (a \o n) \o b
  BY Zenon DEF Flushed
<1> HIDE DEF at
<1>4. /\ a \in Seq(Entries) /\ b \in Seq(Entries)
      /\ QueuedRows(pending) = QueuedRows(a) \cup QueuedRows(b)
      /\ DistinctRows(pending) => DistinctRows(a) /\ DistinctRows(b) /\ QueuedRows(a) \cap QueuedRows(b) = {}
  BY <1>2, CutRows, Zenon
<1> HIDE DEF a, b, n
<1> DEFINE c == a \o n
<1>5. c \in Seq(Entries) /\ QueuedRows(c) = QueuedRows(a) \cup QueuedRows(n)
  BY <1>1, <1>4, ConcatRows, Zenon
<1>6. DistinctRows(a) /\ DistinctRows(n) /\ QueuedRows(a) \cap QueuedRows(n) = {} => DistinctRows(c)
  BY <1>1, <1>4, JoinRows, Zenon
<1> HIDE DEF c
<1>7. c \o b \in Seq(Entries) /\ QueuedRows(c \o b) = QueuedRows(c) \cup QueuedRows(b)
  BY <1>4, <1>5, ConcatRows, Zenon
<1>8. DistinctRows(c) /\ DistinctRows(b) /\ QueuedRows(c) \cap QueuedRows(b) = {} => DistinctRows(c \o b)
  BY <1>4, <1>5, JoinRows, Zenon
<1>9. Flushed = c \o b
  BY <1>3, Zenon DEF c
<1> QED BY <1>1, <1>4, <1>5, <1>6, <1>7, <1>8, <1>9

\* The ids of slots in their order, each of them once.
LEMMA InOrderRows ==
    ASSUME NEW S, Ordered(S)
    PROVE /\ InOrder(S) \in Seq(Rows)
          /\ Range(InOrder(S)) = IdsOf(S)
          /\ (\A s, t \in S : s.id = t.id => s = t) => IsInjective(InOrder(S))
<1> DEFINE k == [s \in S |-> s.at]
           N == Cardinality(S)
           NthSlot(n) == CHOOSE s \in S : Cardinality(Admitted(S, s)) = n
<1>1. IsFiniteSet(S) /\ N \in Nat
  BY FS_CardinalityType DEF Ordered
<1>2. \A s \in S : s.at \in Int
  BY DEF Ordered, Slots
<1>3. k \in [S -> Int] /\ \A s, t \in S : k[s] = k[t] => s = t
  BY <1>2 DEF Ordered
<1>4. \A s \in S : Upto(S, k, s) = Admitted(S, s)
  BY DEF Upto, Admitted
<1> HIDE DEF k, N
<1>5. \A n \in 1..N : \E s \in S : Cardinality(Upto(S, k, s)) = n
  BY <1>1, <1>3, RankExists, Zenon DEF N
<1>6. \A n \in 1..N : \E s \in S : Cardinality(Admitted(S, s)) = n
  BY <1>4, <1>5, Zenon
<1>7. \A n \in 1..N : NthSlot(n) \in S /\ Cardinality(Admitted(S, NthSlot(n))) = n
  BY <1>6, Zenon
<1>8. InOrder(S) = [n \in 1..N |-> NthSlot(n).id]
  BY Zenon DEF InOrder, N
<1>9. ASSUME NEW s \in S PROVE \E n \in 1..N : NthSlot(n) = s
  <2>1. Cardinality(Admitted(S, s)) \in 1..N
    BY <1>1, <1>3, <1>4, RankRange DEF N
  <2> DEFINE m == Cardinality(Admitted(S, s))
  <2>2. NthSlot(m) \in S /\ Cardinality(Admitted(S, NthSlot(m))) = m
    BY <1>7, <2>1, Zenon
  <2>3. Cardinality(Upto(S, k, NthSlot(m))) = Cardinality(Upto(S, k, s))
    BY <1>4, <2>2
  <2>4. NthSlot(m) = s
    <3> HIDE DEF NthSlot, m
    <3> QED BY <1>1, <1>3, <2>2, <2>3, RankInjective
  <2> QED BY <2>1, <2>4, Zenon
<1> HIDE DEF NthSlot
<1>10. InOrder(S) \in Seq(Messages)
  BY InOrderIs
<1>11. InOrder(S) \in Seq(Rows)
  BY <1>10 DEF Rows
<1>12. Range(InOrder(S)) = IdsOf(S)
  BY <1>7, <1>8, <1>9 DEF Range, IdsOf
<1>13. ASSUME \A s, t \in S : s.id = t.id => s = t PROVE IsInjective(InOrder(S))
  <2> SUFFICES ASSUME NEW n \in 1..N, NEW m \in 1..N, NthSlot(n).id = NthSlot(m).id PROVE n = m
    BY <1>8 DEF IsInjective
  <2>1. NthSlot(n) = NthSlot(m)
    BY <1>7, <1>13
  <2> QED BY <1>7, <2>1
<1> QED BY <1>11, <1>12, <1>13

\* Messages that fall back join the queue.
LEMMA FallbackRows ==
    ASSUME NEW q \in Seq(Entries), Ordered(slots), NEW target, NEW cause,
           \A s, t \in slots : s.id = t.id => s = t
    PROVE /\ WithFallbacks(q, target, cause) \in Seq(Entries)
          /\ QueuedRows(WithFallbacks(q, target, cause)) = QueuedRows(q) \cup IdsOf(Fallbacks(slots, target, cause))
          /\ DistinctRows(q) /\ QueuedRows(q) \cap IdsOf(slots) = {} => DistinctRows(WithFallbacks(q, target, cause))
<1> DEFINE F == Fallbacks(slots, target, cause)
           ids == InOrder(F)
           n == [i \in DOMAIN ids |-> Entry(ids[i], FALSE)]
<1>1. F \in SUBSET slots
  BY DEF Fallbacks, Ended
<1>2. Ordered(F)
  BY <1>1, SomeOrdered
<1>3. WithFallbacks(q, target, cause) = q \o n
  BY Zenon DEF WithFallbacks
<1>4. (\A s, t \in F : s.id = t.id => s = t) /\ IdsOf(F) \subseteq IdsOf(slots)
  BY <1>1 DEF IdsOf
<1> HIDE DEF F
<1>5. ids \in Seq(Rows) /\ Range(ids) = IdsOf(F) /\ IsInjective(ids)
  BY <1>2, <1>4, InOrderRows
<1> HIDE DEF ids
<1>6. n \in Seq(Entries) /\ QueuedRows(n) = IdsOf(F) /\ DistinctRows(n)
  <2>1. FALSE \in BOOLEAN
    OBVIOUS
  <2> QED BY <1>5, <2>1, EntriesRows
<1> HIDE DEF n
<1>7. q \o n \in Seq(Entries) /\ QueuedRows(q \o n) = QueuedRows(q) \cup QueuedRows(n)
  BY <1>6, ConcatRows, Zenon
<1>8. DistinctRows(q) /\ QueuedRows(q) \cap QueuedRows(n) = {} => DistinctRows(q \o n)
  BY <1>6, JoinRows, Zenon
<1> QED BY <1>3, <1>4, <1>6, <1>7, <1>8 DEF F

-----------------------------------------------------------------------------
(***************************************************************************)
(* The operations on the queue keep its rows apart.                        *)
(***************************************************************************)
\* A client's order keeps the rows, each in one place.
LEMMA ReorderRows ==
    ASSUME pending \in Seq(Entries), Reorder
    PROVE /\ QueuedRows(pending') = QueuedRows(pending)
          /\ DistinctRows(pending) => DistinctRows(pending')
<1> DEFINE movable == {i \in DOMAIN pending : Loose(pending[i].row)}
<1>1. PICK f \in [movable -> movable] :
        /\ \A i, j \in movable : f[i] = f[j] => i = j
        /\ pending' = [i \in DOMAIN pending |-> IF i \in movable THEN pending[f[i]] ELSE pending[i]]
  BY Zenon DEF Reorder
<1>2. DOMAIN pending = 1..Len(pending) /\ Len(pending) \in Nat
  OBVIOUS
<1>3. movable \in SUBSET (1..Len(pending))
  BY <1>2
<1> HIDE DEF movable
<1>4. IsFiniteSet(movable)
  <2>1. IsFiniteSet(1..Len(pending))
    BY <1>2, FS_Interval
  <2> QED BY <1>3, <2>1, FS_Subset
<1>5. f \in Injection(movable, movable)
  BY <1>1 DEF Injection, IsInjective
<1>6. f \in Surjection(movable, movable)
  BY <1>4, <1>5, FS_Injection
<1>7. \A j \in movable : \E i \in movable : f[i] = j
  BY <1>6 DEF Surjection
<1> DEFINE g == [i \in DOMAIN pending |-> IF i \in movable THEN f[i] ELSE i]
<1>8. /\ \A i \in DOMAIN pending : g[i] \in DOMAIN pending
      /\ \A i, j \in DOMAIN pending : g[i] = g[j] => i = j
      /\ \A j \in DOMAIN pending : \E i \in DOMAIN pending : g[i] = j
  <2>1. /\ \A i \in movable : i \in DOMAIN pending /\ f[i] \in movable
        /\ \A i \in movable : g[i] = f[i]
        /\ \A i \in DOMAIN pending : i \notin movable => g[i] = i
    BY <1>1, <1>2, <1>3
  <2> HIDE DEF g
  <2>2. \A i \in DOMAIN pending : g[i] \in DOMAIN pending
    BY <2>1
  <2>3. \A i, j \in DOMAIN pending : g[i] = g[j] => i = j
    BY <1>1, <2>1
  <2>4. \A j \in DOMAIN pending : \E i \in DOMAIN pending : g[i] = j
    BY <1>7, <2>1
  <2> QED BY <2>2, <2>3, <2>4
<1>9. DOMAIN pending' = DOMAIN pending /\ \A i \in DOMAIN pending : pending'[i] = pending[g[i]]
  BY <1>1
<1> HIDE DEF g
<1>10. ASSUME NEW j \in DOMAIN pending PROVE pending[j].row \in QueuedRows(pending')
  <2>1. PICK i \in DOMAIN pending : g[i] = j
    BY <1>8, <1>10
  <2> QED BY <1>9, <2>1 DEF QueuedRows
<1>11. \A i \in DOMAIN pending : pending'[i].row \in QueuedRows(pending)
  BY <1>8, <1>9 DEF QueuedRows
<1>12. QueuedRows(pending') = QueuedRows(pending)
  BY <1>9, <1>10, <1>11 DEF QueuedRows
<1>13. ASSUME DistinctRows(pending) PROVE DistinctRows(pending')
  <2> SUFFICES ASSUME NEW i \in DOMAIN pending, NEW j \in DOMAIN pending, pending'[i].row = pending'[j].row
               PROVE i = j
    BY <1>9 DEF DistinctRows
  <2>1. pending[g[i]].row = pending[g[j]].row /\ g[i] \in DOMAIN pending /\ g[j] \in DOMAIN pending
    BY <1>8, <1>9
  <2> QED BY <1>8, <1>13, <2>1 DEF DistinctRows
<1> QED BY <1>12, <1>13

\* Some first elements of a sequence.
LEMMA PrefixRange ==
    ASSUME NEW T, NEW s \in Seq(T), NEW k \in 0..Len(s)
    PROVE /\ SubSeq(s, 1, k) \in Seq(T)
          /\ Range(SubSeq(s, 1, k)) \subseteq Range(s)
          /\ IsInjective(s) => IsInjective(SubSeq(s, 1, k))
<1> DEFINE p == SubSeq(s, 1, k)
<1>1. p \in Seq(T) /\ Len(p) = k /\ \A i \in 1..k : p[i] = s[i]
  OBVIOUS
<1>2. DOMAIN p = 1..k /\ DOMAIN s = 1..Len(s) /\ \A i \in 1..k : i \in 1..Len(s)
  BY <1>1
<1> HIDE DEF p
<1>3. Range(p) \subseteq Range(s) /\ (IsInjective(s) => IsInjective(p))
  BY <1>1, <1>2 DEF Range, IsInjective
<1> QED BY <1>1, <1>3 DEF p

\* Prompts promoted into the running turn are queued, and are not its own.
LEMMA PromotedRows ==
    ASSUME pending \in Seq(Entries), DistinctRows(pending)
    PROVE /\ Promoted \in Seq(Rows) /\ IsInjective(Promoted)
          /\ Range(Promoted) \subseteq QueuedRows(pending) \ {running.prompt}
<1> DEFINE P == {i \in DOMAIN pending : /\ pending[i].row # running.prompt
                                        /\ ~RuntimeWake(pending[i].row)}
           others == Kept(pending, P)
           plain(e) == Editable(e.row) /\ ~e.now /\ e.row \notin holds
           stops == {i \in DOMAIN others : ~plain(others[i])}
           m == IF stops = {} THEN Len(others) ELSE Min(stops) - 1
           prefix == SubSeq(others, 1, m)
<1>0. Promoted \in Seq(Rows) /\ running.prompt \notin Range(Promoted)
  BY PromotedIs
<1>1. Promoted = IF running.prompt \in Wakes \cup Messages THEN <<>> ELSE [i \in DOMAIN prefix |-> prefix[i].row]
  BY Zenon DEF Promoted
<1>2. P \in SUBSET (1..Len(pending)) /\ Len(pending) \in Nat /\ DOMAIN pending = 1..Len(pending)
  OBVIOUS
<1> HIDE DEF P
<1>3. /\ others \in Seq(Entries) /\ Len(others) = Cardinality(P)
      /\ \A n \in 1..Cardinality(P) : others[n] = pending[Nth(P, n)] /\ Nth(P, n) \in P
      /\ \A a, b \in 1..Cardinality(P) : Nth(P, a) = Nth(P, b) => a = b
  BY <1>2, KeptIs, NthPlace
<1> HIDE DEF others
<1>4. Len(others) \in Nat /\ DOMAIN others = 1..Len(others)
  BY <1>3
<1>5. m \in 0..Len(others)
  <2>1. stops \in SUBSET (1..Len(others)) /\ stops \in SUBSET Nat
    BY <1>4
  <2> HIDE DEF stops
  <2>2. stops # {} => Min(stops) \in stops
    BY <2>1, MinIs
  <2>3. CASE stops = {}
    BY <1>4, <2>3
  <2>4. CASE stops # {}
    <3>1. Min(stops) \in 1..Len(others) /\ m = Min(stops) - 1
      BY <2>1, <2>2, <2>4
    <3> HIDE DEF m
    <3> QED BY <1>4, <3>1
  <2> QED BY <2>3, <2>4
<1> HIDE DEF m
<1>6. DOMAIN prefix = 1..m /\ \A i \in 1..m : prefix[i] = others[i]
  BY <1>3, <1>5
<1> HIDE DEF prefix
<1>7. CASE running.prompt \in Wakes \cup Messages
  <2>1. Promoted = <<>>
    BY <1>1, <1>7
  <2> QED BY <1>0, <2>1, NoRange
<1>8. CASE running.prompt \notin Wakes \cup Messages
  <2>1. Promoted = [i \in 1..m |-> prefix[i].row]
    BY <1>1, <1>6, <1>8
  <2>2. \A i \in 1..m : i \in 1..Cardinality(P)
    BY <1>3, <1>4, <1>5
  <2>3. \A i \in 1..m : Promoted[i] = pending[Nth(P, i)].row /\ Nth(P, i) \in DOMAIN pending
    BY <1>2, <1>3, <1>6, <2>1, <2>2
  <2>4. DOMAIN Promoted = 1..m
    BY <2>1
  <2>5. IsInjective(Promoted)
    BY <1>3, <2>2, <2>3, <2>4 DEF IsInjective, DistinctRows
  <2>6. Range(Promoted) \subseteq QueuedRows(pending)
    BY <2>3, <2>4 DEF Range, QueuedRows
  <2> QED BY <1>0, <2>5, <2>6
<1> QED BY <1>7, <1>8

-----------------------------------------------------------------------------
(***************************************************************************)
(* The places of a row.  The rows of a handler are its own once it has     *)
(* decided what to do with them.                                           *)
(***************************************************************************)
\* In pending_inputs, pending_interjections, the batch the running task drained,
\* the slots of message_delivery, the cancel under way, the aborted futures.
InQueue == QueuedRows(pending)
InBuffer == Range(buffer)
InBatch == Range(task.batch)
InSlots == IdsOf(slots)
InHandler == IF op.result = "none" THEN {} ELSE op.rows \cup op.msgs
InDying == UNION {Range(d.batch) : d \in dying}

\* The rows the session took in, and those whose sender has heard of them.
Accepted == {r \in Rows : answer[r] \in {"owed", "merged", "answered"}}
Answered == {r \in Rows : answer[r] \in {"merged", "answered"}}

\* No place holds a row twice.
Distinct ==
    /\ DistinctRows(pending)
    /\ IsInjective(buffer) /\ IsInjective(task.batch)
    /\ \A d \in dying : IsInjective(d.batch)
    /\ \A s, t \in slots : s.id = t.id => s = t

\* No row is in two places.
Parted(Q, B, T, S, H, D) ==
    /\ Q \cap (B \cup T \cup S \cup H \cup D) = {}
    /\ B \cap (T \cup S \cup H \cup D) = {}
    /\ T \cap (S \cup H \cup D) = {}
    /\ S \cap (H \cup D) = {}
    /\ H \cap D = {}

\* Two aborted futures hold different rows.
DyingParted == \A d, e \in dying : d # e => Range(d.batch) \cap Range(e.batch) = {}

\* Every row has one place.
Separate == Parted(InQueue, InBuffer, InBatch, InSlots, InHandler, InDying) /\ DyingParted

\* What is somewhere has been accepted.
PlacedAccepted ==
    /\ InQueue \cup InBuffer \cup InBatch \cup InSlots \cup InDying \cup op.rows \cup op.msgs \subseteq Accepted
    /\ running # NoTurn => running.prompt \in Accepted

\* The row of the running turn is nowhere but in the queue, and no longer there
\* when only the lease is left to finish.  As long as the turn has its task the
\* row is queued or answered.
Ending == (pc = "settle" /\ Leased) \/ pc = "complete"
TurnRow ==
    /\ running # NoTurn => running.prompt \notin InBuffer \cup InBatch \cup InSlots \cup InDying
    /\ running # NoTurn /\ Ending => running.prompt \notin InQueue
    /\ task.pc # "none" => running.prompt \in InQueue \cup Answered

\* Whoever wrote a note knows that it has been taken in.
Spoken == InBuffer \cup InBatch \cup InDying \subseteq Answered

\* A handler has rows only during a cancel, and before the teardown they are
\* where they were.
HandlerRows ==
    /\ pc \notin {"teardown", "settle"} => op.rows = {} /\ op.msgs = {}
    /\ pc = "teardown" => op.result = "none"
    /\ op.result = "none" => op.msgs = {} /\ op.rows \subseteq InQueue \cup Answered

\* What still waits has not been shown.  Of the queued rows only that of the
\* running turn may have been.
Unseen ==
    /\ \A r \in Rows : seen[r] \in {0, 1}
    /\ \A r \in Rows : r \notin Accepted \/ r \in InBuffer \cup InBatch \cup InDying => seen[r] = 0
    /\ \A s \in slots : s.phase # "delivered" => seen[s.id] = 0
    /\ \A r \in InQueue : seen[r] # 0 => running # NoTurn /\ committed /\ r = running.prompt
    /\ task.pc = "prepare" /\ ~committed => seen[running.prompt] = 0

\* The inductive invariant: where the rows are and what has become of them.
PlaceInv == Distinct /\ Separate /\ PlacedAccepted /\ TurnRow /\ Spoken /\ HandlerRows /\ Unseen

\* What the ledger asks of a step.
LedgerStep ==
    /\ \A r \in Rows : r \notin Accepted => r \notin Accepted' \/ (seen'[r] = 0 /\ r \in Holding')
    /\ \A r \in Accepted : r \in Accepted'
    /\ \A r \in Accepted : seen[r] = 1 => seen'[r] = 1
    /\ \A r \in Accepted : seen[r] = 0 /\ r \in Holding =>
         seen'[r] = 1 \/ (seen'[r] = 0 /\ (r \in Holding' \/ (r \in Prompts \cup Messages => r \in Answered')))
    /\ \A r \in Accepted : seen[r] = 0 /\ r \notin Holding => seen'[r] = 0 /\ r \notin Holding'
    /\ Answered \subseteq Answered'

\* The messages in slots that no turn has taken up.
PendingIds == {s.id : s \in {t \in slots : t.phase = "pending"}}

\* A step that moves rows from place to place, takes the rows N in and shows
\* none; a turn may end, but none starts.
Moved(N) ==
    /\ InQueue' \subseteq InQueue \cup InBuffer \cup PendingIds \cup N
    /\ InBuffer' \subseteq (InQueue \ {running.prompt}) \cup InBuffer \cup InBatch \cup InDying \cup N
    /\ InBatch' \subseteq InBatch \cup InBuffer \cup (InQueue \ {running.prompt})
    /\ InDying' \subseteq InDying \cup InBatch
    /\ \A s \in slots' : s.id \in N \/ \E t \in slots : t.id = s.id /\ (t.phase = "delivered" => s.phase = "delivered")
    /\ op'.rows \cup op'.msgs \subseteq InQueue \cup InSlots \cup op.rows \cup op.msgs

\* Who hears what in such a step.
Told(N) ==
    /\ N \subseteq Rows /\ \A r \in N : answer[r] = "new"
    /\ N \subseteq Accepted' \cap (InQueue' \cup InBuffer' \cup InSlots')
    /\ \A r \in Rows \ N : \/ answer'[r] = answer[r]
                           \/ answer[r] = "new" /\ answer'[r] = "rejected"
                           \/ r \in Accepted /\ r \in Answered'
    /\ InBuffer' \cup InBatch' \subseteq Answered'
    /\ \A r \in Holding : r \in Holding' \/ r \in Answered' \/ r \notin Prompts \cup Messages

\* What such a step leaves of the running turn.
TurnKept ==
    /\ seen' = seen
    /\ running' = running \/ running' = NoTurn
    /\ committed' = committed \/ running' = NoTurn
    /\ running # NoTurn /\ running.prompt \in InQueue' => running' = running
    /\ running' # NoTurn /\ Ending' => running'.prompt \notin InQueue'
    /\ task'.pc # "none" => task.pc # "none" /\ running' = running /\ running.prompt \in InQueue' \cup Answered'
    /\ task'.pc = "prepare" /\ ~committed' => task.pc = "prepare" /\ ~committed

\* A step of that kind; it keeps PlaceInv and is one of the ledger (PassesKeeps).
Passes(N) == Distinct' /\ Separate' /\ HandlerRows' /\ Moved(N) /\ Told(N) /\ TurnKept

\* Holding by the places.
LEMMA HoldingIs ==
    Holding = InQueue \cup (IF task.pc = "prepare" /\ ~committed THEN {running.prompt} ELSE {})
                \cup InSlots \cup InBuffer \cup InBatch \cup InDying \cup op.rows \cup op.msgs
  BY Zenon DEF Holding, InQueue, InSlots, InBuffer, InBatch, InDying

\* The same of the next state.
LEMMA HoldingNext ==
    Holding' = InQueue' \cup (IF task'.pc = "prepare" /\ ~committed' THEN {running'.prompt} ELSE {})
                \cup InSlots' \cup InBuffer' \cup InBatch' \cup InDying' \cup op'.rows \cup op'.msgs
  BY Zenon DEF Holding, InQueue, InSlots, InBuffer, InBatch, InDying

\* Answered rows have been accepted.
LEMMA AnsweredAccepted ==
    /\ \A r \in Rows : r \in Accepted <=> answer[r] \in {"owed", "merged", "answered"}
    /\ \A r \in Rows : r \in Answered <=> answer[r] \in {"merged", "answered"}
    /\ \A r \in Rows : r \in Accepted' <=> answer'[r] \in {"owed", "merged", "answered"}
    /\ \A r \in Rows : r \in Answered' <=> answer'[r] \in {"merged", "answered"}
    /\ Answered \subseteq Accepted /\ Accepted \subseteq Rows
    /\ Answered' \subseteq Accepted' /\ Accepted' \subseteq Rows
  BY DEF Accepted, Answered

\* Such a step keeps what is known of the places, and is one of the ledger.
LEMMA PassesKeeps ==
    ASSUME QueueInv, QueueInv', TurnInv, TurnInv', PlaceInv, NEW N, Passes(N)
    PROVE PlaceInv' /\ LedgerStep
<1>0. /\ answer \in [Rows -> Answers] /\ answer' \in [Rows -> Answers] /\ seen \in [Rows -> Nat]
      /\ RunningRow /\ running' # NoTurn => running'.prompt \in Rows
      /\ task.pc # "none" => running # NoTurn
      /\ task'.pc # "none" => running' # NoTurn
  BY DEF QueueInv, Typed, HistoryTyped, TurnTyped, RunningRow, TurnInv, TaskOfRunning
<1>1. /\ \A s \in slots : s.id \in InSlots
      /\ \A r \in InSlots' : r \in N \/ r \in InSlots
      /\ \A r \in PendingIds : r \in InSlots /\ seen[r] = 0
  BY DEF InSlots, IdsOf, Passes, Moved, PendingIds, PlaceInv, Unseen
<1>2. \A r \in N : r \in Rows /\ r \notin Accepted /\ r \in Accepted'
  BY AnsweredAccepted DEF Passes, Told
<1>3. Accepted \subseteq Accepted' /\ Answered \subseteq Answered'
  <2> SUFFICES ASSUME NEW r \in Rows PROVE (r \in Accepted => r \in Accepted') /\ (r \in Answered => r \in Answered')
    BY AnsweredAccepted
  <2>1. CASE r \in N
    BY <1>2, <2>1, AnsweredAccepted
  <2>2. CASE r \notin N
    <3>1. \/ answer'[r] = answer[r]
          \/ answer[r] = "new" /\ answer'[r] = "rejected"
          \/ r \in Accepted /\ r \in Answered'
      BY <2>2 DEF Passes, Told
    <3> QED BY <3>1, AnsweredAccepted
  <2> QED BY <2>1, <2>2
<1>4. \A r \in Accepted' : r \in N \/ r \in Accepted
  <2> SUFFICES ASSUME NEW r \in Rows, r \in Accepted', r \notin N PROVE r \in Accepted
    BY AnsweredAccepted
  <2>1. \/ answer'[r] = answer[r]
        \/ answer[r] = "new" /\ answer'[r] = "rejected"
        \/ r \in Accepted /\ r \in Answered'
    BY DEF Passes, Told
  <2> QED BY <2>1, AnsweredAccepted
<1>5. PlacedAccepted'
  BY <1>1, <1>2, <1>3 DEF Passes, Moved, TurnKept, PlaceInv, PlacedAccepted
<1>6. TurnRow'
  <2>1. running' # NoTurn => running' = running /\ running \notin {NoTurn} /\ running.prompt \notin N
    BY <1>2 DEF Passes, TurnKept, PlaceInv, PlacedAccepted
  <2>2. running' # NoTurn => running'.prompt \notin InBuffer' \cup InBatch' \cup InSlots' \cup InDying'
    BY <1>1, <2>1 DEF Passes, Moved, PlaceInv, TurnRow
  <2>3. task'.pc # "none" => running'.prompt \in InQueue' \cup Answered'
    BY DEF Passes, TurnKept
  <2> QED BY <2>2, <2>3 DEF Passes, TurnKept, TurnRow
<1>7. Spoken'
  BY <1>3 DEF Passes, Told, Moved, PlaceInv, Spoken
<1>8. Unseen'
  <2>1. seen' = seen /\ \A r \in Rows : seen'[r] \in {0, 1}
    BY DEF Passes, TurnKept, PlaceInv, Unseen
  <2>2. \A r \in N : seen[r] = 0
    BY <1>2 DEF PlaceInv, Unseen
  <2>3. \A r \in Rows : r \notin Accepted' => seen'[r] = 0
    BY <1>3, <2>1 DEF PlaceInv, Unseen
  <2>4. \A r \in InQueue : r # running.prompt \/ running = NoTurn => seen[r] = 0
    <3>1. \A r \in InQueue : r \in Rows
      BY AnsweredAccepted DEF PlaceInv, PlacedAccepted
    <3> QED BY <3>1 DEF PlaceInv, Unseen
  <2>5. \A r \in InBuffer \cup InBatch \cup InDying : seen[r] = 0
    <3>1. InBuffer \cup InBatch \cup InDying \subseteq Rows
      BY AnsweredAccepted DEF PlaceInv, PlacedAccepted
    <3> QED BY <3>1 DEF PlaceInv, Unseen
  <2>6. \A r \in InBuffer' \cup InBatch' \cup InDying' : seen'[r] = 0
    BY <2>1, <2>2, <2>4, <2>5 DEF Passes, Moved
  <2>7. \A s \in slots' : s.phase # "delivered" => seen'[s.id] = 0
    BY <2>1, <2>2 DEF Passes, Moved, PlaceInv, Unseen
  <2>8. \A r \in InQueue' : seen'[r] # 0 => running' # NoTurn /\ committed' /\ r = running'.prompt
    <3> SUFFICES ASSUME NEW r \in InQueue', seen[r] # 0
                 PROVE running' # NoTurn /\ committed' /\ r = running'.prompt
      BY <2>1
    <3>1. r \in InQueue
      BY <1>1, <2>2, <2>5 DEF Passes, Moved
    <3>2. running # NoTurn /\ committed /\ r = running.prompt
      BY <3>1 DEF PlaceInv, Unseen
    <3> QED BY <3>2 DEF Passes, TurnKept
  <2>9. task'.pc = "prepare" /\ ~committed' => seen'[running'.prompt] = 0
    BY <2>1 DEF Passes, TurnKept, PlaceInv, Unseen
  <2> QED BY <2>1, <2>3, <2>6, <2>7, <2>8, <2>9 DEF Unseen
<1>9. \A r \in Holding' : r \in Holding \/ r \in N
  BY <1>1, HoldingIs, HoldingNext DEF Passes, Moved, TurnKept
<1>10. N \subseteq Holding'
  BY HoldingNext DEF Passes, Told
<1>11. LedgerStep
  <2>1. seen' = seen /\ \A r \in Rows : seen[r] \in {0, 1} /\ (r \notin Accepted => seen[r] = 0)
    BY DEF Passes, TurnKept, PlaceInv, Unseen
  <2>2. \A r \in Rows : r \notin Accepted => r \notin Accepted' \/ (seen'[r] = 0 /\ r \in Holding')
    BY <1>4, <1>10, <2>1
  <2>3. \A r \in Accepted : seen[r] = 0 /\ r \in Holding =>
         seen'[r] = 1 \/ (seen'[r] = 0 /\ (r \in Holding' \/ (r \in Prompts \cup Messages => r \in Answered')))
    BY <2>1 DEF Passes, Told
  <2>4. \A r \in Accepted : seen[r] = 0 /\ r \notin Holding => seen'[r] = 0 /\ r \notin Holding'
    BY <1>2, <1>9, <2>1
  <2> QED BY <1>3, <2>1, <2>2, <2>3, <2>4 DEF LedgerStep
<1>12. Distinct' /\ Separate' /\ HandlerRows'
  BY DEF Passes
<1> QED BY <1>5, <1>6, <1>7, <1>8, <1>11, <1>12 DEF PlaceInv

-----------------------------------------------------------------------------
(***************************************************************************)
(* Places that a step leaves alone.                                        *)
(***************************************************************************)
\* Places that a step leaves alone.
LEMMA SamePlaces ==
    /\ pending' = pending => InQueue' = InQueue
    /\ buffer' = buffer => InBuffer' = InBuffer
    /\ task' = task => InBatch' = InBatch
    /\ slots' = slots => InSlots' = InSlots
    /\ dying' = dying => InDying' = InDying
    /\ op' = op => InHandler' = InHandler
    /\ answer' = answer => Accepted' = Accepted /\ Answered' = Answered
  BY DEF InQueue, InBuffer, InBatch, InSlots, InDying, InHandler, Accepted, Answered

\* Places that a step empties.
LEMMA EmptyPlaces ==
    /\ pending' = <<>> => InQueue' = {} /\ DistinctRows(pending')
    /\ buffer' = <<>> => InBuffer' = {} /\ IsInjective(buffer')
    /\ task'.batch = <<>> => InBatch' = {} /\ IsInjective(task'.batch)
    /\ slots' = {} => InSlots' = {}
    /\ dying' = {} => InDying' = {}
    /\ op'.rows = {} /\ op'.msgs = {} => InHandler' = {}
<1>1. pending' = <<>> => InQueue' = {} /\ DistinctRows(pending')
  BY NoRows DEF InQueue
<1>2. buffer' = <<>> => InBuffer' = {} /\ IsInjective(buffer')
  BY NoRange DEF InBuffer
<1>3. task'.batch = <<>> => InBatch' = {} /\ IsInjective(task'.batch)
  BY NoRange DEF InBatch
<1>4. /\ slots' = {} => InSlots' = {}
      /\ dying' = {} => InDying' = {}
      /\ op'.rows = {} /\ op'.msgs = {} => InHandler' = {}
  BY DEF InSlots, IdsOf, InDying, InHandler
<1> QED BY <1>1, <1>2, <1>3, <1>4

\* What a step may do to the task while the loop moves rows: nothing, or end
\* what it prepared, or abort it.
TaskKept ==
    \/ UNCHANGED taskVars
    \/ task'.batch = <<>> /\ dying' = dying
    \/ AbortTask

\* The rows of a task that is aborted are in its future, or dropped.
LEMMA AbortedPlaces ==
    ASSUME QueueInv, Distinct, Separate, TaskKept
    PROVE /\ InBatch' \subseteq InBatch /\ InDying' \subseteq InDying \cup InBatch /\ InBatch' \cap InDying' = {}
          /\ IsInjective(task'.batch) /\ (\A d \in dying' : IsInjective(d.batch)) /\ DyingParted'
<1>0. task \in [pc : TaskPlaces, batch : Seq(Rows)]
  BY DEF QueueInv, Typed, TaskTyped
<1>1. CASE UNCHANGED taskVars
  BY <1>1, SamePlaces DEF taskVars, Distinct, Separate, Parted, DyingParted
<1>2. CASE task'.batch = <<>> /\ dying' = dying
  BY <1>2, SamePlaces, EmptyPlaces DEF Distinct, Separate, Parted, DyingParted
<1>3. CASE AbortTask
  <2> DEFINE x == [prompt |-> running.prompt, batch |-> task.batch]
  <2>1. task' = NoTask /\ (dying' = dying \/ dying' = dying \cup {x})
    BY <1>3, Zenon DEF AbortTask
  <2>2. InBatch' = {} /\ IsInjective(task'.batch)
    BY <2>1, NoTaskTyped, EmptyPlaces
  <2>3. x.batch = task.batch
    OBVIOUS
  <2> HIDE DEF x
  <2>4. CASE dying' = dying
    BY <2>2, <2>4, SamePlaces DEF Distinct, Separate, Parted, DyingParted
  <2>5. CASE dying' = dying \cup {x}
    <3>1. InDying' \subseteq InDying \cup InBatch
      BY <2>3, <2>5 DEF InDying, InBatch
    <3>2. \A d \in dying' : IsInjective(d.batch)
      BY <2>3, <2>5 DEF Distinct
    <3>3. \A d \in dying : Range(d.batch) \cap Range(x.batch) = {}
      BY <2>3 DEF Separate, Parted, InDying, InBatch
    <3>4. DyingParted'
      BY <2>5, <3>3 DEF DyingParted, Separate
    <3> QED BY <2>2, <3>1, <3>2, <3>4
  <2> QED BY <2>1, <2>4, <2>5
<1> QED BY <1>1, <1>2, <1>3 DEF TaskKept

\* Rows move between the queue, the buffer, the slots and the handler.
LEMMA Separated ==
    ASSUME QueueInv, PlaceInv, TaskKept, NEW N, \A r \in N : r \notin Accepted,
           InQueue' \subseteq InQueue \cup InBuffer \cup InSlots \cup N,
           InBuffer' \subseteq InQueue \cup InBuffer \cup N,
           InSlots' \subseteq InSlots \cup N,
           InHandler' \subseteq InQueue \cup InSlots \cup InHandler,
           InQueue' \cap InBuffer' = {}, InQueue' \cap InSlots' = {}, InQueue' \cap InHandler' = {},
           InBuffer' \cap InSlots' = {}, InBuffer' \cap InHandler' = {}, InSlots' \cap InHandler' = {}
    PROVE Separate'
<1>1. InBatch' \subseteq InBatch /\ InDying' \subseteq InDying \cup InBatch /\ InBatch' \cap InDying' = {} /\ DyingParted'
  BY AbortedPlaces DEF PlaceInv
<1>2. \A r \in N : r \notin InBatch /\ r \notin InDying
  BY DEF PlaceInv, PlacedAccepted
<1>3. Parted(InQueue, InBuffer, InBatch, InSlots, InHandler, InDying)
  BY DEF PlaceInv, Separate
<1>4. Parted(InQueue', InBuffer', InBatch', InSlots', InHandler', InDying')
  BY <1>1, <1>2, <1>3 DEF Parted
<1> QED BY <1>1, <1>4 DEF Separate, Parted

\* What an answer does.
LEMMA ReplyIs ==
    ASSUME answer \in [Rows -> Answers], NEW rows, answer' = Reply(rows)
    PROVE /\ \A r \in Rows : answer'[r] = answer[r] \/ (r \in rows /\ r \in Accepted /\ r \in Answered')
          /\ \A r \in rows : r \in Accepted => r \in Answered'
  BY DEF Reply, Accepted, Answered

\* A step that moves rows between the queue, the buffer and the slots while the
\* turn, its task and the handler stay as they are.
LEMMA QueuePasses ==
    ASSUME QueueInv, TurnInv, PlaceInv, UNCHANGED <<running, committed, task, dying, op, seen>>,
           NEW N \in SUBSET Rows, \A r \in N : answer[r] = "new", N \subseteq Accepted',
           N \subseteq InQueue' \cup InBuffer' \cup InSlots',
           \A r \in Rows \ N : \/ answer'[r] = answer[r]
                               \/ answer[r] = "new" /\ answer'[r] = "rejected"
                               \/ r \in Accepted /\ r \in Answered',
           DistinctRows(pending'), IsInjective(buffer'), \A s, t \in slots' : s.id = t.id => s = t,
           InQueue' \subseteq InQueue \cup InBuffer \cup PendingIds \cup N,
           InBuffer' \subseteq (InQueue \ {running.prompt}) \cup InBuffer \cup N, InBuffer' \subseteq Answered',
           \A s \in slots' : s.id \in N \/ \E t \in slots : t.id = s.id /\ (t.phase = "delivered" => s.phase = "delivered"),
           InQueue' \cap InBuffer' = {}, InQueue' \cap InSlots' = {}, InBuffer' \cap InSlots' = {},
           \A r \in InQueue : r \in InQueue' \cup Answered',
           \A r \in InBuffer : r \in InQueue' \cup InBuffer' \cup Answered',
           \A r \in InSlots : r \in InQueue' \cup InSlots' \cup Answered',
           UNCHANGED loopVars \/ (pc \notin {"teardown", "settle"} /\ pc' \notin {"teardown", "settle", "complete"})
    PROVE Passes(N)
<1>0. InBatch' = InBatch /\ InDying' = InDying /\ InHandler' = InHandler
  BY SamePlaces
<1>1. TaskKept
  BY DEF TaskKept, taskVars
<1>2. (\A r \in N : r \notin Accepted) /\ PendingIds \subseteq InSlots /\ InSlots' \subseteq InSlots \cup N
  BY AnsweredAccepted DEF PendingIds, InSlots, IdsOf
<1>3. InHandler \subseteq op.rows \cup op.msgs
  BY DEF InHandler
<1>4. \A r \in N : r \notin InHandler
  BY <1>2, <1>3 DEF PlaceInv, PlacedAccepted
<1>5. Parted(InQueue, InBuffer, InBatch, InSlots, InHandler, InDying)
  BY DEF PlaceInv, Separate
<1>6. InHandler' \cap (InQueue' \cup InBuffer' \cup InSlots') = {}
  BY <1>0, <1>2, <1>4, <1>5 DEF Parted
<1>7. Separate'
  BY <1>0, <1>1, <1>2, <1>6, Separated
<1>8. Distinct'
  BY <1>1, AbortedPlaces DEF PlaceInv, Distinct
<1>9. HandlerRows'
  <2>1. CASE UNCHANGED loopVars
    <3>1. Answered \subseteq Answered'
      <4> SUFFICES ASSUME NEW r \in Rows, r \in Answered PROVE r \in Answered'
        BY AnsweredAccepted
      <4>1. r \notin N
        BY AnsweredAccepted
      <4>2. \/ answer'[r] = answer[r]
            \/ answer[r] = "new" /\ answer'[r] = "rejected"
            \/ r \in Accepted /\ r \in Answered'
        BY <4>1
      <4> QED BY <4>2, AnsweredAccepted
    <3> QED BY <2>1, <3>1 DEF PlaceInv, HandlerRows, loopVars
  <2>2. CASE pc \notin {"teardown", "settle"} /\ pc' \notin {"teardown", "settle", "complete"}
    BY <2>2 DEF PlaceInv, HandlerRows
  <2> QED BY <2>1, <2>2
<1>10. Moved(N)
  BY <1>0 DEF Moved
<1>11. \A r \in Holding : r \in Holding' \/ r \in Answered'
  BY <1>0, HoldingIs, HoldingNext
<1>12. InBuffer' \cup InBatch' \subseteq Answered'
  <2>1. ASSUME NEW r \in InBatch PROVE r \in Answered'
    <3>1. r \in Rows /\ r \in Answered
      BY <2>1, AnsweredAccepted DEF PlaceInv, Spoken
    <3>2. r \notin N
      BY <3>1, AnsweredAccepted
    <3>3. \/ answer'[r] = answer[r]
          \/ answer[r] = "new" /\ answer'[r] = "rejected"
          \/ r \in Accepted /\ r \in Answered'
      BY <3>1, <3>2
    <3> QED BY <3>1, <3>3, AnsweredAccepted
  <2> QED BY <1>0, <2>1
<1>13. Told(N)
  BY <1>11, <1>12 DEF Told
<1>14. TurnKept
  <2>1. task.pc # "none" => running.prompt \in InQueue' \cup Answered'
    <3>1. ASSUME task.pc # "none", running.prompt \in Answered PROVE running.prompt \in Answered'
      <4>1. running.prompt \in Rows \ N
        BY <3>1, AnsweredAccepted
      <4>2. \/ answer'[running.prompt] = answer[running.prompt]
            \/ answer[running.prompt] = "new" /\ answer'[running.prompt] = "rejected"
            \/ running.prompt \in Accepted /\ running.prompt \in Answered'
        BY <4>1
      <4> QED BY <3>1, <4>1, <4>2, AnsweredAccepted
    <3> QED BY <3>1 DEF PlaceInv, TurnRow
  <2>2. running' # NoTurn /\ Ending' => running'.prompt \notin InQueue'
    <3>1. Ending' => Ending
      BY DEF Ending, loopVars, Leased
    <3>2. running # NoTurn => running.prompt \notin N
      BY <1>2 DEF PlaceInv, PlacedAccepted
    <3> QED BY <1>2, <3>1, <3>2 DEF PlaceInv, TurnRow
  <2> QED BY <2>1, <2>2 DEF TurnKept
<1> QED BY <1>7, <1>8, <1>9, <1>10, <1>13, <1>14 DEF Passes

-----------------------------------------------------------------------------
(***************************************************************************)
(* Arrivals: prompts, queued prompts, wake-ups and resumptions.            *)
(***************************************************************************)
\* A row is accepted, and others may be answered.
LEMMA AcceptIs ==
    ASSUME answer \in [Rows -> Answers], NEW rows, NEW p \in Rows, answer[p] = "new", NEW as \in {"owed", "merged"},
           answer' = [Reply(rows) EXCEPT ![p] = as]
    PROVE /\ p \in Accepted' /\ p \notin Accepted /\ (as = "merged" => p \in Answered')
          /\ \A r \in Rows \ {p} : answer'[r] = answer[r] \/ (r \in Accepted /\ r \in Answered')
          /\ \A r \in rows : r \in Accepted => r \in Answered'
          /\ \A r \in Answered : r \in Answered'
<1>1. Reply(rows) \in [Rows -> Answers]
  BY ReplyTyped
<1>2. answer'[p] = as /\ \A r \in Rows \ {p} : answer'[r] = Reply(rows)[r]
  BY <1>1
<1>3. \A r \in Rows : Reply(rows)[r] = IF r \in rows /\ answer[r] = "owed" THEN "answered" ELSE answer[r]
  BY DEF Reply
<1> QED BY <1>2, <1>3 DEF Accepted, Answered

\* A row is accepted alone.
LEMMA AcceptOne ==
    ASSUME answer \in [Rows -> Answers], NEW p \in Rows, answer[p] = "new", NEW as \in {"owed", "merged"},
           answer' = Accept(p, as)
    PROVE /\ p \in Accepted' /\ p \notin Accepted /\ (as = "merged" => p \in Answered')
          /\ \A r \in Rows \ {p} : answer'[r] = answer[r]
          /\ \A r \in Answered : r \in Answered'
  BY DEF Accept, Accepted, Answered

\* The facts about the places that most steps need.
LEMMA PlaceFacts ==
    ASSUME QueueInv, PlaceInv
    PROVE /\ pending \in Seq(Entries) /\ buffer \in Seq(Rows) /\ Ordered(slots) /\ RunningRow
          /\ answer \in [Rows -> Answers]
          /\ DistinctRows(pending) /\ IsInjective(buffer) /\ (\A s, t \in slots : s.id = t.id => s = t)
          /\ InQueue \subseteq Accepted /\ InBuffer \subseteq Accepted /\ InSlots \subseteq Accepted
          /\ InQueue \cap InBuffer = {} /\ InQueue \cap InSlots = {} /\ InBuffer \cap InSlots = {}
          /\ InBuffer \subseteq Answered
          /\ Accepted \subseteq Rows
          /\ running # NoTurn => running.prompt \in Accepted
          /\ InQueue = QueuedRows(pending) /\ InBuffer = Range(buffer)
          /\ InQueue' = QueuedRows(pending') /\ InBuffer' = Range(buffer')
<1>1. /\ pending \in Seq(Entries) /\ buffer \in Seq(Rows) /\ Ordered(slots) /\ RunningRow
      /\ answer \in [Rows -> Answers]
  BY TypedFacts
<1>2. DistinctRows(pending) /\ IsInjective(buffer) /\ (\A s, t \in slots : s.id = t.id => s = t)
  BY DEF PlaceInv, Distinct
<1>3. /\ InQueue \subseteq Accepted /\ InBuffer \subseteq Accepted /\ InSlots \subseteq Accepted
      /\ running # NoTurn => running.prompt \in Accepted
      /\ InBuffer \subseteq Answered
  BY DEF PlaceInv, PlacedAccepted, Spoken
<1>4. InQueue \cap InBuffer = {} /\ InQueue \cap InSlots = {} /\ InBuffer \cap InSlots = {}
  BY DEF PlaceInv, Separate, Parted
<1>5. /\ InQueue = QueuedRows(pending) /\ InBuffer = Range(buffer)
      /\ InQueue' = QueuedRows(pending') /\ InBuffer' = Range(buffer')
  BY DEF InQueue, InBuffer
<1> QED BY <1>1, <1>2, <1>3, <1>4, <1>5, AnsweredAccepted

\* What a slot stands for does not change.
LEMMA SlotsKept ==
    ASSUME QueueInv, PlaceInv, UNCHANGED slots
    PROVE /\ \A s \in slots' : \E t \in slots : t.id = s.id /\ (t.phase = "delivered" => s.phase = "delivered")
          /\ \A s, t \in slots' : s.id = t.id => s = t
          /\ InSlots' = InSlots
  BY SamePlaces, PlaceFacts

\* The sweep takes wakes out of the queue, but not the running turn's.
LEMMA PreemptedIs == Preempted \subseteq InQueue \ {running.prompt}
  BY DEF Preempted, InQueue

\* A prompt is queued or becomes an interjection.
LEMMA PromptPlaces ==
    ASSUME QueueInv, TurnInv, PlaceInv, NEW p \in Prompts, Prompt(p)
    PROVE Passes({p})
<1> DEFINE swept == Without(pending, Preempted)
<1>1. PICK now \in BOOLEAN, goal \in Goals :
           /\ pc = "idle" /\ answer[p] = "new"
           /\ \/ /\ pending' = swept
                 /\ buffer' = Append(buffer, p)
                 /\ answer' = [Reply(Preempted) EXCEPT ![p] = "merged"]
                 /\ pc' = "start"
              \/ /\ pending' = InsertAt(swept, SendNowIndex(swept), Entry(p, TRUE))
                 /\ answer' = [Reply(Preempted) EXCEPT ![p] = "owed"]
                 /\ pc' = IF ReplacesTurn(goal) THEN "replace" ELSE "start"
                 /\ UNCHANGED buffer
              \/ /\ pending' = Append(swept, Entry(p, FALSE))
                 /\ answer' = [Reply(Preempted) EXCEPT ![p] = "owed"]
                 /\ pc' = "start"
                 /\ UNCHANGED buffer
           /\ UNCHANGED <<holds, turnVars, gate, report, taskVars, completions, slots, op, kicks, seen>>
  BY Zenon DEF Prompt
<1>2. p \in Rows /\ {p} \in SUBSET Rows
  BY DEF Rows
<1>3. swept \in Seq(Entries) /\ QueuedRows(swept) = InQueue \ Preempted /\ DistinctRows(swept)
  BY PlaceFacts, WithoutRowsIs
<1>4. SendNowIndex(swept) \in 1..(Len(swept) + 1)
  BY <1>3, SendNowIndexIs
<1> HIDE DEF swept
<1>5. PICK as \in {"owed", "merged"} : answer' = [Reply(Preempted) EXCEPT ![p] = as] /\ (as = "owed" => UNCHANGED buffer)
  BY <1>1
<1>6. /\ p \in Accepted' /\ p \notin Accepted /\ (as = "merged" => p \in Answered')
      /\ \A r \in Rows \ {p} : answer'[r] = answer[r] \/ (r \in Accepted /\ r \in Answered')
      /\ \A r \in Preempted : r \in Accepted => r \in Answered'
      /\ \A r \in Answered : r \in Answered'
  BY <1>1, <1>2, <1>5, PlaceFacts, AcceptIs
<1>7. p \notin InQueue /\ p \notin InBuffer /\ p \notin InSlots /\ p \notin QueuedRows(swept)
  BY <1>3, <1>6, PlaceFacts
<1>8. UNCHANGED <<running, committed, task, dying, op, seen, slots>> /\ pc = "idle" /\ pc' \in {"start", "replace"}
  BY <1>1 DEF turnVars, taskVars
<1>9. CASE pending' = swept /\ buffer' = Append(buffer, p) /\ answer' = [Reply(Preempted) EXCEPT ![p] = "merged"]
  <2>1. p \in Answered'
    <3>1. "merged" \in {"owed", "merged"}
      OBVIOUS
    <3> QED BY <1>1, <1>2, <1>9, <3>1, PlaceFacts, AcceptIs
  <2>2. InQueue' = InQueue \ Preempted /\ DistinctRows(pending')
    BY <1>3, <1>9, PlaceFacts
  <2>3. InBuffer' = InBuffer \cup {p} /\ IsInjective(buffer')
    BY <1>2, <1>7, <1>9, PlaceFacts, AppendRange
  <2> QED BY <1>1, <1>2, <1>6, <1>7, <1>8, <2>1, <2>2, <2>3, SlotsKept, PlaceFacts, PreemptedIs, QueuePasses
<1>10. ASSUME InQueue' = (InQueue \ Preempted) \cup {p}, DistinctRows(pending'), UNCHANGED buffer
       PROVE Passes({p})
  <2>1. InBuffer' = InBuffer /\ IsInjective(buffer') /\ InBuffer' \subseteq Answered'
    BY <1>6, <1>10, PlaceFacts
  <2> QED BY <1>1, <1>2, <1>6, <1>7, <1>8, <1>10, <2>1, SlotsKept, PlaceFacts, PreemptedIs, QueuePasses
<1>11. CASE pending' = InsertAt(swept, SendNowIndex(swept), Entry(p, TRUE)) /\ UNCHANGED buffer
  <2>1. QueuedRows(pending') = QueuedRows(swept) \cup {p} /\ DistinctRows(pending')
    BY <1>2, <1>3, <1>4, <1>7, <1>11, InsertRows
  <2> QED BY <1>3, <1>10, <1>11, <2>1, PlaceFacts
<1>12. CASE pending' = Append(swept, Entry(p, FALSE)) /\ UNCHANGED buffer
  <2>1. QueuedRows(pending') = QueuedRows(swept) \cup {p} /\ DistinctRows(pending')
    BY <1>2, <1>3, <1>7, <1>12, AppendRows
  <2> QED BY <1>3, <1>10, <1>12, <2>1, PlaceFacts
<1> QED BY <1>1, <1>9, <1>11, <1>12

\* A row is accepted and goes behind the others, or to its place in the queue.
LEMMA QueuedPlaces ==
    ASSUME QueueInv, TurnInv, PlaceInv, NEW r \in Rows, answer[r] = "new", NEW as \in {"owed", "merged"},
           answer' = Accept(r, as), InQueue' = InQueue \cup {r}, DistinctRows(pending'),
           UNCHANGED <<running, committed, task, dying, op, seen, slots, buffer>>,
           UNCHANGED loopVars \/ (pc \notin {"teardown", "settle"} /\ pc' \notin {"teardown", "settle", "complete"})
    PROVE Passes({r})
<1>1. /\ r \in Accepted' /\ r \notin Accepted
      /\ \A x \in Rows \ {r} : answer'[x] = answer[x]
      /\ \A x \in Answered : x \in Answered'
  BY PlaceFacts, AcceptOne
<1>2. r \notin InQueue /\ r \notin InBuffer /\ r \notin InSlots
  BY <1>1, PlaceFacts
<1>3. InBuffer' = InBuffer /\ IsInjective(buffer') /\ InBuffer' \subseteq Answered'
  BY <1>1, PlaceFacts
<1> QED BY <1>1, <1>2, <1>3, SlotsKept, PlaceFacts, QueuePasses

\* A wake.
LEMMA WakePlaces ==
    ASSUME QueueInv, TurnInv, PlaceInv, NEW w \in Wakes, Wake(w)
    PROVE Passes({w})
<1>1. w \in Rows /\ answer[w] = "new" /\ answer' = Accept(w, "owed") /\ pc = "idle" /\ pc' = "start"
      /\ UNCHANGED <<running, committed, task, dying, op, seen, slots, buffer>>
      /\ pending' = Append(pending, Entry(w, FALSE))
  BY DEF Wake, Rows, turnVars, taskVars, deliveryVars
<1>2. w \notin InQueue
  BY <1>1, PlaceFacts, AnsweredAccepted
<1>3. InQueue' = InQueue \cup {w} /\ DistinctRows(pending')
  BY <1>1, <1>2, PlaceFacts, AppendRows
<1> QED BY <1>1, <1>3, QueuedPlaces

\* A plan approval.
LEMMA ResumePlaces ==
    ASSUME QueueInv, TurnInv, PlaceInv, NEW r \in Resumes, ResumePushes(r)
    PROVE Passes({r})
<1>1. r \in Rows /\ answer[r] = "new" /\ answer' = Accept(r, "owed")
      /\ UNCHANGED <<running, committed, task, dying, op, seen, slots, buffer>> /\ UNCHANGED loopVars
      /\ pending' = Append(pending, Entry(r, FALSE))
  BY DEF ResumePushes, Rows, turnVars, taskVars, deliveryVars, loopVars
<1>2. r \notin InQueue
  BY <1>1, PlaceFacts, AnsweredAccepted
<1>3. InQueue' = InQueue \cup {r} /\ DistinctRows(pending')
  BY <1>1, <1>2, PlaceFacts, AppendRows
<1> QED BY <1>1, <1>3, QueuedPlaces

-----------------------------------------------------------------------------
(***************************************************************************)
(* Rows withdrawn, messages and interjections.                             *)
(***************************************************************************)
\* Rows leave the queue or the slots with an answer; the buffer stays or is
\* cleared, for the senders of its rows have theirs.
LEMMA WithdrawPlaces ==
    ASSUME QueueInv, TurnInv, PlaceInv, UNCHANGED <<running, committed, task, dying, op, seen>>,
           \A r \in Rows : answer'[r] = answer[r] \/ (r \in Accepted /\ r \in Answered'),
           DistinctRows(pending'), InQueue' \subseteq InQueue, \A r \in InQueue : r \in InQueue' \cup Answered',
           buffer' = buffer \/ buffer' = <<>>,
           slots' \subseteq slots, \A s \in slots : s \in slots' \/ s.id \in Answered',
           UNCHANGED loopVars \/ (pc \notin {"teardown", "settle"} /\ pc' \notin {"teardown", "settle", "complete"})
    PROVE Passes({})
<1>1. InBuffer' \subseteq InBuffer /\ IsInjective(buffer')
  BY PlaceFacts, SamePlaces, EmptyPlaces
<1>2. InBuffer \subseteq Answered'
  <2> SUFFICES ASSUME NEW r \in InBuffer PROVE r \in Answered'
    OBVIOUS
  <2>1. r \in Rows /\ r \in Answered
    BY PlaceFacts
  <2> QED BY <2>1, AnsweredAccepted
<1>3. InSlots' \subseteq InSlots /\ \A r \in InSlots : r \in InSlots' \cup Answered'
  BY DEF InSlots, IdsOf
<1>4. \A s, t \in slots' : s.id = t.id => s = t
  BY PlaceFacts
<1>5. InQueue' \cap InBuffer' = {} /\ InQueue' \cap InSlots' = {} /\ InBuffer' \cap InSlots' = {}
  BY <1>1, <1>3, PlaceFacts
<1>6. TurnRow
  BY DEF PlaceInv
<1>7. InBuffer' \subseteq (InQueue \ {running.prompt}) \cup InBuffer \cup {}
  BY <1>1
<1>8. {} \in SUBSET Rows /\ (\A r \in {} : answer[r] = "new") /\ {} \subseteq Accepted'
      /\ {} \subseteq InQueue' \cup InBuffer' \cup InSlots'
  OBVIOUS
<1>9. \A s \in slots' : s.id \in {} \/ \E t \in slots : t.id = s.id /\ (t.phase = "delivered" => s.phase = "delivered")
  OBVIOUS
<1>10. \A r \in Rows \ {} : \/ answer'[r] = answer[r]
                            \/ answer[r] = "new" /\ answer'[r] = "rejected"
                            \/ r \in Accepted /\ r \in Answered'
  OBVIOUS
<1>11. InQueue' \subseteq InQueue \cup InBuffer \cup PendingIds \cup {}
  OBVIOUS
<1>12. InBuffer' \subseteq Answered' /\ (\A r \in InBuffer : r \in InQueue' \cup InBuffer' \cup Answered')
       /\ \A r \in InSlots : r \in InQueue' \cup InSlots' \cup Answered'
  BY <1>1, <1>2, <1>3
<1> QED BY <1>1, <1>4, <1>5, <1>7, <1>8, <1>9, <1>10, <1>11, <1>12, QueuePasses

\* The same when no row moves at all.
LEMMA StayPlaces ==
    ASSUME QueueInv, TurnInv, PlaceInv,
           UNCHANGED <<running, committed, task, dying, op, seen, pending, buffer, slots, answer>>,
           UNCHANGED loopVars \/ (pc \notin {"teardown", "settle"} /\ pc' \notin {"teardown", "settle", "complete"})
    PROVE Passes({})
<1>1. DistinctRows(pending') /\ InQueue' = InQueue
  BY PlaceFacts, SamePlaces
<1> QED BY <1>1, WithdrawPlaces

\* A message is refused, gets a slot of the running turn or is queued.
LEMMA MessagePlaces ==
    ASSUME QueueInv, TurnInv, PlaceInv, NEW m \in Messages, ParentMessage(m)
    PROVE Passes({}) \/ Passes({m})
<1>1. /\ m \in Rows /\ answer[m] = "new" /\ pc = "idle"
      /\ UNCHANGED <<running, committed, task, dying, op, seen, buffer>>
  BY DEF ParentMessage, Rows, turnVars, taskVars
<1>2. CASE answer' = Accept(m, "rejected") /\ UNCHANGED <<pending, slots, pc>>
  <2>1. \A r \in Rows : \/ answer'[r] = answer[r]
                        \/ answer[r] = "new" /\ answer'[r] = "rejected"
                        \/ r \in Accepted /\ r \in Answered'
    BY <1>1, <1>2, PlaceFacts DEF Accept
  <2>2. DistinctRows(pending') /\ InQueue' = InQueue /\ InBuffer' = InBuffer /\ IsInjective(buffer')
    BY <1>1, <1>2, PlaceFacts, SamePlaces
  <2>3. InBuffer \subseteq Answered'
    <3> SUFFICES ASSUME NEW r \in InBuffer PROVE r \in Answered'
      OBVIOUS
    <3>1. r \in Rows /\ r \in Answered
      BY PlaceFacts
    <3> QED BY <2>1, <3>1, AnsweredAccepted
  <2>4. InBuffer' \subseteq (InQueue \ {running.prompt}) \cup InBuffer \cup {}
    BY <2>2
  <2>5. Passes({})
    BY <1>1, <1>2, <2>1, <2>2, <2>3, <2>4, SlotsKept, PlaceFacts, QueuePasses
  <2> QED BY <2>5
<1>3. CASE slots' = AdmitPending(slots, running, m) /\ answer' = Accept(m, "owed") /\ pc' = "start" /\ UNCHANGED pending
  <2> DEFINE x == [id |-> m, binding |-> running, phase |-> "pending", at |-> NextAt(slots)]
  <2>1. slots' = slots \cup {x} /\ x.id = m
    BY <1>3 DEF AdmitPending
  <2> HIDE DEF x
  <2>2. InSlots' = InSlots \cup {m}
    BY <2>1 DEF InSlots, IdsOf
  <2>3. /\ m \in Accepted' /\ m \notin Accepted
        /\ \A r \in Rows \ {m} : answer'[r] = answer[r]
        /\ \A r \in Answered : r \in Answered'
    <3>1. "owed" \in {"owed", "merged"}
      OBVIOUS
    <3> QED BY <1>1, <1>3, <3>1, PlaceFacts, AcceptOne
  <2>4. m \notin InQueue /\ m \notin InBuffer /\ m \notin InSlots
    BY <2>3, PlaceFacts
  <2>5. \A s, t \in slots' : s.id = t.id => s = t
    <3>1. \A s \in slots : s.id \in InSlots
      BY DEF InSlots, IdsOf
    <3> QED BY <2>1, <2>4, <3>1, PlaceFacts
  <2>6. \A s \in slots' : s.id \in {m} \/ \E t \in slots : t.id = s.id /\ (t.phase = "delivered" => s.phase = "delivered")
    BY <2>1
  <2>7. DistinctRows(pending') /\ InQueue' = InQueue /\ InBuffer' = InBuffer /\ IsInjective(buffer')
    BY <1>1, <1>3, PlaceFacts, SamePlaces
  <2>8. InBuffer' \subseteq Answered' /\ InBuffer' \subseteq (InQueue \ {running.prompt}) \cup InBuffer \cup {m}
    BY <2>3, <2>7, PlaceFacts
  <2>9. Passes({m})
    BY <1>1, <1>3, <2>2, <2>3, <2>4, <2>5, <2>6, <2>7, <2>8, PlaceFacts, QueuePasses
  <2> QED BY <2>9
<1>4. CASE pending' = Append(pending, Entry(m, FALSE)) /\ answer' = Accept(m, "owed") /\ pc' = "start" /\ UNCHANGED slots
  <2>1. m \notin InQueue
    BY <1>1, PlaceFacts, AnsweredAccepted
  <2>2. InQueue' = InQueue \cup {m} /\ DistinctRows(pending')
    BY <1>1, <1>4, <2>1, PlaceFacts, AppendRows
  <2>3. "owed" \in {"owed", "merged"}
    OBVIOUS
  <2>4. Passes({m})
    BY <1>1, <1>4, <2>2, <2>3, QueuedPlaces
  <2> QED BY <2>4
<1> QED BY <1>2, <1>3, <1>4 DEF ParentMessage

\* A note goes to the buffer, or to the front.
LEMMA InterjectPlaces ==
    ASSUME QueueInv, TurnInv, PlaceInv, NEW n \in Notes, Interject(n)
    PROVE Passes({n})
<1>1. /\ n \in Rows /\ answer[n] = "new" /\ pc = "idle" /\ answer' = Accept(n, "merged")
      /\ UNCHANGED <<running, committed, task, dying, op, seen, slots>>
  BY DEF Interject, Rows, turnVars, taskVars
<1>2. "merged" \in {"owed", "merged"}
  OBVIOUS
<1>3. /\ n \in Accepted' /\ n \notin Accepted /\ n \in Answered'
      /\ \A r \in Rows \ {n} : answer'[r] = answer[r]
      /\ \A r \in Answered : r \in Answered'
  BY <1>1, <1>2, PlaceFacts, AcceptOne
<1>4. n \notin InQueue /\ n \notin InBuffer /\ n \notin InSlots
  BY <1>3, PlaceFacts
<1>5. CASE buffer' = Append(buffer, n) /\ UNCHANGED <<pending, pc>>
  <2>1. InBuffer' = InBuffer \cup {n} /\ IsInjective(buffer')
    BY <1>1, <1>4, <1>5, PlaceFacts, AppendRange
  <2>2. DistinctRows(pending') /\ InQueue' = InQueue
    BY <1>5, PlaceFacts, SamePlaces
  <2>3. running.prompt \notin InBuffer' \/ running.prompt = n \/ running.prompt \in InBuffer
    BY <2>1
  <2>4. InBuffer' \subseteq Answered' /\ InBuffer' \subseteq (InQueue \ {running.prompt}) \cup InBuffer \cup {n}
    BY <1>3, <2>1, PlaceFacts
  <2>5. UNCHANGED loopVars
    BY <1>1, <1>5 DEF loopVars
  <2> QED BY <1>1, <1>3, <1>4, <2>1, <2>2, <2>4, <2>5, SlotsKept, PlaceFacts, QueuePasses
<1>6. CASE pending' = InsertFront(pending, n) /\ pc' = "start" /\ UNCHANGED buffer
  <2> DEFINE i == IF AtFront THEN 2 ELSE 1
  <2>1. i \in 1..(Len(pending) + 1)
    BY PlaceFacts, AtFrontLeads DEF Leads
  <2>2. pending' = InsertAt(pending, i, Entry(n, TRUE))
    BY <1>6, Zenon DEF InsertFront
  <2> HIDE DEF i
  <2>3. InQueue' = InQueue \cup {n} /\ DistinctRows(pending')
    BY <1>1, <1>4, <2>1, <2>2, PlaceFacts, InsertRows
  <2> QED BY <1>1, <1>2, <1>6, <2>3, QueuedPlaces
<1> QED BY <1>5, <1>6 DEF Interject

-----------------------------------------------------------------------------
(***************************************************************************)
(* Edits of the queue, flushes, and the task taking the buffer in.         *)
(***************************************************************************)
\* An edit of the queue.
LEMMA EditPlaces ==
    ASSUME QueueInv, TurnInv, PlaceInv, QueueEdit
    PROVE Passes({})
<1>1. CASE Reorder
  <2>1. /\ pc = "idle" /\ pc' = "start"
        /\ UNCHANGED <<running, committed, task, dying, op, seen, buffer, slots, answer>>
    BY <1>1 DEF Reorder, QueueEdited, turnVars, taskVars
  <2>2. InQueue' = InQueue /\ DistinctRows(pending')
    BY <1>1, PlaceFacts, ReorderRows
  <2> QED BY <2>1, <2>2, WithdrawPlaces
<1>2. ASSUME NEW rows, pending' = Without(pending, rows), answer' = Reply(rows), QueueEdited(TRUE),
             UNCHANGED buffer, pc = "idle"
      PROVE Passes({})
  <2>1. /\ pc' = "start"
        /\ UNCHANGED <<running, committed, task, dying, op, seen, slots>>
    BY <1>2 DEF QueueEdited, turnVars, taskVars
  <2>2. InQueue' = InQueue \ rows /\ DistinctRows(pending')
    BY <1>2, PlaceFacts, WithoutRowsIs
  <2>3. /\ \A r \in Rows : answer'[r] = answer[r] \/ (r \in rows /\ r \in Accepted /\ r \in Answered')
        /\ \A r \in rows : r \in Accepted => r \in Answered'
    BY <1>2, PlaceFacts, ReplyIs
  <2>4. \A r \in InQueue : r \in InQueue' \cup Answered'
    BY <2>2, <2>3, PlaceFacts
  <2> QED BY <1>2, <2>1, <2>2, <2>3, <2>4, WithdrawPlaces
<1>3. CASE Clear
  <2> DEFINE rows == {r \in QueuedRows(pending) : Loose(r)}
  <2>1. /\ pc = "idle"
        /\ pending' = Without(pending, rows) /\ answer' = Reply(rows)
        /\ QueueEdited(TRUE) /\ UNCHANGED buffer
    BY <1>3, Zenon DEF Clear
  <2> HIDE DEF rows
  <2> QED BY <1>2, <2>1
<1>4. ASSUME NEW p \in Edited, RemoveQueued(p) PROVE Passes({})
  BY <1>2, <1>4 DEF RemoveQueued
<1>5. ASSUME NEW p \in Edited, Edit(p) \/ HoldEdit(p) \/ ReleaseEdit(p) PROVE Passes({})
  <2>1. /\ UNCHANGED loopVars \/ (pc = "idle" /\ pc' = "start")
        /\ UNCHANGED <<running, committed, task, dying, op, seen, pending, buffer, slots, answer>>
    BY <1>5 DEF Edit, HoldEdit, ReleaseEdit, QueueEdited, turnVars, taskVars, deliveryVars, loopVars, historyVars
  <2> QED BY <2>1, StayPlaces
<1>6. ASSUME NEW p \in Edited, InterjectQueued(p) PROVE Passes({})
  <2> DEFINE rest == Without(pending, {p})
  <2>1. PICK goal \in Goals :
           /\ pc = "idle" /\ Loose(p)
           /\ \/ /\ pending' = rest
                 /\ buffer' = Append(buffer, p)
                 /\ answer' = Accept(p, "merged")
                 /\ pc' = "start"
              \/ /\ pending' = InsertAt(rest, SendNowIndex(rest), Entry(p, TRUE))
                 /\ pc' \in {"replace", "start"}
                 /\ UNCHANGED <<buffer, answer>>
           /\ UNCHANGED <<turnVars, gate, report, taskVars, completions, slots, op, kicks, seen>>
    BY <1>6 DEF InterjectQueued
  <2>2. rest \in Seq(Entries) /\ QueuedRows(rest) = InQueue \ {p} /\ DistinctRows(rest)
    BY PlaceFacts, WithoutRowsIs
  <2> HIDE DEF rest
  <2>3. p \in InQueue /\ p # running.prompt /\ p \in Rows /\ answer[p] = "owed" /\ p \in Accepted
    <3>1. p \in InQueue /\ p # running.prompt /\ answer[p] = "owed"
      BY <2>1 DEF Loose, Queued, Editable, InQueue
    <3> QED BY <3>1, PlaceFacts
  <2>4. UNCHANGED <<running, committed, task, dying, op, seen, slots>> /\ pc = "idle" /\ pc' \in {"start", "replace"}
    BY <2>1 DEF turnVars, taskVars
  <2>5. CASE pending' = rest /\ buffer' = Append(buffer, p) /\ answer' = Accept(p, "merged")
    <3>1. p \in Answered' /\ (\A r \in Rows : answer'[r] = answer[r] \/ (r \in Accepted /\ r \in Answered'))
          /\ \A r \in Answered : r \in Answered'
      BY <2>3, <2>5, PlaceFacts DEF Accept, Accepted, Answered
    <3>2. InQueue' = InQueue \ {p} /\ DistinctRows(pending')
      BY <2>2, <2>5, PlaceFacts
    <3>3. p \notin InBuffer /\ p \notin InSlots
      BY <2>3, PlaceFacts
    <3>4. InBuffer' = InBuffer \cup {p} /\ IsInjective(buffer')
      BY <2>3, <2>5, <3>3, PlaceFacts, AppendRange
    <3>5. InBuffer' \subseteq (InQueue \ {running.prompt}) \cup InBuffer \cup {} /\ InBuffer' \subseteq Answered'
      BY <2>3, <3>1, <3>4, PlaceFacts
    <3>6. \A r \in InQueue : r \in InQueue' \cup Answered'
      BY <3>1, <3>2
    <3>7. /\ \A s \in slots' : s.id \in {} \/ \E t \in slots : t.id = s.id /\ (t.phase = "delivered" => s.phase = "delivered")
          /\ \A s, t \in slots' : s.id = t.id => s = t
          /\ InSlots' = InSlots
      BY <2>4, SlotsKept
    <3>8. InQueue' \cap InBuffer' = {} /\ InQueue' \cap InSlots' = {} /\ InBuffer' \cap InSlots' = {}
      BY <3>2, <3>3, <3>4, <3>7, PlaceFacts
    <3>9. {} \in SUBSET Rows /\ (\A r \in {} : answer[r] = "new") /\ {} \subseteq Accepted'
          /\ {} \subseteq InQueue' \cup InBuffer' \cup InSlots'
          /\ InQueue' \subseteq InQueue \cup InBuffer \cup PendingIds \cup {}
          /\ \A r \in Rows \ {} : \/ answer'[r] = answer[r]
                                  \/ answer[r] = "new" /\ answer'[r] = "rejected"
                                  \/ r \in Accepted /\ r \in Answered'
      BY <3>1, <3>2
    <3> QED BY <2>4, <3>2, <3>4, <3>5, <3>6, <3>7, <3>8, <3>9, QueuePasses
  <2>6. CASE pending' = InsertAt(rest, SendNowIndex(rest), Entry(p, TRUE)) /\ UNCHANGED <<buffer, answer>>
    <3>1. SendNowIndex(rest) \in 1..(Len(rest) + 1)
      BY <2>2, SendNowIndexIs
    <3>2. QueuedRows(pending') = QueuedRows(rest) \cup {p} /\ DistinctRows(pending')
      BY <2>2, <2>3, <2>6, <3>1, InsertRows
    <3>3. InQueue' = InQueue
      BY <2>2, <2>3, <3>2, PlaceFacts
    <3> QED BY <2>4, <2>6, <3>2, <3>3, WithdrawPlaces
  <2> QED BY <2>1, <2>5, <2>6
<1> QED BY <1>1, <1>3, <1>4, <1>5, <1>6 DEF QueueEdit

\* The buffer goes to the queue.
LEMMA FlushPlaces ==
    ASSUME QueueInv, TurnInv, PlaceInv, UNCHANGED <<running, committed, task, dying, op, seen, slots, answer>>,
           pending' = Flushed, buffer' = <<>>,
           pc \notin {"teardown", "settle"}, pc' \notin {"teardown", "settle", "complete"}
    PROVE Passes({})
<1>1. InQueue' = InQueue \cup InBuffer /\ DistinctRows(pending')
  BY PlaceFacts, FlushedRows
<1>2. InBuffer' = {} /\ IsInjective(buffer')
  BY EmptyPlaces
<1>3. /\ \A s \in slots' : s.id \in {} \/ \E t \in slots : t.id = s.id /\ (t.phase = "delivered" => s.phase = "delivered")
      /\ \A s, t \in slots' : s.id = t.id => s = t
      /\ InSlots' = InSlots
  BY SlotsKept
<1>4. InQueue' \cap InBuffer' = {} /\ InQueue' \cap InSlots' = {} /\ InBuffer' \cap InSlots' = {}
  BY <1>1, <1>2, <1>3, PlaceFacts
<1>5. {} \in SUBSET Rows /\ (\A r \in {} : answer[r] = "new") /\ {} \subseteq Accepted'
      /\ {} \subseteq InQueue' \cup InBuffer' \cup InSlots'
      /\ InQueue' \subseteq InQueue \cup InBuffer \cup PendingIds \cup {}
      /\ InBuffer' \subseteq (InQueue \ {running.prompt}) \cup InBuffer \cup {}
  BY <1>1, <1>2
<1> QED BY <1>1, <1>2, <1>3, <1>4, <1>5, QueuePasses

\* The slots are settled.
LEMMA SettleSlots ==
    ASSUME answer \in [Rows -> Answers], PlaceInv, NEW target, NEW cause, NEW rows,
           slots' = Remaining(slots, target), ~FallsBack(cause),
           answer' = Reply(rows \cup IdsOf(Completions(slots, target, cause)))
    PROVE /\ slots' \subseteq slots /\ \A s \in slots : s \in slots' \/ s.id \in Answered'
          /\ \A r \in Rows : answer'[r] = answer[r] \/ (r \in Accepted /\ r \in Answered')
          /\ \A r \in rows : r \in Accepted => r \in Answered'
<1> DEFINE done == rows \cup IdsOf(Completions(slots, target, cause))
<1>1. /\ \A r \in Rows : answer'[r] = answer[r] \/ (r \in done /\ r \in Accepted /\ r \in Answered')
      /\ \A r \in done : r \in Accepted => r \in Answered'
  BY ReplyIs
<1>2. \A s \in slots : s \in slots' \/ s.id \in done
  BY DEF Remaining, Completions, Fallbacks, Ended, IdsOf
<1>3. \A s \in slots : s.id \in Accepted
  BY DEF PlaceInv, PlacedAccepted, InSlots, IdsOf
<1>4. slots' \subseteq slots
  BY DEF Remaining
<1> QED BY <1>1, <1>2, <1>3, <1>4

\* The end of the session.
LEMMA StopPlaces ==
    ASSUME QueueInv, TurnInv, PlaceInv, SettleAll \/ CloseChannel
    PROVE Passes({})
<1>0. answer \in [Rows -> Answers] /\ ~FallsBack("hardTeardown") /\ ~FallsBack("actorDrop")
  BY PlaceFacts DEF FallsBack
<1>1. CASE SettleAll
  <2> DEFINE all == AllBindings(slots)
             wakes == {r \in QueuedRows(pending) : RuntimeWake(r)}
  <2>1. /\ pc = "settleAll"
        /\ answer' = Reply(wakes \cup IdsOf(Completions(slots, all, "hardTeardown")))
        /\ slots' = Remaining(slots, all)
        /\ pending' = Without(pending, wakes)
        /\ pc' = "stopped"
        /\ UNCHANGED <<turnVars, taskVars, buffer, op, seen>>
    BY <1>1, Zenon DEF SettleAll
  <2> HIDE DEF all, wakes
  <2>2. /\ slots' \subseteq slots /\ \A s \in slots : s \in slots' \/ s.id \in Answered'
        /\ \A r \in Rows : answer'[r] = answer[r] \/ (r \in Accepted /\ r \in Answered')
        /\ \A r \in wakes : r \in Accepted => r \in Answered'
    BY <1>0, <2>1, SettleSlots
  <2>3. InQueue' = InQueue \ wakes /\ DistinctRows(pending')
    BY <2>1, PlaceFacts, WithoutRowsIs
  <2>4. \A r \in InQueue : r \in InQueue' \cup Answered'
    BY <2>2, <2>3, PlaceFacts
  <2>5. UNCHANGED <<running, committed, task, dying, op, seen, buffer>>
    BY <2>1 DEF turnVars, taskVars
  <2> QED BY <2>1, <2>2, <2>3, <2>4, <2>5, WithdrawPlaces
<1>2. CASE CloseChannel
  <2> DEFINE all == AllBindings(slots)
             done == IdsOf(Completions(slots, all, "actorDrop"))
  <2>1. /\ pc = "idle"
        /\ answer' = Reply(done)
        /\ slots' = Remaining(slots, all)
        /\ pc' = "stopped"
        /\ UNCHANGED <<queueVars, turnVars, taskVars, buffer, op, seen>>
    BY <1>2, Zenon DEF CloseChannel
  <2>2. {} \cup done = done
    OBVIOUS
  <2>3. answer' = Reply({} \cup IdsOf(Completions(slots, all, "actorDrop")))
    BY <2>1, <2>2
  <2> HIDE DEF all, done
  <2>4. /\ slots' \subseteq slots /\ \A s \in slots : s \in slots' \/ s.id \in Answered'
        /\ \A r \in Rows : answer'[r] = answer[r] \/ (r \in Accepted /\ r \in Answered')
    BY <1>0, <2>1, <2>3, SettleSlots
  <2>5. InQueue' = InQueue /\ DistinctRows(pending')
    BY <2>1, PlaceFacts, SamePlaces DEF queueVars
  <2>6. UNCHANGED <<running, committed, task, dying, op, seen, buffer>>
    BY <2>1 DEF turnVars, taskVars
  <2> QED BY <2>1, <2>4, <2>5, <2>6, WithdrawPlaces
<1> QED BY <1>1, <1>2

\* Steps that move no row.
LEMMA StillPlaces ==
    ASSUME QueueInv, TurnInv, PlaceInv, DropStaleCompletion \/ SendUpdate \/ UNCHANGED vars
    PROVE Passes({})
<1>1. CASE DropStaleCompletion
  BY <1>1, StayPlaces DEF DropStaleCompletion, queueVars, turnVars, taskVars, deliveryVars, loopVars, historyVars
<1>2. CASE SendUpdate
  BY <1>2, StayPlaces DEF SendUpdate, TaskStep, queueVars, deliveryVars, loopVars, historyVars
<1>3. CASE UNCHANGED vars
  BY <1>3, StayPlaces DEF vars, queueVars, turnVars, taskVars, deliveryVars, loopVars, historyVars
<1> QED BY <1>1, <1>2, <1>3

\* A wake that a tool has reported.
LEMMA ConsumePlaces ==
    ASSUME QueueInv, TurnInv, PlaceInv, NEW w \in Wakes, ConsumeWake(w)
    PROVE Passes({})
<1>1. /\ UNCHANGED <<running, committed, task, dying, op, seen, buffer, slots>> /\ UNCHANGED loopVars
      /\ pending' = Without(pending, {w}) /\ answer' = Reply({w})
  BY DEF ConsumeWake, TaskStep, loopVars, deliveryVars
<1>2. InQueue' = InQueue \ {w} /\ DistinctRows(pending')
  BY <1>1, PlaceFacts, WithoutRowsIs
<1>3. /\ \A r \in Rows : answer'[r] = answer[r] \/ (r \in {w} /\ r \in Accepted /\ r \in Answered')
      /\ \A r \in {w} : r \in Accepted => r \in Answered'
  BY <1>1, PlaceFacts, ReplyIs
<1>4. \A r \in InQueue : r \in InQueue' \cup Answered'
  BY <1>2, <1>3, PlaceFacts
<1> QED BY <1>1, <1>2, <1>3, <1>4, WithdrawPlaces

-----------------------------------------------------------------------------
(***************************************************************************)
(* Ends of a turn, and the steps of a handler.                             *)
(***************************************************************************)
\* Answers only grow.
LEMMA AnsweredGrows ==
    ASSUME \A r \in Rows : answer'[r] = answer[r] \/ (r \in Accepted /\ r \in Answered')
    PROVE Answered \subseteq Answered'
<1> SUFFICES ASSUME NEW r \in Rows, r \in Answered PROVE r \in Answered'
  BY AnsweredAccepted
<1> QED BY AnsweredAccepted

\* A step in which a task or a handler ends, or hands its rows on.
LEMMA EndPasses ==
    ASSUME QueueInv, TurnInv, PlaceInv, TaskKept, seen' = seen,
           running' = running \/ running' = NoTurn, committed' = committed \/ running' = NoTurn,
           \A r \in Rows : answer'[r] = answer[r] \/ (r \in Accepted /\ r \in Answered'),
           DistinctRows(pending'), IsInjective(buffer'), \A s, t \in slots' : s.id = t.id => s = t,
           InQueue' \subseteq InQueue \cup InBuffer \cup PendingIds, InBuffer' \subseteq InBuffer,
           \A s \in slots' : \E t \in slots : t.id = s.id /\ (t.phase = "delivered" => s.phase = "delivered"),
           InHandler' \subseteq InQueue \cup InSlots \cup InHandler,
           op'.rows \cup op'.msgs \subseteq InQueue \cup InSlots \cup op.rows \cup op.msgs,
           InQueue' \cap InBuffer' = {}, InQueue' \cap InSlots' = {}, InQueue' \cap InHandler' = {},
           InBuffer' \cap InSlots' = {}, InBuffer' \cap InHandler' = {}, InSlots' \cap InHandler' = {},
           \A r \in InQueue \cup InSlots \cup op.rows \cup op.msgs :
              r \in InQueue' \cup InSlots' \cup op'.rows \cup op'.msgs \cup Answered',
           HandlerRows',
           running # NoTurn /\ running.prompt \in InQueue' => running' = running,
           running' # NoTurn /\ Ending' => running'.prompt \notin InQueue',
           task'.pc # "none" => task.pc # "none" /\ running' = running /\ running.prompt \in InQueue' \cup Answered',
           task'.pc = "prepare" => task.pc = "prepare" /\ committed' = committed
    PROVE Passes({})
<1>1. Answered \subseteq Answered'
  BY AnsweredGrows
<1>2. PendingIds \subseteq InSlots /\ InSlots' \subseteq InSlots
  BY DEF PendingIds, InSlots, IdsOf
<1>3. Separate'
  <2>1. (\A r \in {} : r \notin Accepted) /\ InQueue' \subseteq InQueue \cup InBuffer \cup InSlots \cup {}
        /\ InBuffer' \subseteq InQueue \cup InBuffer \cup {} /\ InSlots' \subseteq InSlots \cup {}
    BY <1>2
  <2> QED BY <2>1, Separated
<1>4. /\ InBatch' \subseteq InBatch /\ InDying' \subseteq InDying \cup InBatch
      /\ IsInjective(task'.batch) /\ (\A d \in dying' : IsInjective(d.batch))
  BY AbortedPlaces DEF PlaceInv
<1>5. Distinct'
  BY <1>4 DEF Distinct
<1>6. TurnRow /\ Spoken
  BY DEF PlaceInv
<1>7. Moved({})
  <2>1. InBuffer' \subseteq (InQueue \ {running.prompt}) \cup InBuffer \cup InBatch \cup InDying \cup {}
    OBVIOUS
  <2>2. InBatch' \subseteq InBatch \cup InBuffer \cup (InQueue \ {running.prompt})
    BY <1>4
  <2> QED BY <1>4, <2>1, <2>2 DEF Moved
<1>8. InBuffer \cup InBatch \cup InDying \subseteq Answered'
  BY <1>1, <1>6 DEF Spoken
<1>9. task.pc = "prepare" => running.prompt \in InQueue \cup Answered
  BY <1>6 DEF TurnRow
<1>10. \A r \in Holding : r \in Holding' \/ r \in Answered'
  BY <1>1, <1>8, <1>9, HoldingIs, HoldingNext
<1>11. Told({})
  <2>1. InBuffer' \cup InBatch' \subseteq Answered'
    BY <1>4, <1>8
  <2> QED BY <1>10, <2>1 DEF Told
<1>12. TurnKept
  BY DEF TurnKept
<1> QED BY <1>3, <1>5, <1>7, <1>11, <1>12 DEF Passes

\* The rows of a handler that has not decided yet, or of none, are where they were.
LEMMA HandlerIs ==
    ASSUME PlaceInv
    PROVE /\ pc \notin {"teardown", "settle"} => op.rows = {} /\ op.msgs = {} /\ InHandler = {}
          /\ pc = "teardown" => op.result = "none" /\ op.msgs = {} /\ op.rows \subseteq InQueue \cup Answered /\ InHandler = {}
          /\ pc = "settle" /\ op.result = "none" => op.msgs = {} /\ op.rows \subseteq InQueue \cup Answered /\ InHandler = {}
          /\ InHandler \subseteq op.rows \cup op.msgs
          /\ InHandler \cap (InQueue \cup InBuffer \cup InSlots) = {}
  BY DEF PlaceInv, HandlerRows, InHandler, Separate, Parted

\* The task goes on without rows of its own.
LEMMA GoPlaces ==
    ASSUME QueueInv, TurnInv, PlaceInv,
           UNCHANGED <<running, committed, pending, buffer, dying, loopVars, answer, seen>>,
           task'.batch = <<>>, task.pc # "none", task'.pc # "prepare",
           \A s \in slots' : \E t \in slots : t.id = s.id /\ (t.phase = "delivered" => s.phase = "delivered"),
           \A s, t \in slots' : s.id = t.id => s = t, InSlots' = InSlots
    PROVE Passes({})
<1>1. TaskKept
  BY DEF TaskKept
<1>2. /\ InQueue' = InQueue /\ InBuffer' = InBuffer /\ InHandler' = InHandler /\ Answered' = Answered /\ Accepted' = Accepted
      /\ op' = op /\ pc' = pc
  BY SamePlaces DEF loopVars
<1>3. DistinctRows(pending') /\ IsInjective(buffer')
  BY PlaceFacts
<1>4. HandlerRows'
  BY <1>2 DEF PlaceInv, HandlerRows
<1>5. /\ InQueue' \cap InBuffer' = {} /\ InQueue' \cap InSlots' = {} /\ InQueue' \cap InHandler' = {}
      /\ InBuffer' \cap InSlots' = {} /\ InBuffer' \cap InHandler' = {} /\ InSlots' \cap InHandler' = {}
  BY <1>2, PlaceFacts, HandlerIs
<1>6. running' # NoTurn /\ Ending' => running'.prompt \notin InQueue'
  BY <1>2 DEF PlaceInv, TurnRow, Ending, Leased
<1>7. task'.pc # "none" => task.pc # "none" /\ running' = running /\ running.prompt \in InQueue' \cup Answered'
  BY <1>2 DEF PlaceInv, TurnRow
<1> QED BY <1>1, <1>2, <1>3, <1>4, <1>5, <1>6, <1>7, EndPasses

\* The phase of slots advances.
LEMMA AdvanceIs ==
    ASSUME Ordered(slots), \A s, t \in slots : s.id = t.id => s = t, NEW from, NEW to, from # "delivered",
           slots' = Advance(slots, running, from, to)
    PROVE /\ \A s \in slots' : \E t \in slots : t.id = s.id /\ (t.phase = "delivered" => s.phase = "delivered")
          /\ \A s, t \in slots' : s.id = t.id => s = t
          /\ InSlots' = InSlots
          /\ \A s \in slots' : s.phase # "delivered" =>
               \E t \in slots : t.id = s.id /\ t.phase # "delivered"
                                /\ (to = "delivered" => ~(t.binding = running /\ t.phase = from))
<1> DEFINE F(s) == IF s.binding = running /\ s.phase = from THEN [s EXCEPT !.phase = to] ELSE s
<1>1. slots' = {F(s) : s \in slots}
  BY Zenon DEF Advance
<1>2. ASSUME NEW s \in slots
      PROVE /\ F(s).id = s.id /\ (s.phase = "delivered" => F(s).phase = "delivered")
            /\ F(s).phase # "delivered" => s.phase # "delivered"
                                /\ (to = "delivered" => ~(s.binding = running /\ s.phase = from))
  <2>1. s \in Slots
    BY DEF Ordered
  <2> QED BY <2>1 DEF Slots
<1> HIDE DEF F
<1>3. \A s \in slots' : \E t \in slots : s = F(t)
  BY <1>1
<1>4. \A t \in slots : F(t) \in slots'
  BY <1>1
<1>5. InSlots' = InSlots
  <2>1. \A r \in InSlots' : r \in InSlots
    BY <1>2, <1>3 DEF InSlots, IdsOf
  <2>2. \A r \in InSlots : r \in InSlots'
    BY <1>2, <1>4 DEF InSlots, IdsOf
  <2> QED BY <2>1, <2>2
<1>6. \A s, t \in slots' : s.id = t.id => s = t
  BY <1>2, <1>3
<1>7. \A s \in slots' : \E t \in slots : t.id = s.id /\ (t.phase = "delivered" => s.phase = "delivered")
  BY <1>2, <1>3
<1>8. \A s \in slots' : s.phase # "delivered" =>
               \E t \in slots : t.id = s.id /\ t.phase # "delivered"
                                /\ (to = "delivered" => ~(t.binding = running /\ t.phase = from))
  BY <1>2, <1>3
<1> QED BY <1>5, <1>6, <1>7, <1>8

\* Where the task goes.
LEMMA GoToIs == ASSUME NEW place, GoTo(place) PROVE task'.batch = <<>> /\ task'.pc = place
  BY DEF GoTo, NoTask

\* The steps of the task that leave the rows of others alone.
LEMMA GoesPlaces ==
    ASSUME QueueInv, TurnInv, PlaceInv,
           \/ BeginTurn \/ EndEarly \/ BlockPrompt \/ TakeMessages \/ MissBarrier
           \/ ClaimForGate \/ LeaveGate \/ EndTurn \/ SendCompletion
    PROVE Passes({})
<1>1. CASE TakeMessages
  <2>1. /\ UNCHANGED <<running, committed, pending, buffer, dying, loopVars, answer, seen>> /\ task.pc = "run"
        /\ slots' = BeginDelivery(slots, running)
    BY <1>1 DEF TakeMessages, TaskStep, queueVars, historyVars, At
  <2>2. task'.batch = <<>> /\ task'.pc = "barrier"
    BY <1>1, GoToIs DEF TakeMessages
  <2>3. /\ \A s \in slots' : \E t \in slots : t.id = s.id /\ (t.phase = "delivered" => s.phase = "delivered")
        /\ \A s, t \in slots' : s.id = t.id => s = t
        /\ InSlots' = InSlots
    <3>1. slots' = Advance(slots, running, "pending", "projecting") /\ "pending" # "delivered"
      BY <2>1 DEF BeginDelivery
    <3> QED BY <3>1, PlaceFacts, AdvanceIs
  <2> QED BY <2>1, <2>2, <2>3, GoPlaces
<1>2. ASSUME UNCHANGED <<running, committed, pending, buffer, slots, dying, loopVars, answer, seen>>,
             task'.batch = <<>>, task.pc # "none", task'.pc # "prepare"
      PROVE Passes({})
  BY <1>2, SlotsKept, GoPlaces
<1>3. CASE BeginTurn
  BY <1>2, <1>3, GoToIs DEF BeginTurn, TaskStep, queueVars, deliveryVars, historyVars, At
<1>4. CASE EndEarly
  BY <1>2, <1>4, GoToIs DEF EndEarly, TaskStep, queueVars, deliveryVars, historyVars, At
<1>5. CASE BlockPrompt
  BY <1>2, <1>5, GoToIs DEF BlockPrompt, deliveryVars, historyVars, At
<1>6. CASE MissBarrier
  BY <1>2, <1>6, GoToIs DEF MissBarrier, TaskStep, queueVars, deliveryVars, historyVars, At
<1>7. CASE ClaimForGate
  BY <1>2, <1>7, GoToIs DEF ClaimForGate, TaskStep, queueVars, deliveryVars, historyVars, At
<1>8. CASE LeaveGate
  BY <1>2, <1>8, GoToIs DEF LeaveGate, TaskStep, queueVars, deliveryVars, historyVars, At
<1>9. CASE EndTurn
  <2>1. PICK result \in {"done", "cancelled", "failed"} :
           /\ At("run") /\ GoTo(result)
           /\ UNCHANGED <<queueVars, running, committed, dying, deliveryVars, loopVars, historyVars>>
    BY <1>9 DEF EndTurn
  <2> QED BY <1>2, <2>1, GoToIs DEF queueVars, deliveryVars, historyVars, At
<1>10. CASE SendCompletion
  BY <1>2, <1>10 DEF SendCompletion, TaskStep, queueVars, deliveryVars, historyVars, NoTask
<1> QED BY <1>1, <1>3, <1>4, <1>5, <1>6, <1>7, <1>8, <1>9, <1>10

-----------------------------------------------------------------------------
(***************************************************************************)
(* Cancels, from their beginning to the drop of a turn.                    *)
(***************************************************************************)
\* A cancel begins, or gives up before it has done anything: the buffer stays,
\* is cleared or goes to the queue.
LEMMA BeginPlaces ==
    ASSUME QueueInv, TurnInv, PlaceInv, UNCHANGED <<running, committed, seen, slots>>,
           UNCHANGED taskVars \/ AbortTask,
           \A r \in Rows : answer'[r] = answer[r] \/ (r \in Accepted /\ r \in Answered'),
           \/ pending' = pending /\ (buffer' = buffer \/ buffer' = <<>>)
           \/ pending' = Flushed /\ buffer' = <<>>,
           pc # "settle", op'.result = "none", op'.msgs = {}, op'.rows \subseteq InQueue,
           op'.rows = {} \/ pc' = "teardown", pc' \notin {"settle", "complete"}
    PROVE Passes({})
<1>1. TaskKept /\ (task' = task \/ task'.pc = "none")
  BY NoTaskTyped DEF TaskKept, taskVars, AbortTask, NoTask
<1>2. /\ DistinctRows(pending') /\ IsInjective(buffer') /\ InBuffer' \subseteq InBuffer
      /\ InQueue \subseteq InQueue' /\ InQueue' \subseteq InQueue \cup InBuffer /\ InQueue' \cap InBuffer' = {}
  <2>1. CASE pending' = pending /\ (buffer' = buffer \/ buffer' = <<>>)
    BY <2>1, PlaceFacts, SamePlaces, EmptyPlaces
  <2>2. CASE pending' = Flushed /\ buffer' = <<>>
    <3>1. InQueue' = InQueue \cup InBuffer /\ DistinctRows(pending')
      BY <2>2, PlaceFacts, FlushedRows
    <3> QED BY <2>2, <3>1, EmptyPlaces
  <2> QED BY <2>1, <2>2
<1>3. InHandler' = {}
  BY DEF InHandler
<1>4. /\ InSlots' = InSlots
      /\ \A s \in slots' : \E t \in slots : t.id = s.id /\ (t.phase = "delivered" => s.phase = "delivered")
      /\ \A s, t \in slots' : s.id = t.id => s = t
  BY SlotsKept
<1>5. InQueue' \cap InSlots' = {} /\ InBuffer' \cap InSlots' = {}
  BY <1>2, <1>4, PlaceFacts
<1>6. Answered \subseteq Answered'
  BY AnsweredGrows
<1>7. op.rows \cup op.msgs \subseteq InQueue \cup Answered
  BY HandlerIs
<1>8. HandlerRows'
  BY <1>2 DEF HandlerRows
<1>9. ~Ending'
  BY DEF Ending
<1>10. task'.pc # "none" => task.pc # "none" /\ running' = running /\ running.prompt \in InQueue' \cup Answered'
  BY <1>1, <1>2, <1>6 DEF PlaceInv, TurnRow
<1>11. task'.pc = "prepare" => task.pc = "prepare" /\ committed' = committed
  BY <1>1
<1>12. \A r \in InQueue \cup InSlots \cup op.rows \cup op.msgs :
          r \in InQueue' \cup InSlots' \cup op'.rows \cup op'.msgs \cup Answered'
  BY <1>2, <1>4, <1>6, <1>7
<1>13. op'.rows \cup op'.msgs \subseteq InQueue \cup InSlots \cup op.rows \cup op.msgs
  OBVIOUS
<1>14. InQueue' \subseteq InQueue \cup InBuffer \cup PendingIds
  BY <1>2
<1> QED BY <1>1, <1>2, <1>3, <1>4, <1>5, <1>8, <1>9, <1>10, <1>11, <1>12, <1>13, <1>14, EndPasses

\* The fields of a cancel that begins.
LEMMA BegunIs ==
    ASSUME NEW kind, NEW stop, NEW lease, NEW rows
    PROVE /\ Begun(kind, stop, lease, rows).rows = rows /\ Begun(kind, stop, lease, rows).msgs = {}
          /\ Begun(kind, stop, lease, rows).result = "none" /\ Begun(kind, stop, lease, rows).kind = kind
          /\ NoOp.rows = {} /\ NoOp.msgs = {} /\ NoOp.result = "none" /\ NoOp.kind = "none"
  BY DEF Begun, NoOp

\* A claim.
LEMMA ClaimIs ==
    ASSUME NEW kind, NEW stop, NEW early, Claim(kind, stop, early)
    PROVE /\ pc' = "teardown" /\ op'.rows = {} /\ op'.msgs = {} /\ op'.result = "none"
          /\ UNCHANGED taskVars \/ AbortTask
<1>1. /\ op' = Begun(kind, stop, CurrentLease, {}) /\ pc' = "teardown"
      /\ UNCHANGED taskVars \/ AbortTask
  BY DEF Claim
<1> QED BY <1>1, BegunIs

\* The answer to the rows of a cleared buffer.
LEMMA ClearedIs ==
    ASSUME QueueInv, PlaceInv, NEW rows, answer' = Reply(rows)
    PROVE \A r \in Rows : answer'[r] = answer[r] \/ (r \in Accepted /\ r \in Answered')
  BY PlaceFacts, ReplyIs

\* The cancels that keep what the turn has done.
LEMMA CancelKeepPlaces ==
    ASSUME QueueInv, TurnInv, PlaceInv, CancelKeep
    PROVE Passes({})
<1>1. PICK kind \in CancelKinds \cap {"keep", "hard"}, stop \in BOOLEAN, early \in BOOLEAN :
          /\ pc = "idle"
          /\ buffer' = <<>>
          /\ answer' = Reply(Range(buffer))
          /\ Claim(kind, stop, early) \/ UNCHANGED <<gate, loopVars, taskVars, report>>
          /\ UNCHANGED <<queueVars, turnVars, completions, slots, kicks, seen>>
  BY DEF CancelKeep
<1>2. UNCHANGED <<running, committed, pending, slots, seen>>
  BY <1>1 DEF queueVars, turnVars
<1>3. \A r \in Rows : answer'[r] = answer[r] \/ (r \in Accepted /\ r \in Answered')
  BY <1>1, ClearedIs
<1>4. CASE Claim(kind, stop, early)
  <2>1. /\ pc' = "teardown" /\ op'.rows = {} /\ op'.msgs = {} /\ op'.result = "none"
        /\ UNCHANGED taskVars \/ AbortTask
    BY <1>4, ClaimIs
  <2> QED BY <1>1, <1>2, <1>3, <2>1, BeginPlaces
<1>5. CASE UNCHANGED <<gate, loopVars, taskVars, report>>
  <2>1. UNCHANGED <<task, dying, op>> /\ UNCHANGED loopVars
    BY <1>5 DEF taskVars, loopVars
  <2>2. InQueue' = InQueue /\ DistinctRows(pending')
    BY <1>2, PlaceFacts, SamePlaces
  <2> QED BY <1>1, <1>2, <1>3, <2>1, <2>2, WithdrawPlaces
<1> QED BY <1>1, <1>4, <1>5

\* A legacy cancel.
LEMMA CancelLegacyPlaces ==
    ASSUME QueueInv, TurnInv, PlaceInv, CancelLegacy
    PROVE Passes({})
<1>1. PICK stop \in BOOLEAN :
          /\ pc = "idle"
          /\ buffer' = <<>>
          /\ answer' = Reply(Range(buffer))
          /\ op' = Begun("legacy", stop, NoTurn, {})
          /\ pc' = "teardown"
          /\ UNCHANGED <<queueVars, turnVars, gate, report, taskVars, completions, slots, kicks, seen>>
  BY DEF CancelLegacy
<1>2. UNCHANGED <<running, committed, pending, slots, seen>> /\ UNCHANGED taskVars
  BY <1>1 DEF queueVars, turnVars
<1>3. \A r \in Rows : answer'[r] = answer[r] \/ (r \in Accepted /\ r \in Answered')
  BY <1>1, ClearedIs
<1>4. op'.rows = {} /\ op'.msgs = {} /\ op'.result = "none"
  BY <1>1, BegunIs
<1> QED BY <1>1, <1>2, <1>3, <1>4, BeginPlaces

\* A send-now, a shutdown and a lease that is lost.
LEMMA HandlersPlaces ==
    ASSUME QueueInv, TurnInv, PlaceInv, Replace \/ Shutdown \/ LoseLease
    PROVE Passes({})
<1>1. CASE Replace
  <2>1. /\ pc = "replace" /\ pending' = Flushed /\ buffer' = <<>>
        /\ UNCHANGED <<running, committed, slots, answer, seen>>
    BY <1>1 DEF Replace, turnVars, historyVars
  <2>2. CASE Claim("replace", FALSE, FALSE)
    <3>1. /\ pc' = "teardown" /\ op'.rows = {} /\ op'.msgs = {} /\ op'.result = "none"
          /\ UNCHANGED taskVars \/ AbortTask
      BY <2>2, ClaimIs
    <3> QED BY <2>1, <3>1, BeginPlaces
  <2>3. CASE pc' = "idle" /\ UNCHANGED <<gate, op, taskVars, report>>
    BY <2>1, <2>3, FlushPlaces DEF taskVars
  <2> QED BY <1>1, <2>2, <2>3 DEF Replace
<1>2. CASE Shutdown
  <2>1. /\ pc = "idle"
        /\ UNCHANGED <<running, committed, pending, buffer, slots, answer, seen>>
    BY <1>2 DEF Shutdown, queueVars, turnVars, deliveryVars, historyVars
  <2>2. CASE Claim("shutdown", FALSE, TRUE)
    <3>1. /\ pc' = "teardown" /\ op'.rows = {} /\ op'.msgs = {} /\ op'.result = "none"
          /\ UNCHANGED taskVars \/ AbortTask
      BY <2>2, ClaimIs
    <3> QED BY <2>1, <3>1, BeginPlaces
  <2>3. CASE pc' = "settleAll" /\ UNCHANGED <<gate, op, taskVars, report>>
    BY <2>1, <2>3, StayPlaces DEF taskVars
  <2> QED BY <1>2, <2>2, <2>3 DEF Shutdown
<1>3. CASE LoseLease
  <2>1. /\ pc = "teardown" /\ pc' \in {"settleAll", "idle"} /\ op' = NoOp
        /\ UNCHANGED <<running, committed, pending, buffer, slots, answer, seen>> /\ UNCHANGED taskVars
    BY <1>3 DEF LoseLease, queueVars, turnVars, deliveryVars, historyVars
  <2>2. op'.rows = {} /\ op'.msgs = {} /\ op'.result = "none"
    BY <2>1, BegunIs
  <2> QED BY <2>1, <2>2, BeginPlaces
<1> QED BY <1>1, <1>2, <1>3

\* The end of a completion's lease.
LEMMA FinishPlaces ==
    ASSUME QueueInv, TurnInv, PlaceInv, FinishCompletion \/ FlushStranded
    PROVE Passes({})
<1>1. CASE FinishCompletion
  <2>1. /\ pc = "complete" /\ pc' = "strand" /\ op' = NoOp /\ running' = NoTurn
        /\ UNCHANGED <<committed, pending, buffer, slots, answer, seen>> /\ UNCHANGED taskVars
    BY <1>1 DEF FinishCompletion, queueVars, deliveryVars, historyVars
  <2>2. op'.rows = {} /\ op'.msgs = {} /\ op'.result = "none"
    BY <2>1, BegunIs
  <2>3. InHandler' = {}
    BY <2>2 DEF InHandler
  <2>4. /\ InQueue' = InQueue /\ InBuffer' = InBuffer /\ DistinctRows(pending') /\ IsInjective(buffer')
        /\ InQueue' \cap InBuffer' = {}
    BY <2>1, PlaceFacts, SamePlaces
  <2>5. /\ InSlots' = InSlots
        /\ \A s \in slots' : \E t \in slots : t.id = s.id /\ (t.phase = "delivered" => s.phase = "delivered")
        /\ \A s, t \in slots' : s.id = t.id => s = t
    BY <2>1, SlotsKept
  <2>6. InQueue' \cap InSlots' = {} /\ InBuffer' \cap InSlots' = {}
    BY <2>4, <2>5, PlaceFacts
  <2>7. op.rows = {} /\ op.msgs = {}
    BY <2>1, HandlerIs
  <2>8. HandlerRows'
    BY <2>1, <2>2 DEF HandlerRows
  <2>9. task.pc = "none" /\ task' = task
    BY <2>1 DEF TurnInv, Closing, Quiet, taskVars
  <2>10. running # NoTurn => running.prompt \notin InQueue'
    BY <2>1, <2>4 DEF PlaceInv, TurnRow, Ending
  <2>11. TaskKept
    BY <2>1 DEF TaskKept
  <2> QED BY <2>1, <2>2, <2>3, <2>4, <2>5, <2>6, <2>7, <2>8, <2>9, <2>10, <2>11, EndPasses
<1>2. CASE FlushStranded
  <2>1. /\ pc = "strand" /\ pending' = Flushed /\ buffer' = <<>> /\ pc' = "start"
        /\ UNCHANGED <<running, committed, task, dying, op, seen, slots, answer>>
    BY <1>2 DEF FlushStranded, turnVars, taskVars, historyVars
  <2> QED BY <2>1, FlushPlaces
<1> QED BY <1>1, <1>2

\* Everything is dropped.
LEMMA DropPlaces ==
    ASSUME QueueInv, TurnInv, PlaceInv, DropActor
    PROVE Passes({})
<1>1. /\ pc = "stopped" /\ pc' = "gone" /\ op' = NoOp /\ pending' = <<>> /\ running' = NoTurn
      /\ task' = NoTask /\ dying' = {} /\ buffer' = <<>> /\ slots' = {}
      /\ answer' = Reply(Rows) /\ seen' = seen
  BY DEF DropActor
<1>2. op'.rows = {} /\ op'.msgs = {} /\ op'.result = "none"
  BY <1>1, BegunIs
<1>3. task'.pc = "none" /\ task'.batch = <<>>
  BY <1>1 DEF NoTask
<1>4. /\ InQueue' = {} /\ InBuffer' = {} /\ InBatch' = {} /\ InSlots' = {} /\ InDying' = {} /\ InHandler' = {}
      /\ DistinctRows(pending') /\ IsInjective(buffer') /\ IsInjective(task'.batch)
  BY <1>1, <1>2, <1>3, EmptyPlaces
<1>5. Distinct' /\ Separate'
  BY <1>1, <1>4 DEF Distinct, Separate, Parted, DyingParted
<1>6. HandlerRows'
  BY <1>1, <1>2 DEF HandlerRows
<1>7. Moved({})
  BY <1>1, <1>2, <1>4 DEF Moved
<1>8. /\ \A r \in Rows : answer'[r] = answer[r] \/ (r \in Rows /\ r \in Accepted /\ r \in Answered')
      /\ \A r \in Rows : r \in Accepted => r \in Answered'
  BY <1>1, PlaceFacts, ReplyIs
<1>9. \A r \in Holding : r \in Answered'
  <2>1. task.pc = "prepare" => running.prompt \in InQueue \cup Answered
    BY DEF PlaceInv, TurnRow
  <2>2. Holding \subseteq Accepted
    BY <2>1, HoldingIs, AnsweredAccepted DEF PlaceInv, PlacedAccepted
  <2> QED BY <1>8, <2>2, AnsweredAccepted
<1>10. Told({})
  BY <1>4, <1>8, <1>9 DEF Told
<1>11. TurnKept
  BY <1>1, <1>3, <1>4 DEF TurnKept
<1> QED BY <1>5, <1>6, <1>7, <1>10, <1>11 DEF Passes

-----------------------------------------------------------------------------
(***************************************************************************)
(* Completion, named cancels and the teardown.                             *)
(***************************************************************************)
\* The slots of a turn that ends: each falls back to the end of the queue or is
\* answered with the turn.
LEMMA Disposed ==
    ASSUME QueueInv, PlaceInv, NEW target, NEW cause, slots' = Remaining(slots, target), slots' = {}
    PROVE /\ IdsOf(Fallbacks(slots, target, cause)) \subseteq PendingIds
          /\ IdsOf(Fallbacks(slots, target, cause)) \cap IdsOf(Completions(slots, target, cause)) = {}
          /\ InSlots = IdsOf(Fallbacks(slots, target, cause)) \cup IdsOf(Completions(slots, target, cause))
          /\ WithFallbacks(pending, target, cause) \in Seq(Entries)
          /\ QueuedRows(WithFallbacks(pending, target, cause)) = InQueue \cup IdsOf(Fallbacks(slots, target, cause))
          /\ DistinctRows(WithFallbacks(pending, target, cause))
          /\ pending # <<>> => /\ WithFallbacks(pending, target, cause) # <<>>
                               /\ WithFallbacks(pending, target, cause)[1] = pending[1]
          /\ InSlots' = {}
<1> DEFINE F == Fallbacks(slots, target, cause)
           C == Completions(slots, target, cause)
           q == WithFallbacks(pending, target, cause)
<1>1. F \subseteq slots /\ C \subseteq slots /\ F \cap C = {} /\ slots = F \cup C /\ \A s \in F : s.phase = "pending"
  BY DEF Fallbacks, Completions, Ended, Remaining
<1>2. /\ pending \in Seq(Entries) /\ Ordered(slots) /\ \A s, t \in slots : s.id = t.id => s = t
      /\ DistinctRows(pending) /\ InQueue = QueuedRows(pending) /\ InQueue \cap InSlots = {}
  BY PlaceFacts
<1>3. /\ q \in Seq(Entries)
      /\ QueuedRows(q) = InQueue \cup IdsOf(F)
      /\ DistinctRows(q)
  BY <1>2, FallbackRows DEF InSlots
<1>4. PICK n \in Seq(Entries) : q = pending \o n
  BY <1>2, FallbacksAppend
<1> HIDE DEF F, C, q
<1>5. pending # <<>> => q # <<>> /\ q[1] = pending[1]
  BY <1>2, <1>4
<1>6. IdsOf(F) \subseteq PendingIds /\ IdsOf(F) \cap IdsOf(C) = {} /\ InSlots = IdsOf(F) \cup IdsOf(C)
  BY <1>1, <1>2 DEF IdsOf, InSlots, PendingIds
<1>7. InSlots' = {}
  BY EmptyPlaces
<1> QED BY <1>3, <1>5, <1>6, <1>7 DEF F, C, q

\* The rows and messages of a cancel are answered.
LEMMA SettlePlaces ==
    ASSUME QueueInv, TurnInv, PlaceInv, Settle
    PROVE Passes({})
<1>1. /\ pc = "settle" /\ pc' \in {"settleAll", "start"} /\ op' = NoOp
      /\ answer' = Reply(op.rows \cup op.msgs)
      /\ running' = IF Leased THEN NoTurn ELSE running
      /\ UNCHANGED <<committed, pending, buffer, slots, seen>> /\ UNCHANGED taskVars
  BY DEF Settle, AfterCancel, deliveryVars
<1>2. op'.rows = {} /\ op'.msgs = {} /\ op'.result = "none"
  BY <1>1, BegunIs
<1>3. InHandler' = {}
  BY <1>2 DEF InHandler
<1>4. /\ InQueue' = InQueue /\ InBuffer' = InBuffer /\ DistinctRows(pending') /\ IsInjective(buffer')
      /\ InQueue' \cap InBuffer' = {}
  BY <1>1, PlaceFacts, SamePlaces
<1>5. /\ InSlots' = InSlots
      /\ \A s \in slots' : \E t \in slots : t.id = s.id /\ (t.phase = "delivered" => s.phase = "delivered")
      /\ \A s, t \in slots' : s.id = t.id => s = t
  BY <1>1, SlotsKept
<1>6. InQueue' \cap InSlots' = {} /\ InBuffer' \cap InSlots' = {}
  BY <1>4, <1>5, PlaceFacts
<1>7. /\ \A r \in Rows : answer'[r] = answer[r] \/ (r \in op.rows \cup op.msgs /\ r \in Accepted /\ r \in Answered')
      /\ \A r \in op.rows \cup op.msgs : r \in Accepted => r \in Answered'
  BY <1>1, PlaceFacts, ReplyIs
<1>8. op.rows \cup op.msgs \subseteq Answered'
  BY <1>7 DEF PlaceInv, PlacedAccepted
<1>9. Answered \subseteq Answered'
  BY <1>7, AnsweredGrows
<1>10. HandlerRows'
  BY <1>1, <1>2 DEF HandlerRows
<1>11. task' = task /\ (Leased => task.pc = "none")
  BY <1>1 DEF TurnInv, Closing, Quiet, taskVars
<1>12. running # NoTurn /\ Leased => running.prompt \notin InQueue'
  BY <1>1, <1>4 DEF PlaceInv, TurnRow, Ending
<1>13. ~Ending'
  BY <1>1 DEF Ending
<1>14. task'.pc # "none" => task.pc # "none" /\ running' = running /\ running.prompt \in InQueue' \cup Answered'
  BY <1>1, <1>4, <1>9, <1>11 DEF PlaceInv, TurnRow
<1>15. TaskKept
  BY <1>1 DEF TaskKept
<1> QED BY <1>1, <1>2, <1>3, <1>4, <1>5, <1>6, <1>7, <1>8, <1>10, <1>11, <1>12, <1>13, <1>14, <1>15, EndPasses

\* A completion.
LEMMA CompletePlaces ==
    ASSUME QueueInv, TurnInv, TurnInv', PlaceInv, Complete
    PROVE Passes({})
<1> DEFINE c == Head(completions)
           target == {Turn(c.prompt, c.epoch)}
           q == WithFallbacks(pending, target, "completion")
           C == IdsOf(Completions(slots, target, "completion"))
           F == IdsOf(Fallbacks(slots, target, "completion"))
<1>1. /\ pc = "idle"
      /\ AtFront /\ running = Turn(c.prompt, c.epoch)
      /\ pending' = Tail(q)
      /\ slots' = Remaining(slots, target)
      /\ answer' = Reply({c.prompt} \cup C)
      /\ op' = Begun("completion", FALSE, running, {})
      /\ pc' = "complete"
      /\ UNCHANGED <<turnVars, taskVars, buffer, seen>>
  BY Zenon DEF Complete, OwnsCompletion
<1>2. running.prompt = c.prompt
  <2>1. Turn(c.prompt, c.epoch).prompt = c.prompt
    BY DEF Turn
  <2> QED BY <1>1, <2>1
<1> HIDE DEF target, c
<1>3. slots' = {} /\ task'.pc = "none"
  BY <1>1 DEF TurnInv, Closing, Quiet
<1>4. /\ F \subseteq PendingIds /\ F \cap C = {} /\ InSlots = F \cup C
      /\ q \in Seq(Entries) /\ QueuedRows(q) = InQueue \cup F /\ DistinctRows(q)
      /\ pending # <<>> => q # <<>> /\ q[1] = pending[1]
      /\ InSlots' = {}
  BY <1>1, <1>3, Disposed
<1> HIDE DEF q, C, F
<1>5. pending # <<>> /\ pending[1].row = running.prompt
  BY <1>1, PlaceFacts, AtFrontLeads DEF Leads
<1>6. q # <<>> /\ q[1].row = c.prompt
  BY <1>2, <1>4, <1>5
<1>7. /\ DistinctRows(pending') /\ InQueue' = (InQueue \cup F) \ {c.prompt}
  <2>1. /\ QueuedRows(q) = {q[1].row} \cup QueuedRows(Tail(q))
        /\ DistinctRows(Tail(q)) /\ q[1].row \notin QueuedRows(Tail(q))
    BY <1>4, <1>6, TailRows
  <2> QED BY <1>1, <1>4, <1>6, <2>1, PlaceFacts
<1>8. /\ op'.rows = {} /\ op'.msgs = {} /\ op'.result = "none" /\ InHandler' = {}
  <2>1. op' = Begun("completion", FALSE, running, {})
    BY <1>1
  <2>2. op'.rows = {} /\ op'.msgs = {} /\ op'.result = "none"
    BY <2>1 DEF Begun
  <2> QED BY <2>2 DEF InHandler
<1>9. /\ \A r \in Rows : answer'[r] = answer[r] \/ (r \in {c.prompt} \cup C /\ r \in Accepted /\ r \in Answered')
      /\ \A r \in {c.prompt} \cup C : r \in Accepted => r \in Answered'
  BY <1>1, PlaceFacts, ReplyIs
<1>10. op.rows = {} /\ op.msgs = {} /\ InHandler = {}
  BY <1>1, HandlerIs
<1>11. UNCHANGED <<running, committed, buffer, seen>> /\ TaskKept
  BY <1>1 DEF turnVars, TaskKept
<1>12. InBuffer' = InBuffer /\ IsInjective(buffer')
  BY <1>11, PlaceFacts, SamePlaces
<1>13. InQueue' \subseteq InQueue \cup InBuffer \cup PendingIds
  BY <1>4, <1>7
<1>14. InQueue' \cap InBuffer' = {}
  BY <1>4, <1>7, <1>12, PlaceFacts
<1>15. \A r \in InQueue \cup InSlots \cup op.rows \cup op.msgs :
          r \in InQueue' \cup InSlots' \cup op'.rows \cup op'.msgs \cup Answered'
  BY <1>4, <1>7, <1>9, <1>10, PlaceFacts
<1>16. HandlerRows'
  BY <1>1, <1>8 DEF HandlerRows
<1> QED BY <1>1, <1>2, <1>3, <1>4, <1>7, <1>8, <1>9, <1>11, <1>12, <1>13, <1>14, <1>15, <1>16, EndPasses

\* A cancel that names its prompt.
LEMMA CancelNamedPlaces ==
    ASSUME QueueInv, TurnInv, TurnInv', PlaceInv, CancelNamed
    PROVE Passes({})
<1>1. PICK p \in Prompts, stop \in BOOLEAN :
        LET target == {Turn(p, report.epoch)}
        IN /\ pc = "idle"
           /\ buffer' = <<>>
           /\ answer' = Reply(Range(buffer))
           /\ \/ /\ pc' = "start"
                 /\ UNCHANGED <<pending, running, rewindable, slots, taskVars, report, op>>
              \/ /\ FrontRow = p
                 /\ IF running.prompt = p
                    THEN /\ AbortTask /\ report' = ReleaseAborted(report.epoch)
                         /\ running' = NoTurn
                    ELSE UNCHANGED <<taskVars, report, running>>
                 /\ rewindable' = FALSE
                 /\ pending' = Tail(WithFallbacks(pending, target, "rewind"))
                 /\ slots' = Remaining(slots, target)
                 /\ op' = [Begun("named", FALSE, NoTurn, {p}) EXCEPT
                             !.result = "rewound",
                             !.msgs = IdsOf(Completions(slots, target, "rewind"))]
                 /\ pc' = "settle"
              \/ /\ FrontRow = p
                 /\ op' = Begun("named", stop, NoTurn, {p})
                 /\ pc' = "teardown"
                 /\ UNCHANGED <<pending, running, rewindable, slots, taskVars, report>>
           /\ UNCHANGED <<holds, hooked, pin, committed, gate, completions, kicks, seen>>
  BY Zenon DEF CancelNamed
<1>2. \A r \in Rows : answer'[r] = answer[r] \/ (r \in Accepted /\ r \in Answered')
  BY <1>1, ClearedIs
<1>3. UNCHANGED <<committed, seen>> /\ p \in Rows
  BY <1>1 DEF Rows
<1>4. FrontRow = p => pending # <<>> /\ pending[1].row = p /\ p \in InQueue
  <2>1. FrontRow = p => pending # <<>> /\ pending[1].row = p
    BY <1>3, ConstantsAssumption DEF FrontRow
  <2>2. pending # <<>> => pending[1].row \in QueuedRows(pending)
    BY PlaceFacts, TailRows
  <2> QED BY <2>1, <2>2, PlaceFacts
<1>5. CASE pc' = "start" /\ UNCHANGED <<pending, running, rewindable, slots, taskVars, report, op>>
  <2>1. InQueue' = InQueue /\ DistinctRows(pending')
    BY <1>5, PlaceFacts, SamePlaces
  <2> QED BY <1>1, <1>2, <1>3, <1>5, <2>1, WithdrawPlaces DEF taskVars
<1>6. CASE /\ FrontRow = p
           /\ op' = Begun("named", stop, NoTurn, {p})
           /\ pc' = "teardown"
           /\ UNCHANGED <<pending, running, rewindable, slots, taskVars, report>>
  <2>1. op'.rows = {p} /\ op'.msgs = {} /\ op'.result = "none"
    BY <1>6, BegunIs
  <2> QED BY <1>1, <1>2, <1>3, <1>4, <1>6, <2>1, BeginPlaces
<1> DEFINE target == {Turn(p, report.epoch)}
           q == WithFallbacks(pending, target, "rewind")
           C == IdsOf(Completions(slots, target, "rewind"))
           F == IdsOf(Fallbacks(slots, target, "rewind"))
<1>7. CASE /\ FrontRow = p
           /\ IF running.prompt = p
              THEN /\ AbortTask /\ report' = ReleaseAborted(report.epoch)
                   /\ running' = NoTurn
              ELSE UNCHANGED <<taskVars, report, running>>
           /\ rewindable' = FALSE
           /\ pending' = Tail(q)
           /\ slots' = Remaining(slots, target)
           /\ op' = [Begun("named", FALSE, NoTurn, {p}) EXCEPT !.result = "rewound", !.msgs = C]
           /\ pc' = "settle"
  <2>1. running # NoTurn => running.prompt = p
    <3>1. running # NoTurn => Leads(pending)
      BY <1>1 DEF QueueInv, RunningLeads
    <3> QED BY <1>4, <1>7, <3>1 DEF Leads
  <2>2. running' = NoTurn /\ TaskKept
    BY <1>7, <2>1 DEF TaskKept
  <2>3. slots' = {} /\ task'.pc = "none"
    BY <2>2 DEF TurnInv, SlotsOfRunning, TaskOfRunning
  <2>4. op'.rows = {p} /\ op'.msgs = C /\ op'.result = "rewound"
    BY <1>7 DEF Begun
  <2> HIDE DEF target
  <2>5. /\ F \subseteq PendingIds /\ F \cap C = {} /\ InSlots = F \cup C
        /\ q \in Seq(Entries) /\ QueuedRows(q) = InQueue \cup F /\ DistinctRows(q)
        /\ pending # <<>> => q # <<>> /\ q[1] = pending[1]
        /\ InSlots' = {}
    BY <1>7, <2>3, Disposed
  <2> HIDE DEF q, C, F
  <2>6. /\ DistinctRows(pending') /\ InQueue' = (InQueue \cup F) \ {p}
    <3>1. q # <<>> /\ q[1].row = p
      BY <1>4, <1>7, <2>5
    <3>2. /\ QueuedRows(q) = {q[1].row} \cup QueuedRows(Tail(q))
          /\ DistinctRows(Tail(q)) /\ q[1].row \notin QueuedRows(Tail(q))
      BY <2>5, <3>1, TailRows
    <3> QED BY <1>7, <2>5, <3>1, <3>2, PlaceFacts
  <2>7. InHandler' = {p} \cup C
    BY <2>4 DEF InHandler
  <2>8. InBuffer' = {} /\ IsInjective(buffer')
    BY <1>1, EmptyPlaces
  <2>9. InQueue' \cap InHandler' = {}
    BY <2>5, <2>6, <2>7, PlaceFacts
  <2>10. op.rows = {} /\ op.msgs = {} /\ InHandler = {}
    BY <1>1, HandlerIs
  <2>11. \A r \in InQueue \cup InSlots \cup op.rows \cup op.msgs :
          r \in InQueue' \cup InSlots' \cup op'.rows \cup op'.msgs \cup Answered'
    BY <2>4, <2>5, <2>6, <2>10
  <2>12. HandlerRows'
    BY <1>7, <2>4 DEF HandlerRows
  <2>13. running # NoTurn => running.prompt \notin InQueue'
    BY <2>1, <2>6
  <2>14. InQueue' \subseteq InQueue \cup InBuffer \cup PendingIds
    BY <2>5, <2>6
  <2>15. /\ op'.rows \cup op'.msgs \subseteq InQueue \cup InSlots \cup op.rows \cup op.msgs
         /\ InHandler' \subseteq InQueue \cup InSlots \cup InHandler
    BY <1>4, <1>7, <2>4, <2>5, <2>7
  <2> QED BY <1>2, <1>3, <2>2, <2>3, <2>5, <2>6, <2>8, <2>9, <2>11, <2>12, <2>13, <2>14, <2>15, EndPasses
<1> QED BY <1>1, <1>5, <1>6, <1>7

\* The teardown.
LEMMA TeardownPlaces ==
    ASSUME QueueInv, TurnInv, TurnInv', PlaceInv, Teardown
    PROVE Passes({})
<1> DEFINE hard == op.kind \in {"hard", "shutdown"}
           pops == op.kind = "legacy" /\ rewindable /\ Poppable(FrontRow)
           live == running # NoTurn
           cause == IF hard THEN "hardTeardown" ELSE IF pops THEN "rewind" ELSE "softCancel"
           target == IF hard \/ pops \/ ~live THEN AllBindings(slots) ELSE {running}
           queue == WithFallbacks(pending, target, cause)
           front == IF queue = <<>> THEN {} ELSE {queue[1].row}
           wakes == IF op.stop /\ ~pops /\ ~hard THEN (QueuedRows(queue) \cap Wakes) \ front ELSE {}
           rows == IF hard THEN QueuedRows(queue) ELSE front
           C == IdsOf(Completions(slots, target, cause))
           F == IdsOf(Fallbacks(slots, target, cause))
           result == IF pops THEN "rewound" ELSE "cancelled"
<1>1. /\ pc = "teardown"
      /\ IF live THEN AbortTask ELSE UNCHANGED taskVars
      /\ pending' = IF hard THEN <<>> ELSE Without(queue, front \cup wakes)
      /\ slots' = Remaining(slots, target)
      /\ answer' = Reply(wakes)
      /\ running' = IF Leased THEN running ELSE NoTurn
      /\ op' = [op EXCEPT !.torn = running, !.rows = rows, !.msgs = C, !.result = result]
      /\ pc' = "settle"
      /\ UNCHANGED <<committed, buffer, seen>>
  BY Zenon DEF Teardown
<1>2. TaskKept /\ task'.pc = "none"
  <2>1. CASE live
    <3>1. AbortTask
      BY <1>1, <2>1
    <3> QED BY <3>1 DEF TaskKept, AbortTask, NoTask
  <2>2. CASE ~live
    BY <1>1, <2>2 DEF TaskKept, taskVars, TurnInv, TaskOfRunning
  <2> QED BY <2>1, <2>2
<1>3. slots' = {} /\ slots' = Remaining(slots, target)
  <2>1. \A s \in slots : s.binding \in target
    BY DEF TurnInv, SlotsOfRunning, SlotsBoundToRunning, AllBindings
  <2> QED BY <1>1, <2>1 DEF Remaining, Ended
<1>4. result # "none"
  OBVIOUS
<1> HIDE DEF pops, target, cause, result
<1>5. /\ F \subseteq PendingIds /\ F \cap C = {} /\ InSlots = F \cup C
      /\ queue \in Seq(Entries) /\ QueuedRows(queue) = InQueue \cup F /\ DistinctRows(queue)
      /\ pending # <<>> => queue # <<>> /\ queue[1] = pending[1]
      /\ InSlots' = {}
  BY <1>3, Disposed
<1> HIDE DEF queue, C, F
<1>6. front \subseteq QueuedRows(queue)
  BY <1>5, TailRows
<1>7. running # NoTurn => running.prompt \in front
  <2>1. running # NoTurn => Leads(pending)
    BY <1>1 DEF QueueInv, RunningLeads
  <2> QED BY <1>5, <2>1 DEF Leads
<1>8. wakes \subseteq QueuedRows(queue) /\ wakes \cap front = {} /\ (hard => wakes = {})
  OBVIOUS
<1> HIDE DEF front, wakes
<1>9. op \in Ops
  BY DEF QueueInv, Typed, LoopTyped
<1>10. rows \in SUBSET QueuedRows(queue) /\ (hard \/ rows = front)
  BY <1>6
<1>11. op'.rows = rows /\ op'.msgs = C /\ op'.result = result /\ op'.kind = op.kind
  <2> HIDE DEF rows
  <2> QED BY <1>1, <1>9 DEF Ops
<1>12. /\ DistinctRows(pending') /\ InQueue' \subseteq QueuedRows(queue)
       /\ InQueue' \cap rows = {} /\ InQueue' \cap front = {}
       /\ \A r \in QueuedRows(queue) : r \in InQueue' \cup rows \cup wakes
  <2>1. CASE hard
    <3>1. InQueue' = {} /\ DistinctRows(pending')
      BY <1>1, <2>1, EmptyPlaces
    <3> QED BY <2>1, <3>1
  <2>2. CASE ~hard
    <3> DEFINE out == front \cup wakes
    <3>1. pending' = Without(queue, out) /\ rows = front
      BY <1>1, <2>2
    <3> HIDE DEF out
    <3>2. InQueue' = QueuedRows(queue) \ out /\ DistinctRows(pending')
      BY <1>5, <3>1, WithoutRowsIs, PlaceFacts
    <3> QED BY <3>1, <3>2 DEF out
  <2> QED BY <2>1, <2>2
<1>13. /\ \A r \in Rows : answer'[r] = answer[r] \/ (r \in wakes /\ r \in Accepted /\ r \in Answered')
       /\ \A r \in wakes : r \in Accepted => r \in Answered'
  BY <1>1, PlaceFacts, ReplyIs
<1>14. QueuedRows(queue) \subseteq Accepted
  BY <1>5, PlaceFacts
<1>15. op.msgs = {} /\ op.rows \subseteq InQueue \cup Answered /\ InHandler = {}
  BY <1>1, HandlerIs
<1> HIDE DEF rows
<1>16. InHandler' = rows \cup C
  BY <1>4, <1>11 DEF InHandler
<1>17. InBuffer' = InBuffer /\ IsInjective(buffer')
  BY <1>1, PlaceFacts, SamePlaces
<1>18. Answered \subseteq Answered'
  BY <1>13, AnsweredGrows
<1>19. \A r \in InQueue \cup InSlots \cup op.rows \cup op.msgs :
          r \in InQueue' \cup InSlots' \cup op'.rows \cup op'.msgs \cup Answered'
  <2>1. \A r \in QueuedRows(queue) : r \in InQueue' \cup op'.rows \cup Answered'
    BY <1>8, <1>11, <1>12, <1>13, <1>14
  <2> QED BY <1>5, <1>11, <1>15, <1>18, <2>1
<1>20. /\ InQueue' \cap InBuffer' = {} /\ InQueue' \cap InHandler' = {} /\ InBuffer' \cap InHandler' = {}
       /\ InQueue' \subseteq InQueue \cup InBuffer \cup PendingIds
       /\ op'.rows \cup op'.msgs \subseteq InQueue \cup InSlots \cup op.rows \cup op.msgs
       /\ InHandler' \subseteq InQueue \cup InSlots \cup InHandler
  <2>1. InQueue \cap InBuffer = {} /\ InQueue \cap InSlots = {} /\ InBuffer \cap InSlots = {}
    BY PlaceFacts
  <2> QED BY <1>5, <1>10, <1>11, <1>12, <1>16, <1>17, <2>1
<1>21. HandlerRows'
  BY <1>1, <1>4, <1>11 DEF HandlerRows
<1>22. running # NoTurn => running.prompt \notin InQueue'
  BY <1>7, <1>12
<1>23. /\ running' = running \/ running' = NoTurn
       /\ committed' = committed /\ seen' = seen
  BY <1>1
<1> QED BY <1>2, <1>3, <1>5, <1>12, <1>13, <1>17, <1>19, <1>20, <1>21, <1>22, <1>23, EndPasses

-----------------------------------------------------------------------------
(***************************************************************************)
(* Aborted futures.                                                        *)
(***************************************************************************)
\* An aborted future is dropped: its notes are the first in the buffer again.
LEMMA DropAbortedPlaces ==
    ASSUME QueueInv, TurnInv, PlaceInv, DropAborted
    PROVE Passes({})
<1>1. PICK d \in dying :
        /\ dying' = dying \ {d}
        /\ buffer' = d.batch \o buffer
        /\ UNCHANGED <<queueVars, running, committed, task, slots, loopVars, historyVars>>
  BY DEF DropAborted
<1>2. /\ UNCHANGED <<running, committed, pending, task, slots, op, pc, answer, seen>>
  BY <1>1 DEF queueVars, loopVars, historyVars
<1>3. d.batch \in Seq(Rows) /\ IsInjective(d.batch) /\ Range(d.batch) \subseteq InDying
  <2>1. d \in [prompt : Rows \cup {NoRow}, batch : Seq(Rows)]
    BY DEF QueueInv, Typed, TaskTyped
  <2> QED BY <2>1 DEF PlaceInv, Distinct, InDying
<1>4. InDying' \subseteq InDying /\ InDying' \cap Range(d.batch) = {} /\ InDying \subseteq InDying' \cup Range(d.batch)
  BY <1>1 DEF InDying, PlaceInv, Separate, DyingParted
<1>5. Parted(InQueue, InBuffer, InBatch, InSlots, InHandler, InDying)
  BY DEF PlaceInv, Separate
<1>6. Range(d.batch) \cap InBuffer = {}
  BY <1>3, <1>5 DEF Parted
<1>7. InBuffer' = Range(d.batch) \cup InBuffer /\ IsInjective(buffer')
  BY <1>1, <1>3, <1>6, PlaceFacts, JoinRange
<1>8. InQueue' = InQueue /\ InBatch' = InBatch /\ InSlots' = InSlots /\ InHandler' = InHandler
      /\ Answered' = Answered /\ Accepted' = Accepted
  BY <1>2, SamePlaces
<1>9. Separate'
  <2>1. Parted(InQueue', InBuffer', InBatch', InSlots', InHandler', InDying')
    BY <1>3, <1>4, <1>5, <1>7, <1>8 DEF Parted
  <2>2. DyingParted'
    BY <1>1 DEF PlaceInv, Separate, DyingParted
  <2> QED BY <2>1, <2>2 DEF Separate, Parted
<1>10. Distinct'
  BY <1>1, <1>2, <1>7 DEF PlaceInv, Distinct
<1>11. HandlerRows'
  BY <1>2, <1>8 DEF PlaceInv, HandlerRows
<1>12. Moved({})
  <2>1. InBuffer' \subseteq (InQueue \ {running.prompt}) \cup InBuffer \cup InBatch \cup InDying \cup {}
    BY <1>3, <1>7
  <2> QED BY <1>2, <1>4, <1>8, <2>1 DEF Moved
<1>13. Told({})
  <2>1. InBuffer' \cup InBatch' \subseteq Answered'
    BY <1>3, <1>7, <1>8 DEF PlaceInv, Spoken
  <2>2. \A r \in Holding : r \in Holding'
    BY <1>2, <1>4, <1>7, <1>8, HoldingIs, HoldingNext
  <2> QED BY <1>2, <2>1, <2>2 DEF Told
<1>14. TurnKept
  BY <1>2, <1>8 DEF TurnKept, PlaceInv, TurnRow, Ending, Leased
<1> QED BY <1>9, <1>10, <1>11, <1>12, <1>13, <1>14 DEF Passes

\* The notes of a task whose chat state is gone go back.
LEMMA RestorePlaces ==
    ASSUME QueueInv, TurnInv, PlaceInv, RestoreNotes
    PROVE Passes({})
<1>1. /\ buffer' = task.batch \o buffer /\ task.pc = "notes" /\ task' = [NoTask EXCEPT !.pc = "run"]
      /\ UNCHANGED <<running, committed, pending, dying, slots, op, pc, answer, seen>>
  BY DEF RestoreNotes, TaskStep, queueVars, loopVars, historyVars, At
<1>2. task'.batch = <<>> /\ task'.pc = "run"
  BY <1>1 DEF NoTask
<1>3. task.batch \in Seq(Rows) /\ IsInjective(task.batch) /\ Range(task.batch) = InBatch
  <2>1. task \in [pc : TaskPlaces, batch : Seq(Rows)]
    BY DEF QueueInv, Typed, TaskTyped
  <2> QED BY <2>1 DEF PlaceInv, Distinct, InBatch
<1>4. Parted(InQueue, InBuffer, InBatch, InSlots, InHandler, InDying)
  BY DEF PlaceInv, Separate
<1>5. InBuffer' = InBatch \cup InBuffer /\ IsInjective(buffer')
  <2>1. Range(task.batch) \cap Range(buffer) = {}
    BY <1>3, <1>4, PlaceFacts DEF Parted
  <2> QED BY <1>1, <1>3, <2>1, PlaceFacts, JoinRange
<1>6. InQueue' = InQueue /\ InDying' = InDying /\ InSlots' = InSlots /\ InHandler' = InHandler
      /\ Answered' = Answered /\ Accepted' = Accepted
  BY <1>1, SamePlaces
<1>7. InBatch' = {} /\ IsInjective(task'.batch)
  BY <1>2, EmptyPlaces
<1>8. Separate'
  <2>1. Parted(InQueue', InBuffer', InBatch', InSlots', InHandler', InDying')
    BY <1>4, <1>5, <1>6, <1>7 DEF Parted
  <2>2. DyingParted'
    BY <1>1 DEF PlaceInv, Separate, DyingParted
  <2> QED BY <2>1, <2>2 DEF Separate, Parted
<1>9. Distinct'
  BY <1>1, <1>5, <1>7 DEF PlaceInv, Distinct
<1>10. HandlerRows'
  BY <1>1, <1>6 DEF PlaceInv, HandlerRows
<1>11. Moved({})
  <2>1. InBuffer' \subseteq (InQueue \ {running.prompt}) \cup InBuffer \cup InBatch \cup InDying \cup {}
    BY <1>5
  <2> QED BY <1>1, <1>6, <1>7, <2>1 DEF Moved
<1>12. Told({})
  <2>1. InBuffer' \cup InBatch' \subseteq Answered'
    BY <1>5, <1>6, <1>7 DEF PlaceInv, Spoken
  <2>2. \A r \in Holding : r \in Holding'
    BY <1>1, <1>2, <1>5, <1>6, <1>7, HoldingIs, HoldingNext
  <2> QED BY <1>1, <2>1, <2>2 DEF Told
<1>13. TurnKept
  BY <1>1, <1>2, <1>6 DEF TurnKept, PlaceInv, TurnRow, Ending, Leased
<1> QED BY <1>8, <1>9, <1>10, <1>11, <1>12, <1>13 DEF Passes

\* The task drains the buffer, and queued rows with it.
LEMMA DrainPlaces ==
    ASSUME QueueInv, TurnInv, PlaceInv, DrainNotes
    PROVE Passes({})
<1>1. PICK k \in 0..(IF "steer" \in Features THEN Len(Promoted) ELSE 0) :
         /\ task' = [pc |-> "notes", batch |-> buffer \o SubSeq(Promoted, 1, k)]
         /\ pending' = Without(pending, Range(SubSeq(Promoted, 1, k)))
         /\ answer' = Merge(Range(SubSeq(Promoted, 1, k)))
  BY Zenon DEF DrainNotes
<1> DEFINE rows == SubSeq(Promoted, 1, k)
<1>2. /\ task.pc = "run" /\ buffer' = <<>>
      /\ UNCHANGED <<running, committed, dying, slots, op, pc, seen>>
  BY DEF DrainNotes, TaskStep, loopVars, At
<1>3. /\ Promoted \in Seq(Rows) /\ IsInjective(Promoted)
      /\ Range(Promoted) \subseteq InQueue \ {running.prompt}
  BY PlaceFacts, PromotedRows
<1>4. k \in 0..Len(Promoted)
  BY <1>3
<1>5. /\ rows \in Seq(Rows) /\ IsInjective(rows)
      /\ Range(rows) \subseteq InQueue \ {running.prompt}
  BY <1>3, <1>4, PrefixRange
<1>6. task'.pc = "notes" /\ task'.batch = buffer \o rows
  BY <1>1
<1>7. pending' = Without(pending, Range(rows)) /\ answer' = Merge(Range(rows))
  BY <1>1
<1> HIDE DEF rows
<1>8. Parted(InQueue, InBuffer, InBatch, InSlots, InHandler, InDying)
  BY DEF PlaceInv, Separate
<1>9. InBatch' = InBuffer \cup Range(rows) /\ IsInjective(task'.batch)
  <2>1. Range(buffer) \cap Range(rows) = {}
    BY <1>5, PlaceFacts
  <2>2. /\ Range(buffer \o rows) = Range(buffer) \cup Range(rows)
        /\ IsInjective(buffer \o rows)
    BY <1>5, <2>1, PlaceFacts, JoinRange
  <2> QED BY <1>6, <2>2, PlaceFacts DEF InBatch
<1>10. InQueue' = InQueue \ Range(rows) /\ DistinctRows(pending')
  BY <1>7, PlaceFacts, WithoutRowsIs
<1>11. InBuffer' = {} /\ IsInjective(buffer')
  BY <1>2, EmptyPlaces
<1>12. InDying' = InDying /\ InSlots' = InSlots /\ InHandler' = InHandler
  BY <1>2, SamePlaces
<1>13. /\ \A r \in Rows : answer'[r] = answer[r] \/ (r \in Accepted /\ r \in Answered')
       /\ \A r \in Range(rows) : r \in Answered'
  <2>1. \A r \in Range(rows) : r \in Rows /\ r \in Accepted
    BY <1>5, PlaceFacts
  <2>2. \A r \in Rows : answer'[r] = IF r \in Range(rows) THEN "merged" ELSE answer[r]
    BY <1>7 DEF Merge
  <2> QED BY <2>1, <2>2, AnsweredAccepted
<1>14. Answered \subseteq Answered'
  BY <1>13, AnsweredGrows
<1>15. Separate'
  <2>1. Parted(InQueue', InBuffer', InBatch', InSlots', InHandler', InDying')
    BY <1>5, <1>8, <1>9, <1>10, <1>11, <1>12 DEF Parted
  <2>2. DyingParted'
    BY <1>2 DEF PlaceInv, Separate, DyingParted
  <2> QED BY <2>1, <2>2 DEF Separate, Parted
<1>16. Distinct'
  BY <1>2, <1>9, <1>10, <1>11 DEF PlaceInv, Distinct
<1>17. HandlerRows'
  <2>1. InQueue \cup Answered \subseteq InQueue' \cup Answered'
    BY <1>10, <1>13, <1>14
  <2> QED BY <1>2, <2>1 DEF PlaceInv, HandlerRows
<1>18. Moved({})
  <2>1. InQueue' \subseteq InQueue /\ InBatch' \subseteq InBatch \cup InBuffer \cup (InQueue \ {running.prompt})
    BY <1>5, <1>9, <1>10
  <2> QED BY <1>2, <1>11, <1>12, <2>1 DEF Moved
<1>19. Told({})
  <2>1. InBuffer' \cup InBatch' \subseteq Answered'
    BY <1>9, <1>11, <1>13, <1>14 DEF PlaceInv, Spoken
  <2>2. InBatch \subseteq Answered'
    BY <1>14 DEF PlaceInv, Spoken
  <2>3. \A r \in Holding : r \in Holding' \/ r \in Answered'
    BY <1>2, <1>9, <1>10, <1>12, <2>2, HoldingIs, HoldingNext
  <2> QED BY <1>13, <2>1, <2>3 DEF Told
<1>20. TurnKept
  <2>1. running.prompt \in InQueue' \cup Answered'
    BY <1>2, <1>5, <1>10, <1>14 DEF PlaceInv, TurnRow
  <2>2. running' # NoTurn /\ Ending' => running'.prompt \notin InQueue'
    BY <1>2, <1>10 DEF PlaceInv, TurnRow, Ending, Leased
  <2> QED BY <1>2, <1>6, <2>1, <2>2 DEF TurnKept
<1> QED BY <1>15, <1>16, <1>17, <1>18, <1>19, <1>20 DEF Passes

-----------------------------------------------------------------------------
(***************************************************************************)
(* Steps that show rows to the model.                                      *)
(***************************************************************************)
\* A step of the task that shows rows which waited, and does nothing else with
\* the places than to let go of its batch.
LEMMA ShowsKeeps ==
    ASSUME QueueInv, TurnInv, PlaceInv, NEW X, seen' = Shown(X), X \subseteq Holding \cap Accepted,
           \A r \in X : seen[r] = 0,
           UNCHANGED <<running, pending, buffer, dying, op, pc>>, task.pc # "none", task'.batch = <<>>,
           \A r \in Rows : answer'[r] = answer[r] \/ (r \in Accepted /\ r \in Answered'),
           InSlots' = InSlots, \A s, t \in slots' : s.id = t.id => s = t,
           \A s \in slots' : s.phase # "delivered" => s.id \notin X /\ \E t \in slots : t.id = s.id /\ t.phase # "delivered",
           X \cap (InBuffer \cup InDying) = {}, committed => committed',
           \A r \in X \cap InQueue : r = running.prompt /\ committed',
           task.pc = "prepare" /\ ~committed => running.prompt \in X \/ (task'.pc = "prepare" /\ ~committed'),
           task'.pc = "prepare" /\ ~committed' => task.pc = "prepare" /\ ~committed /\ running.prompt \notin X
    PROVE PlaceInv' /\ LedgerStep
<1>1. /\ answer \in [Rows -> Answers] /\ seen \in [Rows -> Nat] /\ Accepted \subseteq Rows
  BY AnsweredAccepted DEF QueueInv, Typed, HistoryTyped
<1>2. \A r \in Rows : seen'[r] = IF r \in X THEN 1 ELSE seen[r]
  BY <1>1 DEF Shown
<1>3. InQueue' = InQueue /\ InBuffer' = InBuffer /\ InDying' = InDying /\ InHandler' = InHandler
      /\ InBatch' = {} /\ IsInjective(task'.batch)
  BY SamePlaces, EmptyPlaces
<1>4. Answered \subseteq Answered'
  BY AnsweredGrows
<1>5. Accepted' = Accepted
  <2>1. \A r \in Rows : r \in Accepted' <=> r \in Accepted
    BY AnsweredAccepted
  <2> QED BY <2>1, AnsweredAccepted
<1>6. Distinct'
  BY <1>3 DEF PlaceInv, Distinct
<1>7. Separate'
  <2>1. Parted(InQueue', InBuffer', InBatch', InSlots', InHandler', InDying')
    BY <1>3 DEF PlaceInv, Separate, Parted
  <2>2. DyingParted'
    BY DEF PlaceInv, Separate, DyingParted
  <2> QED BY <2>1, <2>2 DEF Separate, Parted
<1>8. PlacedAccepted'
  BY <1>3, <1>5 DEF PlaceInv, PlacedAccepted
<1>9. TurnRow'
  <2>1. Ending' = Ending
    BY DEF Ending, Leased
  <2> QED BY <1>3, <1>4, <2>1 DEF PlaceInv, TurnRow
<1>10. Spoken'
  BY <1>3, <1>4 DEF PlaceInv, Spoken
<1>11. HandlerRows'
  BY <1>3, <1>4 DEF PlaceInv, HandlerRows
<1>12. running # NoTurn
  BY DEF TurnInv, TaskOfRunning
<1>13. Unseen'
  <2>1. \A r \in Rows : seen'[r] \in {0, 1}
    BY <1>2 DEF PlaceInv, Unseen
  <2>2. \A r \in Rows : r \notin Accepted' \/ r \in InBuffer' \cup InBatch' \cup InDying' => seen'[r] = 0
    BY <1>2, <1>3, <1>5 DEF PlaceInv, Unseen
  <2>3. \A s \in slots' : s.id \in Rows
    BY <1>5, <1>8, AnsweredAccepted DEF PlacedAccepted, InSlots, IdsOf
  <2>4. \A s \in slots' : s.phase # "delivered" => seen'[s.id] = 0
    BY <1>2, <2>3 DEF PlaceInv, Unseen
  <2>5. \A r \in InQueue : r \in Rows
    BY <1>1 DEF PlaceInv, PlacedAccepted
  <2>6. \A r \in InQueue' : seen'[r] # 0 => running' # NoTurn /\ committed' /\ r = running'.prompt
    BY <1>2, <1>3, <1>12, <2>5 DEF PlaceInv, Unseen
  <2>7. running.prompt \in Rows
    BY <1>1, <1>12 DEF PlaceInv, PlacedAccepted
  <2>8. task'.pc = "prepare" /\ ~committed' => seen'[running'.prompt] = 0
    BY <1>2, <2>7 DEF PlaceInv, Unseen
  <2> QED BY <2>1, <2>2, <2>4, <2>6, <2>8 DEF Unseen
<1>14. LedgerStep
  <2>1. \A r \in Holding : r \in Holding' \/ r \in X \/ r \in Answered'
    BY <1>3, <1>4, HoldingIs, HoldingNext DEF PlaceInv, Spoken
  <2>2. \A r \in Holding' : r \in Holding
    BY <1>3, HoldingIs, HoldingNext
  <2>3. \A r \in Rows : seen[r] \in {0, 1} /\ (r \notin Accepted => seen[r] = 0)
    BY DEF PlaceInv, Unseen
  <2>4. \A r \in Accepted : seen[r] = 1 => seen'[r] = 1
    BY <1>1, <1>2
  <2>5. \A r \in Accepted : seen[r] = 0 /\ r \in Holding =>
         seen'[r] = 1 \/ (seen'[r] = 0 /\ (r \in Holding' \/ (r \in Prompts \cup Messages => r \in Answered')))
    BY <1>1, <1>2, <2>1
  <2>6. \A r \in Accepted : seen[r] = 0 /\ r \notin Holding => seen'[r] = 0 /\ r \notin Holding'
    BY <1>1, <1>2, <2>2
  <2> QED BY <1>4, <1>5, <2>4, <2>5, <2>6 DEF LedgerStep
<1> QED BY <1>6, <1>7, <1>8, <1>9, <1>10, <1>11, <1>13, <1>14 DEF PlaceInv

\* The rows of a batch are shown for the first time.
LEMMA BatchUnseen ==
    ASSUME PlaceInv
    PROVE /\ InBatch \subseteq Holding \cap Accepted /\ InBatch \subseteq Answered
          /\ \A r \in InBatch : seen[r] = 0
          /\ InBatch \cap (InBuffer \cup InDying) = {} /\ InBatch \cap InQueue = {} /\ InBatch \cap InSlots = {}
<1>1. InBatch \subseteq Holding /\ InBatch \subseteq Accepted /\ InBatch \subseteq Answered
  BY HoldingIs DEF PlaceInv, PlacedAccepted, Spoken
<1>2. \A r \in InBatch : seen[r] = 0
  BY <1>1, AnsweredAccepted DEF PlaceInv, Unseen
<1>3. InBatch \cap (InBuffer \cup InDying) = {} /\ InBatch \cap InQueue = {} /\ InBatch \cap InSlots = {}
  BY DEF PlaceInv, Separate, Parted
<1> QED BY <1>1, <1>2, <1>3

\* The message of the turn is shown, with those joined to it.
LEMMA CommitKeeps ==
    ASSUME QueueInv, TurnInv, PlaceInv, CommitMessage
    PROVE PlaceInv' /\ LedgerStep
<1> DEFINE X == {running.prompt} \cup InBatch
<1>1. /\ task.pc = "prepare" /\ ~committed /\ committed' /\ task' = [task EXCEPT !.batch = <<>>]
      /\ seen' = Shown({running.prompt} \cup Range(task.batch))
      /\ UNCHANGED <<running, pending, buffer, slots, dying, op, pc, answer>>
  BY DEF CommitMessage, TaskStep, deliveryVars, loopVars, At
<1>2. task'.batch = <<>> /\ task'.pc = "prepare"
  <2>1. task \in [pc : TaskPlaces, batch : Seq(Rows)]
    BY DEF QueueInv, Typed, TaskTyped
  <2> QED BY <1>1, <2>1
<1>3. seen' = Shown(X)
  BY <1>1 DEF InBatch
<1>4. running # NoTurn /\ running.prompt \in Accepted
  BY <1>1 DEF TurnInv, TaskOfRunning, PlaceInv, PlacedAccepted
<1>5. running.prompt \in Holding /\ seen[running.prompt] = 0
  BY <1>1, HoldingIs DEF PlaceInv, Unseen
<1>6. running.prompt \notin InBuffer \cup InDying \cup InSlots
  BY <1>4 DEF PlaceInv, TurnRow
<1>7. /\ X \subseteq Holding \cap Accepted /\ (\A r \in X : seen[r] = 0)
      /\ X \cap (InBuffer \cup InDying) = {} /\ X \cap InSlots = {} /\ \A r \in X \cap InQueue : r = running.prompt
  BY <1>4, <1>5, <1>6, BatchUnseen
<1>8. /\ \A s, t \in slots' : s.id = t.id => s = t
      /\ InSlots' = InSlots
  BY <1>1, SlotsKept
<1>9. \A s \in slots' : s.phase # "delivered" => s.id \notin X /\ \E t \in slots : t.id = s.id /\ t.phase # "delivered"
  BY <1>1, <1>7 DEF InSlots, IdsOf
<1>10. running.prompt \in X
  OBVIOUS
<1> HIDE DEF X
<1> QED BY <1>1, <1>2, <1>3, <1>7, <1>8, <1>9, <1>10, ShowsKeeps

\* The notes are shown.
LEMMA SubmitKeeps ==
    ASSUME QueueInv, TurnInv, PlaceInv, SubmitNotes
    PROVE PlaceInv' /\ LedgerStep
<1>1. /\ task.pc = "notes" /\ task' = [NoTask EXCEPT !.pc = "run"]
      /\ seen' = Shown(InBatch) /\ answer' = Reply(InBatch)
      /\ UNCHANGED <<running, committed, pending, buffer, slots, dying, op, pc>>
  BY DEF SubmitNotes, TaskStep, queueVars, deliveryVars, loopVars, At, InBatch
<1>2. task'.batch = <<>> /\ task'.pc = "run"
  BY <1>1 DEF NoTask
<1>3. \A r \in Rows : answer'[r] = answer[r] \/ (r \in Accepted /\ r \in Answered')
  BY <1>1, ClearedIs
<1>4. /\ \A s, t \in slots' : s.id = t.id => s = t
      /\ InSlots' = InSlots
  BY <1>1, SlotsKept
<1>5. \A s \in slots' : s.phase # "delivered" => s.id \notin InBatch /\ \E t \in slots : t.id = s.id /\ t.phase # "delivered"
  BY <1>1, BatchUnseen DEF InSlots, IdsOf
<1> QED BY <1>1, <1>2, <1>3, <1>4, <1>5, BatchUnseen, ShowsKeeps

\* The messages behind the barrier are shown.
LEMMA DeliverKeeps ==
    ASSUME QueueInv, TurnInv, PlaceInv, DeliverMessages
    PROVE PlaceInv' /\ LedgerStep
<1> DEFINE P == InPhase(slots, running, "projecting")
           X == IdsOf(P)
<1>1. /\ task.pc = "barrier" /\ GoTo("run")
      /\ slots' = Advance(slots, running, "projecting", "delivered")
      /\ seen' = Shown(X)
      /\ UNCHANGED <<running, committed, pending, buffer, dying, op, pc, answer>>
  BY DEF DeliverMessages, FinishDelivery, TaskStep, queueVars, loopVars, At
<1>2. task'.batch = <<>> /\ task'.pc = "run"
  BY <1>1, GoToIs
<1>3. \A r \in X : \E s \in slots : s.id = r /\ s.binding = running /\ s.phase = "projecting"
  BY DEF IdsOf, InPhase
<1>4. X \subseteq InSlots /\ \A r \in X : seen[r] = 0
  BY <1>3 DEF InSlots, IdsOf, PlaceInv, Unseen
<1> HIDE DEF P, X
<1>5. X \subseteq Holding \cap Accepted /\ X \cap (InBuffer \cup InDying) = {} /\ X \cap InQueue = {}
  BY <1>4, HoldingIs DEF PlaceInv, PlacedAccepted, Separate, Parted
<1>6. /\ \A s, t \in slots' : s.id = t.id => s = t
      /\ InSlots' = InSlots
      /\ \A s \in slots' : s.phase # "delivered" =>
           \E t \in slots : t.id = s.id /\ t.phase # "delivered"
                            /\ ("delivered" = "delivered" => ~(t.binding = running /\ t.phase = "projecting"))
  <2>1. "projecting" # "delivered"
    OBVIOUS
  <2> QED BY <1>1, <2>1, PlaceFacts, AdvanceIs
<1>7. \A s \in slots' : s.phase # "delivered" => s.id \notin X /\ \E t \in slots : t.id = s.id /\ t.phase # "delivered"
  BY <1>3, <1>6, PlaceFacts
<1> QED BY <1>1, <1>2, <1>4, <1>5, <1>6, <1>7, ShowsKeeps

-----------------------------------------------------------------------------
(***************************************************************************)
(* A turn starts and takes a batch with it.                                *)
(***************************************************************************)
\* The rows that a turn takes with it: the first stays in the queue, the others
\* are joined to it, and the rest goes on waiting.
LEMMA PromotedParts ==
    ASSUME NEW q \in Seq(Entries), DistinctRows(q), NEW n \in 1..Len(q), q # <<>>
    PROVE LET batch == [i \in 1..(n - 1) |-> q[i + 1].row]
              left == <<q[1]>> \o SubSeq(q, n + 1, Len(q))
          IN /\ batch \in Seq(Rows) /\ IsInjective(batch)
             /\ \A r : r \in Range(batch) <=> \E i \in 2..n : q[i].row = r
             /\ left \in Seq(Entries) /\ DistinctRows(left)
             /\ QueuedRows(q) = QueuedRows(left) \cup Range(batch)
             /\ QueuedRows(left) \cap Range(batch) = {}
             /\ q[1].row \in QueuedRows(left)
<1> DEFINE batch == [i \in 1..(n - 1) |-> q[i + 1].row]
           rest == SubSeq(q, n + 1, Len(q))
           left == <<q[1]>> \o rest
<1>1. /\ Len(q) \in Nat /\ n \in Nat /\ n - 1 \in Nat /\ n \in 0..Len(q) /\ DOMAIN q = 1..Len(q)
      /\ \A i \in 1..Len(q) : q[i] \in Entries /\ q[i].row \in Rows
  <2>1. Len(q) \in Nat /\ n \in Nat /\ n - 1 \in Nat /\ n \in 0..Len(q) /\ DOMAIN q = 1..Len(q)
    OBVIOUS
  <2>2. \A i \in 1..Len(q) : q[i] \in Entries
    OBVIOUS
  <2> QED BY <2>1, <2>2 DEF Entries
<1>2. \A i, j \in 1..Len(q) : q[i].row = q[j].row => i = j
  BY <1>1 DEF DistinctRows
<1>3. batch \in Seq(Rows) /\ DOMAIN batch = 1..(n - 1)
  BY <1>1
<1>4. \A i \in 1..(n - 1) : batch[i] = q[i + 1].row /\ i + 1 \in 2..n /\ i + 1 \in 1..Len(q)
  BY <1>1
<1>5. \A i \in 2..n : i - 1 \in 1..(n - 1) /\ (i - 1) + 1 = i
  BY <1>1
<1> HIDE DEF batch
<1>6. \A r : r \in Range(batch) <=> \E i \in 2..n : q[i].row = r
  <2>1. \A r \in Range(batch) : \E i \in 2..n : q[i].row = r
    BY <1>3, <1>4 DEF Range
  <2>2. \A i \in 2..n : q[i].row \in Range(batch)
    <3> SUFFICES ASSUME NEW i \in 2..n PROVE q[i].row \in Range(batch)
      OBVIOUS
    <3>1. i - 1 \in 1..(n - 1) /\ batch[i - 1] = q[i].row
      BY <1>4, <1>5
    <3> QED BY <1>3, <3>1 DEF Range
  <2> QED BY <2>1, <2>2
<1>7. IsInjective(batch)
  <2> SUFFICES ASSUME NEW i \in 1..(n - 1), NEW j \in 1..(n - 1), batch[i] = batch[j] PROVE i = j
    BY <1>3 DEF IsInjective
  <2>1. i + 1 = j + 1
    BY <1>2, <1>4
  <2> QED BY <1>1, <2>1
<1>8. /\ SubSeq(q, 1, n) \in Seq(Entries) /\ rest \in Seq(Entries)
      /\ QueuedRows(q) = QueuedRows(SubSeq(q, 1, n)) \cup QueuedRows(rest)
      /\ DistinctRows(rest)
      /\ QueuedRows(SubSeq(q, 1, n)) \cap QueuedRows(rest) = {}
  BY <1>1, CutRows
<1>9. QueuedRows(SubSeq(q, 1, n)) = {q[1].row} \cup Range(batch)
  <2>1. Len(SubSeq(q, 1, n)) = n /\ \A i \in 1..n : SubSeq(q, 1, n)[i] = q[i]
    BY <1>1
  <2>2. DOMAIN SubSeq(q, 1, n) = 1..n
    BY <1>1, <1>8, <2>1
  <2>3. \A i \in 1..n : i = 1 \/ i \in 2..n
    BY <1>1
  <2>4. 1 \in 1..n /\ \A i \in 2..n : i \in 1..n
    BY <1>1
  <2> HIDE DEF rest
  <2>5. \A r \in QueuedRows(SubSeq(q, 1, n)) : \E i \in 1..n : r = q[i].row
    BY <2>1, <2>2 DEF QueuedRows
  <2>6. \A i \in 1..n : q[i].row \in QueuedRows(SubSeq(q, 1, n))
    <3> SUFFICES ASSUME NEW i \in 1..n PROVE q[i].row \in QueuedRows(SubSeq(q, 1, n))
      OBVIOUS
    <3>1. i \in DOMAIN SubSeq(q, 1, n) /\ SubSeq(q, 1, n)[i].row = q[i].row
      BY <2>1, <2>2
    <3> QED BY <3>1, Zenon DEF QueuedRows
  <2> QED BY <1>6, <2>3, <2>4, <2>5, <2>6
<1>10. q[1].row \notin Range(batch)
  BY <1>1, <1>2, <1>6
<1>11. q[1] \in Entries /\ <<q[1]>> \in Seq(Entries) /\ QueuedRows(<<q[1]>>) = {q[1].row} /\ DistinctRows(<<q[1]>>)
  <2>1. q[1] \in Entries
    BY <1>1
  <2>2. <<q[1]>> \in Seq(Entries) /\ DOMAIN <<q[1]>> = {1} /\ <<q[1]>>[1] = q[1]
    BY <2>1
  <2> QED BY <2>1, <2>2 DEF QueuedRows, DistinctRows
<1> HIDE DEF rest
<1>12. left \in Seq(Entries) /\ QueuedRows(left) = {q[1].row} \cup QueuedRows(rest)
  BY <1>8, <1>11, ConcatRows
<1>13. DistinctRows(left)
  <2>1. QueuedRows(<<q[1]>>) \cap QueuedRows(rest) = {}
    BY <1>8, <1>9, <1>11
  <2> QED BY <1>8, <1>11, <2>1, JoinRows
<1>14. QueuedRows(left) \cap Range(batch) = {}
  BY <1>8, <1>9, <1>10, <1>12
<1>15. QueuedRows(q) = QueuedRows(left) \cup Range(batch) /\ q[1].row \in QueuedRows(left)
  BY <1>8, <1>9, <1>12
<1> QED BY <1>3, <1>6, <1>7, <1>12, <1>13, <1>14, <1>15 DEF batch, rest

\* A turn starts.
LEMMA PromoteKeeps ==
    ASSUME QueueInv, TurnInv, PlaceInv, running = NoTurn, ~gate,
           UNCHANGED <<dying, slots, buffer, op, seen>>, pc' = pc \/ (pc = "start" /\ pc' = "idle"),
           NEW first \in Rows, NEW epoch, running' = Turn(first, epoch), ~committed',
           task'.pc = "prepare", IsInjective(task'.batch), DistinctRows(pending'),
           InQueue' \cup InBatch' \subseteq InQueue, InQueue' \cap InBatch' = {}, first \in InQueue',
           \A r \in Rows : answer'[r] = answer[r] \/ (r \in Accepted /\ r \in Answered'),
           \A r \in InQueue : r \in InQueue' \cup Answered', InBatch' \subseteq Answered'
    PROVE PlaceInv' /\ LedgerStep
<1>1. running'.prompt = first /\ running' # NoTurn /\ running'.prompt # NoRow
  <2>1. running'.prompt = first
    BY DEF Turn
  <2>2. NoTurn.prompt = NoRow
    BY DEF NoTurn, Turn
  <2> QED BY <2>1, <2>2, ConstantsAssumption
<1>2. task.pc = "none"
  BY DEF TurnInv, TaskOfRunning
<1>3. InBuffer' = InBuffer /\ InDying' = InDying /\ InHandler' = InHandler /\ InSlots' = InSlots
  BY SamePlaces
<1>4. Answered \subseteq Answered'
  BY AnsweredGrows
<1>5. Accepted' = Accepted
  <2>1. \A r \in Rows : r \in Accepted' <=> r \in Accepted
    BY AnsweredAccepted
  <2> QED BY <2>1, AnsweredAccepted
<1>6. Distinct'
  BY DEF PlaceInv, Distinct
<1>7. Parted(InQueue', InBuffer', InBatch', InSlots', InHandler', InDying')
  BY <1>3 DEF PlaceInv, Separate, Parted
<1>8. Separate'
  <2>1. DyingParted'
    BY DEF PlaceInv, Separate, DyingParted
  <2> QED BY <1>7, <2>1 DEF Separate, Parted
<1>9. PlacedAccepted'
  BY <1>1, <1>3, <1>5 DEF PlaceInv, PlacedAccepted
<1>10. ~Ending'
  BY DEF Ending, Leased, TurnInv, Closing, Quiet
<1>11. TurnRow'
  BY <1>1, <1>7, <1>10 DEF TurnRow, Parted
<1>12. Spoken'
  BY <1>3, <1>4 DEF PlaceInv, Spoken
<1>13. HandlerRows'
  <2>1. InQueue \cup Answered \subseteq InQueue' \cup Answered'
    BY <1>4
  <2> QED BY <2>1 DEF PlaceInv, HandlerRows
<1>14. \A r \in InQueue : r \in Rows /\ seen[r] = 0
  BY AnsweredAccepted DEF PlaceInv, PlacedAccepted, Unseen
<1>15. Unseen'
  <2>1. \A r \in Rows : r \notin Accepted' \/ r \in InBuffer' \cup InBatch' \cup InDying' => seen'[r] = 0
    BY <1>3, <1>5, <1>14 DEF PlaceInv, Unseen
  <2>2. \A r \in InQueue' : seen'[r] = 0
    BY <1>14
  <2> QED BY <1>1, <2>1, <2>2 DEF PlaceInv, Unseen
<1>16. \A r \in Holding : r \in Holding' \/ r \in Answered'
  BY <1>2, <1>3, <1>4, HoldingIs, HoldingNext DEF PlaceInv, Spoken
<1>17. \A r \in Holding' : r \in Holding
  BY <1>1, <1>3, HoldingIs, HoldingNext
<1>18. LedgerStep
  <2>1. \A r \in Accepted : seen'[r] = seen[r]
    OBVIOUS
  <2> QED BY <1>4, <1>5, <1>16, <1>17, <2>1 DEF LedgerStep
<1> QED BY <1>6, <1>8, <1>9, <1>11, <1>12, <1>13, <1>15, <1>18 DEF PlaceInv

\* maybe_start_running_task, whoever calls it.
LEMMA StartTurnKeeps ==
    ASSUME QueueInv, QueueInv', TurnInv, TurnInv', PlaceInv, StartTurn,
           UNCHANGED <<gate, dying, completions, deliveryVars, op, seen>>, pc' = pc \/ (pc = "start" /\ pc' = "idle")
    PROVE PlaceInv' /\ LedgerStep
<1>0. /\ UNCHANGED <<dying, slots, buffer, op, seen>>
      /\ UNCHANGED loopVars \/ (pc \notin {"teardown", "settle"} /\ pc' \notin {"teardown", "settle", "complete"})
  BY DEF deliveryVars, loopVars
<1>1. CASE UNCHANGED <<queueVars, turnVars, report, task, answer>>
  <2>1. UNCHANGED <<running, committed, task, pending, answer>>
    BY <1>1 DEF queueVars, turnVars
  <2>2. Passes({})
    BY <1>0, <2>1, StayPlaces
  <2> QED BY <2>2, PassesKeeps
<1>2. CASE ~StartBlocked
  <2>1. PICK k \in 0..Len(pending) :
          LET q == SubSeq(pending, k + 1, Len(pending))
              stale == {pending[i].row : i \in 1..k}
          IN \E held \in SUBSET (holds \cap QueuedRows(q)) :
                /\ \/ /\ pending' = q
                      /\ answer' = Reply(stale)
                      /\ UNCHANGED <<turnVars, report, task>>
                   \/ /\ q # <<>>
                      /\ \E n \in CombineLengths(q, held) :
                           /\ Promote(q, n)
                           /\ pending' = <<q[1]>> \o SubSeq(q, n + 1, Len(q))
                           /\ answer' = [r \in Rows |->
                                           IF \E i \in 2..n : q[i].row = r THEN "merged"
                                           ELSE Reply(stale)[r]]
    BY <1>2, Zenon DEF StartTurn
  <2> DEFINE q == SubSeq(pending, k + 1, Len(pending))
             head == SubSeq(pending, 1, k)
             stale == {pending[i].row : i \in 1..k}
  <2>2. PICK held \in SUBSET (holds \cap QueuedRows(q)) :
                \/ /\ pending' = q
                   /\ answer' = Reply(stale)
                   /\ UNCHANGED <<turnVars, report, task>>
                \/ /\ q # <<>>
                   /\ \E n \in CombineLengths(q, held) :
                        /\ Promote(q, n)
                        /\ pending' = <<q[1]>> \o SubSeq(q, n + 1, Len(q))
                        /\ answer' = [r \in Rows |->
                                        IF \E i \in 2..n : q[i].row = r THEN "merged"
                                        ELSE Reply(stale)[r]]
    BY <2>1, Zenon
  <2>3. /\ head \in Seq(Entries) /\ q \in Seq(Entries) /\ InQueue = QueuedRows(head) \cup QueuedRows(q)
        /\ DistinctRows(q)
    BY PlaceFacts, CutRows
  <2>4. QueuedRows(head) = stale
    <3>1. pending \in Seq(Entries) /\ Len(pending) \in Nat
      BY PlaceFacts
    <3>2. DOMAIN head = 1..k /\ \A i \in 1..k : head[i] = pending[i]
      BY <3>1
    <3> HIDE DEF head
    <3> QED BY <3>2 DEF QueuedRows
  <2>5. running = NoTurn /\ ~gate
    BY <1>2 DEF StartBlocked
  <2> HIDE DEF q, stale, head
  <2>6. /\ \A r \in Rows : Reply(stale)[r] = IF r \in stale /\ answer[r] = "owed" THEN "answered" ELSE answer[r]
        /\ stale \subseteq Accepted /\ InQueue = stale \cup QueuedRows(q) /\ QueuedRows(q) \subseteq Accepted
        /\ Accepted \subseteq Rows
    BY <2>3, <2>4, PlaceFacts DEF Reply
  <2>7. CASE pending' = q /\ answer' = Reply(stale) /\ UNCHANGED <<turnVars, report, task>>
    <3>1. UNCHANGED <<running, committed, task>>
      BY <2>7 DEF turnVars
    <3>2. InQueue' = QueuedRows(q) /\ DistinctRows(pending')
      BY <2>3, <2>7, PlaceFacts
    <3>3. /\ \A r \in Rows : answer'[r] = answer[r] \/ (r \in stale /\ r \in Accepted /\ r \in Answered')
          /\ \A r \in stale : r \in Accepted => r \in Answered'
      BY <2>7, PlaceFacts, ReplyIs
    <3>4. \A r \in InQueue : r \in InQueue' \cup Answered'
      BY <2>6, <3>2, <3>3
    <3>5. InQueue' \subseteq InQueue
      BY <2>6, <3>2
    <3>6. slots' \subseteq slots /\ \A s \in slots : s \in slots' \/ s.id \in Answered'
      BY <1>0
    <3>7. Passes({})
      BY <1>0, <3>1, <3>2, <3>3, <3>4, <3>5, <3>6, WithdrawPlaces
    <3> QED BY <3>7, PassesKeeps
  <2>8. ASSUME q # <<>>, NEW n \in CombineLengths(q, held), Promote(q, n),
               pending' = <<q[1]>> \o SubSeq(q, n + 1, Len(q)),
               answer' = [r \in Rows |->
                            IF \E i \in 2..n : q[i].row = r THEN "merged" ELSE Reply(stale)[r]]
        PROVE PlaceInv' /\ LedgerStep
    <3>1. n \in 1..Len(q)
      <4>1. Len(q) \in Nat /\ Len(q) >= 1
        BY <2>3, <2>8
      <4> QED BY <4>1 DEF CombineLengths
    <3> DEFINE batch == [i \in 1..(n - 1) |-> q[i + 1].row]
               left == <<q[1]>> \o SubSeq(q, n + 1, Len(q))
    <3>2. /\ batch \in Seq(Rows) /\ IsInjective(batch)
          /\ \A r : r \in Range(batch) <=> \E i \in 2..n : q[i].row = r
          /\ left \in Seq(Entries) /\ DistinctRows(left)
          /\ QueuedRows(q) = QueuedRows(left) \cup Range(batch)
          /\ QueuedRows(left) \cap Range(batch) = {}
          /\ q[1].row \in QueuedRows(left)
      BY <2>3, <2>8, <3>1, PromotedParts
    <3>3. /\ running' = Turn(q[1].row, report.epoch + 1) /\ ~committed'
          /\ task' = [pc |-> "prepare", batch |-> batch]
      BY <2>8 DEF Promote
    <3>4. pending' = left
      BY <2>8
    <3> HIDE DEF batch, left
    <3>5. task'.pc = "prepare" /\ task'.batch = batch
      BY <3>3
    <3>6. InQueue' = QueuedRows(left) /\ InBatch' = Range(batch)
      BY <3>4, <3>5, PlaceFacts DEF InBatch
    <3>7. \A r \in Rows : answer'[r] = IF r \in Range(batch) THEN "merged" ELSE Reply(stale)[r]
      BY <2>8, <3>2
    <3>8. /\ \A r \in Rows : answer'[r] = answer[r] \/ (r \in Accepted /\ r \in Answered')
          /\ \A r \in stale : r \in Answered'
          /\ \A r \in Range(batch) : r \in Answered'
      BY <2>6, <3>2, <3>7, AnsweredAccepted
    <3>9. /\ InQueue' \cup InBatch' \subseteq InQueue /\ InQueue' \cap InBatch' = {}
          /\ q[1].row \in InQueue' /\ q[1].row \in Rows
          /\ (\A r \in InQueue : r \in InQueue' \cup Answered') /\ InBatch' \subseteq Answered'
      BY <2>6, <3>2, <3>6, <3>8
    <3>10. DistinctRows(pending') /\ IsInjective(task'.batch)
      BY <3>2, <3>4, <3>5
    <3> QED BY <1>0, <2>5, <3>3, <3>5, <3>8, <3>9, <3>10, PromoteKeeps
  <2> QED BY <2>2, <2>7, <2>8
<1> QED BY <1>1, <1>2, Zenon DEF StartTurn

-----------------------------------------------------------------------------
(***************************************************************************)
(* The invariant, one place for each row, and the refinement.              *)
(***************************************************************************)
\* Every step of the session keeps the places, and is one of the ledger.
LEMMA StepKeeps ==
    ASSUME QueueInv, QueueInv', TurnInv, TurnInv', PlaceInv, [Next]_vars
    PROVE PlaceInv' /\ LedgerStep
<1>0. ASSUME NEW N, Passes(N) PROVE PlaceInv' /\ LedgerStep
  BY <1>0, PassesKeeps
<1>1. CASE Arrivals
  <2>1. ASSUME NEW p \in Prompts, Prompt(p) PROVE PlaceInv' /\ LedgerStep
    BY <1>0, <2>1, PromptPlaces
  <2>2. ASSUME NEW w \in Wakes, Wake(w) PROVE PlaceInv' /\ LedgerStep
    BY <1>0, <2>2, WakePlaces
  <2>3. ASSUME NEW m \in Messages, ParentMessage(m) PROVE PlaceInv' /\ LedgerStep
    BY <1>0, <2>3, MessagePlaces
  <2>4. ASSUME NEW n \in Notes, Interject(n) PROVE PlaceInv' /\ LedgerStep
    BY <1>0, <2>4, InterjectPlaces
  <2> QED BY <1>1, <2>1, <2>2, <2>3, <2>4 DEF Arrivals
<1>2. CASE QueueEdit
  BY <1>0, <1>2, EditPlaces
<1>3. CASE Cancels
  <2>1. Passes({})
    BY <1>3, CancelKeepPlaces, CancelNamedPlaces, CancelLegacyPlaces, HandlersPlaces, StopPlaces DEF Cancels
  <2> QED BY <1>0, <2>1
<1>4. CASE DropStaleCompletion \/ Complete
  <2>1. Passes({})
    BY <1>4, StillPlaces, CompletePlaces
  <2> QED BY <1>0, <2>1
<1>5. CASE LoopStep
  <2>1. CASE Start
    <3>1. StartTurn /\ pc = "start" /\ pc' = "idle" /\ UNCHANGED <<gate, dying, completions, deliveryVars, op, seen>>
      BY <2>1 DEF Start
    <3> QED BY <3>1, StartTurnKeeps
  <2>2. CASE ~Start
    <3>1. Passes({})
      BY <1>5, <2>2, HandlersPlaces, TeardownPlaces, SettlePlaces, FinishPlaces, StopPlaces, DropPlaces DEF LoopStep
    <3> QED BY <1>0, <3>1
  <2> QED BY <2>1, <2>2
<1>6. CASE Background
  <2>1. CASE DropAborted
    <3>1. Passes({})
      BY <2>1, DropAbortedPlaces
    <3> QED BY <1>0, <3>1
  <2>2. CASE Kick
    <3>1. StartTurn /\ pc' = pc /\ UNCHANGED <<gate, dying, completions, deliveryVars, op, seen>>
      BY <2>2 DEF Kick, loopVars
    <3> QED BY <3>1, StartTurnKeeps
  <2>3. ASSUME NEW r \in Resumes, ResumePushes(r) PROVE PlaceInv' /\ LedgerStep
    BY <1>0, <2>3, ResumePlaces
  <2> QED BY <1>6, <2>1, <2>2, <2>3 DEF Background
<1>7. CASE TurnTask
  <2>1. ASSUME NEW w \in Wakes, ConsumeWake(w) PROVE PlaceInv' /\ LedgerStep
    BY <1>0, <2>1, ConsumePlaces
  <2>2. CASE CommitMessage \/ SubmitNotes \/ DeliverMessages
    BY <2>2, CommitKeeps, SubmitKeeps, DeliverKeeps
  <2>3. CASE \/ BeginTurn \/ EndEarly \/ BlockPrompt \/ SendUpdate \/ DrainNotes \/ RestoreNotes
             \/ TakeMessages \/ MissBarrier \/ ClaimForGate \/ LeaveGate \/ EndTurn \/ SendCompletion
    <3>1. Passes({})
      BY <2>3, GoesPlaces, StillPlaces, DrainPlaces, RestorePlaces
    <3> QED BY <1>0, <3>1
  <2> QED BY <1>7, <2>1, <2>2, <2>3 DEF TurnTask
<1>8. CASE UNCHANGED vars
  <2>1. Passes({})
    BY <1>8, StillPlaces
  <2> QED BY <1>0, <2>1
<1> QED BY <1>1, <1>2, <1>3, <1>4, <1>5, <1>6, <1>7, <1>8 DEF Next

\* A new session has no row anywhere.
LEMMA InitPlaces == Init => PlaceInv
<1> SUFFICES ASSUME Init PROVE PlaceInv
  OBVIOUS
<1>1. /\ pending = <<>> /\ buffer = <<>> /\ slots = {} /\ dying = {} /\ running = NoTurn
      /\ pc = "idle" /\ op.rows = {} /\ op.msgs = {} /\ op.result = "none"
      /\ task.pc = "none" /\ task.batch = <<>>
      /\ answer = [r \in Rows |-> "new"] /\ seen = [r \in Rows |-> 0]
  BY BegunIs DEF Init, NoTask
<1>2. /\ InQueue = {} /\ InBuffer = {} /\ InBatch = {} /\ InSlots = {} /\ InDying = {} /\ InHandler = {}
      /\ DistinctRows(pending) /\ IsInjective(buffer) /\ IsInjective(task.batch)
  BY <1>1, NoRows, NoRange DEF InQueue, InBuffer, InBatch, InSlots, IdsOf, InDying, InHandler
<1>3. Distinct /\ Separate
  BY <1>1, <1>2 DEF Distinct, Separate, Parted, DyingParted
<1>4. PlacedAccepted /\ TurnRow /\ Spoken /\ HandlerRows
  BY <1>1, <1>2 DEF PlacedAccepted, TurnRow, Spoken, HandlerRows
<1>5. Unseen
  BY <1>1, <1>2 DEF Unseen
<1> QED BY <1>3, <1>4, <1>5 DEF PlaceInv

\* In every state of a session the queue, the buffer of interjections, the batch of
\* the running task, the slots of message_delivery, the handler of a cancel and the
\* aborted futures hold different rows, each once; what they hold was accepted, and
\* what still waits among them was not shown to the model.
THEOREM PlaceInvariant == Spec => []PlaceInv
<1>1. QueueInv /\ QueueInv' /\ TurnInv /\ TurnInv' /\ PlaceInv /\ [Next]_vars => PlaceInv'
  BY StepKeeps
<1> QED BY <1>1, InitPlaces, QueueInvariant, TurnInvariant, PTL DEF Spec

\* A row is in one place.
LEMMA PlacesOne == PlaceInv => OnePlace
<1> SUFFICES ASSUME PlaceInv PROVE OnePlace
  OBVIOUS
<1>1. \A i, j \in DOMAIN pending : pending[i].row = pending[j].row => i = j
  BY DEF PlaceInv, Distinct, DistinctRows
<1>2. ASSUME NEW r \in Rows
      PROVE Cardinality({place \in {<<"queue", QueuedRows(pending)>>, <<"buffer", Range(buffer)>>,
                                    <<"batch", Range(task.batch)>>, <<"slots", IdsOf(slots)>>,
                                    <<"handler", op.rows \cup op.msgs>>}
                                   \cup {<<d.prompt, Range(d.batch)>> : d \in dying} :
                           r \in place[2] /\ ~(place[1] = "handler" /\ op.result = "none")}) <= 1
  <2> DEFINE all == {<<"queue", QueuedRows(pending)>>, <<"buffer", Range(buffer)>>,
                     <<"batch", Range(task.batch)>>, <<"slots", IdsOf(slots)>>,
                     <<"handler", op.rows \cup op.msgs>>}
                       \cup {<<d.prompt, Range(d.batch)>> : d \in dying}
             P == {place \in all : r \in place[2] /\ ~(place[1] = "handler" /\ op.result = "none")}
  <2>1. ASSUME NEW a \in P
        PROVE \/ a = <<"queue", QueuedRows(pending)>> /\ r \in InQueue
              \/ a = <<"buffer", Range(buffer)>> /\ r \in InBuffer
              \/ a = <<"batch", Range(task.batch)>> /\ r \in InBatch
              \/ a = <<"slots", IdsOf(slots)>> /\ r \in InSlots
              \/ a = <<"handler", op.rows \cup op.msgs>> /\ r \in InHandler
              \/ \E d \in dying : a = <<d.prompt, Range(d.batch)>> /\ r \in Range(d.batch)
    BY <2>1 DEF InQueue, InBuffer, InBatch, InSlots, InHandler
  <2>2. \A d \in dying : r \in Range(d.batch) => r \in InDying
    BY DEF InDying
  <2>3. Parted(InQueue, InBuffer, InBatch, InSlots, InHandler, InDying) /\ DyingParted
    BY DEF PlaceInv, Separate
  <2>4. \A d, e \in dying : r \in Range(d.batch) /\ r \in Range(e.batch) => d = e
    BY <2>3 DEF DyingParted
  <2>5. /\ r \in InQueue => r \notin InBuffer \cup InBatch \cup InSlots \cup InHandler \cup InDying
        /\ r \in InBuffer => r \notin InBatch \cup InSlots \cup InHandler \cup InDying
        /\ r \in InBatch => r \notin InSlots \cup InHandler \cup InDying
        /\ r \in InSlots => r \notin InHandler \cup InDying
        /\ r \in InHandler => r \notin InDying
    BY <2>3 DEF Parted
  <2> HIDE DEF P
  <2>6. \A a, b \in P : a = b
    BY <2>1, <2>2, <2>4, <2>5
  <2>7. CASE P = {}
    BY <2>7, FS_EmptySet DEF P
  <2>8. CASE P # {}
    <3>1. PICK a \in P : TRUE
      BY <2>8
    <3>2. P = {a}
      BY <2>6
    <3>3. Cardinality(P) = 1
      BY <3>2, FS_Singleton
    <3> QED BY <3>3 DEF P
  <2> QED BY <2>7, <2>8
<1> QED BY <1>1, <1>2 DEF OnePlace

\* In every state a row is in one place: a prompt that is merged into a turn, falls
\* back from a slot, is restored from an aborted future or is taken over by a cancel
\* leaves the place where it was, so it is neither run twice nor both run and merged.
THEOREM OnePlaceHolds == Spec => []OnePlace
  BY PlaceInvariant, PlacesOne, PTL

\* The stage of a row, by its history and whether it is held.
LEMMA StageIs ==
    ASSUME QueueInv, PlaceInv, NEW r \in Rows
    PROVE Stage(r) = IF r \notin Accepted THEN "new" ELSE IF seen[r] = 1 THEN "shown"
                     ELSE IF r \in Holding THEN "waiting" ELSE "withdrawn"
<1>1. answer[r] \in Answers /\ seen[r] \in {0, 1}
  BY TypedFacts DEF PlaceInv, Unseen
<1>2. r \in Accepted <=> answer[r] \notin {"new", "rejected"}
  BY <1>1, AnsweredAccepted DEF Answers
<1>3. seen[r] > 0 <=> seen[r] = 1
  BY <1>1
<1> QED BY <1>2, <1>3, Zenon DEF Stage

\* The same of the next state.
LEMMA StageNext ==
    ASSUME QueueInv', PlaceInv', NEW r \in Rows
    PROVE Stage(r)' = IF r \notin Accepted' THEN "new" ELSE IF seen'[r] = 1 THEN "shown"
                      ELSE IF r \in Holding' THEN "waiting" ELSE "withdrawn"
<1>1. answer'[r] \in Answers /\ seen'[r] \in {0, 1}
  BY DEF PlaceInv, Unseen, QueueInv, Typed, HistoryTyped
<1>2. r \in Accepted' <=> answer'[r] \notin {"new", "rejected"}
  BY <1>1, AnsweredAccepted DEF Answers
<1>3. seen'[r] > 0 <=> seen'[r] = 1
  BY <1>1
<1> QED BY <1>2, <1>3, Zenon DEF Stage

\* A step of the session is a step of the ledger.
LEMMA LedgerNext ==
    ASSUME QueueInv, QueueInv', PlaceInv, PlaceInv', LedgerStep
    PROVE Ledger!Next
<1>1. ASSUME NEW r \in Rows
      PROVE /\ Stage(r)' \in Ledger!Stages
            /\ \/ Stage(r)' = Stage(r)
               \/ Stage(r) = "new" /\ Stage(r)' = "waiting"
               \/ Stage(r) = "waiting" /\ Stage(r)' = "shown"
               \/ Stage(r) = "waiting" /\ Stage(r)' = "withdrawn" /\ (r \in Prompts \cup Messages => r \in Answered')
  <2>1. Stage(r) = IF r \notin Accepted THEN "new" ELSE IF seen[r] = 1 THEN "shown"
                   ELSE IF r \in Holding THEN "waiting" ELSE "withdrawn"
    BY StageIs
  <2>2. Stage(r)' = IF r \notin Accepted' THEN "new" ELSE IF seen'[r] = 1 THEN "shown"
                    ELSE IF r \in Holding' THEN "waiting" ELSE "withdrawn"
    BY StageNext
  <2>3. seen[r] \in {0, 1} /\ seen'[r] \in {0, 1}
    BY DEF PlaceInv, Unseen
  <2>4. Stage(r)' \in Ledger!Stages
    BY <2>2 DEF Ledger!Stages
  <2>5. CASE r \notin Accepted
    BY <2>1, <2>2, <2>4, <2>5 DEF LedgerStep
  <2>6. CASE r \in Accepted
    BY <2>1, <2>2, <2>3, <2>4, <2>6 DEF LedgerStep
  <2> QED BY <2>5, <2>6
<1>2. Answered \subseteq Answered' /\ Answered' \in SUBSET Rows
  BY AnsweredAccepted DEF LedgerStep
<1>3. \A r \in Rows : r \in Answered' <=> r \in Rows /\ answer'[r] \in {"merged", "answered"}
  BY AnsweredAccepted
<1> QED BY <1>1, <1>2 DEF Ledger!Next, Ledger!Take, Ledger!Show, Ledger!Withdraw, Answered

\* A new session is a new ledger.
LEMMA LedgerInit == Init => Ledger!Init
<1> SUFFICES ASSUME Init PROVE Ledger!Init
  OBVIOUS
<1>1. answer = [r \in Rows |-> "new"]
  BY DEF Init
<1>2. \A r \in Rows : Stage(r) = "new"
  BY <1>1 DEF Stage
<1>3. {r \in Rows : answer[r] \in {"merged", "answered"}} = {}
  BY <1>1
<1> QED BY <1>2, <1>3 DEF Ledger!Init

\* The session implements the ledger: whatever the order of arrivals, edits, cancels,
\* ends of turns and aborted futures, an accepted row waits until it is shown once or
\* withdrawn, and whoever sent a prompt or message that is withdrawn hears of it.
THEOREM LedgerRefinement == Spec => LedgerRefined
<1>1. QueueInv /\ QueueInv' /\ TurnInv /\ TurnInv' /\ PlaceInv /\ PlaceInv' /\ [Next]_vars => [Ledger!Next]_Ledger!vars
  BY StepKeeps, LedgerNext
<1> QED BY <1>1, LedgerInit, QueueInvariant, TurnInvariant, PlaceInvariant, PTL DEF Spec, LedgerRefined, Ledger!Spec
=============================================================================
