------------------------- MODULE SessionQueueProofs -------------------------
(***************************************************************************)
(* What depends on the contents of a session's queue, for any rows, any    *)
(* features and cancels and any number of slots: the types, the place of   *)
(* the running turn at the front, and what a cancel takes from there.      *)
(***************************************************************************)
EXTENDS SessionTurnsProofs, FiniteSetTheorems

-----------------------------------------------------------------------------
(***************************************************************************)
(* Ranks.  The n-th element of a finite set is the one with n elements up  *)
(* to it; both the filtered queue and the order of slots are read off so.  *)
(***************************************************************************)
Upto(S, k, i) == {j \in S : k[j] <= k[i]}

\* The rank of an element is at most the size of the set and at least one.
LEMMA RankRange ==
  ASSUME NEW S, IsFiniteSet(S), NEW k \in [S -> Int], NEW i \in S
  PROVE  Cardinality(Upto(S, k, i)) \in 1..Cardinality(S) /\ IsFiniteSet(Upto(S, k, i))
<1>1. Upto(S, k, i) \in SUBSET S /\ i \in Upto(S, k, i)
  BY DEF Upto
<1>2. IsFiniteSet(Upto(S, k, i)) /\ Cardinality(Upto(S, k, i)) <= Cardinality(S)
  BY <1>1, FS_Subset
<1>3. Cardinality(Upto(S, k, i)) # 0
  BY <1>1, <1>2, FS_EmptySet
<1>4. Cardinality(Upto(S, k, i)) \in Nat /\ Cardinality(S) \in Nat
  BY <1>2, FS_CardinalityType
<1> QED
  BY <1>2, <1>3, <1>4

\* Different elements have different ranks.
LEMMA RankInjective ==
  ASSUME NEW S, IsFiniteSet(S), NEW k \in [S -> Int], \A i, j \in S : k[i] = k[j] => i = j,
         NEW i \in S, NEW j \in S, Cardinality(Upto(S, k, i)) = Cardinality(Upto(S, k, j))
  PROVE  i = j
<1>1. ASSUME NEW a \in S, NEW b \in S, k[a] < k[b], Cardinality(Upto(S, k, a)) = Cardinality(Upto(S, k, b))
      PROVE  FALSE
  <2>1. Upto(S, k, a) \in SUBSET Upto(S, k, b) /\ b \in Upto(S, k, b) /\ b \notin Upto(S, k, a)
    BY <1>1 DEF Upto
  <2>2. IsFiniteSet(Upto(S, k, b))
    BY RankRange
  <2>3. Upto(S, k, b) = Upto(S, k, a)
    BY <1>1, <2>1, <2>2, FS_Subset
  <2> QED
    BY <2>1, <2>3
<1>2. ~(k[i] < k[j]) /\ ~(k[j] < k[i])
  BY <1>1
<1>3. k[i] \in Int /\ k[j] \in Int
  OBVIOUS
<1>4. k[i] = k[j]
  BY <1>2, <1>3
<1> QED
  BY <1>4

\* Every rank up to the size of the set occurs.
LEMMA RankExists ==
  ASSUME NEW S, IsFiniteSet(S), NEW k \in [S -> Int], \A i, j \in S : k[i] = k[j] => i = j,
         NEW n \in 1..Cardinality(S)
  PROVE  \E i \in S : Cardinality(Upto(S, k, i)) = n
<1> DEFINE N == Cardinality(S)
           f == [i \in S |-> Cardinality(Upto(S, k, i))]
<1>1. N \in Nat
  BY FS_CardinalityType
<1>2. IsFiniteSet(1..N) /\ Cardinality(1..N) = N
  BY <1>1, FS_Interval
<1>3. f \in [S -> 1..N]
  BY RankRange, Zenon
<1>4. \A i, j \in S : f[i] = f[j] => i = j
  BY RankInjective
<1>5. DOMAIN f = S
  OBVIOUS
<1>6. f \in Injection(S, 1..N)
  <2> HIDE DEF f, N
  <2> QED
    BY <1>3, <1>4, <1>5, Zenon DEF Injection, IsInjective
<1>7. f \in Surjection(S, 1..N)
  <2> HIDE DEF f
  <2> QED
    BY <1>2, <1>6, FS_Injection
<1>8. \E i \in S : f[i] = n
  <2> HIDE DEF f, N
  <2>1. n \in 1..N
    BY DEF N
  <2> QED
    BY <1>7, <2>1, Zenon DEF Surjection
<1> QED
  BY <1>8

-----------------------------------------------------------------------------
(***************************************************************************)
(* Filtered queues.                                                        *)
(***************************************************************************)
\* The n-th place that is kept.
Nth(places, n) == CHOOSE i \in places : Cardinality({j \in places : j <= i}) = n

\* The n-th place is one of the places, no place comes twice, none is left out,
\* and the first of the queue stays the first.
LEMMA NthPlace ==
  ASSUME NEW L \in Nat, NEW places \in SUBSET (1..L)
  PROVE  /\ Cardinality(places) \in 0..L
         /\ \A n \in 1..Cardinality(places) : Nth(places, n) \in places
         /\ \A n, m \in 1..Cardinality(places) : Nth(places, n) = Nth(places, m) => n = m
         /\ \A i \in places : \E n \in 1..Cardinality(places) : Nth(places, n) = i
         /\ 1 \in places => 1 \in 1..Cardinality(places) /\ Nth(places, 1) = 1
<1> DEFINE k == [i \in places |-> i]
           Rank(i) == Cardinality({j \in places : j <= i})
           N == Cardinality(places)
<1>1. IsFiniteSet(places) /\ N \in Nat /\ N <= L
  <2>1. IsFiniteSet(1..L) /\ Cardinality(1..L) = L
    BY FS_Interval
  <2>2. IsFiniteSet(places) /\ Cardinality(places) <= L
    BY <2>1, FS_Subset
  <2> QED
    BY <2>2, FS_CardinalityType
<1>2. k \in [places -> Int] /\ \A i, j \in places : k[i] = k[j] => i = j
  OBVIOUS
<1>3. \A i \in places : Upto(places, k, i) = {j \in places : j <= i}
  BY DEF Upto
<1>4. \A i \in places : Rank(i) = Cardinality(Upto(places, k, i))
  BY <1>3, Zenon
<1> HIDE DEF Rank, k, N
<1>5. \A i \in places : Rank(i) \in 1..N
  <2>1. \A i \in places : Cardinality(Upto(places, k, i)) \in 1..N
    BY <1>1, <1>2, RankRange, Zenon DEF N
  <2> QED
    BY <1>4, <2>1, Zenon
<1>6. \A i, j \in places : Rank(i) = Rank(j) => i = j
  BY <1>1, <1>2, <1>4, RankInjective
<1>7. \A n \in 1..N : \E i \in places : Rank(i) = n
  <2>1. \A n \in 1..N : \E i \in places : Cardinality(Upto(places, k, i)) = n
    BY <1>1, <1>2, RankExists, Zenon DEF N
  <2> QED
    BY <1>4, <2>1, Zenon
<1>8. \A n : Nth(places, n) = CHOOSE i \in places : Rank(i) = n
  BY Zenon DEF Nth, Rank
<1>9. \A n \in 1..N : Nth(places, n) \in places /\ Rank(Nth(places, n)) = n
  BY <1>7, <1>8, Zenon
<1>10. \A i \in places : Nth(places, Rank(i)) = i
  BY <1>5, <1>6, <1>9
<1>11. 1 \in places => Rank(1) = 1
  <2> SUFFICES ASSUME 1 \in places PROVE Rank(1) = 1
    OBVIOUS
  <2>1. {j \in places : j <= 1} = {1}
    <3>1. \A j \in places : j <= 1 <=> j = 1
      OBVIOUS
    <3> QED
      BY <3>1, Zenon
  <2>2. Cardinality({1}) = 1
    BY FS_Singleton
  <2> QED
    BY <2>1, <2>2, Zenon DEF Rank
<1>12. \A n, m \in 1..N : Nth(places, n) = Nth(places, m) => n = m
  BY <1>9, Zenon
<1>13. \A i \in places : \E n \in 1..N : Nth(places, n) = i
  BY <1>5, <1>10, Zenon
<1>14. 1 \in places => 1 \in 1..N /\ Nth(places, 1) = 1
  BY <1>5, <1>10, <1>11
<1> QED
  BY <1>1, <1>9, <1>12, <1>13, <1>14 DEF N

\* The kept part of a queue is a queue of the entries at the places kept.
LEMMA KeptIs ==
  ASSUME NEW T, NEW q \in Seq(T), NEW places \in SUBSET (1..Len(q))
  PROVE  /\ Kept(q, places) \in Seq(T)
         /\ Len(Kept(q, places)) = Cardinality(places)
         /\ \A n \in 1..Cardinality(places) : Kept(q, places)[n] = q[Nth(places, n)]
<1>1. Len(q) \in Nat /\ \A i \in 1..Len(q) : q[i] \in T
  OBVIOUS
<1>2. Cardinality(places) \in Nat /\ \A n \in 1..Cardinality(places) : Nth(places, n) \in places
  BY <1>1, NthPlace
<1>3. Kept(q, places) = [n \in 1..Cardinality(places) |-> q[Nth(places, n)]]
  BY Zenon DEF Kept, Nth
<1>4. \A n \in 1..Cardinality(places) : q[Nth(places, n)] \in T
  BY <1>1, <1>2
<1> QED
  BY <1>2, <1>3, <1>4

\* What Without leaves of a queue: some of its entries, all with other rows than
\* those taken out, and the first one first if it stays.
LEMMA WithoutIs ==
  ASSUME NEW T, NEW q \in Seq(T), NEW rows
  PROVE  /\ Without(q, rows) \in Seq(T)
         /\ \A n \in 1..Len(Without(q, rows)) :
              \E i \in 1..Len(q) : Without(q, rows)[n] = q[i] /\ q[i].row \notin rows
         /\ q # <<>> /\ q[1].row \notin rows => Without(q, rows) # <<>> /\ Without(q, rows)[1] = q[1]
<1> DEFINE P == {i \in DOMAIN q : q[i].row \notin rows}
<1>1. DOMAIN q = 1..Len(q) /\ Len(q) \in Nat
  OBVIOUS
<1>2. P \in SUBSET (1..Len(q)) /\ \A i \in P : q[i].row \notin rows
  BY <1>1
<1>3. Without(q, rows) = Kept(q, P)
  BY Zenon DEF Without
<1>4. q # <<>> /\ q[1].row \notin rows => 1 \in P
  BY <1>1
<1> HIDE DEF P
<1>5. /\ Kept(q, P) \in Seq(T)
      /\ Len(Kept(q, P)) = Cardinality(P)
      /\ \A n \in 1..Cardinality(P) : Kept(q, P)[n] = q[Nth(P, n)]
  BY <1>2, KeptIs
<1>6. /\ \A n \in 1..Cardinality(P) : Nth(P, n) \in P
      /\ 1 \in P => 1 \in 1..Cardinality(P) /\ Nth(P, 1) = 1
  BY <1>1, <1>2, NthPlace
<1>7. ASSUME NEW n \in 1..Len(Without(q, rows))
      PROVE  \E i \in 1..Len(q) : Without(q, rows)[n] = q[i] /\ q[i].row \notin rows
  BY <1>2, <1>3, <1>5, <1>6, <1>7
<1>8. ASSUME q # <<>>, q[1].row \notin rows
      PROVE  Without(q, rows) # <<>> /\ Without(q, rows)[1] = q[1]
  <2>1. 1 \in 1..Cardinality(P) /\ Kept(q, P)[1] = q[1]
    BY <1>4, <1>5, <1>6, <1>8
  <2>2. Kept(q, P) # <<>>
    BY <1>5, <2>1
  <2> QED
    BY <1>3, <2>1, <2>2
<1> QED
  BY <1>3, <1>5, <1>7, <1>8

\* The rows left are rows of the queue that were not taken out.
LEMMA WithoutRows ==
  ASSUME NEW T, NEW q \in Seq(T), NEW rows
  PROVE  QueuedRows(Without(q, rows)) \subseteq QueuedRows(q) \ rows
<1>1. /\ Without(q, rows) \in Seq(T)
      /\ \A n \in 1..Len(Without(q, rows)) :
              \E i \in 1..Len(q) : Without(q, rows)[n] = q[i] /\ q[i].row \notin rows
  BY WithoutIs
<1>2. DOMAIN q = 1..Len(q) /\ DOMAIN Without(q, rows) = 1..Len(Without(q, rows))
  BY <1>1
<1> QED
  BY <1>1, <1>2, Zenon DEF QueuedRows

-----------------------------------------------------------------------------
(***************************************************************************)
(* Slots in the order of their admission.                                  *)
(***************************************************************************)
\* A finite deque, in which every position is taken once.
Ordered(S) == IsFiniteSet(S) /\ S \subseteq Slots /\ \A s, t \in S : s.at = t.at => s = t

\* The ids in their order are a sequence of messages, each the id of a slot.
LEMMA InOrderIs ==
  ASSUME NEW S, Ordered(S)
  PROVE  /\ InOrder(S) \in Seq(Messages)
         /\ \A n \in 1..Len(InOrder(S)) : \E s \in S : InOrder(S)[n] = s.id
<1> DEFINE k == [s \in S |-> s.at]
           N == Cardinality(S)
           At_(n) == CHOOSE s \in S : Cardinality(Admitted(S, s)) = n
<1>1. IsFiniteSet(S) /\ N \in Nat
  BY FS_CardinalityType DEF Ordered
<1>2. \A s \in S : s.at \in Int /\ s.id \in Messages
  BY DEF Ordered, Slots
<1>3. k \in [S -> Int] /\ \A s, t \in S : k[s] = k[t] => s = t
  BY <1>2 DEF Ordered
<1>4. \A s \in S : Upto(S, k, s) = Admitted(S, s)
  BY DEF Upto, Admitted
<1> HIDE DEF k, N
<1>5. \A n \in 1..N : \E s \in S : Cardinality(Upto(S, k, s)) = n
  BY <1>1, <1>3, RankExists, Zenon DEF N
<1>6. \A n \in 1..N : \E s \in S : Cardinality(Admitted(S, s)) = n
  BY <1>4, <1>5, Zenon
<1>7. \A n \in 1..N : At_(n) \in S
  BY <1>6, Zenon
<1>8. InOrder(S) = [n \in 1..N |-> At_(n).id]
  BY Zenon DEF InOrder, N
<1> HIDE DEF At_
<1>9. InOrder(S) \in [1..N -> Messages]
  BY <1>2, <1>7, <1>8
<1>10. InOrder(S) \in Seq(Messages) /\ Len(InOrder(S)) = N
  BY <1>1, <1>9
<1> QED
  BY <1>7, <1>8, <1>10

\* The position of a new slot is free.
LEMMA NextAtIs ==
  ASSUME NEW S, Ordered(S)
  PROVE  NextAt(S) \in Nat /\ \A s \in S : s.at # NextAt(S)
<1>1. CASE S = {}
  BY <1>1 DEF NextAt
<1>2. CASE S # {}
  <2> DEFINE k == [s \in S |-> s.at]
             N == Cardinality(S)
             A == {s.at : s \in S}
  <2>1. IsFiniteSet(S) /\ N \in Nat /\ N # 0
    BY <1>2, FS_CardinalityType, FS_EmptySet DEF Ordered
  <2>2. \A s \in S : s.at \in Nat
    BY DEF Ordered, Slots
  <2>3. k \in [S -> Int] /\ \A s, t \in S : k[s] = k[t] => s = t
    BY <2>2 DEF Ordered
  <2>4. N \in 1..N
    BY <2>1
  <2>5. PICK m \in S : Cardinality(Upto(S, k, m)) = N
    <3> HIDE DEF k
    <3> QED
      BY <2>1, <2>3, <2>4, RankExists, Zenon
  <2>6. Upto(S, k, m) = S
    <3>1. Upto(S, k, m) \in SUBSET S
      BY DEF Upto
    <3> QED
      BY <2>1, <2>5, <3>1, FS_Subset
  <2>7. \A s \in S : s.at <= m.at
    BY <2>6 DEF Upto
  <2>8. m.at \in A /\ \A y \in A : m.at >= y
    BY <2>2, <2>7
  <2>9. Max(A) \in A /\ \A y \in A : Max(A) >= y
    <3> HIDE DEF A
    <3> QED
      BY <2>8, Zenon DEF Max
  <2>10. Max(A) \in Nat /\ \A s \in S : Max(A) >= s.at
    BY <2>2, <2>9
  <2>11. NextAt(S) = 1 + Max(A)
    BY <1>2, Zenon DEF NextAt
  <2> HIDE DEF A
  <2> QED
    BY <2>2, <2>10, <2>11
<1> QED
  BY <1>1, <1>2

\* Admission keeps the order.
LEMMA AdmitOrdered ==
  ASSUME NEW S, Ordered(S), NEW binding \in Turns, NEW m \in Messages
  PROVE  Ordered(AdmitPending(S, binding, m))
<1> DEFINE x == [id |-> m, binding |-> binding, phase |-> "pending", at |-> NextAt(S)]
<1>1. x \in Slots /\ \A s \in S : s.at # x.at
  BY NextAtIs DEF Slots
<1>2. AdmitPending(S, binding, m) = S \cup {x}
  BY DEF AdmitPending
<1>3. IsFiniteSet(S \cup {x})
  BY FS_AddElement DEF Ordered
<1> HIDE DEF x
<1> QED
  BY <1>1, <1>2, <1>3 DEF Ordered

\* So do the phases of a delivery.
LEMMA AdvanceOrdered ==
  ASSUME NEW S, Ordered(S), NEW binding, NEW from, NEW to \in {"pending", "projecting", "delivered"}
  PROVE  Ordered(Advance(S, binding, from, to))
<1> DEFINE f == [s \in S |-> IF s.binding = binding /\ s.phase = from THEN [s EXCEPT !.phase = to] ELSE s]
           T == Advance(S, binding, from, to)
<1>1. \A s \in S : f[s] \in Slots /\ f[s].at = s.at
  <2> SUFFICES ASSUME NEW s \in S PROVE f[s] \in Slots /\ f[s].at = s.at
    OBVIOUS
  <2>1. s \in Slots
    BY DEF Ordered
  <2>2. [s EXCEPT !.phase = to] \in Slots /\ [s EXCEPT !.phase = to].at = s.at
    BY <2>1 DEF Slots
  <2> QED
    BY <2>1, <2>2
<1>2. T = {f[s] : s \in S}
  BY DEF Advance
<1> HIDE DEF f, T
<1>3. \A x \in T : \E s \in S : x = f[s]
  BY <1>2
<1>4. T \subseteq Slots /\ \A x, y \in T : x.at = y.at => x = y
  BY <1>1, <1>3 DEF Ordered
<1>5. f \in Surjection(S, T)
  <2>1. DOMAIN f = S /\ f \in [S -> T]
    BY <1>2 DEF f
  <2> QED
    BY <1>3, <2>1 DEF Surjection
<1>6. IsFiniteSet(T)
  BY <1>5, FS_Surjection DEF Ordered
<1> QED
  BY <1>4, <1>6 DEF Ordered, T

\* Some of the slots are in order as well.
LEMMA SomeOrdered ==
  ASSUME NEW S, Ordered(S), NEW T \in SUBSET S
  PROVE  Ordered(T)
<1>1. IsFiniteSet(T)
  BY FS_Subset DEF Ordered
<1> QED
  BY <1>1 DEF Ordered

-----------------------------------------------------------------------------
(***************************************************************************)
(* What the steps do to the queue.                                         *)
(***************************************************************************)
\* The turn that runs is the first of a queue.
Leads(q) == q # <<>> /\ q[1].row = running.prompt

\* A queue of entries is made from another one and keeps the running turn first.
Follows(q, p) == q \in Seq(Entries) /\ (Leads(p) => Leads(q))

\* The prompt of a turn that runs is a row.
RunningRow == running # NoTurn => running.prompt \in Rows

\* Only a turn that runs is the first of a queue.
LEMMA LeadsRuns ==
    ASSUME NEW q \in Seq(Entries), Leads(q)
    PROVE running # NoTurn
<1>1. q[1] \in Entries
  BY DEF Leads
<1>2. running.prompt \in Rows
  BY <1>1 DEF Leads, Entries
<1> QED BY <1>2, ConstantsAssumption DEF NoTurn, Turn

\* The two ways to say that it is.
LEMMA AtFrontLeads ==
    ASSUME pending \in Seq(Entries), RunningRow
    PROVE AtFront <=> Leads(pending)
<1>1. AtFront => Leads(pending)
  BY ConstantsAssumption DEF AtFront, FrontRow, Leads, RunningRow
<1>2. Leads(pending) => AtFront
  BY LeadsRuns DEF AtFront, FrontRow, Leads
<1> QED BY <1>1, <1>2

\* A nonempty set of numbers has a least one.
LEMMA MinIs ==
    ASSUME NEW S \in SUBSET Nat, S # {}
    PROVE Min(S) \in S /\ \A y \in S : Min(S) <= y
<1>1. \E x \in S : \A y \in S : ~(<<y, x>> \in OpToRel(<, Nat))
  BY WFMin, NatLessThanWellFounded
<1>2. PICK x \in S : \A y \in S : ~(<<y, x>> \in OpToRel(<, Nat))
  BY <1>1
<1>3. \A y \in S : ~(y < x)
  BY <1>2 DEF OpToRel
<1>4. \A y \in S : x <= y
  BY <1>3
<1> QED BY <1>2, <1>4, Zenon DEF Min

\* Behind the last.
LEMMA AppendFollows ==
    ASSUME NEW q \in Seq(Entries), NEW e \in Entries
    PROVE Follows(Append(q, e), q)
  BY DEF Follows, Leads

\* One queue behind another.
LEMMA ConcatFollows ==
    ASSUME NEW q \in Seq(Entries), NEW p \in Seq(Entries)
    PROVE Follows(q \o p, q)
  BY DEF Follows, Leads

\* Inside.
LEMMA InsertFollows ==
    ASSUME NEW q \in Seq(Entries), NEW e \in Entries, NEW i \in 1..(Len(q) + 1), Leads(q) => i # 1
    PROVE Follows(InsertAt(q, i, e), q)
<1> DEFINE a == SubSeq(q, 1, i - 1)
           b == SubSeq(q, i, Len(q))
<1>1. a \in Seq(Entries) /\ b \in Seq(Entries) /\ Len(a) = i - 1 /\ Len(q) \in Nat
  OBVIOUS
<1>2. i # 1 => a[1] = q[1] /\ a # <<>>
  BY <1>1
<1>3. <<e>> \in Seq(Entries)
  OBVIOUS
<1>4. InsertAt(q, i, e) = (a \o <<e>>) \o b
  BY DEF InsertAt
<1> HIDE DEF a, b
<1>5. a \o <<e>> \in Seq(Entries) /\ (i # 1 => (a \o <<e>>)[1] = q[1] /\ (a \o <<e>>) # <<>>)
  BY <1>1, <1>2, <1>3
<1>6. Follows((a \o <<e>>) \o b, a \o <<e>>)
  BY <1>1, <1>5, ConcatFollows
<1> QED BY <1>4, <1>5, <1>6 DEF Follows, Leads

\* A row sent now goes behind the running one.
LEMMA SendNowIndexIs ==
    ASSUME NEW q \in Seq(Entries)
    PROVE SendNowIndex(q) \in 1..(Len(q) + 1) /\ (Leads(q) => SendNowIndex(q) # 1)
<1> DEFINE first == IF running # NoTurn /\ q # <<>> /\ q[1].row = running.prompt THEN 2 ELSE 1
           S == {i \in first..(Len(q) + 1) : i = Len(q) + 1 \/ ~q[i].now}
<1>1. Len(q) \in Nat /\ (q # <<>> => Len(q) >= 1)
  OBVIOUS
<1>2. first \in 1..2 /\ first <= Len(q) + 1 /\ (Leads(q) => first = 2)
  BY <1>1, LeadsRuns DEF Leads
<1>3. SendNowIndex(q) = Min(S)
  BY Zenon DEF SendNowIndex
<1> HIDE DEF first
<1>4. S \in SUBSET Nat /\ Len(q) + 1 \in S /\ \A i \in S : i \in first..(Len(q) + 1)
  BY <1>1, <1>2
<1> HIDE DEF S
<1>5. Min(S) \in S
  BY <1>4, MinIs
<1>6. Min(S) \in first..(Len(q) + 1)
  BY <1>4, <1>5, Zenon
<1> QED BY <1>1, <1>2, <1>3, <1>6

\* What is taken out is not the running turn.
LEMMA WithoutFollows ==
    ASSUME NEW q \in Seq(Entries), NEW rows, running.prompt \notin rows
    PROVE Follows(Without(q, rows), q)
  BY WithoutIs DEF Follows, Leads

\* The rows of a queue are rows.
LEMMA QueuedAreRows ==
    ASSUME NEW q \in Seq(Entries)
    PROVE QueuedRows(q) \subseteq Rows
<1>1. \A i \in DOMAIN q : q[i] \in Entries
  OBVIOUS
<1>2. \A i \in DOMAIN q : q[i].row \in Rows
  BY <1>1 DEF Entries
<1> QED BY <1>2, Zenon DEF QueuedRows

\* The elements of a sequence.
LEMMA RangeIs ==
    ASSUME NEW T, NEW s \in Seq(T)
    PROVE Range(s) \subseteq T /\ \A i \in 1..Len(s) : s[i] \in Range(s)
  BY DEF Range

\* Rows as entries of the queue.
LEMMA EntriesOf ==
    ASSUME NEW s \in Seq(Rows), NEW now \in BOOLEAN
    PROVE [i \in DOMAIN s |-> Entry(s[i], now)] \in Seq(Entries)
<1>1. \A i \in DOMAIN s : Entry(s[i], now) \in Entries
  BY DEF Entry, Entries
<1>2. DOMAIN s = 1..Len(s) /\ Len(s) \in Nat
  OBVIOUS
<1>3. [i \in DOMAIN s |-> Entry(s[i], now)] \in [1..Len(s) -> Entries]
  BY <1>1, <1>2, Zenon
<1> HIDE DEF Entry
<1> QED BY <1>2, <1>3

\* Interjections that were not drained come behind the running turn.
LEMMA FlushedFollows ==
    ASSUME pending \in Seq(Entries), buffer \in Seq(Rows), RunningRow
    PROVE Follows(Flushed, pending)
<1> DEFINE n == [i \in DOMAIN buffer |-> Entry(buffer[i], TRUE)]
<1>1. n \in Seq(Entries)
  BY EntriesOf, Zenon
<1>2. CASE AtFront
  <2> DEFINE a == SubSeq(pending, 1, 1)
             b == SubSeq(pending, 1 + 1, Len(pending))
  <2>1. Flushed = (a \o n) \o b
    BY <1>2, Zenon DEF Flushed
  <2>2. pending # <<>> /\ Len(pending) \in Nat /\ Len(pending) >= 1
    BY <1>2, AtFrontLeads DEF Leads
  <2>3. a \in Seq(Entries) /\ b \in Seq(Entries) /\ a # <<>> /\ a[1] = pending[1]
    BY <2>2
  <2> HIDE DEF a, b, n
  <2>4. a \o n \in Seq(Entries)
    BY <1>1, <2>3
  <2>5. Follows(a \o n, a)
    BY <1>1, <2>3, ConcatFollows
  <2>6. Follows((a \o n) \o b, a \o n)
    BY <2>3, <2>4, ConcatFollows
  <2> QED BY <2>1, <2>3, <2>5, <2>6 DEF Follows, Leads
<1>3. CASE ~AtFront
  <2> DEFINE a == SubSeq(pending, 1, 0)
             b == SubSeq(pending, 0 + 1, Len(pending))
  <2>1. Flushed = (a \o n) \o b
    BY <1>3, Zenon DEF Flushed
  <2>2. a \in Seq(Entries) /\ b \in Seq(Entries)
    OBVIOUS
  <2> HIDE DEF a, b, n
  <2>3. (a \o n) \o b \in Seq(Entries)
    BY <1>1, <2>2
  <2> QED BY <1>3, <2>1, <2>3, AtFrontLeads DEF Follows
<1> QED BY <1>2, <1>3

\* Messages that fall back come behind the last.
LEMMA FallbacksAppend ==
    ASSUME NEW q, Ordered(slots), NEW target, NEW cause
    PROVE \E n \in Seq(Entries) : WithFallbacks(q, target, cause) = q \o n
<1> DEFINE F == Fallbacks(slots, target, cause)
           ids == InOrder(F)
           n == [i \in DOMAIN ids |-> Entry(ids[i], FALSE)]
<1>1. F \in SUBSET slots
  BY DEF Fallbacks, Ended
<1>2. Ordered(F)
  BY <1>1, SomeOrdered
<1>3. ids \in Seq(Messages)
  BY <1>2, InOrderIs
<1>4. ids \in Seq(Rows)
  BY <1>3 DEF Rows
<1>5. n \in Seq(Entries)
  BY <1>4, EntriesOf, Zenon
<1>6. WithFallbacks(q, target, cause) = q \o n
  BY Zenon DEF WithFallbacks
<1> QED BY <1>5, <1>6, Zenon

\* They leave the first of the queue where it is.
LEMMA FallbacksFollow ==
    ASSUME NEW q \in Seq(Entries), Ordered(slots), NEW target, NEW cause
    PROVE Follows(WithFallbacks(q, target, cause), q)
  BY FallbacksAppend, ConcatFollows

\* Prompts promoted into the running turn are rows behind it.
LEMMA PromotedIs ==
    ASSUME pending \in Seq(Entries)
    PROVE Promoted \in Seq(Rows) /\ running.prompt \notin Range(Promoted)
<1> DEFINE P == {i \in DOMAIN pending : /\ pending[i].row # running.prompt
                                        /\ ~RuntimeWake(pending[i].row)}
           others == Kept(pending, P)
           plain(e) == Editable(e.row) /\ ~e.now /\ e.row \notin holds
           stops == {i \in DOMAIN others : ~plain(others[i])}
           m == IF stops = {} THEN Len(others) ELSE Min(stops) - 1
           prefix == SubSeq(others, 1, m)
<1>1. Promoted = IF running.prompt \in Wakes \cup Messages THEN <<>> ELSE [i \in DOMAIN prefix |-> prefix[i].row]
  BY Zenon DEF Promoted
<1>2. P \in SUBSET (1..Len(pending)) /\ \A i \in P : pending[i].row # running.prompt
  OBVIOUS
<1> HIDE DEF P
<1>3. /\ others \in Seq(Entries)
      /\ Len(others) = Cardinality(P)
      /\ \A n \in 1..Cardinality(P) : others[n] = pending[Nth(P, n)] /\ Nth(P, n) \in P
  <2>1. Len(pending) \in Nat
    OBVIOUS
  <2> QED BY <1>2, <2>1, KeptIs, NthPlace
<1>4. \A n \in 1..Len(others) : others[n].row \in Rows \ {running.prompt}
  <2>1. \A n \in 1..Len(others) : others[n] \in Entries
    BY <1>3
  <2>2. \A n \in 1..Len(others) : others[n].row \in Rows
    BY <2>1 DEF Entries
  <2>3. \A n \in 1..Len(others) : others[n].row # running.prompt
    <3> HIDE DEF others
    <3> QED BY <1>2, <1>3
  <2> QED BY <2>2, <2>3
<1> HIDE DEF others
<1>5. Len(others) \in Nat /\ DOMAIN others = 1..Len(others)
  BY <1>3
<1>6. m \in 0..Len(others)
  <2>1. stops \in SUBSET (1..Len(others)) /\ stops \in SUBSET Nat
    BY <1>5
  <2> HIDE DEF stops
  <2>2. stops # {} => Min(stops) \in stops
    BY <2>1, MinIs
  <2>3. CASE stops = {}
    BY <1>5, <2>3
  <2>4. CASE stops # {}
    <3>1. Min(stops) \in 1..Len(others) /\ m = Min(stops) - 1
      BY <2>1, <2>2, <2>4
    <3> HIDE DEF m
    <3> QED BY <1>5, <3>1
  <2> QED BY <2>3, <2>4
<1> HIDE DEF m
<1>7. DOMAIN prefix = 1..m /\ \A i \in 1..m : prefix[i] = others[i]
  BY <1>3, <1>6
<1> HIDE DEF prefix
<1>8. CASE running.prompt \in Wakes \cup Messages
  <2>1. Promoted = <<>>
    BY <1>1, <1>8
  <2> QED BY <2>1 DEF Range
<1>9. CASE running.prompt \notin Wakes \cup Messages
  <2>1. Promoted = [i \in 1..m |-> prefix[i].row]
    BY <1>1, <1>7, <1>9
  <2>2. \A i \in 1..m : prefix[i].row \in Rows \ {running.prompt}
    BY <1>4, <1>5, <1>6, <1>7
  <2>3. Promoted \in Seq(Rows \ {running.prompt})
    BY <1>6, <2>1, <2>2
  <2>4. Range(Promoted) \subseteq Rows \ {running.prompt}
    BY <2>3, RangeIs
  <2> QED BY <2>3, <2>4
<1> QED BY <1>8, <1>9

-----------------------------------------------------------------------------
(***************************************************************************)
(* The types, and the running turn at the front of the queue.              *)
(***************************************************************************)
Answers == {"new", "rejected", "owed", "merged", "answered"}
Ops == [kind : LeasedKinds \cup RewindKinds \cup {"none", "completion"}, stop : BOOLEAN,
        lease : Turns, torn : Turns, rows : SUBSET Rows, msgs : SUBSET Rows,
        result : {"none", "cancelled", "rewound"}]
Done == [prompt : Rows, epoch : Nat, result : {"done", "cancelled", "failed"}]

QueueTyped == pending \in Seq(Entries) /\ holds \subseteq Rows /\ hooked \in BOOLEAN
TurnTyped ==
    /\ running \in Turns /\ RunningRow
    /\ pin \in Rows \cup {NoRow}
    /\ rewindable \in BOOLEAN /\ committed \in BOOLEAN
    /\ gate \in BOOLEAN
TaskTyped ==
    /\ report \in [epoch : Nat, state : {"free", "gate", "reported"}]
    /\ task \in [pc : TaskPlaces, batch : Seq(Rows)]
    /\ dying \subseteq [prompt : Rows \cup {NoRow}, batch : Seq(Rows)]
    /\ completions \in Seq(Done)
DeliveryTyped == Ordered(slots) /\ buffer \in Seq(Rows)
LoopTyped == pc \in LoopPlaces /\ op \in Ops /\ kicks \in Nat
HistoryTyped == answer \in [Rows -> Answers] /\ seen \in [Rows -> Nat]

Typed == QueueTyped /\ TurnTyped /\ TaskTyped /\ DeliveryTyped /\ LoopTyped /\ HistoryTyped

\* The running turn is the first of the queue, unless its end has been handled
\* and only its lease is left to finish, or the session is over.
RunningLeads ==
    running # NoTurn =>
        Leads(pending) \/ (pc = "settle" /\ Leased) \/ pc \in {"complete", "stopped"}

QueueInv == Typed /\ RunningLeads

\* It is the type invariant of the session.
LEMMA TypedTypeOK == Typed => TypeOK
  BY DEF Typed, QueueTyped, TurnTyped, TaskTyped, DeliveryTyped, LoopTyped, HistoryTyped, TypeOK,
         Answers, Ops, Done, Ordered

\* Whoever is answered, merged, accepted or shown.
LEMMA ReplyTyped ==
    ASSUME answer \in [Rows -> Answers], NEW rows
    PROVE Reply(rows) \in [Rows -> Answers] /\ Merge(rows) \in [Rows -> Answers]
  BY DEF Reply, Merge, Answers

\* The sender of a row has its first answer.
LEMMA AcceptTyped ==
    ASSUME answer \in [Rows -> Answers], NEW r, NEW as \in Answers, NEW rows
    PROVE Accept(r, as) \in [Rows -> Answers] /\ [Reply(rows) EXCEPT ![r] = as] \in [Rows -> Answers]
  BY ReplyTyped DEF Accept

\* What was shown is counted.
LEMMA ShownTyped ==
    ASSUME seen \in [Rows -> Nat], NEW rows
    PROVE Shown(rows) \in [Rows -> Nat]
  BY DEF Shown

\* What a handler begins with.
LEMMA NoTurnTyped == NoTurn \in Turns /\ NoTurn.prompt = NoRow /\ NoTurn.epoch = 0
  BY DEF NoTurn, Turn, Turns

\* A handler begins with what it was asked to do.
LEMMA BegunTyped ==
    ASSUME NEW kind \in LeasedKinds \cup RewindKinds \cup {"none", "completion"}, NEW stop \in BOOLEAN,
           NEW lease \in Turns, NEW rows \in SUBSET Rows
    PROVE Begun(kind, stop, lease, rows) \in Ops
  BY NoTurnTyped DEF Begun, Ops

\* No handler.
LEMMA NoOpTyped == NoOp \in Ops
  BY NoTurnTyped, BegunTyped DEF NoOp

\* No task.
LEMMA NoTaskTyped == NoTask \in [pc : TaskPlaces, batch : Seq(Rows)] /\ NoTask.pc = "none" /\ NoTask.batch = <<>>
  BY DEF NoTask, TaskPlaces

\* A step that changes the queue alone, and tells the senders.
LEMMA QueueStep ==
    ASSUME QueueInv, Follows(pending', pending), holds' \subseteq Rows, hooked' \in BOOLEAN,
           UNCHANGED <<turnVars, gate, report, taskVars, completions, op>>,
           Ordered(slots'), buffer' \in Seq(Rows),
           pc' \in LoopPlaces, pc' = pc \/ pc \notin {"settle", "complete", "stopped"}, kicks' \in Nat,
           answer' \in [Rows -> Answers], seen' \in [Rows -> Nat]
    PROVE QueueInv'
<1> USE DEF QueueInv, Typed
<1>1. QueueTyped' /\ DeliveryTyped' /\ HistoryTyped'
  BY DEF QueueTyped, DeliveryTyped, HistoryTyped, Follows
<1>2. TurnTyped' /\ TaskTyped' /\ LoopTyped'
  BY DEF TurnTyped, TaskTyped, LoopTyped, RunningRow, turnVars, taskVars
<1>3. RunningLeads'
  BY DEF RunningLeads, Follows, Leads, Leased, turnVars
<1> QED BY <1>1, <1>2, <1>3

\* A queue follows itself.
LEMMA SameFollows ==
    ASSUME NEW q \in Seq(Entries)
    PROVE Follows(q, q)
  BY DEF Follows

\* One change of the queue after another.
LEMMA FollowsAfter ==
    ASSUME NEW p, NEW q, NEW r, Follows(q, p), Follows(r, q)
    PROVE Follows(r, p)
  BY DEF Follows

-----------------------------------------------------------------------------
(***************************************************************************)
(* Inputs arrive and are edited.                                           *)
(***************************************************************************)
\* The types that most steps need.
LEMMA TypedFacts ==
    ASSUME QueueInv
    PROVE /\ pending \in Seq(Entries) /\ holds \subseteq Rows /\ hooked \in BOOLEAN
          /\ RunningRow /\ Ordered(slots) /\ buffer \in Seq(Rows) /\ kicks \in Nat
          /\ answer \in [Rows -> Answers] /\ seen \in [Rows -> Nat] /\ pc \in LoopPlaces
  BY DEF QueueInv, Typed, QueueTyped, TurnTyped, DeliveryTyped, LoopTyped, HistoryTyped

\* A row as an entry of the queue.
LEMMA EntryTyped ==
    ASSUME NEW r \in Rows, NEW now \in BOOLEAN
    PROVE Entry(r, now) \in Entries
  BY DEF Entry, Entries

\* A row is sent now, into a queue that follows the present one.
LEMMA SentNowFollows ==
    ASSUME NEW q, Follows(q, pending), NEW r \in Rows
    PROVE Follows(InsertAt(q, SendNowIndex(q), Entry(r, TRUE)), pending)
<1>1. q \in Seq(Entries)
  BY DEF Follows
<1>2. SendNowIndex(q) \in 1..(Len(q) + 1) /\ (Leads(q) => SendNowIndex(q) # 1)
  BY <1>1, SendNowIndexIs
<1>3. Entry(r, TRUE) \in Entries
  BY EntryTyped
<1>4. Follows(InsertAt(q, SendNowIndex(q), Entry(r, TRUE)), q)
  BY <1>1, <1>2, <1>3, InsertFollows
<1> QED BY <1>4, FollowsAfter

\* A prompt arrives: the sweep spares the running turn, and it goes behind it.
LEMMA PromptQueued ==
    ASSUME QueueInv, NEW p \in Prompts, Prompt(p)
    PROVE QueueInv'
<1> DEFINE swept == Without(pending, Preempted)
<1>1. PICK now \in BOOLEAN, goal \in Goals :
           /\ pc = "idle"
           /\ hooked' = FALSE
           /\ \/ /\ pending' = swept
                 /\ buffer' = Append(buffer, p)
                 /\ answer' = [Reply(Preempted) EXCEPT ![p] = "merged"]
                 /\ pc' = "start"
              \/ /\ pending' = InsertAt(swept, SendNowIndex(swept), Entry(p, TRUE))
                 /\ answer' = [Reply(Preempted) EXCEPT ![p] = "owed"]
                 /\ pc' = IF ReplacesTurn(goal) THEN "replace" ELSE "start"
                 /\ UNCHANGED buffer
              \/ /\ pending' = Append(swept, Entry(p, FALSE))
                 /\ answer' = [Reply(Preempted) EXCEPT ![p] = "owed"]
                 /\ pc' = "start"
                 /\ UNCHANGED buffer
           /\ UNCHANGED <<holds, turnVars, gate, report, taskVars, completions, slots, op, kicks, seen>>
  BY Zenon DEF Prompt
<1>2. p \in Rows /\ running.prompt \notin Preempted
  BY DEF Rows, Preempted
<1>3. Follows(swept, pending) /\ swept \in Seq(Entries)
  BY <1>2, TypedFacts, WithoutFollows DEF Follows
<1> HIDE DEF swept
<1>4. /\ Follows(InsertAt(swept, SendNowIndex(swept), Entry(p, TRUE)), pending)
      /\ Follows(Append(swept, Entry(p, FALSE)), pending)
  <2>1. Follows(Append(swept, Entry(p, FALSE)), swept)
    BY <1>2, <1>3, EntryTyped, AppendFollows
  <2> QED BY <1>2, <1>3, <2>1, SentNowFollows, FollowsAfter
<1>5. Follows(pending', pending)
  BY <1>1, <1>3, <1>4
<1>6. /\ [Reply(Preempted) EXCEPT ![p] = "merged"] \in [Rows -> Answers]
      /\ [Reply(Preempted) EXCEPT ![p] = "owed"] \in [Rows -> Answers]
  BY TypedFacts, AcceptTyped DEF Answers
<1>7. answer' \in [Rows -> Answers]
  BY <1>1, <1>6
<1>8. buffer' \in Seq(Rows)
  <2>1. Append(buffer, p) \in Seq(Rows) /\ buffer \in Seq(Rows)
    BY <1>2, TypedFacts
  <2> QED BY <1>1, <2>1
<1>9. pc' \in {"start", "replace"}
  BY <1>1
<1> QED BY <1>1, <1>5, <1>7, <1>8, <1>9, TypedFacts, QueueStep DEF LoopPlaces

\* A row goes behind the last.
LEMMA AppendQueued ==
    ASSUME QueueInv, NEW r \in Rows
    PROVE Follows(Append(pending, Entry(r, FALSE)), pending)
  BY TypedFacts, EntryTyped, AppendFollows

\* So do wakes, messages and notes, or they go to a slot or the buffer.
LEMMA ArrivalsQueued ==
    ASSUME QueueInv, Arrivals
    PROVE QueueInv'
<1>0. /\ \A r : Accept(r, "owed") \in [Rows -> Answers] /\ Accept(r, "merged") \in [Rows -> Answers]
      /\ \A r : Accept(r, "rejected") \in [Rows -> Answers]
  BY TypedFacts, AcceptTyped DEF Answers
<1>1. ASSUME NEW w \in Wakes, Wake(w) PROVE QueueInv'
  <2>1. Follows(pending', pending)
    BY <1>1, AppendQueued DEF Wake, Rows
  <2> QED BY <1>0, <1>1, <2>1, TypedFacts, QueueStep DEF Wake, LoopPlaces, deliveryVars
<1>2. ASSUME NEW n \in Notes, Interject(n) PROVE QueueInv'
  <2>1. n \in Rows
    BY DEF Rows
  <2>2. Follows(InsertFront(pending, n), pending)
    <3> DEFINE i == IF AtFront THEN 2 ELSE 1
    <3>1. Leads(pending) <=> AtFront
      BY TypedFacts, AtFrontLeads
    <3>2. Leads(pending) => Len(pending) >= 1
      BY TypedFacts DEF Leads
    <3>3. i \in 1..(Len(pending) + 1) /\ (Leads(pending) => i # 1)
      BY <3>1, <3>2, TypedFacts
    <3>4. InsertFront(pending, n) = InsertAt(pending, i, Entry(n, TRUE))
      BY Zenon DEF InsertFront
    <3> HIDE DEF i
    <3> QED BY <2>1, <3>3, <3>4, TypedFacts, EntryTyped, InsertFollows
  <2>3. Follows(pending', pending) /\ buffer' \in Seq(Rows) /\ pc' \in {"idle", "start"}
    <3>0. Append(buffer, n) \in Seq(Rows) /\ Follows(pending, pending)
      BY <2>1, TypedFacts, SameFollows
    <3>1. CASE pin # NoRow
      BY <1>2, <3>0, <3>1 DEF Interject
    <3>2. CASE pin = NoRow
      BY <1>2, <2>2, <3>2, TypedFacts DEF Interject
    <3> QED BY <3>1, <3>2
  <2> QED BY <1>0, <1>2, <2>3, TypedFacts, QueueStep DEF Interject, LoopPlaces
<1>3. ASSUME NEW m \in Messages, ParentMessage(m) PROVE QueueInv'
  <2>1. Ordered(AdmitPending(slots, running, m))
    BY TypedFacts, AdmitOrdered DEF QueueInv, Typed, TurnTyped
  <2>2. Follows(Append(pending, Entry(m, FALSE)), pending) /\ Follows(pending, pending)
    BY TypedFacts, AppendQueued, SameFollows DEF Rows
  <2>3. /\ Follows(pending', pending) /\ Ordered(slots')
        /\ answer' \in [Rows -> Answers] /\ pc' \in {"idle", "start"} /\ pc = "idle"
        /\ UNCHANGED <<holds, hooked, turnVars, gate, report, taskVars, completions, buffer, op, kicks, seen>>
    BY <1>0, <1>3, <2>1, <2>2, TypedFacts DEF ParentMessage
  <2> QED BY <2>3, TypedFacts, QueueStep DEF LoopPlaces
<1> QED BY <1>1, <1>2, <1>3, PromptQueued DEF Arrivals

\* A reordered queue moves only rows that are loose.
LEMMA ReorderFollows ==
    ASSUME QueueInv, Reorder
    PROVE Follows(pending', pending)
<1> DEFINE movable == {i \in DOMAIN pending : Loose(pending[i].row)}
<1>1. PICK f \in [movable -> movable] :
        pending' = [i \in DOMAIN pending |-> IF i \in movable THEN pending[f[i]] ELSE pending[i]]
  BY Zenon DEF Reorder
<1>2. DOMAIN pending = 1..Len(pending) /\ Len(pending) \in Nat /\ \A i \in DOMAIN pending : pending[i] \in Entries
  BY TypedFacts
<1>3. movable \subseteq DOMAIN pending
  OBVIOUS
<1>4. \A i \in movable : pending[i].row # running.prompt
  BY Zenon DEF Loose
<1> HIDE DEF movable
<1>5. \A i \in DOMAIN pending : (IF i \in movable THEN pending[f[i]] ELSE pending[i]) \in Entries
  BY <1>2, <1>3
<1>6. pending' \in [1..Len(pending) -> Entries]
  BY <1>1, <1>2, <1>5
<1>7. pending' \in Seq(Entries) /\ Len(pending') = Len(pending)
  BY <1>2, <1>6
<1>8. Leads(pending) => 1 \in DOMAIN pending /\ 1 \notin movable
  BY <1>4, TypedFacts DEF Leads
<1>9. Leads(pending) => pending'[1] = pending[1] /\ pending' # <<>>
  BY <1>1, <1>2, <1>7, <1>8
<1> QED BY <1>7, <1>9 DEF Follows, Leads

\* A queued row is sent now, or becomes an interjection.
LEMMA InterjectQueuedKeeps ==
    ASSUME QueueInv, NEW p \in Edited, InterjectQueued(p)
    PROVE QueueInv'
<1> DEFINE rest == Without(pending, {p})
<1>1. PICK goal \in Goals :
           /\ pc = "idle" /\ Loose(p)
           /\ holds' = holds \ {p}
           /\ \/ /\ pending' = rest
                 /\ buffer' = Append(buffer, p)
                 /\ answer' = Accept(p, "merged")
                 /\ pc' = "start" /\ hooked' = FALSE
              \/ /\ pending' = InsertAt(rest, SendNowIndex(rest), Entry(p, TRUE))
                 /\ IF ReplacesTurn(goal)
                    THEN pc' = "replace" /\ UNCHANGED hooked
                    ELSE pc' = "start" /\ hooked' = FALSE
                 /\ UNCHANGED <<buffer, answer>>
           /\ UNCHANGED <<turnVars, gate, report, taskVars, completions, slots, op, kicks, seen>>
  BY Zenon DEF InterjectQueued
<1>2. p \in Rows /\ running.prompt \notin {p}
  BY <1>1, ConstantsAssumption DEF Rows, Loose
<1>3. Follows(rest, pending)
  BY <1>2, TypedFacts, WithoutFollows
<1> HIDE DEF rest
<1>4. Follows(InsertAt(rest, SendNowIndex(rest), Entry(p, TRUE)), pending)
  BY <1>2, <1>3, SentNowFollows
<1>5. Follows(pending', pending)
  BY <1>1, <1>3, <1>4
<1>6. Append(buffer, p) \in Seq(Rows) /\ Accept(p, "merged") \in [Rows -> Answers]
  <2>1. Append(buffer, p) \in Seq(Rows)
    BY <1>2, TypedFacts
  <2>2. Accept(p, "merged") \in [Rows -> Answers]
    BY TypedFacts, AcceptTyped DEF Answers
  <2> QED BY <2>1, <2>2
<1>7. buffer' \in Seq(Rows) /\ answer' \in [Rows -> Answers] /\ hooked' \in BOOLEAN /\ pc' \in {"start", "replace"}
  BY <1>1, <1>6, TypedFacts
<1> QED BY <1>1, <1>5, <1>7, TypedFacts, QueueStep DEF LoopPlaces

\* No edit of the queue moves the row of the running turn.
LEMMA QueueEditQueued ==
    ASSUME QueueInv, QueueEdit
    PROVE QueueInv'
<1>0. Follows(pending, pending)
  BY TypedFacts, SameFollows
<1>1. CASE Reorder
  <2>1. /\ pc = "idle" /\ QueueEdited(TRUE)
        /\ UNCHANGED <<holds, buffer, answer>>
    BY <1>1, Zenon DEF Reorder
  <2>2. Follows(pending', pending)
    BY <1>1, ReorderFollows
  <2> QED BY <2>1, <2>2, TypedFacts, QueueStep DEF QueueEdited, LoopPlaces
<1>2. CASE Clear
  <2> DEFINE rows == {r \in QueuedRows(pending) : Loose(r)}
  <2>1. /\ pc = "idle" /\ QueueEdited(TRUE)
        /\ pending' = Without(pending, rows) /\ answer' = Reply(rows)
        /\ UNCHANGED <<holds, buffer>>
    BY <1>2, Zenon DEF Clear
  <2>2. running.prompt \notin rows
    BY DEF Loose
  <2> HIDE DEF rows
  <2>3. Follows(pending', pending) /\ answer' \in [Rows -> Answers]
    BY <2>1, <2>2, TypedFacts, WithoutFollows, ReplyTyped
  <2> QED BY <2>1, <2>3, TypedFacts, QueueStep DEF QueueEdited, LoopPlaces
<1>3. ASSUME NEW p \in Edited, RemoveQueued(p) PROVE QueueInv'
  <2>1. running.prompt \notin {p}
    BY <1>3 DEF RemoveQueued, Loose
  <2>2. Follows(pending', pending) /\ answer' \in [Rows -> Answers]
    BY <1>3, <2>1, TypedFacts, WithoutFollows, ReplyTyped DEF RemoveQueued
  <2> QED BY <1>3, <2>2, TypedFacts, QueueStep DEF RemoveQueued, QueueEdited, LoopPlaces
<1>4. ASSUME NEW p \in Edited, Edit(p) \/ ReleaseEdit(p) PROVE QueueInv'
  BY <1>0, <1>4, TypedFacts, QueueStep DEF Edit, ReleaseEdit, QueueEdited, LoopPlaces
<1>5. ASSUME NEW p \in Edited, HoldEdit(p) PROVE QueueInv'
  <2>1. p \in Rows
    BY ConstantsAssumption DEF Rows
  <2> QED BY <1>0, <1>5, <2>1, TypedFacts, QueueStep DEF HoldEdit, deliveryVars, loopVars, historyVars
<1> QED BY <1>1, <1>2, <1>3, <1>4, <1>5, InterjectQueuedKeeps DEF QueueEdit

-----------------------------------------------------------------------------
(***************************************************************************)
(* Turns start.                                                            *)
(***************************************************************************)
\* maybe_start_running_task, whoever calls it.
LEMMA StartTurnQueued ==
    ASSUME QueueInv, StartTurn,
           UNCHANGED <<gate, dying, completions, deliveryVars, op, seen>>,
           kicks' \in Nat, pc' \in LoopPlaces, pc' = pc \/ pc = "start"
    PROVE QueueInv'
<1>1. CASE UNCHANGED <<queueVars, turnVars, report, task, answer>>
  BY <1>1, TypedFacts, SameFollows, QueueStep DEF queueVars, taskVars, deliveryVars
<1>2. CASE ~StartBlocked
  <2>1. PICK k \in 0..Len(pending) :
          LET q == SubSeq(pending, k + 1, Len(pending))
              stale == {pending[i].row : i \in 1..k}
          IN \E held \in SUBSET (holds \cap QueuedRows(q)) :
                /\ holds' = held
                /\ hooked' = hooked
                /\ \/ /\ pending' = q
                      /\ answer' = Reply(stale)
                      /\ UNCHANGED <<turnVars, report, task>>
                   \/ /\ q # <<>>
                      /\ \E n \in CombineLengths(q, held) :
                           /\ Promote(q, n)
                           /\ pending' = <<q[1]>> \o SubSeq(q, n + 1, Len(q))
                           /\ answer' = [r \in Rows |->
                                           IF \E i \in 2..n : q[i].row = r THEN "merged"
                                           ELSE Reply(stale)[r]]
    BY <1>2, Zenon DEF StartTurn
  <2> DEFINE q == SubSeq(pending, k + 1, Len(pending))
             stale == {pending[i].row : i \in 1..k}
  <2>2. q \in Seq(Entries)
    BY TypedFacts
  <2>3. PICK held \in SUBSET (holds \cap QueuedRows(q)) :
                /\ holds' = held
                /\ hooked' = hooked
                /\ \/ /\ pending' = q
                      /\ answer' = Reply(stale)
                      /\ UNCHANGED <<turnVars, report, task>>
                   \/ /\ q # <<>>
                      /\ \E n \in CombineLengths(q, held) :
                           /\ Promote(q, n)
                           /\ pending' = <<q[1]>> \o SubSeq(q, n + 1, Len(q))
                           /\ answer' = [r \in Rows |->
                                           IF \E i \in 2..n : q[i].row = r THEN "merged"
                                           ELSE Reply(stale)[r]]
    BY <2>1, Zenon
  <2>4. holds' \subseteq Rows /\ hooked' \in BOOLEAN /\ ~Leads(pending)
    BY <1>2, <2>3, TypedFacts, LeadsRuns DEF StartBlocked
  <2>5. Reply(stale) \in [Rows -> Answers]
    BY TypedFacts, ReplyTyped
  <2> HIDE DEF q, stale
  <2>6. CASE pending' = q /\ answer' = Reply(stale) /\ UNCHANGED <<turnVars, report, task>>
    <3>1. Follows(pending', pending)
      BY <2>2, <2>4, <2>6 DEF Follows
    <3> QED BY <2>4, <2>5, <2>6, <3>1, TypedFacts, QueueStep DEF taskVars, deliveryVars
  <2>7. ASSUME q # <<>>, NEW n \in CombineLengths(q, held), Promote(q, n),
               pending' = <<q[1]>> \o SubSeq(q, n + 1, Len(q)),
               answer' = [r \in Rows |->
                            IF \E i \in 2..n : q[i].row = r THEN "merged" ELSE Reply(stale)[r]]
        PROVE QueueInv'
    <3>1. q[1] \in Entries /\ q[1].row \in Rows /\ Len(q) \in Nat /\ Len(q) >= 1
      <4>1. Len(q) \in Nat /\ Len(q) >= 1 /\ q[1] \in Entries
        BY <2>2, <2>7
      <4> QED BY <4>1 DEF Entries
    <3>2. n \in 1..Len(q)
      BY <3>1 DEF CombineLengths
    <3>3. pending' \in Seq(Entries) /\ pending' # <<>> /\ pending'[1] = q[1]
      <4>1. SubSeq(q, n + 1, Len(q)) \in Seq(Entries) /\ <<q[1]>> \in Seq(Entries)
        BY <2>2, <3>1, <3>2
      <4> QED BY <2>7, <4>1
    <3>4. answer' \in [Rows -> Answers]
      BY <2>5, <2>7 DEF Answers
    <3>5. \A i \in 1..(n - 1) : q[i + 1].row \in Rows
      <4>1. \A i \in 1..(n - 1) : q[i + 1] \in Entries
        BY <2>2, <3>1, <3>2
      <4> QED BY <4>1 DEF Entries
    <3>6. [i \in 1..(n - 1) |-> q[i + 1].row] \in Seq(Rows)
      <4>1. n - 1 \in Nat
        BY <3>1, <3>2
      <4> QED BY <3>5, <4>1
    <3>7. TaskTyped'
      BY <2>7, <3>6 DEF Promote, TaskTyped, TaskPlaces, QueueInv, Typed
    <3>8. running' = Turn(q[1].row, report.epoch + 1) /\ report.epoch \in Nat
      BY <2>7 DEF Promote, QueueInv, Typed, TaskTyped
    <3>9. running' \in Turns /\ running'.prompt = q[1].row
      BY <3>1, <3>8 DEF Turn, Turns
    <3>10. TurnTyped'
      BY <2>7, <3>1, <3>9 DEF Promote, TurnTyped, RunningRow, QueueInv, Typed
    <3>11. RunningLeads'
      BY <3>3, <3>9 DEF RunningLeads, Leads
    <3>12. QueueTyped' /\ DeliveryTyped' /\ LoopTyped' /\ HistoryTyped'
      BY <2>4, <3>3, <3>4, TypedFacts
         DEF QueueTyped, DeliveryTyped, LoopTyped, HistoryTyped, QueueInv, Typed, deliveryVars
    <3> QED BY <3>7, <3>10, <3>11, <3>12 DEF QueueInv, Typed
  <2> QED BY <2>3, <2>6, <2>7
<1> QED BY <1>1, <1>2, Zenon DEF StartTurn

-----------------------------------------------------------------------------
(***************************************************************************)
(* Turns are cancelled and complete.                                       *)
(***************************************************************************)
\* What a claim leaves, given the queue.
LEMMA ClaimQueued ==
    ASSUME QueueInv, pc \in {"idle", "replace"},
           NEW kind \in LeasedKinds, NEW stop \in BOOLEAN, NEW early \in BOOLEAN,
           Claim(kind, stop, early),
           Follows(pending', pending), UNCHANGED <<holds, hooked, turnVars, completions, slots, kicks, seen>>,
           buffer' \in Seq(Rows), answer' \in [Rows -> Answers]
    PROVE QueueInv'
<1> USE DEF QueueInv, Typed
<1>1. FrontRow \in Rows \cup {NoRow}
  <2>1. pending # <<>> => pending[1] \in Entries
    BY TypedFacts
  <2> QED BY <2>1 DEF FrontRow, Entries
<1>2. CurrentLease \in Turns
  BY <1>1 DEF CurrentLease, Turn, Turns, TurnTyped
<1>3. Begun(kind, stop, CurrentLease, {}) \in Ops
  <2>1. {} \in SUBSET Rows /\ kind \in LeasedKinds \cup RewindKinds \cup {"none", "completion"}
    OBVIOUS
  <2> QED BY <1>2, <2>1, BegunTyped
<1>4. LoopTyped'
  BY <1>3 DEF Claim, LoopTyped, LoopPlaces
<1>5. QueueTyped' /\ DeliveryTyped' /\ HistoryTyped'
  BY DEF QueueTyped, DeliveryTyped, HistoryTyped, Follows
<1>6. TurnTyped'
  BY DEF TurnTyped, RunningRow, turnVars, Claim
<1>7. TaskTyped'
  <2>1. CASE UNCHANGED <<taskVars, report>>
    BY <2>1 DEF TaskTyped, taskVars
  <2>2. CASE AbortTask /\ report' = ReleaseAborted(running.epoch)
    <3>1. report' \in [epoch : Nat, state : {"free", "gate", "reported"}]
      BY <2>2 DEF TaskTyped, ReleaseAborted
    <3>2. task' \in [pc : TaskPlaces, batch : Seq(Rows)]
      BY <2>2, NoTaskTyped DEF AbortTask
    <3>3. dying' \subseteq [prompt : Rows \cup {NoRow}, batch : Seq(Rows)]
      <4>1. [prompt |-> running.prompt, batch |-> task.batch] \in [prompt : Rows \cup {NoRow}, batch : Seq(Rows)]
        BY DEF TaskTyped, TurnTyped, Turns
      <4> QED BY <2>2, <4>1 DEF AbortTask, TaskTyped
    <3> QED BY <3>1, <3>2, <3>3 DEF TaskTyped
  <2> QED BY <2>1, <2>2 DEF Claim
<1>8. RunningLeads'
  BY DEF RunningLeads, Follows, Leads, turnVars
<1> QED BY <1>4, <1>5, <1>6, <1>7, <1>8

\* The abort of a task, alone.
LEMMA AbortTyped ==
    ASSUME QueueInv, AbortTask
    PROVE /\ task' \in [pc : TaskPlaces, batch : Seq(Rows)]
          /\ dying' \subseteq [prompt : Rows \cup {NoRow}, batch : Seq(Rows)]
<1> USE DEF QueueInv, Typed
<1>1. [prompt |-> running.prompt, batch |-> task.batch] \in [prompt : Rows \cup {NoRow}, batch : Seq(Rows)]
  BY DEF TaskTyped, TurnTyped, Turns
<1> QED BY <1>1, NoTaskTyped DEF AbortTask, TaskTyped

\* Slots that remain, and ids of those that end.
LEMMA DisposalTyped ==
    ASSUME Ordered(slots), NEW target, NEW cause
    PROVE /\ Ordered(Remaining(slots, target))
          /\ IdsOf(Completions(slots, target, cause)) \subseteq Rows
<1>1. Remaining(slots, target) \in SUBSET slots
  BY DEF Remaining
<1>2. \A s \in Completions(slots, target, cause) : s \in Slots
  BY DEF Completions, Ended, Ordered
<1>3. \A s \in Completions(slots, target, cause) : s.id \in Rows
  BY <1>2 DEF Slots, Rows
<1> QED BY <1>1, <1>3, SomeOrdered DEF IdsOf

\* The rest of a queue whose front is popped.
LEMMA TailTyped ==
    ASSUME NEW q \in Seq(Entries), q # <<>>
    PROVE Tail(q) \in Seq(Entries)
  OBVIOUS

\* A named cancel pops the front with the turn that runs, or pops nothing.
LEMMA CancelNamedQueued ==
    ASSUME QueueInv, CancelNamed
    PROVE QueueInv'
<1>0. /\ pending \in Seq(Entries) /\ buffer \in Seq(Rows) /\ Ordered(slots) /\ answer \in [Rows -> Answers]
      /\ report \in [epoch : Nat, state : {"free", "gate", "reported"}] /\ RunningRow
      /\ <<>> \in Seq(Rows)
  BY TypedFacts DEF QueueInv, Typed, TaskTyped
<1>1. PICK p \in Prompts, stop \in BOOLEAN :
        LET target == {Turn(p, report.epoch)}
        IN /\ pc = "idle"
           /\ buffer' = <<>>
           /\ \/ /\ answer' = Reply(Range(buffer))
                 /\ pc' = "start"
                 /\ UNCHANGED <<pending, running, rewindable, slots, taskVars, report, op>>
              \/ /\ FrontRow = p
                 /\ answer' = Reply(Range(buffer))
                 /\ IF running.prompt = p
                    THEN /\ AbortTask /\ report' = ReleaseAborted(report.epoch)
                         /\ running' = NoTurn
                    ELSE UNCHANGED <<taskVars, report, running>>
                 /\ rewindable' = FALSE
                 /\ pending' = Tail(WithFallbacks(pending, target, "rewind"))
                 /\ slots' = Remaining(slots, target)
                 /\ op' = [Begun("named", FALSE, NoTurn, {p}) EXCEPT
                             !.result = "rewound",
                             !.msgs = IdsOf(Completions(slots, target, "rewind"))]
                 /\ pc' = "settle"
              \/ /\ answer' = Reply(Range(buffer))
                 /\ op' = Begun("named", stop, NoTurn, {p})
                 /\ pc' = "teardown"
                 /\ UNCHANGED <<pending, running, rewindable, slots, taskVars, report>>
           /\ UNCHANGED <<holds, hooked, pin, committed, gate, completions, kicks, seen>>
  BY Zenon DEF CancelNamed
<1> DEFINE target == {Turn(p, report.epoch)}
<1>2. Reply(Range(buffer)) \in [Rows -> Answers]
  BY <1>0, ReplyTyped
<1>3. p \in Rows /\ {p} \in SUBSET Rows
  BY DEF Rows
<1>4. Begun("named", stop, NoTurn, {p}) \in Ops /\ Begun("named", FALSE, NoTurn, {p}) \in Ops
  <2>1. "named" \in LeasedKinds \cup RewindKinds \cup {"none", "completion"}
    BY DEF RewindKinds
  <2> QED BY <1>3, <2>1, NoTurnTyped, BegunTyped
<1>5. CASE /\ pc' \in {"start", "teardown"} /\ op' \in Ops
           /\ UNCHANGED <<pending, running, rewindable, slots, taskVars, report>>
  <2>1. TurnTyped' /\ TaskTyped'
    BY <1>1, <1>5 DEF QueueInv, Typed, TurnTyped, TaskTyped, RunningRow, taskVars
  <2>2. QueueTyped' /\ DeliveryTyped' /\ LoopTyped' /\ HistoryTyped'
    BY <1>0, <1>1, <1>2, <1>5
       DEF QueueInv, Typed, QueueTyped, DeliveryTyped, LoopTyped, HistoryTyped, LoopPlaces
  <2>3. RunningLeads'
    BY <1>1, <1>5 DEF QueueInv, RunningLeads, Leads
  <2> QED BY <2>1, <2>2, <2>3 DEF QueueInv, Typed
<1>6. CASE /\ FrontRow = p
           /\ answer' = Reply(Range(buffer))
           /\ IF running.prompt = p
              THEN /\ AbortTask /\ report' = ReleaseAborted(report.epoch)
                   /\ running' = NoTurn
              ELSE UNCHANGED <<taskVars, report, running>>
           /\ rewindable' = FALSE
           /\ pending' = Tail(WithFallbacks(pending, target, "rewind"))
           /\ slots' = Remaining(slots, target)
           /\ op' = [Begun("named", FALSE, NoTurn, {p}) EXCEPT
                       !.result = "rewound",
                       !.msgs = IdsOf(Completions(slots, target, "rewind"))]
           /\ pc' = "settle"
  <2>1. Ordered(slots') /\ IdsOf(Completions(slots, target, "rewind")) \in SUBSET Rows
    BY <1>0, <1>6, DisposalTyped
  <2>2. op' \in Ops
    <3> DEFINE b == Begun("named", FALSE, NoTurn, {p})
               m == IdsOf(Completions(slots, target, "rewind"))
    <3>1. b \in Ops /\ m \in SUBSET Rows /\ op' = [b EXCEPT !.result = "rewound", !.msgs = m]
      BY <1>4, <1>6, <2>1
    <3> HIDE DEF b, m
    <3> QED BY <3>1 DEF Ops
  <2>3. pending # <<>>
    BY <1>3, <1>6, ConstantsAssumption DEF FrontRow
  <2>4. pending' \in Seq(Entries)
    <3> DEFINE q == WithFallbacks(pending, target, "rewind")
    <3>1. q \in Seq(Entries)
      BY <1>0, FallbacksFollow DEF Follows
    <3>2. q # <<>>
      <4>1. \E n \in Seq(Entries) : q = pending \o n
        BY <1>0, FallbacksAppend
      <4> QED BY <1>0, <2>3, <4>1
    <3> HIDE DEF q
    <3>3. Tail(q) \in Seq(Entries)
      BY <3>1, <3>2, TailTyped
    <3> QED BY <1>6, <3>3 DEF q
  <2>5. QueueTyped' /\ DeliveryTyped' /\ LoopTyped' /\ HistoryTyped'
    BY <1>0, <1>1, <1>2, <1>6, <2>1, <2>2, <2>4
       DEF QueueInv, Typed, QueueTyped, DeliveryTyped, LoopTyped, HistoryTyped, LoopPlaces
  <2>6. running' = NoTurn
    <3>1. running # NoTurn => Leads(pending)
      BY <1>1 DEF QueueInv, RunningLeads
    <3>2. running # NoTurn => running.prompt = p
      BY <1>6, <3>1 DEF Leads, FrontRow
    <3> QED BY <1>6, <3>2
  <2>7. TurnTyped' /\ RunningLeads'
    BY <1>1, <1>6, <2>6, NoTurnTyped DEF QueueInv, Typed, TurnTyped, RunningRow, RunningLeads
  <2>8. TaskTyped'
    <3>1. CASE running.prompt = p
      <4>1. report' \in [epoch : Nat, state : {"free", "gate", "reported"}]
        BY <1>0, <1>6, <3>1 DEF ReleaseAborted
      <4> QED BY <1>1, <1>6, <3>1, <4>1, AbortTyped DEF QueueInv, Typed, TaskTyped
    <3>2. CASE running.prompt # p
      BY <1>1, <1>6, <3>2 DEF QueueInv, Typed, TaskTyped, taskVars
    <3> QED BY <3>1, <3>2
  <2> QED BY <2>5, <2>7, <2>8 DEF QueueInv, Typed
<1>7. op \in Ops
  BY DEF QueueInv, Typed, LoopTyped
<1> QED BY <1>1, <1>4, <1>5, <1>6, <1>7

\* A report is filed or left alone.
LEMMA ReportTyped ==
    ASSUME NEW slot \in [epoch : Nat, state : {"free", "gate", "reported"}], NEW epoch, NEW interrupt
    PROVE Reported(slot, epoch, interrupt) \in [epoch : Nat, state : {"free", "gate", "reported"}]
  BY DEF Reported

\* The claim of an aborted task is released.
LEMMA ReleaseTyped ==
    ASSUME report \in [epoch : Nat, state : {"free", "gate", "reported"}], NEW epoch
    PROVE ReleaseAborted(epoch) \in [epoch : Nat, state : {"free", "gate", "reported"}]
  BY DEF ReleaseAborted

\* The teardown pops the front, and leaves the lease or no turn at all.
LEMMA TeardownQueued ==
    ASSUME QueueInv, Teardown
    PROVE QueueInv'
<1> DEFINE hard == op.kind \in {"hard", "shutdown"}
           pops == op.kind = "legacy" /\ rewindable /\ Poppable(FrontRow)
           live == running # NoTurn
           epoch == IF Leased THEN op.lease.epoch ELSE report.epoch
           cause == IF hard THEN "hardTeardown" ELSE IF pops THEN "rewind" ELSE "softCancel"
           target == IF hard \/ pops \/ ~live THEN AllBindings(slots) ELSE {running}
           queue == WithFallbacks(pending, target, cause)
           front == IF queue = <<>> THEN {} ELSE {queue[1].row}
           wakes == IF op.stop /\ ~pops /\ ~hard THEN (QueuedRows(queue) \cap Wakes) \ front ELSE {}
           freed == IF live THEN ReleaseAborted(epoch) ELSE report
           rows == IF hard THEN QueuedRows(queue) ELSE front
           msgs == IdsOf(Completions(slots, target, cause))
           result == IF pops THEN "rewound" ELSE "cancelled"
<1>1. /\ pc = "teardown"
      /\ IF live THEN AbortTask ELSE UNCHANGED taskVars
      /\ report' = IF live /\ ~pops /\ CancelReason THEN Reported(freed, epoch, TRUE) ELSE freed
      /\ pending' = IF hard THEN <<>> ELSE Without(queue, front \cup wakes)
      /\ slots' = Remaining(slots, target)
      /\ answer' = Reply(wakes)
      /\ running' = IF Leased THEN running ELSE NoTurn
      /\ rewindable' = (rewindable /\ ~pops)
      /\ op' = [op EXCEPT !.torn = running, !.rows = rows, !.msgs = msgs, !.result = result]
      /\ pc' = "settle"
      /\ UNCHANGED <<holds, hooked, pin, committed, gate, completions, buffer, kicks, seen>>
  BY Zenon DEF Teardown
<1>2. /\ pending \in Seq(Entries) /\ Ordered(slots) /\ answer \in [Rows -> Answers]
      /\ report \in [epoch : Nat, state : {"free", "gate", "reported"}]
      /\ running \in Turns /\ op \in Ops /\ rewindable \in BOOLEAN
  BY TypedFacts DEF QueueInv, Typed, TaskTyped, TurnTyped, LoopTyped
<1>3. queue \in Seq(Entries)
  BY <1>2, FallbacksFollow DEF Follows
<1>4. result \in {"none", "cancelled", "rewound"} /\ rewindable' \in BOOLEAN
  BY <1>1
<1> HIDE DEF pops, target, cause, queue, result
<1>5. Ordered(slots') /\ msgs \in SUBSET Rows
  BY <1>1, <1>2, DisposalTyped
<1>6. rows \in SUBSET Rows
  <2>1. QueuedRows(queue) \subseteq Rows
    BY <1>3, QueuedAreRows
  <2>2. queue # <<>> => queue[1].row \in QueuedRows(queue)
    <3>1. queue # <<>> => 1 \in DOMAIN queue
      BY <1>3
    <3> QED BY <3>1, Zenon DEF QueuedRows
  <2> QED BY <2>1, <2>2
<1> HIDE DEF rows, msgs, front, wakes
<1>7. op' \in Ops /\ op'.kind = op.kind
  BY <1>1, <1>2, <1>4, <1>5, <1>6 DEF Ops
<1>8. pending' \in Seq(Entries)
  <2>1. Without(queue, front \cup wakes) \in Seq(Entries)
    BY <1>3, WithoutIs
  <2> QED BY <1>1, <2>1
<1>9. answer' \in [Rows -> Answers]
  BY <1>1, <1>2, ReplyTyped
<1>10. report' \in [epoch : Nat, state : {"free", "gate", "reported"}]
  <2>1. freed \in [epoch : Nat, state : {"free", "gate", "reported"}]
    BY <1>2, ReleaseTyped
  <2> HIDE DEF freed, epoch
  <2>2. Reported(freed, epoch, TRUE) \in [epoch : Nat, state : {"free", "gate", "reported"}]
    BY <2>1, ReportTyped
  <2> QED BY <1>1, <2>1, <2>2
<1>11. TaskTyped'
  <2>1. CASE running # NoTurn
    BY <1>1, <1>10, <2>1, AbortTyped DEF QueueInv, Typed, TaskTyped
  <2>2. CASE running = NoTurn
    BY <1>1, <1>10, <2>2 DEF QueueInv, Typed, TaskTyped, taskVars
  <2> QED BY <2>1, <2>2
<1>12. TurnTyped'
  BY <1>1, <1>2, <1>4, NoTurnTyped DEF QueueInv, Typed, TurnTyped, RunningRow
<1>13. QueueTyped' /\ DeliveryTyped' /\ LoopTyped' /\ HistoryTyped'
  BY <1>1, <1>5, <1>7, <1>8, <1>9
     DEF QueueInv, Typed, QueueTyped, DeliveryTyped, LoopTyped, HistoryTyped, LoopPlaces
<1>14. RunningLeads'
  BY <1>1, <1>7 DEF RunningLeads, Leased
<1> QED BY <1>11, <1>12, <1>13, <1>14 DEF QueueInv, Typed

\* The end of a lease, of a completion and of the session.
LEMMA SettleQueued ==
    ASSUME QueueInv, Settle
    PROVE QueueInv'
<1>1. answer' \in [Rows -> Answers]
  BY TypedFacts, ReplyTyped DEF Settle
<1>2. pc' \in LoopPlaces /\ op' \in Ops
  BY NoOpTyped DEF Settle, AfterCancel, LoopPlaces
<1>3. TurnTyped'
  BY NoTurnTyped DEF QueueInv, Typed, TurnTyped, RunningRow, Settle
<1>4. QueueTyped' /\ TaskTyped' /\ DeliveryTyped' /\ LoopTyped' /\ HistoryTyped'
  BY <1>1, <1>2 DEF QueueInv, Typed, QueueTyped, TaskTyped, DeliveryTyped, LoopTyped, HistoryTyped,
     Settle, taskVars, deliveryVars
<1>5. RunningLeads'
  BY DEF QueueInv, RunningLeads, Leads, Settle
<1> QED BY <1>3, <1>4, <1>5 DEF QueueInv, Typed

\* A completion pops the front of its own turn.
LEMMA CompleteQueued ==
    ASSUME QueueInv, Complete
    PROVE QueueInv'
<1> DEFINE c == Head(completions)
           target == {Turn(c.prompt, c.epoch)}
           q == WithFallbacks(pending, target, "completion")
           done == {c.prompt} \cup IdsOf(Completions(slots, target, "completion"))
<1>1. /\ pc = "idle" /\ completions # <<>>
      /\ AtFront
      /\ gate' = TRUE
      /\ completions' = Tail(completions)
      /\ pending' = Tail(q)
      /\ slots' = Remaining(slots, target)
      /\ answer' = Reply(done)
      /\ report' = IF c.result = "cancelled" THEN Reported(report, report.epoch, FALSE) ELSE report
      /\ op' = Begun("completion", FALSE, running, {})
      /\ pc' = "complete"
      /\ UNCHANGED <<holds, hooked, turnVars, taskVars, buffer, kicks, seen>>
  BY Zenon DEF Complete, OwnsCompletion
<1> HIDE DEF target, done, c
<1>2. /\ pending \in Seq(Entries) /\ Ordered(slots) /\ answer \in [Rows -> Answers]
      /\ report \in [epoch : Nat, state : {"free", "gate", "reported"}]
      /\ running \in Turns /\ RunningRow /\ completions \in Seq(Done)
  BY TypedFacts DEF QueueInv, Typed, TaskTyped, TurnTyped
<1>3. pending # <<>>
  BY <1>1, <1>2, AtFrontLeads DEF Leads
<1>4. q \in Seq(Entries) /\ q # <<>>
  <2>1. PICK n \in Seq(Entries) : q = pending \o n
    BY <1>2, FallbacksAppend
  <2> HIDE DEF q
  <2> QED BY <1>2, <1>3, <2>1
<1> HIDE DEF q
<1>5. pending' \in Seq(Entries)
  BY <1>1, <1>4, TailTyped
<1>6. Ordered(slots')
  BY <1>1, <1>2, DisposalTyped
<1>7. answer' \in [Rows -> Answers]
  BY <1>1, <1>2, ReplyTyped
<1>8. report' \in [epoch : Nat, state : {"free", "gate", "reported"}]
  BY <1>1, <1>2, ReportTyped
<1>9. op' \in Ops
  <2>1. {} \in SUBSET Rows /\ "completion" \in LeasedKinds \cup RewindKinds \cup {"none", "completion"}
    OBVIOUS
  <2> QED BY <1>1, <1>2, <2>1, BegunTyped
<1>10. completions' \in Seq(Done)
  BY <1>1, <1>2
<1>11. TurnTyped' /\ TaskTyped'
  BY <1>1, <1>8, <1>10 DEF QueueInv, Typed, TurnTyped, RunningRow, TaskTyped, turnVars, taskVars
<1>12. QueueTyped' /\ DeliveryTyped' /\ LoopTyped' /\ HistoryTyped'
  BY <1>1, <1>5, <1>6, <1>7, <1>9
     DEF QueueInv, Typed, QueueTyped, DeliveryTyped, LoopTyped, HistoryTyped, LoopPlaces
<1>13. RunningLeads'
  BY <1>1 DEF RunningLeads
<1> QED BY <1>11, <1>12, <1>13 DEF QueueInv, Typed

\* Nothing is left of a session that is over.
LEMMA DropActorQueued ==
    ASSUME QueueInv, DropActor
    PROVE QueueInv'
<1>1. answer' \in [Rows -> Answers]
  BY TypedFacts, ReplyTyped DEF DropActor
<1>2. <<>> \in Seq(Entries) /\ <<>> \in Seq(Rows) /\ <<>> \in Seq(Done)
  OBVIOUS
<1>3. Ordered({})
  BY FS_EmptySet DEF Ordered
<1>4. QueueTyped' /\ DeliveryTyped' /\ LoopTyped' /\ HistoryTyped'
  BY <1>1, <1>2, <1>3, NoOpTyped
     DEF DropActor, QueueInv, Typed, QueueTyped, DeliveryTyped, LoopTyped, HistoryTyped, LoopPlaces
<1>5. TurnTyped' /\ RunningLeads'
  BY NoTurnTyped DEF DropActor, TurnTyped, RunningRow, RunningLeads
<1>6. TaskTyped'
  BY <1>2, NoTaskTyped DEF DropActor, TaskTyped
<1> QED BY <1>4, <1>5, <1>6 DEF QueueInv, Typed

\* The rest of the loop.
LEMMA LoopStepQueued ==
    ASSUME QueueInv, LoopStep
    PROVE QueueInv'
<1>0. Follows(pending, pending) /\ <<>> \in Seq(Rows)
  BY TypedFacts, SameFollows
<1>1. CASE Start
  BY <1>1, TypedFacts, StartTurnQueued DEF Start, LoopPlaces
<1>2. CASE Replace
  <2>1. Follows(pending', pending)
    BY <1>2, TypedFacts, FlushedFollows DEF Replace
  <2>2. CASE Claim("replace", FALSE, FALSE)
    <3>1. "replace" \in LeasedKinds
      BY DEF LeasedKinds
    <3> QED BY <1>0, <1>2, <2>1, <2>2, <3>1, TypedFacts, ClaimQueued DEF Replace, historyVars
  <2>3. CASE pc' = "idle" /\ UNCHANGED <<gate, op, taskVars, report>>
    BY <1>0, <1>2, <2>1, <2>3, TypedFacts, QueueStep DEF Replace, historyVars, LoopPlaces
  <2> QED BY <1>2, <2>2, <2>3 DEF Replace
<1>3. CASE LoseLease
  <2>1. pc' \in LoopPlaces /\ op' \in Ops /\ pc = "teardown"
    BY <1>3, NoOpTyped DEF LoseLease, LoopPlaces
  <2>2. /\ QueueTyped' /\ TurnTyped' /\ TaskTyped' /\ DeliveryTyped' /\ LoopTyped' /\ HistoryTyped'
    BY <1>3, <2>1 DEF QueueInv, Typed, QueueTyped, TurnTyped, RunningRow, TaskTyped, DeliveryTyped,
       LoopTyped, HistoryTyped, LoseLease, queueVars, turnVars, taskVars, deliveryVars, historyVars
  <2>3. RunningLeads'
    BY <1>3, <2>1 DEF QueueInv, RunningLeads, Leads, LoseLease, queueVars, turnVars
  <2> QED BY <2>2, <2>3 DEF QueueInv, Typed
<1>4. CASE FinishCompletion
  <2>1. TurnTyped' /\ RunningLeads'
    BY <1>4, NoTurnTyped DEF QueueInv, Typed, TurnTyped, RunningRow, RunningLeads, FinishCompletion
  <2>2. QueueTyped' /\ TaskTyped' /\ DeliveryTyped' /\ LoopTyped' /\ HistoryTyped'
    BY <1>4, NoOpTyped DEF QueueInv, Typed, QueueTyped, TaskTyped, DeliveryTyped, LoopTyped, HistoryTyped,
       FinishCompletion, queueVars, taskVars, deliveryVars, historyVars, LoopPlaces
  <2> QED BY <2>1, <2>2 DEF QueueInv, Typed
<1>5. CASE FlushStranded
  <2>1. Follows(pending', pending)
    BY <1>5, TypedFacts, FlushedFollows DEF FlushStranded
  <2> QED BY <1>0, <1>5, <2>1, TypedFacts, QueueStep DEF FlushStranded, historyVars, LoopPlaces
<1>6. CASE SettleAll
  <2> DEFINE all == AllBindings(slots)
             wakes == {r \in QueuedRows(pending) : RuntimeWake(r)}
  <2>1. /\ pc = "settleAll"
        /\ answer' = Reply(wakes \cup IdsOf(Completions(slots, all, "hardTeardown")))
        /\ slots' = Remaining(slots, all)
        /\ pending' = Without(pending, wakes)
        /\ pc' = "stopped"
        /\ UNCHANGED <<holds, hooked, turnVars, gate, report, taskVars, completions, buffer, op, kicks, seen>>
    BY <1>6, Zenon DEF SettleAll
  <2> HIDE DEF all, wakes
  <2>2. pending' \in Seq(Entries) /\ Ordered(slots') /\ answer' \in [Rows -> Answers]
    BY <2>1, TypedFacts, WithoutIs, DisposalTyped, ReplyTyped
  <2>3. QueueTyped' /\ TurnTyped' /\ TaskTyped' /\ DeliveryTyped' /\ LoopTyped' /\ HistoryTyped'
    BY <2>1, <2>2 DEF QueueInv, Typed, QueueTyped, TurnTyped, RunningRow, TaskTyped, DeliveryTyped,
       LoopTyped, HistoryTyped, turnVars, taskVars, LoopPlaces
  <2>4. RunningLeads'
    BY <2>1 DEF RunningLeads
  <2> QED BY <2>3, <2>4 DEF QueueInv, Typed
<1> QED BY <1>1, <1>2, <1>3, <1>4, <1>5, <1>6, TeardownQueued, SettleQueued, DropActorQueued DEF LoopStep

\* The commands that end a turn early.
LEMMA CancelsQueued ==
    ASSUME QueueInv, Cancels
    PROVE QueueInv'
<1>0. Follows(pending, pending) /\ <<>> \in Seq(Rows)
  BY TypedFacts, SameFollows
<1>1. CASE CancelKeep
  <2>1. PICK kind \in CancelKinds \cap {"keep", "hard"}, stop \in BOOLEAN, early \in BOOLEAN :
          /\ pc = "idle"
          /\ buffer' = <<>>
          /\ answer' = Reply(Range(buffer))
          /\ Claim(kind, stop, early) \/ UNCHANGED <<gate, loopVars, taskVars, report>>
          /\ UNCHANGED <<queueVars, turnVars, completions, slots, kicks, seen>>
    BY <1>1 DEF CancelKeep
  <2>2. answer' \in [Rows -> Answers] /\ kind \in LeasedKinds
    BY <2>1, TypedFacts, ReplyTyped DEF LeasedKinds
  <2>3. CASE Claim(kind, stop, early)
    BY <1>0, <2>1, <2>2, <2>3, TypedFacts, ClaimQueued DEF queueVars
  <2>4. CASE UNCHANGED <<gate, loopVars, taskVars, report>>
    BY <1>0, <2>1, <2>2, <2>4, TypedFacts, QueueStep DEF queueVars, loopVars
  <2> QED BY <2>1, <2>3, <2>4
<1>2. CASE CancelLegacy
  <2>1. PICK stop \in BOOLEAN :
          /\ pc = "idle"
          /\ buffer' = <<>>
          /\ answer' = Reply(Range(buffer))
          /\ op' = Begun("legacy", stop, NoTurn, {})
          /\ pc' = "teardown"
          /\ UNCHANGED <<queueVars, turnVars, gate, report, taskVars, completions, slots, kicks, seen>>
    BY <1>2 DEF CancelLegacy
  <2>2. answer' \in [Rows -> Answers]
    BY <2>1, TypedFacts, ReplyTyped
  <2>3. op' \in Ops
    <3>1. {} \in SUBSET Rows /\ "legacy" \in LeasedKinds \cup RewindKinds \cup {"none", "completion"}
      BY DEF RewindKinds
    <3> QED BY <2>1, <3>1, NoTurnTyped, BegunTyped
  <2>4. QueueTyped' /\ TurnTyped' /\ TaskTyped' /\ DeliveryTyped' /\ LoopTyped' /\ HistoryTyped'
    BY <1>0, <2>1, <2>2, <2>3 DEF QueueInv, Typed, QueueTyped, TurnTyped, RunningRow, TaskTyped, DeliveryTyped,
       LoopTyped, HistoryTyped, queueVars, turnVars, taskVars, LoopPlaces
  <2>5. RunningLeads'
    BY <2>1 DEF QueueInv, RunningLeads, Leads, queueVars, turnVars
  <2> QED BY <2>4, <2>5 DEF QueueInv, Typed
<1>3. CASE Shutdown
  <2>1. /\ pc = "idle"
        /\ UNCHANGED <<queueVars, turnVars, completions, deliveryVars, kicks, historyVars>>
    BY <1>3, Zenon DEF Shutdown
  <2>2. CASE Claim("shutdown", FALSE, TRUE)
    <3>1. "shutdown" \in LeasedKinds
      BY DEF LeasedKinds
    <3> QED BY <1>0, <2>1, <2>2, <3>1, TypedFacts, ClaimQueued DEF queueVars, deliveryVars, historyVars
  <2>3. CASE pc' = "settleAll" /\ UNCHANGED <<gate, op, taskVars, report>>
    BY <1>0, <2>1, <2>3, TypedFacts, QueueStep DEF queueVars, deliveryVars, historyVars, LoopPlaces
  <2> QED BY <1>3, <2>2, <2>3 DEF Shutdown
<1>4. CASE CloseChannel
  <2> DEFINE all == AllBindings(slots)
  <2>1. /\ pc = "idle"
        /\ answer' = Reply(IdsOf(Completions(slots, all, "actorDrop")))
        /\ slots' = Remaining(slots, all)
        /\ pc' = "stopped"
        /\ UNCHANGED <<queueVars, turnVars, gate, report, taskVars, completions, buffer, op, kicks, seen>>
    BY <1>4, Zenon DEF CloseChannel
  <2> HIDE DEF all
  <2>2. Ordered(slots') /\ answer' \in [Rows -> Answers]
    BY <2>1, TypedFacts, DisposalTyped, ReplyTyped
  <2> QED BY <1>0, <2>1, <2>2, TypedFacts, QueueStep DEF queueVars, LoopPlaces
<1> QED BY <1>1, <1>2, <1>3, <1>4, CancelNamedQueued DEF Cancels

\* A completion of a former turn changes nothing else.
LEMMA DropStaleQueued ==
    ASSUME QueueInv, DropStaleCompletion
    PROVE QueueInv'
<1>1. completions' \in Seq(Done)
  BY DEF QueueInv, Typed, TaskTyped, DropStaleCompletion
<1>2. QueueTyped' /\ TurnTyped' /\ TaskTyped' /\ DeliveryTyped' /\ LoopTyped' /\ HistoryTyped'
  BY <1>1 DEF QueueInv, Typed, QueueTyped, TurnTyped, RunningRow, TaskTyped, DeliveryTyped, LoopTyped,
     HistoryTyped, DropStaleCompletion, queueVars, turnVars, taskVars, deliveryVars, loopVars, historyVars
<1>3. RunningLeads'
  BY DEF QueueInv, RunningLeads, Leads, Leased, DropStaleCompletion, queueVars, turnVars, loopVars
<1> QED BY <1>2, <1>3 DEF QueueInv, Typed

\* The tasks beside the loop.
LEMMA BackgroundQueued ==
    ASSUME QueueInv, Background
    PROVE QueueInv'
<1>1. CASE DropAborted
  <2>1. PICK d \in dying :
        /\ dying' = dying \ {d}
        /\ buffer' = d.batch \o buffer
        /\ pin' = IF pin = d.prompt THEN NoRow ELSE pin
        /\ UNCHANGED <<queueVars, running, rewindable, committed, gate, report, task,
                       completions, slots, loopVars, kicks, historyVars>>
    BY <1>1 DEF DropAborted
  <2>2. d.batch \in Seq(Rows)
    BY DEF QueueInv, Typed, TaskTyped
  <2>3. buffer' \in Seq(Rows)
    BY <2>1, <2>2, TypedFacts
  <2>4. QueueTyped' /\ TurnTyped' /\ TaskTyped' /\ DeliveryTyped' /\ LoopTyped' /\ HistoryTyped'
    BY <2>1, <2>3 DEF QueueInv, Typed, QueueTyped, TurnTyped, RunningRow, TaskTyped, DeliveryTyped,
       LoopTyped, HistoryTyped, queueVars, loopVars, historyVars
  <2>5. RunningLeads'
    BY <2>1 DEF QueueInv, RunningLeads, Leads, Leased, queueVars, loopVars
  <2> QED BY <2>4, <2>5 DEF QueueInv, Typed
<1>2. CASE Kick
  <2>1. kicks' \in Nat
    BY <1>2, TypedFacts DEF Kick
  <2> QED BY <1>2, <2>1, TypedFacts, StartTurnQueued DEF Kick, loopVars
<1>3. CASE \E r \in Resumes : ResumePushes(r)
  <2>1. PICK r \in Resumes : ResumePushes(r)
    BY <1>3
  <2>2. Follows(pending', pending)
    BY <2>1, AppendQueued DEF ResumePushes, Rows
  <2>3. answer' \in [Rows -> Answers]
    BY <2>1, TypedFacts, AcceptTyped DEF ResumePushes, Answers
  <2>4. kicks' \in Nat
    BY <2>1, TypedFacts DEF ResumePushes
  <2> QED BY <2>1, <2>2, <2>3, <2>4, TypedFacts, QueueStep DEF ResumePushes, deliveryVars, loopVars
<1> QED BY <1>1, <1>2, <1>3 DEF Background

\* A step of the turn's task: it may take rows out of the queue, but not its own.
LEMMA TaskStepQueued ==
    ASSUME QueueInv, Follows(pending', pending), hooked' \in BOOLEAN, UNCHANGED <<holds, running, gate, dying, loopVars, kicks>>,
           pin' = pin \/ pin' = NoRow, rewindable' \in BOOLEAN, committed' \in BOOLEAN,
           report' \in [epoch : Nat, state : {"free", "gate", "reported"}],
           task' \in [pc : TaskPlaces, batch : Seq(Rows)], completions' \in Seq(Done),
           Ordered(slots'), buffer' \in Seq(Rows), answer' \in [Rows -> Answers], seen' \in [Rows -> Nat]
    PROVE QueueInv'
<1>1. QueueTyped' /\ DeliveryTyped' /\ LoopTyped' /\ HistoryTyped'
  BY DEF QueueInv, Typed, QueueTyped, DeliveryTyped, LoopTyped, HistoryTyped, Follows, loopVars
<1>2. TurnTyped' /\ TaskTyped'
  BY DEF QueueInv, Typed, TurnTyped, RunningRow, TaskTyped
<1>3. RunningLeads'
  BY DEF QueueInv, RunningLeads, Follows, Leads, Leased, loopVars
<1> QED BY <1>1, <1>2, <1>3 DEF QueueInv, Typed

\* The steps of the turn itself.
LEMMA TurnTaskQueued ==
    ASSUME TurnInv, QueueInv, TurnTask
    PROVE QueueInv'
<1>1. /\ Follows(pending, pending) /\ <<>> \in Seq(Rows) /\ hooked \in BOOLEAN
      /\ rewindable \in BOOLEAN /\ committed \in BOOLEAN
      /\ report \in [epoch : Nat, state : {"free", "gate", "reported"}]
      /\ task \in [pc : TaskPlaces, batch : Seq(Rows)] /\ completions \in Seq(Done)
      /\ Ordered(slots) /\ buffer \in Seq(Rows) /\ answer \in [Rows -> Answers] /\ seen \in [Rows -> Nat]
  BY TypedFacts, SameFollows DEF QueueInv, Typed, TurnTyped, TaskTyped
<1>2. \A place \in TaskPlaces : [NoTask EXCEPT !.pc = place] \in [pc : TaskPlaces, batch : Seq(Rows)]
  BY NoTaskTyped
<1>3. /\ [NoTask EXCEPT !.pc = "run"] \in [pc : TaskPlaces, batch : Seq(Rows)]
      /\ [NoTask EXCEPT !.pc = "done"] \in [pc : TaskPlaces, batch : Seq(Rows)]
      /\ [NoTask EXCEPT !.pc = "cancelled"] \in [pc : TaskPlaces, batch : Seq(Rows)]
      /\ [NoTask EXCEPT !.pc = "failed"] \in [pc : TaskPlaces, batch : Seq(Rows)]
      /\ [NoTask EXCEPT !.pc = "barrier"] \in [pc : TaskPlaces, batch : Seq(Rows)]
      /\ [NoTask EXCEPT !.pc = "gate"] \in [pc : TaskPlaces, batch : Seq(Rows)]
      /\ task.batch \in Seq(Rows)
  BY <1>1, <1>2 DEF TaskPlaces
<1> USE DEF TaskStep, GoTo, queueVars, deliveryVars, historyVars
<1>4. CASE CommitMessage
  <2>1. task' \in [pc : TaskPlaces, batch : Seq(Rows)] /\ seen' \in [Rows -> Nat]
    BY <1>1, <1>4, ShownTyped DEF CommitMessage
  <2> QED BY <1>1, <1>4, <2>1, TaskStepQueued DEF CommitMessage
<1>5. CASE BeginTurn \/ EndEarly \/ SendUpdate \/ MissBarrier
  BY <1>1, <1>3, <1>5, TaskStepQueued DEF BeginTurn, EndEarly, SendUpdate, MissBarrier
<1>6. CASE BlockPrompt
  BY <1>1, <1>3, <1>6, TaskStepQueued DEF BlockPrompt, loopVars
<1>7. CASE DrainNotes
  <2>1. PICK k \in 0..(IF "steer" \in Features THEN Len(Promoted) ELSE 0) :
          /\ task' = [pc |-> "notes", batch |-> buffer \o SubSeq(Promoted, 1, k)]
          /\ pending' = Without(pending, Range(SubSeq(Promoted, 1, k)))
          /\ answer' = Merge(Range(SubSeq(Promoted, 1, k)))
          /\ buffer' = <<>>
          /\ TaskStep
          /\ UNCHANGED <<hooked, rewindable, committed, report, completions, slots, seen>>
    BY <1>7, Zenon DEF DrainNotes
  <2> DEFINE rows == SubSeq(Promoted, 1, k)
  <2>2. Promoted \in Seq(Rows) /\ running.prompt \notin Range(Promoted)
    BY TypedFacts, PromotedIs
  <2>3. Len(Promoted) \in Nat /\ k \in 0..Len(Promoted)
    BY <2>2
  <2>4. rows \in Seq(Rows) /\ DOMAIN rows = 1..k /\ \A i \in 1..k : rows[i] = Promoted[i] /\ i \in DOMAIN Promoted
    BY <2>2, <2>3
  <2>5. running.prompt \notin Range(rows)
    <3> HIDE DEF rows
    <3> QED BY <2>2, <2>4, Zenon DEF Range
  <2> HIDE DEF rows
  <2>6. Follows(Without(pending, Range(rows)), pending)
    BY <2>5, TypedFacts, WithoutFollows
  <2>7. Merge(Range(rows)) \in [Rows -> Answers]
    BY <1>1, ReplyTyped
  <2>8. [pc |-> "notes", batch |-> buffer \o rows] \in [pc : TaskPlaces, batch : Seq(Rows)]
    <3>1. buffer \o rows \in Seq(Rows) /\ "notes" \in TaskPlaces
      BY <1>1, <2>4 DEF TaskPlaces
    <3> QED BY <3>1
  <2>9. /\ Follows(pending', pending) /\ answer' \in [Rows -> Answers]
        /\ task' \in [pc : TaskPlaces, batch : Seq(Rows)]
    BY <2>1, <2>6, <2>7, <2>8 DEF rows
  <2> QED BY <1>1, <2>1, <2>9, TaskStepQueued
<1>8. CASE SubmitNotes
  <2>1. seen' \in [Rows -> Nat] /\ answer' \in [Rows -> Answers]
    BY <1>1, <1>8, ShownTyped, ReplyTyped DEF SubmitNotes
  <2> QED BY <1>1, <1>3, <1>8, <2>1, TaskStepQueued DEF SubmitNotes
<1>9. CASE RestoreNotes
  <2>1. task.batch \o buffer \in Seq(Rows)
    BY <1>1, <1>3
  <2> QED BY <1>1, <1>3, <1>9, <2>1, TaskStepQueued DEF RestoreNotes
<1>10. CASE TakeMessages
  <2>1. Ordered(slots')
    BY <1>1, <1>10, AdvanceOrdered DEF TakeMessages, BeginDelivery
  <2> QED BY <1>1, <1>3, <1>10, <2>1, TaskStepQueued DEF TakeMessages
<1>11. CASE DeliverMessages
  <2>1. Ordered(slots') /\ seen' \in [Rows -> Nat]
    BY <1>1, <1>11, AdvanceOrdered, ShownTyped DEF DeliverMessages, FinishDelivery
  <2> QED BY <1>1, <1>3, <1>11, <2>1, TaskStepQueued DEF DeliverMessages
<1>12. CASE \E w \in Wakes : ConsumeWake(w)
  <2>1. PICK w \in Wakes : ConsumeWake(w)
    BY <1>12
  <2>2. Follows(pending', pending) /\ answer' \in [Rows -> Answers]
    BY <1>1, <2>1, TypedFacts, WithoutFollows, ReplyTyped DEF ConsumeWake
  <2> QED BY <1>1, <2>1, <2>2, TaskStepQueued DEF ConsumeWake
<1>13. CASE ClaimForGate \/ LeaveGate
  <2>1. report' \in [epoch : Nat, state : {"free", "gate", "reported"}]
    BY <1>1, <1>13 DEF ClaimForGate, LeaveGate
  <2> QED BY <1>1, <1>3, <1>13, <2>1, TaskStepQueued DEF ClaimForGate, LeaveGate
<1>14. CASE EndTurn
  <2>1. report' \in [epoch : Nat, state : {"free", "gate", "reported"}]
    <3>1. Reported(report, report.epoch, FALSE) \in [epoch : Nat, state : {"free", "gate", "reported"}]
      BY <1>1, ReportTyped
    <3> QED BY <1>1, <1>14, <3>1 DEF EndTurn
  <2>2. task' \in [pc : TaskPlaces, batch : Seq(Rows)]
    BY <1>3, <1>14 DEF EndTurn
  <2> QED BY <1>1, <1>14, <2>1, <2>2, TaskStepQueued DEF EndTurn, loopVars
<1>15. CASE SendCompletion
  <2>1. running # NoTurn
    BY <1>15 DEF SendCompletion, TurnInv, TaskOfRunning
  <2>2. [prompt |-> running.prompt, epoch |-> running.epoch, result |-> task.pc] \in Done
    BY <1>15, <2>1 DEF SendCompletion, QueueInv, Typed, TurnTyped, RunningRow, Turns, Done
  <2>3. completions' \in Seq(Done) /\ task' \in [pc : TaskPlaces, batch : Seq(Rows)]
    BY <1>1, <1>15, <2>2, NoTaskTyped DEF SendCompletion
  <2> QED BY <1>1, <1>15, <2>3, TaskStepQueued DEF SendCompletion
<1> QED BY <1>4, <1>5, <1>6, <1>7, <1>8, <1>9, <1>10, <1>11, <1>12, <1>13, <1>14, <1>15 DEF TurnTask

-----------------------------------------------------------------------------
\* It holds when the session starts,
LEMMA InitQueued == Init => QueueInv
<1> SUFFICES ASSUME Init PROVE QueueInv
  OBVIOUS
<1>1. <<>> \in Seq(Entries) /\ <<>> \in Seq(Rows) /\ <<>> \in Seq(Done)
  OBVIOUS
<1>2. Ordered({})
  BY FS_EmptySet DEF Ordered
<1>3. QueueTyped /\ TurnTyped /\ TaskTyped /\ DeliveryTyped /\ RunningLeads
  BY <1>1, <1>2, NoTurnTyped, NoTaskTyped
     DEF Init, QueueTyped, TurnTyped, RunningRow, TaskTyped, DeliveryTyped, RunningLeads
<1>4. LoopTyped /\ HistoryTyped
  BY NoOpTyped DEF Init, LoopTyped, HistoryTyped, LoopPlaces, Answers
<1> QED BY <1>3, <1>4 DEF QueueInv, Typed

\* and every step keeps it.
LEMMA NextQueued ==
    ASSUME TurnInv, QueueInv, [Next]_vars
    PROVE QueueInv'
<1>1. CASE UNCHANGED vars
  BY <1>1, TypedFacts, SameFollows, QueueStep
     DEF vars, queueVars, deliveryVars, loopVars, historyVars
<1> QED BY <1>1, ArrivalsQueued, QueueEditQueued, CancelsQueued, DropStaleQueued, CompleteQueued,
           LoopStepQueued, BackgroundQueued, TurnTaskQueued DEF Next

\* The types, and where the running turn is, in every state of a session.
THEOREM QueueInvariant == Spec => []QueueInv
<1>1. TurnInv /\ QueueInv /\ [Next]_vars => QueueInv'
  BY NextQueued
<1> QED BY <1>1, InitQueued, TurnInvariant, PTL DEF Spec

\* Every variable of the session actor keeps its type.
THEOREM SessionTypeOK == Spec => []TypeOK
<1>1. QueueInv => TypeOK
  BY TypedTypeOK DEF QueueInv
<1> QED BY <1>1, QueueInvariant, PTL

\* The running turn's row is the first of the queue until the handler that ends
\* the turn has claimed it.
THEOREM FrontIsRunningHolds == Spec => []FrontIsRunning
<1>1. TurnInv /\ QueueInv => FrontIsRunning
  <2> SUFFICES ASSUME TurnInv, QueueInv, running # NoTurn, ~gate, pc # "stopped" PROVE AtFront
    BY DEF FrontIsRunning
  <2>1. ~(pc = "settle" /\ Leased) /\ pc # "complete"
    BY DEF TurnInv, Closing, Quiet
  <2>2. Leads(pending)
    BY <2>1 DEF QueueInv, RunningLeads
  <2> QED BY <2>2, TypedFacts, AtFrontLeads
<1> QED BY <1>1, TurnInvariant, QueueInvariant, PTL

-----------------------------------------------------------------------------
(***************************************************************************)
(* What a send-now replaces and what a rewind takes back.                  *)
(***************************************************************************)
\* The message of a turn that is committed was shown to the model.
CommittedSeen == running # NoTurn /\ committed => seen[running.prompt] > 0

\* A send-now goes on only against a turn that is committed, and nobody else
\* ends that turn before its teardown.
ReplacesCommitted ==
    pc = "replace" \/ (pc = "teardown" /\ op.kind = "replace") => running # NoTurn /\ committed

\* The turn whose lease is left to finish is the one that was torn down.
TornIsRunning == pc = "settle" /\ Leased => op.torn = running /\ op.result = "cancelled"

\* The rewind window is that of the turn that runs, or of the one whose cancel
\* has yet to be announced.
WindowOfTurn ==
    rewindable => running # NoTurn \/ (pc = "settle" /\ op.torn # NoTurn /\ op.result = "cancelled")

CancelInv == CommittedSeen /\ ReplacesCommitted /\ SendNowSparesUnseen /\ TornIsRunning /\ WindowOfTurn

SeenGrows == \A r \in Rows : seen'[r] \in Nat /\ seen'[r] >= seen[r]

\* The loop stays or goes on, but not to a place of a cancel.
GoesOn == UNCHANGED loopVars \/ (pc # "settle" /\ pc' \notin {"replace", "teardown", "settle"})

\* A step beside the turn's end.
Apart ==
    /\ UNCHANGED running /\ GoesOn /\ SeenGrows
    /\ committed' = committed \/ (committed' /\ seen'[running.prompt] > 0)
    /\ rewindable' => rewindable

\* Such a step disturbs nothing.
LEMMA ApartKeeps ==
    ASSUME Typed, CancelInv, Apart
    PROVE CancelInv'
<1> USE DEF CancelInv, Apart, GoesOn, loopVars
<1>1. /\ seen \in [Rows -> Nat] /\ RunningRow /\ op \in Ops
      /\ rewindable \in BOOLEAN /\ committed \in BOOLEAN
  BY DEF Typed, HistoryTyped, TurnTyped, LoopTyped
<1>2. CommittedSeen'
  <2> SUFFICES ASSUME running' # NoTurn, committed'
               PROVE seen'[running'.prompt] > 0
    BY DEF CommittedSeen
  <2>1. CASE committed
    <3>1. running.prompt \in Rows /\ seen[running.prompt] > 0
      BY <1>1, <2>1 DEF CommittedSeen, RunningRow
    <3> QED BY <1>1, <3>1 DEF SeenGrows
  <2>2. CASE ~committed
    BY <2>2
  <2> QED BY <2>1, <2>2
<1>3. ReplacesCommitted'
  BY DEF ReplacesCommitted
<1>4. SendNowSparesUnseen'
  <2> SUFFICES ASSUME pc' = "settle", op'.kind = "replace", op'.torn # NoTurn
               PROVE seen'[op'.torn.prompt] > 0
    BY DEF SendNowSparesUnseen
  <2>1. pc = "settle" /\ op' = op
    OBVIOUS
  <2>2. op.torn = running
    BY <2>1 DEF TornIsRunning, Leased, LeasedKinds
  <2>3. running.prompt \in Rows /\ seen[running.prompt] > 0
    BY <1>1, <2>1, <2>2 DEF RunningRow, SendNowSparesUnseen
  <2> QED BY <1>1, <2>1, <2>2, <2>3 DEF SeenGrows
<1>5. TornIsRunning' /\ WindowOfTurn'
  BY DEF TornIsRunning, WindowOfTurn, Leased
<1> QED BY <1>2, <1>3, <1>4, <1>5

\* A turn starts.
LEMMA StartTurnCancel ==
    ASSUME TurnInv, Typed, CancelInv, StartTurn, UNCHANGED <<seen, op>>,
           UNCHANGED pc \/ (pc = "start" /\ pc' = "idle")
    PROVE CancelInv'
<1>1. UNCHANGED turnVars \/ (~StartBlocked /\ \E q, n : Promote(q, n))
  BY Zenon DEF StartTurn
<1>2. CASE UNCHANGED turnVars
  <2>1. SeenGrows
    BY DEF SeenGrows, Typed, HistoryTyped
  <2> QED BY <1>2, <2>1, ApartKeeps DEF Apart, GoesOn, turnVars, loopVars
<1>3. CASE ~StartBlocked /\ \E q, n : Promote(q, n)
  <2>1. PICK q, n : Promote(q, n)
    BY <1>3
  <2>2. running = NoTurn /\ ~gate
    BY <1>3 DEF StartBlocked
  <2>3. running' # NoTurn /\ ~committed'
    BY <2>1 DEF Promote, Turn, NoTurn, Typed, TaskTyped
  <2>4. ~(pc = "settle" /\ Leased)
    BY <2>2 DEF TurnInv, Closing, Quiet
  <2>5. ~(pc' = "replace" \/ (pc' = "teardown" /\ op'.kind = "replace"))
    BY <2>2 DEF CancelInv, ReplacesCommitted
  <2>6. CommittedSeen' /\ WindowOfTurn' /\ ReplacesCommitted'
    BY <2>3, <2>5 DEF CommittedSeen, WindowOfTurn, ReplacesCommitted
  <2>7. SendNowSparesUnseen' /\ TornIsRunning'
    BY <2>4 DEF SendNowSparesUnseen, TornIsRunning, Leased, LeasedKinds
  <2> QED BY <2>6, <2>7 DEF CancelInv
<1> QED BY <1>1, <1>2, <1>3

\* A prompt sent now ends only a turn that the model has seen.
LEMMA SendNowCommitted ==
    ASSUME QueueInv, pc = "idle", NEW goal, ReplacesTurn(goal)
    PROVE running # NoTurn /\ committed
<1>1. Leads(pending)
  BY DEF QueueInv, RunningLeads, ReplacesTurn
<1>2. AtFront
  BY <1>1, TypedFacts, AtFrontLeads
<1> QED BY <1>2 DEF ReplacesTurn, AwaitingCommit

\* The loop goes on to the replacement of such a turn.
LEMMA ReplacingKeeps ==
    ASSUME QueueInv, CancelInv, pc = "idle", pc' = "replace", running # NoTurn, committed,
           UNCHANGED <<turnVars, seen>>
    PROVE CancelInv'
  BY DEF CancelInv, CommittedSeen, ReplacesCommitted, SendNowSparesUnseen, TornIsRunning,
         WindowOfTurn, turnVars

\* What arrives or is edited replaces a committed turn at most.
LEMMA InputCancel ==
    ASSUME QueueInv, CancelInv, Arrivals \/ QueueEdit
    PROVE CancelInv'
<1>0. seen' = seen => SeenGrows
  BY TypedFacts DEF SeenGrows
<1>1. Typed
  BY DEF QueueInv
<1>2. \/ Apart
      \/ /\ pc = "idle" /\ pc' = "replace" /\ UNCHANGED <<turnVars, seen>>
         /\ running # NoTurn /\ committed
  <2> USE DEF Apart, GoesOn, turnVars
  <2>1. ASSUME NEW p \in Prompts, Prompt(p)
        PROVE \/ Apart
              \/ /\ pc = "idle" /\ pc' = "replace" /\ UNCHANGED <<turnVars, seen>>
                 /\ running # NoTurn /\ committed
    <3>1. PICK goal \in Goals :
            /\ pc = "idle"
            /\ pc' = "start" \/ pc' = IF ReplacesTurn(goal) THEN "replace" ELSE "start"
            /\ UNCHANGED <<turnVars, seen>>
      BY <2>1, Zenon DEF Prompt
    <3> QED BY <1>0, <3>1, SendNowCommitted
  <2>2. ASSUME NEW p \in Edited, InterjectQueued(p)
        PROVE \/ Apart
              \/ /\ pc = "idle" /\ pc' = "replace" /\ UNCHANGED <<turnVars, seen>>
                 /\ running # NoTurn /\ committed
    <3>1. PICK goal \in Goals :
            /\ pc = "idle"
            /\ pc' = "start" \/ IF ReplacesTurn(goal) THEN pc' = "replace" ELSE pc' = "start"
            /\ UNCHANGED <<turnVars, seen>>
      BY <2>2, Zenon DEF InterjectQueued
    <3> QED BY <1>0, <3>1, SendNowCommitted
  <2>3. CASE \/ \E w \in Wakes : Wake(w)
             \/ \E m \in Messages : ParentMessage(m)
             \/ \E n \in Notes : Interject(n)
    <3>1. pc = "idle" /\ (pc' = "start" \/ pc' = pc) /\ UNCHANGED <<turnVars, seen>>
      BY <2>3, Zenon DEF Wake, ParentMessage, Interject
    <3> QED BY <1>0, <3>1
  <2>4. CASE \/ Reorder \/ Clear
             \/ \E p \in Edited : RemoveQueued(p) \/ Edit(p) \/ ReleaseEdit(p)
    <3>1. pc = "idle" /\ pc' = "start" /\ UNCHANGED <<turnVars, seen>>
      BY <2>4, Zenon DEF Reorder, Clear, RemoveQueued, Edit, ReleaseEdit, QueueEdited
    <3> QED BY <1>0, <3>1
  <2>5. CASE \E p \in Edited : HoldEdit(p)
    <3>1. UNCHANGED <<turnVars, loopVars, historyVars>>
      BY <2>5, Zenon DEF HoldEdit
    <3> QED BY <1>0, <3>1 DEF loopVars, historyVars
  <2> QED BY <2>1, <2>2, <2>3, <2>4, <2>5 DEF Arrivals, QueueEdit
<1> QED BY <1>1, <1>2, ApartKeeps, ReplacingKeeps

\* The claim names the turn that the replacement found.
LEMMA ClaimCancel ==
    ASSUME QueueInv, CancelInv, pc \in {"idle", "replace"}, NEW kind, NEW stop, NEW early,
           Claim(kind, stop, early), kind = "replace" => pc = "replace", UNCHANGED <<turnVars, seen>>
    PROVE CancelInv'
<1>1. op'.kind = kind /\ pc' = "teardown"
  BY DEF Claim, Begun
<1>2. CommittedSeen' /\ SendNowSparesUnseen' /\ TornIsRunning'
  BY <1>1 DEF CancelInv, CommittedSeen, SendNowSparesUnseen, TornIsRunning, turnVars
<1>3. ReplacesCommitted' /\ WindowOfTurn'
  BY <1>1 DEF CancelInv, ReplacesCommitted, WindowOfTurn, turnVars
<1> QED BY <1>2, <1>3 DEF CancelInv

\* A named cancel at the front of an open window pops the turn that runs.
LEMMA CancelNamedCancel ==
    ASSUME QueueInv, CancelInv, CancelNamed
    PROVE CancelInv'
<1>1. PICK p \in Prompts, stop \in BOOLEAN :
        LET target == {Turn(p, report.epoch)}
        IN /\ pc = "idle"
           /\ \/ /\ pc' = "start"
                 /\ UNCHANGED <<running, rewindable, op>>
              \/ /\ IF running.prompt = p THEN running' = NoTurn ELSE UNCHANGED running
                 /\ rewindable' = FALSE
                 /\ op' = [Begun("named", FALSE, NoTurn, {p}) EXCEPT
                             !.result = "rewound",
                             !.msgs = IdsOf(Completions(slots, target, "rewind"))]
                 /\ pc' = "settle"
              \/ /\ op' = Begun("named", stop, NoTurn, {p})
                 /\ pc' = "teardown"
                 /\ UNCHANGED <<running, rewindable>>
           /\ UNCHANGED <<committed, seen>>
  BY Zenon DEF CancelNamed
<1>2. pc' \in {"teardown", "settle"} => op'.kind = "named"
  <2>1. Begun("named", stop, NoTurn, {p}).kind = "named"
    BY DEF Begun
  <2>2. \A m : [Begun("named", FALSE, NoTurn, {p}) EXCEPT !.result = "rewound", !.msgs = m].kind = "named"
    BY DEF Begun
  <2> QED BY <1>1, <2>1, <2>2
<1>3. (running' = running \/ running' = NoTurn) /\ UNCHANGED <<committed, seen>> /\ pc = "idle" /\ pc' # "replace"
  BY <1>1
<1>4. CommittedSeen' /\ ReplacesCommitted' /\ SendNowSparesUnseen' /\ TornIsRunning'
  BY <1>2, <1>3 DEF CancelInv, CommittedSeen, ReplacesCommitted, SendNowSparesUnseen, TornIsRunning,
     Leased, LeasedKinds
<1>5. rewindable' => running' = running /\ rewindable
  BY <1>1
<1>6. WindowOfTurn'
  BY <1>3, <1>5 DEF CancelInv, WindowOfTurn
<1> QED BY <1>4, <1>6 DEF CancelInv

\* The teardown records the turn it tears down.
LEMMA TeardownCancel ==
    ASSUME QueueInv, CancelInv, Teardown
    PROVE CancelInv'
<1> DEFINE pops == op.kind = "legacy" /\ rewindable /\ Poppable(FrontRow)
<1>1. PICK rows, msgs :
      /\ pc = "teardown"
      /\ running' = IF Leased THEN running ELSE NoTurn
      /\ rewindable' = (rewindable /\ ~pops)
      /\ op' = [op EXCEPT !.torn = running, !.rows = rows, !.msgs = msgs,
                          !.result = IF pops THEN "rewound" ELSE "cancelled"]
      /\ pc' = "settle"
      /\ UNCHANGED <<committed, seen>>
  BY Zenon DEF Teardown
<1> HIDE DEF pops
<1>2. op'.torn = running /\ op'.kind = op.kind /\ op'.result = IF pops THEN "rewound" ELSE "cancelled"
  BY <1>1 DEF QueueInv, Typed, LoopTyped, Ops
<1>3. Leased => ~pops
  BY DEF Leased, LeasedKinds, pops
<1>4. CommittedSeen' /\ ReplacesCommitted'
  BY <1>1 DEF CancelInv, CommittedSeen, ReplacesCommitted
<1>5. SendNowSparesUnseen'
  BY <1>1, <1>2 DEF CancelInv, SendNowSparesUnseen, CommittedSeen, ReplacesCommitted
<1>6. TornIsRunning'
  BY <1>1, <1>2, <1>3 DEF TornIsRunning, Leased
<1>7. WindowOfTurn'
  BY <1>1, <1>2 DEF CancelInv, WindowOfTurn
<1> QED BY <1>4, <1>5, <1>6, <1>7 DEF CancelInv

\* The loop cancels and completes turns.
LEMMA LoopCancel ==
    ASSUME TurnInv, QueueInv, CancelInv, Cancels \/ DropStaleCompletion \/ Complete \/ LoopStep
    PROVE CancelInv'
<1>0. seen' = seen => SeenGrows
  BY TypedFacts DEF SeenGrows
<1>t. Typed
  BY DEF QueueInv
<1>1. CASE CancelKeep
  <2>1. PICK kind \in CancelKinds \cap {"keep", "hard"}, stop \in BOOLEAN, early \in BOOLEAN :
          /\ pc = "idle"
          /\ Claim(kind, stop, early) \/ UNCHANGED loopVars
          /\ UNCHANGED <<turnVars, seen>>
    BY <1>1 DEF CancelKeep
  <2>2. CASE UNCHANGED loopVars
    BY <1>0, <1>t, <2>1, <2>2, ApartKeeps DEF Apart, GoesOn, turnVars
  <2>3. CASE Claim(kind, stop, early)
    BY <2>1, <2>3, ClaimCancel
  <2> QED BY <2>1, <2>2, <2>3
<1>2. CASE Shutdown
  <2>1. pc = "idle" /\ UNCHANGED <<turnVars, historyVars>>
    BY <1>2, Zenon DEF Shutdown
  <2>2. CASE pc' = "settleAll"
    BY <1>0, <1>t, <2>1, <2>2, ApartKeeps DEF Apart, GoesOn, turnVars, historyVars
  <2>3. CASE Claim("shutdown", FALSE, TRUE)
    BY <2>1, <2>3, ClaimCancel DEF historyVars
  <2> QED BY <1>2, <2>2, <2>3 DEF Shutdown
<1>3. CASE Replace
  <2>1. pc = "replace" /\ UNCHANGED <<turnVars, historyVars>>
    BY <1>3, Zenon DEF Replace
  <2>2. CASE pc' = "idle"
    BY <1>0, <1>t, <2>1, <2>2, ApartKeeps DEF Apart, GoesOn, turnVars, historyVars
  <2>3. CASE Claim("replace", FALSE, FALSE)
    BY <2>1, <2>3, ClaimCancel DEF historyVars
  <2> QED BY <1>3, <2>2, <2>3 DEF Replace
<1>4. CASE CancelLegacy
  <2>1. PICK stop : pc = "idle" /\ op' = Begun("legacy", stop, NoTurn, {}) /\ pc' = "teardown" /\ UNCHANGED <<turnVars, seen>>
    BY <1>4, Zenon DEF CancelLegacy
  <2>2. op'.kind = "legacy"
    BY <2>1 DEF Begun
  <2> QED BY <2>1, <2>2 DEF CancelInv, CommittedSeen, ReplacesCommitted, SendNowSparesUnseen,
             TornIsRunning, WindowOfTurn, turnVars
<1>5. CASE CloseChannel \/ DropStaleCompletion \/ Complete \/ FlushStranded \/ SettleAll
  <2>1. /\ UNCHANGED turnVars /\ UNCHANGED seen
        /\ (pc # "settle" /\ pc' \notin {"replace", "teardown", "settle"}) \/ UNCHANGED loopVars
    <3>1. CASE CloseChannel \/ Complete
      <4>1. UNCHANGED turnVars /\ UNCHANGED seen /\ pc = "idle" /\ (pc' = "stopped" \/ pc' = "complete")
        BY <3>1, Zenon DEF CloseChannel, Complete
      <4> QED BY <4>1
    <3>2. CASE DropStaleCompletion
      BY <3>2 DEF DropStaleCompletion, historyVars
    <3>3. CASE FlushStranded \/ SettleAll
      <4>1. UNCHANGED turnVars /\ seen' = seen /\ (pc = "strand" \/ pc = "settleAll") /\ (pc' = "start" \/ pc' = "stopped")
        BY <3>3 DEF FlushStranded, SettleAll, historyVars
      <4> QED BY <4>1
    <3> QED BY <1>5, <3>1, <3>2, <3>3
  <2> QED BY <1>0, <1>t, <2>1, ApartKeeps DEF Apart, GoesOn, turnVars
<1>6. CASE LoseLease
  <2>1. pc = "teardown" /\ pc' \in {"settleAll", "idle"} /\ UNCHANGED turnVars /\ seen' = seen
    BY <1>6 DEF LoseLease, historyVars
  <2> QED BY <1>0, <1>t, <2>1, ApartKeeps DEF Apart, GoesOn, turnVars
<1>7. CASE Start
  BY <1>t, <1>7, StartTurnCancel DEF Start
<1>8. CASE Settle
  <2>1. /\ pc = "settle" /\ pc' \notin {"settle", "replace", "teardown"}
        /\ rewindable' = (rewindable /\ (op.torn = NoTurn \/ op.result = "rewound"))
        /\ running' = IF Leased THEN NoTurn ELSE running
        /\ UNCHANGED <<committed, seen>>
    BY <1>8 DEF Settle, AfterCancel
  <2>2. CommittedSeen' /\ ReplacesCommitted' /\ SendNowSparesUnseen' /\ TornIsRunning'
    BY <2>1 DEF CancelInv, CommittedSeen, ReplacesCommitted, SendNowSparesUnseen, TornIsRunning
  <2>3. WindowOfTurn'
    BY <2>1 DEF CancelInv, WindowOfTurn, TornIsRunning
  <2> QED BY <2>2, <2>3 DEF CancelInv
<1>9. CASE FinishCompletion \/ DropActor
  <2>1. running' = NoTurn /\ rewindable' = FALSE /\ pc' \in {"strand", "gone"}
    BY <1>9 DEF FinishCompletion, DropActor
  <2> QED BY <2>1 DEF CancelInv, CommittedSeen, ReplacesCommitted, SendNowSparesUnseen,
             TornIsRunning, WindowOfTurn
<1> QED BY <1>1, <1>2, <1>3, <1>4, <1>5, <1>6, <1>7, <1>8, <1>9, CancelNamedCancel, TeardownCancel
        DEF Cancels, LoopStep

\* What is shown is counted.
LEMMA ShownGrows ==
    ASSUME seen \in [Rows -> Nat], NEW rows, seen' = Shown(rows)
    PROVE SeenGrows /\ \A r \in rows \cap Rows : seen'[r] > 0
  BY DEF SeenGrows, Shown

\* The task commits the message when the model is shown it.
LEMMA TaskCancel ==
    ASSUME TurnInv, QueueInv, CancelInv, Background \/ TurnTask
    PROVE CancelInv'
<1>0. seen' = seen => SeenGrows
  BY TypedFacts DEF SeenGrows
<1>t. Typed /\ seen \in [Rows -> Nat]
  BY TypedFacts DEF QueueInv
<1>1. CASE Kick
  BY <1>t, <1>1, StartTurnCancel DEF Kick, loopVars
<1>2. CASE DropAborted
  BY <1>0, <1>t, <1>2, ApartKeeps DEF DropAborted, Apart, GoesOn, historyVars
<1>3. CASE \E r \in Resumes : ResumePushes(r)
  <2>1. UNCHANGED <<turnVars, loopVars, seen>>
    BY <1>3, Zenon DEF ResumePushes
  <2> QED BY <1>0, <1>t, <2>1, ApartKeeps DEF Apart, GoesOn, turnVars
<1>4. CASE CommitMessage
  <2>1. task.pc # "none"
    BY <1>4 DEF CommitMessage, At
  <2>2. running.prompt \in Rows
    BY <2>1, TypedFacts DEF TurnInv, TaskOfRunning, RunningRow
  <2>3. /\ committed' = TRUE /\ seen' = Shown({running.prompt} \cup Range(task.batch))
        /\ UNCHANGED <<running, loopVars, rewindable>>
    BY <1>4 DEF CommitMessage, TaskStep
  <2>4. SeenGrows /\ seen'[running.prompt] > 0
    BY <1>t, <2>2, <2>3, ShownGrows
  <2> QED BY <1>t, <2>3, <2>4, ApartKeeps DEF Apart, GoesOn
<1>5. CASE SubmitNotes \/ DeliverMessages
  <2>1. /\ \E rows : seen' = Shown(rows)
        /\ UNCHANGED <<running, loopVars, rewindable, committed>>
    BY <1>5 DEF SubmitNotes, DeliverMessages, TaskStep
  <2>2. SeenGrows
    BY <1>t, <2>1, ShownGrows
  <2> QED BY <1>t, <2>1, <2>2, ApartKeeps DEF Apart, GoesOn
<1>6. CASE \/ BeginTurn \/ EndEarly \/ SendUpdate \/ BlockPrompt \/ DrainNotes \/ RestoreNotes
           \/ TakeMessages \/ MissBarrier \/ (\E w \in Wakes : ConsumeWake(w))
           \/ ClaimForGate \/ LeaveGate \/ EndTurn \/ SendCompletion
  <2>1. /\ UNCHANGED <<running, loopVars, committed, seen>>
        /\ rewindable' = rewindable \/ rewindable' = FALSE
    <3>1. CASE BlockPrompt \/ EndTurn \/ SendUpdate
      BY <3>1 DEF BlockPrompt, EndTurn, SendUpdate, TaskStep, historyVars
    <3>2. CASE BeginTurn \/ EndEarly \/ RestoreNotes \/ TakeMessages \/ MissBarrier \/ ClaimForGate \/ LeaveGate \/ SendCompletion
      BY <3>2 DEF BeginTurn, EndEarly, RestoreNotes, TakeMessages, MissBarrier, ClaimForGate,
         LeaveGate, SendCompletion, TaskStep, historyVars
    <3>3. CASE DrainNotes \/ \E w \in Wakes : ConsumeWake(w)
      <4>1. TaskStep /\ UNCHANGED <<rewindable, committed, seen>>
        BY <3>3, Zenon DEF DrainNotes, ConsumeWake
      <4> QED BY <4>1 DEF TaskStep
    <3> QED BY <1>6, <3>1, <3>2, <3>3
  <2> QED BY <1>0, <1>t, <2>1, ApartKeeps DEF Apart, GoesOn
<1> QED BY <1>1, <1>2, <1>3, <1>4, <1>5, <1>6 DEF Background, TurnTask

\* Every step keeps the invariant of the cancels.
LEMMA NextCancel ==
    ASSUME TurnInv, QueueInv, CancelInv, [Next]_vars
    PROVE CancelInv'
<1>1. CASE UNCHANGED vars
  <2>1. SeenGrows /\ Typed
    BY <1>1, TypedFacts DEF SeenGrows, vars, historyVars, QueueInv
  <2> QED BY <1>1, <2>1, ApartKeeps DEF Apart, GoesOn, vars, turnVars
<1> QED BY <1>1, InputCancel, LoopCancel, TaskCancel DEF Next

\* A send-now reaches its teardown only against the turn it found committed, and
\* the rewind window is that of the turn that runs, in every state of a session.
THEOREM CancelInvariant == Spec => []CancelInv
<1>1. Init => CancelInv
  BY DEF Init, CancelInv, CommittedSeen, ReplacesCommitted, SendNowSparesUnseen, TornIsRunning, WindowOfTurn
<1>2. TurnInv /\ QueueInv /\ CancelInv /\ [Next]_vars => CancelInv'
  BY NextCancel
<1> QED BY <1>1, <1>2, TurnInvariant, QueueInvariant, PTL DEF Spec

\* A prompt that a send-now replaces has been shown to the model.
THEOREM SendNowSparesHolds == Spec => []SendNowSparesUnseen
<1>1. CancelInv => SendNowSparesUnseen
  BY DEF CancelInv
<1> QED BY <1>1, CancelInvariant, PTL

\* The step that takes a prompt back.
LEMMA RewindStep ==
    ASSUME QueueInv, CancelInv, [Next]_vars, op'.result = "rewound", op.result = "none"
    PROVE op'.rows = {running.prompt}
<1>1. CASE CancelNamed
  <2>1. PICK p \in Prompts, stop \in BOOLEAN :
          LET target == {Turn(p, report.epoch)}
          IN /\ pc = "idle"
             /\ \/ UNCHANGED op
                \/ /\ FrontRow = p /\ rewindable
                   /\ op' = [Begun("named", FALSE, NoTurn, {p}) EXCEPT
                               !.result = "rewound",
                               !.msgs = IdsOf(Completions(slots, target, "rewind"))]
                \/ op' = Begun("named", stop, NoTurn, {p})
    BY <1>1, Zenon DEF CancelNamed
  <2>2. Begun("named", stop, NoTurn, {p}).result = "none"
    BY DEF Begun
  <2>3. \A m : [Begun("named", FALSE, NoTurn, {p}) EXCEPT !.result = "rewound", !.msgs = m].rows = {p}
    BY DEF Begun
  <2>4. FrontRow = p /\ rewindable /\ op'.rows = {p}
    BY <2>1, <2>2, <2>3
  <2>5. running # NoTurn /\ Leads(pending)
    BY <2>1, <2>4 DEF CancelInv, WindowOfTurn, QueueInv, RunningLeads
  <2> QED BY <2>4, <2>5 DEF Leads, FrontRow
<1>2. CASE Teardown
  <2> DEFINE hard == op.kind \in {"hard", "shutdown"}
             pops == op.kind = "legacy" /\ rewindable /\ Poppable(FrontRow)
             live == running # NoTurn
             cause == IF hard THEN "hardTeardown" ELSE IF pops THEN "rewind" ELSE "softCancel"
             target == IF hard \/ pops \/ ~live THEN AllBindings(slots) ELSE {running}
             queue == WithFallbacks(pending, target, cause)
             front == IF queue = <<>> THEN {} ELSE {queue[1].row}
             rows == IF hard THEN QueuedRows(queue) ELSE front
             msgs == IdsOf(Completions(slots, target, cause))
             result == IF pops THEN "rewound" ELSE "cancelled"
  <2>1. /\ pc = "teardown"
        /\ op' = [op EXCEPT !.torn = running, !.rows = rows, !.msgs = msgs, !.result = result]
    BY <1>2, Zenon DEF Teardown
  <2>2. Follows(queue, pending)
    BY TypedFacts, FallbacksFollow
  <2> HIDE DEF cause, target, queue, msgs, rows, result
  <2>3. op'.result = result /\ op'.rows = rows
    BY <2>1 DEF QueueInv, Typed, LoopTyped, Ops
  <2>4. pops
    BY <2>3 DEF result
  <2>5. running # NoTurn /\ Leads(pending)
    BY <2>1, <2>4 DEF CancelInv, WindowOfTurn, QueueInv, RunningLeads
  <2>6. rows = {running.prompt}
    BY <2>2, <2>4, <2>5 DEF Follows, Leads, rows
  <2> QED BY <2>3, <2>6
<1>3. NoOp.result = "none" /\ \A kind, stop, lease, rows : Begun(kind, stop, lease, rows).result = "none"
  BY DEF NoOp, Begun
<1>4. CASE Arrivals \/ QueueEdit
  <2>1. UNCHANGED op
    BY <1>4, Zenon DEF Arrivals, QueueEdit, Prompt, Wake, ParentMessage, Interject, Reorder, Clear,
       RemoveQueued, Edit, HoldEdit, ReleaseEdit, InterjectQueued, QueueEdited, loopVars
  <2> QED BY <2>1
<1>5. CASE CancelKeep \/ CancelLegacy \/ Shutdown \/ CloseChannel \/ DropStaleCompletion \/ Complete
  <2>1. op' = op \/ \E kind, stop, lease, rows : op' = Begun(kind, stop, lease, rows)
    BY <1>5, Zenon DEF CancelKeep, CancelLegacy, Shutdown, CloseChannel, DropStaleCompletion, Complete, Claim, loopVars
  <2> QED BY <1>3, <2>1
<1>6. CASE Start \/ Replace \/ LoseLease \/ Settle \/ FinishCompletion \/ FlushStranded \/ SettleAll \/ DropActor
  <2>1. op' = op \/ op' = NoOp \/ \E kind, stop, lease, rows : op' = Begun(kind, stop, lease, rows)
    BY <1>6, Zenon DEF Start, Replace, LoseLease, Settle, FinishCompletion, FlushStranded, SettleAll, DropActor, Claim
  <2> QED BY <1>3, <2>1
<1>7. CASE Background \/ TurnTask \/ UNCHANGED vars
  <2>1. UNCHANGED loopVars
    BY <1>7, Zenon DEF Background, TurnTask, DropAborted, Kick, ResumePushes, CommitMessage, BeginTurn, EndEarly,
       BlockPrompt, SendUpdate, DrainNotes, SubmitNotes, RestoreNotes, TakeMessages, DeliverMessages,
       MissBarrier, ConsumeWake, ClaimForGate, LeaveGate, EndTurn, SendCompletion, TaskStep, vars
  <2> QED BY <2>1 DEF loopVars
<1> QED BY <1>1, <1>2, <1>4, <1>5, <1>6, <1>7 DEF Next, Cancels, LoopStep

\* A cancel that takes a prompt back takes the one that was running, and not
\* another that came to the front while the cancel was under way.
THEOREM RewindTakesHolds == Spec => RewindTakesItsTurn
<1>1. QueueInv /\ CancelInv /\ [Next]_vars =>
        [op'.result = "rewound" /\ op.result = "none" => op'.rows = {running.prompt}]_vars
  BY RewindStep
<1> QED BY <1>1, QueueInvariant, CancelInvariant, PTL DEF Spec, RewindTakesItsTurn

-----------------------------------------------------------------------------
(***************************************************************************)
(* The finalization gate.  Only a plan approval pushes rows and kicks the  *)
(* queue beside the loop; without it a lease stays current until it is     *)
(* finished.                                                               *)
(***************************************************************************)
LeaseInv ==
    /\ kicks = 0
    /\ LeaseFinished
    /\ pc = "teardown" /\ Leased => LeaseCurrent

\* A handler that neither claims nor releases the gate.
LEMMA NoLease ==
    ASSUME LeaseInv, UNCHANGED <<gate, kicks>>, pc' # "teardown" \/ ~Leased', pc \notin {"teardown", "settle", "complete"}
    PROVE LeaseInv'
<1>1. ~gate
  BY DEF LeaseInv, LeaseFinished, Finalizing
<1> QED BY <1>1 DEF LeaseInv, LeaseFinished

\* A claim names what is at the front.
LEMMA ClaimLease ==
    ASSUME TurnInv, QueueInv, QueueInv', LeaseInv, NEW kind \in LeasedKinds, NEW stop, NEW early,
           Claim(kind, stop, early), UNCHANGED <<running, kicks>>, running = NoTurn => UNCHANGED pending
    PROVE LeaseInv'
<1>1. gate' /\ pc' = "teardown" /\ op'.kind = kind /\ op'.lease = CurrentLease
  BY DEF Claim, Begun
<1>2. Leased' /\ LeaseFinished'
  BY <1>1 DEF Leased, LeaseFinished, Finalizing
<1>3. CASE running = NoTurn
  <2>1. op'.lease.epoch = 0 /\ op'.lease.prompt = FrontRow
    BY <1>1, <1>3 DEF CurrentLease, Turn
  <2>2. FrontRow' = FrontRow
    BY <1>3 DEF FrontRow
  <2> QED BY <1>1, <1>2, <1>3, <2>1, <2>2 DEF LeaseInv, LeaseCurrent
<1>4. CASE running # NoTurn
  <2>1. op'.lease = running /\ running.epoch # 0
    BY <1>1, <1>4 DEF CurrentLease, TurnInv, EpochOfRunning
  <2>2. AtFront'
    BY <1>1, <1>4 DEF QueueInv, RunningLeads, Leads, AtFront, FrontRow
  <2> QED BY <1>1, <1>2, <2>1, <2>2 DEF LeaseInv, LeaseCurrent
<1> QED BY <1>3, <1>4

\* What arrives or is edited leaves the gate alone.
LEMMA InputLease ==
    ASSUME LeaseInv, Arrivals \/ QueueEdit
    PROVE LeaseInv'
<1>1. UNCHANGED <<gate, kicks>> /\ pc = "idle" /\ (pc' = "idle" \/ pc' = "start" \/ pc' = "replace")
  <2>1. CASE \E p \in Prompts : Prompt(p)
    <3>1. PICK goal : /\ UNCHANGED <<gate, kicks>> /\ pc = "idle"
                      /\ pc' = "start" \/ pc' = IF ReplacesTurn(goal) THEN "replace" ELSE "start"
      BY <2>1, Zenon DEF Prompt
    <3> QED BY <3>1
  <2>2. CASE \/ \E w \in Wakes : Wake(w)
             \/ \E m \in Messages : ParentMessage(m)
             \/ \E n \in Notes : Interject(n)
    <3>1. UNCHANGED <<gate, kicks>> /\ pc = "idle" /\ (pc' = "start" \/ pc' = pc)
      BY <2>2, Zenon DEF Wake, ParentMessage, Interject
    <3> QED BY <3>1
  <2>3. CASE \/ Reorder \/ Clear
             \/ \E p \in Edited : RemoveQueued(p) \/ Edit(p) \/ ReleaseEdit(p)
    BY <2>3, Zenon DEF Reorder, Clear, RemoveQueued, Edit, ReleaseEdit, QueueEdited
  <2>4. CASE \E p \in Edited : HoldEdit(p)
    BY <2>4 DEF HoldEdit, loopVars
  <2>5. CASE \E p \in Edited : InterjectQueued(p)
    <3>1. PICK goal : /\ UNCHANGED <<gate, kicks>> /\ pc = "idle"
                      /\ pc' = "start" \/ IF ReplacesTurn(goal) THEN pc' = "replace" ELSE pc' = "start"
      BY <2>5, Zenon DEF InterjectQueued
    <3> QED BY <3>1
  <2> QED BY <2>1, <2>2, <2>3, <2>4, <2>5 DEF Arrivals, QueueEdit
<1> QED BY <1>1, NoLease

\* The loop claims the gate, finds its lease current, and opens the gate.
LEMMA LoopLease ==
    ASSUME TurnInv, QueueInv, QueueInv', CancelInv, LeaseInv,
           Cancels \/ DropStaleCompletion \/ Complete \/ LoopStep
    PROVE LeaseInv'
<1>1. CASE CancelKeep
  <2>1. PICK kind \in CancelKinds \cap {"keep", "hard"}, stop \in BOOLEAN, early \in BOOLEAN :
          /\ pc = "idle"
          /\ Claim(kind, stop, early) \/ UNCHANGED <<gate, loopVars>>
          /\ UNCHANGED <<queueVars, turnVars, kicks>>
    BY <1>1 DEF CancelKeep
  <2>2. kind \in LeasedKinds
    BY DEF LeasedKinds
  <2>3. CASE Claim(kind, stop, early)
    BY <2>1, <2>2, <2>3, ClaimLease DEF queueVars, turnVars
  <2>4. CASE UNCHANGED <<gate, loopVars>>
    BY <2>1, <2>4, NoLease DEF loopVars
  <2> QED BY <2>1, <2>3, <2>4
<1>2. CASE Shutdown
  <2>1. pc = "idle" /\ UNCHANGED <<queueVars, turnVars, kicks>>
    BY <1>2, Zenon DEF Shutdown
  <2>2. CASE Claim("shutdown", FALSE, TRUE)
    <3>1. "shutdown" \in LeasedKinds
      BY DEF LeasedKinds
    <3> QED BY <2>1, <2>2, <3>1, ClaimLease DEF queueVars, turnVars
  <2>3. CASE pc' = "settleAll" /\ UNCHANGED gate
    BY <2>1, <2>3, NoLease
  <2> QED BY <1>2, <2>2, <2>3 DEF Shutdown
<1>3. CASE Replace
  <2>1. pc = "replace" /\ UNCHANGED <<turnVars, kicks>>
    BY <1>3, Zenon DEF Replace
  <2>2. running # NoTurn
    BY <2>1 DEF CancelInv, ReplacesCommitted
  <2>3. CASE Claim("replace", FALSE, FALSE)
    <3>1. "replace" \in LeasedKinds
      BY DEF LeasedKinds
    <3> QED BY <2>1, <2>2, <2>3, <3>1, ClaimLease DEF turnVars
  <2>4. CASE pc' = "idle" /\ UNCHANGED gate
    BY <2>1, <2>4, NoLease
  <2> QED BY <1>3, <2>3, <2>4 DEF Replace
<1>4. CASE CancelLegacy \/ CancelNamed
  <2>1. CASE CancelLegacy
    <3>1. PICK stop : pc = "idle" /\ op' = Begun("legacy", stop, NoTurn, {}) /\ UNCHANGED <<gate, kicks>>
      BY <2>1, Zenon DEF CancelLegacy
    <3>2. ~Leased'
      BY <3>1 DEF Leased, LeasedKinds, Begun
    <3> QED BY <3>1, <3>2, NoLease
  <2>2. CASE CancelNamed
    <3>1. PICK p, stop :
            /\ pc = "idle" /\ UNCHANGED <<gate, kicks>>
            /\ pc' = "start" \/ pc' = "settle" \/ (pc' = "teardown" /\ op' = Begun("named", stop, NoTurn, {p}))
      BY <2>2, Zenon DEF CancelNamed
    <3>2. pc' # "teardown" \/ ~Leased'
      BY <3>1 DEF Leased, LeasedKinds, Begun
    <3> QED BY <3>1, <3>2, NoLease
  <2> QED BY <1>4, <2>1, <2>2
<1>5. CASE CloseChannel \/ DropStaleCompletion \/ Start \/ FlushStranded \/ SettleAll
  <2>1. /\ UNCHANGED <<gate, kicks>>
        /\ pc \in {"idle", "start", "strand", "settleAll"} /\ pc' \in {"idle", "start", "stopped"}
    <3>1. CASE CloseChannel \/ SettleAll
      <4>1. UNCHANGED <<gate, kicks>> /\ (pc = "idle" \/ pc = "settleAll") /\ pc' = "stopped"
        BY <3>1, Zenon DEF CloseChannel, SettleAll
      <4> QED BY <4>1
    <3>2. CASE DropStaleCompletion \/ Start \/ FlushStranded
      BY <3>2 DEF DropStaleCompletion, Start, FlushStranded, loopVars
    <3> QED BY <1>5, <3>1, <3>2
  <2> QED BY <2>1, NoLease
<1>6. CASE Complete
  <2>1. pc' = "complete" /\ op' = Begun("completion", FALSE, running, {}) /\ UNCHANGED kicks
    BY <1>6, Zenon DEF Complete
  <2>2. op'.kind = "completion"
    BY <2>1 DEF Begun
  <2> QED BY <2>1, <2>2 DEF LeaseInv, LeaseFinished, Finalizing
<1>7. CASE LoseLease
  BY <1>7 DEF LoseLease, LeaseInv
<1>8. CASE Teardown
  <2>1. pc = "teardown" /\ pc' = "settle" /\ UNCHANGED gate /\ UNCHANGED kicks
    BY <1>8, Zenon DEF Teardown
  <2>2. op'.kind = op.kind
    BY <1>8, TeardownEffect
  <2> QED BY <2>1, <2>2 DEF LeaseInv, LeaseFinished, Finalizing, Leased
<1>9. CASE Settle
  BY <1>9 DEF Settle, AfterCancel, LeaseInv, LeaseFinished, Finalizing
<1>10. CASE FinishCompletion \/ DropActor
  BY <1>10 DEF FinishCompletion, DropActor, LeaseInv, LeaseFinished
<1> QED BY <1>1, <1>2, <1>3, <1>4, <1>5, <1>6, <1>7, <1>8, <1>9, <1>10 DEF Cancels, LoopStep

\* Nothing beside the loop starts a turn, and the task keeps its turn in front.
LEMMA TaskLease ==
    ASSUME TurnInv, QueueInv, QueueInv', LeaseInv, Resumes = {}, Background \/ TurnTask
    PROVE LeaseInv'
<1>1. UNCHANGED <<running, gate, loopVars, kicks>>
  <2>1. ~Kick /\ ~\E r \in Resumes : ResumePushes(r)
    BY DEF Kick, LeaseInv
  <2>2. CASE DropAborted
    BY <2>2 DEF DropAborted
  <2>3. CASE TurnTask
    <3>1. UNCHANGED <<running, gate, loopVars, kicks>>
      BY <2>3, Zenon DEF TurnTask, CommitMessage, BeginTurn, EndEarly,
         BlockPrompt, SendUpdate, DrainNotes, SubmitNotes, RestoreNotes, TakeMessages, DeliverMessages,
         MissBarrier, ConsumeWake, ClaimForGate, LeaveGate, EndTurn, SendCompletion, TaskStep
    <3> QED BY <3>1
  <2> QED BY <2>1, <2>2, <2>3 DEF Background
<1>2. running = NoTurn => UNCHANGED pending
  <2>1. CASE DropAborted
    BY <2>1 DEF DropAborted, queueVars
  <2>2. CASE TurnTask
    <3>1. task.pc # "none"
      <4>1. \/ \E place \in {"prepare", "run", "notes", "barrier", "gate"} : task.pc = place
            \/ task.pc \in {"done", "cancelled", "failed"}
        BY <2>2 DEF TurnTask, CommitMessage, BeginTurn, EndEarly,
           BlockPrompt, SendUpdate, DrainNotes, SubmitNotes, RestoreNotes, TakeMessages, DeliverMessages,
           MissBarrier, ConsumeWake, ClaimForGate, LeaveGate, EndTurn, SendCompletion, At
      <4> QED BY <4>1
    <3> QED BY <3>1 DEF TurnInv, TaskOfRunning
  <2>3. ~Kick /\ ~\E r \in Resumes : ResumePushes(r)
    BY DEF Kick, LeaseInv
  <2> QED BY <2>1, <2>2, <2>3 DEF Background
<1>3. LeaseFinished'
  BY <1>1 DEF LeaseInv, LeaseFinished, Finalizing, Leased, loopVars
<1>4. ASSUME pc' = "teardown", Leased' PROVE LeaseCurrent'
  <2>1. pc = "teardown" /\ LeaseCurrent /\ op' = op
    BY <1>1, <1>4 DEF LeaseInv, Leased, loopVars
  <2>2. CASE op.lease.epoch = 0
    <3>1. FrontRow' = FrontRow
      BY <1>2, <2>1, <2>2 DEF LeaseCurrent, FrontRow
    <3> QED BY <1>1, <2>1, <2>2, <3>1 DEF LeaseCurrent
  <2>3. CASE op.lease.epoch # 0
    <3>1. running # NoTurn
      BY <2>1, <2>3 DEF LeaseCurrent, AtFront
    <3>2. AtFront'
      BY <1>1, <1>4, <3>1 DEF QueueInv, RunningLeads, Leads, AtFront, FrontRow
    <3> QED BY <1>1, <2>1, <2>3, <3>2 DEF LeaseCurrent
  <2> QED BY <2>2, <2>3
<1> QED BY <1>1, <1>3, <1>4 DEF LeaseInv

\* Every step keeps the lease of a claimed gate current.
LEMMA NextLease ==
    ASSUME TurnInv, QueueInv, QueueInv', CancelInv, LeaseInv, Resumes = {}, [Next]_vars
    PROVE LeaseInv'
<1>1. CASE UNCHANGED vars
  BY <1>1 DEF LeaseInv, LeaseFinished, Finalizing, Leased, LeaseCurrent, AtFront, FrontRow,
     vars, queueVars, turnVars, loopVars
<1> QED BY <1>1, InputLease, LoopLease, TaskLease DEF Next

\* Unless plan approvals push rows beside the loop, a claimed gate always has a
\* handler that will open it: finalization_binding_is_current never refuses the
\* teardown of a cancel, and the queue is not wedged.
THEOREM LeaseFinishedHolds ==
    ASSUME Resumes = {}
    PROVE Spec => []LeaseFinished
<1>1. Init => LeaseInv
  BY DEF Init, LeaseInv, LeaseFinished
<1>2. TurnInv /\ QueueInv /\ QueueInv' /\ CancelInv /\ LeaseInv /\ [Next]_vars => LeaseInv'
  BY NextLease
<1>3. LeaseInv => LeaseFinished
  BY DEF LeaseInv
<1> QED BY <1>1, <1>2, <1>3, TurnInvariant, QueueInvariant, CancelInvariant, PTL DEF Spec
=============================================================================
