---------------------------- MODULE CostingProofs ----------------------------
(***************************************************************************)
(* Theorems about the pricing engine: for any legs, dates, minimum stays,  *)
(* movements and excursions, what packages.check and itinerary.build       *)
(* promise of a trip that can be booked; for any places, nights and roads, *)
(* what sequencing.better_order promises of the order it suggests.         *)
(***************************************************************************)
EXTENDS Costing, SumProofs, SequenceTheorems

(***************************************************************************)
(* Stays in their order                                                    *)
(***************************************************************************)

\* Legs of a package, as rows of it.
Legs(rows, n) ==
  /\ DOMAIN rows = 1..n
  /\ \A i \in 1..n : rows[i].seq \in Int /\ rows[i].checkIn \in Int /\ rows[i].checkOut \in Int

\* Where each row of a package is sorted to.
PlaceOf(rows, i) ==
  Cardinality({j \in DOMAIN rows : \/ rows[j].seq < rows[i].seq
                                   \/ ~(rows[i].seq < rows[j].seq) /\ j <= i})

\* Two rows are never sorted to the same place, and so every place is taken.
LEMMA EveryPlaceIsTaken ==
  ASSUME NEW rows, NEW n \in Nat, Legs(rows, n), NEW k \in 1..n
  PROVE  \E i \in 1..n : PlaceOf(rows, i) = k
<1>. DEFINE upTo(i) == {j \in 1..n : \/ rows[j].seq < rows[i].seq
                                     \/ ~(rows[i].seq < rows[j].seq) /\ j <= i}
            place == [i \in 1..n |-> Cardinality(upTo(i))]
<1>1. IsFiniteSet(1..n) /\ Cardinality(1..n) = n
  BY FS_Interval
<1>2. ASSUME NEW i \in 1..n
      PROVE  IsFiniteSet(upTo(i)) /\ i \in upTo(i) /\ Cardinality(upTo(i)) \in 1..n
  <2>1. upTo(i) \in SUBSET (1..n) /\ i \in upTo(i)
    BY DEF Legs
  <2>2. IsFiniteSet(upTo(i)) /\ Cardinality(upTo(i)) <= n /\ Cardinality(upTo(i)) \in Nat
    BY <1>1, <2>1, FS_Subset, FS_CardinalityType
  <2>3. Cardinality(upTo(i)) # 0
    BY <2>1, <2>2, FS_EmptySet
  <2>. QED
    BY <2>1, <2>2, <2>3
<1>3. ASSUME NEW i \in 1..n, NEW j \in 1..n, i \in upTo(j), i # j
      PROVE  Cardinality(upTo(i)) # Cardinality(upTo(j))
  <2>1. upTo(i) \in SUBSET upTo(j) /\ j \notin upTo(i) /\ j \in upTo(j)
    BY <1>3 DEF Legs
  <2>. HIDE DEF upTo
  <2>. QED
    BY <1>2, <2>1, FS_Subset
<1>4. ASSUME NEW i \in 1..n, NEW j \in 1..n, i # j PROVE place[i] # place[j]
  <2>1. i \in upTo(j) \/ j \in upTo(i)
    BY <1>4 DEF Legs
  <2>. HIDE DEF upTo
  <2>. QED
    BY <1>3, <1>4, <2>1
<1>5. place \in [1..n -> 1..n]
  BY <1>2
<1>. HIDE DEF place
<1>6. place \in Injection(1..n, 1..n)
  BY <1>4, <1>5 DEF Injection, IsInjective
<1>7. place \in Surjection(1..n, 1..n)
  BY <1>1, <1>6, FS_Injection
<1>8. PICK i \in 1..n : place[i] = k
  BY <1>7 DEF Surjection
<1>9. PlaceOf(rows, i) = k
  BY <1>8 DEF place, PlaceOf, Legs
<1>. QED
  BY <1>9

LEMMA SameSize ==
  ASSUME NEW S
  PROVE  P!Cardinality(S) = Cardinality(S)
BY Zenon DEF P!Cardinality, Cardinality, P!IsFiniteSet, IsFiniteSet

\* The legs in their order are the legs.
LEMMA OrderKeepsLegs ==
  ASSUME NEW rows, NEW n \in Nat, Legs(rows, n)
  PROVE  Legs(P!InOrder(rows), n) /\ P!InOrder(rows) \in Seq(Range(rows))
<1>. DEFINE at(k) == CHOOSE i \in 1..n : PlaceOf(rows, i) = k
<1>1. ASSUME NEW k \in 1..n PROVE at(k) \in 1..n
  BY EveryPlaceIsTaken
<1>2. P!InOrder(rows) = [k \in 1..n |-> rows[at(k)]]
  <2>1. DOMAIN rows = 1..n
    BY DEF Legs
  <2>. DEFINE place == [i \in 1..n |-> PlaceOf(rows, i)]
  <2>2. P!InOrder(rows) = [k \in 1..n |-> rows[CHOOSE i \in 1..n : place[i] = k]]
    <3>. DEFINE sorted == [j \in DOMAIN rows |-> P!PlaceIn(rows, j, LAMBDA a, b : a.seq < b.seq)]
    <3>1. P!InOrder(rows) =
            [k \in DOMAIN rows |-> rows[CHOOSE i \in DOMAIN rows : sorted[i] = k]]
      BY Zenon DEF P!InOrder, P!Sorted
    <3>2. \A j \in DOMAIN rows : P!PlaceIn(rows, j, LAMBDA a, b : a.seq < b.seq) = PlaceOf(rows, j)
      BY SameSize DEF P!PlaceIn, PlaceOf
    <3>3. sorted = place
      BY <2>1, <3>2
    <3>. HIDE DEF sorted, place
    <3>. QED
      BY <2>1, <3>1, <3>3
  <2>3. \A k \in 1..n : (CHOOSE i \in 1..n : place[i] = k) = at(k)
    OBVIOUS
  <2>. HIDE DEF place, at
  <2>. QED
    BY <2>2, <2>3
<1>. HIDE DEF at
<1>3. P!InOrder(rows) \in [1..n -> Range(rows)]
  BY <1>1, <1>2 DEF Range, Legs
<1>. QED
  BY <1>1, <1>2, <1>3, SeqDef DEF Legs

-------------------------------------------------------------------------------
(***************************************************************************)
(* The nights slept, one stay after another                                *)
(***************************************************************************)

LEMMA NightsOfStay ==
  ASSUME NEW arrival \in Int, NEW departure \in Int, arrival < departure
  PROVE  LET nights == P!StayNights(arrival, departure)
         IN  /\ nights \in Seq(Int) /\ Len(nights) = departure - arrival
             /\ \A n \in 1..(departure - arrival) : nights[n] = arrival + n - 1
<1>1. P!StayNights(arrival, departure) \in [1..(departure - arrival) -> Int]
  BY DEF P!StayNights
<1>2. departure - arrival \in Nat
  OBVIOUS
<1>3. P!StayNights(arrival, departure) \in Seq(Int)
  BY <1>1, <1>2, SeqDef
<1>4. Len(P!StayNights(arrival, departure)) = departure - arrival
  BY <1>1, <1>2, <1>3, LenProperties
<1>. QED
  BY <1>3, <1>4 DEF P!StayNights

\* The parts of a flattened sequence, one after another.
Flattening(T, seqs, k, g) ==
  /\ g \in [1..k -> Seq(T)]
  /\ \A i \in 1..k : g[i] = IF i = 1 THEN seqs[i] ELSE g[i - 1] \o seqs[i]

LEMMA FlatteningsExist ==
  ASSUME NEW T, NEW n \in Nat, NEW seqs \in [1..n -> Seq(T)]
  PROVE  \E g : Flattening(T, seqs, n, g)
<1>. DEFINE bad == {k \in 0..n : ~\E g : Flattening(T, seqs, k, g)}
<1>1. 0 \notin bad
  <2>1. Flattening(T, seqs, 0, [i \in 1..0 |-> <<>>])
    BY DEF Flattening
  <2>. QED
    BY <2>1
<1>2. ASSUME NEW k \in 1..n, k - 1 \notin bad PROVE k \notin bad
  <2>1. PICK g : Flattening(T, seqs, k - 1, g)
    BY <1>2
  <2>. DEFINE last == IF k = 1 THEN seqs[k] ELSE g[k - 1] \o seqs[k]
              h == [i \in 1..k |-> IF i = k THEN last ELSE g[i]]
  <2>2. last \in Seq(T)
    <3>1. seqs[k] \in Seq(T)
      OBVIOUS
    <3>2. k # 1 => g[k - 1] \in Seq(T)
      BY <2>1 DEF Flattening
    <3>. QED
      BY <3>1, <3>2, ConcatProperties
  <2>3. h \in [1..k -> Seq(T)]
    <3>. HIDE DEF last
    <3>1. \A i \in 1..k : i # k => g[i] \in Seq(T)
      BY <2>1 DEF Flattening
    <3>. QED
      BY <2>2, <3>1
  <2>4. ASSUME NEW i \in 1..k
        PROVE  h[i] = IF i = 1 THEN seqs[i] ELSE h[i - 1] \o seqs[i]
    <3>1. i # 1 => h[i - 1] = g[i - 1]
      OBVIOUS
    <3>2. i # k => h[i] = g[i] /\ g[i] = IF i = 1 THEN seqs[i] ELSE g[i - 1] \o seqs[i]
      <4>1. i # k => i \in 1..(k - 1)
        OBVIOUS
      <4>. QED
        BY <2>1, <4>1 DEF Flattening
    <3>. QED
      BY <3>1, <3>2
  <2>5. Flattening(T, seqs, k, h)
    <3>. HIDE DEF h
    <3>. QED
      BY <2>3, <2>4 DEF Flattening
  <2>. QED
    BY <2>5
<1>3. bad = {}
  <2>1. ASSUME bad # {} PROVE FALSE
    <3>. HIDE DEF bad
    <3>1. bad \subseteq 0..n /\ bad \subseteq Nat
      BY DEF bad
    <3>2. PICK k \in bad : \A m \in bad : k <= m
      BY <2>1, <3>1, LeastNatural
    <3>3. k \in 1..n /\ k - 1 \notin bad
      BY <1>1, <3>1, <3>2
    <3>. QED
      BY <1>2, <3>2, <3>3
  <2>. QED
    BY <2>1
<1>4. n \in 0..n
  OBVIOUS
<1>5. n \in bad <=> ~\E g : Flattening(T, seqs, n, g)
  BY <1>4
<1>. QED
  BY <1>3, <1>5

\* What holds of 1 and passes from each number to the next holds up to n.
LEMMA UpTo ==
  ASSUME NEW n \in Nat, NEW Q, 1 \in Q, \A k \in 1..n : k \in Q /\ k < n => k + 1 \in Q
  PROVE  \A k \in 1..n : k \in Q
<1>. DEFINE bad == {k \in 1..n : k \notin Q}
<1>. SUFFICES ASSUME bad # {} PROVE FALSE
  OBVIOUS
<1>1. bad \subseteq Nat
  OBVIOUS
<1>2. PICK k \in bad : \A m \in bad : k <= m
  BY <1>1, LeastNatural
<1>3. k # 1 /\ k - 1 \in 1..n /\ k - 1 \notin bad /\ k - 1 < n
  BY <1>2
<1>4. (k - 1) + 1 \in Q
  BY <1>3
<1>. QED
  BY <1>4

LEMMA FlattenUnfolds ==
  ASSUME NEW T, NEW n \in Nat \ {0}, NEW seqs \in [1..n -> Seq(T)]
  PROVE  \E g : Flattening(T, seqs, n, g) /\ FlattenSeq(seqs) = g[n]
<1>. DEFINE Step(g) == [i \in 1..n |-> IF i = 1 THEN seqs[i] ELSE g[i - 1] \o seqs[i]]
            Recurs(g) == g = Step(g)
            chosen == CHOOSE g : Recurs(g)
<1>1. seqs \in Seq(Seq(T)) /\ Len(seqs) = n
  <2>1. seqs \in Seq(Seq(T))
    BY SeqDef
  <2>. QED
    BY <2>1, LenProperties
<1>2. FlattenSeq(seqs) = chosen[n]
  BY <1>1 DEF FlattenSeq
<1>3. Recurs(chosen)
  <2>1. PICK g : Flattening(T, seqs, n, g)
    BY FlatteningsExist
  <2>2. Recurs(g)
    BY <2>1 DEF Flattening
  <2>. HIDE DEF Recurs
  <2>. QED
    BY <2>2
<1>. HIDE DEF chosen
<1>4. \A i \in 1..n : chosen[i] = IF i = 1 THEN seqs[i] ELSE chosen[i - 1] \o seqs[i]
  BY <1>3
<1>5. \A i \in 1..n : chosen[i] \in Seq(T)
  <2>. DEFINE Q == {i \in 1..n : chosen[i] \in Seq(T)}
  <2>1. 1 \in Q
    <3>1. 1 \in 1..n /\ chosen[1] = seqs[1]
      BY <1>4
    <3>. QED
      BY <3>1
  <2>2. ASSUME NEW k \in 1..n, k \in Q, k < n PROVE k + 1 \in Q
    <3>0. k + 1 \in 1..n /\ k + 1 # 1 /\ (k + 1) - 1 = k
      BY <2>2
    <3>1. chosen[k + 1] = chosen[k] \o seqs[k + 1]
      BY <1>4, <3>0
    <3>2. chosen[k] \in Seq(T) /\ seqs[k + 1] \in Seq(T)
      BY <2>2
    <3>3. chosen[k] \o seqs[k + 1] \in Seq(T)
      BY <3>2, ConcatProperties
    <3>. QED
      BY <3>0, <3>1, <3>3
  <2>. HIDE DEF Q
  <2>3. \A i \in 1..n : i \in Q
    BY <2>1, <2>2, UpTo
  <2>. QED
    BY <2>3 DEF Q
<1>6. Flattening(T, seqs, n, chosen)
  <2>1. chosen \in [1..n -> Seq(T)]
    BY <1>3, <1>5
  <2>. QED
    BY <1>4, <2>1 DEF Flattening
<1>. QED
  BY <1>2, <1>6

LEMMA Joined ==
  ASSUME NEW s \in Seq(Int), NEW u \in Seq(Int)
  PROVE  /\ s \o u \in Seq(Int) /\ Len(s) \in Nat /\ Len(u) \in Nat
         /\ Len(s \o u) = Len(s) + Len(u)
         /\ \A p \in 1..Len(s) : (s \o u)[p] = s[p]
         /\ \A p \in 1..Len(u) : (s \o u)[Len(s) + p] = u[p]
<1>. DEFINE m == Len(s)
            n == Len(u)
            both == s \o u
<1>1. m \in Nat /\ n \in Nat
  BY LenProperties
<1>2. /\ both \in Seq(Int) /\ Len(both) = m + n
      /\ \A i \in 1..(m + n) : both[i] = IF i <= m THEN s[i] ELSE u[i - m]
  BY ConcatProperties
<1>. HIDE DEF m, n, both
<1>3. \A p \in 1..m : both[p] = s[p]
  BY <1>1, <1>2
<1>4. ASSUME NEW p \in 1..n PROVE both[m + p] = u[p]
  <2>1. m + p \in 1..(m + n) /\ ~(m + p <= m) /\ (m + p) - m = p
    BY <1>1
  <2>. QED
    BY <1>2, <2>1
<1>. QED
  BY <1>1, <1>2, <1>3, <1>4 DEF m, n, both

LEMMA FlatteningFacts ==
  ASSUME NEW n \in Nat \ {0}, NEW seqs \in [1..n -> Seq(Int)], NEW g, Flattening(Int, seqs, n, g)
  PROVE  /\ \A k \in 1..n : g[k] \in Seq(Int) /\ Len(g[k]) \in Nat /\ Len(seqs[k]) \in Nat
         /\ g[1] = seqs[1]
         /\ \A k \in 1..(n - 1) : g[k + 1] = g[k] \o seqs[k + 1]
<1>1. \A k \in 1..n : g[k] \in Seq(Int) /\ Len(g[k]) \in Nat /\ Len(seqs[k]) \in Nat
  BY LenProperties DEF Flattening
<1>2. g[1] = seqs[1]
  <2>1. 1 \in 1..n
    OBVIOUS
  <2>. QED
    BY <2>1 DEF Flattening
<1>3. ASSUME NEW k \in 1..(n - 1) PROVE g[k + 1] = g[k] \o seqs[k + 1]
  <2>1. k + 1 \in 1..n /\ k + 1 # 1 /\ (k + 1) - 1 = k
    OBVIOUS
  <2>. QED
    BY <2>1 DEF Flattening
<1>. QED
  BY <1>1, <1>2, <1>3

\* Each part begins the whole.
LEMMA PartsBeginTheWhole ==
  ASSUME NEW n \in Nat \ {0}, NEW seqs \in [1..n -> Seq(Int)], NEW g, Flattening(Int, seqs, n, g),
         NEW k \in 1..n
  PROVE  Len(g[k]) <= Len(g[n]) /\ \A p \in 1..Len(g[k]) : g[n][p] = g[k][p]
<1>. DEFINE size == [i \in 1..n |-> Len(g[i])]
            Begins(i, j) == size[i] <= size[j] /\ \A p \in 1..size[i] : g[j][p] = g[i][p]
            Q == {j \in 1..n : \A i \in 1..j : Begins(i, j)}
<1>1. \A i \in 1..n : size[i] \in Nat
  BY FlatteningFacts
<1>2. ASSUME NEW j \in 1..(n - 1) PROVE Begins(j, j + 1)
  <2>1. j \in 1..n /\ j + 1 \in 1..n
    OBVIOUS
  <2>. DEFINE head == g[j]
              tail == seqs[j + 1]
              both == g[j + 1]
  <2>2. head \in Seq(Int) /\ tail \in Seq(Int) /\ both = head \o tail
    BY <2>1, FlatteningFacts
  <2>3. size[j] = Len(head) /\ size[j + 1] = Len(both)
    BY <2>1
  <2>. HIDE DEF size, head, tail, both
  <2>4. /\ Len(head) \in Nat /\ Len(tail) \in Nat
        /\ Len(both) = Len(head) + Len(tail)
        /\ \A p \in 1..Len(head) : both[p] = head[p]
    BY <2>2, Joined
  <2>5. size[j] <= size[j + 1]
    BY <2>3, <2>4
  <2>6. \A p \in 1..size[j] : both[p] = head[p]
    BY <2>3, <2>4
  <2>. QED
    BY <2>5, <2>6 DEF head, both
<1>. HIDE DEF size
<1>3. 1 \in Q
  <2>1. \A i \in 1..1 : i = 1
    OBVIOUS
  <2>. QED
    BY <1>1, <2>1
<1>4. ASSUME NEW j \in 1..n, j \in Q, j < n PROVE j + 1 \in Q
  <2>1. j \in 1..(n - 1) /\ j + 1 \in 1..n
    BY <1>4
  <2>2. Begins(j, j + 1)
    BY <1>2, <2>1
  <2>3. ASSUME NEW i \in 1..(j + 1) PROVE Begins(i, j + 1)
    <3>1. CASE i = j + 1
      BY <1>1, <2>1, <3>1
    <3>2. CASE i # j + 1
      <4>1. i \in 1..j /\ i \in 1..n
        BY <2>1, <3>2
      <4>2. Begins(i, j)
        BY <1>4, <4>1
      <4>3. size[i] \in Nat /\ size[j] \in Nat /\ size[j + 1] \in Nat
        BY <1>1, <2>1, <4>1
      <4>. QED
        BY <2>2, <4>2, <4>3
    <3>. QED
      BY <3>1, <3>2
  <2>. HIDE DEF Begins
  <2>. QED
    BY <2>1, <2>3
<1>. HIDE DEF Q
<1>5. \A i \in 1..n : i \in Q
  BY <1>3, <1>4, UpTo
<1>6. size[k] <= size[n] /\ \A p \in 1..size[k] : g[n][p] = g[k][p]
  <2>1. k \in 1..n /\ n \in 1..n
    OBVIOUS
  <2>. QED
    BY <1>5, <2>1 DEF Q
<1>. QED
  BY <1>6 DEF size

LEMMA NightsJoin ==
  ASSUME NEW a \in Int, NEW b \in Int, NEW c \in Int, a < b, b < c
  PROVE  P!StayNights(a, b) \o P!StayNights(b, c) = P!StayNights(a, c)
<1>. DEFINE first == P!StayNights(a, b)
            second == P!StayNights(b, c)
            both == first \o second
            whole == P!StayNights(a, c)
<1>1. /\ first \in Seq(Int) /\ Len(first) = b - a
      /\ \A n \in 1..(b - a) : first[n] = a + n - 1
  BY NightsOfStay
<1>2. /\ second \in Seq(Int) /\ Len(second) = c - b
      /\ \A n \in 1..(c - b) : second[n] = b + n - 1
  BY NightsOfStay
<1>3. /\ whole \in Seq(Int) /\ Len(whole) = c - a
      /\ \A n \in 1..(c - a) : whole[n] = a + n - 1
  BY NightsOfStay
<1>. HIDE DEF first, second, whole
<1>4. /\ both \in Seq(Int) /\ Len(both) = Len(first) + Len(second)
      /\ \A p \in 1..Len(first) : both[p] = first[p]
      /\ \A p \in 1..Len(second) : both[Len(first) + p] = second[p]
  BY <1>1, <1>2, Joined
<1>. HIDE DEF both
<1>5. Len(both) = c - a
  BY <1>1, <1>2, <1>4
<1>6. ASSUME NEW n \in 1..(c - a) PROVE both[n] = whole[n]
  <2>1. CASE n <= b - a
    <3>1. n \in 1..(b - a)
      BY <2>1
    <3>2. both[n] = first[n] /\ first[n] = a + n - 1
      BY <1>1, <1>4, <3>1
    <3>. QED
      BY <1>3, <3>2
  <2>2. CASE ~(n <= b - a)
    <3>1. n - (b - a) \in 1..(c - b) /\ (b - a) + (n - (b - a)) = n
      BY <2>2
    <3>2. both[n] = second[n - (b - a)] /\ second[n - (b - a)] = b + (n - (b - a)) - 1
      BY <1>1, <1>2, <1>4, <3>1
    <3>3. b + (n - (b - a)) - 1 = a + n - 1
      OBVIOUS
    <3>. QED
      BY <1>3, <3>2, <3>3
  <2>. QED
    BY <2>1, <2>2
<1>7. both \in [1..(c - a) -> Int] /\ whole \in [1..(c - a) -> Int]
  BY <1>3, <1>4, <1>5, LenProperties
<1>8. both = whole
  BY <1>6, <1>7
<1>. QED
  BY <1>8 DEF both, first, second, whole

\* Stays of at least a night each.
Stays(rows, n) == Legs(rows, n) /\ \A i \in 1..n : rows[i].checkIn < rows[i].checkOut

SleptIn(rows) == [i \in DOMAIN rows |-> P!NightsOf(rows[i])]

\* Each stay begins the morning the one before it ends, and they span the trip.
Contiguous(rows, n, arrival, departure) ==
  /\ rows[1].checkIn = arrival /\ rows[n].checkOut = departure
  /\ \A i \in 1..(n - 1) : rows[i + 1].checkIn = rows[i].checkOut

LEMMA SleptInFacts ==
  ASSUME NEW n \in Nat \ {0}, NEW rows, Stays(rows, n)
  PROVE  /\ SleptIn(rows) \in [1..n -> Seq(Int)]
         /\ \A i \in 1..n :
              /\ SleptIn(rows)[i] = P!StayNights(rows[i].checkIn, rows[i].checkOut)
              /\ Len(SleptIn(rows)[i]) = rows[i].checkOut - rows[i].checkIn
              /\ SleptIn(rows)[i][1] = rows[i].checkIn
<1>1. ASSUME NEW i \in 1..n
      PROVE  /\ SleptIn(rows)[i] = P!StayNights(rows[i].checkIn, rows[i].checkOut)
             /\ SleptIn(rows)[i] \in Seq(Int)
             /\ Len(SleptIn(rows)[i]) = rows[i].checkOut - rows[i].checkIn
             /\ SleptIn(rows)[i][1] = rows[i].checkIn
  <2>. DEFINE a == rows[i].checkIn
              b == rows[i].checkOut
  <2>1. a \in Int /\ b \in Int /\ a < b
    BY DEF Stays, Legs
  <2>2. SleptIn(rows)[i] = P!StayNights(a, b)
    BY DEF SleptIn, P!NightsOf, Stays, Legs
  <2>. HIDE DEF a, b
  <2>3. /\ P!StayNights(a, b) \in Seq(Int) /\ Len(P!StayNights(a, b)) = b - a
        /\ \A k \in 1..(b - a) : P!StayNights(a, b)[k] = a + k - 1
    BY <2>1, NightsOfStay
  <2>4. 1 \in 1..(b - a) /\ a + 1 - 1 = a
    BY <2>1
  <2>. QED
    BY <2>2, <2>3, <2>4 DEF a, b
<1>2. DOMAIN SleptIn(rows) = 1..n /\ SleptIn(rows) = [i \in 1..n |-> P!NightsOf(rows[i])]
  BY DEF SleptIn, Stays, Legs
<1>. QED
  BY <1>1, <1>2

\* Stays that follow one another are the nights of the trip.
LEMMA ContiguousIsSlept ==
  ASSUME NEW n \in Nat \ {0}, NEW rows, Stays(rows, n),
         NEW arrival \in Int, NEW departure \in Int, Contiguous(rows, n, arrival, departure)
  PROVE  FlattenSeq(SleptIn(rows)) = P!StayNights(arrival, departure)
<1>. DEFINE seqs == SleptIn(rows)
            out(k) == rows[k].checkOut
<1>1. seqs \in [1..n -> Seq(Int)]
  BY SleptInFacts
<1>2. PICK g : Flattening(Int, seqs, n, g) /\ FlattenSeq(seqs) = g[n]
  <2>. HIDE DEF seqs
  <2>. QED
    BY <1>1, FlattenUnfolds
<1>. DEFINE Q == {k \in 1..n : arrival < out(k) /\ g[k] = P!StayNights(arrival, out(k))}
<1>3. \A k \in 1..n : out(k) \in Int
  BY DEF Stays, Legs
<1>4. g[1] = seqs[1] /\ \A k \in 1..(n - 1) : g[k + 1] = g[k] \o seqs[k + 1]
  <2>. HIDE DEF seqs
  <2>. QED
    BY <1>1, <1>2, FlatteningFacts
<1>5. 1 \in Q
  <2>1. 1 \in 1..n
    OBVIOUS
  <2>2. seqs[1] = P!StayNights(arrival, out(1)) /\ arrival < out(1)
    BY <2>1, SleptInFacts DEF Contiguous, Stays
  <2>. QED
    BY <1>4, <2>1, <2>2
<1>6. ASSUME NEW k \in 1..n, k \in Q, k < n PROVE k + 1 \in Q
  <2>1. k \in 1..(n - 1) /\ k + 1 \in 1..n
    BY <1>6
  <2>2. seqs[k + 1] = P!StayNights(out(k), out(k + 1)) /\ out(k) < out(k + 1)
    <3>1. rows[k + 1].checkIn = out(k)
      BY <2>1 DEF Contiguous
    <3>2. seqs[k + 1] = P!StayNights(rows[k + 1].checkIn, out(k + 1))
      BY <2>1, SleptInFacts
    <3>3. rows[k + 1].checkIn < out(k + 1)
      BY <2>1 DEF Stays
    <3>. HIDE DEF seqs
    <3>. QED
      BY <3>1, <3>2, <3>3
  <2>3. g[k + 1] = g[k] \o seqs[k + 1]
    BY <1>4, <2>1
  <2>4. g[k] = P!StayNights(arrival, out(k)) /\ arrival < out(k)
    BY <1>6
  <2>5. out(k) \in Int /\ out(k + 1) \in Int
    BY <1>3, <2>1
  <2>. HIDE DEF out, seqs
  <2>6. P!StayNights(arrival, out(k)) \o P!StayNights(out(k), out(k + 1))
          = P!StayNights(arrival, out(k + 1))
    BY <2>2, <2>4, <2>5, NightsJoin
  <2>7. g[k + 1] = P!StayNights(arrival, out(k + 1)) /\ arrival < out(k + 1)
    BY <2>2, <2>3, <2>4, <2>5, <2>6
  <2>. QED
    BY <2>1, <2>7
<1>. HIDE DEF Q
<1>7. \A k \in 1..n : k \in Q
  BY <1>5, <1>6, UpTo
<1>8. g[n] = P!StayNights(arrival, out(n))
  BY <1>7 DEF Q
<1>. QED
  BY <1>2, <1>8 DEF Contiguous

\* Stays whose nights are those of the trip follow one another.
LEMMA SleptIsContiguous ==
  ASSUME NEW n \in Nat \ {0}, NEW rows, Stays(rows, n),
         NEW arrival \in Int, NEW departure \in Int, arrival < departure,
         FlattenSeq(SleptIn(rows)) = P!StayNights(arrival, departure)
  PROVE  Contiguous(rows, n, arrival, departure)
<1>. DEFINE seqs == SleptIn(rows)
            in(k) == rows[k].checkIn
            out(k) == rows[k].checkOut
<1>1. seqs \in [1..n -> Seq(Int)]
  BY SleptInFacts
<1>2. \A i \in 1..n : Len(seqs[i]) = out(i) - in(i) /\ seqs[i][1] = in(i)
  BY SleptInFacts
<1>3. \A i \in 1..n : in(i) \in Int /\ out(i) \in Int /\ in(i) < out(i)
  BY DEF Stays, Legs
<1>. HIDE DEF seqs, in, out
<1>4. PICK g : Flattening(Int, seqs, n, g) /\ FlattenSeq(seqs) = g[n]
  BY <1>1, FlattenUnfolds
<1>5. /\ Len(g[n]) = departure - arrival
      /\ \A p \in 1..(departure - arrival) : g[n][p] = arrival + p - 1
  <2>1. /\ Len(P!StayNights(arrival, departure)) = departure - arrival
        /\ \A p \in 1..(departure - arrival) :
             P!StayNights(arrival, departure)[p] = arrival + p - 1
    BY NightsOfStay
  <2>2. g[n] = P!StayNights(arrival, departure)
    BY <1>4 DEF seqs
  <2>. QED
    BY <2>1, <2>2
<1>6. /\ g[1] = seqs[1]
      /\ \A k \in 1..n : Len(g[k]) \in Nat /\ g[k] \in Seq(Int) /\ seqs[k] \in Seq(Int)
      /\ \A k \in 1..(n - 1) : g[k + 1] = g[k] \o seqs[k + 1]
  BY <1>1, <1>4, FlatteningFacts
\* Where each stay begins in the whole: after what the stays before it slept.
<1>7. ASSUME NEW k \in 1..n, NEW p \in 1..Len(g[k]) PROVE g[k][p] = arrival + p - 1
  <2>0. Len(g[k]) <= Len(g[n]) /\ \A i \in 1..Len(g[k]) : g[n][i] = g[k][i]
    BY <1>1, <1>4, PartsBeginTheWhole
  <2>1. Len(g[k]) <= Len(g[n]) /\ g[n][p] = g[k][p]
    BY <2>0
  <2>2. Len(g[k]) \in Nat
    BY <1>6
  <2>3. p \in 1..(departure - arrival)
    BY <1>5, <2>1, <2>2
  <2>. QED
    BY <1>5, <2>1, <2>3
<1>8. in(1) = arrival /\ out(1) = arrival + Len(g[1])
  <2>1. 1 \in 1..n
    OBVIOUS
  <2>2. Len(g[1]) = out(1) - in(1) /\ g[1][1] = in(1)
    BY <1>2, <1>6, <2>1
  <2>3. 1 \in 1..Len(g[1])
    BY <1>3, <2>1, <2>2
  <2>4. g[1][1] = arrival + 1 - 1
    BY <1>7, <2>1, <2>3
  <2>5. in(1) = arrival
    BY <2>2, <2>4
  <2>. QED
    BY <1>3, <2>1, <2>2, <2>5
<1>9. ASSUME NEW k \in 1..(n - 1)
      PROVE  in(k + 1) = arrival + Len(g[k]) /\ out(k + 1) = arrival + Len(g[k + 1])
  <2>. DEFINE head == g[k]
              tail == seqs[k + 1]
              both == g[k + 1]
  <2>1. k \in 1..n /\ k + 1 \in 1..n
    OBVIOUS
  <2>2. head \in Seq(Int) /\ tail \in Seq(Int) /\ both = head \o tail
    BY <1>6, <2>1
  <2>3. Len(tail) = out(k + 1) - in(k + 1) /\ tail[1] = in(k + 1)
    BY <1>2, <2>1
  <2>4. \A p \in 1..Len(both) : both[p] = arrival + p - 1
    BY <1>7, <2>1
  <2>. HIDE DEF head, tail, both
  <2>5. /\ Len(head) \in Nat /\ Len(tail) \in Nat /\ Len(both) = Len(head) + Len(tail)
        /\ \A p \in 1..Len(tail) : both[Len(head) + p] = tail[p]
    BY <2>2, Joined
  <2>6. in(k + 1) \in Int /\ out(k + 1) \in Int /\ in(k + 1) < out(k + 1)
    BY <1>3, <2>1
  <2>7. 1 \in 1..Len(tail) /\ Len(head) + 1 \in 1..Len(both)
    BY <2>3, <2>5, <2>6
  <2>8. in(k + 1) = arrival + (Len(head) + 1) - 1
    BY <2>3, <2>4, <2>5, <2>7
  <2>9. in(k + 1) = arrival + Len(head) /\ out(k + 1) = arrival + Len(both)
    BY <2>3, <2>5, <2>6, <2>8
  <2>. QED
    BY <2>9 DEF head, both
<1>10. \A k \in 1..n : out(k) = arrival + Len(g[k])
  <2>1. ASSUME NEW k \in 1..n, k # 1 PROVE out(k) = arrival + Len(g[k])
    <3>1. k - 1 \in 1..(n - 1) /\ (k - 1) + 1 = k
      BY <2>1
    <3>. QED
      BY <1>9, <3>1
  <2>. QED
    BY <1>8, <2>1
<1>11. out(n) = departure
  <2>1. n \in 1..n
    OBVIOUS
  <2>. QED
    BY <1>5, <1>10, <2>1
<1>12. ASSUME NEW k \in 1..(n - 1) PROVE in(k + 1) = out(k)
  <2>1. k \in 1..n
    OBVIOUS
  <2>. QED
    BY <1>9, <1>10, <2>1
<1>. QED
  BY <1>8, <1>11, <1>12 DEF Contiguous, in, out

-------------------------------------------------------------------------------
(***************************************************************************)
(* packages.check                                                          *)
(***************************************************************************)

LongEnough(rows, n, minimum) ==
  \A i \in 1..n : rows[i].seq \in DOMAIN minimum =>
                    rows[i].checkOut - rows[i].checkIn >= minimum[rows[i].seq]

Distinct(rows, n) == \A i, j \in 1..n : i # j => rows[i].seq # rows[j].seq

Blocked(ordered, arrival, departure, minimum) ==
  \E code \in P!BlockingFaults : P!PackageFault(code, ordered, arrival, departure, minimum)

LEMMA EndsOfTheTrip ==
  ASSUME NEW n \in Nat \ {0}, NEW rows, Legs(rows, n), NEW S, rows \in Seq(S)
  PROVE  Head(rows) = rows[1] /\ P!Last(rows) = rows[n] /\ Len(rows) = n
<1>1. Len(rows) \in Nat /\ DOMAIN rows = 1..Len(rows)
  BY LenProperties
<1>2. Len(rows) = n
  BY <1>1 DEF Legs
<1>. QED
  BY <1>2 DEF P!Last

\* What each code finds, of the legs in their order.
LEMMA FaultsFound ==
  ASSUME NEW n \in Nat \ {0}, NEW rows, Legs(rows, n), NEW S, rows \in Seq(S),
         NEW arrival, NEW departure, NEW minimum
  PROVE  LET fault(code) == P!PackageFault(code, rows, arrival, departure, minimum)
         IN  /\ fault("duplicate_sequence") <=> ~Distinct(rows, n)
             /\ fault("bad_range") <=> \E i \in 1..n : rows[i].checkOut <= rows[i].checkIn
             /\ fault("gap") <=> \E i \in 1..(n - 1) : rows[i + 1].checkIn > rows[i].checkOut
             /\ fault("overlap") <=> \E i \in 1..(n - 1) : rows[i + 1].checkIn < rows[i].checkOut
             /\ fault("late_start") <=> rows[1].checkIn > arrival
             /\ fault("early_start") <=> rows[1].checkIn < arrival
             /\ fault("short_end") <=> rows[n].checkOut < departure
             /\ fault("long_end") <=> rows[n].checkOut > departure
             /\ fault("below_minimum") <=>
                  \E i \in 1..n : /\ rows[i].seq \in DOMAIN minimum
                                  /\ Len(P!NightsOf(rows[i])) < minimum[rows[i].seq]
<1>. DEFINE fault(code) == P!PackageFault(code, rows, arrival, departure, minimum)
<1>1. DOMAIN rows = 1..n /\ Head(rows) = rows[1] /\ P!Last(rows) = rows[n] /\ Len(rows) = n
  BY EndsOfTheTrip DEF Legs
<1>2. fault("duplicate_sequence") <=> ~Distinct(rows, n)
  BY <1>1 DEF P!PackageFault, Distinct
<1>3. fault("bad_range") <=> \E i \in 1..n : rows[i].checkOut <= rows[i].checkIn
  BY <1>1 DEF P!PackageFault
<1>4. P!Joins(rows) = {<<rows[i], rows[i + 1]>> : i \in 1..(n - 1)}
  BY <1>1 DEF P!Joins
<1>5. fault("gap") <=> \E i \in 1..(n - 1) : rows[i + 1].checkIn > rows[i].checkOut
  <2>1. fault("gap") <=> \E join \in P!Joins(rows) : join[2].checkIn > join[1].checkOut
    BY DEF P!PackageFault, P!Gap
  <2>2. ASSUME NEW join \in P!Joins(rows), join[2].checkIn > join[1].checkOut
        PROVE  \E i \in 1..(n - 1) : rows[i + 1].checkIn > rows[i].checkOut
    <3>1. PICK i \in 1..(n - 1) : join = <<rows[i], rows[i + 1]>>
      BY <1>4
    <3>2. join[1] = rows[i] /\ join[2] = rows[i + 1]
      BY <3>1
    <3>. QED
      BY <2>2, <3>2
  <2>3. ASSUME NEW i \in 1..(n - 1), rows[i + 1].checkIn > rows[i].checkOut
        PROVE  \E join \in P!Joins(rows) : join[2].checkIn > join[1].checkOut
    <3>1. <<rows[i], rows[i + 1]>> \in P!Joins(rows)
      BY <1>4
    <3>. QED
      BY <2>3, <3>1
  <2>. HIDE DEF fault
  <2>. QED
    BY <2>1, <2>2, <2>3
<1>6. fault("overlap") <=> \E i \in 1..(n - 1) : rows[i + 1].checkIn < rows[i].checkOut
  <2>1. fault("overlap") <=> \E join \in P!Joins(rows) : join[2].checkIn < join[1].checkOut
    BY DEF P!PackageFault
  <2>2. ASSUME NEW join \in P!Joins(rows), join[2].checkIn < join[1].checkOut
        PROVE  \E i \in 1..(n - 1) : rows[i + 1].checkIn < rows[i].checkOut
    <3>1. PICK i \in 1..(n - 1) : join = <<rows[i], rows[i + 1]>>
      BY <1>4
    <3>2. join[1] = rows[i] /\ join[2] = rows[i + 1]
      BY <3>1
    <3>. QED
      BY <2>2, <3>2
  <2>3. ASSUME NEW i \in 1..(n - 1), rows[i + 1].checkIn < rows[i].checkOut
        PROVE  \E join \in P!Joins(rows) : join[2].checkIn < join[1].checkOut
    <3>1. <<rows[i], rows[i + 1]>> \in P!Joins(rows)
      BY <1>4
    <3>. QED
      BY <2>3, <3>1
  <2>. HIDE DEF fault
  <2>. QED
    BY <2>1, <2>2, <2>3
<1>7. /\ fault("late_start") <=> rows[1].checkIn > arrival
      /\ fault("early_start") <=> rows[1].checkIn < arrival
      /\ fault("short_end") <=> rows[n].checkOut < departure
      /\ fault("long_end") <=> rows[n].checkOut > departure
  BY <1>1 DEF P!PackageFault
<1>8. fault("below_minimum") <=>
        \E i \in 1..n : /\ rows[i].seq \in DOMAIN minimum
                        /\ Len(P!NightsOf(rows[i])) < minimum[rows[i].seq]
  BY <1>1 DEF P!PackageFault
<1>. QED
  BY <1>2, <1>3, <1>5, <1>6, <1>7, <1>8

\* No fault blocks a package exactly when its stays are the trip.
LEMMA UnblockedIsTheTrip ==
  ASSUME NEW n \in Nat \ {0}, NEW rows, Legs(rows, n), NEW S, rows \in Seq(S),
         NEW arrival \in Int, NEW departure \in Int,
         NEW minimum, \A seq \in DOMAIN minimum : minimum[seq] \in Int
  PROVE  ~Blocked(rows, arrival, departure, minimum) <=>
           /\ Stays(rows, n) /\ Distinct(rows, n) /\ LongEnough(rows, n, minimum)
           /\ Contiguous(rows, n, arrival, departure)
<1>. DEFINE fault(code) == P!PackageFault(code, rows, arrival, departure, minimum)
            in(i) == rows[i].checkIn
            out(i) == rows[i].checkOut
<1>1. ~Blocked(rows, arrival, departure, minimum) <=>
        /\ ~fault("duplicate_sequence") /\ ~fault("bad_range") /\ ~fault("gap")
        /\ ~fault("overlap") /\ ~fault("late_start") /\ ~fault("early_start")
        /\ ~fault("short_end") /\ ~fault("long_end") /\ ~fault("below_minimum")
  BY DEF Blocked, P!BlockingFaults
<1>2. \A i \in 1..n : in(i) \in Int /\ out(i) \in Int
  BY DEF Legs
<1>3. ~fault("duplicate_sequence") <=> Distinct(rows, n)
  BY FaultsFound
<1>4. ~fault("bad_range") <=> Stays(rows, n)
  <2>1. ~fault("bad_range") <=> \A i \in 1..n : ~(out(i) <= in(i))
    BY FaultsFound
  <2>. HIDE DEF fault
  <2>. QED
    BY <1>2, <2>1 DEF Stays
<1>5. ~fault("gap") /\ ~fault("overlap") <=> \A i \in 1..(n - 1) : in(i + 1) = out(i)
  <2>1. ~fault("gap") /\ ~fault("overlap") <=>
          \A i \in 1..(n - 1) : ~(in(i + 1) > out(i)) /\ ~(in(i + 1) < out(i))
    BY FaultsFound
  <2>2. \A i \in 1..(n - 1) : in(i + 1) \in Int /\ out(i) \in Int
    <3>1. \A i \in 1..(n - 1) : i \in 1..n /\ i + 1 \in 1..n
      OBVIOUS
    <3>. QED
      BY <1>2, <3>1
  <2>. HIDE DEF fault, in, out
  <2>. QED
    BY <2>1, <2>2
<1>6. /\ ~fault("late_start") /\ ~fault("early_start") <=> in(1) = arrival
      /\ ~fault("short_end") /\ ~fault("long_end") <=> out(n) = departure
  <2>1. /\ fault("late_start") <=> in(1) > arrival
        /\ fault("early_start") <=> in(1) < arrival
        /\ fault("short_end") <=> out(n) < departure
        /\ fault("long_end") <=> out(n) > departure
    BY FaultsFound
  <2>2. in(1) \in Int /\ out(n) \in Int
    BY <1>2
  <2>. HIDE DEF fault, in, out
  <2>. QED
    BY <2>1, <2>2
<1>7. Stays(rows, n) => (~fault("below_minimum") <=> LongEnough(rows, n, minimum))
  <2>. SUFFICES ASSUME Stays(rows, n)
                PROVE  ~fault("below_minimum") <=> LongEnough(rows, n, minimum)
    OBVIOUS
  <2>1. ~fault("below_minimum") <=>
          \A i \in 1..n : rows[i].seq \in DOMAIN minimum =>
                            ~(Len(P!NightsOf(rows[i])) < minimum[rows[i].seq])
    BY FaultsFound
  <2>2. \A i \in 1..n : Len(P!NightsOf(rows[i])) = out(i) - in(i)
    <3>1. ASSUME NEW i \in 1..n PROVE Len(P!NightsOf(rows[i])) = out(i) - in(i)
      <4>1. SleptIn(rows)[i] = P!NightsOf(rows[i])
        BY DEF SleptIn, Legs
      <4>. QED
        BY <4>1, SleptInFacts
    <3>. QED
      BY <3>1
  <2>3. ASSUME NEW i \in 1..n, rows[i].seq \in DOMAIN minimum
        PROVE  ~(Len(P!NightsOf(rows[i])) < minimum[rows[i].seq])
                 <=> out(i) - in(i) >= minimum[rows[i].seq]
    <3>1. in(i) \in Int /\ out(i) \in Int /\ minimum[rows[i].seq] \in Int
      BY <1>2, <2>3
    <3>2. Len(P!NightsOf(rows[i])) = out(i) - in(i)
      BY <2>2
    <3>. HIDE DEF in, out
    <3>. QED
      BY <3>1, <3>2
  <2>. HIDE DEF fault
  <2>. QED
    BY <2>1, <2>3 DEF LongEnough
<1>. HIDE DEF fault
<1>. QED
  BY <1>1, <1>3, <1>4, <1>5, <1>6, <1>7 DEF Contiguous

-------------------------------------------------------------------------------
(***************************************************************************)
(* itinerary.build                                                         *)
(***************************************************************************)

\* Every stay ends before the later ones begin.
LEMMA StaysInTurn ==
  ASSUME NEW n \in Nat \ {0}, NEW rows, Stays(rows, n),
         NEW arrival \in Int, NEW departure \in Int, Contiguous(rows, n, arrival, departure)
  PROVE  /\ \A i, j \in 1..n : i < j => rows[i].checkOut <= rows[j].checkIn
         /\ \A i \in 1..n : arrival <= rows[i].checkIn /\ rows[i].checkOut <= departure
<1>. DEFINE in == [i \in 1..n |-> rows[i].checkIn]
            out == [i \in 1..n |-> rows[i].checkOut]
            Q == {j \in 1..n : \A i \in 1..n : i < j => out[i] <= in[j]}
<1>1. /\ \A i \in 1..n : in[i] \in Int /\ out[i] \in Int /\ in[i] < out[i]
      /\ in[1] = arrival /\ out[n] = departure
  BY DEF Stays, Legs, Contiguous
<1>2. \A i \in 1..(n - 1) : in[i + 1] = out[i]
  <2>1. \A i \in 1..(n - 1) : i \in 1..n /\ i + 1 \in 1..n
    OBVIOUS
  <2>. QED
    BY <2>1 DEF Contiguous
<1>. HIDE DEF in, out
<1>3. 1 \in Q
  OBVIOUS
<1>4. ASSUME NEW j \in 1..n, j \in Q, j < n PROVE j + 1 \in Q
  <2>1. j + 1 \in 1..n /\ j \in 1..(n - 1)
    BY <1>4
  <2>2. ASSUME NEW i \in 1..n, i < j + 1 PROVE out[i] <= in[j + 1]
    <3>1. in[j + 1] = out[j] /\ in[j] < out[j] /\ in[j] \in Int /\ out[j] \in Int /\ out[i] \in Int
      BY <1>1, <1>2, <2>1
    <3>2. CASE i = j
      BY <3>1, <3>2
    <3>3. CASE i # j
      <4>1. i < j
        BY <2>2, <3>3
      <4>2. out[i] <= in[j]
        BY <1>4, <4>1
      <4>. QED
        BY <3>1, <4>2
    <3>. QED
      BY <3>2, <3>3
  <2>. QED
    BY <2>1, <2>2
<1>. HIDE DEF Q
<1>5. \A j \in 1..n : j \in Q
  BY <1>3, <1>4, UpTo
<1>6. \A i, j \in 1..n : i < j => out[i] <= in[j]
  BY <1>5 DEF Q
<1>7. ASSUME NEW i \in 1..n PROVE arrival <= in[i] /\ out[i] <= departure
  <2>1. arrival <= in[i]
    <3>1. CASE i = 1
      BY <1>1, <3>1
    <3>2. CASE i # 1
      <4>1. 1 \in 1..n /\ 1 < i
        BY <3>2
      <4>2. out[1] <= in[i]
        BY <1>6, <4>1
      <4>. QED
        BY <1>1, <4>1, <4>2
    <3>. QED
      BY <3>1, <3>2
  <2>2. out[i] <= departure
    <3>1. CASE i = n
      BY <1>1, <3>1
    <3>2. CASE i # n
      <4>1. n \in 1..n /\ i < n
        BY <3>2
      <4>2. out[i] <= in[n]
        BY <1>6, <4>1
      <4>. QED
        BY <1>1, <4>1, <4>2
    <3>. QED
      BY <3>1, <3>2
  <2>. QED
    BY <2>1, <2>2
<1>. QED
  BY <1>6, <1>7 DEF in, out

SleepsAt(rows, i, on) == rows[i].checkIn <= on /\ on < rows[i].checkOut

\* Every night of the trip is under one stay and no other; the day of departure
\* is under none, and is given to the last.
LEMMA NightsAreHeld ==
  ASSUME NEW n \in Nat \ {0}, NEW rows, Stays(rows, n),
         NEW arrival \in Int, NEW departure \in Int, Contiguous(rows, n, arrival, departure),
         NEW on \in Int, arrival <= on, on < departure
  PROVE  \E i \in 1..n : SleepsAt(rows, i, on) /\ \A j \in 1..n : SleepsAt(rows, j, on) => j = i
<1>. DEFINE in == [i \in 1..n |-> rows[i].checkIn]
            out == [i \in 1..n |-> rows[i].checkOut]
            later == {i \in 1..n : on < out[i]}
<1>1. /\ \A i \in 1..n : in[i] \in Int /\ out[i] \in Int /\ in[i] < out[i]
      /\ in[1] = arrival /\ out[n] = departure
  BY DEF Stays, Legs, Contiguous
<1>2. \A i \in 1..(n - 1) : in[i + 1] = out[i]
  <2>1. \A i \in 1..(n - 1) : i \in 1..n /\ i + 1 \in 1..n
    OBVIOUS
  <2>. QED
    BY <2>1 DEF Contiguous
<1>3. \A i, j \in 1..n : i < j => out[i] <= in[j]
  BY StaysInTurn
<1>4. \A i \in 1..n : SleepsAt(rows, i, on) <=> in[i] <= on /\ on < out[i]
  BY DEF SleepsAt
<1>. HIDE DEF in, out
<1>5. n \in later /\ later \subseteq Nat
  BY <1>1
<1>6. PICK i \in later : \A j \in later : i <= j
  <2>. HIDE DEF later
  <2>. QED
    BY <1>5, LeastNatural
<1>7. in[i] <= on
  <2>1. CASE i = 1
    BY <1>1, <2>1
  <2>2. CASE i # 1
    <3>1. i - 1 \in 1..(n - 1) /\ i - 1 \in 1..n /\ (i - 1) + 1 = i /\ i - 1 \notin later
      BY <1>6, <2>2
    <3>2. in[i] = out[i - 1] /\ ~(on < out[i - 1]) /\ out[i - 1] \in Int
      BY <1>1, <1>2, <3>1
    <3>. QED
      BY <3>2
  <2>. QED
    BY <2>1, <2>2
<1>8. ASSUME NEW j \in 1..n, in[j] <= on, on < out[j] PROVE j = i
  <2>1. in[i] \in Int /\ out[i] \in Int /\ in[j] \in Int /\ out[j] \in Int
    BY <1>1
  <2>2. CASE i < j
    <3>1. out[i] <= in[j] /\ on < out[i]
      BY <1>3, <2>2
    <3>. QED
      BY <1>8, <2>1, <3>1
  <2>3. CASE j < i
    <3>1. out[j] <= in[i]
      BY <1>3, <2>3
    <3>. QED
      BY <1>7, <1>8, <2>1, <3>1
  <2>. QED
    BY <2>2, <2>3
<1>. QED
  BY <1>4, <1>6, <1>7, <1>8

LEMMA HeldFacts ==
  ASSUME NEW n \in Nat \ {0}, NEW rows, Stays(rows, n), NEW S, rows \in Seq(S),
         NEW arrival \in Int, NEW departure \in Int, Contiguous(rows, n, arrival, departure),
         NEW on \in Int, arrival <= on, on <= departure
  PROVE  LET h == P!Holding(rows, on, departure)
         IN  /\ h \in 1..n
             /\ on < departure => SleepsAt(rows, h, on) /\ \A j \in 1..n : SleepsAt(rows, j, on) => j = h
             /\ on = departure => h = n
<1>. DEFINE under == {i \in 1..n : SleepsAt(rows, i, on)}
            h == P!Holding(rows, on, departure)
<1>1. DOMAIN rows = 1..n /\ Len(rows) = n
  BY EndsOfTheTrip DEF Stays, Legs
<1>2. h = IF under # {} THEN CHOOSE i \in under : \A j \in under : i <= j
          ELSE IF on = departure /\ rows # <<>> THEN n ELSE None
  <2>. DEFINE found == {i \in DOMAIN rows : rows[i].checkIn <= on /\ on < rows[i].checkOut}
  <2>1. h = IF found # {} THEN CHOOSE i \in found : \A j \in found : i <= j
            ELSE IF on = departure /\ rows # <<>> THEN Len(rows) ELSE None
    BY Zenon DEF P!Holding
  <2>2. found = under
    BY <1>1 DEF SleepsAt
  <2>. HIDE DEF found, under, h
  <2>. QED
    BY <1>1, <2>1, <2>2
<1>3. CASE on < departure
  <2>1. PICK i \in 1..n : SleepsAt(rows, i, on) /\ \A j \in 1..n : SleepsAt(rows, j, on) => j = i
    BY <1>3, NightsAreHeld
  <2>2. under = {i}
    BY <2>1
  <2>3. h = i
    <3>. HIDE DEF under
    <3>1. \A k \in under : k = i
      BY <2>2
    <3>2. i \in under /\ \A j \in under : i <= j
      BY <2>2
    <3>. HIDE DEF h
    <3>. QED
      BY <1>2, <3>1, <3>2
  <2>. QED
    BY <1>3, <2>1, <2>3
<1>4. CASE on = departure
  <2>1. under = {}
    <3>1. ASSUME NEW i \in 1..n PROVE ~SleepsAt(rows, i, on)
      <4>1. rows[i].checkOut <= departure /\ rows[i].checkOut \in Int
        BY StaysInTurn DEF Stays, Legs
      <4>. QED
        BY <1>4, <4>1 DEF SleepsAt
    <3>. QED
      BY <3>1
  <2>2. rows # <<>>
    BY <1>1
  <2>. QED
    BY <1>2, <1>4, <2>1, <2>2
<1>. QED
  BY <1>3, <1>4

LEMMA TripDates ==
  ASSUME NEW arrival \in Int, NEW departure \in Int, arrival < departure
  PROVE  LET dates == P!Dates(arrival, departure)
         IN  /\ DOMAIN dates = 1..(departure - arrival + 1) /\ dates # <<>>
             /\ \A k \in 1..(departure - arrival + 1) : dates[k] = arrival + k - 1
<1>1. P!Dates(arrival, departure) = [k \in 1..(departure + 1 - arrival) |-> arrival + k - 1]
  BY DEF P!Dates, P!StayNights
<1>2. departure + 1 - arrival = departure - arrival + 1 /\ departure - arrival + 1 >= 1
  OBVIOUS
<1>3. 1 \in 1..(departure - arrival + 1)
  BY <1>2
<1>. QED
  BY <1>1, <1>2, <1>3

Held(legs, arrival, departure) ==
  [k \in 1..(departure - arrival + 1) |->
     P!Holding(P!InOrder(legs), arrival + k - 1, departure)]

\* A day of the programme, whatever the package.
DaysLaidOut(legs, arrival, departure, movements, excursions) ==
  LET day == P!Programme(legs, arrival, departure, movements, excursions)
      m == departure - arrival + 1
  IN  /\ DOMAIN day = 1..m /\ Len(day) = m
      /\ \A k \in 1..m :
           /\ day[k].on = arrival + k - 1
           /\ day[k].leg = Held(legs, arrival, departure)[k]
           /\ day[k].night <=> k # m
           /\ day[k].movements = {x \in movements : x.on = arrival + k - 1}
           /\ day[k].excursions = {x \in excursions : x.day = k}

LEMMA DaysOfTheTrip ==
  ASSUME NEW legs, NEW arrival \in Int, NEW departure \in Int, arrival < departure,
         NEW movements, NEW excursions
  PROVE  DaysLaidOut(legs, arrival, departure, movements, excursions)
<1>. DEFINE day == P!Programme(legs, arrival, departure, movements, excursions)
            m == departure - arrival + 1
            dates == P!Dates(arrival, departure)
<1>1. DOMAIN dates = 1..m /\ \A k \in 1..m : dates[k] = arrival + k - 1
  BY TripDates
<1>2. DOMAIN day = 1..m
  BY <1>1 DEF P!Programme
<1>3. Len(day) = m
  <2>1. day = [k \in 1..m |-> day[k]]
    BY <1>1 DEF P!Programme
  <2>2. day \in [1..m -> {day[k] : k \in 1..m}]
    <3>. HIDE DEF day
    <3>. QED
      BY <2>1
  <2>3. m \in Nat
    OBVIOUS
  <2>. HIDE DEF day, m
  <2>4. day \in Seq({day[k] : k \in 1..m})
    BY <2>2, <2>3, SeqDef
  <2>5. Len(day) \in Nat /\ DOMAIN day = 1..Len(day)
    BY <2>4, LenProperties
  <2>. QED
    BY <1>2, <2>3, <2>5
<1>4. ASSUME NEW k \in 1..m
      PROVE  /\ day[k].on = arrival + k - 1
             /\ day[k].leg = Held(legs, arrival, departure)[k]
             /\ day[k].night <=> k # m
             /\ day[k].movements = {x \in movements : x.on = arrival + k - 1}
             /\ day[k].excursions = {x \in excursions : x.day = k}
  <2>1. /\ day[k].on = dates[k]
        /\ day[k].leg = P!Holding(P!InOrder(legs), dates[k], departure)
        /\ day[k].night <=> dates[k] # departure
        /\ day[k].movements = {x \in movements : x.on = dates[k]}
        /\ day[k].excursions = {x \in excursions : x.day = k}
    BY <1>1 DEF P!Programme
  <2>2. arrival + k - 1 # departure <=> k # m
    OBVIOUS
  <2>3. Held(legs, arrival, departure)[k] = P!Holding(P!InOrder(legs), arrival + k - 1, departure)
    BY DEF Held
  <2>. HIDE DEF day, dates
  <2>. QED
    BY <1>1, <2>1, <2>2, <2>3
<1>. QED
  BY <1>2, <1>3, <1>4 DEF DaysLaidOut

DayMoves(legs, arrival, departure, movements, excursions, k) ==
  LET held == Held(legs, arrival, departure)
      rows == P!InOrder(legs)
  IN  P!Programme(legs, arrival, departure, movements, excursions)[k].movesFrom =
        IF k # 1 /\ rows[held[k - 1]].seq # rows[held[k]].seq THEN held[k - 1] ELSE None

\* A trip with a stay on every day moves on the days the stay is another.
LEMMA MovesOfTheTrip ==
  ASSUME NEW legs, NEW arrival \in Int, NEW departure \in Int, arrival < departure,
         NEW movements, NEW excursions,
         \A k \in 1..(departure - arrival + 1) : Held(legs, arrival, departure)[k] # None,
         NEW k \in 1..(departure - arrival + 1)
  PROVE  DayMoves(legs, arrival, departure, movements, excursions, k)
<1>. DEFINE held == Held(legs, arrival, departure)
            m == departure - arrival + 1
            dates == P!Dates(arrival, departure)
            rows == P!InOrder(legs)
            holding(i) == P!Holding(rows, dates[i], departure)
            before == {i \in 1..(k - 1) : holding(i) # None}
            previous == holding(P!Max(before))
<1>1. DOMAIN dates = 1..m /\ \A i \in 1..m : dates[i] = arrival + i - 1
  BY TripDates
<1>2. P!Programme(legs, arrival, departure, movements, excursions)[k].movesFrom =
        IF before # {} /\ holding(k) # None /\ rows[previous].seq # rows[holding(k)].seq
          THEN previous ELSE None
  BY <1>1 DEF P!Programme
<1>3. \A i \in 1..m : holding(i) = held[i]
  BY <1>1 DEF Held
<1>4. before = 1..(k - 1)
  <2>1. \A i \in 1..(k - 1) : i \in 1..m
    OBVIOUS
  <2>. HIDE DEF holding
  <2>. QED
    BY <1>3, <2>1
<1>5. k # 1 => P!Max(before) = k - 1
  <2>1. k # 1 => k - 1 \in 1..(k - 1) /\ \A i \in 1..(k - 1) : k - 1 >= i
    OBVIOUS
  <2>. HIDE DEF before
  <2>. QED
    BY <1>4, <2>1 DEF P!Max
<1>6. CASE k = 1
  <2>1. before = {}
    BY <1>4, <1>6
  <2>. HIDE DEF before, previous, holding, held
  <2>. QED
    BY <1>2, <1>6, <2>1 DEF DayMoves
<1>7. CASE k # 1
  <2>1. k - 1 \in 1..m /\ k - 1 \in 1..(k - 1)
    BY <1>7
  <2>2. before # {} /\ previous = held[k - 1] /\ holding(k) = held[k] /\ held[k] # None
    <3>. HIDE DEF holding, before
    <3>. QED
      BY <1>3, <1>4, <1>5, <1>7, <2>1
  <2>. HIDE DEF before, previous, holding, rows, held
  <2>3. P!Programme(legs, arrival, departure, movements, excursions)[k].movesFrom =
          IF rows[held[k - 1]].seq # rows[held[k]].seq THEN held[k - 1] ELSE None
    BY <1>2, <2>2
  <2>. QED
    BY <1>7, <2>3 DEF rows, held, DayMoves
<1>. QED
  BY <1>6, <1>7

-------------------------------------------------------------------------------
(***************************************************************************)
(* What a package is answered                                              *)
(***************************************************************************)

\* The conjuncts of PackageCoversTheTrip, of one question.
Fits(asked, rows) ==
  /\ FlattenSeq(SleptIn(rows)) = P!StayNights(asked.arrival, asked.departure)
  /\ \A i \in DOMAIN rows :
       /\ rows[i].checkOut - rows[i].checkIn > 0
       /\ rows[i].seq \in DOMAIN asked.minimum =>
            rows[i].checkOut - rows[i].checkIn >= asked.minimum[rows[i].seq]
  /\ \A i, j \in DOMAIN rows : i # j => rows[i].seq # rows[j].seq

DaysAreHeld(rows, day) ==
  \A k \in DOMAIN day :
    /\ day[k].leg # None
    /\ rows[day[k].leg].checkIn <= day[k].on
    /\ day[k].on < rows[day[k].leg].checkOut \/ (k = Len(day) /\ ~day[k].night)
    /\ (day[k].movesFrom # None) <=> (k > 1 /\ day[k].leg # day[k - 1].leg)
    /\ k > 1 => day[k].leg \in {day[k - 1].leg, day[k - 1].leg + 1}

EventsOnTheirDays(asked, day) ==
  /\ \A m \in {x \in asked.movements : x.on # None} :
       {k \in DOMAIN day : m \in day[k].movements} = {m.on - asked.arrival + 1}
  /\ \A x \in {y \in asked.excursions : y.day # None} :
       {k \in DOMAIN day : x \in day[k].excursions} = {x.day}

LEMMA LegsAsked ==
  ASSUME NEW asked \in PackageQuestions
  PROVE  /\ Len(asked.legs) \in Nat /\ Legs(asked.legs, Len(asked.legs))
         /\ asked.legs = <<>> <=> Len(asked.legs) = 0
         /\ asked.arrival \in Int /\ asked.departure \in Int /\ asked.arrival < asked.departure
         /\ \A seq \in DOMAIN asked.minimum : asked.minimum[seq] \in Int
         /\ \A m \in asked.movements : m.on \in Int \cup {None}
         /\ \A x \in asked.excursions : x.day \in Int \cup {None}
<1>1. /\ asked.legs \in Seq(Range(asked.legs))
      /\ \A leg \in Range(asked.legs) :
           leg.seq \in Int /\ leg.checkIn \in Int /\ leg.checkOut \in Int
  BY CostingAssumption DEF IsList
<1>2. Len(asked.legs) \in Nat /\ DOMAIN asked.legs = 1..Len(asked.legs)
  BY <1>1, LenProperties
<1>3. Legs(asked.legs, Len(asked.legs))
  BY <1>1, <1>2 DEF Legs, Range
<1>4. asked.legs = <<>> <=> Len(asked.legs) = 0
  BY <1>1, EmptySeq
<1>. QED
  BY <1>2, <1>3, <1>4, CostingAssumption

\* packages.check says no more and no less than that the stays are the trip.
LEMMA BookableFits ==
  ASSUME NEW asked \in PackageQuestions
  PROVE  P!Bookable(asked.legs, asked.arrival, asked.departure, asked.minimum)
           <=> Fits(asked, P!InOrder(asked.legs))
<1>. DEFINE n == Len(asked.legs)
            rows == P!InOrder(asked.legs)
            S == Range(asked.legs)
<1>1. /\ n \in Nat /\ Legs(asked.legs, n) /\ (asked.legs = <<>> <=> n = 0)
      /\ asked.arrival \in Int /\ asked.departure \in Int /\ asked.arrival < asked.departure
      /\ \A seq \in DOMAIN asked.minimum : asked.minimum[seq] \in Int
  BY LegsAsked
<1>. HIDE DEF n
<1>2. Legs(rows, n) /\ rows \in Seq(S)
  BY <1>1, OrderKeepsLegs
<1>. HIDE DEF rows, S
<1>3. CASE n = 0
  <2>1. ~P!Bookable(asked.legs, asked.arrival, asked.departure, asked.minimum)
    BY <1>1, <1>3 DEF P!Bookable, P!PackageProblems
  <2>2. FlattenSeq(SleptIn(rows)) = <<>>
    <3>1. DOMAIN rows = {}
      BY <1>2, <1>3 DEF Legs
    <3>2. SleptIn(rows) = <<>>
      BY <3>1 DEF SleptIn
    <3>. QED
      BY <3>2 DEF FlattenSeq
  <2>3. Len(P!StayNights(asked.arrival, asked.departure)) = asked.departure - asked.arrival
    BY <1>1, NightsOfStay
  <2>4. P!StayNights(asked.arrival, asked.departure) # <<>>
    BY <1>1, <2>3
  <2>. QED
    BY <2>1, <2>2, <2>4 DEF Fits, rows
<1>4. CASE n # 0
  <2>1. n \in Nat \ {0} /\ asked.legs # <<>> /\ DOMAIN rows = 1..n
    BY <1>1, <1>2, <1>4 DEF Legs
  <2>2. P!Bookable(asked.legs, asked.arrival, asked.departure, asked.minimum)
          <=> ~Blocked(rows, asked.arrival, asked.departure, asked.minimum)
    BY <2>1 DEF P!Bookable, P!PackageProblems, Blocked, P!BlockingFaults, rows
  <2>3. ~Blocked(rows, asked.arrival, asked.departure, asked.minimum) <=>
           /\ Stays(rows, n) /\ Distinct(rows, n) /\ LongEnough(rows, n, asked.minimum)
           /\ Contiguous(rows, n, asked.arrival, asked.departure)
    BY <1>1, <1>2, <2>1, UnblockedIsTheTrip
  <2>4. Stays(rows, n) <=> \A i \in 1..n : rows[i].checkOut - rows[i].checkIn > 0
    BY <1>2 DEF Stays, Legs
  <2>5. Stays(rows, n) =>
          (Contiguous(rows, n, asked.arrival, asked.departure)
             <=> FlattenSeq(SleptIn(rows)) = P!StayNights(asked.arrival, asked.departure))
    BY <1>1, <2>1, ContiguousIsSlept, SleptIsContiguous
  <2>6. Fits(asked, rows) <=>
          /\ FlattenSeq(SleptIn(rows)) = P!StayNights(asked.arrival, asked.departure)
          /\ \A i \in 1..n : rows[i].checkOut - rows[i].checkIn > 0
          /\ LongEnough(rows, n, asked.minimum) /\ Distinct(rows, n)
    BY <2>1, Zenon DEF Fits, LongEnough, Distinct
  <2>. QED
    BY <2>2, <2>3, <2>4, <2>5, <2>6 DEF rows
<1>. QED
  BY <1>3, <1>4

\* A programme of a trip that fits holds every day.
LEMMA FittingDaysAreHeld ==
  ASSUME NEW asked \in PackageQuestions,
         P!Bookable(asked.legs, asked.arrival, asked.departure, asked.minimum)
  PROVE  DaysAreHeld(P!InOrder(asked.legs),
                     P!Programme(asked.legs, asked.arrival, asked.departure,
                                 asked.movements, asked.excursions))
<1>. DEFINE n == Len(asked.legs)
            rows == P!InOrder(asked.legs)
            S == Range(asked.legs)
            arrival == asked.arrival
            departure == asked.departure
            m == departure - arrival + 1
            day == P!Programme(asked.legs, arrival, departure, asked.movements, asked.excursions)
            held == Held(asked.legs, arrival, departure)
<1>1. /\ n \in Nat /\ Legs(asked.legs, n) /\ (asked.legs = <<>> <=> n = 0)
      /\ arrival \in Int /\ departure \in Int /\ arrival < departure
      /\ \A seq \in DOMAIN asked.minimum : asked.minimum[seq] \in Int
  BY LegsAsked
<1>. HIDE DEF n
<1>2. Legs(rows, n) /\ rows \in Seq(S)
  BY <1>1, OrderKeepsLegs
<1>. HIDE DEF S
<1>3. n # 0 /\ n \in Nat \ {0} /\ asked.legs # <<>>
  <2>1. asked.legs # <<>>
    BY DEF P!Bookable, P!PackageProblems
  <2>. QED
    BY <1>1, <2>1
<1>4. Stays(rows, n) /\ Distinct(rows, n) /\ Contiguous(rows, n, arrival, departure)
  <2>1. ~Blocked(rows, arrival, departure, asked.minimum)
    BY <1>3 DEF P!Bookable, P!PackageProblems, Blocked, P!BlockingFaults
  <2>. HIDE DEF rows, arrival, departure
  <2>. QED
    BY <1>1, <1>2, <1>3, <2>1, UnblockedIsTheTrip
<1>5. /\ DOMAIN day = 1..m /\ Len(day) = m
      /\ \A k \in 1..m : /\ day[k].on = arrival + k - 1 /\ day[k].leg = held[k]
                         /\ day[k].night <=> k # m
  <2>1. DaysLaidOut(asked.legs, arrival, departure, asked.movements, asked.excursions)
    BY <1>1, DaysOfTheTrip
  <2>. QED
    BY <2>1 DEF DaysLaidOut
<1>6. ASSUME NEW k \in 1..m
      PROVE  /\ held[k] \in 1..n
             /\ k < m => /\ SleepsAt(rows, held[k], arrival + k - 1)
                         /\ \A j \in 1..n : SleepsAt(rows, j, arrival + k - 1) => j = held[k]
             /\ k = m => held[k] = n
  <2>. DEFINE on == arrival + k - 1
  <2>1. on \in Int /\ arrival <= on /\ on <= departure /\ (k < m <=> on < departure)
        /\ (k = m <=> on = departure)
    BY <1>1
  <2>2. held[k] = P!Holding(rows, on, departure)
    BY DEF Held
  <2>. HIDE DEF on, rows, held, arrival, departure, m
  <2>3. /\ P!Holding(rows, on, departure) \in 1..n
        /\ on < departure =>
             /\ SleepsAt(rows, P!Holding(rows, on, departure), on)
             /\ \A j \in 1..n : SleepsAt(rows, j, on) => j = P!Holding(rows, on, departure)
        /\ on = departure => P!Holding(rows, on, departure) = n
    BY <1>1, <1>2, <1>3, <1>4, <2>1, HeldFacts
  <2>. QED
    BY <2>1, <2>2, <2>3 DEF on
<1>7. \A k \in 1..m : held[k] # None
  <2>. HIDE DEF held, m
  <2>. QED
    BY <1>6, CostingAssumption
<1>8. \A k \in 1..m : day[k].movesFrom = IF k # 1 /\ rows[held[k - 1]].seq # rows[held[k]].seq
                                           THEN held[k - 1] ELSE None
  <2>1. \A k \in 1..m :
          DayMoves(asked.legs, arrival, departure, asked.movements, asked.excursions, k)
    BY <1>1, <1>7, MovesOfTheTrip
  <2>. QED
    BY <2>1 DEF DayMoves
<1>. HIDE DEF rows, day, held
<1>9. ASSUME NEW k \in 1..m, k # 1
      PROVE  held[k] \in {held[k - 1], held[k - 1] + 1}
  <2>. DEFINE i == held[k - 1]
              on == arrival + (k - 1) - 1
  <2>1. k - 1 \in 1..m /\ k - 1 < m /\ arrival + k - 1 = on + 1 /\ on \in Int
    BY <1>1, <1>9
  <2>2. i \in 1..n /\ SleepsAt(rows, i, on)
    BY <1>6, <2>1
  <2>. HIDE DEF i
  <2>3. rows[i].checkIn \in Int /\ rows[i].checkOut \in Int
    BY <1>2, <2>2 DEF Legs
  <2>4. CASE k = m
    <3>1. held[k] = n /\ on + 1 = departure
      BY <1>1, <1>6, <2>1, <2>4
    <3>2. CASE i = n
      BY <3>1, <3>2 DEF i
    <3>3. CASE i # n
      <4>1. i \in 1..(n - 1) /\ i + 1 \in 1..n
        BY <1>1, <2>2, <3>3
      <4>2. rows[i + 1].checkIn = rows[i].checkOut /\ rows[i + 1].checkIn \in Int
            /\ rows[i + 1].checkOut \in Int
        BY <1>2, <1>4, <4>1 DEF Contiguous, Legs
      <4>3. rows[i + 1].checkIn >= departure
        BY <1>1, <2>1, <2>2, <2>3, <3>1, <4>2 DEF SleepsAt
      <4>4. rows[i + 1].checkOut <= departure /\ rows[i + 1].checkIn < rows[i + 1].checkOut
        <5>. HIDE DEF arrival, departure
        <5>. QED
          BY <1>1, <1>3, <1>4, <4>1, StaysInTurn DEF Stays
      <4>. QED
        BY <1>1, <4>2, <4>3, <4>4
    <3>. QED
      BY <3>2, <3>3
  <2>5. CASE k # m
    <3>1. k < m /\ \A j \in 1..n : SleepsAt(rows, j, on + 1) => j = held[k]
      BY <1>1, <1>6, <2>1, <2>5
    <3>2. CASE on + 1 < rows[i].checkOut
      <4>1. SleepsAt(rows, i, on + 1)
        BY <2>1, <2>2, <2>3, <3>2 DEF SleepsAt
      <4>2. held[k] = i
        BY <2>2, <3>1, <4>1
      <4>. QED
        BY <4>2 DEF i
    <3>3. CASE ~(on + 1 < rows[i].checkOut)
      <4>1. rows[i].checkOut = on + 1
        BY <2>1, <2>2, <2>3, <3>3 DEF SleepsAt
      <4>2. i # n
        <5>1. on + 1 < departure
          BY <1>1, <2>1, <3>1
        <5>. QED
          BY <1>1, <1>4, <4>1, <5>1 DEF Contiguous
      <4>3. i \in 1..(n - 1) /\ i + 1 \in 1..n
        BY <1>1, <2>2, <4>2
      <4>4. rows[i + 1].checkIn = on + 1 /\ rows[i + 1].checkIn < rows[i + 1].checkOut
        BY <1>4, <4>1, <4>3 DEF Contiguous, Stays
      <4>5. SleepsAt(rows, i + 1, on + 1)
        BY <2>1, <4>4 DEF SleepsAt
      <4>6. held[k] = i + 1
        BY <3>1, <4>3, <4>5
      <4>. QED
        BY <4>6 DEF i
    <3>. QED
      BY <3>2, <3>3
  <2>. QED
    BY <2>4, <2>5
<1>10. ASSUME NEW k \in 1..m
       PROVE  /\ day[k].leg # None
              /\ rows[day[k].leg].checkIn <= day[k].on
              /\ day[k].on < rows[day[k].leg].checkOut \/ (k = Len(day) /\ ~day[k].night)
              /\ (day[k].movesFrom # None) <=> (k > 1 /\ day[k].leg # day[k - 1].leg)
              /\ k > 1 => day[k].leg \in {day[k - 1].leg, day[k - 1].leg + 1}
  <2>1. day[k].leg = held[k] /\ day[k].on = arrival + k - 1 /\ held[k] \in 1..n /\ held[k] # None
    BY <1>5, <1>6, <1>7
  <2>2. rows[held[k]].checkIn <= arrival + k - 1
    <3>1. CASE k < m
      BY <1>6, <3>1 DEF SleepsAt
    <3>2. CASE k = m
      <4>1. held[k] = n /\ arrival + k - 1 = departure
        BY <1>1, <1>6, <3>2
      <4>2. /\ rows[n].checkIn \in Int /\ rows[n].checkOut = departure
            /\ rows[n].checkIn < rows[n].checkOut
        BY <1>2, <1>3, <1>4 DEF Stays, Legs, Contiguous
      <4>. QED
        BY <1>1, <4>1, <4>2
    <3>. QED
      BY <1>1, <3>1, <3>2
  <2>3. arrival + k - 1 < rows[held[k]].checkOut \/ (k = Len(day) /\ ~day[k].night)
    <3>1. CASE k < m
      BY <1>6, <3>1 DEF SleepsAt
    <3>2. CASE k = m
      BY <1>5, <3>2
    <3>. QED
      BY <1>1, <3>1, <3>2
  <2>4. CASE k = 1
    BY <1>8, <2>1, <2>2, <2>3, <2>4
  <2>5. CASE k # 1
    <3>1. k > 1 /\ k - 1 \in 1..m
      BY <1>1, <2>5
    <3>2. day[k - 1].leg = held[k - 1] /\ held[k - 1] \in 1..n /\ held[k - 1] # None
      BY <1>5, <1>6, <1>7, <3>1
    <3>3. rows[held[k - 1]].seq # rows[held[k]].seq <=> held[k] # held[k - 1]
      BY <1>4, <2>1, <3>2 DEF Distinct
    <3>4. (day[k].movesFrom # None) <=> held[k] # held[k - 1]
      BY <1>8, <2>5, <3>2, <3>3
    <3>5. held[k] \in {held[k - 1], held[k - 1] + 1}
      BY <1>9, <2>5
    <3>. QED
      BY <2>1, <2>2, <2>3, <3>1, <3>2, <3>4, <3>5
  <2>. QED
    BY <2>4, <2>5
<1>. QED
  BY <1>5, <1>10 DEF DaysAreHeld, rows, day

\* itinerary.check: what is dated within the trip is on that day of it alone.
LEMMA ScheduledIsOnItsDay ==
  ASSUME NEW asked \in PackageQuestions,
         P!Schedulable(asked.arrival, asked.departure, asked.movements, asked.excursions)
  PROVE  EventsOnTheirDays(asked, P!Programme(asked.legs, asked.arrival, asked.departure,
                                              asked.movements, asked.excursions))
<1>. DEFINE arrival == asked.arrival
            departure == asked.departure
            m == departure - arrival + 1
            day == P!Programme(asked.legs, arrival, departure, asked.movements, asked.excursions)
            found == P!ProgrammeProblems(arrival, departure, asked.movements, asked.excursions)
<1>1. arrival \in Int /\ departure \in Int /\ arrival < departure
  BY LegsAsked
<1>2. P!Dates(arrival, departure) # <<>> /\ DOMAIN P!Dates(arrival, departure) = 1..m
  BY <1>1, TripDates
<1>3. "activity_off_trip" \notin found /\ "movement_off_trip" \notin found
  BY DEF P!Schedulable
<1>4. \A x \in asked.excursions : x.day = None \/ x.day \in 1..m
  BY <1>2, <1>3 DEF P!ProgrammeProblems
<1>5. \A x \in asked.movements : x.on = None \/ x.on \in arrival..departure
  BY <1>2, <1>3 DEF P!ProgrammeProblems
<1>6. /\ DOMAIN day = 1..m
      /\ \A k \in 1..m : /\ day[k].movements = {x \in asked.movements : x.on = arrival + k - 1}
                         /\ day[k].excursions = {x \in asked.excursions : x.day = k}
  <2>1. DaysLaidOut(asked.legs, arrival, departure, asked.movements, asked.excursions)
    BY <1>1, DaysOfTheTrip
  <2>. QED
    BY <2>1 DEF DaysLaidOut
<1>. HIDE DEF day
<1>7. ASSUME NEW x \in asked.movements, x.on # None
      PROVE  {k \in DOMAIN day : x \in day[k].movements} = {x.on - arrival + 1}
  <2>1. x.on \in arrival..departure
    BY <1>5, <1>7
  <2>2. x.on - arrival + 1 \in 1..m /\ x.on \in Int
    BY <1>1, <2>1
  <2>3. \A k \in 1..m : x \in day[k].movements <=> x.on = arrival + k - 1
    BY <1>6
  <2>4. \A k \in 1..m : x.on = arrival + k - 1 <=> k = x.on - arrival + 1
    BY <1>1, <2>2
  <2>. QED
    BY <1>6, <2>2, <2>3, <2>4
<1>8. ASSUME NEW x \in asked.excursions, x.day # None
      PROVE  {k \in DOMAIN day : x \in day[k].excursions} = {x.day}
  BY <1>4, <1>6, <1>8
<1>. QED
  BY <1>7, <1>8 DEF EventsOnTheirDays, day

PackageAnswer(asked) ==
  [bookable    |-> P!Bookable(asked.legs, asked.arrival, asked.departure, asked.minimum),
   programme   |-> P!Programme(asked.legs, asked.arrival, asked.departure,
                               asked.movements, asked.excursions),
   schedulable |-> P!Schedulable(asked.arrival, asked.departure,
                                 asked.movements, asked.excursions)]

\* A package's question is one of those asked, and its answer is never changed.
PackageInv ==
  question = "package" =>
    given \in PackageQuestions /\ (answer # None => answer = PackageAnswer(given))

LEMMA PackageStep ==
  ASSUME PackageInv, [Next]_vars
  PROVE  PackageInv'
<1>1. CASE AskPackage
  BY <1>1 DEF AskPackage, Answer, PackageInv, PackageAnswer
<1>2. CASE AskOrder \/ AskJourney \/ AskStay \/ RefuseOffer \/ AskOffer
  <2>1. question # "package" /\ question' = question
    BY <1>2 DEF AskOrder, AskJourney, AskStay, RefuseOffer, AskOffer, Answer
  <2>. QED
    BY <2>1 DEF PackageInv
<1>3. CASE IssueOffer
  BY <1>3 DEF IssueOffer, Priced, PackageInv
<1>4. CASE UNCHANGED vars
  BY <1>4 DEF vars, PackageInv
<1>. QED
  BY <1>1, <1>2, <1>3, <1>4 DEF Next

LEMMA PackageInvCovers ==
  ASSUME PackageInv
  PROVE  PackageCoversTheTrip
<1>. SUFFICES ASSUME Answered("package") PROVE PackageCoversTheTrip
  BY DEF PackageCoversTheTrip
<1>1. given \in PackageQuestions /\ answer = PackageAnswer(given)
  BY DEF PackageInv, Answered
<1>. DEFINE rows == P!InOrder(given.legs)
            day == answer.programme
<1>2. answer.bookable <=> Fits(given, rows)
  BY <1>1, BookableFits DEF PackageAnswer
<1>3. answer.bookable => DaysAreHeld(rows, day)
  BY <1>1, FittingDaysAreHeld DEF PackageAnswer
<1>4. answer.schedulable => EventsOnTheirDays(given, day)
  BY <1>1, ScheduledIsOnItsDay DEF PackageAnswer
<1>. QED
  BY <1>2, <1>3, <1>4, Zenon DEF PackageCoversTheTrip, Fits, SleptIn, DaysAreHeld, EventsOnTheirDays

\* A package is bookable exactly when its stays are the nights of the trip, and
\* its programme then holds every day, for any legs, dates and minimum stays.
THEOREM PackagesCoverTheTrip == Spec => []PackageCoversTheTrip
<1>1. Init => PackageInv
  BY DEF Init, PackageInv
<1>. QED
  BY <1>1, PackageStep, PackageInvCovers, PTL DEF Spec

-------------------------------------------------------------------------------
(***************************************************************************)
(* Rows at some positions                                                  *)
(***************************************************************************)

\* The positions of some rows, in their order.
Counts(K, pos) ==
  /\ pos \in [1..Cardinality(K) -> K]
  /\ \A i \in K : \E k \in 1..Cardinality(K) : pos[k] = i
  /\ \A k, l \in 1..Cardinality(K) : k < l => pos[k] < pos[l]

LEMMA PositionsAreCounted ==
  ASSUME NEW n \in Nat, NEW K \in SUBSET (1..n)
  PROVE  /\ IsFiniteSet(K) /\ Cardinality(K) \in Nat
         /\ \E pos : /\ Counts(K, pos)
                     /\ \A rows : RowsAt(rows, K) = [k \in 1..Cardinality(K) |-> rows[pos[k]]]
<1>. DEFINE upTo(i) == {j \in K : j <= i}
            place == [i \in K |-> Cardinality(upTo(i))]
            m == Cardinality(K)
            pos == [k \in 1..m |-> CHOOSE i \in K : place[i] = k]
<1>1. IsFiniteSet(K) /\ m \in Nat /\ \A i \in K : i \in Int
  <2>1. IsFiniteSet(1..n)
    BY FS_Interval
  <2>2. IsFiniteSet(K)
    BY <2>1, FS_Subset
  <2>. QED
    BY <2>2, FS_CardinalityType
<1>2. ASSUME NEW i \in K
      PROVE  IsFiniteSet(upTo(i)) /\ i \in upTo(i) /\ Cardinality(upTo(i)) \in 1..m
  <2>1. upTo(i) \in SUBSET K /\ i \in upTo(i)
    OBVIOUS
  <2>2. IsFiniteSet(upTo(i)) /\ Cardinality(upTo(i)) <= m /\ Cardinality(upTo(i)) \in Nat
    BY <1>1, <2>1, FS_Subset, FS_CardinalityType
  <2>3. Cardinality(upTo(i)) # 0
    BY <2>1, <2>2, FS_EmptySet
  <2>. QED
    BY <1>1, <2>1, <2>2, <2>3
<1>3. ASSUME NEW i \in K, NEW j \in K, i < j
      PROVE  place[i] < place[j]
  <2>0. i \in Int /\ j \in Int /\ \A k \in K : k \in Int
    BY <1>1
  <2>1. upTo(i) \in SUBSET upTo(j) /\ j \notin upTo(i) /\ j \in upTo(j)
    <3>1. j \notin upTo(i) /\ j \in upTo(j)
      BY <1>3, <2>0
    <3>2. \A k \in K : k <= i => k <= j
      BY <1>3, <2>0
    <3>. QED
      BY <3>1, <3>2
  <2>2. Cardinality(upTo(i)) <= Cardinality(upTo(j)) /\ Cardinality(upTo(i)) # Cardinality(upTo(j))
    <3>. HIDE DEF upTo
    <3>. QED
      BY <1>2, <2>1, FS_Subset
  <2>. HIDE DEF upTo
  <2>. QED
    BY <1>1, <1>2, <2>2
<1>4. place \in [K -> 1..m]
  BY <1>2
<1>5. \A i, j \in K : place[i] = place[j] => i = j
  <2>. HIDE DEF place
  <2>1. \A i \in K : place[i] \in Int
    BY <1>1, <1>4
  <2>. QED
    BY <1>3, <2>1
<1>. HIDE DEF place
<1>6. place \in Injection(K, 1..m)
  BY <1>4, <1>5 DEF Injection, IsInjective
<1>7. IsFiniteSet(1..m) /\ Cardinality(1..m) = m
  BY <1>1, FS_Interval
<1>8. place \in Surjection(K, 1..m)
  BY <1>1, <1>6, <1>7, FS_Injection
<1>9. ASSUME NEW k \in 1..m PROVE pos[k] \in K /\ place[pos[k]] = k
  BY <1>8 DEF Surjection
<1>10. \A rows : RowsAt(rows, K) = [k \in 1..m |-> rows[pos[k]]]
  BY DEF RowsAt, place
<1>11. pos \in [1..m -> K]
  BY <1>9
<1>. HIDE DEF pos, m
<1>12. \A i \in K : \E k \in 1..m : pos[k] = i
  BY <1>4, <1>5, <1>9
<1>13. ASSUME NEW k \in 1..m, NEW l \in 1..m, k < l PROVE pos[k] < pos[l]
  <2>1. pos[k] \in K /\ pos[l] \in K /\ pos[k] \in Int /\ pos[l] \in Int
    BY <1>1, <1>9
  <2>2. pos[k] # pos[l] /\ ~(pos[l] < pos[k])
    BY <1>1, <1>3, <1>9, <1>13, <2>1
  <2>. QED
    BY <2>1, <2>2
<1>14. Counts(K, pos)
  BY <1>11, <1>12, <1>13 DEF Counts, m
<1>. QED
  BY <1>1, <1>10, <1>14 DEF m

LEMMA CountedPositions ==
  ASSUME NEW n \in Nat, NEW K \in SUBSET (1..n), NEW pos, Counts(K, pos)
  PROVE  LET m == Cardinality(K)
         IN  /\ m \in Nat /\ IsFiniteSet(1..m) /\ pos \in [1..m -> K]
             /\ \A k \in 1..m : pos[k] \in K /\ pos[k] \in 1..n
             /\ \A i \in K : \E k \in 1..m : pos[k] = i
             /\ \A k, l \in 1..m : pos[k] = pos[l] => k = l
<1>. DEFINE m == Cardinality(K)
<1>1. m \in Nat
  BY PositionsAreCounted
<1>2. IsFiniteSet(1..m)
  BY <1>1, FS_Interval
<1>. HIDE DEF m
<1>3. /\ pos \in [1..m -> K] /\ \A i \in K : \E k \in 1..m : pos[k] = i
      /\ \A k, l \in 1..m : k < l => pos[k] < pos[l]
  BY DEF Counts, m
<1>4. \A k \in 1..m : pos[k] \in K /\ pos[k] \in 1..n /\ pos[k] \in Int
  <2>1. pos \in [1..m -> K] /\ \A i \in K : i \in 1..n /\ i \in Int
    BY <1>3
  <2>. QED
    BY <2>1
<1>5. \A k, l \in 1..m : pos[k] = pos[l] => k = l
  BY <1>1, <1>3, <1>4
<1>. QED
  BY <1>1, <1>2, <1>3, <1>4, <1>5 DEF m

\* The rows that are kept are the rows at those positions, each of them once.
LEMMA RowsKept ==
  ASSUME NEW n \in Nat, NEW S, NEW rows \in [1..n -> S], NEW K \in SUBSET (1..n)
  PROVE  /\ RowsAt(rows, K) \in Seq(S) /\ Len(RowsAt(rows, K)) = Cardinality(K)
         /\ Cardinality(K) \in Nat
         /\ RowsAt(rows, K) \in [1..Cardinality(K) -> S]
         /\ Range(RowsAt(rows, K)) = {rows[i] : i \in K}
<1>. DEFINE m == Cardinality(K)
            kept == RowsAt(rows, K)
<1>1. PICK pos : Counts(K, pos) /\ kept = [k \in 1..m |-> rows[pos[k]]]
  <2>1. PICK pos : /\ Counts(K, pos)
                   /\ \A r : RowsAt(r, K) = [k \in 1..Cardinality(K) |-> r[pos[k]]]
    BY PositionsAreCounted
  <2>. QED
    BY <2>1, Zenon
<1>2. m \in Nat
  BY PositionsAreCounted
<1>. HIDE DEF kept
<1>3. kept \in [1..m -> S]
  BY <1>1 DEF Counts
<1>4. kept \in Seq(S) /\ Len(kept) = m
  <2>1. kept \in Seq(S)
    BY <1>2, <1>3, SeqDef
  <2>. QED
    BY <1>2, <1>3, <2>1, LenProperties
<1>5. Range(kept) = {rows[i] : i \in K}
  <2>. HIDE DEF m
  <2>. QED
    BY <1>1, <1>3 DEF Range, Counts, m
<1>. QED
  BY <1>2, <1>3, <1>4, <1>5 DEF kept

LEMMA AllRowsKept ==
  ASSUME NEW n \in Nat, NEW S, NEW rows \in [1..n -> S]
  PROVE  RowsAt(rows, 1..n) = rows
<1>. DEFINE place == [i \in 1..n |-> Cardinality({j \in 1..n : j <= i})]
<1>1. ASSUME NEW i \in 1..n PROVE place[i] = i
  <2>1. {j \in 1..n : j <= i} = 1..i
    OBVIOUS
  <2>2. Cardinality(1..i) = i
    BY FS_Interval
  <2>. QED
    BY <2>1, <2>2
<1>2. Cardinality(1..n) = n
  BY FS_Interval
<1>3. RowsAt(rows, 1..n) = [k \in 1..n |-> rows[CHOOSE i \in 1..n : place[i] = k]]
  BY <1>2 DEF RowsAt
<1>. HIDE DEF place
<1>4. \A k \in 1..n : (CHOOSE i \in 1..n : place[i] = k) = k
  BY <1>1
<1>. QED
  BY <1>3, <1>4

-------------------------------------------------------------------------------
(***************************************************************************)
(* Sums of a list                                                          *)
(***************************************************************************)

\* The recursion under a sum of a list, at a set of its positions.
AddedUp(f, s, g) == IF s = {} THEN 0 ELSE g[s \ {Max(s)}] + f[Max(s)]
IsAddedUp(f, n, g) == g = [s \in SUBSET (1..n) |-> AddedUp(f, s, g)]

LEMMA LastPosition ==
  ASSUME NEW n \in Nat, NEW s \in SUBSET (1..n), s # {}
  PROVE  /\ Max(s) \in s /\ Max(s) \in 1..n /\ \A i \in s : i <= Max(s)
         /\ s \ {Max(s)} \in SUBSET (1..n)
<1>. DEFINE turned == {n - i : i \in s}
<1>1. turned \subseteq Nat /\ turned # {}
  OBVIOUS
<1>2. PICK k \in turned : \A l \in turned : k <= l
  BY <1>1, LeastNatural
<1>3. PICK m \in s : k = n - m
  BY <1>2
<1>4. \A i \in s : i <= m
  <2>1. ASSUME NEW i \in s PROVE i <= m
    <3>1. n - i \in turned /\ i \in Int /\ m \in Int
      OBVIOUS
    <3>. HIDE DEF turned
    <3>. QED
      BY <1>2, <1>3, <3>1
  <2>. QED
    BY <2>1
<1>5. Max(s) \in s /\ \A i \in s : i <= Max(s)
  BY <1>3, <1>4 DEF Max
<1>. QED
  BY <1>5

LEMMA SumsOfLists ==
  ASSUME NEW n \in Nat, NEW f, Integral(f, 1..n)
  PROVE  /\ \E g : IsAddedUp(f, n, g)
         /\ \A g : IsAddedUp(f, n, g) => g[1..n] = SumFunctionOnSet(f, 1..n)
<1>0. IsFiniteSet(1..n)
  BY FS_Interval
<1>1. ASSUME NEW s \in SUBSET (1..n) PROVE IsFiniteSet(s) /\ Integral(f, s)
  BY <1>0, FS_Subset DEF Integral
<1>2. ASSUME NEW s \in SUBSET (1..n), s # {}
      PROVE  SumFunctionOnSet(f, s) = SumFunctionOnSet(f, s \ {Max(s)}) + f[Max(s)]
  <2>1. Max(s) \in s /\ s \ {Max(s)} \in SUBSET (1..n)
    BY <1>2, LastPosition
  <2>2. SumFunctionOnSet(f, s) = f[Max(s)] + SumFunctionOnSet(f, s \ {Max(s)})
    BY <1>1, <2>1, SumTakes
  <2>3. SumFunctionOnSet(f, s \ {Max(s)}) \in Int /\ f[Max(s)] \in Int
    BY <1>1, <2>1, SumIsInt DEF Integral
  <2>. QED
    BY <2>2, <2>3
<1>3. IsAddedUp(f, n, [s \in SUBSET (1..n) |-> SumFunctionOnSet(f, s)])
  <2>. DEFINE h == [s \in SUBSET (1..n) |-> SumFunctionOnSet(f, s)]
  <2>1. ASSUME NEW s \in SUBSET (1..n) PROVE SumFunctionOnSet(f, s) = AddedUp(f, s, h)
    <3>1. CASE s = {}
      BY <3>1, SumOfNone DEF AddedUp
    <3>2. CASE s # {}
      BY <1>2, <3>2, LastPosition DEF AddedUp
    <3>. QED
      BY <3>1, <3>2
  <2>. QED
    BY <2>1 DEF IsAddedUp
<1>4. ASSUME NEW g, IsAddedUp(f, n, g) PROVE g[1..n] = SumFunctionOnSet(f, 1..n)
  <2>. DEFINE Q == {s \in SUBSET (1..n) : g[s] = SumFunctionOnSet(f, s)}
  <2>1. \A s \in SUBSET (1..n) : g[s] = AddedUp(f, s, g)
    BY <1>4 DEF IsAddedUp
  <2>2. ASSUME NEW s \in SUBSET (1..n), \A x \in s : s \ {x} \in Q
        PROVE  s \in Q
    <3>1. CASE s = {}
      BY <2>1, <3>1, SumOfNone DEF AddedUp
    <3>2. CASE s # {}
      <4>1. Max(s) \in s
        BY <3>2, LastPosition
      <4>2. g[s \ {Max(s)}] = SumFunctionOnSet(f, s \ {Max(s)})
        BY <2>2, <4>1
      <4>3. g[s] = g[s \ {Max(s)}] + f[Max(s)]
        BY <2>1, <3>2 DEF AddedUp
      <4>. QED
        BY <1>2, <3>2, <4>2, <4>3
    <3>. QED
      BY <3>1, <3>2
  <2>. HIDE DEF Q
  <2>3. 1..n \in Q
    BY <1>0, <2>2, SubsetInduction
  <2>. QED
    BY <2>3 DEF Q
<1>. QED
  BY <1>3, <1>4

LEMMA TotalIsSum ==
  ASSUME NEW n \in Nat, NEW f, DOMAIN f = 1..n, Integral(f, 1..n)
  PROVE  Total(f) = SumFunctionOnSet(f, 1..n)
<1>. DEFINE chosen == CHOOSE g : IsAddedUp(f, n, g)
<1>1. Total(f) = chosen[1..n]
  BY DEF Total, FoldLeft, MapThenFoldSet, IsAddedUp, AddedUp
<1>. QED
  BY <1>1, SumsOfLists

-------------------------------------------------------------------------------
(***************************************************************************)
(* The roads of an order                                                   *)
(***************************************************************************)

LEMMA SameRowsAt ==
  ASSUME NEW rows, NEW K
  PROVE  J!RowsAt(rows, K) = RowsAt(rows, K)
BY Zenon DEF J!RowsAt, RowsAt, J!Cardinality, Cardinality, J!IsFiniteSet, IsFiniteSet

\* The moves of an order: a change of bed in one place is none.
Driven(places) == {i \in 1..Len(places) - 1 : places[i] # places[i + 1]}
Stretch(places, roads, i) == roads[<<places[i], places[i + 1]>>]
Drivable(places, roads) == \A i \in Driven(places) : Stretch(places, roads, i) # None
KmAt(places, roads) ==
  [i \in 1..Len(places) - 1 |-> IF places[i] = places[i + 1] THEN 0 ELSE Stretch(places, roads, i).km]
KmOf(places, roads) == SumFunctionOnSet(KmAt(places, roads), 1..Len(places) - 1)
Charted(S, roads) == \A x, y \in S : roads[<<x, y>>] = None \/ roads[<<x, y>>].km \in Int

\* The hops of an order, as its moves.
MovesAlong(places, roads, hops, pos) ==
  /\ Counts(Driven(places), pos)
  /\ hops = [h \in 1..Cardinality(Driven(places)) |-> hops[h]]
  /\ \A h \in 1..Cardinality(Driven(places)) : hops[h].road = Stretch(places, roads, pos[h])

LEMMA HopsAreMoves ==
  ASSUME NEW n \in Nat \ {0}, NEW S, NEW places \in [1..n -> S], Len(places) = n, NEW nights, NEW roads
  PROVE  \E pos : MovesAlong(places, roads, J!Hops(places, nights, roads), pos)
<1>. DEFINE K == Driven(places)
            steps == [i \in 1..n - 1 |-> i]
            m == Cardinality(K)
<1>1. K \in SUBSET (1..n - 1) /\ n - 1 \in Nat
  BY DEF Driven
<1>2. PICK pos : Counts(K, pos) /\ \A r : RowsAt(r, K) = [k \in 1..m |-> r[pos[k]]]
  BY <1>1, PositionsAreCounted
<1>3. RowsAt(steps, K) = pos
  <2>1. pos \in [1..m -> K]
    BY <1>2 DEF Counts
  <2>2. RowsAt(steps, K) = [k \in 1..m |-> steps[pos[k]]]
    BY <1>2
  <2>3. \A k \in 1..m : steps[pos[k]] = pos[k]
    BY <1>1, <2>1
  <2>. QED
    BY <2>1, <2>2, <2>3
<1>4. J!Hops(places, nights, roads)
        = [h \in DOMAIN pos |->
             [from |-> places[pos[h]], to |-> places[pos[h] + 1],
              road |-> Stretch(places, roads, pos[h]), nightsAfter |-> nights[pos[h] + 1]]]
  <2>1. {i \in DOMAIN steps : places[steps[i]] # places[steps[i] + 1]} = K
    BY DEF Driven
  <2>2. J!Kept([i \in 1..Len(places) - 1 |-> i], LAMBDA i : places[i] # places[i + 1])
          = RowsAt(steps, {i \in DOMAIN steps : places[steps[i]] # places[steps[i] + 1]})
    BY SameRowsAt DEF J!Kept
  <2>3. J!Kept([i \in 1..Len(places) - 1 |-> i], LAMBDA i : places[i] # places[i + 1]) = pos
    BY <1>3, <2>1, <2>2
  <2>. QED
    BY <2>3 DEF J!Hops, Stretch
<1>5. DOMAIN pos = 1..m
  BY <1>2 DEF Counts
<1>. DEFINE hops == J!Hops(places, nights, roads)
<1>6. /\ hops = [h \in 1..m |-> hops[h]]
      /\ \A h \in 1..m : hops[h].road = Stretch(places, roads, pos[h])
  BY <1>4, <1>5
<1>. HIDE DEF hops, K
<1>. QED
  BY <1>2, <1>6 DEF MovesAlong, hops, K

\* Where every road is known, the kilometres are those of every hop.
LEMMA KnownRoadsAddUp ==
  ASSUME NEW m \in Nat, NEW T, NEW hops \in [1..m -> T], J!Known(hops) = hops,
         \A h \in 1..m : hops[h].road.km \in Int
  PROVE  J!Score(hops).km = SumFunctionOnSet([h \in 1..m |-> hops[h].road.km], 1..m)
<1>. DEFINE kms == [h \in 1..m |-> hops[h].road.km]
            Adds(g) == g = [s \in SUBSET DOMAIN hops |->
                              IF s = {} THEN 0 ELSE g[s \ {J!Max(s)}] + hops[J!Max(s)].road.km]
            chosen == CHOOSE g : Adds(g)
<1>1. J!Score(hops).km = chosen[DOMAIN hops]
  BY DEF J!Score, J!FoldLeft, J!MapThenFoldSet
<1>2. DOMAIN hops = 1..m
  OBVIOUS
<1>3. ASSUME NEW g PROVE IsAddedUp(kms, m, g) <=> Adds(g)
  <2>1. \A s : J!Max(s) = Max(s)
    BY DEF J!Max, Max
  <2>2. ASSUME NEW s \in SUBSET (1..m)
        PROVE  AddedUp(kms, s, g)
                 = IF s = {} THEN 0 ELSE g[s \ {J!Max(s)}] + hops[J!Max(s)].road.km
    <3>1. CASE s = {}
      BY <3>1 DEF AddedUp
    <3>2. CASE s # {}
      <4>1. Max(s) \in 1..m
        BY <3>2, LastPosition
      <4>2. kms[Max(s)] = hops[Max(s)].road.km
        BY <4>1
      <4>. HIDE DEF kms
      <4>. QED
        BY <2>1, <3>2, <4>2 DEF AddedUp
    <3>. QED
      BY <3>1, <3>2
  <2>. HIDE DEF kms
  <2>. QED
    BY <1>2, <2>2 DEF IsAddedUp
<1>4. Integral(kms, 1..m)
  BY DEF Integral
<1>. HIDE DEF kms, Adds
<1>5. \E g : Adds(g)
  BY <1>3, <1>4, SumsOfLists
<1>6. Adds(chosen)
  BY <1>5
<1>. HIDE DEF chosen
<1>7. IsAddedUp(kms, m, chosen)
  BY <1>3, <1>6
<1>8. chosen[1..m] = SumFunctionOnSet(kms, 1..m)
  BY <1>4, <1>7, SumsOfLists
<1>. QED
  BY <1>1, <1>2, <1>8 DEF kms

LEMMA ScoreTold ==
  ASSUME NEW m \in Nat, NEW T, NEW hops \in [1..m -> T],
         \A h \in 1..m : hops[h].road = None \/ hops[h].road.km \in Int
  PROVE  LET score == J!Score(hops)
         IN  /\ score.unknown \in Nat
             /\ score.unknown = 0 <=> \A h \in 1..m : hops[h].road # None
             /\ score.unknown = 0 =>
                  score.km = SumFunctionOnSet([h \in 1..m |-> hops[h].road.km], 1..m)
<1>. DEFINE K == {h \in 1..m : hops[h].road # None}
            known == J!Known(hops)
<1>1. known = RowsAt(hops, K)
  BY SameRowsAt DEF J!Known, J!Kept
<1>2. Len(hops) = m
  <2>1. hops \in Seq(T)
    BY SeqDef
  <2>. QED
    BY <2>1, LenProperties
<1>3. J!Score(hops).unknown = m - Len(known)
  BY <1>2 DEF J!Score
<1>4. K = 1..m <=> \A h \in 1..m : hops[h].road # None
  OBVIOUS
<1>9. K \in SUBSET (1..m)
  OBVIOUS
<1>. HIDE DEF K
<1>5. Len(known) = Cardinality(K) /\ Cardinality(K) \in Nat
  BY <1>1, <1>9, RowsKept
<1>6. Cardinality(K) <= m /\ (Cardinality(K) = m <=> K = 1..m)
  <2>1. IsFiniteSet(1..m) /\ Cardinality(1..m) = m
    BY FS_Interval
  <2>2. /\ Cardinality(K) <= Cardinality(1..m)
        /\ Cardinality(1..m) = Cardinality(K) => 1..m = K
    BY <1>9, <2>1, FS_Subset
  <2>. QED
    BY <2>1, <2>2
<1>. HIDE DEF known
<1>7. J!Score(hops).unknown \in Nat /\ (J!Score(hops).unknown = 0 <=> K = 1..m)
  BY <1>3, <1>5, <1>6
<1>8. ASSUME K = 1..m
      PROVE  J!Score(hops).km = SumFunctionOnSet([h \in 1..m |-> hops[h].road.km], 1..m)
  <2>1. known = hops
    BY <1>1, <1>8, AllRowsKept
  <2>2. \A h \in 1..m : hops[h].road.km \in Int
    BY <1>4, <1>8
  <2>. QED
    BY <2>1, <2>2, KnownRoadsAddUp DEF known
<1>. QED
  BY <1>4, <1>7, <1>8

LEMMA KmOfAnyOrder ==
  ASSUME NEW n \in Nat \ {0}, NEW S, NEW places \in [1..n -> S], Len(places) = n,
         NEW roads, Charted(S, roads), Drivable(places, roads)
  PROVE  Integral(KmAt(places, roads), 1..n - 1) /\ KmOf(places, roads) \in Int
<1>. DEFINE kms == KmAt(places, roads)
<1>1. ASSUME NEW i \in 1..n - 1 PROVE kms[i] \in Int
  <2>1. i \in 1..n /\ i + 1 \in 1..n
    OBVIOUS
  <2>2. places[i] \in S /\ places[i + 1] \in S
    BY <2>1
  <2>3. Stretch(places, roads, i) = None \/ Stretch(places, roads, i).km \in Int
    BY <2>2 DEF Charted, Stretch
  <2>4. places[i] # places[i + 1] => Stretch(places, roads, i) # None
    BY DEF Drivable, Driven
  <2>. QED
    BY <2>3, <2>4 DEF KmAt
<1>. HIDE DEF kms
<1>2. Integral(kms, 1..n - 1)
  BY <1>1 DEF Integral
<1>3. IsFiniteSet(1..n - 1)
  BY FS_Interval
<1>4. SumFunctionOnSet(kms, 1..n - 1) \in Int
  BY <1>2, <1>3, SumIsInt
<1>. QED
  BY <1>2, <1>4 DEF KmOf, kms

LEMMA SumOnto ==
  ASSUME NEW f, NEW g, NEW S, NEW T, NEW h \in Bijection(S, T), IsFiniteSet(S), Integral(f, S),
         \A x \in S : f[x] = g[h[x]]
  PROVE  SumFunctionOnSet(f, S) = SumFunctionOnSet(g, T)
<1>1. {h[x] : x \in S} = T /\ \A x, y \in S : h[x] = h[y] => x = y
  BY DEF Bijection, Injection, Surjection, IsInjective
<1>2. SumFunctionOnSet(f, S) = SumFunctionOnSet(g, {h[x] : x \in S})
  BY <1>1, SumRenames
<1>. QED
  BY <1>1, <1>2

LEMMA ScoreOfOrder ==
  ASSUME NEW n \in Nat \ {0}, NEW S, NEW places \in [1..n -> S], Len(places) = n,
         NEW nights, NEW roads, Charted(S, roads)
  PROVE  LET score == J!Score(J!Hops(places, nights, roads))
         IN  /\ score.unknown \in Nat
             /\ score.unknown = 0 <=> Drivable(places, roads)
             /\ score.unknown = 0 => score.km = KmOf(places, roads)
<1>. DEFINE K == Driven(places)
            m == Cardinality(K)
            hops == J!Hops(places, nights, roads)
            kms == [h \in 1..m |-> hops[h].road.km]
            all == KmAt(places, roads)
<1>1. K \in SUBSET (1..n - 1) /\ \A i \in 1..n - 1 : i \in K <=> places[i] # places[i + 1]
  BY DEF Driven
<1>2. PICK top \in Nat : top = n - 1
  OBVIOUS
<1>. HIDE DEF K
<1>3. PICK pos : MovesAlong(places, roads, hops, pos)
  BY HopsAreMoves
<1>4. /\ Counts(K, pos) /\ hops = [h \in 1..m |-> hops[h]]
      /\ \A h \in 1..m : hops[h].road = Stretch(places, roads, pos[h])
  BY <1>3 DEF MovesAlong, K
<1>5. /\ m \in Nat /\ IsFiniteSet(1..m) /\ pos \in [1..m -> K]
      /\ \A k \in 1..m : pos[k] \in K /\ pos[k] \in 1..top
      /\ \A i \in K : \E k \in 1..m : pos[k] = i
      /\ \A k, l \in 1..m : pos[k] = pos[l] => k = l
  <2>1. K \in SUBSET (1..top)
    BY <1>1, <1>2
  <2>2. Counts(K, pos)
    BY <1>4
  <2>. QED
    BY <1>2, <2>1, <2>2, CountedPositions
<1>. HIDE DEF hops, m
<1>6. Drivable(places, roads) <=> \A i \in K : Stretch(places, roads, i) # None
  BY DEF Drivable, K
<1>7. \A i \in K : Stretch(places, roads, i) = None \/ Stretch(places, roads, i).km \in Int
  <2>1. ASSUME NEW i \in K PROVE Stretch(places, roads, i) = None \/ Stretch(places, roads, i).km \in Int
    <3>1. i \in 1..n /\ i + 1 \in 1..n
      BY <1>1
    <3>2. places[i] \in S /\ places[i + 1] \in S
      BY <3>1
    <3>. QED
      BY <3>2 DEF Charted, Stretch
  <2>. QED
    BY <2>1
<1>8. \A h \in 1..m : hops[h].road = None \/ hops[h].road.km \in Int
  BY <1>4, <1>5, <1>7
<1>9. hops \in [1..m -> Range(hops)]
  BY <1>4 DEF Range
<1>10. /\ J!Score(hops).unknown \in Nat
       /\ J!Score(hops).unknown = 0 <=> \A h \in 1..m : hops[h].road # None
       /\ J!Score(hops).unknown = 0 => J!Score(hops).km = SumFunctionOnSet(kms, 1..m)
  <2>1. m \in Nat
    BY <1>5
  <2>. HIDE DEF kms
  <2>2. LET score == J!Score(hops)
        IN  /\ score.unknown \in Nat
            /\ score.unknown = 0 <=> \A h \in 1..m : hops[h].road # None
            /\ score.unknown = 0 =>
                 score.km = SumFunctionOnSet([h \in 1..m |-> hops[h].road.km], 1..m)
    BY <1>8, <1>9, <2>1, ScoreTold
  <2>. QED
    BY <2>2 DEF kms
<1>11. (\A h \in 1..m : hops[h].road # None) <=> Drivable(places, roads)
  BY <1>4, <1>5, <1>6
<1>12. ASSUME Drivable(places, roads)
       PROVE  SumFunctionOnSet(kms, 1..m) = KmOf(places, roads)
  <2>1. Integral(all, 1..n - 1)
    BY <1>12, KmOfAnyOrder
  <2>2. \A i \in 1..n - 1 : all[i] = IF i \in K THEN Stretch(places, roads, i).km ELSE 0
    BY <1>1 DEF KmAt
  <2>. HIDE DEF all
  <2>3. \A h \in 1..m : kms[h] = all[pos[h]]
    BY <1>2, <1>4, <1>5, <2>2
  <2>4. Integral(kms, 1..m)
    BY <1>2, <1>5, <2>1, <2>3 DEF Integral
  <2>6. IsFiniteSet(1..n - 1)
    BY FS_Interval
  <2>. HIDE DEF kms
  <2>7. SumFunctionOnSet(kms, 1..m) = SumFunctionOnSet(all, K)
    <3>1. IsFiniteSet(1..m)
      BY <1>5
    <3>2. pos \in Bijection(1..m, K)
      BY <1>5 DEF Bijection, Injection, Surjection, IsInjective
    <3>3. PICK U : U = 1..m
      OBVIOUS
    <3>4. \A h \in U : kms[h] = all[pos[h]]
      BY <2>3, <3>3
    <3>5. Integral(kms, U) /\ IsFiniteSet(U) /\ pos \in Bijection(U, K)
      BY <2>4, <3>1, <3>2, <3>3
    <3>6. SumFunctionOnSet(kms, U) = SumFunctionOnSet(all, K)
      BY <3>4, <3>5, SumOnto
    <3>. QED
      BY <3>3, <3>6
  <2>8. SumFunctionOnSet(all, K) = SumFunctionOnSet(all, 1..n - 1)
    <3>1. \A i \in (1..n - 1) \ K : all[i] = 0
      BY <2>2
    <3>. QED
      BY <1>1, <2>1, <2>6, <3>1, SumOverSubset
  <2>. QED
    BY <1>2, <2>7, <2>8 DEF KmOf, all
<1>. QED
  BY <1>10, <1>11, <1>12 DEF hops

LEMMA OrderKmTold ==
  ASSUME NEW n \in Nat \ {0}, NEW S, NEW places \in [1..n -> S], Len(places) = n,
         NEW roads, Charted(S, roads)
  PROVE  LET km == J!OrderKm(places, roads)
         IN  /\ Drivable(places, roads) => km = KmOf(places, roads) /\ km \in Int
             /\ km # None => Drivable(places, roads)
<1>. DEFINE score == J!Score(J!Hops(places, [i \in DOMAIN places |-> 0], roads))
<1>1. /\ score.unknown \in Nat
      /\ score.unknown = 0 <=> Drivable(places, roads)
      /\ score.unknown = 0 => score.km = KmOf(places, roads)
  BY ScoreOfOrder
<1>2. J!OrderKm(places, roads) = IF score.unknown > 0 THEN None ELSE score.km
  BY DEF J!OrderKm
<1>. HIDE DEF score
<1>3. Drivable(places, roads) => KmOf(places, roads) \in Int
  BY KmOfAnyOrder
<1>. QED
  BY <1>1, <1>2, <1>3

-------------------------------------------------------------------------------
(***************************************************************************)
(* The shortest of the orders                                              *)
(***************************************************************************)

\* A finite set in an order, which pairs of it are in.
Orders(before, S) ==
  /\ IsFiniteSet(S) /\ S # {}
  /\ \A x, y \in S : x # y => <<x, y>> \in before \/ <<y, x>> \in before
  /\ \A x, y, z \in S : <<x, y>> \in before /\ <<y, z>> \in before => <<x, z>> \in before

\* A finite set that is ordered has a least element.
LEMMA LeastOfAll ==
  ASSUME NEW S, NEW before, Orders(before, S)
  PROVE  \E x \in S : \A y \in S : x = y \/ <<x, y>> \in before
<1>. DEFINE Leads(x, T) == \A y \in T : x = y \/ <<x, y>> \in before
            Q == {T \in SUBSET S : T # {} => \E x \in T : Leads(x, T)}
<1>0. /\ IsFiniteSet(S) /\ S # {}
      /\ \A x, y \in S : x # y => <<x, y>> \in before \/ <<y, x>> \in before
      /\ \A x, y, z \in S : <<x, y>> \in before /\ <<y, z>> \in before => <<x, z>> \in before
  BY DEF Orders
<1>1. ASSUME NEW T \in SUBSET S, \A x \in T : T \ {x} \in Q
      PROVE  T \in Q
  <2>. SUFFICES ASSUME NEW x \in T PROVE \E y \in T : Leads(y, T)
    OBVIOUS
  <2>1. CASE T \ {x} = {}
    BY <2>1
  <2>2. CASE T \ {x} # {}
    <3>1. PICK y \in T \ {x} : Leads(y, T \ {x})
      BY <1>1, <2>2
    <3>0. <<x, y>> \in before \/ <<y, x>> \in before
      BY <1>0
    <3>2. CASE <<y, x>> \in before
      BY <3>1, <3>2
    <3>3. CASE <<x, y>> \in before
      <4>1. ASSUME NEW z \in T PROVE x = z \/ <<x, z>> \in before
        <5>1. z = x \/ y = z \/ <<y, z>> \in before
          BY <3>1
        <5>2. x \in S /\ y \in S /\ z \in S
          OBVIOUS
        <5>. QED
          BY <1>0, <3>3, <5>1, <5>2
      <4>. QED
        BY <4>1
    <3>. QED
      BY <3>0, <3>2, <3>3
  <2>. QED
    BY <2>1, <2>2
<1>. HIDE DEF Q
<1>2. S \in Q
  BY <1>0, <1>1, SubsetInduction
<1>. QED
  BY <1>0, <1>2 DEF Q

\* The functions on a finite set into one are finitely many.
LEMMA FiniteFunctions ==
  ASSUME NEW D, IsFiniteSet(D), NEW T, T \subseteq [D -> D]
  PROVE  IsFiniteSet(T)
<1>. DEFINE graph == [f \in T |-> {<<x, f[x]>> : x \in D}]
<1>1. IsFiniteSet(SUBSET (D \X D))
  BY FS_Product, FS_SUBSET
<1>2. graph \in [T -> SUBSET (D \X D)]
  OBVIOUS
<1>3. ASSUME NEW f \in T, NEW g \in T, graph[f] = graph[g] PROVE f = g
  <2>1. ASSUME NEW x \in D PROVE f[x] = g[x]
    <3>1. <<x, f[x]>> \in graph[g]
      BY <1>3
    <3>. QED
      BY <3>1
  <2>2. f \in [D -> D] /\ g \in [D -> D]
    OBVIOUS
  <2>. QED
    BY <2>1, <2>2
<1>. HIDE DEF graph
<1>4. graph \in Injection(T, SUBSET (D \X D))
  BY <1>2, <1>3 DEF Injection, IsInjective
<1>. QED
  BY <1>1, <1>4, FS_Injection

\* Orders of as many places are compared where they first differ.
Word(p, m) == DOMAIN p = 1..m /\ \A k \in 1..m : p[k] \in Int
SameBefore(p, q, m, k) == \A j \in 1..m : j < k => p[j] = q[j]

LEMMA PrecedesWhere ==
  ASSUME NEW m \in Nat, NEW p, NEW q, Word(p, m)
  PROVE  J!Precedes(p, q) <=> \E k \in 1..m : p[k] < q[k] /\ SameBefore(p, q, m, k)
<1>1. ASSUME NEW k \in 1..m
      PROVE  SameBefore(p, q, m, k) <=> \A j \in 1..k - 1 : p[j] = q[j]
  BY DEF SameBefore
<1>. QED
  BY <1>1 DEF J!Precedes, Word

LEMMA PrecedesIsTotal ==
  ASSUME NEW m \in Nat, NEW p, NEW q, Word(p, m), Word(q, m), \E k \in 1..m : p[k] # q[k]
  PROVE  J!Precedes(p, q) \/ J!Precedes(q, p)
<1>. DEFINE apart == {k \in 1..m : p[k] # q[k]}
<1>1. apart # {} /\ apart \subseteq Nat
  OBVIOUS
<1>2. PICK k \in apart : \A j \in apart : k <= j
  BY <1>1, LeastNatural
<1>3. ASSUME NEW j \in 1..m, j < k PROVE p[j] = q[j]
  <2>1. k \in Int /\ j \in Int
    BY <1>2
  <2>2. j \notin apart
    BY <1>2, <1>3, <2>1
  <2>. QED
    BY <2>2
<1>4. k \in 1..m /\ p[k] # q[k]
  BY <1>2
<1>5. SameBefore(p, q, m, k) /\ SameBefore(q, p, m, k)
  BY <1>3 DEF SameBefore
<1>6. p[k] < q[k] \/ q[k] < p[k]
  BY <1>4 DEF Word
<1>. QED
  BY <1>4, <1>5, <1>6, PrecedesWhere

LEMMA PrecedesIsTransitive ==
  ASSUME NEW m \in Nat, NEW p, NEW q, NEW r, Word(p, m), Word(q, m), Word(r, m),
         J!Precedes(p, q), J!Precedes(q, r)
  PROVE  J!Precedes(p, r)
<1>1. PICK k \in 1..m : p[k] < q[k] /\ SameBefore(p, q, m, k)
  BY PrecedesWhere
<1>2. PICK l \in 1..m : q[l] < r[l] /\ SameBefore(q, r, m, l)
  BY PrecedesWhere
<1>3. /\ p[k] \in Int /\ q[k] \in Int /\ r[k] \in Int
      /\ p[l] \in Int /\ q[l] \in Int /\ r[l] \in Int /\ k \in Int /\ l \in Int
  BY DEF Word
<1>4. CASE k <= l
  <2>1. k < l => q[k] = r[k]
    BY <1>2 DEF SameBefore
  <2>2. p[k] < r[k]
    BY <1>1, <1>2, <1>3, <1>4, <2>1
  <2>3. SameBefore(p, r, m, k)
    BY <1>1, <1>2, <1>3, <1>4 DEF SameBefore
  <2>. QED
    BY <2>2, <2>3, PrecedesWhere
<1>5. CASE l < k
  <2>1. p[l] = q[l]
    BY <1>1, <1>5 DEF SameBefore
  <2>2. p[l] < r[l]
    BY <1>2, <2>1
  <2>3. SameBefore(p, r, m, l)
    BY <1>1, <1>2, <1>3, <1>5 DEF SameBefore
  <2>. QED
    BY <2>2, <2>3, PrecedesWhere
<1>. QED
  BY <1>3, <1>4, <1>5

\* Of the orders tried there is a shortest, and of those a first.
LEMMA ShortestIsFound ==
  ASSUME NEW m \in Nat, NEW ps, ps # {}, IsFiniteSet(ps), \A p \in ps : Word(p, m),
         \A p, q \in ps : p = q \/ \E k \in 1..m : p[k] # q[k],
         NEW km, DOMAIN km = ps, \A p \in ps : km[p] \in Int
  PROVE  J!FirstShortest(km) \in ps /\ \A q \in ps : km[J!FirstShortest(km)] <= km[q]
<1>. DEFINE Sooner(p, q) == km[p] < km[q] \/ (km[p] = km[q] /\ J!Precedes(p, q))
            before == {pq \in ps \X ps : Sooner(pq[1], pq[2])}
<1>1. ASSUME NEW p \in ps, NEW q \in ps, p # q PROVE Sooner(p, q) \/ Sooner(q, p)
  <2>1. J!Precedes(p, q) \/ J!Precedes(q, p)
    BY <1>1, PrecedesIsTotal
  <2>2. km[p] \in Int /\ km[q] \in Int
    OBVIOUS
  <2>. QED
    BY <2>1, <2>2
<1>2. ASSUME NEW p \in ps, NEW q \in ps, NEW r \in ps, Sooner(p, q), Sooner(q, r)
      PROVE  Sooner(p, r)
  <2>1. J!Precedes(p, q) /\ J!Precedes(q, r) => J!Precedes(p, r)
    BY PrecedesIsTransitive
  <2>2. km[p] \in Int /\ km[q] \in Int /\ km[r] \in Int
    OBVIOUS
  <2>. QED
    BY <1>2, <2>1, <2>2
<1>3. ASSUME NEW p \in ps, NEW q \in ps PROVE <<p, q>> \in before <=> Sooner(p, q)
  OBVIOUS
<1>. HIDE DEF before, Sooner
<1>4. \E p \in ps : \A q \in ps : p = q \/ <<p, q>> \in before
  <2>1. \A p, q \in ps : p # q => <<p, q>> \in before \/ <<q, p>> \in before
    BY <1>1, <1>3
  <2>2. \A p, q, r \in ps : <<p, q>> \in before /\ <<q, r>> \in before => <<p, r>> \in before
    BY <1>2, <1>3
  <2>3. Orders(before, ps)
    BY <2>1, <2>2 DEF Orders
  <2>. QED
    BY <2>3, LeastOfAll
<1>5. \E p \in ps : \A q \in ps : p = q \/ Sooner(p, q)
  BY <1>3, <1>4
<1>. DEFINE first == CHOOSE p \in ps : \A q \in ps : p = q \/ Sooner(p, q)
<1>6. first \in ps /\ \A q \in ps : first = q \/ Sooner(first, q)
  BY <1>5
<1>7. J!FirstShortest(km) = first
  BY DEF J!FirstShortest, Sooner
<1>. HIDE DEF first
<1>8. ASSUME NEW q \in ps PROVE km[first] <= km[q]
  <2>1. km[first] \in Int /\ km[q] \in Int
    BY <1>6
  <2>. QED
    BY <1>6, <2>1 DEF Sooner
<1>. QED
  BY <1>6, <1>7, <1>8

\* The orders that keep both ends move the places between them.
Between(m) == {p \in [1..m -> 1..m] : \A i, j \in 1..m : i # j => p[i] # p[j]}
Takes(p, n) == [i \in 1..n |-> IF i = 1 THEN 1 ELSE IF i = n THEN n ELSE p[i - 1] + 1]

LEMMA ReorderingsAre ==
  ASSUME NEW places, NEW n \in Nat, Len(places) = n, n >= 4
  PROVE  /\ J!Reorderings(places) = Between(n - 2)
         /\ IsFiniteSet(Between(n - 2)) /\ Between(n - 2) # {}
<1>. PICK m \in Nat : m = n - 2
  OBVIOUS
<1>1. IsFiniteSet(1..m) /\ Cardinality(1..m) = m
  BY FS_Interval
<1>2. \A S : J!Cardinality(S) = Cardinality(S)
  BY Zenon DEF J!Cardinality, Cardinality, J!IsFiniteSet, IsFiniteSet
<1>3. J!Reorderings(places) = Between(m)
  <2>1. J!Reorderings(places) = J!SetToSeqs(1..m)
    BY DEF J!Reorderings
  <2>2. J!Cardinality(1..m) = m
    BY <1>1, <1>2
  <2>. QED
    BY <2>1, <2>2 DEF J!SetToSeqs, Between
<1>4. IsFiniteSet(Between(m))
  <2>1. Between(m) \subseteq [1..m -> 1..m]
    BY DEF Between
  <2>. QED
    BY <1>1, <2>1, FiniteFunctions
<1>5. [i \in 1..m |-> i] \in Between(m)
  BY DEF Between
<1>. QED
  BY <1>3, <1>4, <1>5

\* An order of at least four places.
Long(places, n, S) == n \in Nat /\ n >= 4 /\ places \in [1..n -> S] /\ Len(places) = n

\* What an order is of the places it is made of.
TakenFrom(order, places, p, n, S) ==
  /\ Takes(p, n) \in Bijection(1..n, 1..n) /\ Takes(p, n)[1] = 1 /\ Takes(p, n)[n] = n
  /\ order = [i \in 1..n |-> places[Takes(p, n)[i]]]
  /\ Long(order, n, S)

LEMMA OrderTaken ==
  ASSUME NEW n, NEW S, NEW places, Long(places, n, S), NEW p \in Between(n - 2)
  PROVE  TakenFrom(J!Reordered(places, p), places, p, n, S)
<1>. DEFINE t == Takes(p, n)
            m == n - 2
            order == J!Reordered(places, p)
            mid == [i \in 1..m |-> places[p[i] + 1]]
<1>0. n \in Nat /\ n >= 4 /\ places \in [1..n -> S] /\ Len(places) = n
  BY DEF Long
<1>1. /\ p \in [1..m -> 1..m] /\ \A i, j \in 1..m : i # j => p[i] # p[j]
      /\ \A i \in 1..m : p[i] \in 1..m /\ p[i] \in Int
  BY <1>0 DEF Between
<1>2. t \in [1..n -> 1..n] /\ \A i, j \in 1..n : t[i] = t[j] => i = j
  <2>1. ASSUME NEW i \in 1..n PROVE t[i] \in 1..n
    <3>1. CASE i = 1 \/ i = n
      BY <1>0, <3>1 DEF Takes
    <3>2. CASE i # 1 /\ i # n
      <4>1. i - 1 \in 1..m
        BY <1>0, <3>2
      <4>2. p[i - 1] \in 1..m /\ t[i] = p[i - 1] + 1
        BY <1>0, <1>1, <3>2, <4>1 DEF Takes
      <4>. QED
        BY <1>0, <4>2
    <3>. QED
      BY <1>0, <3>1, <3>2
  <2>2. ASSUME NEW i \in 1..n, i # 1, i # n
        PROVE  i - 1 \in 1..m /\ p[i - 1] \in 1..m /\ p[i - 1] \in Int /\ t[i] = p[i - 1] + 1
    BY <1>0, <1>1, <2>2 DEF Takes
  <2>3. t[1] = 1 /\ t[n] = n
    BY <1>0 DEF Takes
  <2>4. t = [i \in 1..n |-> t[i]]
    BY <1>0 DEF Takes
  <2>. HIDE DEF t
  <2>5. ASSUME NEW i \in 1..n, NEW j \in 1..n, t[i] = t[j] PROVE i = j
    <3>1. CASE i = 1 \/ i = n \/ j = 1 \/ j = n
      BY <1>0, <2>2, <2>3, <2>5, <3>1
    <3>2. CASE i # 1 /\ i # n /\ j # 1 /\ j # n
      <4>1. p[i - 1] = p[j - 1] /\ i - 1 \in 1..m /\ j - 1 \in 1..m
        BY <1>0, <2>2, <2>5, <3>2
      <4>2. i - 1 = j - 1
        BY <1>0, <1>1, <4>1
      <4>. QED
        BY <1>0, <4>2
    <3>. QED
      BY <1>0, <3>1, <3>2
  <2>. QED
    BY <1>0, <2>1, <2>4, <2>5
<1>3. t \in Bijection(1..n, 1..n)
  <2>1. t \in Injection(1..n, 1..n)
    BY <1>0, <1>2 DEF Injection, IsInjective
  <2>2. IsFiniteSet(1..n)
    BY <1>0, FS_Interval
  <2>3. t \in Surjection(1..n, 1..n)
    BY <1>0, <2>1, <2>2, FS_Injection
  <2>. QED
    BY <1>0, <2>1, <2>3 DEF Bijection
<1>4. order = <<places[1]>> \o mid \o <<places[n]>>
  <2>1. DOMAIN p = 1..m
    BY <1>0, <1>1
  <2>2. J!Last(places) = places[n]
    BY <1>0 DEF J!Last
  <2>3. Head(places) = places[1]
    BY <1>0
  <2>. QED
    BY <1>0, <2>1, <2>2, <2>3 DEF J!Reordered
<1>5. mid \in Seq(S) /\ Len(mid) = m /\ <<places[1]>> \in Seq(S) /\ <<places[n]>> \in Seq(S)
  <2>1. mid \in [1..m -> S]
    BY <1>0, <1>1
  <2>2. mid \in Seq(S)
    BY <1>0, <2>1, SeqDef
  <2>3. 1 \in 1..n /\ n \in 1..n
    BY <1>0
  <2>4. places[1] \in S /\ places[n] \in S
    BY <1>0, <2>3
  <2>. HIDE DEF mid
  <2>. QED
    BY <1>0, <2>1, <2>2, <2>4, LenProperties
<1>6. \A i \in 1..m : mid[i] = places[p[i] + 1]
  BY <1>0
<1>. HIDE DEF mid
<1>7. DOMAIN order = 1..n /\ Len(order) = n /\ order \in Seq(S)
  BY <1>0, <1>4, <1>5
<1>8. ASSUME NEW i \in 1..n PROVE order[i] = places[t[i]]
  <2>1. CASE i = 1
    BY <1>0, <1>4, <1>5, <2>1 DEF Takes
  <2>2. CASE i = n
    BY <1>0, <1>4, <1>5, <2>2 DEF Takes
  <2>3. CASE i # 1 /\ i # n
    <3>1. i - 1 \in 1..m
      BY <1>0, <2>3
    <3>2. order[i] = mid[i - 1]
      BY <1>0, <1>4, <1>5, <2>3, <3>1
    <3>3. t[i] = p[i - 1] + 1
      BY <1>0, <2>3 DEF Takes
    <3>. QED
      BY <1>0, <1>6, <3>1, <3>2, <3>3
  <2>. QED
    BY <1>0, <2>1, <2>2, <2>3
<1>9. order = [i \in 1..n |-> places[t[i]]]
  BY <1>0, <1>7, <1>8
<1>10. order \in [1..n -> S]
  BY <1>0, <1>2, <1>9
<1>11. t[1] = 1 /\ t[n] = n
  BY <1>0 DEF Takes
<1>. QED
  BY <1>0, <1>3, <1>7, <1>9, <1>10, <1>11 DEF TakenFrom, Long

\* An order visits what it shuffles, as often.
LEMMA ShuffledBag ==
  ASSUME NEW n \in Nat, NEW S, NEW rows \in [1..n -> S], NEW t \in Bijection(1..n, 1..n)
  PROVE  ToBag([i \in 1..n |-> rows[t[i]]]) = ToBag(rows)
<1>. DEFINE order == [i \in 1..n |-> rows[t[i]]]
            at(x) == {i \in 1..n : rows[i] = x}
            takenAt(x) == {i \in 1..n : order[i] = x}
<1>1. /\ t \in [1..n -> 1..n] /\ \A i, j \in 1..n : t[i] = t[j] => i = j
      /\ \A j \in 1..n : \E i \in 1..n : t[i] = j
  BY DEF Bijection, Injection, Surjection, IsInjective
<1>2. Range(order) = Range(rows)
  <2>1. \A i \in 1..n : t[i] \in 1..n /\ order[i] = rows[t[i]]
    BY <1>1
  <2>2. DOMAIN order = 1..n /\ DOMAIN rows = 1..n
    OBVIOUS
  <2>3. \A j \in 1..n : \E i \in 1..n : order[i] = rows[j]
    BY <1>1, <2>1
  <2>4. \A i \in 1..n : \E j \in 1..n : rows[j] = order[i]
    BY <2>1
  <2>. HIDE DEF order
  <2>5. Range(order) = {order[i] : i \in 1..n} /\ Range(rows) = {rows[i] : i \in 1..n}
    BY <2>2 DEF Range
  <2>. QED
    BY <2>3, <2>4, <2>5
<1>3. IsFiniteSet(1..n)
  BY FS_Interval
<1>4. ASSUME NEW x PROVE Cardinality(takenAt(x)) = Cardinality(at(x))
  <2>. DEFINE moved == [i \in takenAt(x) |-> t[i]]
  <2>1. \A i \in 1..n : i \in takenAt(x) <=> t[i] \in at(x)
    BY <1>1
  <2>2. takenAt(x) \in SUBSET (1..n) /\ at(x) \in SUBSET (1..n)
    OBVIOUS
  <2>. HIDE DEF takenAt, at
  <2>3. moved \in [takenAt(x) -> at(x)]
    BY <2>1, <2>2
  <2>4. moved \in Bijection(takenAt(x), at(x))
    <3>1. \A i, j \in takenAt(x) : moved[i] = moved[j] => i = j
      BY <1>1, <2>2
    <3>2. \A y \in at(x) : \E i \in takenAt(x) : moved[i] = y
      BY <1>1, <2>1, <2>2
    <3>. HIDE DEF moved
    <3>. QED
      BY <2>3, <3>1, <3>2 DEF Bijection, Injection, Surjection, IsInjective
  <2>5. ExistsBijection(takenAt(x), at(x))
    BY <2>4 DEF ExistsBijection
  <2>6. IsFiniteSet(takenAt(x))
    BY <1>3, <2>2, FS_Subset
  <2>. QED
    BY <2>5, <2>6, FS_Bijection
<1>5. ToBag(order) = [x \in Range(rows) |-> Cardinality(takenAt(x))]
  BY <1>2 DEF ToBag
<1>6. ToBag(rows) = [x \in Range(rows) |-> Cardinality(at(x))]
  BY DEF ToBag
<1>. HIDE DEF order, takenAt, at
<1>. QED
  BY <1>4, <1>5, <1>6 DEF order

-------------------------------------------------------------------------------
(***************************************************************************)
(* The order suggested                                                     *)
(***************************************************************************)

\* The order found is one of those that keep the ends, and no longer than any.
LeastOf(best, places, n, roads) ==
  \E f \in Between(n - 2) :
    /\ best.order = J!Reordered(places, f) /\ best.km = KmOf(best.order, roads)
    /\ \A p \in Between(n - 2) :
         /\ Drivable(J!Reordered(places, p), roads)
         /\ KmOf(best.order, roads) <= KmOf(J!Reordered(places, p), roads)

LEMMA ShortestOrderTold ==
  ASSUME NEW n, NEW S, NEW places, Long(places, n, S),
         NEW roads, Charted(S, roads), J!ShortestOrder(places, roads) # None
  PROVE  LeastOf(J!ShortestOrder(places, roads), places, n, roads)
<1>. DEFINE ps == Between(n - 2)
            order(p) == J!Reordered(places, p)
            km == [p \in ps |-> J!OrderKm(order(p), roads)]
            f == J!FirstShortest(km)
            best == J!ShortestOrder(places, roads)
<1>0. n \in Nat /\ n >= 4 /\ Len(places) = n
  BY DEF Long
<1>1. J!Reorderings(places) = ps /\ IsFiniteSet(ps) /\ ps # {}
  BY <1>0, ReorderingsAre
<1>2. (\A p \in ps : km[p] # None) /\ best = [order |-> order(f), km |-> km[f]]
  BY <1>1 DEF J!ShortestOrder
<1>3. ASSUME NEW p \in ps
      PROVE  /\ Drivable(order(p), roads) /\ km[p] = KmOf(order(p), roads) /\ km[p] \in Int
  <2>1. order(p) \in [1..n -> S] /\ Len(order(p)) = n /\ n \in Nat \ {0}
    <3>1. TakenFrom(order(p), places, p, n, S)
      BY OrderTaken
    <3>. QED
      BY <3>1, <1>0 DEF TakenFrom, Long
  <2>2. km[p] # None /\ km[p] = J!OrderKm(order(p), roads)
    BY <1>2
  <2>. HIDE DEF km, order
  <2>3. LET told == J!OrderKm(order(p), roads)
        IN  /\ Drivable(order(p), roads) => told = KmOf(order(p), roads) /\ told \in Int
            /\ told # None => Drivable(order(p), roads)
    BY <2>1, OrderKmTold
  <2>. QED
    BY <2>2, <2>3
<1>4. /\ \A p \in ps : Word(p, n - 2)
      /\ \A p, q \in ps : p = q \/ \E k \in 1..n - 2 : p[k] # q[k]
  BY <1>0 DEF Between, Word
<1>5. DOMAIN km = ps
  OBVIOUS
<1>. HIDE DEF km, ps
<1>6. f \in ps /\ \A q \in ps : km[f] <= km[q]
  <2>1. PICK m \in Nat : m = n - 2
    BY <1>0
  <2>2. /\ \A p \in ps : Word(p, m)
        /\ \A p, q \in ps : p = q \/ \E k \in 1..m : p[k] # q[k]
    BY <1>4, <2>1
  <2>3. \A p \in ps : km[p] \in Int
    BY <1>3
  <2>. QED
    BY <1>1, <1>5, <2>1, <2>2, <2>3, ShortestIsFound
<1>. HIDE DEF f, best
<1>7. best.order = order(f) /\ best.km = KmOf(best.order, roads)
  BY <1>2, <1>3, <1>6
<1>8. \A p \in ps : Drivable(order(p), roads) /\ KmOf(order(f), roads) <= KmOf(order(p), roads)
  BY <1>3, <1>6
<1>. QED
  BY <1>6, <1>7, <1>8 DEF ps, best, LeastOf

\* An order is drivable, and as long, as its hops are.
LEMMA DrivableHops ==
  ASSUME NEW n \in Nat \ {0}, NEW S, NEW places \in [1..n -> S], Len(places) = n,
         NEW roads, Charted(S, roads), Drivable(places, roads)
  PROVE  /\ \A hop \in {<<places[i], places[i + 1]>> : i \in 1..Len(places) - 1}
                         \ {<<x, x>> : x \in Range(places)} : roads[hop] # None
         /\ KmOf(places, roads)
              = Total([i \in 1..Len(places) - 1 |->
                         IF places[i] = places[i + 1] THEN 0
                         ELSE roads[<<places[i], places[i + 1]>>].km])
<1>1. ASSUME NEW i \in 1..Len(places) - 1,
             <<places[i], places[i + 1]>> \notin {<<x, x>> : x \in Range(places)}
      PROVE  roads[<<places[i], places[i + 1]>>] # None
  <2>1. i \in DOMAIN places
    OBVIOUS
  <2>2. places[i] \in Range(places)
    BY <2>1 DEF Range
  <2>3. places[i] # places[i + 1]
    BY <1>1, <2>2
  <2>. QED
    BY <2>3 DEF Drivable, Driven, Stretch
<1>2. KmOf(places, roads) = Total(KmAt(places, roads))
  <2>. DEFINE kms == KmAt(places, roads)
  <2>1. PICK m \in Nat : m = n - 1
    OBVIOUS
  <2>2. DOMAIN kms = 1..m
    BY <2>1 DEF KmAt
  <2>3. Integral(kms, 1..m)
    BY <2>1, KmOfAnyOrder
  <2>. HIDE DEF kms
  <2>4. Total(kms) = SumFunctionOnSet(kms, 1..m)
    BY <2>2, <2>3, TotalIsSum
  <2>. QED
    BY <2>1, <2>4 DEF KmOf, kms
<1>. QED
  BY <1>1, <1>2 DEF KmAt, Stretch

OrderAnswer(asked) ==
  [problems |-> J!SequenceProblems(asked.places, asked.nights, asked.roads, asked.maxMinutes),
   score    |-> J!Score(J!Hops(asked.places, asked.nights, asked.roads)),
   better   |-> J!BetterOrder(asked.places, asked.roads)]

\* An order's question is one of those asked, and its answer is never changed.
OrderInv ==
  question = "order" =>
    given \in OrderQuestions /\ (answer # None => answer = OrderAnswer(given))

LEMMA OrderStep ==
  ASSUME OrderInv, [Next]_vars
  PROVE  OrderInv'
<1>1. CASE AskOrder
  BY <1>1 DEF AskOrder, Answer, OrderInv, OrderAnswer
<1>2. CASE AskPackage \/ AskJourney \/ AskStay \/ RefuseOffer \/ AskOffer
  <2>1. question # "order" /\ question' = question
    BY <1>2 DEF AskPackage, AskJourney, AskStay, RefuseOffer, AskOffer, Answer
  <2>. QED
    BY <2>1 DEF OrderInv
<1>3. CASE IssueOffer
  BY <1>3 DEF IssueOffer, Priced, OrderInv
<1>4. CASE UNCHANGED vars
  BY <1>4 DEF vars, OrderInv
<1>. QED
  BY <1>1, <1>2, <1>3, <1>4 DEF Next

LEMMA OrderInvIsDrivable ==
  ASSUME OrderInv
  PROVE  BetterOrderIsDrivable
<1>. SUFFICES ASSUME Answered("order"), answer.better # None PROVE BetterOrderIsDrivable
  BY DEF BetterOrderIsDrivable
<1>. DEFINE places == given.places
            roads == given.roads
            order == answer.better.order
            S == Range(places)
            n == Len(places)
            best == J!ShortestOrder(places, roads)
            now == J!OrderKm(places, roads)
<1>1. given \in OrderQuestions /\ answer = OrderAnswer(given)
  BY DEF OrderInv, Answered
<1>2. /\ answer.better = J!Improvement(now, best)
      /\ answer.score = J!Score(J!Hops(places, given.nights, roads))
  BY <1>1 DEF OrderAnswer, J!BetterOrder
<1>3. /\ now # None /\ best # None /\ best.km < now
      /\ order = best.order /\ answer.better.saving = now - best.km
  BY <1>2 DEF J!Improvement
<1>4. places \in Seq(S) /\ Charted(S, roads)
  BY <1>1, CostingAssumption DEF Charted, IsList
<1>5. n >= 4
  BY <1>3 DEF J!ShortestOrder
<1>6. n \in Nat /\ n \in Nat \ {0} /\ places \in [1..n -> S]
  BY <1>4, <1>5
<1>. HIDE DEF places, roads, order, n, S, best, now
<1>7. Long(places, n, S)
  BY <1>5, <1>6 DEF Long, n
<1>8. PICK f \in Between(n - 2) :
        /\ order = J!Reordered(places, f) /\ best.km = KmOf(order, roads)
        /\ \A p \in Between(n - 2) :
             /\ Drivable(J!Reordered(places, p), roads)
             /\ KmOf(order, roads) <= KmOf(J!Reordered(places, p), roads)
  <2>1. J!ShortestOrder(places, roads) # None
    BY <1>3 DEF best
  <2>2. LeastOf(best, places, n, roads)
    BY <1>4, <1>7, <2>1, ShortestOrderTold DEF best
  <2>. QED
    BY <1>3, <2>2 DEF LeastOf
<1>9. /\ J!Reorderings(places) = Between(n - 2)
      /\ \A p \in Between(n - 2) :
           /\ J!Reordered(places, p) \in [1..n -> S] /\ Len(J!Reordered(places, p)) = n
  <2>1. Len(places) = n
    BY DEF n
  <2>2. J!Reorderings(places) = Between(n - 2)
    BY <1>5, <1>6, <2>1, ReorderingsAre
  <2>3. ASSUME NEW p \in Between(n - 2)
        PROVE  J!Reordered(places, p) \in [1..n -> S] /\ Len(J!Reordered(places, p)) = n
    <3>1. TakenFrom(J!Reordered(places, p), places, p, n, S)
      BY <1>7, OrderTaken
    <3>. QED
      BY <3>1 DEF TakenFrom, Long
  <2>. QED
    BY <2>2, <2>3
<1>10. Drivable(places, roads) /\ now = KmOf(places, roads) /\ now \in Int
  <2>1. Len(places) = n
    BY DEF n
  <2>2. LET told == J!OrderKm(places, roads)
        IN  /\ Drivable(places, roads) => told = KmOf(places, roads) /\ told \in Int
            /\ told # None => Drivable(places, roads)
    BY <1>4, <1>6, <2>1, OrderKmTold
  <2>. QED
    BY <1>3, <2>2 DEF now
<1>11. answer.score.unknown = 0
  <2>1. Len(places) = n
    BY DEF n
  <2>2. LET score == J!Score(J!Hops(places, given.nights, roads))
        IN  /\ score.unknown \in Nat
            /\ score.unknown = 0 <=> Drivable(places, roads)
            /\ score.unknown = 0 => score.km = KmOf(places, roads)
    BY <1>4, <1>6, <2>1, ScoreOfOrder
  <2>. QED
    BY <1>2, <1>10, <2>2
<1>12. ToBag(order) = ToBag(places) /\ Head(order) = Head(places) /\ Last(order) = Last(places)
  <2>. DEFINE t == Takes(f, n)
  <2>1. /\ t \in Bijection(1..n, 1..n) /\ t[1] = 1 /\ t[n] = n
        /\ order = [i \in 1..n |-> places[t[i]]] /\ Len(order) = n
    <3>1. TakenFrom(order, places, f, n, S)
      BY <1>8, <1>7, OrderTaken
    <3>. QED
      BY <3>1 DEF TakenFrom, Long
  <2>. HIDE DEF t
  <2>2. ToBag(order) = ToBag(places)
    BY <1>6, <2>1, ShuffledBag
  <2>3. order[1] = places[1] /\ order[n] = places[n]
    BY <1>6, <2>1
  <2>. QED
    BY <2>1, <2>2, <2>3 DEF Last, n
<1>. DEFINE hops(q) == {<<q[i], q[i + 1]>> : i \in 1..Len(q) - 1} \ {<<x, x>> : x \in Range(q)}
            drivable(q) == \A hop \in hops(q) : roads[hop] # None
            km(q) == Total([i \in 1..Len(q) - 1 |->
                              IF q[i] = q[i + 1] THEN 0 ELSE roads[<<q[i], q[i + 1]>>].km])
<1>13. ASSUME NEW q \in [1..n -> S], Len(q) = n, Drivable(q, roads)
       PROVE  drivable(q) /\ km(q) = KmOf(q, roads)
  <2>1. n \in Nat \ {0} /\ Charted(S, roads)
    BY <1>4, <1>6
  <2>. QED
    BY <1>13, <2>1, DrivableHops, ZenonT(30)
<1>14. order \in [1..n -> S] /\ Len(order) = n /\ Drivable(order, roads)
  BY <1>8, <1>9
<1>15. Len(places) = n
  BY DEF n
<1>. HIDE DEF drivable, km
<1>16. drivable(order) /\ drivable(places) /\ km(order) = best.km /\ km(places) = now
  BY <1>6, <1>8, <1>10, <1>13, <1>14, <1>15
<1>17. answer.better.saving = km(places) - km(order) /\ answer.better.saving > 0
  <2>1. best.km \in Int
    BY <1>4, <1>6, <1>8, <1>14, KmOfAnyOrder
  <2>. QED
    BY <1>3, <1>10, <1>16, <2>1
<1>18. \A p \in J!Reorderings(places) :
         drivable(J!Reordered(places, p)) /\ km(J!Reordered(places, p)) >= km(order)
  <2>1. ASSUME NEW p \in Between(n - 2)
        PROVE  drivable(J!Reordered(places, p)) /\ km(J!Reordered(places, p)) >= km(order)
    <3>1. /\ J!Reordered(places, p) \in [1..n -> S] /\ Len(J!Reordered(places, p)) = n
          /\ Drivable(J!Reordered(places, p), roads)
          /\ KmOf(order, roads) <= KmOf(J!Reordered(places, p), roads)
      BY <1>8, <1>9
    <3>2. KmOf(order, roads) \in Int /\ KmOf(J!Reordered(places, p), roads) \in Int
      BY <1>4, <1>6, <1>14, <3>1, KmOfAnyOrder
    <3>. QED
      BY <1>8, <1>13, <1>16, <3>1, <3>2
  <2>. QED
    BY <1>9, <2>1
<1>. QED
  BY <1>11, <1>12, <1>16, <1>17, <1>18, Zenon
     DEF BetterOrderIsDrivable, drivable, km, order, places, roads

\* An order suggested in place of the agent's visits the same places with the same
\* ends over known roads, is as much shorter as it says, and none is shorter still.
THEOREM BetterOrdersAreDrivable == Spec => []BetterOrderIsDrivable
<1>1. Init => OrderInv
  BY DEF Init, OrderInv
<1>. QED
  BY <1>1, OrderStep, OrderInvIsDrivable, PTL DEF Spec

==============================================================================
