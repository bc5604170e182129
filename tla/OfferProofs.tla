------------------------------ MODULE OfferProofs ------------------------------
(***************************************************************************)
(* Theorems about the offers of the pricing engine, for any group, rates,  *)
(* rooms, packages, journeys and refusals: what price_options and          *)
(* replace_declines say of every option of a quote, what price_stay says   *)
(* of the rooms of a stay and of what they cost, what a journey is         *)
(* charged, and what attribute and price_group make a group pay.           *)
(***************************************************************************)
EXTENDS CostingProofs

-------------------------------------------------------------------------------
(***************************************************************************)
(* Rows sorted                                                             *)
(***************************************************************************)

\* The positions of rows, by which row is earlier, and where each is sorted to.
Ranks(b, n) ==
  /\ \A i, j \in 1..n : <<i, j>> \in b => <<j, i>> \notin b
  /\ \A i, j, k \in 1..n : <<i, k>> \in b => <<i, j>> \in b \/ <<j, k>> \in b
Ahead(b, n, i) == {j \in 1..n : <<j, i>> \in b \/ (<<i, j>> \notin b /\ j <= i)}
SortedTo(b, n) == [i \in 1..n |-> Cardinality(Ahead(b, n, i))]
SortedFrom(b, n) == [k \in 1..n |-> CHOOSE i \in 1..n : SortedTo(b, n)[i] = k]

LEMMA SortingRearranges ==
  ASSUME NEW n \in Nat, NEW b, Ranks(b, n)
  PROVE  SortedFrom(b, n) \in Bijection(1..n, 1..n)
<1>. DEFINE place == SortedTo(b, n)
            from == SortedFrom(b, n)
<1>1. IsFiniteSet(1..n) /\ Cardinality(1..n) = n
  BY FS_Interval
<1>2. ASSUME NEW i \in 1..n
      PROVE  /\ IsFiniteSet(Ahead(b, n, i)) /\ i \in Ahead(b, n, i)
             /\ Cardinality(Ahead(b, n, i)) \in 1..n
  <2>1. Ahead(b, n, i) \in SUBSET (1..n) /\ i \in Ahead(b, n, i)
    BY DEF Ahead, Ranks
  <2>2. /\ IsFiniteSet(Ahead(b, n, i)) /\ Cardinality(Ahead(b, n, i)) <= n
        /\ Cardinality(Ahead(b, n, i)) \in Nat
    BY <1>1, <2>1, FS_Subset, FS_CardinalityType
  <2>3. Cardinality(Ahead(b, n, i)) # 0
    BY <2>1, <2>2, FS_EmptySet
  <2>. QED
    BY <2>1, <2>2, <2>3
<1>3. ASSUME NEW i \in 1..n, NEW j \in 1..n, i \in Ahead(b, n, j), i # j
      PROVE  Cardinality(Ahead(b, n, i)) # Cardinality(Ahead(b, n, j))
  <2>0. i \in Int /\ j \in Int /\ (<<i, j>> \in b \/ (<<j, i>> \notin b /\ i <= j))
    BY <1>3 DEF Ahead
  <2>1. ASSUME NEW k \in Ahead(b, n, i) PROVE k \in Ahead(b, n, j)
    <3>1. k \in 1..n /\ k \in Int /\ (<<k, i>> \in b \/ (<<i, k>> \notin b /\ k <= i))
      BY DEF Ahead
    <3>2. /\ <<k, i>> \in b => <<k, j>> \in b \/ <<j, i>> \in b
          /\ <<i, j>> \in b => <<i, k>> \in b \/ <<k, j>> \in b
          /\ <<j, k>> \in b => <<j, i>> \in b \/ <<i, k>> \in b
          /\ <<i, j>> \in b => <<j, i>> \notin b
      BY <3>1 DEF Ranks
    <3>3. <<k, j>> \in b \/ (<<j, k>> \notin b /\ k <= j)
      BY <2>0, <3>1, <3>2
    <3>. QED
      BY <3>1, <3>3 DEF Ahead
  <2>2. j \notin Ahead(b, n, i) /\ j \in Ahead(b, n, j)
    <3>1. <<i, j>> \in b => <<j, i>> \notin b
      BY DEF Ranks
    <3>2. ~(<<j, i>> \in b \/ (<<i, j>> \notin b /\ j <= i))
      BY <1>3, <2>0, <3>1
    <3>. QED
      BY <1>2, <3>2 DEF Ahead
  <2>3. Ahead(b, n, i) \in SUBSET Ahead(b, n, j)
    BY <2>1
  <2>. QED
    BY <1>2, <2>2, <2>3, FS_Subset
<1>4. ASSUME NEW i \in 1..n, NEW j \in 1..n, i # j PROVE place[i] # place[j]
  <2>1. i \in Ahead(b, n, j) \/ j \in Ahead(b, n, i)
    BY <1>4 DEF Ahead, Ranks
  <2>. QED
    BY <1>3, <1>4, <2>1 DEF SortedTo
<1>5. place \in [1..n -> 1..n]
  BY <1>2 DEF SortedTo
<1>6. \A k \in 1..n : from[k] = CHOOSE i \in 1..n : place[i] = k
  BY DEF SortedFrom
<1>7. DOMAIN from = 1..n /\ from = [k \in 1..n |-> from[k]]
  BY DEF SortedFrom
<1>. HIDE DEF place, from
<1>8. place \in Injection(1..n, 1..n)
  BY <1>4, <1>5 DEF Injection, IsInjective
<1>9. place \in Surjection(1..n, 1..n)
  BY <1>1, <1>8, FS_Injection
<1>10. \A k \in 1..n : from[k] \in 1..n /\ place[from[k]] = k
  <2>1. \A k \in 1..n : \E i \in 1..n : place[i] = k
    BY <1>9 DEF Surjection
  <2>. QED
    BY <1>6, <2>1
<1>11. \A i \in 1..n : place[i] \in 1..n /\ from[place[i]] = i
  BY <1>4, <1>5, <1>10
<1>12. from \in [1..n -> 1..n]
  BY <1>7, <1>10
<1>13. \A k, l \in 1..n : from[k] = from[l] => k = l
  BY <1>10
<1>14. \A i \in 1..n : \E k \in 1..n : from[k] = i
  BY <1>11
<1>15. from \in Bijection(1..n, 1..n)
  BY <1>12, <1>13, <1>14 DEF Bijection, Injection, Surjection, IsInjective
<1>. QED
  BY <1>15 DEF from

\* Lists of lists, one after another.
LEMMA Flattened ==
  ASSUME NEW T, NEW n \in Nat, NEW seqs \in [1..n -> Seq(T)]
  PROVE  FlattenSeq(seqs) \in Seq(T)
<1>1. seqs \in Seq(Seq(T)) /\ Len(seqs) = n
  <2>1. seqs \in Seq(Seq(T))
    BY SeqDef
  <2>. QED
    BY <2>1, LenProperties
<1>2. CASE n = 0
  <2>1. FlattenSeq(seqs) = seqs
    BY <1>1, <1>2 DEF FlattenSeq
  <2>2. seqs = <<>>
    BY <1>1, <1>2, EmptySeq
  <2>. QED
    BY <2>1, <2>2
<1>3. CASE n # 0
  <2>1. n \in Nat \ {0}
    BY <1>3
  <2>2. PICK g : Flattening(T, seqs, n, g) /\ FlattenSeq(seqs) = g[n]
    BY <2>1, FlattenUnfolds
  <2>3. n \in 1..n
    BY <2>1
  <2>. QED
    BY <2>2, <2>3 DEF Flattening
<1>. QED
  BY <1>2, <1>3

-------------------------------------------------------------------------------
(***************************************************************************)
(* The group                                                               *)
(***************************************************************************)

\* Counts of travellers, as rows that can be ranked.
Counted(counts, n, rank) ==
  /\ counts \in [1..n -> Range(counts)]
  /\ \A i \in 1..n : /\ counts[i].count \in Int /\ rank[counts[i].residence] \in Int
                     /\ counts[i].type \in Range(TYPES)

LEMMA ListKept ==
  ASSUME NEW S, NEW rows \in Seq(S), NEW K \in SUBSET DOMAIN rows
  PROVE  /\ RowsAt(rows, K) \in Seq(S) /\ Len(RowsAt(rows, K)) = Cardinality(K) /\ Cardinality(K) \in Nat
         /\ Range(RowsAt(rows, K)) = {rows[i] : i \in K}
<1>1. PICK n \in Nat : n = Len(rows)
  BY LenProperties
<1>2. rows \in [1..n -> S] /\ K \in SUBSET (1..n)
  BY <1>1, LenProperties
<1>. QED
  BY <1>2, RowsKept

LEMMA CountsAreRows ==
  ASSUME NEW quote, NEW refusals, QuoteIsRead(quote, refusals), NEW rank,
         \A c \in Range(CountsOf(quote)) : rank[c.residence] \in Int, None \notin Int
  PROVE  \E n \in Nat : Counted(CountsOf(quote), n, rank)
<1>. DEFINE counts == CountsOf(quote)
<1>1. /\ quote.cohorts \in Seq(Range(quote.cohorts)) /\ quote.travellers \in Seq(Range(quote.travellers))
      /\ quote.paxCount \in Int \cup {None}
      /\ \A c \in Range(quote.cohorts) : c.count \in Int /\ c.type \in Range(TYPES)
  BY DEF QuoteIsRead, IsList
<1>2. ASSUME NEW n \in Nat, counts \in [1..n -> Range(counts)],
             \A i \in 1..n : counts[i].count \in Int /\ counts[i].type \in Range(TYPES)
      PROVE  Counted(counts, n, rank)
  <2>. HIDE DEF counts
  <2>1. \A i \in 1..n : counts[i] \in Range(counts)
    BY <1>2 DEF Range
  <2>2. \A c \in Range(counts) : rank[c.residence] \in Int
    BY DEF counts
  <2>. QED
    BY <1>2, <2>1, <2>2 DEF Counted
<1>3. CASE quote.cohorts # <<>>
  <2>1. counts = quote.cohorts
    BY <1>3 DEF CountsOf
  <2>2. /\ Len(quote.cohorts) \in Nat /\ DOMAIN quote.cohorts = 1..Len(quote.cohorts)
        /\ quote.cohorts \in [1..Len(quote.cohorts) -> Range(quote.cohorts)]
    BY <1>1, LenProperties
  <2>3. \A i \in DOMAIN quote.cohorts : quote.cohorts[i] \in Range(quote.cohorts)
    BY DEF Range
  <2>. HIDE DEF counts
  <2>4. \A i \in 1..Len(quote.cohorts) : counts[i].count \in Int /\ counts[i].type \in Range(TYPES)
    BY <1>1, <2>1, <2>2, <2>3
  <2>5. Counted(counts, Len(quote.cohorts), rank)
    BY <1>2, <2>1, <2>2, <2>4
  <2>. QED
    BY <2>2, <2>5 DEF counts
<1>4. CASE quote.cohorts = <<>> /\ HeadcountSaysMore(quote)
  <2>. DEFINE row == [residence |-> quote.residence, type |-> "adult", count |-> quote.paxCount]
  <2>1. counts = <<row>>
    BY <1>4 DEF CountsOf
  <2>2. quote.paxCount \in Int
    BY <1>1, <1>4 DEF HeadcountSaysMore
  <2>3. "adult" \in Range(TYPES)
    BY DEF Range, TYPES
  <2>4. counts \in [1..1 -> Range(counts)] /\ \A i \in 1..1 : counts[i] = row
    BY <2>1 DEF Range
  <2>. HIDE DEF counts
  <2>5. Counted(counts, 1, rank)
    BY <1>2, <2>2, <2>3, <2>4
  <2>. QED
    BY <2>5, 1 \in Nat DEF counts
<1>5. CASE quote.cohorts = <<>> /\ ~HeadcountSaysMore(quote)
  <2>. DEFINE of(type) == Len(Kept(quote.travellers, LAMBDA t : t = type))
  <2>1. counts = [i \in DOMAIN TYPES |-> [residence |-> quote.residence, type |-> TYPES[i],
                                          count |-> of(TYPES[i])]]
    BY <1>5 DEF CountsOf
  <2>2. ASSUME NEW type PROVE of(type) \in Int
    <3>. DEFINE K == {i \in DOMAIN quote.travellers : quote.travellers[i] = type}
    <3>1. of(type) = Len(RowsAt(quote.travellers, K))
      BY DEF Kept
    <3>2. K \in SUBSET DOMAIN quote.travellers
      OBVIOUS
    <3>. HIDE DEF K, of
    <3>3. Len(RowsAt(quote.travellers, K)) = Cardinality(K) /\ Cardinality(K) \in Nat
      BY <1>1, <3>2, ListKept
    <3>. QED
      BY <3>1, <3>3
  <2>3. DOMAIN TYPES = 1..3 /\ \A i \in 1..3 : TYPES[i] \in Range(TYPES)
    BY DEF TYPES, Range
  <2>. HIDE DEF of
  <2>4. /\ counts \in [1..3 -> Range(counts)]
        /\ \A i \in 1..3 : counts[i].count \in Int /\ counts[i].type \in Range(TYPES)
    BY <2>1, <2>2, <2>3 DEF Range
  <2>. HIDE DEF counts
  <2>5. Counted(counts, 3, rank)
    BY <1>2, <2>4
  <2>. QED
    BY <2>5, 3 \in Nat DEF counts
<1>. QED
  BY <1>3, <1>4, <1>5

\* The group is ranked of those who travel.
LEMMA RankedRows ==
  ASSUME NEW n \in Nat, NEW rank, NEW counts, Counted(counts, n, rank)
  PROVE  \E m \in Nat : /\ DOMAIN InRank(counts, rank) = 1..m
                        /\ \A i \in 1..m : \E j \in 1..n : /\ InRank(counts, rank)[i] = counts[j]
                                                           /\ counts[j].count > 0
<1>. DEFINE K == {i \in DOMAIN counts : counts[i].count > 0}
            rows == RowsAt(counts, K)
            m == Cardinality(K)
            Ahead1(x, y) == \/ rank[x.residence] < rank[y.residence]
                            \/ rank[x.residence] = rank[y.residence] /\ TypeRank(x.type) < TypeRank(y.type)
            b == {ij \in (1..m) \X (1..m) : Ahead1(rows[ij[1]], rows[ij[2]])}
            from == SortedFrom(b, m)
            place == [i \in DOMAIN rows |->
                        PlaceIn(rows, i, LAMBDA x, y :
                          \/ rank[x.residence] < rank[y.residence]
                          \/ rank[x.residence] = rank[y.residence] /\ TypeRank(x.type) < TypeRank(y.type))]
<1>1. counts \in [1..n -> Range(counts)] /\ DOMAIN counts = 1..n /\ K \in SUBSET (1..n) /\ \A i \in K : counts[i].count > 0
  BY DEF Counted, Range
<1>2. InRank(counts, rank)
        = [k \in DOMAIN rows |-> rows[CHOOSE i \in DOMAIN rows : place[i] = k]]
  BY Zenon DEF InRank, Sorted, Kept
<1>. HIDE DEF K, m
<1>3. /\ m \in Nat /\ DOMAIN rows = 1..m /\ rows \in [1..m -> Range(counts)]
      /\ Range(rows) = {counts[i] : i \in K}
  BY <1>1, RowsKept DEF m
<1>4. \A i \in 1..m : \E j \in K : rows[i] = counts[j]
  <2>1. \A i \in 1..m : rows[i] \in Range(rows)
    BY <1>3 DEF Range
  <2>. QED
    BY <1>3, <2>1
<1>5. \A t \in Range(TYPES) : TypeRank(t) \in Int
  <2>1. \A t \in Range(TYPES) : \E i \in DOMAIN TYPES : TYPES[i] = t
    BY DEF Range
  <2>2. DOMAIN TYPES = 1..3
    BY DEF TYPES
  <2>. QED
    BY <2>1, <2>2 DEF TypeRank
<1>6. \A i \in 1..m : rank[rows[i].residence] \in Int /\ TypeRank(rows[i].type) \in Int
  BY <1>1, <1>4, <1>5 DEF Counted
<1>. HIDE DEF rows
<1>7. \A i, j \in 1..m : <<i, j>> \in b <=> Ahead1(rows[i], rows[j])
  OBVIOUS
<1>. HIDE DEF b
<1>8. Ranks(b, m)
  BY <1>6, <1>7 DEF Ranks
<1>9. place = SortedTo(b, m)
  <2>1. ASSUME NEW i \in 1..m PROVE place[i] = Cardinality(Ahead(b, m, i))
    <3>1. place[i] = Cardinality({j \in DOMAIN rows : \/ Ahead1(rows[j], rows[i])
                                                      \/ ~Ahead1(rows[i], rows[j]) /\ j <= i})
      BY <1>3 DEF PlaceIn
    <3>2. {j \in DOMAIN rows : Ahead1(rows[j], rows[i]) \/ (~Ahead1(rows[i], rows[j]) /\ j <= i)}
            = Ahead(b, m, i)
      BY <1>3, <1>7 DEF Ahead
    <3>. HIDE DEF place, Ahead1
    <3>. QED
      BY <3>1, <3>2
  <2>2. place = [i \in 1..m |-> place[i]]
    BY <1>3
  <2>. HIDE DEF place
  <2>. QED
    BY <2>1, <2>2 DEF SortedTo
<1>. HIDE DEF place
<1>10. InRank(counts, rank) = [k \in 1..m |-> rows[from[k]]]
  BY <1>2, <1>3, <1>9 DEF SortedFrom
<1>11. \A k \in 1..m : from[k] \in 1..m
  <2>1. from \in Bijection(1..m, 1..m)
    BY <1>3, <1>8, SortingRearranges
  <2>. QED
    BY <2>1 DEF Bijection, Injection
<1>. HIDE DEF from
<1>12. ASSUME NEW i \in 1..m
       PROVE  \E j \in 1..n : InRank(counts, rank)[i] = counts[j] /\ counts[j].count > 0
  <2>1. PICK j \in K : rows[from[i]] = counts[j]
    BY <1>4, <1>11
  <2>2. j \in 1..n /\ counts[j].count > 0
    BY <1>1
  <2>. QED
    BY <1>10, <2>1, <2>2
<1>. QED
  BY <1>3, <1>10, <1>12

\* A group is of cohorts, each with somebody in it.
IsGroup(group, g) ==
  g \in Nat /\ group \in [1..g -> Range(group)] /\ \A i \in 1..g : group[i].count \in Nat \ {0}

LEMMA GroupRead ==
  ASSUME NEW quote, NEW refusals, QuoteIsRead(quote, refusals), NEW catalogue,
         GroupOf(quote, catalogue) # None, None \notin Int,
         \A c \in Range(CountsOf(quote)) : catalogue.rank[c.residence] \in Int
  PROVE  \E g : IsGroup(GroupOf(quote, catalogue), g)
<1>. DEFINE counts == CountsOf(quote)
            ranked == InRank(counts, catalogue.rank)
            group == GroupOf(quote, catalogue)
<1>1. PICK n \in Nat : Counted(counts, n, catalogue.rank)
  BY CountsAreRows
<1>2. PICK m \in Nat : /\ DOMAIN ranked = 1..m
                       /\ \A i \in 1..m : \E j \in 1..n : ranked[i] = counts[j] /\ counts[j].count > 0
  BY <1>1, RankedRows
<1>3. /\ DOMAIN group = DOMAIN ranked /\ group \in [DOMAIN group -> Range(group)]
      /\ \A i \in DOMAIN ranked : group[i].count = ranked[i].count
  BY DEF GroupOf, BuildGroup, Range
<1>. HIDE DEF counts, ranked, group
<1>4. \A i \in 1..m : ranked[i].count \in Nat \ {0}
  <2>1. \A j \in 1..n : counts[j].count \in Int
    BY <1>1 DEF Counted
  <2>. QED
    BY <1>2, <2>1
<1>. QED
  BY <1>2, <1>3, <1>4 DEF IsGroup, group

-------------------------------------------------------------------------------
(***************************************************************************)
(* The rates of a stay                                                     *)
(***************************************************************************)

\* The rates of a property, and the beds of their rooms.
RatesRead(rates, capacity) ==
  /\ IsFiniteSet(rates)
  /\ \A r \in rates : r.occupancy \in Int /\ r.since \in Int /\ r.minNights \in Int \cup {None}
  /\ \A r \in rates : r.room \in DOMAIN capacity
  /\ \A room \in DOMAIN capacity : capacity[room] \in Nat \ {0}

LEMMA FiledRatesRead ==
  ASSUME NEW rates, NEW capacity, RatesAreRead(rates, capacity)
  PROVE  RatesRead(rates, capacity)
BY DEF RatesAreRead, RatesRead

\* Of some rates there is one that fits best: the rate taken is on file.
LEMMA RateIsOnFile ==
  ASSUME NEW rows, IsFiniteSet(rows), \A r \in rows : r.occupancy \in Int /\ r.since \in Int,
         NEW guests, NEW presentation
  PROVE  RateForOccupancy(rows, guests, presentation) \in Holds(rows, guests) \cup {None}
<1>. DEFINE fit == Holds(rows, guests)
            smallest == {r \in fit : \A other \in fit : r.occupancy <= other.occupancy}
            tighter == {xy \in fit \X fit : xy[1].occupancy <= xy[2].occupancy}
            kept == {xy \in smallest \X smallest : ~Supersedes(xy[2], xy[1], presentation)}
<1>1. fit \in SUBSET rows /\ IsFiniteSet(fit)
  BY FS_Subset DEF Holds
<1>2. CASE fit = {}
  BY <1>2 DEF RateForOccupancy
<1>3. CASE fit # {}
  <2>1. /\ \A r \in fit : r.occupancy \in Int /\ r.since \in Int
    BY <1>1
  <2>2. \E x \in fit : \A y \in fit : x = y \/ <<x, y>> \in tighter
    <3>1. \A x, y \in fit : <<x, y>> \in tighter <=> x.occupancy <= y.occupancy
      OBVIOUS
    <3>. HIDE DEF fit, tighter
    <3>2. \A x, y \in fit : x # y => <<x, y>> \in tighter \/ <<y, x>> \in tighter
      BY <2>1, <3>1
    <3>3. ASSUME NEW x \in fit, NEW y \in fit, NEW z \in fit,
                 <<x, y>> \in tighter, <<y, z>> \in tighter
          PROVE  <<x, z>> \in tighter
      <4>1. x.occupancy \in Int /\ y.occupancy \in Int /\ z.occupancy \in Int
        BY <2>1
      <4>2. x.occupancy <= y.occupancy /\ y.occupancy <= z.occupancy
        BY <3>1, <3>3
      <4>3. x.occupancy <= z.occupancy
        BY <4>1, <4>2
      <4>. QED
        BY <3>1, <4>3
    <3>4. Orders(tighter, fit)
      BY <1>1, <1>3, <3>2, <3>3 DEF Orders
    <3>. QED
      BY <3>4, LeastOfAll
  <2>3. smallest # {}
    <3>1. PICK x \in fit : \A y \in fit : x = y \/ <<x, y>> \in tighter
      BY <2>2
    <3>2. ASSUME NEW y \in fit PROVE x.occupancy <= y.occupancy
      <4>1. <<x, y>> \in tighter <=> x.occupancy <= y.occupancy
        OBVIOUS
      <4>2. x.occupancy \in Int
        BY <2>1
      <4>. HIDE DEF tighter, fit
      <4>. QED
        BY <3>1, <4>1, <4>2
    <3>. QED
      BY <3>2
  <2>4. IsFiniteSet(smallest) /\ smallest \in SUBSET fit
    BY <1>1, FS_Subset
  <2>5. \E x \in smallest : \A y \in smallest : x = y \/ <<x, y>> \in kept
    <3>. DEFINE ours(x) == x.currency = presentation
    <3>1. \A x, y \in smallest :
            <<x, y>> \in kept <=> IF ours(x) # ours(y) THEN ~ours(y) ELSE y.since <= x.since
      <4>1. \A x, y \in smallest :
              Supersedes(y, x, presentation) <=> IF ours(x) # ours(y) THEN ours(y) ELSE y.since > x.since
        BY DEF Supersedes
      <4>2. \A x, y \in smallest : x.since \in Int /\ y.since \in Int
        BY <2>1, <2>4
      <4>3. \A x, y \in smallest : <<x, y>> \in kept <=> ~Supersedes(y, x, presentation)
        OBVIOUS
      <4>. HIDE DEF smallest, kept, ours
      <4>4. ASSUME NEW x \in smallest, NEW y \in smallest
            PROVE  ~(y.since > x.since) <=> y.since <= x.since
        BY <4>2
      <4>5. ASSUME NEW x \in smallest, NEW y \in smallest
            PROVE  <<x, y>> \in kept <=> IF ours(x) # ours(y) THEN ~ours(y) ELSE y.since <= x.since
        BY <4>1, <4>3, <4>4
      <4>. QED
        BY <4>5
    <3>2. \A x \in smallest : x.since \in Int
      BY <2>1, <2>4
    <3>. HIDE DEF smallest, kept
    <3>3. \A x, y \in smallest : x # y => <<x, y>> \in kept \/ <<y, x>> \in kept
      BY <3>1, <3>2
    <3>4. \A x, y, z \in smallest : <<x, y>> \in kept /\ <<y, z>> \in kept => <<x, z>> \in kept
      BY <3>1, <3>2
    <3>5. Orders(kept, smallest)
      BY <2>3, <2>4, <3>3, <3>4 DEF Orders
    <3>. QED
      BY <3>5, LeastOfAll
  <2>6. \E x \in smallest : \A y \in smallest : ~Supersedes(y, x, presentation)
    <3>1. PICK x \in smallest : \A y \in smallest : x = y \/ <<x, y>> \in kept
      BY <2>5
    <3>2. ~Supersedes(x, x, presentation)
      BY <2>1, <2>4 DEF Supersedes
    <3>. QED
      BY <3>1, <3>2
  <2>7. RateForOccupancy(rows, guests, presentation)
          = CHOOSE r \in smallest : \A other \in smallest : ~Supersedes(other, r, presentation)
    BY <1>3 DEF RateForOccupancy
  <2>. HIDE DEF smallest, kept
  <2>. QED
    BY <1>1, <2>4, <2>6, <2>7
<1>. QED
  BY <1>2, <1>3

\* A rate that a room may be sold at for a night: its residency's, in force, and
\* for as many guests.
FitFor(rates, residence, night, guests) ==
  {r \in rates : /\ r.residence = residence /\ r.since <= night /\ night <= r.until
                 /\ r.occupancy >= guests}

LEMMA RateOfNight ==
  ASSUME NEW rates, NEW capacity, RatesRead(rates, capacity),
         NEW residence, NEW night, NEW guests, NEW presentation
  PROVE  /\ RateFor(rates, residence, night, guests, presentation) \in rates \cup {None}
         /\ RateFor(rates, residence, night, guests, presentation)
              \in FitFor(rates, residence, night, guests) \cup {None}
<1>. DEFINE rows == {r \in rates : r.residence = residence /\ r.since <= night /\ night <= r.until}
<1>1. rows \in SUBSET rates /\ IsFiniteSet(rows)
  BY FS_Subset DEF RatesRead
<1>2. \A r \in rows : r.occupancy \in Int /\ r.since \in Int
  BY <1>1 DEF RatesRead
<1>3. RateFor(rates, residence, night, guests, presentation)
        = RateForOccupancy(rows, guests, presentation)
  BY DEF RateFor
<1>4. /\ Holds(rows, guests) = FitFor(rates, residence, night, guests)
      /\ Holds(rows, guests) \in SUBSET rates
  BY DEF Holds, FitFor
<1>. HIDE DEF rows
<1>5. RateForOccupancy(rows, guests, presentation) \in Holds(rows, guests) \cup {None}
  BY <1>1, <1>2, RateIsOnFile
<1>. QED
  BY <1>3, <1>4, <1>5

-------------------------------------------------------------------------------
(***************************************************************************)
(* The rooms of a group                                                    *)
(***************************************************************************)

\* Travellers are counted, whoever is counted.
LEMMA HeadsCounted ==
  ASSUME NEW g, NEW group, IsGroup(group, g), NEW K \in SUBSET DOMAIN group
  PROVE  Heads(RowsAt(group, K)) \in Nat
<1>. DEFINE rows == RowsAt(group, K)
            counts == [i \in DOMAIN rows |-> rows[i].count]
<1>1. /\ group \in Seq(Range(group)) /\ \A i \in DOMAIN group : group[i].count \in Nat
  BY DEF IsGroup
<1>2. rows \in Seq(Range(group)) /\ Range(rows) = {group[i] : i \in K}
  BY <1>1, ListKept
<1>. HIDE DEF rows
<1>3. \A i \in DOMAIN rows : rows[i].count \in Nat
  <2>1. \A i \in DOMAIN rows : rows[i] \in Range(rows)
    BY DEF Range
  <2>. QED
    BY <1>1, <1>2, <2>1
<1>4. PICK m \in Nat : DOMAIN rows = 1..m
  BY <1>2
<1>5. /\ DOMAIN counts = 1..m /\ Integral(counts, 1..m) /\ IsFiniteSet(1..m)
      /\ \A i \in 1..m : counts[i] \in Nat
  <2>1. DOMAIN counts = 1..m /\ \A i \in DOMAIN counts : counts[i] \in Nat
    BY <1>3, <1>4
  <2>2. IsFiniteSet(1..m)
    BY FS_Interval
  <2>. HIDE DEF counts
  <2>. QED
    BY <2>1, <2>2 DEF Integral
<1>6. Heads(rows) = Total(counts)
  BY DEF Heads
<1>. HIDE DEF counts
<1>7. Total(counts) = SumFunctionOnSet(counts, 1..m)
  BY <1>5, TotalIsSum
<1>8. SumFunctionOnSet(counts, 1..m) \in Nat
  BY <1>5, SumIsNat
<1>. QED
  BY <1>6, <1>7, <1>8 DEF rows

LEMMA HeadcountsAreNumbers ==
  ASSUME NEW g, NEW group, IsGroup(group, g), NEW residence
  PROVE  /\ Headcount(group, residence) \in Nat
         /\ CountOf(group, residence, "child") \in Nat
         /\ Occupants(group, residence) \in Int
<1>. DEFINE K == {i \in DOMAIN group : group[i].residence = residence}
            L == {i \in DOMAIN group : group[i].residence = residence /\ group[i].type = "child"}
<1>1. Headcount(group, residence) = Heads(RowsAt(group, K))
  BY DEF Headcount, Kept
<1>2. CountOf(group, residence, "child") = Heads(RowsAt(group, L))
  BY DEF CountOf, Kept
<1>3. K \in SUBSET DOMAIN group /\ L \in SUBSET DOMAIN group
  OBVIOUS
<1>. HIDE DEF K, L
<1>4. Heads(RowsAt(group, K)) \in Nat /\ Heads(RowsAt(group, L)) \in Nat
  BY <1>3, HeadsCounted
<1>. QED
  BY <1>1, <1>2, <1>4 DEF Occupants

LEMMA PlanIsAList ==
  ASSUME NEW pax \in Int, NEW capacity \in Nat \ {0}
  PROVE  \E k \in Nat : DOMAIN RoomPlan(pax, capacity) = 1..k
<1>1. PICK c \in Int : c = Ceiling(pax, capacity)
  BY DEF Ceiling
<1>2. DOMAIN RoomPlan(pax, capacity) = 1..c
  BY <1>1 DEF RoomPlan, RoomsRequired
<1>3. CASE c >= 0
  BY <1>2, <1>3
<1>4. CASE c < 0
  <2>1. 1..c = 1..0
    BY <1>4
  <2>. QED
    BY <1>2, <2>1, 0 \in Nat
<1>. QED
  BY <1>3, <1>4

\* Every room of a group is one of a list of rooms.
LEMMA RoomingIsOfLists ==
  ASSUME NEW g, NEW group, IsGroup(group, g), NEW capacity \in Nat \ {0}, NEW sharing,
         NEW residence \in Residences(group)
  PROVE  \E k \in Nat : DOMAIN Rooming(group, capacity, PricedFor(group, sharing))[residence] = 1..k
<1>. DEFINE occupants == PricedFor(group, sharing)
            heads == IF residence \in DOMAIN occupants THEN occupants[residence]
                     ELSE Headcount(group, residence)
<1>1. Rooming(group, capacity, occupants)[residence] = RoomPlan(heads, capacity)
  BY DEF Rooming
<1>2. heads \in Int
  BY HeadcountsAreNumbers DEF PricedFor
<1>. HIDE DEF heads
<1>. QED
  BY <1>1, <1>2, PlanIsAList

\* The room-nights of a stay are rooms at rates on file, or at none.
SlotsRead(slots, rates) ==
  \E T : slots \in Seq(T) /\ \A s \in T : s.rate \in rates \cup {None}

LEMMA RoomNightsRead ==
  ASSUME NEW rates, NEW capacity, RatesRead(rates, capacity), NEW room \in DOMAIN capacity,
         NEW stay, stay.nights \in Seq(Int), NEW g, IsGroup(stay.group, g)
  PROVE  SlotsRead(RoomNights(rates, stay, capacity[room]), rates)
<1>. DEFINE beds == capacity[room]
            group == stay.group
            sharing == ChildSharing(rates, stay, beds)
            rooming == Rooming(group, beds, PricedFor(group, sharing))
            K == {i \in DOMAIN [x \in DOMAIN group |-> x] :
                    \A j \in 1..[x \in DOMAIN group |-> x][i] - 1 :
                      group[j].residence # group[[x \in DOMAIN group |-> x][i]].residence}
            ranked == RowsAt([x \in DOMAIN group |-> x], K)
            children(residence) ==
              ChildrenPerRoom(IF residence \in sharing THEN CountOf(group, residence, "child") ELSE 0,
                              Len(rooming[residence]))
            slot(residence, night, n) ==
              [residence |-> residence, night |-> night, guests |-> rooming[residence][n],
               children |-> children(residence)[n],
               rate |-> RateFor(rates, residence, night, rooming[residence][n], stay.presentation)]
            ofNight(residence, night) ==
              [n \in DOMAIN rooming[residence] |-> slot(residence, night, n)]
            ofResidence(residence) ==
              FlattenSeq([n \in DOMAIN stay.nights |-> ofNight(residence, stay.nights[n])])
            T == UNION {Range(ofNight(residence, night)) :
                          residence \in Residences(group), night \in Range(stay.nights)}
<1>1. RoomNights(rates, stay, beds)
        = FlattenSeq([i \in DOMAIN ranked |-> ofResidence(group[ranked[i]].residence)])
  BY Zenon DEF RoomNights, Kept
<1>2. K \in SUBSET DOMAIN group
  OBVIOUS
<1>. HIDE DEF K, sharing
<1>3. ranked \in Seq(DOMAIN group)
  <2>1. [x \in DOMAIN group |-> x] \in Seq(DOMAIN group)
    BY DEF IsGroup
  <2>2. K \in SUBSET DOMAIN [x \in DOMAIN group |-> x]
    BY <1>2
  <2>. QED
    BY <2>1, <2>2, ListKept
<1>4. beds \in Nat \ {0}
  BY DEF RatesRead
<1>. HIDE DEF ranked, beds, children
<1>5. ASSUME NEW residence \in Residences(group)
      PROVE  \E k \in Nat : DOMAIN rooming[residence] = 1..k
  BY <1>4, <1>5, RoomingIsOfLists
<1>. HIDE DEF rooming
<1>6. ASSUME NEW residence \in Residences(group), NEW night \in Range(stay.nights)
      PROVE  ofNight(residence, night) \in Seq(T)
  <2>1. PICK k \in Nat : DOMAIN rooming[residence] = 1..k
    BY <1>5
  <2>2. \A n \in 1..k : ofNight(residence, night)[n] \in Range(ofNight(residence, night))
    BY <2>1 DEF Range
  <2>3. Range(ofNight(residence, night)) \subseteq T
    OBVIOUS
  <2>4. ofNight(residence, night) = [n \in 1..k |-> slot(residence, night, n)]
    BY <2>1
  <2>. HIDE DEF T, slot
  <2>5. ofNight(residence, night) \in [1..k -> T]
    BY <2>2, <2>3, <2>4
  <2>. QED
    BY <2>5
<1>7. \A s \in T : s.rate \in rates \cup {None}
  <2>1. ASSUME NEW residence, NEW night, NEW s \in Range(ofNight(residence, night))
        PROVE  s.rate \in rates \cup {None}
    <3>1. PICK n \in DOMAIN rooming[residence] : s = slot(residence, night, n)
      BY <2>1 DEF Range
    <3>. QED
      BY <3>1, RateOfNight
  <2>2. \A s \in T : \E residence \in Residences(group), night \in Range(stay.nights) :
                       s \in Range(ofNight(residence, night))
    <3>. HIDE DEF ofNight
    <3>. QED
      OBVIOUS
  <2>. HIDE DEF T, ofNight
  <2>. QED
    BY <2>1, <2>2
<1>. HIDE DEF T, ofNight
<1>8. ASSUME NEW residence \in Residences(group) PROVE ofResidence(residence) \in Seq(T)
  <2>. DEFINE seqs == [n \in DOMAIN stay.nights |-> ofNight(residence, stay.nights[n])]
  <2>1. PICK n \in Nat : DOMAIN stay.nights = 1..n
    OBVIOUS
  <2>2. \A i \in DOMAIN stay.nights : stay.nights[i] \in Range(stay.nights)
    BY DEF Range
  <2>3. \A i \in DOMAIN stay.nights : ofNight(residence, stay.nights[i]) \in Seq(T)
    BY <1>6, <2>2
  <2>4. seqs \in [1..n -> Seq(T)]
    BY <2>1, <2>3
  <2>. HIDE DEF seqs
  <2>5. FlattenSeq(seqs) \in Seq(T)
    BY <2>4, Flattened
  <2>. QED
    BY <2>5 DEF seqs
<1>. HIDE DEF ofResidence
<1>9. FlattenSeq([i \in DOMAIN ranked |-> ofResidence(group[ranked[i]].residence)]) \in Seq(T)
  <2>. DEFINE seqs == [i \in DOMAIN ranked |-> ofResidence(group[ranked[i]].residence)]
  <2>1. PICK n \in Nat : DOMAIN ranked = 1..n
    BY <1>3
  <2>2. \A i \in DOMAIN ranked : group[ranked[i]].residence \in Residences(group)
    BY <1>3 DEF Residences
  <2>3. \A i \in DOMAIN ranked : ofResidence(group[ranked[i]].residence) \in Seq(T)
    BY <1>8, <2>2
  <2>4. seqs \in [1..n -> Seq(T)]
    BY <2>1, <2>3
  <2>. HIDE DEF seqs
  <2>5. FlattenSeq(seqs) \in Seq(T)
    BY <2>4, Flattened
  <2>. QED
    BY <2>5 DEF seqs
<1>. QED
  BY <1>1, <1>7, <1>9 DEF SlotsRead, beds

\* A stay refused as short is short.
LEMMA ShortIsShort ==
  ASSUME NEW rates, NEW capacity, RatesRead(rates, capacity), NEW slots, SlotsRead(slots, rates),
         NEW nights \in Int, None \notin Int,
         Refusal(slots, nights) # None, Refusal(slots, nights).why = "short"
  PROVE  Refusal(slots, nights).minNights \in Int /\ Refusal(slots, nights).minNights > nights
<1>. DEFINE K == {i \in DOMAIN slots : slots[i].rate = None \/ ~MeetsMinimumStay(nights, slots[i].rate)}
            refused == RowsAt(slots, K)
            first == Head(refused)
<1>1. Refusal(slots, nights)
        = IF refused = <<>> THEN None
          ELSE IF first.rate = None THEN [why |-> "unhousable"]
          ELSE [why |-> "short", minNights |-> first.rate.minNights]
  BY Zenon DEF Refusal, Kept
<1>2. PICK T : slots \in Seq(T) /\ \A s \in T : s.rate \in rates \cup {None}
  BY DEF SlotsRead
<1>3. K \in SUBSET DOMAIN slots /\ \A i \in K : slots[i].rate = None \/ ~MeetsMinimumStay(nights, slots[i].rate)
  OBVIOUS
<1>. HIDE DEF K
<1>4. refused \in Seq(T) /\ Range(refused) = {slots[i] : i \in K}
  BY <1>2, <1>3, ListKept
<1>. HIDE DEF refused
<1>5. refused # <<>> /\ first.rate # None /\ Refusal(slots, nights).minNights = first.rate.minNights
  <2>1. refused # <<>>
    BY <1>1
  <2>2. first.rate # None
    BY <1>1
  <2>. QED
    BY <1>1, <2>1, <2>2
<1>6. first \in T /\ first \in Range(refused)
  BY <1>4, <1>5 DEF Range
<1>7. ~MeetsMinimumStay(nights, first.rate) /\ first.rate \in rates
  BY <1>2, <1>3, <1>4, <1>5, <1>6
<1>8. first.rate.minNights \in Int \cup {None}
  BY <1>7 DEF RatesRead
<1>. HIDE DEF first
<1>. QED
  BY <1>5, <1>7, <1>8 DEF MeetsMinimumStay

LEMMA ImagesAreFinite ==
  ASSUME NEW S, IsFiniteSet(S), NEW f
  PROVE  IsFiniteSet({f[x] : x \in S})
<1>. DEFINE T == {f[x] : x \in S}
            g == [x \in S |-> f[x]]
<1>1. g \in Surjection(S, T)
  BY DEF Surjection
<1>. HIDE DEF g, T
<1>2. IsFiniteSet(T)
  BY <1>1, FS_Surjection
<1>. QED
  BY <1>2 DEF T

\* A stay is declined where every room it could have is sold for longer stays.
LEMMA DeclinedIsShort ==
  ASSUME NEW rates, NEW capacity, RatesRead(rates, capacity),
         NEW stay, stay.nights \in Seq(Int), NEW g, IsGroup(stay.group, g), None \notin Int,
         NEW requested, NEW fx,
         PriceStay(rates, capacity, stay, requested, fx).status = "declined"
  PROVE  LET priced == PriceStay(rates, capacity, stay, requested, fx)
         IN  priced.minNights \in Int /\ priced.minNights > Len(stay.nights)
<1>. DEFINE usable == RatesOf(rates, stay)
            plan == ResolvePlan(requested, PlansForAll(usable))
            onPlan == {r \in usable : r.plan = plan}
            of(room) == {r \in onPlan : r.room = room}
            attempt(room) == PriceRoomType(room, of(room), stay, capacity[room], fx)
            rooms == {r.room : r \in onPlan}
            attempts == {attempt(room) : room \in rooms}
            short == {a \in attempts : a.refusal # None /\ a.refusal.why = "short"}
            least == {a.refusal.minNights : a \in short}
            priced == PriceStay(rates, capacity, stay, requested, fx)
            nights == Len(stay.nights)
<1>1. priced = IF usable = {} THEN NoRoom("no_rates")
               ELSE IF plan = None THEN NoRoom("no_plan")
               ELSE CheapestRoom(attempts, plan, onPlan, stay.nights)
  BY DEF PriceStay
<1>2. usable \in SUBSET rates /\ onPlan \in SUBSET rates /\ \A room : of(room) \in SUBSET rates
  BY DEF RatesOf
<1>3. IsFiniteSet(onPlan)
  BY <1>2, FS_Subset DEF RatesRead
<1>4. nights \in Int
  BY LenProperties
<1>. HIDE DEF usable, plan, onPlan, of, nights
<1>5. priced.status # "declined" \/ priced = CheapestRoom(attempts, plan, onPlan, stay.nights)
  BY <1>1 DEF NoRoom
<1>6. priced = CheapestRoom(attempts, plan, onPlan, stay.nights)
  BY <1>5
<1>. HIDE DEF priced
<1>7. short # {} /\ priced.minNights = Min(least)
  <2>. HIDE DEF attempts, short
  <2>. DEFINE offers == {a \in attempts : a.refusal = None}
              cheapest == CHOOSE a \in offers : \A other \in offers : a.costed <= other.costed
              uncovered == {n \in Range(stay.nights) : \A r \in onPlan : n \notin r.since..r.until}
  <2>1. CheapestRoom(attempts, plan, onPlan, stay.nights)
          = IF offers # {}
            THEN [status |-> "priced", minNights |-> None, plan |-> plan, best |-> cheapest]
            ELSE IF short # {} THEN [NoRoom("declined") EXCEPT !.minNights = Min(least)]
            ELSE NoRoom(IF uncovered # {} THEN "season_gap" ELSE "unhousable")
    BY Zenon DEF CheapestRoom, short
  <2>. HIDE DEF offers, cheapest, uncovered, least
  <2>2. CASE offers # {}
    BY <1>6, <2>1, <2>2 DEF priced
  <2>3. CASE offers = {} /\ short = {}
    <3>1. priced = NoRoom(IF uncovered # {} THEN "season_gap" ELSE "unhousable")
      BY <1>6, <2>1, <2>3
    <3>. QED
      BY <3>1 DEF priced, NoRoom
  <2>4. CASE offers = {} /\ short # {}
    <3>1. priced = [NoRoom("declined") EXCEPT !.minNights = Min(least)]
      BY <1>6, <2>1, <2>4
    <3>. QED
      BY <2>4, <3>1 DEF NoRoom
  <2>. QED
    BY <2>2, <2>3, <2>4
<1>8. ASSUME NEW a \in short PROVE a.refusal.minNights \in Int /\ a.refusal.minNights > nights
  <2>1. PICK room \in rooms : a = attempt(room)
    OBVIOUS
  <2>. DEFINE slots == RoomNights(of(room), stay, capacity[room])
  <2>2. a.refusal = Refusal(slots, nights)
    BY <2>1 DEF PriceRoomType, RoomTypePriced, nights
  <2>3. a.refusal # None /\ a.refusal.why = "short"
    OBVIOUS
  <2>4. room \in DOMAIN capacity
    BY <1>2 DEF RatesRead
  <2>5. RatesRead(of(room), capacity)
    <3>1. IsFiniteSet(of(room))
      BY <1>2, FS_Subset DEF RatesRead
    <3>. QED
      BY <1>2, <3>1 DEF RatesRead
  <2>. HIDE DEF attempt, attempts, rooms, short
  <2>6. SlotsRead(slots, of(room))
    BY <2>4, <2>5, RoomNightsRead
  <2>. HIDE DEF slots
  <2>. QED
    BY <1>4, <2>2, <2>3, <2>5, <2>6, ShortIsShort
<1>9. IsFiniteSet(least) /\ least # {}
  <2>1. IsFiniteSet(rooms)
    <3>. DEFINE f == [r \in onPlan |-> r.room]
    <3>1. rooms = {f[r] : r \in onPlan}
      OBVIOUS
    <3>. HIDE DEF f, rooms
    <3>. QED
      BY <1>3, <3>1, ImagesAreFinite
  <2>2. IsFiniteSet(attempts)
    <3>. HIDE DEF attempt, rooms
    <3>. DEFINE f == [room \in rooms |-> attempt(room)]
    <3>1. attempts = {f[room] : room \in rooms}
      OBVIOUS
    <3>. HIDE DEF f, attempts
    <3>. QED
      BY <2>1, <3>1, ImagesAreFinite
  <2>3. IsFiniteSet(short)
    <3>. HIDE DEF attempts
    <3>1. short \in SUBSET attempts
      OBVIOUS
    <3>. HIDE DEF short
    <3>. QED
      BY <2>2, <3>1, FS_Subset
  <2>. HIDE DEF short
  <2>. DEFINE f == [a \in short |-> a.refusal.minNights]
  <2>4. least = {f[a] : a \in short}
    OBVIOUS
  <2>5. least # {}
    BY <1>7
  <2>. HIDE DEF f, least
  <2>. QED
    BY <2>3, <2>4, <2>5, ImagesAreFinite
<1>. HIDE DEF short
<1>10. Min(least) \in least
  <2>. DEFINE before == {xy \in least \X least : xy[1] <= xy[2]}
  <2>1. \A x \in least : x \in Int
    BY <1>8
  <2>2. Min(least) = CHOOSE x \in least : \A y \in least : x <= y
    BY Zenon DEF Min
  <2>. HIDE DEF least
  <2>3. \A x, y \in least : <<x, y>> \in before <=> x <= y
    OBVIOUS
  <2>. HIDE DEF before
  <2>4. Orders(before, least)
    <3>1. \A x, y \in least : x # y => <<x, y>> \in before \/ <<y, x>> \in before
      BY <2>1, <2>3
    <3>2. \A x, y, z \in least : <<x, y>> \in before /\ <<y, z>> \in before => <<x, z>> \in before
      BY <2>1, <2>3
    <3>. QED
      BY <1>9, <3>1, <3>2 DEF Orders
  <2>5. PICK x \in least : \A y \in least : x = y \/ <<x, y>> \in before
    BY <2>4, LeastOfAll
  <2>6. ASSUME NEW y \in least PROVE x <= y
    <3>1. x \in Int /\ (x = y \/ x <= y)
      BY <2>1, <2>3, <2>5
    <3>. QED
      BY <3>1
  <2>. QED
    BY <2>2, <2>6
<1>. QED
  BY <1>7, <1>8, <1>10 DEF priced, nights

-------------------------------------------------------------------------------
(***************************************************************************)
(* The options of a quote                                                  *)
(***************************************************************************)

\* A quote for a group, with the rates of every property it is slept at.
QuoteIsFiled(quote, catalogue) ==
  /\ \E g : IsGroup(GroupOf(quote, catalogue), g)
  /\ \A o \in Range(quote.options) : \A property \in SleptAt(o) :
       RatesRead(catalogue.rates[property], catalogue.capacity)

SameFields(quote, other) ==
  /\ quote.options = other.options /\ quote.segments = other.segments
  /\ quote.excursions = other.excursions /\ quote.cohorts = other.cohorts
  /\ quote.travellers = other.travellers /\ quote.paxCount = other.paxCount
  /\ quote.residence = other.residence /\ quote.requested = other.requested
  /\ quote.arrival = other.arrival /\ quote.departure = other.departure
  /\ DOMAIN quote = DOMAIN other

\* A quote is stored as it is typed, in a currency.
LEMMA StoredAsTyped ==
  ASSUME NEW quote, NEW refusals, QuoteIsRead(quote, refusals), NEW catalogue
  PROVE  SameFields(quote, CreateQuote(quote, catalogue))
<1>1. {"options", "segments", "excursions", "cohorts", "travellers", "paxCount", "residence",
       "requested", "arrival", "departure"} \subseteq DOMAIN quote
  BY DEF QuoteIsRead
<1>. QED
  BY <1>1 DEF CreateQuote, SameFields

LEMMA SameQuoteRead ==
  ASSUME NEW quote, NEW other, SameFields(quote, other), NEW refusals, NEW catalogue
  PROVE  /\ QuoteIsRead(quote, refusals) => QuoteIsRead(other, refusals)
         /\ GroupOf(quote, catalogue) = GroupOf(other, catalogue)
<1>1. QuoteIsRead(quote, refusals) => QuoteIsRead(other, refusals)
  BY DEF SameFields, QuoteIsRead
<1>2. CountsOf(quote) = CountsOf(other)
  BY DEF CountsOf, HeadcountSaysMore, SameFields
<1>3. GroupOf(quote, catalogue) = GroupOf(other, catalogue)
  BY <1>2 DEF GroupOf, BuildGroup
<1>. QED
  BY <1>1, <1>3

LEMMA AskedIsFiled ==
  ASSUME NEW asked \in OfferQuestions
  PROVE  LET quote == CreateQuote(asked.quote, asked.catalogue)
         IN  /\ SameFields(asked.quote, quote)
             /\ QuoteIsRead(quote, asked.refusals) /\ QuoteIsFiled(quote, asked.catalogue)
<1>. DEFINE quote == CreateQuote(asked.quote, asked.catalogue)
            catalogue == asked.catalogue
<1>1. QuoteIsRead(asked.quote, asked.refusals) /\ FilesAreRead(asked) /\ None \notin Int
  BY CostingAssumption
<1>2. SameFields(asked.quote, quote) /\ quote.options = asked.quote.options
  BY <1>1, StoredAsTyped DEF SameFields
<1>. HIDE DEF quote
<1>3. QuoteIsRead(quote, asked.refusals) /\ GroupOf(quote, catalogue) = GroupOf(asked.quote, catalogue)
  BY <1>1, <1>2, SameQuoteRead
<1>4. \E g : IsGroup(GroupOf(asked.quote, catalogue), g)
  <2>1. /\ GroupOf(asked.quote, catalogue) # None
        /\ \A c \in Range(CountsOf(asked.quote)) : catalogue.rank[c.residence] \in Int
    BY <1>1 DEF FilesAreRead
  <2>. QED
    BY <1>1, <2>1, GroupRead
<1>5. ASSUME NEW o \in Range(quote.options), NEW property \in SleptAt(o)
      PROVE  RatesRead(catalogue.rates[property], catalogue.capacity)
  <2>1. property \in UNION {SleptAt(x) : x \in Range(asked.quote.options)}
    BY <1>2
  <2>2. RatesAreRead(catalogue.rates[property], catalogue.capacity)
    BY <1>1, <2>1 DEF FilesAreRead
  <2>. QED
    BY <2>2, FiledRatesRead
<1>. QED
  BY <1>2, <1>3, <1>4, <1>5 DEF QuoteIsFiled, quote

LEMMA NightsAreDays ==
  ASSUME NEW a \in Int, NEW b \in Int
  PROVE  P!StayNights(a, b) \in Seq(Int)
<1>1. PICK c \in Int : c = b - a
  OBVIOUS
<1>2. P!StayNights(a, b) = [n \in 1..c |-> a + n - 1]
  BY <1>1 DEF P!StayNights
<1>3. CASE c >= 0
  BY <1>2, <1>3
<1>4. CASE c < 0
  <2>1. 1..c = 1..0
    BY <1>4
  <2>2. P!StayNights(a, b) \in [1..0 -> Int]
    BY <1>2, <2>1
  <2>. QED
    BY <2>2, 0 \in Nat
<1>. QED
  BY <1>3, <1>4

\* What is slept, leg by leg.
LegsRead(legs, n, o) ==
  /\ n \in Nat \ {0} /\ DOMAIN legs = 1..n /\ Len(legs) = n
  /\ \A i \in 1..n : legs[i].property \in SleptAt(o) /\ legs[i].nights \in Seq(Int)

LEMMA LegsAreRead ==
  ASSUME NEW quote, NEW refusals, QuoteIsRead(quote, refusals), NEW o \in Range(quote.options)
  PROVE  \E n : LegsRead(LegsOf(o, quote), n, o)
<1>. DEFINE legs == LegsOf(o, quote)
<1>1. /\ o.legs \in Seq(Range(o.legs))
      /\ \A leg \in Range(o.legs) : leg.seq \in Int /\ leg.checkIn \in Int /\ leg.checkOut \in Int
      /\ quote.arrival \in Int /\ quote.departure \in Int
  BY DEF QuoteIsRead, IsList
<1>2. CASE o.legs = <<>>
  <2>. DEFINE leg == [seq |-> 1, property |-> o.property, requested |-> quote.requested,
                      nights |-> P!StayNights(quote.arrival, quote.departure)]
  <2>1. legs = <<leg>>
    BY <1>2 DEF LegsOf
  <2>2. leg.nights \in Seq(Int)
    BY <1>1, NightsAreDays
  <2>3. leg.property \in SleptAt(o)
    BY <1>2 DEF SleptAt
  <2>. HIDE DEF leg, legs
  <2>4. DOMAIN legs = 1..1 /\ Len(legs) = 1 /\ \A i \in 1..1 : legs[i] = leg
    BY <2>1
  <2>5. LegsRead(legs, 1, o)
    BY <2>2, <2>3, <2>4 DEF LegsRead
  <2>. QED
    BY <2>5 DEF legs
<1>3. CASE o.legs # <<>>
  <2>. DEFINE rows == P!InOrder(o.legs)
  <2>1. PICK n \in Nat \ {0} : n = Len(o.legs) /\ DOMAIN o.legs = 1..n
    BY <1>1, <1>3
  <2>2. Legs(o.legs, n)
    <3>1. \A i \in 1..n : o.legs[i] \in Range(o.legs)
      BY <2>1 DEF Range
    <3>. QED
      BY <1>1, <2>1, <3>1 DEF Legs
  <2>3. Legs(rows, n) /\ rows \in Seq(Range(o.legs))
    BY <2>2, OrderKeepsLegs
  <2>4. legs = [i \in DOMAIN rows |->
                  [seq |-> rows[i].seq, property |-> rows[i].property,
                   requested |-> IF rows[i].requested = None THEN quote.requested ELSE rows[i].requested,
                   nights |-> P!NightsOf(rows[i])]]
    BY <1>3 DEF LegsOf
  <2>. HIDE DEF rows, legs
  <2>5. DOMAIN rows = 1..n /\ \A i \in 1..n : rows[i] \in Range(o.legs)
    BY <2>3 DEF Legs
  <2>6. ASSUME NEW i \in 1..n PROVE legs[i].property \in SleptAt(o) /\ legs[i].nights \in Seq(Int)
    <3>1. legs[i].property = rows[i].property /\ legs[i].nights = P!NightsOf(rows[i])
      BY <2>4, <2>5
    <3>2. rows[i].property \in SleptAt(o)
      BY <1>3, <2>5 DEF SleptAt
    <3>3. rows[i].checkIn \in Int /\ rows[i].checkOut \in Int
      BY <1>1, <2>5
    <3>4. P!NightsOf(rows[i]) \in Seq(Int)
      BY <3>3, NightsAreDays DEF P!NightsOf
    <3>. QED
      BY <3>1, <3>2, <3>4
  <2>7. DOMAIN legs = 1..n /\ Len(legs) = n
    BY <2>4, <2>5
  <2>8. LegsRead(legs, n, o)
    BY <2>6, <2>7 DEF LegsRead
  <2>. QED
    BY <2>8 DEF legs
<1>. QED
  BY <1>2, <1>3

\* What an option of a quote comes to.
OutcomeOf(o, quote, catalogue) ==
  LET group == GroupOf(quote, catalogue)
  IN  PriceOption(o, quote, group, JourneyOf(quote, group, catalogue),
                  ActivitiesOf(quote, group, catalogue), catalogue)

\* It is priced for what its legs sleep, or dropped for a leg that cannot be sold.
OutcomeTold(outcome, o, quote) ==
  /\ outcome.option = o.id
  /\ outcome.status \in {"priced", "dropped"}
  /\ outcome.status = "priced" =>
       outcome.nights = FlattenSeq([i \in DOMAIN LegsOf(o, quote) |-> LegsOf(o, quote)[i].nights])
  /\ outcome.status = "dropped" => outcome.warned \/ \E d \in outcome.declined : d.property \in SleptAt(o)
  /\ \A d \in outcome.declined : outcome.status = "dropped" /\ d.needs > d.nights

LEMMA LegIsItsStay ==
  ASSUME NEW priced, NEW leg, NEW o, NEW quote, NEW group, NEW catalogue
  PROVE  CostedLeg(priced, leg, o, quote, group, catalogue).priced = priced
<1>1. CASE priced.status # "priced"
  BY <1>1 DEF CostedLeg
<1>2. CASE priced.status = "priced"
  BY <1>2 DEF CostedLeg
<1>. QED
  BY <1>1, <1>2

LEMMA DropTold ==
  ASSUME NEW quote, NEW catalogue, QuoteIsFiled(quote, catalogue), None \notin Int,
         NEW o \in Range(quote.options), NEW legs, NEW n, LegsRead(legs, n, o), NEW costed,
         \A i \in 1..n : costed[i] = PriceLeg(legs[i], o, quote, GroupOf(quote, catalogue), catalogue),
         \E i \in DOMAIN legs : costed[i].priced.status # "priced"
  PROVE  LET drop == DropOption(o, legs, costed)
         IN  /\ drop.option = o.id /\ drop.status = "dropped"
             /\ drop.warned \/ \E d \in drop.declined : d.property \in SleptAt(o)
             /\ \A d \in drop.declined : d.needs > d.nights
<1>. DEFINE first == CHOOSE i \in DOMAIN legs :
                       /\ costed[i].priced.status # "priced"
                       /\ \A j \in 1..i - 1 : costed[j].priced.status = "priced"
            worst == costed[first].priced
            drop == DropOption(o, legs, costed)
            leg == legs[first]
<1>1. n \in Nat \ {0} /\ DOMAIN legs = 1..n /\ Len(legs) = n
  BY DEF LegsRead
<1>2. first \in 1..n /\ worst.status # "priced"
  <2>1. \E i \in 1..n : costed[i].priced.status # "priced"
    BY <1>1
  <2>2. PICK i \in 1..n : costed[i].priced.status # "priced" /\ \A j \in 1..i - 1 : costed[j].priced.status = "priced"
    <3>. DEFINE Q == {i \in 1..n : costed[i].priced.status # "priced"}
    <3>1. Q \subseteq Nat /\ Q # {}
      BY <2>1
    <3>2. PICK i \in Q : \A j \in Q : i <= j
      <4>. HIDE DEF Q
      <4>. QED
        BY <3>1, LeastNatural
    <3>3. i \in 1..n /\ costed[i].priced.status # "priced"
      OBVIOUS
    <3>4. ASSUME NEW j \in 1..i - 1 PROVE costed[j].priced.status = "priced"
      <4>1. j \in 1..n /\ j < i
        BY <1>1, <3>3
      <4>2. j \notin Q
        BY <1>1, <3>2, <3>3, <4>1
      <4>. QED
        BY <4>1, <4>2
    <3>. QED
      BY <3>3, <3>4
  <2>. QED
    BY <1>1, <2>2
<1>3. drop = [status |-> "dropped", option |-> o.id,
              declined |-> IF worst.status # "declined" THEN {}
                           ELSE {[property |-> leg.property, needs |-> worst.minNights,
                                  nights |-> Len(leg.nights)]},
              warned |-> n > 1 \/ worst.status # "declined"]
  BY <1>1 DEF DropOption
<1>. HIDE DEF first
<1>4. leg.property \in SleptAt(o) /\ leg.nights \in Seq(Int)
  BY <1>2 DEF LegsRead
<1>5. worst.status = "declined" => worst.minNights > Len(leg.nights)
  <2>. DEFINE group == GroupOf(quote, catalogue)
              stay == [nights |-> leg.nights, group |-> group, presentation |-> quote.presentation]
              fx == FxOn(catalogue, quote.arrival)
              rates == catalogue.rates[leg.property]
  <2>1. costed[first] = PriceLeg(leg, o, quote, group, catalogue)
    BY <1>2
  <2>2. worst = PriceStay(rates, catalogue.capacity, stay, leg.requested, fx)
    <3>. DEFINE priced == PriceStay(rates, catalogue.capacity, stay, leg.requested, fx)
    <3>1. PriceLeg(leg, o, quote, group, catalogue) = CostedLeg(priced, leg, o, quote, group, catalogue)
      BY Zenon DEF PriceLeg
    <3>. HIDE DEF priced, leg, group
    <3>2. costed[first].priced = priced
      BY <2>1, <3>1, LegIsItsStay
    <3>. QED
      BY <3>2 DEF priced
  <2>3. PICK g : IsGroup(group, g)
    BY DEF QuoteIsFiled
  <2>4. RatesRead(rates, catalogue.capacity)
    BY <1>4 DEF QuoteIsFiled
  <2>5. stay.nights = leg.nights /\ stay.group = group
    OBVIOUS
  <2>6. stay.nights \in Seq(Int) /\ IsGroup(stay.group, g)
    BY <1>4, <2>3, <2>5
  <2>. HIDE DEF worst, stay, rates, fx, group, leg
  <2>7. ASSUME worst.status = "declined" PROVE worst.minNights > Len(stay.nights)
    BY <2>2, <2>4, <2>6, <2>7, DeclinedIsShort
  <2>. QED
    BY <2>5, <2>7
<1>. HIDE DEF worst, leg, drop
<1>6. drop.option = o.id /\ drop.status = "dropped"
  BY <1>3
<1>7. CASE worst.status = "declined"
  <2>. DEFINE row == [property |-> leg.property, needs |-> worst.minNights, nights |-> Len(leg.nights)]
  <2>1. drop.declined = {row}
    BY <1>3, <1>7
  <2>2. row.property \in SleptAt(o) /\ row.needs > row.nights
    BY <1>4, <1>5, <1>7
  <2>. HIDE DEF row
  <2>. QED
    BY <1>6, <2>1, <2>2 DEF drop
<1>8. CASE worst.status # "declined"
  <2>1. drop.declined = {} /\ drop.warned
    BY <1>3, <1>8
  <2>. QED
    BY <1>6, <2>1 DEF drop
<1>. QED
  BY <1>7, <1>8

LEMMA OptionTold ==
  ASSUME NEW quote, NEW refusals, QuoteIsRead(quote, refusals), NEW catalogue,
         QuoteIsFiled(quote, catalogue), None \notin Int, NEW o \in Range(quote.options)
  PROVE  OutcomeTold(OutcomeOf(o, quote, catalogue), o, quote)
<1>. DEFINE group == GroupOf(quote, catalogue)
            journey == JourneyOf(quote, group, catalogue)
            activities == ActivitiesOf(quote, group, catalogue)
            legs == LegsOf(o, quote)
            costed == [i \in DOMAIN legs |-> PriceLeg(legs[i], o, quote, group, catalogue)]
            costs == OptionCosts(costed, quote, journey, activities, catalogue)
            offer == OfferOption(o, legs, costed, costs, quote, group, catalogue)
            drop == DropOption(o, legs, costed)
            outcome == OutcomeOf(o, quote, catalogue)
<1>1. PICK n : LegsRead(legs, n, o)
  BY LegsAreRead
<1>2. outcome = IF \E i \in DOMAIN legs : costed[i].priced.status # "priced" THEN drop ELSE offer
  BY Zenon DEF OutcomeOf, PriceOption, OptionOutcome
<1>3. \A i \in 1..n : costed[i] = PriceLeg(legs[i], o, quote, group, catalogue)
  BY <1>1 DEF LegsRead
<1>4. /\ offer.status = "priced" /\ offer.option = o.id /\ offer.declined = {}
      /\ offer.nights = FlattenSeq([i \in DOMAIN legs |-> legs[i].nights])
  BY DEF OfferOption
<1>. HIDE DEF offer, drop, costed, outcome
<1>5. CASE \E i \in DOMAIN legs : costed[i].priced.status # "priced"
  <2>1. /\ drop.option = o.id /\ drop.status = "dropped"
        /\ drop.warned \/ \E d \in drop.declined : d.property \in SleptAt(o)
        /\ \A d \in drop.declined : d.needs > d.nights
    BY <1>1, <1>3, <1>5, DropTold DEF drop
  <2>2. outcome = drop
    BY <1>2, <1>5
  <2>. QED
    BY <2>1, <2>2 DEF OutcomeTold, outcome
<1>6. CASE ~\E i \in DOMAIN legs : costed[i].priced.status # "priced"
  <2>1. outcome = offer
    BY <1>2, <1>6
  <2>. QED
    BY <1>4, <2>1 DEF OutcomeTold, outcome
<1>. QED
  BY <1>5, <1>6

\* An option is found by its id.
LEMMA OutcomesFound ==
  ASSUME NEW quote, NEW refusals, QuoteIsRead(quote, refusals), NEW catalogue,
         QuoteIsFiled(quote, catalogue), None \notin Int
  PROVE  LET options == Compute(quote, catalogue).options
         IN  /\ Range(options) = {OutcomeOf(o, quote, catalogue) : o \in Range(quote.options)}
             /\ \A o \in Range(quote.options) :
                  (CHOOSE r \in Range(options) : r.option = o.id) = OutcomeOf(o, quote, catalogue)
<1>. DEFINE options == Compute(quote, catalogue).options
            of(o) == OutcomeOf(o, quote, catalogue)
<1>1. options = [i \in DOMAIN quote.options |-> of(quote.options[i])]
  <2>1. Compute(quote, catalogue)
          = Computed(quote, GroupOf(quote, catalogue),
                     JourneyOf(quote, GroupOf(quote, catalogue), catalogue),
                     ActivitiesOf(quote, GroupOf(quote, catalogue), catalogue), catalogue)
    BY Zenon DEF Compute
  <2>2. \A group, journey, activities :
          Computed(quote, group, journey, activities, catalogue).options
            = [i \in DOMAIN quote.options |->
                 PriceOption(quote.options[i], quote, group, journey, activities, catalogue)]
    BY DEF Computed
  <2>. QED
    BY <2>1, <2>2 DEF OutcomeOf
<1>2. \A o \in Range(quote.options) : of(o).option = o.id
  <2>1. ASSUME NEW o \in Range(quote.options) PROVE OutcomeTold(of(o), o, quote)
    BY OptionTold
  <2>. HIDE DEF of
  <2>. QED
    BY <2>1 DEF OutcomeTold
<1>3. \A x, y \in Range(quote.options) : x.id = y.id => x = y
  BY DEF QuoteIsRead, Range
<1>. HIDE DEF options, of
<1>4. Range(options) = {of(o) : o \in Range(quote.options)}
  BY <1>1 DEF Range
<1>5. ASSUME NEW o \in Range(quote.options)
      PROVE  (CHOOSE r \in Range(options) : r.option = o.id) = of(o)
  <2>1. of(o) \in Range(options) /\ of(o).option = o.id
    BY <1>2, <1>4
  <2>2. \A r \in Range(options) : r.option = o.id => r = of(o)
    BY <1>2, <1>3, <1>4
  <2>. QED
    BY <2>1, <2>2
<1>. QED
  BY <1>4, <1>5 DEF options, of

\* What a movement is at fault for is none of what keeps a quote from being stored.
LEMMA FaultsOfDriving ==
  ASSUME NEW segments, NEW desk, NEW arrival, NEW pax
  PROVE  J!Journey(segments, desk, arrival, pax).faults
           \subseteq {"vehicle_not_suitable", "endpoints_missing", "route_not_on_file", "fuel_price_missing"}
<1>. DEFINE four == {"vehicle_not_suitable", "endpoints_missing", "route_not_on_file", "fuel_price_missing"}
            ordered == J!Sorted(segments, LAMBDA a, b : a.seq < b.seq)
            priced == [i \in DOMAIN ordered |-> J!PriceMovement(ordered[i], desk, arrival, pax)]
<1>1. ASSUME NEW segment, NEW on PROVE J!Drive(segment, desk, on).fault \subseteq four
  <2>. DEFINE road == J!FindRoad(desk.routes, segment.origin, segment.destination, on)
              price == J!FuelPriceOn(desk.fuel, segment.vehicle.fuel, on)
              wrong == IF J!VehicleIsSuitable(road.takes, segment.vehicle.type)
                       THEN {} ELSE {"vehicle_not_suitable"}
              charges == J!DriveCharges(segment, road, price)
  <2>1. J!Drive(segment, desk, on)
          = IF None \in {segment.origin, segment.destination} THEN J!Unpriced({"endpoints_missing"})
            ELSE IF road = None THEN J!Unpriced({"route_not_on_file"})
            ELSE IF price = None THEN J!Unpriced(wrong \cup {"fuel_price_missing"})
            ELSE [J!Nothing EXCEPT !.charges = charges, !.fault = wrong, !.road = road]
    BY Zenon DEF J!Drive
  <2>2. wrong \subseteq {"vehicle_not_suitable"}
    OBVIOUS
  <2>3. \A why : J!Unpriced(why).fault = why
    BY DEF J!Unpriced, J!Nothing
  <2>4. [J!Nothing EXCEPT !.charges = charges, !.fault = wrong, !.road = road].fault = wrong
    BY DEF J!Nothing
  <2>. HIDE DEF road, price, wrong, charges
  <2>5. J!Drive(segment, desk, on).fault
          \in {{"endpoints_missing"}, {"route_not_on_file"}, wrong \cup {"fuel_price_missing"}, wrong}
    BY <2>1, <2>3, <2>4
  <2>. QED
    BY <2>2, <2>5
<1>2. ASSUME NEW segment PROVE J!PriceMovement(segment, desk, arrival, pax).fault \subseteq four
  <2>. DEFINE on == IF segment.on = None THEN arrival ELSE segment.on
              tariff == J!TariffFor(segment, desk.tariffs, on)
              fare == J!Fare(segment, tariff, pax)
              drive == J!Drive(segment, desk, on)
  <2>1. J!PriceMovement(segment, desk, arrival, pax)
          = IF segment.mode \in J!NAMED_ONLY_MODES THEN [J!Nothing EXCEPT !.named = TRUE]
            ELSE IF segment.mode \notin J!PRICED_MODES \/ segment.kind \notin J!KINDS THEN J!Unpriced({})
            ELSE IF segment.vehicle # None THEN drive
            ELSE IF tariff = None THEN J!Unpriced({})
            ELSE [J!Nothing EXCEPT !.charges = fare]
    BY Zenon DEF J!PriceMovement
  <2>2. drive.fault \subseteq four
    BY <1>1
  <2>3. J!Unpriced({}).fault = {}
    BY DEF J!Unpriced, J!Nothing
  <2>4. [J!Nothing EXCEPT !.named = TRUE].fault = {} /\ [J!Nothing EXCEPT !.charges = fare].fault = {}
    BY DEF J!Nothing
  <2>. HIDE DEF on, tariff, fare, drive
  <2>5. J!PriceMovement(segment, desk, arrival, pax).fault \in {{}, drive.fault}
    BY <2>1, <2>3, <2>4
  <2>. QED
    BY <2>2, <2>5
<1>3. J!Journey(segments, desk, arrival, pax).faults = UNION {priced[i].fault : i \in DOMAIN priced}
  BY DEF J!Journey
<1>4. \A i \in DOMAIN priced : priced[i].fault \subseteq four
  BY <1>2
<1>. HIDE DEF priced, four
<1>. QED
  BY <1>3, <1>4 DEF four

LEMMA JourneyNeverBlocks ==
  ASSUME NEW segments, NEW legs, NEW desk, NEW arrival, NEW pax,
         J!TransportFaults(segments, legs) \cap J!BlockingTransport = {}
  PROVE  J!JourneyBlocks(segments, legs, J!Journey(segments, desk, arrival, pax))
           \cap ({"package", "itinerary"} \cup J!BlockingTransport) = {}
<1>1. J!Journey(segments, desk, arrival, pax).faults
        \subseteq {"vehicle_not_suitable", "endpoints_missing", "route_not_on_file", "fuel_price_missing"}
  BY FaultsOfDriving
<1>2. J!JourneyBlocks(segments, legs, J!Journey(segments, desk, arrival, pax))
        \subseteq {"vehicle_not_suitable", "endpoints_missing", "route_not_on_file", "fuel_price_missing",
                   "unpriced_transport"}
  BY <1>1 DEF J!JourneyBlocks
<1>. QED
  BY <1>2 DEF J!BlockingTransport

\* Only what was typed is scheduled, and so it fits the days of the trip as that did.
LEMMA ScheduledWasTyped ==
  ASSUME NEW excursions, IsList(excursions), NEW mandatory, NEW fares, NEW arrival, NEW group
  PROVE  Activities(excursions, mandatory, fares, arrival, group).scheduled \subseteq Range(excursions)
<1>. DEFINE selected == FirstSelections(excursions)
            K == {i \in DOMAIN selected : excursions[selected[i]].activity \in mandatory}
            included == RowsAt(selected, K)
<1>1. Activities(excursions, mandatory, fares, arrival, group).scheduled
        = {excursions[included[k]] : k \in DOMAIN included}
  BY DEF Activities, Kept
<1>2. selected \in Seq(DOMAIN excursions)
  <2>. DEFINE all == [i \in DOMAIN excursions |-> i]
              F == {i \in DOMAIN all : \A j \in 1..all[i] - 1 :
                                         excursions[j].activity # excursions[all[i]].activity}
  <2>1. selected = RowsAt(all, F)
    BY Zenon DEF FirstSelections, Kept
  <2>2. all \in Seq(DOMAIN excursions)
    <3>1. excursions \in Seq(Range(excursions))
      BY DEF IsList
    <3>. QED
      BY <3>1
  <2>3. F \in SUBSET DOMAIN all
    OBVIOUS
  <2>. HIDE DEF F, all, selected
  <2>. QED
    BY <2>1, <2>2, <2>3, ListKept
<1>3. K \in SUBSET DOMAIN selected
  OBVIOUS
<1>. HIDE DEF K, selected
<1>4. included \in Seq(DOMAIN excursions)
  BY <1>2, <1>3, ListKept
<1>. HIDE DEF included
<1>5. \A k \in DOMAIN included : included[k] \in DOMAIN excursions
  BY <1>4
<1>. QED
  BY <1>1, <1>5 DEF Range

LEMMA FewerStillFit ==
  ASSUME NEW arrival, NEW departure, NEW movements, NEW excursions, NEW some \in SUBSET excursions,
         P!Schedulable(arrival, departure, movements, excursions)
  PROVE  P!Schedulable(arrival, departure, movements, some)
BY DEF P!Schedulable, P!ProgrammeProblems

\* A package that is booked is slept from the arrival to the departure.
LEMMA TripIsSlept ==
  ASSUME NEW quote, NEW refusals, QuoteIsRead(quote, refusals), NEW o \in Range(quote.options),
         o.legs # <<>> => P!Bookable(o.legs, quote.arrival, quote.departure, <<>>)
  PROVE  FlattenSeq([i \in DOMAIN LegsOf(o, quote) |-> LegsOf(o, quote)[i].nights])
           = P!StayNights(quote.arrival, quote.departure)
<1>. DEFINE legs == LegsOf(o, quote)
            whole == P!StayNights(quote.arrival, quote.departure)
            slept == [i \in DOMAIN legs |-> legs[i].nights]
<1>1. /\ o.legs \in Seq(Range(o.legs))
      /\ \A leg \in Range(o.legs) : leg.seq \in Int /\ leg.checkIn \in Int /\ leg.checkOut \in Int
      /\ quote.arrival \in Int /\ quote.departure \in Int
  BY DEF QuoteIsRead, IsList
<1>2. CASE o.legs = <<>>
  <2>. DEFINE leg == [seq |-> 1, property |-> o.property, requested |-> quote.requested, nights |-> whole]
  <2>1. legs = <<leg>>
    BY <1>2 DEF LegsOf
  <2>2. DOMAIN legs = 1..1 /\ legs[1] = leg
    BY <2>1
  <2>. HIDE DEF leg, legs
  <2>3. slept = [i \in 1..1 |-> whole]
    <3>1. \A i \in 1..1 : legs[i].nights = whole
      BY <2>2 DEF leg
    <3>. QED
      BY <2>2, <3>1
  <2>4. whole \in Seq(Int)
    BY <1>1, NightsAreDays
  <2>. HIDE DEF whole, slept
  <2>5. slept \in [1..1 -> Seq(Int)] /\ 1 \in Nat \ {0}
    BY <2>3, <2>4
  <2>6. PICK g : Flattening(Int, slept, 1, g) /\ FlattenSeq(slept) = g[1]
    BY <2>5, FlattenUnfolds
  <2>7. g[1] = slept[1]
    BY <2>5, <2>6, FlatteningFacts
  <2>. QED
    BY <2>3, <2>6, <2>7 DEF slept, legs, whole
<1>3. CASE o.legs # <<>>
  <2>. DEFINE rows == P!InOrder(o.legs)
              S == Range(o.legs)
              minimum == <<>>
  <2>1. PICK n \in Nat \ {0} : n = Len(o.legs) /\ DOMAIN o.legs = 1..n
    BY <1>1, <1>3
  <2>2. Legs(o.legs, n)
    <3>1. \A i \in 1..n : o.legs[i] \in Range(o.legs)
      BY <2>1 DEF Range
    <3>. QED
      BY <1>1, <2>1, <3>1 DEF Legs
  <2>3. Legs(rows, n) /\ rows \in Seq(S)
    BY <2>2, OrderKeepsLegs
  <2>4. legs = [i \in DOMAIN rows |->
                  [seq |-> rows[i].seq, property |-> rows[i].property,
                   requested |-> IF rows[i].requested = None THEN quote.requested ELSE rows[i].requested,
                   nights |-> P!NightsOf(rows[i])]]
    BY <1>3 DEF LegsOf
  <2>5. ~Blocked(rows, quote.arrival, quote.departure, minimum)
    BY <1>3 DEF P!Bookable, P!PackageProblems, Blocked, P!BlockingFaults
  <2>6. \A seq \in DOMAIN minimum : minimum[seq] \in Int
    OBVIOUS
  <2>. HIDE DEF rows, legs, minimum, S, whole
  <2>7. Stays(rows, n) /\ Contiguous(rows, n, quote.arrival, quote.departure)
    BY <1>1, <2>1, <2>3, <2>5, <2>6, UnblockedIsTheTrip
  <2>8. FlattenSeq(SleptIn(rows)) = whole
    BY <1>1, <2>1, <2>7, ContiguousIsSlept DEF whole
  <2>9. slept = SleptIn(rows)
    BY <2>4 DEF SleptIn
  <2>. QED
    BY <2>8, <2>9 DEF legs, whole
<1>. QED
  BY <1>2, <1>3

\* The codes that keep a quote from being sent, one at a time.
LEMMA BlocksRead ==
  ASSUME NEW quote, NEW computed, NEW limits
  PROVE  LET blocks == ReadinessBlocks(quote, computed, limits)
             journey == J!JourneyBlocks(quote.segments, LongestPackage(quote), computed.journey)
         IN  /\ (\E o \in Range(computed.options) : o.warned) => "unpriced_option" \in blocks
             /\ Recommended(quote) = {} => "no_recommendation" \in blocks
             /\ Cardinality(Recommended(quote)) > 1 => "multiple_recommendations" \in blocks
             /\ (/\ Cardinality(Recommended(quote)) = 1
                 /\ \A r \in Recommended(quote), o \in PricedOptions(computed) : o.option # r.id)
                  => "recommendation_not_priced" \in blocks
             /\ "package" \in blocks =>
                  \/ "package" \in journey
                  \/ \E o \in Range(quote.options) :
                       o.legs # <<>> /\ ~P!Bookable(o.legs, quote.arrival, quote.departure, <<>>)
             /\ "itinerary" \in blocks =>
                  \/ "itinerary" \in journey
                  \/ ~P!Schedulable(quote.arrival, quote.departure, Movements(quote),
                                    computed.activities.scheduled)
             /\ blocks \cap J!BlockingTransport \subseteq journey
<1>. DEFINE blocks == ReadinessBlocks(quote, computed, limits)
            journey == J!JourneyBlocks(quote.segments, LongestPackage(quote), computed.journey)
<1>1. "unpriced_option" \in blocks <=>
        (\E o \in Range(computed.options) : o.warned) \/ "unpriced_option" \in journey
  BY DEF ReadinessBlocks
<1>2. "no_recommendation" \in blocks <=> Recommended(quote) = {} \/ "no_recommendation" \in journey
  BY DEF ReadinessBlocks
<1>3. "multiple_recommendations" \in blocks <=>
        Cardinality(Recommended(quote)) > 1 \/ "multiple_recommendations" \in journey
  BY DEF ReadinessBlocks
<1>4. "recommendation_not_priced" \in blocks <=>
        \/ /\ Cardinality(Recommended(quote)) = 1
           /\ \A r \in Recommended(quote), o \in PricedOptions(computed) : o.option # r.id
        \/ "recommendation_not_priced" \in journey
  BY DEF ReadinessBlocks
<1>5. "package" \in blocks <=>
        \/ "package" \in journey
        \/ \E o \in Range(quote.options) :
             o.legs # <<>> /\ ~P!Bookable(o.legs, quote.arrival, quote.departure, <<>>)
  BY DEF ReadinessBlocks
<1>6. "itinerary" \in blocks <=>
        \/ "itinerary" \in journey
        \/ ~P!Schedulable(quote.arrival, quote.departure, Movements(quote), computed.activities.scheduled)
  BY DEF ReadinessBlocks
<1>7. blocks \cap J!BlockingTransport \subseteq journey
  BY DEF ReadinessBlocks, J!BlockingTransport
<1>. HIDE DEF blocks, journey
<1>. QED
  BY <1>1, <1>2, <1>3, <1>4, <1>5, <1>6, <1>7 DEF blocks, journey

\* One option is recommended, and it is priced.
LEMMA OneIsRecommended ==
  ASSUME NEW quote, NEW refusals, QuoteIsRead(quote, refusals), NEW catalogue,
         QuoteIsFiled(quote, catalogue), None \notin Int, NEW limits,
         ReadinessBlocks(quote, Compute(quote, catalogue), limits) = {}
  PROVE  Cardinality({o \in Range(quote.options) :
                        o.recommended /\ OutcomeOf(o, quote, catalogue).status # "dropped"}) = 1
<1>. DEFINE computed == Compute(quote, catalogue)
            of(o) == OutcomeOf(o, quote, catalogue)
            chosen == {o \in Range(quote.options) : o.recommended /\ of(o).status # "dropped"}
            picked == Recommended(quote)
<1>1. IsFiniteSet(picked)
  <2>0. quote.options \in Seq(Range(quote.options))
    BY DEF QuoteIsRead, IsList
  <2>1. PICK n \in Nat : DOMAIN quote.options = 1..n
    BY <2>0, LenProperties
  <2>2. IsFiniteSet(1..n)
    BY FS_Interval
  <2>3. IsFiniteSet({quote.options[i] : i \in 1..n})
    <3>1. PICK U : U = 1..n
      OBVIOUS
    <3>2. IsFiniteSet({quote.options[i] : i \in U})
      BY <2>2, <3>1, ImagesAreFinite
    <3>. QED
      BY <3>1, <3>2
  <2>4. picked \in SUBSET {quote.options[i] : i \in 1..n}
    BY <2>1 DEF Recommended, Range
  <2>. QED
    BY <2>3, <2>4, FS_Subset
<1>2. /\ picked # {} /\ ~(Cardinality(picked) > 1)
      /\ ~(/\ Cardinality(picked) = 1
           /\ \A r \in picked, o \in PricedOptions(computed) : o.option # r.id)
  <2>. HIDE DEF computed, picked
  <2>1. ReadinessBlocks(quote, computed, limits) = {}
    BY DEF computed
  <2>. QED
    BY <2>1, BlocksRead DEF picked
<1>3. Cardinality(picked) = 1
  <2>1. Cardinality(picked) \in Nat
    BY <1>1, FS_CardinalityType
  <2>2. Cardinality(picked) # 0
    BY <1>1, <1>2, FS_EmptySet
  <2>. HIDE DEF picked
  <2>. QED
    BY <1>2, <2>1, <2>2
<1>4. PICK r \in picked, x \in PricedOptions(computed) : x.option = r.id
  BY <1>2, <1>3
<1>5. Range(computed.options) = {of(o) : o \in Range(quote.options)}
  BY OutcomesFound
<1>6. \A o \in Range(quote.options) : of(o).option = o.id
  <2>1. \A o \in Range(quote.options) : OutcomeTold(of(o), o, quote)
    BY OptionTold
  <2>. HIDE DEF of
  <2>. QED
    BY <2>1 DEF OutcomeTold
<1>7. \A o, y \in Range(quote.options) : o.id = y.id => o = y
  BY DEF QuoteIsRead, Range
<1>8. of(r).status = "priced" /\ r \in Range(quote.options)
  <2>1. x \in Range(computed.options) /\ x.status = "priced" /\ r \in Range(quote.options)
    BY DEF PricedOptions, Recommended
  <2>. HIDE DEF computed, of
  <2>2. PICK o \in Range(quote.options) : x = of(o)
    BY <1>5, <2>1
  <2>3. o = r
    BY <1>4, <1>6, <1>7, <2>1, <2>2
  <2>. QED
    BY <2>1, <2>2, <2>3
<1>9. \A y \in picked : y = r
  <2>1. PICK y : picked = {y}
    BY <1>1, <1>3, FS_Singleton
  <2>. QED
    BY <2>1
<1>10. picked = {o \in Range(quote.options) : o.recommended}
  BY DEF Recommended
<1>. HIDE DEF of, picked
<1>11. chosen = picked
  BY <1>8, <1>9, <1>10
<1>. QED
  BY <1>3, <1>11 DEF of

\* Nothing keeps back a quote that could be stored for its packages, days and transport.
LEMMA StoredFits ==
  ASSUME NEW asked \in OfferQuestions, Storable(asked.quote)
  PROVE  LET quote == CreateQuote(asked.quote, asked.catalogue)
             computed == Compute(quote, asked.catalogue)
         IN  /\ \A o \in Range(quote.options) :
                  o.legs # <<>> => P!Bookable(o.legs, quote.arrival, quote.departure, <<>>)
             /\ ReadinessBlocks(quote, computed, asked.limits)
                  \cap ({"package", "itinerary"} \cup J!BlockingTransport) = {}
<1>. DEFINE typed == asked.quote
            catalogue == asked.catalogue
            quote == CreateQuote(typed, catalogue)
            group == GroupOf(quote, catalogue)
            journey == JourneyOf(quote, group, catalogue)
            activities == ActivitiesOf(quote, group, catalogue)
            computed == Compute(quote, catalogue)
            blocks == ReadinessBlocks(quote, computed, asked.limits)
            found == J!JourneyBlocks(quote.segments, LongestPackage(quote), journey)
<1>1. SameFields(typed, quote) /\ QuoteIsRead(quote, asked.refusals)
  BY AskedIsFiled
<1>2. computed.journey = journey /\ computed.activities = activities
  <2>1. computed = Computed(quote, group, journey, activities, catalogue)
    BY Zenon DEF Compute
  <2>2. \A g, j, a : /\ Computed(quote, g, j, a, catalogue).journey = j
                     /\ Computed(quote, g, j, a, catalogue).activities = a
    BY DEF Computed
  <2>. QED
    BY <2>1, <2>2
<1>3. journey = J!Journey(quote.segments, catalogue, quote.arrival, Pax(group))
  BY DEF JourneyOf
<1>4. activities = Activities(quote.excursions, catalogue.mandatory, catalogue.fares, quote.arrival, group)
  BY DEF ActivitiesOf
<1>. HIDE DEF quote, group, journey, activities, computed
<1>5. ASSUME NEW o \in Range(quote.options), o.legs # <<>>
      PROVE  P!Bookable(o.legs, quote.arrival, quote.departure, <<>>)
  <2>1. PICK i \in DOMAIN typed.options : o = typed.options[i]
    BY <1>1 DEF SameFields, Range
  <2>2. i \in Packages(typed)
    BY <1>5, <2>1 DEF Packages
  <2>3. P!Bookable(typed.options[i].legs, typed.arrival, typed.departure, <<>>)
    BY <2>2 DEF Storable
  <2>. QED
    BY <1>1, <2>1, <2>3 DEF SameFields
<1>6. J!TransportFaults(quote.segments, LongestPackage(quote)) \cap J!BlockingTransport = {}
  <2>1. LongestPackage(typed) = LongestPackage(quote) /\ typed.segments = quote.segments
    BY <1>1 DEF LongestPackage, SameFields
  <2>. QED
    BY <2>1 DEF Storable
<1>7. P!Schedulable(quote.arrival, quote.departure, Movements(quote), Range(quote.excursions))
  <2>1. /\ Movements(typed) = Movements(quote) /\ typed.excursions = quote.excursions
        /\ typed.arrival = quote.arrival /\ typed.departure = quote.departure
    BY <1>1 DEF Movements, SameFields
  <2>. QED
    BY <2>1 DEF Storable
<1>8. P!Schedulable(quote.arrival, quote.departure, Movements(quote), activities.scheduled)
  <2>1. IsList(quote.excursions)
    BY <1>1 DEF QuoteIsRead
  <2>2. activities.scheduled \in SUBSET Range(quote.excursions)
    BY <1>4, <2>1, ScheduledWasTyped
  <2>. QED
    BY <1>7, <2>2, FewerStillFit
<1>9. found \cap ({"package", "itinerary"} \cup J!BlockingTransport) = {}
  BY <1>3, <1>6, JourneyNeverBlocks
<1>10. /\ "package" \in blocks =>
            \/ "package" \in found
            \/ \E o \in Range(quote.options) :
                 o.legs # <<>> /\ ~P!Bookable(o.legs, quote.arrival, quote.departure, <<>>)
       /\ "itinerary" \in blocks =>
            \/ "itinerary" \in found
            \/ ~P!Schedulable(quote.arrival, quote.departure, Movements(quote), activities.scheduled)
       /\ blocks \cap J!BlockingTransport \subseteq found
  BY <1>2, BlocksRead
<1>. HIDE DEF blocks, found
<1>11. blocks \cap ({"package", "itinerary"} \cup J!BlockingTransport) = {}
  BY <1>5, <1>8, <1>9, <1>10
<1>. QED
  BY <1>5, <1>11 DEF blocks, computed, quote

-------------------------------------------------------------------------------
(***************************************************************************)
(* The answer                                                              *)
(***************************************************************************)

\* The quote as it is stored, and the refusals on it before it is priced.
Stored(asked) == CreateQuote(asked.quote, asked.catalogue)
Entered(asked) == RemoveRefusal(DeclineByHand(asked.refusals, asked.declined, Stored(asked)), asked.withdrawn)

OfferTold(asked, result) ==
  LET computed == Compute(Stored(asked), asked.catalogue)
  IN  /\ Storable(asked.quote)
      /\ {"stored", "quote", "computed", "refusals", "blocks"} \subseteq DOMAIN result
      /\ result.quote = Stored(asked) /\ result.computed = computed
      /\ result.refusals = Reprice(Entered(asked), computed)
      /\ result.blocks = ReadinessBlocks(Stored(asked), computed, asked.limits)

\* The answer to an offer is what pricing the stored quote gives, and issuing it
\* changes none of it.
OfferInv ==
  question = "offer" =>
    /\ given \in OfferQuestions
    /\ answer = None \/ ~answer.stored \/ OfferTold(given, answer)

LEMMA OfferStep ==
  ASSUME OfferInv, [Next]_vars
  PROVE  OfferInv'
<1>. SUFFICES ASSUME question' = "offer" PROVE OfferInv'
  BY DEF OfferInv
<1>1. CASE RefuseOffer
  <2>1. answer' = [stored |-> FALSE] /\ question' = question /\ given' = given
    BY <1>1 DEF RefuseOffer, Answer
  <2>. QED
    BY <2>1 DEF OfferInv
<1>2. CASE AskOffer
  <2>1. /\ answer' = OfferAnswer(Stored(given), Compute(Stored(given), given.catalogue), Entered(given))
        /\ question' = question /\ given' = given /\ Storable(given.quote) /\ question = "offer"
    BY <1>2 DEF AskOffer, Answer, Stored, Entered
  <2>2. OfferTold(given, OfferAnswer(Stored(given), Compute(Stored(given), given.catalogue), Entered(given)))
    BY <2>1 DEF OfferTold, OfferAnswer
  <2>. QED
    BY <2>1, <2>2 DEF OfferInv
<1>3. CASE IssueOffer
  <2>1. PICK version : /\ answer' = [answer EXCEPT !.version = version]
                       /\ question' = question /\ given' = given /\ question = "offer"
                       /\ answer # None /\ answer.stored
    BY <1>3 DEF IssueOffer, Priced
  <2>2. OfferTold(given, answer)
    BY <2>1 DEF OfferInv
  <2>3. OfferTold(given, answer')
    BY <2>1, <2>2 DEF OfferTold
  <2>. QED
    BY <2>1, <2>3 DEF OfferInv
<1>4. CASE UNCHANGED vars
  BY <1>4 DEF OfferInv, vars
<1>5. CASE AskPackage \/ AskOrder \/ AskJourney \/ AskStay
  BY <1>5 DEF AskPackage, AskOrder, AskJourney, AskStay, Answer
<1>. QED
  BY <1>1, <1>2, <1>3, <1>4, <1>5 DEF Next

\* What is left on the document: what this pricing refuses, and what an agent has.
LEMMA RefusalsTold ==
  ASSUME NEW asked \in OfferQuestions, NEW computed
  PROVE  LET refusals == Reprice(Entered(asked), computed)
             engine == {r \in refusals : r.source = "engine"}
             kept == {r \in asked.refusals : r.source = "manual"} \ {asked.withdrawn}
         IN  /\ engine = ByEngine(Declined(computed))
             /\ kept \subseteq refusals
             /\ \A r \in refusals \ (engine \cup kept) :
                  /\ r.property = asked.declined
                  /\ \A o \in Range(Stored(asked).options) : o.property # r.property
<1>. DEFINE refusals == Reprice(Entered(asked), computed)
            engine == {r \in refusals : r.source = "engine"}
            kept == {r \in asked.refusals : r.source = "manual"} \ {asked.withdrawn}
            row == [source |-> "manual", property |-> asked.declined, needs |-> None, nights |-> None]
            offered == \E i \in DOMAIN Stored(asked).options : Stored(asked).options[i].property = asked.declined
            declined == IF offered THEN asked.refusals ELSE asked.refusals \cup {row}
<1>1. Entered(asked) = IF asked.withdrawn.source = "manual" THEN declined \ {asked.withdrawn} ELSE declined
  BY DEF Entered, RemoveRefusal, DeclineByHand
<1>2. \A r \in asked.refusals : r.source \in {"engine", "manual"}
  BY CostingAssumption DEF QuoteIsRead
<1>3. refusals = {r \in Entered(asked) : r.source # "engine"} \cup ByEngine(Declined(computed))
  BY DEF Reprice
<1>4. \A r \in ByEngine(Declined(computed)) : r.source = "engine"
  BY DEF ByEngine
<1>5. row.source = "manual" /\ row.property = asked.declined
  OBVIOUS
<1>6. ~offered => \A o \in Range(Stored(asked).options) : o.property # asked.declined
  BY DEF Range
<1>. HIDE DEF row, offered, refusals
<1>7. engine = ByEngine(Declined(computed))
  BY <1>3, <1>4
<1>8. kept \subseteq refusals
  BY <1>1, <1>3
<1>9. ASSUME NEW r \in refusals \ (engine \cup kept)
      PROVE  r.property = asked.declined /\ \A o \in Range(Stored(asked).options) : o.property # r.property
  <2>1. r \in Entered(asked) /\ r.source # "engine"
    BY <1>3, <1>4
  <2>2. r \in declined /\ ~(asked.withdrawn.source = "manual" /\ r = asked.withdrawn)
    BY <1>1, <2>1
  <2>3. r \notin asked.refusals
    BY <1>2, <2>1, <2>2
  <2>4. r = row /\ ~offered
    BY <2>2, <2>3
  <2>. QED
    BY <1>5, <1>6, <2>4
<1>. QED
  BY <1>7, <1>8, <1>9 DEF refusals

LEMMA OfferInvAccounts ==
  ASSUME OfferInv
  PROVE  EveryOptionIsAccountedFor
<1>. SUFFICES ASSUME Priced PROVE EveryOptionIsAccountedFor
  BY DEF EveryOptionIsAccountedFor
<1>. DEFINE quote == answer.quote
            catalogue == given.catalogue
            of(o) == OutcomeOf(o, quote, catalogue)
            outcome(o) == CHOOSE r \in Range(answer.computed.options) : r.option = o.id
            dropped == {o \in Range(quote.options) : outcome(o).status = "dropped"}
            engine == {r \in answer.refusals : r.source = "engine"}
            kept == {r \in given.refusals : r.source = "manual"} \ {given.withdrawn}
<1>1. given \in OfferQuestions /\ OfferTold(given, answer)
  BY DEF OfferInv, Priced
<1>2. /\ Storable(given.quote) /\ quote = Stored(given) /\ answer.computed = Compute(quote, catalogue)
      /\ answer.refusals = Reprice(Entered(given), answer.computed)
      /\ answer.blocks = ReadinessBlocks(quote, answer.computed, given.limits)
  BY <1>1 DEF OfferTold
<1>3. QuoteIsRead(quote, given.refusals) /\ QuoteIsFiled(quote, catalogue) /\ None \notin Int
  BY <1>1, <1>2, AskedIsFiled, CostingAssumption DEF Stored
<1>. HIDE DEF quote, catalogue
<1>4. /\ Range(answer.computed.options) = {of(o) : o \in Range(quote.options)}
      /\ \A o \in Range(quote.options) : outcome(o) = of(o)
  BY <1>2, <1>3, OutcomesFound
<1>5. \A o \in Range(quote.options) : OutcomeTold(of(o), o, quote)
  BY <1>3, OptionTold
<1>6. /\ engine = ByEngine(Declined(answer.computed)) /\ kept \subseteq answer.refusals
      /\ \A r \in answer.refusals \ (engine \cup kept) :
           r.property = given.declined /\ \A o \in Range(quote.options) : o.property # r.property
  BY <1>1, <1>2, RefusalsTold
<1>7. /\ \A o \in Range(quote.options) :
           o.legs # <<>> => P!Bookable(o.legs, quote.arrival, quote.departure, <<>>)
      /\ answer.blocks \cap ({"package", "itinerary"} \cup J!BlockingTransport) = {}
  BY <1>1, <1>2, StoredFits DEF Stored, catalogue
<1>. HIDE DEF of, outcome
<1>8. dropped = {o \in Range(quote.options) : of(o).status = "dropped"}
  BY <1>4
<1>9. Declined(answer.computed) = UNION {of(o).declined : o \in Range(quote.options)}
  BY <1>4 DEF Declined
<1>. HIDE DEF dropped
<1>10. ASSUME NEW o \in dropped
       PROVE  "unpriced_option" \in answer.blocks \/ \E r \in engine : r.property \in SleptAt(o)
  <2>1. o \in Range(quote.options) /\ of(o).status = "dropped"
    BY <1>8
  <2>2. of(o).warned \/ \E d \in of(o).declined : d.property \in SleptAt(o)
    BY <1>5, <2>1 DEF OutcomeTold
  <2>3. CASE of(o).warned
    <3>1. \E x \in Range(answer.computed.options) : x.warned
      BY <1>4, <2>1, <2>3
    <3>. QED
      BY <1>2, <3>1, BlocksRead
  <2>4. CASE \E d \in of(o).declined : d.property \in SleptAt(o)
    <3>1. PICK d \in of(o).declined : d.property \in SleptAt(o)
      BY <2>4
    <3>2. d \in Declined(answer.computed)
      BY <1>9, <2>1
    <3>. DEFINE r == [source |-> "engine", property |-> d.property, needs |-> d.needs, nights |-> d.nights]
    <3>3. r \in engine
      BY <1>6, <3>2 DEF ByEngine
    <3>. QED
      BY <3>1, <3>3
  <2>. QED
    BY <2>2, <2>3, <2>4
<1>11. ASSUME NEW r \in engine
       PROVE  r.needs > r.nights /\ \E o \in dropped : r \in ByEngine(outcome(o).declined)
  <2>1. PICK d \in Declined(answer.computed) :
          r = [source |-> "engine", property |-> d.property, needs |-> d.needs, nights |-> d.nights]
    BY <1>6 DEF ByEngine
  <2>2. PICK o \in Range(quote.options) : d \in of(o).declined
    BY <1>9
  <2>3. of(o).status = "dropped" /\ d.needs > d.nights
    BY <1>5, <2>2 DEF OutcomeTold
  <2>4. r \in ByEngine(outcome(o).declined)
    BY <1>4, <2>1, <2>2 DEF ByEngine
  <2>. QED
    BY <1>8, <2>1, <2>2, <2>3, <2>4
<1>12. ASSUME answer.blocks = {}
       PROVE  /\ Cardinality({o \in Range(quote.options) : o.recommended /\ o \notin dropped}) = 1
              /\ \A o \in Range(quote.options) \ dropped :
                   outcome(o).nights = P!StayNights(quote.arrival, quote.departure)
  <2>0. ReadinessBlocks(quote, Compute(quote, catalogue), given.limits) = {}
    BY <1>2, <1>12
  <2>1. Cardinality({o \in Range(quote.options) : o.recommended /\ of(o).status # "dropped"}) = 1
    BY <1>3, <2>0, OneIsRecommended DEF of
  <2>2. {o \in Range(quote.options) : o.recommended /\ o \notin dropped}
          = {o \in Range(quote.options) : o.recommended /\ of(o).status # "dropped"}
    BY <1>8
  <2>3. ASSUME NEW o \in Range(quote.options) \ dropped
        PROVE  outcome(o).nights = P!StayNights(quote.arrival, quote.departure)
    <3>1. of(o).status = "priced"
      BY <1>5, <1>8 DEF OutcomeTold
    <3>2. of(o).nights = FlattenSeq([i \in DOMAIN LegsOf(o, quote) |-> LegsOf(o, quote)[i].nights])
      BY <1>5, <3>1 DEF OutcomeTold
    <3>3. FlattenSeq([i \in DOMAIN LegsOf(o, quote) |-> LegsOf(o, quote)[i].nights])
            = P!StayNights(quote.arrival, quote.departure)
      BY <1>3, <1>7, TripIsSlept
    <3>. QED
      BY <1>4, <3>2, <3>3
  <2>. QED
    BY <2>1, <2>2, <2>3
<1>. HIDE DEF engine, kept
<1>13. /\ \A o \in dropped :
            \/ "unpriced_option" \in answer.blocks
            \/ \E r \in engine : r.property \in SleptAt(o)
       /\ \A r \in engine : /\ r.needs > r.nights
                            /\ \E o \in dropped : r \in ByEngine(outcome(o).declined)
       /\ kept \subseteq answer.refusals
       /\ \A r \in answer.refusals \ (engine \cup kept) :
            r.property = given.declined /\ \A o \in Range(quote.options) : o.property # r.property
       /\ answer.blocks = {} =>
            /\ Cardinality({o \in Range(quote.options) : o.recommended /\ o \notin dropped}) = 1
            /\ \A o \in Range(quote.options) \ dropped :
                 outcome(o).nights = P!StayNights(quote.arrival, quote.departure)
       /\ answer.blocks \cap ({"package", "itinerary"} \cup J!BlockingTransport) = {}
  BY <1>6, <1>7, <1>10, <1>11, <1>12
<1>. QED
  BY <1>13, Zenon DEF EveryOptionIsAccountedFor, quote, outcome, dropped, engine, kept

\* Every option is priced for every night of the trip, or the document or what
\* keeps it back says why not, for any quote, rates, rooms and refusals.
THEOREM EveryOptionAccounted == Spec => []EveryOptionIsAccountedFor
<1>1. Init => OfferInv
  BY DEF Init, OfferInv
<1>. QED
  BY <1>1, OfferStep, OfferInvAccounts, PTL DEF Spec

-------------------------------------------------------------------------------
(***************************************************************************)
(* The beds of a stay                                                      *)
(***************************************************************************)

LEMMA Divided ==
  ASSUME NEW a \in Int, NEW d \in Nat \ {0}
  PROVE  \E q \in Int, r \in 0..(d - 1) : q = a \div d /\ r = a % d /\ a = d * q + r
<1>1. PICK q \in Int : q = a \div d
  OBVIOUS
<1>2. PICK r \in 0..(d - 1) : r = a % d
  OBVIOUS
<1>3. a = d * q + r
  BY <1>1, <1>2, Z3
<1>. QED
  BY <1>1, <1>2, <1>3

LEMMA Ordered ==
  ASSUME NEW c \in Nat \ {0}, NEW x \in Int, NEW y \in Int
  PROVE  /\ x <= y <=> c * x <= c * y
         /\ x < y <=> c * x + c <= c * y
OBVIOUS

LEMMA QuotientIs ==
  ASSUME NEW d \in Nat \ {0}, NEW x \in Int, NEW y \in 0..(d - 1), NEW a \in Int, a = d * x + y
  PROVE  a \div d = x
<1>1. PICK z \in Int, r \in 0..(d - 1) : z = a \div d /\ a = d * z + r
  BY Divided
<1>2. CASE z < x
  BY <1>1, <1>2, Ordered
<1>3. CASE x < z
  BY <1>1, <1>3, Ordered
<1>. QED
  BY <1>1, <1>2, <1>3

\* As many rooms as it takes: the full ones, and one for who is left.
LEMMA RoomsTaken ==
  ASSUME NEW pax \in Nat, NEW capacity \in Nat \ {0}
  PROVE  \E q \in Nat, r \in 0..(capacity - 1) :
           /\ q = pax \div capacity /\ r = pax % capacity
           /\ pax = capacity * q + r
           /\ RoomsRequired(pax, capacity) = q + IF r = 0 THEN 0 ELSE 1
<1>1. PICK q \in Int, r \in 0..(capacity - 1) :
        q = pax \div capacity /\ r = pax % capacity /\ pax = capacity * q + r
  BY Divided
<1>2. q \in Nat
  <2>1. SUFFICES ASSUME q < 0 PROVE FALSE
    BY <1>1
  <2>2. capacity * q + capacity <= capacity * 0
    BY <1>1, <2>1, Ordered
  <2>. QED
    BY <1>1, <2>2
<1>3. RoomsRequired(pax, capacity) = q + IF r = 0 THEN 0 ELSE 1
  <2>1. CASE r = 0
    <3>1. /\ -pax = capacity * (-q) + 0
          /\ -pax \in Int /\ -q \in Int /\ 0 \in 0..(capacity - 1)
      BY <1>1, <2>1
    <3>2. (-pax) \div capacity = -q
      BY <3>1, QuotientIs
    <3>3. RoomsRequired(pax, capacity) = -(-q)
      BY <3>2 DEF RoomsRequired, Ceiling
    <3>. QED
      BY <1>2, <2>1, <3>3
  <2>2. CASE r # 0
    <3>1. /\ -pax = capacity * (-q - 1) + (capacity - r)
          /\ -pax \in Int /\ -q - 1 \in Int /\ capacity - r \in 0..(capacity - 1)
      BY <1>1, <2>2
    <3>2. (-pax) \div capacity = -q - 1
      BY <3>1, QuotientIs
    <3>3. RoomsRequired(pax, capacity) = -(-q - 1)
      BY <3>2 DEF RoomsRequired, Ceiling
    <3>. QED
      BY <1>2, <2>2, <3>3
  <2>. QED
    BY <2>1, <2>2
<1>. QED
  BY <1>1, <1>2, <1>3

\* A plan has a bed for everybody, and none over.
IsPlan(plan, k, pax, capacity) ==
  /\ k \in Nat /\ plan \in [1..k -> 0..capacity]
  /\ SumFunctionOnSet(plan, 1..k) = pax
  /\ pax > 0 => k > 0

LEMMA PlanHoldsAll ==
  ASSUME NEW pax \in Nat, NEW capacity \in Nat \ {0}
  PROVE  \E k : IsPlan(RoomPlan(pax, capacity), k, pax, capacity)
<1>. DEFINE plan == RoomPlan(pax, capacity)
<1>1. PICK q \in Nat, r \in 0..(capacity - 1) :
        /\ q = pax \div capacity /\ r = pax % capacity
        /\ pax = capacity * q + r
        /\ RoomsRequired(pax, capacity) = q + IF r = 0 THEN 0 ELSE 1
  BY RoomsTaken
<1>0. PICK k \in Nat : k = q + IF r = 0 THEN 0 ELSE 1
  BY <1>1
<1>2. plan = [room \in 1..k |-> IF room * capacity <= pax THEN capacity ELSE r]
  BY <1>0, <1>1 DEF RoomPlan
<1>. HIDE DEF plan
<1>3. /\ pax = capacity * q + r /\ capacity \in Int
      /\ r = 0 => k = q
      /\ r # 0 => k = q + 1
  BY <1>0, <1>1
<1>4. \A room \in Int : room * capacity = capacity * room
  OBVIOUS
<1>5. ASSUME NEW room \in Int, room <= q PROVE room * capacity <= pax
  <2>1. capacity * room <= capacity * q
    BY <1>3, <1>5, Ordered
  <2>. QED
    BY <1>3, <1>4, <2>1
<1>6. (q + 1) * capacity > pax
  <2>1. (q + 1) * capacity = capacity * q + capacity
    BY <1>3
  <2>. QED
    BY <1>3, <2>1
<1>7. \A room \in 1..k : plan[room] = IF room <= q THEN capacity ELSE r
  <2>1. ASSUME NEW room \in 1..k, room <= q PROVE plan[room] = capacity
    BY <1>2, <1>5, <2>1
  <2>2. ASSUME NEW room \in 1..k, ~(room <= q) PROVE plan[room] = r
    <3>1. room = q + 1
      BY <1>3, <2>2
    <3>. QED
      BY <1>2, <1>6, <3>1
  <2>. QED
    BY <2>1, <2>2
<1>8. plan \in [1..k -> 0..capacity]
  <2>1. DOMAIN plan = 1..k /\ plan = [room \in 1..k |-> plan[room]]
    BY <1>2
  <2>2. \A room \in 1..k : plan[room] \in 0..capacity
    BY <1>3, <1>7
  <2>. QED
    BY <2>1, <2>2
<1>9. \A j \in Nat : IsFiniteSet(1..j) /\ Cardinality(1..j) = j
  BY FS_Interval
<1>10. SumFunctionOnSet(plan, 1..q) = capacity * q
  <2>1. \A room \in 1..q : plan[room] = capacity
    BY <1>3, <1>7
  <2>2. SumFunctionOnSet(plan, 1..q) = capacity * Cardinality(1..q)
    BY <1>3, <1>9, <2>1, SumOfConstant
  <2>. QED
    BY <1>3, <1>9, <2>2
<1>11. SumFunctionOnSet(plan, 1..k) = pax
  <2>1. CASE r = 0
    BY <1>3, <1>10, <2>1
  <2>2. CASE r # 0
    <3>1. k = q + 1 /\ q + 1 \in 1..k /\ (1..k) \ {q + 1} = 1..q
      BY <1>3, <2>2
    <3>2. Integral(plan, 1..k) /\ IsFiniteSet(1..k)
      BY <1>3, <1>7, <1>9 DEF Integral
    <3>3. SumFunctionOnSet(plan, 1..k) = plan[q + 1] + SumFunctionOnSet(plan, (1..k) \ {q + 1})
      BY <3>1, <3>2, SumTakes
    <3>4. plan[q + 1] = r
      BY <1>3, <1>7, <3>1
    <3>5. SumFunctionOnSet(plan, (1..k) \ {q + 1}) = capacity * q
      BY <1>10, <3>1
    <3>6. SumFunctionOnSet(plan, 1..k) = r + capacity * q
      BY <3>3, <3>4, <3>5
    <3>. QED
      BY <1>3, <3>6
  <2>. QED
    BY <2>1, <2>2
<1>12. pax > 0 => k > 0
  <2>1. CASE r = 0
    <3>1. q = 0 => capacity * q = 0
      OBVIOUS
    <3>. QED
      BY <1>3, <2>1, <3>1
  <2>2. CASE r # 0
    BY <1>3, <2>2
  <2>. QED
    BY <2>1, <2>2
<1>. QED
  BY <1>8, <1>11, <1>12 DEF IsPlan, plan

\* The children of a residency are shared out, all of them.
LEMMA ChildrenAreShared ==
  ASSUME NEW children \in Nat, NEW rooms \in Nat
  PROVE  LET each == ChildrenPerRoom(children, rooms)
         IN  /\ each \in [1..rooms -> Nat]
             /\ rooms > 0 => SumFunctionOnSet(each, 1..rooms) = children
             /\ children = 0 => \A room \in 1..rooms : each[room] = 0
<1>. DEFINE each == ChildrenPerRoom(children, rooms)
<1>1. CASE rooms = 0
  <2>1. 1..rooms = {}
    BY <1>1
  <2>2. each = [room \in {} |-> children \div rooms + (IF room <= children % rooms THEN 1 ELSE 0)]
    BY <2>1 DEF ChildrenPerRoom
  <2>. HIDE DEF each
  <2>3. each \in [{} -> Nat]
    BY <2>2
  <2>. QED
    BY <1>1, <2>1, <2>3 DEF each
<1>2. CASE rooms # 0
  <2>1. PICK q \in Nat, r \in 0..(rooms - 1) :
          q = children \div rooms /\ r = children % rooms /\ children = rooms * q + r
    <3>1. rooms \in Nat \ {0}
      BY <1>2
    <3>. QED
      BY <3>1, RoomsTaken
  <2>2. each = [room \in 1..rooms |-> q + (IF room <= r THEN 1 ELSE 0)]
    BY <2>1 DEF ChildrenPerRoom
  <2>. HIDE DEF each
  <2>. DEFINE same == [room \in 1..rooms |-> q]
              more == [room \in 1..rooms |-> IF room <= r THEN 1 ELSE 0]
  <2>3. /\ Integral(same, 1..rooms) /\ Integral(more, 1..rooms)
        /\ \A room \in 1..rooms : each[room] = same[room] + more[room]
        /\ \A room \in 1..rooms : same[room] = q
        /\ \A room \in 1..r : more[room] = 1
        /\ \A room \in (1..rooms) \ (1..r) : more[room] = 0
        /\ 1..r \in SUBSET (1..rooms)
    BY <2>1, <2>2 DEF Integral
  <2>0. \A j \in Nat : IsFiniteSet(1..j) /\ Cardinality(1..j) = j
    BY FS_Interval
  <2>4. /\ IsFiniteSet(1..rooms) /\ Cardinality(1..rooms) = rooms
        /\ IsFiniteSet(1..r) /\ Cardinality(1..r) = r
    BY <2>0, <2>1
  <2>. HIDE DEF same, more
  <2>5. SumFunctionOnSet(each, 1..rooms)
          = SumFunctionOnSet(same, 1..rooms) + SumFunctionOnSet(more, 1..rooms)
    BY <2>3, <2>4, SumAdds
  <2>6. SumFunctionOnSet(same, 1..rooms) = q * rooms
    <3>1. q \in Int /\ \A room \in 1..rooms : same[room] = q
      BY <2>3
    <3>2. SumFunctionOnSet(same, 1..rooms) = q * Cardinality(1..rooms)
      BY <2>4, <3>1, SumOfConstant
    <3>. QED
      BY <2>4, <3>2
  <2>7. SumFunctionOnSet(more, 1..r) = SumFunctionOnSet(more, 1..rooms)
    BY <2>3, <2>4, SumOverSubset
  <2>8. SumFunctionOnSet(more, 1..r) = 1 * r
    <3>1. SumFunctionOnSet(more, 1..r) = 1 * Cardinality(1..r)
      BY <2>3, <2>4, SumOfConstant
    <3>. QED
      BY <2>4, <3>1
  <2>9. q * rooms = rooms * q
    BY <2>1
  <2>10. each \in [1..rooms -> Nat]
    BY <2>1, <2>2
  <2>11. SumFunctionOnSet(each, 1..rooms) = children
    BY <2>1, <2>5, <2>6, <2>7, <2>8, <2>9
  <2>12. children = 0 => \A room \in 1..rooms : each[room] = 0
    <3>1. SUFFICES ASSUME children = 0 PROVE q = 0 /\ r = 0
      BY <2>2
    <3>2. rooms * q = 0 /\ r = 0
      BY <2>1, <3>1
    <3>3. q > 0 => rooms * 0 + rooms <= rooms * q
      BY <1>2, <2>1, Ordered
    <3>. QED
      BY <1>2, <2>1, <3>2, <3>3
  <2>. QED
    BY <2>10, <2>11, <2>12 DEF each
<1>. QED
  BY <1>1, <1>2

-------------------------------------------------------------------------------
(***************************************************************************)
(* Sums over the rows of a list                                            *)
(***************************************************************************)

SumOver(F, rows) == SumFunctionOnSet([i \in DOMAIN rows |-> F[rows[i]]], DOMAIN rows)

LEMMA RowsAreSummed ==
  ASSUME NEW T, NEW F, Integral(F, T), NEW rows \in Seq(T)
  PROVE  LET n == Len(rows)
             f == [i \in DOMAIN rows |-> F[rows[i]]]
         IN  /\ n \in Nat /\ DOMAIN rows = 1..n /\ rows \in [1..n -> T] /\ IsFiniteSet(1..n)
             /\ Integral(f, 1..n) /\ SumOver(F, rows) = SumFunctionOnSet(f, 1..n)
             /\ SumOver(F, rows) \in Int
<1>. DEFINE f == [i \in DOMAIN rows |-> F[rows[i]]]
<1>1. PICK n \in Nat : n = Len(rows)
  BY LenProperties
<1>2. DOMAIN rows = 1..n /\ rows \in [1..n -> T]
  BY <1>1, LenProperties
<1>3. IsFiniteSet(1..n)
  BY FS_Interval
<1>4. Integral(f, 1..n)
  BY <1>2 DEF Integral
<1>5. SumOver(F, rows) = SumFunctionOnSet(f, 1..n)
  BY <1>2 DEF SumOver
<1>. HIDE DEF f
<1>6. SumFunctionOnSet(f, 1..n) \in Int
  BY <1>3, <1>4, SumIsInt
<1>. QED
  BY <1>1, <1>2, <1>3, <1>4, <1>5, <1>6 DEF f

\* Two lists, one after the other.
LEMMA SumOverJoined ==
  ASSUME NEW T, NEW F, Integral(F, T), NEW s \in Seq(T), NEW u \in Seq(T)
  PROVE  s \o u \in Seq(T) /\ SumOver(F, s \o u) = SumOver(F, s) + SumOver(F, u)
<1>. DEFINE both == s \o u
            fs == [i \in DOMAIN s |-> F[s[i]]]
            fu == [i \in DOMAIN u |-> F[u[i]]]
            fb == [i \in DOMAIN both |-> F[both[i]]]
<1>1. PICK m \in Nat : m = Len(s)
  BY LenProperties
<1>2. PICK n \in Nat : n = Len(u)
  BY LenProperties
<1>3. /\ both \in Seq(T) /\ Len(both) = m + n
      /\ \A i \in 1..(m + n) : both[i] = IF i <= m THEN s[i] ELSE u[i - m]
  BY <1>1, <1>2, ConcatProperties
<1>. HIDE DEF both
<1>4. /\ DOMAIN s = 1..m /\ Integral(fs, 1..m) /\ SumOver(F, s) = SumFunctionOnSet(fs, 1..m)
      /\ IsFiniteSet(1..m)
  BY <1>1, RowsAreSummed
<1>5. /\ DOMAIN u = 1..n /\ Integral(fu, 1..n) /\ SumOver(F, u) = SumFunctionOnSet(fu, 1..n)
      /\ IsFiniteSet(1..n)
  BY <1>2, RowsAreSummed
<1>6. /\ DOMAIN both = 1..(m + n) /\ Integral(fb, 1..(m + n))
      /\ SumOver(F, both) = SumFunctionOnSet(fb, 1..(m + n)) /\ IsFiniteSet(1..(m + n))
  <2>0. PICK l \in Nat : l = m + n
    OBVIOUS
  <2>1. l = Len(both) /\ both \in Seq(T)
    BY <1>3, <2>0
  <2>2. /\ DOMAIN both = 1..l /\ Integral(fb, 1..l) /\ SumOver(F, both) = SumFunctionOnSet(fb, 1..l)
        /\ IsFiniteSet(1..l)
    BY <2>1, RowsAreSummed
  <2>. QED
    BY <2>0, <2>2
<1>. DEFINE after == [i \in 1..n |-> m + i]
<1>7. \A i \in 1..m : fb[i] = fs[i]
  BY <1>3, <1>4, <1>6
<1>8. \A i \in 1..n : fu[i] = fb[after[i]]
  <2>1. ASSUME NEW i \in 1..n PROVE fu[i] = fb[m + i]
    <3>1. m + i \in 1..(m + n) /\ ~(m + i <= m) /\ (m + i) - m = i
      OBVIOUS
    <3>2. both[m + i] = u[i]
      BY <1>3, <3>1
    <3>. QED
      BY <1>5, <1>6, <3>1, <3>2
  <2>. QED
    BY <2>1
<1>9. \A i, j \in 1..n : after[i] = after[j] => i = j
  OBVIOUS
<1>10. {after[i] : i \in 1..n} = (1..(m + n)) \ (1..m)
  <2>1. ASSUME NEW k \in (1..(m + n)) \ (1..m) PROVE \E i \in 1..n : k = after[i]
    <3>1. k - m \in 1..n /\ k = m + (k - m)
      OBVIOUS
    <3>. QED
      BY <3>1
  <2>2. \A i \in 1..n : after[i] \in (1..(m + n)) \ (1..m)
    OBVIOUS
  <2>. HIDE DEF after
  <2>. QED
    BY <2>1, <2>2
<1>11. 1..m \in SUBSET (1..(m + n))
  OBVIOUS
<1>. HIDE DEF fs, fu, fb, after
<1>12. SumFunctionOnSet(fb, 1..(m + n))
         = SumFunctionOnSet(fb, 1..m) + SumFunctionOnSet(fb, (1..(m + n)) \ (1..m))
  BY <1>6, <1>11, SumOfBoth
<1>13. SumFunctionOnSet(fs, 1..m) = SumFunctionOnSet(fb, 1..m)
  BY <1>4, <1>7, SumOfSame
<1>14. SumFunctionOnSet(fu, 1..n) = SumFunctionOnSet(fb, {after[i] : i \in 1..n})
  BY <1>5, <1>8, <1>9, SumRenames
<1>. QED
  BY <1>3, <1>4, <1>5, <1>6, <1>10, <1>12, <1>13, <1>14 DEF both

\* Lists of lists.
LEMMA SumOverFlat ==
  ASSUME NEW T, NEW F, Integral(F, T), NEW n \in Nat, NEW seqs \in [1..n -> Seq(T)],
         NEW parts, \A i \in 1..n : parts[i] = SumOver(F, seqs[i])
  PROVE  Integral(parts, 1..n) /\ SumOver(F, FlattenSeq(seqs)) = SumFunctionOnSet(parts, 1..n)
<1>1. \A i \in 1..n : parts[i] \in Int
  <2>1. ASSUME NEW i \in 1..n PROVE parts[i] \in Int
    <3>1. seqs[i] \in Seq(T) /\ parts[i] = SumOver(F, seqs[i])
      OBVIOUS
    <3>2. SumOver(F, seqs[i]) \in Int
      BY <3>1, RowsAreSummed
    <3>. QED
      BY <3>1, <3>2
  <2>. QED
    BY <2>1
<1>2. \A k \in Nat : k <= n => IsFiniteSet(1..k) /\ Integral(parts, 1..k)
  BY <1>1, FS_Interval DEF Integral
<1>3. CASE n = 0
  <2>1. FlattenSeq(seqs) \in Seq({})
    <3>1. seqs \in [1..n -> Seq({})]
      BY <1>3
    <3>. QED
      BY <3>1, Flattened
  <2>2. DOMAIN FlattenSeq(seqs) = {}
    BY <2>1
  <2>3. 1..n = {}
    BY <1>3
  <2>. QED
    BY <1>2, <2>2, <2>3, SumOfNone DEF SumOver
<1>4. CASE n # 0
  <2>0. n \in Nat \ {0}
    BY <1>4
  <2>1. PICK g : Flattening(T, seqs, n, g) /\ FlattenSeq(seqs) = g[n]
    BY <2>0, FlattenUnfolds
  <2>2. /\ g \in [1..n -> Seq(T)]
        /\ \A i \in 1..n : g[i] = IF i = 1 THEN seqs[i] ELSE g[i - 1] \o seqs[i]
    BY <2>1 DEF Flattening
  <2>. DEFINE Q == {k \in 1..n : SumOver(F, g[k]) = SumFunctionOnSet(parts, 1..k)}
  <2>3. 1 \in Q
    <3>1. 1 \in 1..n /\ g[1] = seqs[1] /\ 1..1 = {1}
      BY <2>0, <2>2
    <3>2. SumFunctionOnSet(parts, {1}) = parts[1]
      BY <1>1, <3>1, SumOfOne
    <3>. QED
      BY <3>1, <3>2
  <2>4. ASSUME NEW k \in 1..n, k \in Q, k < n PROVE k + 1 \in Q
    <3>1. k + 1 \in 1..n /\ k + 1 # 1 /\ (k + 1) - 1 = k /\ k + 1 \in Nat /\ k + 1 <= n
      BY <2>4
    <3>2. g[k + 1] = g[k] \o seqs[k + 1] /\ g[k] \in Seq(T) /\ seqs[k + 1] \in Seq(T)
      BY <2>2, <3>1
    <3>3. SumOver(F, g[k] \o seqs[k + 1]) = SumOver(F, g[k]) + SumOver(F, seqs[k + 1])
      BY <3>2, SumOverJoined
    <3>4. SumOver(F, g[k]) = SumFunctionOnSet(parts, 1..k)
      BY <2>4
    <3>5. PICK D : D = 1..(k + 1)
      OBVIOUS
    <3>6. k + 1 \in D /\ D \ {k + 1} = 1..k /\ IsFiniteSet(D) /\ Integral(parts, D)
      BY <1>2, <3>1, <3>5
    <3>7. SumFunctionOnSet(parts, D) = parts[k + 1] + SumFunctionOnSet(parts, D \ {k + 1})
      BY <3>6, SumTakes
    <3>8. SumFunctionOnSet(parts, 1..k) \in Int /\ parts[k + 1] \in Int
      <4>1. IsFiniteSet(1..k) /\ Integral(parts, 1..k)
        BY <1>2, <2>4
      <4>2. SumFunctionOnSet(parts, 1..k) \in Int
        BY <4>1, SumIsInt
      <4>. QED
        BY <1>1, <3>1, <4>2
    <3>9. SumOver(F, g[k + 1]) = SumFunctionOnSet(parts, 1..(k + 1))
      <4>1. parts[k + 1] = SumOver(F, seqs[k + 1])
        BY <3>1
      <4>2. SumFunctionOnSet(parts, D) = parts[k + 1] + SumFunctionOnSet(parts, 1..k)
        BY <3>6, <3>7
      <4>3. SumOver(F, g[k + 1]) = SumFunctionOnSet(parts, 1..k) + parts[k + 1]
        BY <3>2, <3>3, <3>4, <4>1
      <4>. QED
        BY <3>5, <3>8, <4>2, <4>3
    <3>. QED
      BY <3>1, <3>9
  <2>. HIDE DEF Q
  <2>5. \A k \in 1..n : k \in Q
    BY <2>3, <2>4, UpTo
  <2>6. n \in 1..n
    BY <2>0
  <2>. QED
    BY <1>2, <2>1, <2>5, <2>6 DEF Q
<1>. QED
  BY <1>3, <1>4

\* The rows that are kept.
LEMMA SumOverKept ==
  ASSUME NEW T, NEW F, Integral(F, T), NEW n \in Nat, NEW rows \in [1..n -> T],
         NEW K \in SUBSET (1..n)
  PROVE  SumOver(F, RowsAt(rows, K)) = SumFunctionOnSet([i \in 1..n |-> F[rows[i]]], K)
<1>. DEFINE f == [i \in 1..n |-> F[rows[i]]]
            kept == RowsAt(rows, K)
<1>1. PICK pos : Counts(K, pos) /\ kept = [k \in 1..Cardinality(K) |-> rows[pos[k]]]
  <2>1. PICK pos : /\ Counts(K, pos)
                   /\ \A r : RowsAt(r, K) = [k \in 1..Cardinality(K) |-> r[pos[k]]]
    BY PositionsAreCounted
  <2>. QED
    BY <2>1, Zenon
<1>2. PICK m \in Nat : m = Cardinality(K)
  BY CountedPositions, <1>1
<1>3. /\ IsFiniteSet(1..m) /\ pos \in [1..m -> K]
      /\ \A k \in 1..m : pos[k] \in K /\ pos[k] \in 1..n
      /\ \A i \in K : \E k \in 1..m : pos[k] = i
      /\ \A k, l \in 1..m : pos[k] = pos[l] => k = l
  BY <1>1, <1>2, CountedPositions
<1>. DEFINE g == [k \in 1..m |-> F[rows[pos[k]]]]
<1>4. SumOver(F, kept) = SumFunctionOnSet(g, 1..m)
  <2>1. kept = [k \in 1..m |-> rows[pos[k]]]
    BY <1>1, <1>2
  <2>. HIDE DEF kept
  <2>. QED
    BY <2>1 DEF SumOver
<1>5. /\ Integral(g, 1..m)
      /\ \A k \in 1..m : g[k] = f[pos[k]]
      /\ {pos[k] : k \in 1..m} = K
  BY <1>3 DEF Integral
<1>. HIDE DEF f, g
<1>6. SumFunctionOnSet(g, 1..m) = SumFunctionOnSet(f, {pos[k] : k \in 1..m})
  <2>1. PICK D : D = 1..m
    OBVIOUS
  <2>2. /\ IsFiniteSet(D) /\ Integral(g, D) /\ \A k \in D : g[k] = f[pos[k]]
        /\ \A k, l \in D : pos[k] = pos[l] => k = l
    BY <1>3, <1>5, <2>1
  <2>3. SumFunctionOnSet(g, D) = SumFunctionOnSet(f, {pos[k] : k \in D})
    BY <2>2, SumRenames
  <2>. QED
    BY <2>1, <2>3
<1>. QED
  BY <1>4, <1>5, <1>6 DEF f

\* A residency's rooms, the children in each, and its room-nights.
PlanFor(rates, stay, beds, residence) ==
  Rooming(stay.group, beds, PricedFor(stay.group, ChildSharing(rates, stay, beds)))[residence]
KidsFor(rates, stay, beds, residence) ==
  ChildrenPerRoom(IF residence \in ChildSharing(rates, stay, beds)
                  THEN CountOf(stay.group, residence, "child") ELSE 0,
                  Len(PlanFor(rates, stay, beds, residence)))
SlotFor(rates, stay, beds, residence, night, room) ==
  LET guests == PlanFor(rates, stay, beds, residence)[room]
  IN  [residence |-> residence, night |-> night, guests |-> guests,
       children |-> KidsFor(rates, stay, beds, residence)[room],
       rate |-> RateFor(rates, residence, night, guests, stay.presentation)]
NightFor(rates, stay, beds, residence, night) ==
  [room \in DOMAIN PlanFor(rates, stay, beds, residence) |->
     SlotFor(rates, stay, beds, residence, night, room)]
StayFor(rates, stay, beds, residence) ==
  FlattenSeq([n \in DOMAIN stay.nights |-> NightFor(rates, stay, beds, residence, stay.nights[n])])

\* The first cohort of each residency.
FirstOf(group) ==
  {i \in DOMAIN group : \A j \in 1..i - 1 : group[j].residence # group[i].residence}
Ranked(group) == RowsAt([i \in DOMAIN group |-> i], FirstOf(group))

LEMMA RoomNightsAre ==
  ASSUME NEW rates, NEW stay, NEW beds, NEW g, IsGroup(stay.group, g)
  PROVE  RoomNights(rates, stay, beds)
           = FlattenSeq([i \in DOMAIN Ranked(stay.group) |->
                           StayFor(rates, stay, beds, stay.group[Ranked(stay.group)[i]].residence)])
<1>. DEFINE group == stay.group
            same == [x \in DOMAIN group |-> x]
            sharing == ChildSharing(rates, stay, beds)
            rooming == Rooming(group, beds, PricedFor(group, sharing))
            K == {i \in DOMAIN same : \A j \in 1..same[i] - 1 : group[j].residence # group[same[i]].residence}
            ranked == RowsAt(same, K)
            ofNight(residence, night) ==
              LET plan == rooming[residence]
                  children == ChildrenPerRoom(IF residence \in sharing
                                              THEN CountOf(group, residence, "child") ELSE 0, Len(plan))
              IN  [room \in DOMAIN plan |->
                    [residence |-> residence, night |-> night, guests |-> plan[room],
                     children |-> children[room],
                     rate |-> RateFor(rates, residence, night, plan[room], stay.presentation)]]
            ofResidence(residence) ==
              FlattenSeq([n \in DOMAIN stay.nights |-> ofNight(residence, stay.nights[n])])
<1>1. RoomNights(rates, stay, beds)
        = FlattenSeq([i \in DOMAIN ranked |-> ofResidence(group[ranked[i]].residence)])
  BY Zenon DEF RoomNights, Kept
<1>2. K = FirstOf(group)
  BY DEF FirstOf
<1>3. ASSUME NEW residence, NEW night PROVE ofNight(residence, night) = NightFor(rates, stay, beds, residence, night)
  BY Zenon DEF NightFor, SlotFor, PlanFor, KidsFor
<1>4. ASSUME NEW residence PROVE ofResidence(residence) = StayFor(rates, stay, beds, residence)
  <2>. HIDE DEF ofNight
  <2>. QED
    BY <1>3 DEF StayFor
<1>5. ranked = Ranked(group)
  BY <1>2 DEF Ranked
<1>. HIDE DEF ranked, ofResidence
<1>. QED
  BY <1>1, <1>4, <1>5

\* Every residency is ranked, and once.
LEMMA RankedOnce ==
  ASSUME NEW g, NEW group, IsGroup(group, g)
  PROVE  \E m \in Nat :
           /\ Ranked(group) \in [1..m -> DOMAIN group]
           /\ \A residence \in Residences(group) :
                \E k \in 1..m : /\ group[Ranked(group)[k]].residence = residence
                                /\ \A l \in 1..m : group[Ranked(group)[l]].residence = residence => l = k
<1>. DEFINE same == [i \in DOMAIN group |-> i]
            K == FirstOf(group)
<1>1. g \in Nat /\ DOMAIN group = 1..g /\ same \in [1..g -> DOMAIN group] /\ K \in SUBSET (1..g)
  BY DEF IsGroup, FirstOf
<1>2. PICK pos : Counts(K, pos) /\ Ranked(group) = [k \in 1..Cardinality(K) |-> same[pos[k]]]
  <2>1. PICK pos : /\ Counts(K, pos)
                   /\ \A rows : RowsAt(rows, K) = [k \in 1..Cardinality(K) |-> rows[pos[k]]]
    BY <1>1, PositionsAreCounted
  <2>. QED
    BY <2>1, Zenon DEF Ranked
<1>. HIDE DEF K, same
<1>0. PICK m \in Nat : m = Cardinality(K)
  BY <1>1, <1>2, CountedPositions
<1>3. /\ m \in Nat /\ pos \in [1..m -> K]
      /\ \A k \in 1..m : pos[k] \in K /\ pos[k] \in 1..g
      /\ \A i \in K : \E k \in 1..m : pos[k] = i
      /\ \A k, l \in 1..m : pos[k] = pos[l] => k = l
  <2>1. g \in Nat /\ K \in SUBSET (1..g) /\ Counts(K, pos)
    BY <1>1, <1>2
  <2>2. /\ pos \in [1..Cardinality(K) -> K]
        /\ \A k \in 1..Cardinality(K) : pos[k] \in K /\ pos[k] \in 1..g
        /\ \A i \in K : \E k \in 1..Cardinality(K) : pos[k] = i
        /\ \A k, l \in 1..Cardinality(K) : pos[k] = pos[l] => k = l
    BY <2>1, CountedPositions
  <2>. QED
    BY <1>0, <2>2
<1>4. Ranked(group) = [k \in 1..m |-> pos[k]]
  BY <1>0, <1>1, <1>2, <1>3 DEF same
<1>5. ASSUME NEW residence \in Residences(group)
      PROVE  \E i \in K : /\ group[i].residence = residence
                          /\ \A j \in K : group[j].residence = residence => j = i
  <2>. DEFINE Q == {i \in 1..g : group[i].residence = residence}
  <2>1. Q # {} /\ Q \subseteq Nat
    BY <1>1 DEF Residences
  <2>2. PICK i \in Q : \A j \in Q : i <= j
    BY <2>1, LeastNatural
  <2>3. \A j \in 1..i - 1 : j \in 1..g /\ j \notin Q
    BY <1>1, <2>2
  <2>4. i \in K
    BY <1>1, <2>2, <2>3 DEF FirstOf, K
  <2>5. ASSUME NEW j \in K, group[j].residence = residence PROVE j = i
    <3>1. j \in Q /\ i <= j /\ i \in Nat /\ j \in Nat
      BY <1>1, <2>2, <2>5
    <3>2. CASE i < j
      <4>1. i \in 1..j - 1
        BY <2>2, <3>1, <3>2
      <4>2. group[i].residence # group[j].residence
        BY <2>5, <4>1 DEF FirstOf, K
      <4>. QED
        BY <2>2, <2>5, <4>2
    <3>. QED
      BY <3>1, <3>2
  <2>. QED
    BY <2>2, <2>4, <2>5
<1>6. ASSUME NEW residence \in Residences(group)
      PROVE  \E k \in 1..m : /\ group[Ranked(group)[k]].residence = residence
                             /\ \A l \in 1..m : group[Ranked(group)[l]].residence = residence => l = k
  <2>1. PICK i \in K : /\ group[i].residence = residence
                       /\ \A j \in K : group[j].residence = residence => j = i
    BY <1>5
  <2>2. PICK k \in 1..m : pos[k] = i
    BY <1>3
  <2>. QED
    BY <1>3, <1>4, <2>1, <2>2
<1>7. Ranked(group) \in [1..m -> DOMAIN group]
  BY <1>1, <1>3, <1>4
<1>. QED
  BY <1>3, <1>6, <1>7

\* A residency's rooms and the beds of its children hold all of it.
Housed(rates, stay, beds, residence, k) ==
  LET plan == PlanFor(rates, stay, beds, residence)
      kids == KidsFor(rates, stay, beds, residence)
      sharing == ChildSharing(rates, stay, beds)
  IN  /\ k \in Nat /\ plan \in [1..k -> 0..beds] /\ kids \in [1..k -> Nat]
      /\ SumFunctionOnSet(plan, 1..k) + SumFunctionOnSet(kids, 1..k)
           = Headcount(stay.group, residence)
      /\ residence \in sharing => plan = RoomPlan(Occupants(stay.group, residence), beds)
      /\ residence \notin sharing => \A room \in 1..k : kids[room] = 0

LEMMA RoomsHoldAll ==
  ASSUME NEW rates, NEW stay, NEW beds \in Nat \ {0}, NEW g, IsGroup(stay.group, g),
         NEW residence \in Residences(stay.group)
  PROVE  \E k : Housed(rates, stay, beds, residence, k)
<1>. DEFINE group == stay.group
            plan == PlanFor(rates, stay, beds, residence)
            kids == KidsFor(rates, stay, beds, residence)
            sharing == ChildSharing(rates, stay, beds)
            children == IF residence \in sharing THEN CountOf(group, residence, "child") ELSE 0
            pax == IF residence \in sharing THEN Occupants(group, residence) ELSE Headcount(group, residence)
<1>1. plan = RoomPlan(pax, beds)
  <2>1. DOMAIN PricedFor(group, sharing) = sharing
        /\ (residence \in sharing => PricedFor(group, sharing)[residence] = Occupants(group, residence))
    BY DEF PricedFor
  <2>2. plan = RoomPlan(IF residence \in DOMAIN PricedFor(group, sharing)
                        THEN PricedFor(group, sharing)[residence] ELSE Headcount(group, residence), beds)
    BY DEF PlanFor, Rooming
  <2>. QED
    BY <2>1, <2>2
<1>2. kids = ChildrenPerRoom(children, Len(plan))
  BY DEF KidsFor
<1>3. /\ Headcount(group, residence) \in Nat /\ CountOf(group, residence, "child") \in Nat
      /\ Occupants(group, residence) \in Int
      /\ Headcount(group, residence) = Occupants(group, residence) + CountOf(group, residence, "child")
  BY HeadcountsAreNumbers DEF Occupants
<1>4. residence \in sharing => Occupants(group, residence) > 0
  BY DEF ChildSharing
<1>. HIDE DEF plan, kids, sharing
<1>5. pax \in Nat /\ children \in Nat /\ pax + children = Headcount(group, residence)
      /\ (children > 0 => pax > 0)
  BY <1>3, <1>4
<1>. HIDE DEF pax, children
<1>6. PICK k : IsPlan(RoomPlan(pax, beds), k, pax, beds)
  BY <1>5, PlanHoldsAll
<1>7. /\ k \in Nat /\ plan \in [1..k -> 0..beds] /\ SumFunctionOnSet(plan, 1..k) = pax
      /\ pax > 0 => k > 0
  BY <1>1, <1>6 DEF IsPlan
<1>8. Len(plan) = k
  <2>1. plan \in Seq(0..beds)
    BY <1>7
  <2>. QED
    BY <1>7, <2>1, LenProperties
<1>9. /\ kids \in [1..k -> Nat]
      /\ k > 0 => SumFunctionOnSet(kids, 1..k) = children
      /\ children = 0 => \A room \in 1..k : kids[room] = 0
  <2>1. kids = ChildrenPerRoom(children, k) /\ children \in Nat /\ k \in Nat
    BY <1>2, <1>5, <1>7, <1>8
  <2>. DEFINE each == ChildrenPerRoom(children, k)
  <2>2. /\ each \in [1..k -> Nat]
        /\ k > 0 => SumFunctionOnSet(each, 1..k) = children
        /\ children = 0 => \A room \in 1..k : each[room] = 0
    BY <2>1, ChildrenAreShared
  <2>. QED
    BY <2>1, <2>2
<1>10. SumFunctionOnSet(kids, 1..k) = children
  <2>1. CASE k > 0
    BY <1>9, <2>1
  <2>2. CASE k = 0
    <3>1. 1..k = {} /\ children = 0
      BY <1>5, <1>7, <2>2
    <3>. QED
      BY <3>1, SumOfNone
  <2>. QED
    BY <1>7, <2>1, <2>2
<1>11. /\ residence \in sharing => plan = RoomPlan(Occupants(group, residence), beds)
       /\ residence \notin sharing => \A room \in 1..k : kids[room] = 0
  BY <1>1, <1>9 DEF pax, children
<1>12. SumFunctionOnSet(plan, 1..k) + SumFunctionOnSet(kids, 1..k) = Headcount(group, residence)
  BY <1>5, <1>7, <1>10
<1>. QED
  BY <1>7, <1>9, <1>11, <1>12 DEF Housed, plan, kids, sharing

\* Every room-night there is.
SlotsOf(rates, stay, beds) ==
  UNION {Range(NightFor(rates, stay, beds, residence, night)) :
           residence \in Residences(stay.group), night \in Range(stay.nights)}

LEMMA SlotsAreFor ==
  ASSUME NEW rates, NEW stay, NEW beds \in Nat \ {0}, NEW g, IsGroup(stay.group, g),
         NEW s \in SlotsOf(rates, stay, beds)
  PROVE  /\ s.residence \in Residences(stay.group) /\ s.night \in Range(stay.nights)
         /\ s.guests \in 0..beds /\ s.children \in Nat
         /\ s.rate = RateFor(rates, s.residence, s.night, s.guests, stay.presentation)
         /\ s.children > 0 => s.rate # None /\ s.rate.child # None
<1>1. PICK residence \in Residences(stay.group), night \in Range(stay.nights) :
        s \in Range(NightFor(rates, stay, beds, residence, night))
  BY DEF SlotsOf
<1>. DEFINE plan == PlanFor(rates, stay, beds, residence)
            kids == KidsFor(rates, stay, beds, residence)
            sharing == ChildSharing(rates, stay, beds)
<1>0. PICK k : Housed(rates, stay, beds, residence, k)
  BY RoomsHoldAll
<1>4. /\ k \in Nat
      /\ plan \in [1..k -> 0..beds] /\ kids \in [1..k -> Nat]
      /\ residence \in sharing => plan = RoomPlan(Occupants(stay.group, residence), beds)
      /\ residence \notin sharing => \A n \in 1..k : kids[n] = 0
  BY <1>0 DEF Housed
<1>2. PICK room \in DOMAIN plan : s = SlotFor(rates, stay, beds, residence, night, room)
  <2>1. Range(NightFor(rates, stay, beds, residence, night))
          = {SlotFor(rates, stay, beds, residence, night, room) : room \in DOMAIN plan}
    BY DEF NightFor, Range
  <2>. QED
    BY <1>1, <2>1
<1>3. s = [residence |-> residence, night |-> night, guests |-> plan[room],
           children |-> kids[room],
           rate |-> RateFor(rates, residence, night, plan[room], stay.presentation)]
  BY <1>2 DEF SlotFor
<1>. HIDE DEF plan, kids
<1>5. room \in 1..k /\ plan[room] \in 0..beds /\ kids[room] \in Nat
  BY <1>4
<1>6. ASSUME kids[room] > 0
      PROVE  /\ RateFor(rates, residence, night, plan[room], stay.presentation) # None
             /\ RateFor(rates, residence, night, plan[room], stay.presentation).child # None
  <2>1. residence \in sharing
    BY <1>4, <1>5, <1>6
  <2>2. plan[room] \in Range(RoomPlan(Occupants(stay.group, residence), beds))
    BY <1>4, <2>1 DEF Range
  <2>3. PICK n \in DOMAIN stay.nights : night = stay.nights[n]
    BY DEF Range
  <2>. QED
    BY <2>1, <2>2, <2>3 DEF ChildSharing
<1>. QED
  BY <1>3, <1>5, <1>6

LEMMA NightsAreListed ==
  ASSUME NEW rates, NEW stay, NEW beds \in Nat \ {0}, NEW g, IsGroup(stay.group, g),
         NEW residence \in Residences(stay.group), NEW night \in Range(stay.nights)
  PROVE  NightFor(rates, stay, beds, residence, night) \in Seq(SlotsOf(rates, stay, beds))
<1>. DEFINE T == SlotsOf(rates, stay, beds)
            rooms == NightFor(rates, stay, beds, residence, night)
<1>1. PICK k \in Nat : DOMAIN PlanFor(rates, stay, beds, residence) = 1..k
  <2>. DEFINE plan == PlanFor(rates, stay, beds, residence)
  <2>1. PICK k \in Nat : plan \in [1..k -> 0..beds]
    BY RoomsHoldAll DEF Housed
  <2>. HIDE DEF plan
  <2>2. DOMAIN plan = 1..k
    BY <2>1
  <2>. QED
    BY <2>2 DEF plan
<1>2. DOMAIN rooms = 1..k /\ rooms = [n \in 1..k |-> rooms[n]]
  BY <1>1 DEF NightFor
<1>3. Range(rooms) \subseteq T
  BY DEF SlotsOf
<1>. HIDE DEF rooms, T
<1>4. rooms \in [1..k -> T]
  BY <1>2, <1>3 DEF Range
<1>5. rooms \in Seq(T)
  BY <1>4
<1>. QED
  BY <1>5 DEF rooms, T

\* The nights of a stay, and what counts on one of them.
Nightly(stay, d) ==
  /\ d \in Nat /\ DOMAIN stay.nights = 1..d
  /\ \A i, j \in 1..d : stay.nights[i] = stay.nights[j] => i = j
CountsOn(F, slots, residence, night) ==
  \A s \in slots : s.residence # residence \/ s.night # night => F[s] = 0

\* What is of one residency and one night is summed over its rooms.
LEMMA SumOfResidency ==
  ASSUME NEW rates, NEW stay, NEW beds \in Nat \ {0}, NEW g, IsGroup(stay.group, g),
         NEW d, Nightly(stay, d), NEW F, Integral(F, SlotsOf(rates, stay, beds)), NEW residence \in Residences(stay.group)
  PROVE  LET parts == [n \in 1..d |-> SumOver(F, NightFor(rates, stay, beds, residence, stay.nights[n]))]
         IN  /\ StayFor(rates, stay, beds, residence) \in Seq(SlotsOf(rates, stay, beds))
             /\ Integral(parts, 1..d)
             /\ SumOver(F, StayFor(rates, stay, beds, residence)) = SumFunctionOnSet(parts, 1..d)
<1>. DEFINE T == SlotsOf(rates, stay, beds)
            seqs == [n \in DOMAIN stay.nights |-> NightFor(rates, stay, beds, residence, stay.nights[n])]
            parts == [n \in 1..d |-> SumOver(F, NightFor(rates, stay, beds, residence, stay.nights[n]))]
<1>0. d \in Nat /\ DOMAIN stay.nights = 1..d
  BY DEF Nightly
<1>1. \A n \in 1..d : seqs[n] \in Seq(T)
  <2>1. \A n \in 1..d : stay.nights[n] \in Range(stay.nights)
    BY <1>0 DEF Range
  <2>. QED
    BY <1>0, <2>1, NightsAreListed
<1>2. \A n \in 1..d : parts[n] = SumOver(F, seqs[n])
  BY <1>0
<1>3. StayFor(rates, stay, beds, residence) = FlattenSeq(seqs)
  BY DEF StayFor
<1>4. seqs = [n \in 1..d |-> seqs[n]]
  BY <1>0
<1>. HIDE DEF T, seqs, parts
<1>5. seqs \in [1..d -> Seq(T)]
  BY <1>1, <1>4
<1>6. FlattenSeq(seqs) \in Seq(T)
  BY <1>0, <1>5, Flattened
<1>7. Integral(F, T) /\ d \in Nat
  BY <1>0 DEF T
<1>8. Integral(parts, 1..d) /\ SumOver(F, FlattenSeq(seqs)) = SumFunctionOnSet(parts, 1..d)
  BY <1>2, <1>5, <1>7, SumOverFlat
<1>. QED
  BY <1>3, <1>6, <1>8 DEF T, parts

LEMMA RoomNightsListed ==
  ASSUME NEW rates, NEW stay, NEW beds \in Nat \ {0}, NEW g, IsGroup(stay.group, g),
         NEW d, Nightly(stay, d)
  PROVE  RoomNights(rates, stay, beds) \in Seq(SlotsOf(rates, stay, beds))
<1>. DEFINE T == SlotsOf(rates, stay, beds)
            group == stay.group
            ranked == Ranked(group)
            seqs == [i \in DOMAIN ranked |-> StayFor(rates, stay, beds, group[ranked[i]].residence)]
            F == [s \in T |-> 0]
<1>1. PICK m \in Nat : ranked \in [1..m -> DOMAIN group]
  BY RankedOnce
<1>2. Integral(F, T)
  BY DEF Integral
<1>. HIDE DEF T, F, ranked
<1>3. \A i \in 1..m : group[ranked[i]].residence \in Residences(group)
  BY <1>1 DEF Residences
<1>4. \A i \in 1..m : StayFor(rates, stay, beds, group[ranked[i]].residence) \in Seq(T)
  BY <1>2, <1>3, SumOfResidency DEF T
<1>5. seqs \in [1..m -> Seq(T)]
  BY <1>1, <1>4
<1>6. RoomNights(rates, stay, beds) = FlattenSeq(seqs)
  BY RoomNightsAre DEF ranked
<1>. HIDE DEF seqs
<1>7. FlattenSeq(seqs) \in Seq(T)
  BY <1>5, Flattened
<1>. QED
  BY <1>6, <1>7 DEF T

\* Lists of which one counts.
OneCounts(F, T, seqs, n, k) ==
  /\ n \in Nat /\ seqs \in [1..n -> Seq(T)] /\ k \in 1..n /\ Integral(F, T)
  /\ \A i \in 1..n : i # k => SumOver(F, seqs[i]) = 0

LEMMA OneListCounts ==
  ASSUME NEW T, NEW F, Integral(F, T), NEW n \in Nat, NEW seqs \in [1..n -> Seq(T)],
         NEW k \in 1..n, \A i \in 1..n : i # k => SumOver(F, seqs[i]) = 0
  PROVE  SumOver(F, FlattenSeq(seqs)) = SumOver(F, seqs[k])
<1>. DEFINE parts == [i \in 1..n |-> SumOver(F, seqs[i])]
<1>1. \A i \in 1..n : parts[i] = SumOver(F, seqs[i])
  OBVIOUS
<1>. HIDE DEF parts
<1>2. Integral(parts, 1..n) /\ SumOver(F, FlattenSeq(seqs)) = SumFunctionOnSet(parts, 1..n)
  BY <1>1, SumOverFlat
<1>3. IsFiniteSet(1..n)
  BY FS_Interval
<1>4. PICK D : D = 1..n
  OBVIOUS
<1>5. IsFiniteSet(D) /\ Integral(parts, D) /\ k \in D /\ \A i \in D : i # k => parts[i] = 0
  BY <1>1, <1>2, <1>3, <1>4
<1>6. SumFunctionOnSet(parts, D) = parts[k]
  BY <1>5, SumIsOfOne
<1>. QED
  BY <1>1, <1>2, <1>4, <1>6

LEMMA SumOverOneList ==
  ASSUME NEW T, NEW F, NEW n, NEW seqs, NEW k, OneCounts(F, T, seqs, n, k)
  PROVE  SumOver(F, FlattenSeq(seqs)) = SumOver(F, seqs[k])
BY OneListCounts DEF OneCounts

LEMMA SumOfRoomNights ==
  ASSUME NEW rates, NEW stay, NEW beds \in Nat \ {0}, NEW g, IsGroup(stay.group, g),
         NEW d, Nightly(stay, d),
         NEW F, Integral(F, SlotsOf(rates, stay, beds)),
         NEW residence \in Residences(stay.group), NEW night \in Range(stay.nights),
         CountsOn(F, SlotsOf(rates, stay, beds), residence, night)
  PROVE  SumOver(F, RoomNights(rates, stay, beds))
           = SumOver(F, NightFor(rates, stay, beds, residence, night))
<1>. DEFINE T == SlotsOf(rates, stay, beds)
            group == stay.group
            ranked == Ranked(group)
            of(i) == group[ranked[i]].residence
            seqs == [i \in DOMAIN ranked |-> StayFor(rates, stay, beds, of(i))]
            Each(r) == [n \in 1..d |-> SumOver(F, NightFor(rates, stay, beds, r, stay.nights[n]))]
<1>0. d \in Nat /\ DOMAIN stay.nights = 1..d /\ IsFiniteSet(1..d)
  BY FS_Interval DEF Nightly
<1>1. ASSUME NEW r \in Residences(group), NEW on \in Range(stay.nights), r # residence \/ on # night
      PROVE  SumOver(F, NightFor(rates, stay, beds, r, on)) = 0
  <2>. DEFINE rooms == NightFor(rates, stay, beds, r, on)
              f == [n \in DOMAIN rooms |-> F[rooms[n]]]
  <2>1. rooms \in Seq(T)
    BY NightsAreListed
  <2>2. PICK k \in Nat : DOMAIN rooms = 1..k /\ IsFiniteSet(1..k)
    <3>1. PICK k \in Nat : DOMAIN rooms = 1..k
      BY <2>1
    <3>. QED
      BY <3>1, FS_Interval
  <2>3. \A n \in 1..k : rooms[n].residence = r /\ rooms[n].night = on
    BY <2>2 DEF NightFor, SlotFor
  <2>. HIDE DEF rooms, T
  <2>4. \A n \in 1..k : rooms[n] \in T
    BY <2>1, <2>2
  <2>5. \A n \in 1..k : F[rooms[n]] = 0
    BY <1>1, <2>3, <2>4 DEF CountsOn, T
  <2>6. \A n \in 1..k : f[n] = 0
    BY <2>2, <2>5
  <2>7. SumOver(F, rooms) = SumFunctionOnSet(f, 1..k)
    BY <2>2 DEF SumOver
  <2>. HIDE DEF f
  <2>8. SumFunctionOnSet(f, 1..k) = 0
    BY <2>2, <2>6, SumOfNothing
  <2>. QED
    BY <2>7, <2>8 DEF rooms
<1>2. ASSUME NEW r \in Residences(group)
      PROVE  /\ Integral(Each(r), 1..d)
             /\ SumOver(F, StayFor(rates, stay, beds, r)) = SumFunctionOnSet(Each(r), 1..d)
             /\ StayFor(rates, stay, beds, r) \in Seq(T)
  BY SumOfResidency
<1>3. \A n \in 1..d : stay.nights[n] \in Range(stay.nights)
  BY <1>0 DEF Range
<1>4. ASSUME NEW r \in Residences(group), r # residence
      PROVE  SumOver(F, StayFor(rates, stay, beds, r)) = 0
  <2>. DEFINE each == Each(r)
  <2>1. \A n \in 1..d : each[n] = 0
    BY <1>1, <1>3, <1>4
  <2>2. SumOver(F, StayFor(rates, stay, beds, r)) = SumFunctionOnSet(each, 1..d)
    BY <1>2
  <2>. HIDE DEF each
  <2>3. SumFunctionOnSet(each, 1..d) = 0
    BY <1>0, <2>1, SumOfNothing
  <2>. QED
    BY <2>2, <2>3
<1>5. SumOver(F, StayFor(rates, stay, beds, residence)) = SumOver(F, NightFor(rates, stay, beds, residence, night))
  <2>. DEFINE each == Each(residence)
  <2>1. PICK n \in 1..d : stay.nights[n] = night
    BY <1>0 DEF Range
  <2>2. each[n] = SumOver(F, NightFor(rates, stay, beds, residence, night))
    BY <2>1
  <2>3. \A l \in 1..d : l # n => each[l] = 0
    BY <1>0, <1>1, <1>3, <2>1 DEF Nightly
  <2>4. Integral(each, 1..d) /\ SumOver(F, StayFor(rates, stay, beds, residence)) = SumFunctionOnSet(each, 1..d)
    BY <1>2
  <2>. HIDE DEF each
  <2>5. SumFunctionOnSet(each, 1..d) = each[n]
    BY <1>0, <2>3, <2>4, SumIsOfOne
  <2>. QED
    BY <2>2, <2>4, <2>5
<1>. HIDE DEF T, Each
<1>6. PICK m \in Nat :
        /\ ranked \in [1..m -> DOMAIN group]
        /\ \E k \in 1..m : of(k) = residence /\ \A l \in 1..m : of(l) = residence => l = k
  BY RankedOnce
<1>. HIDE DEF ranked
<1>7. PICK k \in 1..m : of(k) = residence /\ \A l \in 1..m : l # k => of(l) # residence
  BY <1>6
<1>8. \A i \in 1..m : of(i) \in Residences(group)
  BY <1>6 DEF Residences
<1>9. RoomNights(rates, stay, beds) = FlattenSeq(seqs)
  BY RoomNightsAre DEF ranked
<1>10. /\ seqs = [i \in 1..m |-> seqs[i]] /\ \A i \in 1..m : seqs[i] \in Seq(T)
       /\ \A i \in 1..m : i # k => SumOver(F, seqs[i]) = 0
       /\ SumOver(F, seqs[k]) = SumOver(F, NightFor(rates, stay, beds, residence, night))
  BY <1>2, <1>4, <1>5, <1>6, <1>7, <1>8
<1>. HIDE DEF seqs
<1>11. seqs \in [1..m -> Seq(T)] /\ Integral(F, T)
  BY <1>10 DEF T
<1>12. OneCounts(F, T, seqs, m, k)
  BY <1>10, <1>11 DEF OneCounts
<1>13. SumOver(F, FlattenSeq(seqs)) = SumOver(F, seqs[k])
  BY <1>12, SumOverOneList
<1>. QED
  BY <1>9, <1>10, <1>13

\* The rooms of a residency on a night hold all of it.
CountsHeads(F, slots) == \A s \in slots : F[s] = s.guests + s.children

LEMMA NightHoldsAll ==
  ASSUME NEW rates, NEW stay, NEW beds \in Nat \ {0}, NEW g, IsGroup(stay.group, g),
         NEW residence \in Residences(stay.group), NEW night
  PROVE  \A F : CountsHeads(F, Range(NightFor(rates, stay, beds, residence, night)))
                 => SumOver(F, NightFor(rates, stay, beds, residence, night))
                      = Headcount(stay.group, residence)
<1>. SUFFICES ASSUME NEW F, CountsHeads(F, Range(NightFor(rates, stay, beds, residence, night)))
              PROVE  SumOver(F, NightFor(rates, stay, beds, residence, night))
                       = Headcount(stay.group, residence)
  OBVIOUS
<1>. DEFINE plan == PlanFor(rates, stay, beds, residence)
            kids == KidsFor(rates, stay, beds, residence)
            rooms == NightFor(rates, stay, beds, residence, night)
            f == [room \in DOMAIN rooms |-> F[rooms[room]]]
<1>0. PICK k : Housed(rates, stay, beds, residence, k)
  BY RoomsHoldAll
<1>1. /\ k \in Nat /\ plan \in [1..k -> 0..beds] /\ kids \in [1..k -> Nat]
      /\ SumFunctionOnSet(plan, 1..k) + SumFunctionOnSet(kids, 1..k)
           = Headcount(stay.group, residence)
  BY <1>0 DEF Housed
<1>2. rooms = [room \in DOMAIN plan |-> SlotFor(rates, stay, beds, residence, night, room)]
  BY DEF NightFor
<1>3. \A room \in DOMAIN plan :
        /\ SlotFor(rates, stay, beds, residence, night, room).guests = plan[room]
        /\ SlotFor(rates, stay, beds, residence, night, room).children = kids[room]
  BY DEF SlotFor
<1>. HIDE DEF plan, kids, rooms
<1>4. DOMAIN rooms = 1..k /\ \A room \in 1..k : F[rooms[room]] = plan[room] + kids[room]
  <2>1. DOMAIN plan = 1..k
    BY <1>1
  <2>2. \A room \in 1..k : rooms[room] \in Range(rooms)
    BY <1>2, <2>1 DEF Range
  <2>3. \A s \in Range(rooms) : F[s] = s.guests + s.children
    BY DEF rooms, CountsHeads
  <2>4. \A room \in 1..k : rooms[room].guests = plan[room] /\ rooms[room].children = kids[room]
    BY <1>2, <1>3, <2>1
  <2>. QED
    BY <1>2, <2>1, <2>2, <2>3, <2>4
<1>5. \A room \in 1..k : f[room] = plan[room] + kids[room]
  BY <1>4
<1>6. SumOver(F, rooms) = SumFunctionOnSet(f, 1..k)
  BY <1>4 DEF SumOver
<1>7. Integral(plan, 1..k) /\ Integral(kids, 1..k) /\ IsFiniteSet(1..k)
  <2>1. IsFiniteSet(1..k)
    BY <1>1, FS_Interval
  <2>. QED
    BY <1>1, <2>1 DEF Integral
<1>. HIDE DEF f
<1>8. SumFunctionOnSet(f, 1..k) = SumFunctionOnSet(plan, 1..k) + SumFunctionOnSet(kids, 1..k)
  <2>1. PICK D : D = 1..k
    OBVIOUS
  <2>2. IsFiniteSet(D) /\ Integral(plan, D) /\ Integral(kids, D) /\ \A room \in D : f[room] = plan[room] + kids[room]
    BY <1>5, <1>7, <2>1
  <2>3. SumFunctionOnSet(f, D) = SumFunctionOnSet(plan, D) + SumFunctionOnSet(kids, D)
    BY <2>2, SumAdds
  <2>. QED
    BY <2>1, <2>3
<1>. QED
  BY <1>1, <1>6, <1>8 DEF rooms

\* Everybody of a residency has a bed on a night.
HereOn(slots, residence, night) ==
  Kept(slots, LAMBDA s : s.residence = residence /\ s.night = night)
People(rooms) == Total([i \in DOMAIN rooms |-> rooms[i].guests + rooms[i].children])

LEMMA EverybodyHasABed ==
  ASSUME NEW rates, NEW stay, NEW beds \in Nat \ {0}, NEW g, IsGroup(stay.group, g),
         NEW d, Nightly(stay, d),
         NEW residence \in Residences(stay.group), NEW night \in Range(stay.nights)
  PROVE  People(HereOn(RoomNights(rates, stay, beds), residence, night))
           = Headcount(stay.group, residence)
<1>. DEFINE T == SlotsOf(rates, stay, beds)
            F == [s \in T |-> IF s.residence = residence /\ s.night = night
                              THEN s.guests + s.children ELSE 0]
            slots == RoomNights(rates, stay, beds)
            K == {i \in DOMAIN slots : slots[i].residence = residence /\ slots[i].night = night}
            here == RowsAt(slots, K)
            heads == [i \in DOMAIN here |-> here[i].guests + here[i].children]
            f == [i \in DOMAIN slots |-> F[slots[i]]]
            rooms == NightFor(rates, stay, beds, residence, night)
<1>1. HereOn(slots, residence, night) = here
  BY DEF HereOn, Kept
<1>2. \A s \in T : s.guests \in Int /\ s.children \in Int
  BY SlotsAreFor
<1>3. slots \in Seq(T)
  BY RoomNightsListed
<1>4. /\ Integral(F, T) /\ CountsOn(F, T, residence, night)
      /\ \A s \in T : s.residence = residence /\ s.night = night => F[s] = s.guests + s.children
  BY <1>2 DEF Integral, CountsOn
<1>5. rooms \in Seq(T)
  BY NightsAreListed
<1>6. CountsHeads(F, Range(rooms))
  <2>1. ASSUME NEW s \in Range(rooms) PROVE s \in T /\ s.residence = residence /\ s.night = night
    <3>1. PICK room \in DOMAIN rooms : s = rooms[room]
      BY DEF Range
    <3>2. rooms[room] = SlotFor(rates, stay, beds, residence, night, room)
      BY DEF NightFor
    <3>3. s.residence = residence /\ s.night = night
      BY <3>1, <3>2 DEF SlotFor
    <3>. HIDE DEF rooms, T
    <3>4. s \in T
      BY <1>5, <3>1
    <3>. QED
      BY <3>3, <3>4
  <2>. HIDE DEF rooms, F, T
  <2>. QED
    BY <1>4, <2>1 DEF CountsHeads
<1>. HIDE DEF F
<1>7. SumOver(F, slots) = SumOver(F, rooms)
  BY <1>4, SumOfRoomNights
<1>. HIDE DEF T, slots, K, here, heads, f
<1>8. SumOver(F, rooms) = Headcount(stay.group, residence)
  <2>1. \A G : CountsHeads(G, Range(NightFor(rates, stay, beds, residence, night)))
                => SumOver(G, NightFor(rates, stay, beds, residence, night))
                     = Headcount(stay.group, residence)
    BY NightHoldsAll
  <2>. QED
    BY <1>6, <2>1
<1>9. /\ K \in SUBSET DOMAIN slots
      /\ \A i \in DOMAIN slots : i \in K <=> slots[i].residence = residence /\ slots[i].night = night
  BY DEF K
<1>. HIDE DEF rooms
<1>10. PICK n \in Nat : DOMAIN slots = 1..n /\ slots \in [1..n -> T] /\ IsFiniteSet(1..n)
  <2>1. PICK n \in Nat : DOMAIN slots = 1..n /\ slots \in [1..n -> T]
    BY <1>3
  <2>. QED
    BY <2>1, FS_Interval
<1>11. here \in Seq(T) /\ Range(here) = {slots[i] : i \in K}
  BY <1>3, <1>9, ListKept DEF here
<1>12. People(here) = Total(heads)
  BY DEF People, heads
<1>13. SumOver(F, here) = SumFunctionOnSet([i \in 1..n |-> F[slots[i]]], K)
  <2>1. K \in SUBSET (1..n)
    BY <1>9, <1>10
  <2>. QED
    BY <1>4, <1>10, <2>1, SumOverKept DEF here
<1>14. Integral(f, 1..n) /\ f = [i \in 1..n |-> F[slots[i]]] /\ SumOver(F, slots) = SumFunctionOnSet(f, 1..n)
       /\ K \in SUBSET (1..n) /\ \A i \in (1..n) \ K : f[i] = 0
  <2>1. \A i \in 1..n : slots[i] \in T
    BY <1>10
  <2>2. f = [i \in 1..n |-> F[slots[i]]] /\ SumOver(F, slots) = SumFunctionOnSet(f, 1..n)
    BY <1>10 DEF SumOver, f
  <2>3. \A i \in (1..n) \ K : F[slots[i]] = 0
    BY <1>4, <1>9, <1>10, <2>1 DEF CountsOn
  <2>. QED
    BY <1>4, <1>9, <1>10, <2>1, <2>2, <2>3 DEF Integral
<1>15. SumFunctionOnSet(f, K) = SumFunctionOnSet(f, 1..n)
  <2>1. PICK D : D = 1..n
    OBVIOUS
  <2>2. IsFiniteSet(D) /\ Integral(f, D) /\ K \in SUBSET D /\ \A i \in D \ K : f[i] = 0
    BY <1>10, <1>14, <2>1
  <2>3. SumFunctionOnSet(f, K) = SumFunctionOnSet(f, D)
    BY <2>2, SumOverSubset
  <2>. QED
    BY <2>1, <2>3
<1>16. PICK m \in Nat : DOMAIN here = 1..m /\ \A i \in 1..m : here[i] \in T /\ F[here[i]] = here[i].guests + here[i].children
  <2>1. PICK m \in Nat : DOMAIN here = 1..m /\ \A i \in 1..m : here[i] \in T /\ here[i] \in Range(here)
    BY <1>11 DEF Range
  <2>2. \A s \in Range(here) : s.residence = residence /\ s.night = night
    BY <1>9, <1>11
  <2>. QED
    BY <1>4, <2>1, <2>2
<1>17. DOMAIN heads = 1..m /\ Integral(heads, 1..m) /\ heads = [i \in DOMAIN here |-> F[here[i]]]
  BY <1>2, <1>16 DEF Integral, heads
<1>18. Total(heads) = SumOver(F, here)
  <2>1. SumOver(F, here) = SumFunctionOnSet(heads, 1..m)
    BY <1>16, <1>17 DEF SumOver
  <2>2. Total(heads) = SumFunctionOnSet(heads, 1..m)
    BY <1>17, TotalIsSum
  <2>. QED
    BY <2>1, <2>2
<1>. QED
  BY <1>1, <1>7, <1>8, <1>12, <1>13, <1>14, <1>15, <1>18 DEF slots

-------------------------------------------------------------------------------
(***************************************************************************)
(* What a room costs                                                       *)
(***************************************************************************)

\* Rates that can be paid, in a currency with an exchange rate on file.
RatesPriced(rates, presentation, fx) ==
  \A r \in rates : /\ r.amount \in Int /\ {r.discount, r.child} \subseteq Int \cup {None}
                   /\ fx[<<r.currency, presentation>>] \in Int \X (Nat \ {0})

LEMMA CostIsNumber ==
  ASSUME NEW rate, NEW amount \in Int, rate.discount \in Int \cup {None}
  PROVE  CostedRate(rate, amount) \in Int
<1>1. Discount(rate) \in Int
  BY DEF Discount
<1>2. PICK d \in Int : d = Discount(rate)
  BY <1>1
<1>3. /\ (amount * (100 - d)) \div 100 \in Int /\ (amount * (200 - d)) \div 200 \in Int
  <2>1. amount * (100 - d) \in Int /\ amount * (200 - d) \in Int
    OBVIOUS
  <2>2. \A n \in Int : n \div 100 \in Int /\ n \div 200 \in Int
    OBVIOUS
  <2>. QED
    BY <2>1, <2>2
<1>4. CostedRate(rate, amount) = IF rate.kind = "sto" THEN (amount * (100 - d)) \div 100
                                 ELSE (amount * (200 - d)) \div 200
  BY <1>2 DEF CostedRate, SupplierPaid
<1>. QED
  BY <1>3, <1>4

LEMMA ConvertedIsNumber ==
  ASSUME NEW amount \in Int, NEW rate \in Int \X (Nat \ {0})
  PROVE  Convert(amount, rate) \in Int
<1>1. rate[1] \in Int /\ rate[2] \in Nat \ {0}
  OBVIOUS
<1>2. PICK n \in Int : n = amount * rate[1]
  BY <1>1
<1>3. PICK d \in Nat \ {0} : d = rate[2]
  BY <1>1
<1>4. n \div d \in Int
  BY Z3
<1>. QED
  BY <1>2, <1>3, <1>4 DEF Convert

\* Amounts of several currencies, as one.
LEMMA LandedIsNumber ==
  ASSUME NEW n \in Nat, NEW amounts, DOMAIN amounts = 1..n,
         \A i \in 1..n : amounts[i].amount \in Int,
         NEW presentation, NEW fx,
         \A i \in 1..n : fx[<<amounts[i].currency, presentation>>] \in Int \X (Nat \ {0})
  PROVE  InPresentation(amounts, presentation, fx) \in Int
<1>. DEFINE own(c) == [i \in DOMAIN amounts |-> IF amounts[i].currency = c THEN amounts[i].amount ELSE 0]
            S == {amounts[i].currency : i \in DOMAIN amounts}
            f == [c \in S |-> Convert(Total(own(c)), fx[<<c, presentation>>])]
            step(s, g) == IF s = {} THEN 0
                          ELSE LET c == CHOOSE x \in s : TRUE
                               IN  g[s \ {c}] + Convert(Total(own(c)), fx[<<c, presentation>>])
            chosen == CHOOSE g : g = [s \in SUBSET S |-> step(s, g)]
<1>1. InPresentation(amounts, presentation, fx) = chosen[S]
  BY DEF InPresentation, FoldSet, MapThenFoldSet
<1>2. IsFiniteSet(S)
  <2>1. IsFiniteSet(DOMAIN amounts)
    BY FS_Interval
  <2>. DEFINE h == [i \in DOMAIN amounts |-> amounts[i].currency]
  <2>2. S = {h[i] : i \in DOMAIN amounts}
    OBVIOUS
  <2>. HIDE DEF h, S
  <2>. QED
    BY <2>1, <2>2, ImagesAreFinite
<1>3. ASSUME NEW c \in S PROVE f[c] \in Int
  <2>1. Total(own(c)) \in Int
    <3>1. DOMAIN own(c) = 1..n /\ \A i \in 1..n : own(c)[i] \in Int
      OBVIOUS
    <3>2. IsFiniteSet(1..n)
      BY FS_Interval
    <3>. DEFINE mine == own(c)
    <3>3. DOMAIN mine = 1..n /\ Integral(mine, 1..n)
      BY <3>1 DEF Integral
    <3>. HIDE DEF mine
    <3>4. Total(mine) = SumFunctionOnSet(mine, 1..n)
      BY <3>3, TotalIsSum
    <3>5. SumFunctionOnSet(mine, 1..n) \in Int
      BY <3>2, <3>3, SumIsInt
    <3>. QED
      BY <3>4, <3>5 DEF mine
  <2>2. fx[<<c, presentation>>] \in Int \X (Nat \ {0})
    OBVIOUS
  <2>3. f[c] = Convert(Total(own(c)), fx[<<c, presentation>>])
    OBVIOUS
  <2>. HIDE DEF own, f, S
  <2>. QED
    BY <2>1, <2>2, <2>3, ConvertedIsNumber
<1>4. Integral(f, S)
  BY <1>3 DEF Integral
<1>5. \A g : IsSumOf(f, S, g) <=> g = [s \in SUBSET S |-> step(s, g)]
  <2>1. ASSUME NEW g, NEW s \in SUBSET S PROVE Added(f, s, g) = step(s, g)
    <3>1. CASE s = {}
      BY <3>1 DEF Added
    <3>2. CASE s # {}
      <4>. DEFINE c == CHOOSE x \in s : TRUE
      <4>1. c \in S
        BY <3>2
      <4>2. f[c] = Convert(Total(own(c)), fx[<<c, presentation>>])
        BY <4>1
      <4>3. Added(f, s, g) = g[s \ {c}] + f[c]
        BY <3>2 DEF Added
      <4>4. step(s, g) = g[s \ {c}] + Convert(Total(own(c)), fx[<<c, presentation>>])
        BY <3>2
      <4>. QED
        BY <4>2, <4>3, <4>4
    <3>. QED
      BY <3>1, <3>2
  <2>2. ASSUME NEW g PROVE [s \in SUBSET S |-> Added(f, s, g)] = [s \in SUBSET S |-> step(s, g)]
    <3>. HIDE DEF f, step, S
    <3>. QED
      BY <2>1
  <2>. HIDE DEF f, step, S
  <2>. QED
    BY <2>2 DEF IsSumOf
<1>. HIDE DEF f, step, S
<1>6. IsSumOf(f, S, chosen) /\ chosen[S] = SumFunctionOnSet(f, S)
  <2>1. (\E g : IsSumOf(f, S, g)) /\ (\A g : IsSumOf(f, S, g) => g[S] = SumFunctionOnSet(f, S))
    BY <1>2, <1>4, SumIsAdded
  <2>2. IsSumOf(f, S, chosen)
    BY <1>5, <2>1
  <2>. QED
    BY <2>1, <2>2
<1>7. SumFunctionOnSet(f, S) \in Int
  BY <1>2, <1>4, SumIsInt
<1>. QED
  BY <1>1, <1>6, <1>7

LEMMA NoneIsRefused ==
  ASSUME NEW rates, None \notin RefusalsOf(rates), NEW T, NEW slots \in Seq(T),
         \A s \in T : s.rate \in rates \cup {None}, NEW nights, Refusal(slots, nights) = None
  PROVE  \A i \in DOMAIN slots : /\ slots[i].rate \in rates /\ slots[i].rate # None
                                 /\ MeetsMinimumStay(nights, slots[i].rate)
<1>. DEFINE K == {i \in DOMAIN slots : slots[i].rate = None \/ ~MeetsMinimumStay(nights, slots[i].rate)}
            refused == RowsAt(slots, K)
            first == Head(refused)
<1>1. Refusal(slots, nights)
        = IF refused = <<>> THEN None
          ELSE IF first.rate = None THEN [why |-> "unhousable"]
          ELSE [why |-> "short", minNights |-> first.rate.minNights]
  BY Zenon DEF Refusal, Kept
<1>2. K \in SUBSET DOMAIN slots
  OBVIOUS
<1>3. \A i \in DOMAIN slots \ K : slots[i].rate # None /\ MeetsMinimumStay(nights, slots[i].rate)
  OBVIOUS
<1>. HIDE DEF K
<1>4. refused \in Seq(T) /\ Range(refused) = {slots[i] : i \in K}
  BY <1>2, ListKept
<1>. HIDE DEF refused
<1>5. refused = <<>>
  <2>1. SUFFICES ASSUME refused # <<>> PROVE FALSE
    OBVIOUS
  <2>2. first \in T
    BY <1>4, <2>1
  <2>3. first.rate = None \/ first.rate \in rates
    BY <2>2
  <2>. HIDE DEF first
  <2>4. Refusal(slots, nights) \in RefusalsOf(rates)
    BY <1>1, <2>1, <2>3 DEF RefusalsOf
  <2>. QED
    BY <2>4
<1>6. K = {}
  <2>1. Range(refused) = {}
    <3>1. DOMAIN refused = {}
      BY <1>5
    <3>. QED
      BY <3>1 DEF Range
  <2>. QED
    BY <1>4, <2>1
<1>7. \A i \in DOMAIN slots : slots[i] \in T
  OBVIOUS
<1>. QED
  BY <1>3, <1>6, <1>7

\* What is charged for a room-night at a rate on file is a number.
SlotCharged(s) == RoomCharge(s) \in Int /\ ChildCharge(s) \in Int

LEMMA SlotIsCharged ==
  ASSUME NEW rates, NEW presentation, NEW fx, RatesPriced(rates, presentation, fx), None \notin Int,
         NEW s, s.rate \in rates, s.children \in Nat, s.children > 0 => s.rate.child # None
  PROVE  /\ SlotCharged(s) /\ fx[<<s.rate.currency, presentation>>] \in Int \X (Nat \ {0})
         /\ s.children > 0 => CostedRate(s.rate, s.rate.child) \in Int
<1>1. /\ s.rate.amount \in Int /\ s.rate.discount \in Int \cup {None} /\ s.rate.child \in Int \cup {None}
      /\ fx[<<s.rate.currency, presentation>>] \in Int \X (Nat \ {0})
  BY DEF RatesPriced
<1>2. RoomCharge(s) \in Int
  BY <1>1, CostIsNumber DEF RoomCharge
<1>3. CASE s.children = 0
  BY <1>1, <1>2, <1>3 DEF SlotCharged, ChildCharge
<1>4. CASE s.children # 0
  <2>1. s.rate.child \in Int
    BY <1>1, <1>4
  <2>2. CostedRate(s.rate, s.rate.child) \in Int
    BY <1>1, <2>1, CostIsNumber
  <2>3. CostedRate(s.rate, s.rate.child) * s.children \in Int
    BY <2>2
  <2>4. ChildCharge(s) \in Int
    BY <1>4, <2>3 DEF ChildCharge
  <2>. QED
    BY <1>1, <1>2, <2>2, <2>4 DEF SlotCharged
<1>. QED
  BY <1>3, <1>4

\* A room-night that may be sold: at a rate of its own, its children on beds of theirs.
Sold(s, rates, stay, beds) ==
  /\ s.residence \in Residences(stay.group) /\ s.night \in Range(stay.nights)
  /\ s.guests \in 0..beds /\ s.children \in Nat
  /\ s.rate \in FitFor(rates, s.residence, s.night, s.guests)
  /\ s.children > 0 => s.rate.child # None
  /\ MeetsMinimumStay(Len(stay.nights), s.rate)

\* What is known of a stay, and of the rates it is priced at.
StayRead(rates, capacity, stay, g, d, fx) ==
  /\ RatesRead(rates, capacity) /\ IsGroup(stay.group, g) /\ Nightly(stay, d)
  /\ RatesPriced(rates, stay.presentation, fx)
  /\ None \notin Int /\ None \notin RefusalsOf(rates)

LEMMA RoomIsSold ==
  ASSUME NEW rates, NEW capacity, NEW stay, NEW g, NEW d, NEW fx,
         StayRead(rates, capacity, stay, g, d, fx), NEW room \in DOMAIN capacity,
         Refusal(RoomNights(rates, stay, capacity[room]), Len(stay.nights)) = None
  PROVE  LET slots == RoomNights(rates, stay, capacity[room])
         IN  /\ slots \in Seq(Range(slots))
             /\ \A s \in Range(slots) : Sold(s, rates, stay, capacity[room])
             /\ CostOfSlots(slots, stay.presentation, fx) \in Int
<1>. DEFINE beds == capacity[room]
            slots == RoomNights(rates, stay, beds)
            T == SlotsOf(rates, stay, beds)
<1>1. /\ RatesRead(rates, capacity) /\ IsGroup(stay.group, g) /\ Nightly(stay, d)
      /\ RatesPriced(rates, stay.presentation, fx)
      /\ None \notin Int /\ None \notin RefusalsOf(rates)
  BY DEF StayRead
<1>2. beds \in Nat \ {0}
  BY <1>1 DEF RatesRead
<1>. HIDE DEF beds
<1>3. slots \in Seq(T)
  BY <1>1, <1>2, RoomNightsListed
<1>4. ASSUME NEW s \in T
      PROVE  /\ s.residence \in Residences(stay.group) /\ s.night \in Range(stay.nights)
             /\ s.guests \in 0..beds /\ s.children \in Nat
             /\ s.rate = RateFor(rates, s.residence, s.night, s.guests, stay.presentation)
             /\ s.children > 0 => s.rate.child # None
             /\ s.rate \in rates \cup {None}
             /\ s.rate \in FitFor(rates, s.residence, s.night, s.guests) \cup {None}
  <2>1. /\ s.residence \in Residences(stay.group) /\ s.night \in Range(stay.nights)
        /\ s.guests \in 0..beds /\ s.children \in Nat
        /\ s.rate = RateFor(rates, s.residence, s.night, s.guests, stay.presentation)
        /\ s.children > 0 => s.rate # None /\ s.rate.child # None
    BY <1>1, <1>2, <1>4, SlotsAreFor
  <2>2. /\ RateFor(rates, s.residence, s.night, s.guests, stay.presentation) \in rates \cup {None}
        /\ RateFor(rates, s.residence, s.night, s.guests, stay.presentation)
             \in FitFor(rates, s.residence, s.night, s.guests) \cup {None}
    BY <1>1, RateOfNight
  <2>. QED
    BY <2>1, <2>2
<1>. HIDE DEF slots, T
<1>5. Refusal(slots, Len(stay.nights)) = None
  BY DEF slots, beds
<1>6. \A i \in DOMAIN slots : /\ slots[i].rate \in rates /\ slots[i].rate # None
                              /\ MeetsMinimumStay(Len(stay.nights), slots[i].rate)
  <2>1. \A s \in T : s.rate \in rates \cup {None}
    BY <1>4
  <2>. QED
    BY <1>1, <1>3, <1>5, <2>1, NoneIsRefused
<1>7. PICK n \in Nat : DOMAIN slots = 1..n /\ slots \in [1..n -> T]
  BY <1>3
<1>8. Range(slots) \subseteq T /\ slots \in Seq(Range(slots))
  <2>1. Range(slots) \subseteq T /\ slots \in [1..n -> Range(slots)]
    BY <1>7 DEF Range
  <2>. QED
    BY <2>1
<1>9. ASSUME NEW s \in Range(slots)
      PROVE  s.rate \in rates /\ s.rate # None /\ MeetsMinimumStay(Len(stay.nights), s.rate)
  BY <1>6 DEF Range
<1>10. ASSUME NEW s \in Range(slots) PROVE Sold(s, rates, stay, beds)
  <2>1. s \in T
    BY <1>8
  <2>2. s.rate # None /\ MeetsMinimumStay(Len(stay.nights), s.rate)
    BY <1>9
  <2>. QED
    BY <1>4, <2>1, <2>2 DEF Sold
<1>11. ASSUME NEW s \in Range(slots)
       PROVE  SlotCharged(s) /\ fx[<<s.rate.currency, stay.presentation>>] \in Int \X (Nat \ {0})
  <2>1. s.rate \in rates /\ s.children \in Nat /\ (s.children > 0 => s.rate.child # None)
    BY <1>9, <1>10 DEF Sold
  <2>. QED
    BY <1>1, <2>1, SlotIsCharged
<1>. DEFINE amounts == [i \in DOMAIN slots |-> [currency |-> slots[i].rate.currency,
                                             amount   |-> RoomCharge(slots[i]) + ChildCharge(slots[i])]]
<1>12. /\ DOMAIN amounts = 1..n
       /\ \A i \in 1..n : /\ amounts[i].amount \in Int
                          /\ fx[<<amounts[i].currency, stay.presentation>>] \in Int \X (Nat \ {0})
  <2>1. \A i \in 1..n : slots[i] \in Range(slots)
    BY <1>7 DEF Range
  <2>. QED
    BY <1>7, <1>11, <2>1 DEF SlotCharged
<1>13. CostOfSlots(slots, stay.presentation, fx) = InPresentation(amounts, stay.presentation, fx)
  BY DEF CostOfSlots
<1>. HIDE DEF amounts
<1>14. InPresentation(amounts, stay.presentation, fx) \in Int
  BY <1>12, LandedIsNumber
<1>. QED
  BY <1>8, <1>10, <1>13, <1>14 DEF slots, beds

LEMMA FewerRatesRead ==
  ASSUME NEW rates, NEW capacity, NEW stay, NEW g, NEW d, NEW fx,
         StayRead(rates, capacity, stay, g, d, fx), NEW rows \in SUBSET rates
  PROVE  StayRead(rows, capacity, stay, g, d, fx)
<1>1. RatesRead(rates, capacity) /\ IsFiniteSet(rows)
  BY FS_Subset DEF StayRead, RatesRead
<1>2. RatesRead(rows, capacity)
  BY <1>1 DEF RatesRead
<1>3. RatesPriced(rows, stay.presentation, fx)
  BY DEF StayRead, RatesPriced
<1>4. None \notin RefusalsOf(rows)
  BY DEF StayRead, RefusalsOf
<1>. QED
  BY <1>2, <1>3, <1>4 DEF StayRead

\* A stay that is priced is sold a room, at rates of its plan.
SoldAs(priced, room, rows, capacity, stay) ==
  /\ room \in DOMAIN capacity /\ priced.best.room = room
  /\ \A r \in rows : r.plan = priced.plan
  /\ priced.best.slots = RoomNights(rows, stay, capacity[room])
  /\ Refusal(RoomNights(rows, stay, capacity[room]), Len(stay.nights)) = None

LEMMA StayIsSold ==
  ASSUME NEW rates, NEW capacity, NEW stay, NEW g, NEW d, NEW fx, NEW requested,
         StayRead(RatesOf(rates, stay), capacity, stay, g, d, fx),
         PriceStay(rates, capacity, stay, requested, fx).status = "priced"
  PROVE  \E room, rows : /\ SoldAs(PriceStay(rates, capacity, stay, requested, fx), room, rows, capacity, stay)
                         /\ StayRead(rows, capacity, stay, g, d, fx)
<1>. DEFINE usable == RatesOf(rates, stay)
            plan == ResolvePlan(requested, PlansForAll(usable))
            onPlan == {r \in usable : r.plan = plan}
            of(room) == {r \in onPlan : r.room = room}
            attempt(room) == PriceRoomType(room, of(room), stay, capacity[room], fx)
            rooms == {r.room : r \in onPlan}
            attempts == {attempt(room) : room \in rooms}
            offers == {a \in attempts : a.refusal = None}
            cheapest == CHOOSE a \in offers : \A other \in offers : a.costed <= other.costed
            priced == PriceStay(rates, capacity, stay, requested, fx)
<1>1. priced = IF usable = {} THEN NoRoom("no_rates")
               ELSE IF plan = None THEN NoRoom("no_plan")
               ELSE CheapestRoom(attempts, plan, onPlan, stay.nights)
  BY DEF PriceStay
<1>2. /\ onPlan \in SUBSET usable /\ \A r \in onPlan : r.plan = plan
      /\ \A room : of(room) \in SUBSET usable /\ \A r \in of(room) : r.plan = plan
  OBVIOUS
<1>3. IsFiniteSet(onPlan) /\ \A r \in usable : r.room \in DOMAIN capacity
  BY <1>2, FS_Subset DEF StayRead, RatesRead
<1>. HIDE DEF plan, onPlan, of
<1>4. \A room : StayRead(of(room), capacity, stay, g, d, fx)
  BY <1>2, FewerRatesRead
<1>. HIDE DEF usable
<1>5. priced = CheapestRoom(attempts, plan, onPlan, stay.nights)
  BY <1>1 DEF NoRoom
<1>. HIDE DEF priced
<1>6. offers # {} /\ priced.plan = plan /\ priced.best = cheapest
  <2>. DEFINE short == {a \in attempts : a.refusal # None /\ a.refusal.why = "short"}
              least == {a.refusal.minNights : a \in short}
              uncovered == {n \in Range(stay.nights) : \A r \in onPlan : n \notin r.since..r.until}
  <2>. HIDE DEF attempts
  <2>1. CheapestRoom(attempts, plan, onPlan, stay.nights)
          = IF offers # {}
            THEN [status |-> "priced", minNights |-> None, plan |-> plan, best |-> cheapest]
            ELSE IF short # {} THEN [NoRoom("declined") EXCEPT !.minNights = Min(least)]
            ELSE NoRoom(IF uncovered # {} THEN "season_gap" ELSE "unhousable")
    BY Zenon DEF CheapestRoom
  <2>. HIDE DEF offers, cheapest, uncovered, least, short
  <2>2. CASE offers # {}
    BY <1>5, <2>1, <2>2
  <2>3. CASE offers = {} /\ short = {}
    <3>1. priced = NoRoom(IF uncovered # {} THEN "season_gap" ELSE "unhousable")
      BY <1>5, <2>1, <2>3
    <3>. QED
      BY <3>1 DEF priced, NoRoom
  <2>4. CASE offers = {} /\ short # {}
    <3>1. priced = [NoRoom("declined") EXCEPT !.minNights = Min(least)]
      BY <1>5, <2>1, <2>4
    <3>. QED
      BY <3>1 DEF priced, NoRoom
  <2>. QED
    BY <2>2, <2>3, <2>4
<1>7. ASSUME NEW a \in offers
      PROVE  /\ a.costed \in Int
             /\ \E room \in DOMAIN capacity :
                  /\ a.room = room
                  /\ a.slots = RoomNights(of(room), stay, capacity[room])
                  /\ Refusal(RoomNights(of(room), stay, capacity[room]), Len(stay.nights)) = None
  <2>1. PICK room \in rooms : a = attempt(room)
    OBVIOUS
  <2>. DEFINE slots == RoomNights(of(room), stay, capacity[room])
  <2>2. /\ a.refusal = Refusal(slots, Len(stay.nights)) /\ a.room = room /\ a.slots = slots
        /\ a.costed = IF a.refusal # None THEN None ELSE CostOfSlots(slots, stay.presentation, fx)
    BY <2>1 DEF PriceRoomType, RoomTypePriced
  <2>3. a.refusal = None
    OBVIOUS
  <2>4. room \in DOMAIN capacity
    BY <1>2, <1>3
  <2>. HIDE DEF attempt, attempts, rooms, offers
  <2>5. Refusal(slots, Len(stay.nights)) = None
    BY <2>2, <2>3
  <2>6. CostOfSlots(slots, stay.presentation, fx) \in Int
    BY <1>4, <2>4, <2>5, RoomIsSold
  <2>. QED
    BY <2>2, <2>3, <2>4, <2>5, <2>6
<1>8. IsFiniteSet(offers)
  <2>1. IsFiniteSet(rooms)
    <3>. DEFINE f == [r \in onPlan |-> r.room]
    <3>1. rooms = {f[r] : r \in onPlan}
      OBVIOUS
    <3>. HIDE DEF f, rooms
    <3>. QED
      BY <1>3, <3>1, ImagesAreFinite
  <2>2. IsFiniteSet(attempts)
    <3>. HIDE DEF attempt, rooms
    <3>. DEFINE f == [room \in rooms |-> attempt(room)]
    <3>1. attempts = {f[room] : room \in rooms}
      OBVIOUS
    <3>. HIDE DEF f, attempts
    <3>. QED
      BY <2>1, <3>1, ImagesAreFinite
  <2>. HIDE DEF attempts
  <2>3. offers \in SUBSET attempts
    OBVIOUS
  <2>. HIDE DEF offers
  <2>. QED
    BY <2>2, <2>3, FS_Subset
<1>. HIDE DEF attempts, offers
<1>9. \E a \in offers : \A other \in offers : a.costed <= other.costed
  <2>. DEFINE before == {xy \in offers \X offers : xy[1].costed <= xy[2].costed}
  <2>1. \A x, y \in offers : <<x, y>> \in before <=> x.costed <= y.costed
    OBVIOUS
  <2>. HIDE DEF before
  <2>2. \A x \in offers : x.costed \in Int
    BY <1>7
  <2>3. Orders(before, offers)
    <3>1. \A x, y \in offers : x # y => <<x, y>> \in before \/ <<y, x>> \in before
      BY <2>1, <2>2
    <3>2. \A x, y, z \in offers : <<x, y>> \in before /\ <<y, z>> \in before => <<x, z>> \in before
      BY <2>1, <2>2
    <3>. QED
      BY <1>6, <1>8, <3>1, <3>2 DEF Orders
  <2>4. PICK x \in offers : \A y \in offers : x = y \/ <<x, y>> \in before
    BY <2>3, LeastOfAll
  <2>5. ASSUME NEW y \in offers PROVE x.costed <= y.costed
    <3>1. x.costed \in Int /\ (x = y \/ x.costed <= y.costed)
      BY <2>1, <2>2, <2>4
    <3>. QED
      BY <3>1
  <2>. QED
    BY <2>5
<1>10. cheapest \in offers
  BY <1>9
<1>. HIDE DEF cheapest
<1>11. PICK room \in DOMAIN capacity :
         /\ cheapest.room = room
         /\ cheapest.slots = RoomNights(of(room), stay, capacity[room])
         /\ Refusal(RoomNights(of(room), stay, capacity[room]), Len(stay.nights)) = None
  BY <1>7, <1>10
<1>12. SoldAs(priced, room, of(room), capacity, stay)
  BY <1>2, <1>6, <1>11 DEF SoldAs
<1>. QED
  BY <1>4, <1>12 DEF priced

-------------------------------------------------------------------------------
(***************************************************************************)
(* The worksheet of a stay                                                 *)
(***************************************************************************)

\* Lines, one for each key, that hold what is under the key.
Keyed(f, S, key, K, line, val) ==
  /\ IsFiniteSet(S) /\ Integral(f, S) /\ K = {key[x] : x \in S}
  /\ \A k, l \in K : line[k] = line[l] => k = l
  /\ \A k \in K : val[line[k]] = SumFunctionOnSet(f, UnderKey(S, key, k))

LEMMA LinesAddUp ==
  ASSUME NEW f, NEW S, NEW key, NEW K, NEW line, NEW val, Keyed(f, S, key, K, line, val)
  PROVE  /\ IsFiniteSet({line[k] : k \in K}) /\ Integral(val, {line[k] : k \in K})
         /\ SumFunctionOnSet(val, {line[k] : k \in K}) = SumFunctionOnSet(f, S)
<1>. DEFINE parts == [k \in K |-> SumFunctionOnSet(f, UnderKey(S, key, k))]
<1>1. /\ IsFiniteSet(S) /\ Integral(f, S) /\ K = {key[x] : x \in S}
      /\ \A k, l \in K : line[k] = line[l] => k = l
      /\ \A k \in K : val[line[k]] = SumFunctionOnSet(f, UnderKey(S, key, k))
  BY DEF Keyed
<1>2. IsFiniteSet(K) /\ \A x \in S : key[x] \in K
  BY <1>1, ImagesAreFinite
<1>3. /\ \A k \in K : parts[k] = SumFunctionOnSet(f, UnderKey(S, key, k))
      /\ \A k \in K : parts[k] = val[line[k]]
  BY <1>1
<1>. HIDE DEF parts
<1>4. Integral(parts, K) /\ SumFunctionOnSet(parts, K) = SumFunctionOnSet(f, S)
  <2>1. IsFiniteSet(S) /\ Integral(f, S)
    BY <1>1
  <2>2. \A k \in K : parts[k] = SumFunctionOnSet(f, UnderKey(S, key, k))
    BY <1>3
  <2>. QED
    BY <1>2, <2>1, <2>2, SumByKey
<1>5. SumFunctionOnSet(parts, K) = SumFunctionOnSet(val, {line[k] : k \in K})
  <2>1. IsFiniteSet(K) /\ Integral(parts, K)
    BY <1>2, <1>4
  <2>2. \A k, l \in K : line[k] = line[l] => k = l
    BY <1>1
  <2>3. \A k \in K : parts[k] = val[line[k]]
    BY <1>3
  <2>. QED
    BY <2>1, <2>2, <2>3, SumRenames
<1>6. IsFiniteSet({line[k] : k \in K})
  BY <1>2, ImagesAreFinite
<1>7. Integral(val, {line[k] : k \in K})
  BY <1>3, <1>4 DEF Integral
<1>. QED
  BY <1>4, <1>5, <1>6, <1>7

\* The lines for the rooms, and those for the children.
RoomKey(s) == <<s.rate, s.guests, s.residence>>
ChildKey(s) == <<s.rate, s.residence>>
NightsUnder(slots, key) == Len(Kept(slots, LAMBDA s : RoomKey(s) = key))
ChildNightsUnder(slots, key) ==
  Total([i \in DOMAIN slots |-> IF ChildKey(slots[i]) = key THEN slots[i].children ELSE 0])
RoomLine(slots, key) ==
  [rate |-> key[1], residence |-> key[3], of |-> "room", guests |-> key[2],
   quantity |-> NightsUnder(slots, key),
   extended |-> CostedRate(key[1], key[1].amount) * NightsUnder(slots, key)]
ChildLine(slots, key) ==
  [rate |-> key[1], residence |-> key[2], of |-> "child", guests |-> None,
   quantity |-> ChildNightsUnder(slots, key),
   extended |-> CostedRate(key[1], key[1].child) * ChildNightsUnder(slots, key)]
LinesOfRooms(slots) == {RoomLine(slots, key) : key \in {RoomKey(s) : s \in Range(slots)}}
LinesOfChildren(slots) ==
  {ChildLine(slots, key) : key \in {ChildKey(s) : s \in {t \in Range(slots) : t.children > 0}}}

LEMMA WorksheetIs ==
  ASSUME NEW slots
  PROVE  Worksheet(slots) = LinesOfRooms(slots) \cup LinesOfChildren(slots)
BY Zenon DEF Worksheet, LinesOfRooms, LinesOfChildren, RoomLine, ChildLine, NightsUnder, ChildNightsUnder,
       RoomKey, ChildKey

SlotsCharged(slots, n) ==
  /\ n \in Nat /\ DOMAIN slots = 1..n /\ slots \in Seq(Range(slots))
  /\ \A i \in 1..n : /\ SlotCharged(slots[i]) /\ slots[i].children \in Nat
                     /\ slots[i].children > 0 => CostedRate(slots[i].rate, slots[i].rate.child) \in Int

\* What a line counts towards a currency.
Valued(val, lines, currency) ==
  \A l \in lines : val[l] = IF l.rate.currency = currency THEN l.extended ELSE 0

LEMMA RoomLinesAddUp ==
  ASSUME NEW slots, NEW n, SlotsCharged(slots, n), NEW val, NEW currency,
         Valued(val, LinesOfRooms(slots), currency),
         NEW f, f = [i \in 1..n |-> IF slots[i].rate.currency = currency THEN RoomCharge(slots[i]) ELSE 0]
  PROVE  /\ IsFiniteSet(LinesOfRooms(slots)) /\ Integral(val, LinesOfRooms(slots))
         /\ SumFunctionOnSet(val, LinesOfRooms(slots)) = SumFunctionOnSet(f, 1..n)
<1>. DEFINE key == [i \in 1..n |-> RoomKey(slots[i])]
            K == {key[i] : i \in 1..n}
            line == [k \in K |-> RoomLine(slots, k)]
            own(k) == UnderKey(1..n, key, k)
<1>1. /\ n \in Nat /\ DOMAIN slots = 1..n /\ slots \in Seq(Range(slots))
      /\ \A i \in 1..n : RoomCharge(slots[i]) \in Int
  BY DEF SlotsCharged, SlotCharged
<1>2. IsFiniteSet(1..n) /\ Integral(f, 1..n)
  BY <1>1, FS_Interval DEF Integral
<1>3. LinesOfRooms(slots) = {line[k] : k \in K}
  <2>1. Range(slots) = {slots[i] : i \in 1..n}
    BY <1>1 DEF Range
  <2>2. {RoomKey(s) : s \in Range(slots)} = K
    BY <2>1
  <2>. HIDE DEF K
  <2>. QED
    BY <2>2 DEF LinesOfRooms
<1>4. ASSUME NEW k \in K, NEW l \in K, line[k] = line[l] PROVE k = l
  <2>1. /\ k = <<k[1], k[2], k[3]>> /\ l = <<l[1], l[2], l[3]>>
    BY DEF RoomKey
  <2>2. RoomLine(slots, k) = RoomLine(slots, l)
    BY <1>4
  <2>3. k[1] = l[1] /\ k[2] = l[2] /\ k[3] = l[3]
    BY <2>2 DEF RoomLine
  <2>. QED
    BY <2>1, <2>3
<1>5. ASSUME NEW k \in K PROVE val[line[k]] = SumFunctionOnSet(f, own(k))
  <2>. DEFINE each == IF k[1].currency = currency THEN CostedRate(k[1], k[1].amount) ELSE 0
              H == {i \in DOMAIN slots : RoomKey(slots[i]) = k}
  <2>1. PICK i \in 1..n : k = RoomKey(slots[i])
    OBVIOUS
  <2>2. k[1] = slots[i].rate /\ CostedRate(k[1], k[1].amount) \in Int
    BY <1>1, <2>1 DEF RoomKey, RoomCharge
  <2>3. each \in Int
    BY <2>2
  <2>4. \A j \in own(k) : f[j] = each
    <3>1. ASSUME NEW j \in own(k) PROVE j \in 1..n /\ slots[j].rate = k[1]
      BY DEF RoomKey, UnderKey
    <3>. HIDE DEF key, K
    <3>. QED
      BY <3>1 DEF RoomCharge
  <2>5. own(k) = H /\ H \in SUBSET DOMAIN slots
    BY <1>1 DEF UnderKey
  <2>6. NightsUnder(slots, k) = Len(RowsAt(slots, H))
    BY DEF NightsUnder, Kept
  <2>. HIDE DEF key, K, H, own
  <2>7. Len(RowsAt(slots, H)) = Cardinality(H) /\ Cardinality(H) \in Nat
    BY <1>1, <2>5, ListKept
  <2>8. IsFiniteSet(own(k))
    BY <1>1, <1>2, <2>5, FS_Subset
  <2>. HIDE DEF each
  <2>9. SumFunctionOnSet(f, own(k)) = each * Cardinality(own(k))
    BY <2>3, <2>4, <2>8, SumOfConstant
  <2>10. line[k] \in LinesOfRooms(slots) /\ line[k] = RoomLine(slots, k)
    BY <1>3
  <2>11. val[line[k]] = IF k[1].currency = currency
                        THEN CostedRate(k[1], k[1].amount) * NightsUnder(slots, k) ELSE 0
    BY <2>10 DEF Valued, RoomLine
  <2>12. CASE k[1].currency = currency
    BY <2>5, <2>6, <2>7, <2>9, <2>11, <2>12 DEF each
  <2>13. CASE k[1].currency # currency
    <3>1. each = 0
      BY <2>13 DEF each
    <3>. QED
      BY <2>5, <2>7, <2>9, <2>11, <2>13, <3>1
  <2>. QED
    BY <2>12, <2>13
<1>6. /\ \A k, l \in K : line[k] = line[l] => k = l
      /\ \A k \in K : val[line[k]] = SumFunctionOnSet(f, UnderKey(1..n, key, k))
  BY <1>4, <1>5
<1>7. Keyed(f, 1..n, key, K, line, val)
  BY <1>2, <1>6 DEF Keyed
<1>. HIDE DEF key, K, line
<1>8. /\ IsFiniteSet({line[k] : k \in K}) /\ Integral(val, {line[k] : k \in K})
      /\ SumFunctionOnSet(val, {line[k] : k \in K}) = SumFunctionOnSet(f, 1..n)
  BY <1>7, LinesAddUp
<1>. QED
  BY <1>3, <1>8

\* A sum of so many times what is counted.
Scaled(f, g, S, k) ==
  IsFiniteSet(S) /\ Integral(g, S) /\ k \in Int /\ \A x \in S : f[x] = k * g[x]

LEMMA ScaledSum ==
  ASSUME NEW f, NEW g, NEW S, NEW k, Scaled(f, g, S, k)
  PROVE  SumFunctionOnSet(f, S) = k * SumFunctionOnSet(g, S)
BY SumScales DEF Scaled

LEMMA ChildLinesAddUp ==
  ASSUME NEW slots, NEW n, SlotsCharged(slots, n), NEW val, NEW currency,
         Valued(val, LinesOfChildren(slots), currency),
         NEW f, f = [i \in 1..n |-> IF slots[i].rate.currency = currency THEN ChildCharge(slots[i]) ELSE 0]
  PROVE  /\ IsFiniteSet(LinesOfChildren(slots)) /\ Integral(val, LinesOfChildren(slots))
         /\ SumFunctionOnSet(val, LinesOfChildren(slots)) = SumFunctionOnSet(f, 1..n)
<1>. DEFINE S == {i \in 1..n : slots[i].children > 0}
            key == [i \in S |-> ChildKey(slots[i])]
            K == {key[i] : i \in S}
            line == [k \in K |-> ChildLine(slots, k)]
            own(k) == UnderKey(S, key, k)
            children == [i \in 1..n |-> slots[i].children]
<1>1. /\ n \in Nat /\ DOMAIN slots = 1..n
      /\ \A i \in 1..n : /\ ChildCharge(slots[i]) \in Int /\ slots[i].children \in Nat
                         /\ slots[i].children > 0 => CostedRate(slots[i].rate, slots[i].rate.child) \in Int
  BY DEF SlotsCharged, SlotCharged
<1>2. /\ IsFiniteSet(1..n) /\ S \in SUBSET (1..n) /\ IsFiniteSet(S)
      /\ Integral(f, 1..n) /\ Integral(children, 1..n) /\ Integral(f, S)
  <2>1. IsFiniteSet(1..n) /\ S \in SUBSET (1..n)
    BY <1>1, FS_Interval
  <2>2. Integral(f, 1..n) /\ Integral(children, 1..n)
    BY <1>1 DEF Integral
  <2>3. IsFiniteSet(S)
    BY <2>1, FS_Subset
  <2>. HIDE DEF S
  <2>4. Integral(f, S)
    BY <2>1, <2>2 DEF Integral
  <2>. QED
    BY <2>1, <2>2, <2>3, <2>4
<1>3. LinesOfChildren(slots) = {line[k] : k \in K}
  <2>1. Range(slots) = {slots[i] : i \in 1..n}
    BY <1>1 DEF Range
  <2>2. {ChildKey(s) : s \in {t \in Range(slots) : t.children > 0}} = K
    BY <2>1
  <2>. HIDE DEF K
  <2>. QED
    BY <2>2 DEF LinesOfChildren
<1>4. ASSUME NEW k \in K, NEW l \in K, line[k] = line[l] PROVE k = l
  <2>0. PICK i \in S, j \in S : k = key[i] /\ l = key[j]
    OBVIOUS
  <2>1. k = <<k[1], k[2]>> /\ l = <<l[1], l[2]>>
    BY <2>0 DEF ChildKey
  <2>2. ChildLine(slots, k) = ChildLine(slots, l)
    BY <1>4
  <2>3. k[1] = l[1] /\ k[2] = l[2]
    BY <2>2 DEF ChildLine
  <2>. QED
    BY <2>1, <2>3
<1>5. ASSUME NEW k \in K PROVE val[line[k]] = SumFunctionOnSet(f, own(k))
  <2>. DEFINE cost == CostedRate(k[1], k[1].child)
              each == IF k[1].currency = currency THEN cost ELSE 0
              mine == [i \in DOMAIN slots |-> IF ChildKey(slots[i]) = k THEN slots[i].children ELSE 0]
  <2>1. PICK i \in S : k = ChildKey(slots[i])
    OBVIOUS
  <2>2. k[1] = slots[i].rate /\ cost \in Int
    BY <1>1, <2>1 DEF ChildKey
  <2>3. each \in Int
    BY <2>2
  <2>4. ASSUME NEW j \in own(k)
        PROVE  /\ j \in 1..n /\ slots[j].rate = k[1] /\ slots[j].children # 0
               /\ ChildKey(slots[j]) = k
    <3>1. j \in S /\ ChildKey(slots[j]) = k
      BY DEF UnderKey
    <3>. QED
      BY <1>1, <3>1 DEF ChildKey
  <2>5. ASSUME NEW j \in (1..n) \ own(k) PROVE mine[j] = 0
    <3>1. j \notin S => slots[j].children = 0
      BY <1>1
    <3>2. j \in S => ChildKey(slots[j]) # k
      BY DEF UnderKey
    <3>. HIDE DEF S
    <3>. QED
      BY <1>1, <3>1, <3>2
  <2>6. own(k) \in SUBSET (1..n)
    BY DEF UnderKey
  <2>7. ChildNightsUnder(slots, k) = Total(mine)
    BY DEF ChildNightsUnder
  <2>8. DOMAIN mine = 1..n /\ Integral(mine, 1..n) /\ \A j \in own(k) : mine[j] = children[j]
    <3>. HIDE DEF key, K, own, S
    <3>1. DOMAIN mine = 1..n /\ \A j \in 1..n : mine[j] \in Int
      BY <1>1
    <3>2. \A j \in own(k) : mine[j] = children[j]
      BY <1>1, <2>4
    <3>. HIDE DEF mine, children
    <3>. QED
      BY <3>1, <3>2 DEF Integral
  <2>. HIDE DEF key, K, own, S, mine, cost
  <2>9. \A j \in own(k) : f[j] = each * children[j]
    <3>1. ASSUME NEW j \in own(k) PROVE f[j] = each * children[j]
      <4>1. children[j] \in Int /\ children[j] = slots[j].children
        BY <1>1, <2>4
      <4>2. ChildCharge(slots[j]) = cost * slots[j].children
        BY <2>4 DEF ChildCharge, cost
      <4>3. f[j] = IF k[1].currency = currency THEN ChildCharge(slots[j]) ELSE 0
        BY <2>4
      <4>. HIDE DEF children
      <4>. QED
        BY <4>1, <4>2, <4>3
    <3>. QED
      BY <3>1
  <2>. HIDE DEF each, children
  <2>10. IsFiniteSet(own(k)) /\ Integral(children, own(k)) /\ Integral(mine, own(k))
    <3>1. IsFiniteSet(own(k))
      BY <1>2, <2>6, FS_Subset
    <3>. QED
      BY <1>2, <2>6, <2>8, <3>1 DEF Integral
  <2>11. SumFunctionOnSet(f, own(k)) = each * SumFunctionOnSet(children, own(k))
    <3>1. Scaled(f, children, own(k), each)
      BY <2>3, <2>9, <2>10 DEF Scaled
    <3>. QED
      BY <3>1, ScaledSum
  <2>12. SumFunctionOnSet(mine, own(k)) = SumFunctionOnSet(children, own(k))
    BY <2>8, <2>10, SumOfSame
  <2>13. SumFunctionOnSet(mine, own(k)) = SumFunctionOnSet(mine, 1..n)
    <3>1. PICK D : D = 1..n
      OBVIOUS
    <3>2. IsFiniteSet(D) /\ Integral(mine, D) /\ own(k) \in SUBSET D /\ \A j \in D \ own(k) : mine[j] = 0
      BY <1>2, <2>5, <2>6, <2>8, <3>1
    <3>3. SumFunctionOnSet(mine, own(k)) = SumFunctionOnSet(mine, D)
      BY <3>2, SumOverSubset
    <3>. QED
      BY <3>1, <3>3
  <2>14. Total(mine) = SumFunctionOnSet(mine, 1..n)
    BY <1>1, <2>8, TotalIsSum
  <2>15. SumFunctionOnSet(mine, own(k)) \in Int
    BY <2>10, SumIsInt
  <2>16. line[k] \in LinesOfChildren(slots) /\ line[k] = ChildLine(slots, k)
    BY <1>3
  <2>17. val[line[k]] = IF k[1].currency = currency THEN cost * ChildNightsUnder(slots, k) ELSE 0
    BY <2>16 DEF Valued, ChildLine, cost
  <2>18. CASE k[1].currency = currency
    BY <2>7, <2>11, <2>12, <2>13, <2>14, <2>17, <2>18 DEF each
  <2>19. CASE k[1].currency # currency
    <3>1. each = 0
      BY <2>19 DEF each
    <3>. QED
      BY <2>11, <2>12, <2>15, <2>17, <2>19, <3>1
  <2>. QED
    BY <2>18, <2>19
<1>6. /\ \A k, l \in K : line[k] = line[l] => k = l
      /\ \A k \in K : val[line[k]] = SumFunctionOnSet(f, UnderKey(S, key, k))
  BY <1>4, <1>5
<1>7. Keyed(f, S, key, K, line, val)
  BY <1>2, <1>6 DEF Keyed
<1>8. \A i \in (1..n) \ S : f[i] = 0
  <2>1. ASSUME NEW i \in (1..n) \ S PROVE f[i] = 0
    <3>1. i \in 1..n /\ slots[i].children = 0
      BY <1>1
    <3>. HIDE DEF S
    <3>. QED
      BY <3>1 DEF ChildCharge
  <2>. QED
    BY <2>1
<1>. HIDE DEF S, key, K, line
<1>9. /\ IsFiniteSet({line[k] : k \in K}) /\ Integral(val, {line[k] : k \in K})
      /\ SumFunctionOnSet(val, {line[k] : k \in K}) = SumFunctionOnSet(f, S)
  BY <1>7, LinesAddUp
<1>10. SumFunctionOnSet(f, S) = SumFunctionOnSet(f, 1..n)
  <2>1. PICK D : D = 1..n
    OBVIOUS
  <2>2. IsFiniteSet(D) /\ Integral(f, D) /\ S \in SUBSET D /\ \A i \in D \ S : f[i] = 0
    BY <1>2, <1>8, <2>1
  <2>3. SumFunctionOnSet(f, S) = SumFunctionOnSet(f, D)
    BY <2>2, SumOverSubset
  <2>. QED
    BY <2>1, <2>3
<1>. QED
  BY <1>3, <1>9, <1>10

\* What the worksheet says of a currency, and what is charged in it.
LinesTotal(lines) == FoldSet(LAMBDA l, sum : sum + l.extended, 0, lines)
SheetIn(slots, currency) == {l \in Worksheet(slots) : l.rate.currency = currency}
ChargedIn(slots, currency) ==
  Total([i \in DOMAIN slots |-> IF slots[i].rate.currency = currency
                                THEN RoomCharge(slots[i]) + ChildCharge(slots[i]) ELSE 0])

LEMMA FoldOfLines ==
  ASSUME NEW S, IsFiniteSet(S), \A l \in S : l.extended \in Int
  PROVE  LinesTotal(S) = SumFunctionOnSet([l \in S |-> l.extended], S)
<1>. DEFINE f == [l \in S |-> l.extended]
            step(s, g) == IF s = {} THEN 0
                          ELSE g[s \ {CHOOSE x \in s : TRUE}] + (CHOOSE x \in s : TRUE).extended
            chosen == CHOOSE g : g = [s \in SUBSET S |-> step(s, g)]
<1>1. LinesTotal(S) = chosen[S]
  BY DEF LinesTotal, FoldSet, MapThenFoldSet
<1>2. Integral(f, S)
  BY DEF Integral
<1>3. \A g : IsSumOf(f, S, g) <=> g = [s \in SUBSET S |-> step(s, g)]
  <2>1. ASSUME NEW g, NEW s \in SUBSET S PROVE Added(f, s, g) = step(s, g)
    <3>1. CASE s = {}
      BY <3>1 DEF Added
    <3>2. CASE s # {}
      <4>. DEFINE c == CHOOSE x \in s : TRUE
      <4>1. c \in S
        BY <3>2
      <4>2. f[c] = c.extended
        BY <4>1
      <4>3. Added(f, s, g) = g[s \ {c}] + f[c]
        BY <3>2 DEF Added
      <4>4. step(s, g) = g[s \ {c}] + c.extended
        BY <3>2
      <4>. QED
        BY <4>2, <4>3, <4>4
    <3>. QED
      BY <3>1, <3>2
  <2>2. ASSUME NEW g PROVE [s \in SUBSET S |-> Added(f, s, g)] = [s \in SUBSET S |-> step(s, g)]
    <3>. HIDE DEF f, step
    <3>. QED
      BY <2>1
  <2>. HIDE DEF f, step
  <2>. QED
    BY <2>2 DEF IsSumOf
<1>. HIDE DEF f, step
<1>4. chosen[S] = SumFunctionOnSet(f, S)
  <2>1. (\E g : IsSumOf(f, S, g)) /\ (\A g : IsSumOf(f, S, g) => g[S] = SumFunctionOnSet(f, S))
    BY <1>2, SumIsAdded
  <2>2. IsSumOf(f, S, chosen)
    BY <1>3, <2>1
  <2>. QED
    BY <2>1, <2>2
<1>. QED
  BY <1>1, <1>4 DEF f

\* The lines of the worksheet add up to what is charged.
LEMMA LinesAreCharged ==
  ASSUME NEW slots, NEW n, SlotsCharged(slots, n), NEW currency
  PROVE  LinesTotal(SheetIn(slots, currency)) = ChargedIn(slots, currency)
<1>. DEFINE R == LinesOfRooms(slots)
            C == LinesOfChildren(slots)
            W == R \cup C
            val == [l \in W |-> IF l.rate.currency = currency THEN l.extended ELSE 0]
            sheet == SheetIn(slots, currency)
            rooms == [i \in 1..n |-> IF slots[i].rate.currency = currency THEN RoomCharge(slots[i]) ELSE 0]
            children == [i \in 1..n |-> IF slots[i].rate.currency = currency THEN ChildCharge(slots[i]) ELSE 0]
            both == [i \in DOMAIN slots |-> IF slots[i].rate.currency = currency
                                            THEN RoomCharge(slots[i]) + ChildCharge(slots[i]) ELSE 0]
            extended == [l \in sheet |-> l.extended]
<1>1. /\ n \in Nat /\ DOMAIN slots = 1..n
      /\ \A i \in 1..n : RoomCharge(slots[i]) \in Int /\ ChildCharge(slots[i]) \in Int
  BY DEF SlotsCharged, SlotCharged
<1>2. Worksheet(slots) = W
  BY WorksheetIs
<1>3. \A l \in C : l \notin R
  BY DEF LinesOfRooms, LinesOfChildren, RoomLine, ChildLine
<1>. HIDE DEF R, C
<1>4. Valued(val, R, currency) /\ Valued(val, C, currency)
  BY DEF Valued
<1>5. /\ \A l \in W : val[l] = IF l.rate.currency = currency THEN l.extended ELSE 0
      /\ sheet = {l \in W : l.rate.currency = currency}
  BY <1>2 DEF SheetIn
<1>. HIDE DEF val
<1>6. /\ IsFiniteSet(R) /\ Integral(val, R) /\ SumFunctionOnSet(val, R) = SumFunctionOnSet(rooms, 1..n)
  <2>1. Valued(val, LinesOfRooms(slots), currency)
    BY <1>4 DEF R
  <2>. QED
    BY <2>1, RoomLinesAddUp DEF R
<1>7. /\ IsFiniteSet(C) /\ Integral(val, C) /\ SumFunctionOnSet(val, C) = SumFunctionOnSet(children, 1..n)
  <2>1. Valued(val, LinesOfChildren(slots), currency)
    BY <1>4 DEF C
  <2>. QED
    BY <2>1, ChildLinesAddUp DEF C
<1>8. IsFiniteSet(W) /\ Integral(val, W) /\ R \in SUBSET W /\ W \ R = C
  <2>1. IsFiniteSet(W)
    BY <1>6, <1>7, FS_Union
  <2>. QED
    BY <1>3, <1>6, <1>7, <2>1 DEF Integral
<1>. HIDE DEF W
<1>9. SumFunctionOnSet(val, W) = SumFunctionOnSet(val, R) + SumFunctionOnSet(val, C)
  BY <1>8, SumOfBoth
<1>10. /\ Integral(rooms, 1..n) /\ Integral(children, 1..n) /\ IsFiniteSet(1..n)
       /\ \A i \in 1..n : both[i] = rooms[i] + children[i]
       /\ DOMAIN both = 1..n /\ Integral(both, 1..n)
  <2>1. \A i \in 1..n : rooms[i] \in Int /\ children[i] \in Int
    BY <1>1
  <2>2. DOMAIN both = 1..n /\ \A i \in 1..n : both[i] = rooms[i] + children[i]
    BY <1>1
  <2>3. IsFiniteSet(1..n)
    BY <1>1, FS_Interval
  <2>. HIDE DEF rooms, children, both
  <2>. QED
    BY <2>1, <2>2, <2>3 DEF Integral
<1>. HIDE DEF rooms, children, both, sheet
<1>11. SumFunctionOnSet(both, 1..n) = SumFunctionOnSet(rooms, 1..n) + SumFunctionOnSet(children, 1..n)
  <2>1. PICK D : D = 1..n
    OBVIOUS
  <2>2. /\ Integral(rooms, D) /\ Integral(children, D) /\ IsFiniteSet(D)
        /\ \A i \in D : both[i] = rooms[i] + children[i]
    BY <1>10, <2>1
  <2>3. SumFunctionOnSet(both, D) = SumFunctionOnSet(rooms, D) + SumFunctionOnSet(children, D)
    BY <2>2, SumAdds
  <2>. QED
    BY <2>1, <2>3
<1>12. Total(both) = SumFunctionOnSet(both, 1..n)
  BY <1>1, <1>10, TotalIsSum
<1>13. /\ sheet \in SUBSET W /\ IsFiniteSet(sheet) /\ \A l \in W \ sheet : val[l] = 0
       /\ \A l \in sheet : l.extended \in Int /\ extended[l] = val[l]
  <2>1. sheet \in SUBSET W /\ \A l \in W \ sheet : val[l] = 0
    BY <1>5
  <2>2. \A l \in sheet : extended[l] = l.extended /\ val[l] = l.extended
    BY <1>5
  <2>3. IsFiniteSet(sheet)
    BY <1>8, <2>1, FS_Subset
  <2>. HIDE DEF extended
  <2>4. \A l \in sheet : val[l] \in Int
    BY <1>8, <2>1 DEF Integral
  <2>. QED
    BY <2>1, <2>2, <2>3, <2>4
<1>14. SumFunctionOnSet(val, sheet) = SumFunctionOnSet(val, W)
  BY <1>8, <1>13, SumOverSubset
<1>15. LinesTotal(sheet) = SumFunctionOnSet(extended, sheet)
  BY <1>13, FoldOfLines
<1>. HIDE DEF extended
<1>16. SumFunctionOnSet(extended, sheet) = SumFunctionOnSet(val, sheet)
  <2>1. Integral(extended, sheet)
    BY <1>8, <1>13 DEF Integral
  <2>. QED
    BY <1>13, <2>1, SumOfSame
<1>. QED
  BY <1>6, <1>7, <1>9, <1>11, <1>12, <1>14, <1>15, <1>16 DEF ChargedIn, sheet, both

-------------------------------------------------------------------------------
(***************************************************************************)
(* The answer to a stay                                                    *)
(***************************************************************************)

\* A stay that is asked about can be read.
LEMMA AskedStayRead ==
  ASSUME NEW asked \in StayQuestions
  PROVE  \E g, d : StayRead(RatesOf(asked.rates, asked.stay), asked.capacity, asked.stay, g, d, asked.fx)
<1>. DEFINE rates == asked.rates
            capacity == asked.capacity
            stay == asked.stay
            fx == asked.fx
            usable == RatesOf(rates, stay)
<1>0. StayIsRead(asked) /\ None \notin Int
  BY CostingAssumption
<1>1. /\ stay.nights \in Seq(Int)
      /\ \A i, j \in DOMAIN stay.nights : stay.nights[i] = stay.nights[j] => i = j
      /\ IsList(stay.group) /\ \A c \in Range(stay.group) : c.count \in Nat \ {0}
      /\ RatesAreRead(rates, capacity) /\ None \notin RefusalsOf(rates)
      /\ \A r \in usable :
           /\ r.amount \in Int /\ {r.discount, r.child} \subseteq Int \cup {None}
           /\ fx[<<r.currency, stay.presentation>>] \in Int \X (Nat \ {0})
  BY <1>0 DEF StayIsRead
<1>2. usable \in SUBSET rates
  BY DEF RatesOf
<1>. HIDE DEF usable, rates, capacity, stay, fx
<1>3. RatesRead(usable, capacity)
  <2>1. RatesRead(rates, capacity)
    BY <1>1, FiledRatesRead
  <2>2. IsFiniteSet(usable)
    BY <1>2, <2>1, FS_Subset DEF RatesRead
  <2>. QED
    BY <1>2, <2>1, <2>2 DEF RatesRead
<1>4. RatesPriced(usable, stay.presentation, fx) /\ None \notin RefusalsOf(usable)
  BY <1>1, <1>2 DEF RatesPriced, RefusalsOf
<1>5. \E d : Nightly(stay, d)
  <2>1. PICK d \in Nat : DOMAIN stay.nights = 1..d
    BY <1>1
  <2>2. Nightly(stay, d)
    BY <1>1, <2>1 DEF Nightly
  <2>. QED
    BY <2>2
<1>6. \E g : IsGroup(stay.group, g)
  <2>1. stay.group \in Seq(Range(stay.group))
    BY <1>1 DEF IsList
  <2>2. PICK g \in Nat : DOMAIN stay.group = 1..g /\ stay.group \in [1..g -> Range(stay.group)]
    BY <2>1
  <2>3. \A i \in 1..g : stay.group[i].count \in Nat \ {0}
    BY <1>1, <2>2 DEF Range
  <2>4. IsGroup(stay.group, g)
    BY <2>2, <2>3 DEF IsGroup
  <2>. QED
    BY <2>4
<1>7. \E g, d : StayRead(usable, capacity, stay, g, d, fx)
  BY <1>0, <1>3, <1>4, <1>5, <1>6 DEF StayRead
<1>. QED
  BY <1>7 DEF usable, rates, capacity, stay, fx

LEMMA StayHoldsAll ==
  ASSUME NEW rates, NEW capacity, NEW stay, NEW g, NEW d, NEW fx,
         StayRead(rates, capacity, stay, g, d, fx), NEW room \in DOMAIN capacity
  PROVE  \A residence \in Residences(stay.group), night \in Range(stay.nights) :
           People(HereOn(RoomNights(rates, stay, capacity[room]), residence, night))
             = Headcount(stay.group, residence)
<1>1. PICK beds \in Nat \ {0} : beds = capacity[room]
  BY DEF StayRead, RatesRead
<1>2. IsGroup(stay.group, g) /\ Nightly(stay, d)
  BY DEF StayRead
<1>3. ASSUME NEW residence \in Residences(stay.group), NEW night \in Range(stay.nights)
      PROVE  People(HereOn(RoomNights(rates, stay, beds), residence, night))
               = Headcount(stay.group, residence)
  BY <1>2, EverybodyHasABed
<1>. QED
  BY <1>1, <1>3

\* The answer to a stay is what pricing it gives.
StayInv ==
  question = "stay" =>
    /\ given \in StayQuestions
    /\ answer = None \/ answer = PriceStay(given.rates, given.capacity, given.stay, given.requested, given.fx)

LEMMA StayStep ==
  ASSUME StayInv, [Next]_vars
  PROVE  StayInv'
<1>. SUFFICES ASSUME question' = "stay" PROVE StayInv'
  BY DEF StayInv
<1>1. CASE AskStay
  <2>1. /\ answer' = PriceStay(given.rates, given.capacity, given.stay, given.requested, given.fx)
        /\ question' = question /\ given' = given
    BY <1>1 DEF AskStay, Answer
  <2>. QED
    BY <2>1 DEF StayInv
<1>2. CASE UNCHANGED vars
  BY <1>2 DEF StayInv, vars
<1>3. CASE AskPackage \/ AskOrder \/ AskJourney \/ RefuseOffer \/ AskOffer
  BY <1>3 DEF AskPackage, AskOrder, AskJourney, RefuseOffer, AskOffer, Answer
<1>4. CASE IssueOffer
  BY <1>4 DEF IssueOffer, Priced
<1>. QED
  BY <1>1, <1>2, <1>3, <1>4 DEF Next

LEMMA StayInvBeds ==
  ASSUME StayInv
  PROVE  BedsForEveryone
<1>. SUFFICES ASSUME Answered("stay"), answer.status = "priced" PROVE BedsForEveryone
  BY DEF BedsForEveryone
<1>. DEFINE stay == given.stay
            capacity == given.capacity
            group == given.stay.group
            slots == answer.best.slots
            here(residence, night) == Kept(slots, LAMBDA s : s.residence = residence /\ s.night = night)
            people(rows) == Total([i \in DOMAIN rows |-> rows[i].guests + rows[i].children])
            charged(currency) ==
              Total([i \in DOMAIN slots |-> IF slots[i].rate.currency = currency
                                            THEN RoomCharge(slots[i]) + ChildCharge(slots[i]) ELSE 0])
            sheet(currency) == {l \in Worksheet(slots) : l.rate.currency = currency}
<1>1. /\ given \in StayQuestions
      /\ answer = PriceStay(given.rates, capacity, stay, given.requested, given.fx)
  BY DEF StayInv, Answered
<1>2. PICK g, d : StayRead(RatesOf(given.rates, stay), capacity, stay, g, d, given.fx)
  BY <1>1, AskedStayRead
<1>3. PICK room, rows : SoldAs(answer, room, rows, capacity, stay) /\ StayRead(rows, capacity, stay, g, d, given.fx)
  <2>1. PriceStay(given.rates, capacity, stay, given.requested, given.fx).status = "priced"
    BY <1>1
  <2>2. \E room, rows :
          /\ SoldAs(PriceStay(given.rates, capacity, stay, given.requested, given.fx), room, rows, capacity, stay)
          /\ StayRead(rows, capacity, stay, g, d, given.fx)
    BY <1>2, <2>1, StayIsSold
  <2>. QED
    BY <1>1, <2>2
<1>4. /\ room \in DOMAIN capacity /\ answer.best.room = room /\ \A r \in rows : r.plan = answer.plan
      /\ slots = RoomNights(rows, stay, capacity[room])
      /\ Refusal(RoomNights(rows, stay, capacity[room]), Len(stay.nights)) = None
  BY <1>3 DEF SoldAs
<1>5. /\ slots \in Seq(Range(slots)) /\ \A s \in Range(slots) : Sold(s, rows, stay, capacity[room])
  BY <1>3, <1>4, RoomIsSold
<1>6. /\ RatesRead(rows, capacity) /\ IsGroup(group, g) /\ Nightly(stay, d)
      /\ RatesPriced(rows, stay.presentation, given.fx) /\ None \notin Int /\ capacity[room] \in Nat \ {0}
  BY <1>3, <1>4 DEF StayRead, RatesRead
<1>7. ASSUME NEW residence \in Residences(group), NEW night \in Range(stay.nights)
      PROVE  people(here(residence, night)) = Headcount(group, residence)
  <2>1. People(HereOn(RoomNights(rows, stay, capacity[room]), residence, night)) = Headcount(group, residence)
    BY <1>3, <1>4, StayHoldsAll
  <2>2. People(HereOn(slots, residence, night)) = Headcount(group, residence)
    BY <1>4, <2>1
  <2>. HIDE DEF slots, group
  <2>. QED
    BY <2>2 DEF People, HereOn
<1>8. ASSUME NEW s \in Range(slots)
      PROVE  /\ s.guests <= s.rate.occupancy /\ s.guests <= capacity[answer.best.room]
             /\ s.rate.residence = s.residence /\ s.rate.plan = answer.plan
             /\ s.rate.since <= s.night /\ s.night <= s.rate.until
             /\ s.rate.minNights # None => Len(stay.nights) >= s.rate.minNights
             /\ s.children > 0 => s.rate.child # None
  <2>1. Sold(s, rows, stay, capacity[room])
    BY <1>5
  <2>2. /\ s.rate \in rows /\ s.guests \in 0..capacity[room] /\ s.rate.occupancy >= s.guests
        /\ s.rate.residence = s.residence /\ s.rate.since <= s.night /\ s.night <= s.rate.until
        /\ s.children > 0 => s.rate.child # None
        /\ s.rate.minNights = None \/ Len(stay.nights) >= s.rate.minNights
    BY <2>1 DEF Sold, FitFor, MeetsMinimumStay
  <2>3. s.rate.occupancy \in Int /\ s.guests \in Int /\ capacity[room] \in Int
    BY <1>6, <2>2 DEF RatesRead
  <2>. HIDE DEF slots, stay, capacity
  <2>. QED
    BY <1>4, <2>2, <2>3
<1>9. SlotsCharged(slots, Len(slots))
  <2>1. Len(slots) \in Nat /\ DOMAIN slots = 1..Len(slots)
    BY <1>5
  <2>2. ASSUME NEW s \in Range(slots)
        PROVE  /\ SlotCharged(s) /\ s.children \in Nat
               /\ s.children > 0 => CostedRate(s.rate, s.rate.child) \in Int
    <3>1. s.rate \in rows /\ s.children \in Nat /\ (s.children > 0 => s.rate.child # None)
      BY <1>5 DEF Sold, FitFor
    <3>. HIDE DEF slots, stay
    <3>. QED
      BY <1>6, <3>1, SlotIsCharged
  <2>3. \A i \in DOMAIN slots : slots[i] \in Range(slots)
    BY DEF Range
  <2>. HIDE DEF slots
  <2>. QED
    BY <1>5, <2>1, <2>2, <2>3 DEF SlotsCharged
<1>10. ASSUME NEW currency
       PROVE  FoldSet(LAMBDA l, sum : sum + l.extended, 0, sheet(currency)) = charged(currency)
  <2>1. LinesTotal(SheetIn(slots, currency)) = ChargedIn(slots, currency)
    BY <1>9, LinesAreCharged
  <2>. HIDE DEF slots
  <2>. QED
    BY <2>1 DEF LinesTotal, SheetIn, ChargedIn
<1>. HIDE DEF people, here, sheet, charged
<1>11. /\ \A residence \in Residences(group), night \in Range(given.stay.nights) :
            people(here(residence, night)) = Headcount(group, residence)
       /\ \A s \in Range(slots) :
            /\ s.guests <= s.rate.occupancy /\ s.guests <= given.capacity[answer.best.room]
            /\ s.rate.residence = s.residence /\ s.rate.plan = answer.plan
            /\ s.rate.since <= s.night /\ s.night <= s.rate.until
            /\ s.rate.minNights # None => Len(given.stay.nights) >= s.rate.minNights
            /\ s.children > 0 => s.rate.child # None
       /\ \A currency \in {s.rate.currency : s \in Range(slots)} :
            FoldSet(LAMBDA l, sum : sum + l.extended, 0, sheet(currency)) = charged(currency)
  BY <1>7, <1>8, <1>10
<1>. QED
  BY <1>11, Zenon DEF BedsForEveryone, people, here, sheet, charged

\* A stay that is priced has a bed for every traveller on every night, each room at a
\* rate of its own, for any group, rates and rooms.
THEOREM BedsAreForEveryone == Spec => []BedsForEveryone
<1>1. Init => StayInv
  BY DEF Init, StayInv
<1>. QED
  BY <1>1, StayStep, StayInvBeds, PTL DEF Spec

-------------------------------------------------------------------------------
(***************************************************************************)
(* The movements of a journey                                              *)
(***************************************************************************)

\* Rows counted one by one.
LEMMA RowsCounted ==
  ASSUME NEW n \in Nat, NEW S, NEW rows \in [1..n -> S], NEW K \in SUBSET (1..n)
  PROVE  Len(RowsAt(rows, K)) = SumFunctionOnSet([i \in 1..n |-> IF i \in K THEN 1 ELSE 0], 1..n)
<1>. DEFINE one == [i \in 1..n |-> IF i \in K THEN 1 ELSE 0]
<1>0. PICK D : D = 1..n
  OBVIOUS
<1>1. IsFiniteSet(D) /\ IsFiniteSet(K) /\ K \in SUBSET D
  <2>1. IsFiniteSet(D)
    BY <1>0, FS_Interval
  <2>. QED
    BY <1>0, <2>1, FS_Subset
<1>2. /\ Integral(one, D) /\ \A i \in K : one[i] = 1
      /\ \A i \in D \ K : one[i] = 0
  BY <1>0 DEF Integral
<1>. HIDE DEF one
<1>3. SumFunctionOnSet(one, K) = SumFunctionOnSet(one, D)
  BY <1>1, <1>2, SumOverSubset
<1>4. SumFunctionOnSet(one, K) = 1 * Cardinality(K)
  <2>1. PICK k \in Int : k = 1
    OBVIOUS
  <2>2. \A i \in K : one[i] = k
    BY <1>2, <2>1
  <2>3. SumFunctionOnSet(one, K) = k * Cardinality(K)
    BY <1>1, <2>2, SumOfConstant
  <2>. QED
    BY <2>1, <2>3
<1>5. /\ RowsAt(rows, K) \in Seq(S) /\ Len(RowsAt(rows, K)) = Cardinality(K)
      /\ Cardinality(K) \in Nat
  BY RowsKept
<1>. QED
  BY <1>0, <1>3, <1>4, <1>5 DEF one

\* Rows parted by a test, one part after the other.
LEMMA PartedRowsSum ==
  ASSUME NEW T, NEW F, Integral(F, T), NEW m \in Nat, NEW rows \in [1..m -> T],
         NEW K \in SUBSET (1..m), NEW L \in SUBSET (1..m), L = (1..m) \ K
  PROVE  /\ RowsAt(rows, K) \o RowsAt(rows, L) \in Seq(T)
         /\ SumOver(F, RowsAt(rows, K) \o RowsAt(rows, L)) = SumOver(F, rows)
<1>. DEFINE f == [i \in 1..m |-> F[rows[i]]]
<1>1. RowsAt(rows, K) \in Seq(T) /\ RowsAt(rows, L) \in Seq(T)
  BY RowsKept
<1>2. /\ RowsAt(rows, K) \o RowsAt(rows, L) \in Seq(T)
      /\ SumOver(F, RowsAt(rows, K) \o RowsAt(rows, L))
           = SumOver(F, RowsAt(rows, K)) + SumOver(F, RowsAt(rows, L))
  BY <1>1, SumOverJoined
<1>3. /\ SumOver(F, RowsAt(rows, K)) = SumFunctionOnSet(f, K)
      /\ SumOver(F, RowsAt(rows, L)) = SumFunctionOnSet(f, L)
  BY SumOverKept
<1>4. PICK D : D = 1..m /\ IsFiniteSet(D) /\ Integral(f, D) /\ K \in SUBSET D
  BY FS_Interval DEF Integral
<1>5. SumOver(F, rows) = SumFunctionOnSet(f, 1..m)
  <2>1. DOMAIN rows = 1..m
    OBVIOUS
  <2>. QED
    BY <2>1 DEF SumOver
<1>. HIDE DEF f
<1>6. SumFunctionOnSet(f, D) = SumFunctionOnSet(f, K) + SumFunctionOnSet(f, D \ K)
  <2>1. IsFiniteSet(D) /\ Integral(f, D)
    BY <1>4
  <2>2. PICK U \in SUBSET D : U = K
    BY <1>4
  <2>3. SumFunctionOnSet(f, D) = SumFunctionOnSet(f, U) + SumFunctionOnSet(f, D \ U)
    BY <2>1, SumOfBoth
  <2>. QED
    BY <2>2, <2>3
<1>. QED
  BY <1>2, <1>3, <1>4, <1>5, <1>6

\* The journey's own lists.
LEMMA SameFlattening ==
  ASSUME NEW n \in Nat, NEW seqs, DOMAIN seqs = 1..n, Len(seqs) = n
  PROVE  J!FlattenSeq(seqs) = FlattenSeq(seqs)
<1>. DEFINE Step(g) == [i \in 1..n |-> IF i = 1 THEN seqs[i] ELSE g[i - 1] \o seqs[i]]
            chosen == CHOOSE g : g = Step(g)
<1>1. FlattenSeq(seqs) = IF n = 0 THEN seqs ELSE chosen[n]
  BY DEF FlattenSeq
<1>2. J!FlattenSeq(seqs) = IF n = 0 THEN seqs ELSE chosen[n]
  BY DEF J!FlattenSeq
<1>. HIDE DEF chosen
<1>. QED
  BY <1>1, <1>2

\* The movements in the order they are numbered.
InTurn(segments) == J!Sorted(segments, LAMBDA a, b : a.seq < b.seq)

LEMMA MovementsInTurn ==
  ASSUME NEW n \in Nat, NEW S, NEW segments \in [1..n -> S],
         \A i \in 1..n : segments[i].seq \in Int
  PROVE  \E from \in Bijection(1..n, 1..n) : InTurn(segments) = [k \in 1..n |-> segments[from[k]]]
<1>. DEFINE b == {ij \in (1..n) \X (1..n) : segments[ij[1]].seq < segments[ij[2]].seq}
            from == SortedFrom(b, n)
            place == [i \in DOMAIN segments |->
                        J!PlaceIn(segments, i, LAMBDA x, y : x.seq < y.seq)]
<1>1. DOMAIN segments = 1..n
  OBVIOUS
<1>2. InTurn(segments) = [k \in DOMAIN segments |-> segments[CHOOSE i \in DOMAIN segments : place[i] = k]]
  BY Zenon DEF InTurn, J!Sorted
<1>3. \A i, j \in 1..n : <<i, j>> \in b <=> segments[i].seq < segments[j].seq
  OBVIOUS
<1>. HIDE DEF b
<1>4. Ranks(b, n)
  BY <1>3 DEF Ranks
<1>5. place = SortedTo(b, n)
  <2>1. ASSUME NEW i \in 1..n PROVE place[i] = Cardinality(Ahead(b, n, i))
    <3>1. place[i] = J!Cardinality({j \in DOMAIN segments :
                       segments[j].seq < segments[i].seq \/ (~(segments[i].seq < segments[j].seq) /\ j <= i)})
      BY <1>1 DEF J!PlaceIn
    <3>2. {j \in DOMAIN segments :
             segments[j].seq < segments[i].seq \/ (~(segments[i].seq < segments[j].seq) /\ j <= i)}
            = Ahead(b, n, i)
      BY <1>1, <1>3 DEF Ahead
    <3>. HIDE DEF place
    <3>3. \A set : J!Cardinality(set) = Cardinality(set)
      BY Zenon DEF J!Cardinality, Cardinality, J!IsFiniteSet, IsFiniteSet
    <3>. QED
      BY <3>1, <3>2, <3>3
  <2>2. place = [i \in 1..n |-> place[i]]
    BY <1>1
  <2>. HIDE DEF place
  <2>. QED
    BY <2>1, <2>2 DEF SortedTo
<1>. HIDE DEF place
<1>6. InTurn(segments) = [k \in 1..n |-> segments[from[k]]]
  BY <1>1, <1>2, <1>5 DEF SortedFrom
<1>7. from \in Bijection(1..n, 1..n)
  BY <1>4, SortingRearranges
<1>. HIDE DEF from
<1>. QED
  BY <1>6, <1>7

\* Of rows on file that are compared by two numbers, one is last.
LEMMA OneIsLast ==
  ASSUME NEW S, IsFiniteSet(S), S # {}, NEW a, NEW b, Integral(a, S), Integral(b, S)
  PROVE  \E x \in S : \A y \in S : a[y] < a[x] \/ (a[y] = a[x] /\ b[y] <= b[x])
<1>. DEFINE after == {xy \in S \X S : \/ a[xy[2]] < a[xy[1]]
                                      \/ a[xy[2]] = a[xy[1]] /\ b[xy[2]] <= b[xy[1]]}
<1>1. \A x, y \in S : <<x, y>> \in after <=> a[y] < a[x] \/ (a[y] = a[x] /\ b[y] <= b[x])
  OBVIOUS
<1>2. \A x \in S : a[x] \in Int /\ b[x] \in Int
  BY DEF Integral
<1>. HIDE DEF after
<1>3. \A x, y \in S : x # y => <<x, y>> \in after \/ <<y, x>> \in after
  BY <1>1, <1>2
<1>4. \A x, y, z \in S : <<x, y>> \in after /\ <<y, z>> \in after => <<x, z>> \in after
  BY <1>1, <1>2
<1>5. Orders(after, S)
  BY <1>3, <1>4 DEF Orders
<1>6. PICK x \in S : \A y \in S : x = y \/ <<x, y>> \in after
  BY <1>5, LeastOfAll
<1>7. ASSUME NEW y \in S PROVE a[y] < a[x] \/ (a[y] = a[x] /\ b[y] <= b[x])
  <2>1. CASE x = y
    <3>1. b[x] \in Int
      BY <1>2
    <3>. QED
      BY <2>1, <3>1
  <2>2. CASE <<x, y>> \in after
    BY <1>1, <2>2
  <2>. QED
    BY <1>6, <2>1, <2>2
<1>. QED
  BY <1>7

\* The day a movement travels, and a row in force on it.
DayOf(s, arrival) == IF s.on = None THEN arrival ELSE s.on
InForce(r, on) == r.since <= on /\ (r.until = None \/ on <= r.until)

LEMMA OnFileIsInForce ==
  ASSUME NEW rows, IsFiniteSet(rows), NEW on
  PROVE  /\ IsFiniteSet(J!OnFile(rows, on)) /\ J!OnFile(rows, on) \in SUBSET rows
         /\ \A r \in J!OnFile(rows, on) : InForce(r, on)
BY FS_Subset DEF J!OnFile, InForce

LEMMA TariffIsOnFile ==
  ASSUME NEW s, NEW tariffs, NEW on, IsFiniteSet(tariffs), None \notin tariffs,
         \A t \in tariffs : t.since \in Int, J!TariffFor(s, tariffs, on) # None
  PROVE  \E t \in tariffs : /\ J!TariffFor(s, tariffs, on) = t
                            /\ t.destination = s.destination /\ InForce(t, on)
<1>. DEFINE rows == {t \in J!TariffsOn(tariffs, on) :
                       /\ t.destination = s.destination
                       /\ IF s.kind = "transfer"
                          THEN t.table = "transfer_rates" /\ t.vehicleType = s.vehicleType
                          ELSE /\ t.table = "transport_modes"
                               /\ t.mode = s.mode /\ t.class = s.class}
            rank(t) == IF s.kind = "transfer" THEN J!Rank(t, s.route) ELSE 0
            best(t) == \A other \in rows :
                         rank(other) < rank(t) \/ (rank(other) = rank(t) /\ other.since <= t.since)
            a == [t \in rows |-> rank(t)]
            b == [t \in rows |-> t.since]
<1>1. J!TariffFor(s, tariffs, on)
        = IF s.destination = None \/ rows = {} THEN None ELSE CHOOSE t \in rows : best(t)
  BY Zenon DEF J!TariffFor
<1>2. /\ rows \in SUBSET tariffs /\ IsFiniteSet(rows)
      /\ \A t \in rows : t.destination = s.destination /\ InForce(t, on)
  <2>1. /\ IsFiniteSet(J!OnFile(tariffs, on)) /\ J!OnFile(tariffs, on) \in SUBSET tariffs
        /\ \A r \in J!OnFile(tariffs, on) : InForce(r, on)
    BY OnFileIsInForce
  <2>2. J!TariffsOn(tariffs, on) = J!OnFile(tariffs, on)
    BY DEF J!TariffsOn
  <2>3. rows \in SUBSET J!OnFile(tariffs, on) /\ \A t \in rows : t.destination = s.destination
    BY <2>2
  <2>. HIDE DEF rows
  <2>. QED
    BY <2>1, <2>3, FS_Subset
<1>3. \A t \in rows : rank(t) \in Int
  BY DEF J!Rank
<1>. HIDE DEF rows, rank
<1>4. rows # {} /\ J!TariffFor(s, tariffs, on) = CHOOSE t \in rows : best(t)
  BY <1>1
<1>5. Integral(a, rows) /\ Integral(b, rows)
  BY <1>2, <1>3 DEF Integral
<1>6. \A t \in rows : a[t] = rank(t) /\ b[t] = t.since
  OBVIOUS
<1>. HIDE DEF a, b
<1>7. PICK x \in rows : \A y \in rows : a[y] < a[x] \/ (a[y] = a[x] /\ b[y] <= b[x])
  BY <1>2, <1>4, <1>5, OneIsLast
<1>8. best(x)
  BY <1>6, <1>7
<1>. HIDE DEF best
<1>9. (CHOOSE t \in rows : best(t)) \in rows
  BY <1>8
<1>. QED
  BY <1>2, <1>4, <1>9

LEMMA RoadIsOnFile ==
  ASSUME NEW routes, NEW origin, NEW destination, NEW on, IsFiniteSet(routes), None \notin routes,
         \A r \in routes : r.since \in Int /\ r.entered \in Int,
         J!FindRoad(routes, origin, destination, on) # None
  PROVE  \E r \in routes : /\ J!FindRoad(routes, origin, destination, on) = r
                           /\ {r.from, r.to} = {origin, destination} /\ InForce(r, on)
<1>. DEFINE between == {r \in J!OnFile(routes, on) : {r.from, r.to} = {origin, destination}}
            forward == {r \in between : r.from = origin}
            rows == IF forward # {} THEN forward ELSE between
            best(r) == \A other \in rows :
                         other.since < r.since \/ (other.since = r.since /\ other.entered <= r.entered)
            a == [r \in rows |-> r.since]
            b == [r \in rows |-> r.entered]
<1>1. J!FindRoad(routes, origin, destination, on)
        = IF between = {} THEN None ELSE CHOOSE r \in rows : best(r)
  BY Zenon DEF J!FindRoad, J!Superseding
<1>2. between # {}
  BY <1>1
<1>3. /\ rows \in SUBSET routes /\ IsFiniteSet(rows) /\ rows # {}
      /\ \A r \in rows : {r.from, r.to} = {origin, destination} /\ InForce(r, on)
  <2>1. /\ IsFiniteSet(J!OnFile(routes, on)) /\ J!OnFile(routes, on) \in SUBSET routes
        /\ \A r \in J!OnFile(routes, on) : InForce(r, on)
    BY OnFileIsInForce
  <2>2. /\ rows \in SUBSET J!OnFile(routes, on) /\ rows # {}
        /\ \A r \in rows : {r.from, r.to} = {origin, destination}
    BY <1>2
  <2>. HIDE DEF rows
  <2>. QED
    BY <2>1, <2>2, FS_Subset
<1>. HIDE DEF rows
<1>5. Integral(a, rows) /\ Integral(b, rows)
  BY <1>3 DEF Integral
<1>6. \A r \in rows : a[r] = r.since /\ b[r] = r.entered
  OBVIOUS
<1>. HIDE DEF a, b
<1>7. PICK x \in rows : \A y \in rows : a[y] < a[x] \/ (a[y] = a[x] /\ b[y] <= b[x])
  BY <1>3, <1>5, OneIsLast
<1>8. best(x)
  BY <1>6, <1>7
<1>. HIDE DEF best
<1>9. (CHOOSE r \in rows : best(r)) \in rows
  BY <1>8
<1>. QED
  BY <1>1, <1>2, <1>3, <1>9

LEMMA FuelIsOnFile ==
  ASSUME NEW fuel, NEW type, NEW on, IsFiniteSet(fuel), \A p \in fuel : p.since \in Int
  PROVE  J!FuelPriceOn(fuel, type, on) \in fuel \cup {None}
<1>. DEFINE rows == {p \in fuel : p.type = type /\ p.since <= on}
            best(p) == \A q \in rows : q.since <= p.since
            a == [p \in rows |-> p.since]
<1>1. J!FuelPriceOn(fuel, type, on) = IF rows = {} THEN None ELSE CHOOSE p \in rows : best(p)
  BY Zenon DEF J!FuelPriceOn
<1>2. rows \in SUBSET fuel /\ IsFiniteSet(rows)
  BY FS_Subset
<1>. HIDE DEF rows
<1>3. Integral(a, rows)
  BY <1>2 DEF Integral
<1>4. \A p \in rows : a[p] = p.since
  OBVIOUS
<1>. HIDE DEF a
<1>5. CASE rows # {}
  <2>1. PICK x \in rows : \A y \in rows : a[y] < a[x] \/ (a[y] = a[x] /\ a[y] <= a[x])
    BY <1>2, <1>3, <1>5, OneIsLast
  <2>2. best(x)
    <3>1. \A p \in rows : a[p] \in Int
      BY <1>3 DEF Integral
    <3>. QED
      BY <1>4, <2>1, <3>1
  <2>. HIDE DEF best
  <2>3. (CHOOSE p \in rows : best(p)) \in rows
    BY <2>2
  <2>. QED
    BY <1>1, <1>2, <1>5, <2>3
<1>. QED
  BY <1>1, <1>5

\* What is made of a movement, and what a charge for it is.
MoveOf(asked, s) == J!PriceMovement(s, asked.desk, asked.arrival, asked.pax)
Ours(s) == s.mode \in J!PRICED_MODES /\ s.vehicle # None
Hired(s) == s.mode \in J!PRICED_MODES /\ s.vehicle = None
ChargeOf(asked, s, c) ==
  /\ s.seq = c.seq /\ s.mode \in J!PRICED_MODES /\ c.optional = s.optional
  /\ IF s.vehicle # None THEN c.what = "fuel" => c.amount > 0
     ELSE \E t \in asked.desk.tariffs :
            /\ t.destination = s.destination /\ t.currency = c.currency
            /\ InForce(t, DayOf(s, asked.arrival))
            /\ c.amount >= t.amount * s.units

\* One fare, or one tank of fuel and perhaps a crew.
FareOf(asked, s, charges) ==
  \E c : charges = <<c>> /\ c.what = "fare" /\ ChargeOf(asked, s, c)
DriveOf(asked, s, charges) ==
  \E fuel, crew : /\ charges = <<fuel>> \/ charges = <<fuel, crew>>
                  /\ fuel.what = "fuel" /\ ChargeOf(asked, s, fuel)
                  /\ crew.what = "crew" /\ ChargeOf(asked, s, crew)
RoadOf(asked, s) ==
  \E r \in asked.desk.routes :
    /\ {r.from, r.to} = {s.origin, s.destination} /\ InForce(r, DayOf(s, asked.arrival))
    /\ r.takes = {} \/ s.vehicle.type \in r.takes

LEMMA GrossIsMore ==
  ASSUME NEW t, t.amount \in Nat, t.vat \in Nat
  PROVE  J!ToVatInclusive(t) \in Nat /\ J!ToVatInclusive(t) >= t.amount
<1>. DEFINE gross == t.amount * (100 + t.vat)
<1>1. PICK a \in Nat, v \in Nat : a = t.amount /\ v = t.vat
  OBVIOUS
<1>2. gross = a * 100 + a * v /\ a * v \in Nat /\ gross \in Nat
  BY <1>1
<1>3. a * 100 <= gross
  BY <1>1, <1>2
<1>. HIDE DEF gross
<1>4. gross \div 100 \in Nat /\ gross \div 100 >= a
  BY <1>1, <1>2, <1>3
<1>. QED
  BY <1>1, <1>4 DEF J!ToVatInclusive, gross

LEMMA MoreTimes ==
  ASSUME NEW a \in Nat, NEW b \in Nat, b >= a, NEW u \in Nat, NEW k \in Nat \ {0}
  PROVE  b * u * k >= a * u /\ b * u * k \in Nat
<1>1. b * u >= a * u /\ b * u \in Nat /\ a * u \in Nat
  BY Z3
<1>2. PICK x \in Nat, y \in Nat : x = b * u /\ y = a * u
  BY <1>1
<1>3. x * k >= x /\ x * k \in Nat
  BY Z3
<1>. QED
  BY <1>1, <1>2, <1>3

LEMMA FareIsTold ==
  ASSUME NEW asked, JourneyIsRead(asked), NEW s \in Range(asked.segments), Hired(s),
         NEW t \in asked.desk.tariffs, t.destination = s.destination,
         InForce(t, DayOf(s, asked.arrival))
  PROVE  FareOf(asked, s, J!Fare(s, t, asked.pax))
<1>. DEFINE heads == IF t.basis = "per_person" THEN asked.pax ELSE 1
            c == [seq |-> s.seq, what |-> "fare", amount |-> J!ToVatInclusive(t) * s.units * heads,
                  currency |-> t.currency, optional |-> s.optional]
<1>1. J!Fare(s, t, asked.pax) = <<c>>
  BY Zenon DEF J!Fare
<1>2. /\ t.amount \in Nat /\ t.vat \in Nat /\ s.units \in Nat \ {0} /\ heads \in Nat \ {0}
  BY DEF JourneyIsRead
<1>3. J!ToVatInclusive(t) \in Nat /\ J!ToVatInclusive(t) >= t.amount
  BY <1>2, GrossIsMore
<1>4. J!ToVatInclusive(t) * s.units * heads >= t.amount * s.units
  <2>. HIDE DEF heads
  <2>. QED
    BY <1>2, <1>3, MoreTimes
<1>5. /\ c.seq = s.seq /\ c.what = "fare" /\ c.optional = s.optional /\ c.currency = t.currency
      /\ c.amount = J!ToVatInclusive(t) * s.units * heads
  OBVIOUS
<1>. HIDE DEF c, heads
<1>6. ChargeOf(asked, s, c)
  BY <1>4, <1>5 DEF ChargeOf, Hired
<1>. QED
  BY <1>1, <1>5, <1>6 DEF FareOf

\* Of two rows, the first is kept, and perhaps the second.
LEMMA FirstIsKept ==
  ASSUME NEW x, NEW y, NEW K \in SUBSET (1..2), 1 \in K
  PROVE  J!RowsAt(<<x, y>>, K) = <<x>> \/ J!RowsAt(<<x, y>>, K) = <<x, y>>
<1>. DEFINE two == <<x, y>>
<1>1. two \in [1..2 -> {x, y}] /\ two[1] = x
  OBVIOUS
<1>2. K = {1} \/ K = 1..2
  <2>1. \A i : i \in 1..2 <=> i = 1 \/ i = 2
    OBVIOUS
  <2>. QED
    BY <2>1
<1>. HIDE DEF two
<1>3. CASE K = {1}
  <2>1. PICK rows : rows = RowsAt(two, K)
    OBVIOUS
  <2>2. /\ rows \in Seq({x, y}) /\ Len(rows) = Cardinality(K) /\ Range(rows) = {two[i] : i \in K}
    <3>0. PICK S : S = {x, y}
      OBVIOUS
    <3>1. PICK n \in Nat : n = 2
      OBVIOUS
    <3>2. two \in [1..n -> S] /\ K \in SUBSET (1..n)
      BY <1>1, <3>0, <3>1
    <3>3. /\ RowsAt(two, K) \in Seq(S) /\ Len(RowsAt(two, K)) = Cardinality(K)
          /\ Cardinality(K) \in Nat
          /\ RowsAt(two, K) \in [1..Cardinality(K) -> S]
          /\ Range(RowsAt(two, K)) = {two[i] : i \in K}
      BY <3>2, RowsKept
    <3>. QED
      BY <2>1, <3>0, <3>1, <3>3
  <2>3. Cardinality(K) = 1
    BY <1>3, FS_Singleton
  <2>4. rows[1] \in Range(rows) /\ rows = <<rows[1]>>
    BY <2>2, <2>3 DEF Range
  <2>5. rows[1] = x
    BY <1>1, <1>3, <2>2, <2>4
  <2>. QED
    BY <2>1, <2>4, <2>5, SameRowsAt DEF two
<1>4. CASE K = 1..2
  <2>1. 2 \in Nat
    OBVIOUS
  <2>2. RowsAt(two, 1..2) = two
    BY <1>1, <2>1, AllRowsKept
  <2>. QED
    BY <1>4, <2>2, SameRowsAt DEF two
<1>. QED
  BY <1>2, <1>3, <1>4

LEMMA FuelIsSomething ==
  ASSUME NEW f \in Int, NEW k \in Nat \ {0}, f >= k, NEW u \in Nat \ {0}
  PROVE  (f \div k) * u \in Int /\ (f \div k) * u > 0
<1>1. f \div k \in Nat /\ f \div k >= 1
  BY Divided
<1>. QED
  BY <1>1, Z3

LEMMA TankIsFilled ==
  ASSUME NEW asked, JourneyIsRead(asked), NEW s \in Range(asked.segments), Ours(s),
         NEW r \in asked.desk.routes, NEW p \in asked.desk.fuel
  PROVE  DriveOf(asked, s, J!DriveCharges(s, r, p))
<1>. DEFINE vehicle == s.vehicle
            times == J!Max({1, s.units})
            litres == (r.km * p.amount) \div vehicle.kmpl
            staff == (vehicle.driver + vehicle.running) * J!DAYS_PER_MOVEMENT
            fuel == [seq |-> s.seq, what |-> "fuel", amount |-> litres * times,
                     currency |-> p.currency, optional |-> s.optional]
            crew == [seq |-> s.seq, what |-> "crew", amount |-> staff * times,
                     currency |-> vehicle.currency, optional |-> s.optional]
            two == <<fuel, crew>>
            K == {i \in DOMAIN two : two[i].amount # 0}
<1>1. J!DriveCharges(s, r, p) = J!RowsAt(two, K)
  BY Zenon DEF J!DriveCharges, J!Kept
<1>2. /\ s.units \in Nat \ {0} /\ vehicle.kmpl \in Nat \ {0} /\ r.km \in Int /\ p.amount \in Int
      /\ r.km * p.amount >= vehicle.kmpl
  BY DEF JourneyIsRead, Ours
<1>3. times \in Nat \ {0}
  <2>1. \E m \in {1, s.units} : \A x \in {1, s.units} : m >= x
    BY <1>2
  <2>2. times \in {1, s.units}
    BY <2>1 DEF J!Max
  <2>. HIDE DEF times
  <2>. QED
    BY <1>2, <2>2
<1>. HIDE DEF times
<1>4. litres * times > 0
  <2>1. PICK f \in Int : f = r.km * p.amount
    BY <1>2
  <2>2. PICK k \in Nat \ {0} : k = vehicle.kmpl
    BY <1>2
  <2>3. (f \div k) * times > 0
    BY <1>2, <1>3, <2>1, <2>2, FuelIsSomething
  <2>. QED
    BY <2>1, <2>2, <2>3
<1>. HIDE DEF litres, staff
<1>5. /\ fuel.seq = s.seq /\ fuel.what = "fuel" /\ fuel.optional = s.optional /\ fuel.amount = litres * times
      /\ crew.seq = s.seq /\ crew.what = "crew" /\ crew.optional = s.optional
      /\ DOMAIN two = 1..2 /\ two[1] = fuel
  OBVIOUS
<1>. HIDE DEF fuel, crew
<1>6. K \in SUBSET (1..2) /\ 1 \in K
  <2>1. 1 \in DOMAIN two /\ two[1].amount = litres * times
    BY <1>5
  <2>2. litres * times # 0
    BY <1>4
  <2>3. 1 \in K
    BY <2>1, <2>2
  <2>4. K \in SUBSET DOMAIN two
    OBVIOUS
  <2>. QED
    BY <1>5, <2>3, <2>4
<1>. HIDE DEF K
<1>7. J!RowsAt(two, K) = <<fuel>> \/ J!RowsAt(two, K) = <<fuel, crew>>
  BY <1>6, FirstIsKept
<1>8. ChargeOf(asked, s, fuel) /\ ChargeOf(asked, s, crew)
  BY <1>4, <1>5 DEF ChargeOf, Ours
<1>. HIDE DEF two
<1>. QED
  BY <1>1, <1>5, <1>7, <1>8 DEF DriveOf

LEMMA DriveIsTold ==
  ASSUME NEW asked, JourneyIsRead(asked), NEW s \in Range(asked.segments), Ours(s),
         NEW move, move = J!Drive(s, asked.desk, DayOf(s, asked.arrival))
  PROVE  \/ move.unpriced /\ move.charges = <<>> /\ move.named = FALSE
         \/ /\ ~move.unpriced /\ DriveOf(asked, s, move.charges)
            /\ move.fault = {} => RoadOf(asked, s)
<1>. DEFINE on == DayOf(s, asked.arrival)
            road == J!FindRoad(asked.desk.routes, s.origin, s.destination, on)
            price == J!FuelPriceOn(asked.desk.fuel, s.vehicle.fuel, on)
            wrong == IF J!VehicleIsSuitable(road.takes, s.vehicle.type) THEN {} ELSE {"vehicle_not_suitable"}
<1>1. move = IF None \in {s.origin, s.destination} THEN J!Unpriced({"endpoints_missing"})
             ELSE IF road = None THEN J!Unpriced({"route_not_on_file"})
             ELSE IF price = None THEN J!Unpriced(wrong \cup {"fuel_price_missing"})
             ELSE [J!Nothing EXCEPT !.charges = J!DriveCharges(s, road, price),
                                    !.fault = wrong, !.road = road]
  BY Zenon DEF J!Drive
<1>2. \A why : J!Unpriced(why).unpriced /\ J!Unpriced(why).charges = <<>> /\ J!Unpriced(why).named = FALSE
  BY DEF J!Unpriced, J!Nothing
<1>. HIDE DEF road, price, wrong
<1>3. CASE None \in {s.origin, s.destination} \/ road = None \/ price = None
  <2>1. \E why : move = J!Unpriced(why)
    BY <1>1, <1>3
  <2>. QED
    BY <1>2, <2>1
<1>4. CASE ~(None \in {s.origin, s.destination} \/ road = None \/ price = None)
  <2>1. move = [J!Nothing EXCEPT !.charges = J!DriveCharges(s, road, price),
                                 !.fault = wrong, !.road = road]
    BY <1>1, <1>4
  <2>2. ~move.unpriced /\ move.charges = J!DriveCharges(s, road, price) /\ move.fault = wrong
    BY <2>1 DEF J!Nothing
  <2>3. \E r \in asked.desk.routes : /\ road = r
                                     /\ {r.from, r.to} = {s.origin, s.destination} /\ InForce(r, on)
    <3>1. /\ IsFiniteSet(asked.desk.routes) /\ None \notin asked.desk.routes
          /\ \A r \in asked.desk.routes : r.since \in Int /\ r.entered \in Int
      BY DEF JourneyIsRead
    <3>2. J!FindRoad(asked.desk.routes, s.origin, s.destination, on) # None
      BY <1>4 DEF road
    <3>. HIDE DEF on
    <3>3. \E r \in asked.desk.routes : /\ J!FindRoad(asked.desk.routes, s.origin, s.destination, on) = r
                                       /\ {r.from, r.to} = {s.origin, s.destination} /\ InForce(r, on)
      BY <3>1, <3>2, RoadIsOnFile
    <3>. QED
      BY <3>3 DEF road
  <2>4. price \in asked.desk.fuel
    <3>1. IsFiniteSet(asked.desk.fuel) /\ \A p \in asked.desk.fuel : p.since \in Int
      BY DEF JourneyIsRead
    <3>2. J!FuelPriceOn(asked.desk.fuel, s.vehicle.fuel, on) \in asked.desk.fuel \cup {None}
      BY <3>1, FuelIsOnFile
    <3>. QED
      BY <1>4, <3>2 DEF price
  <2>5. DriveOf(asked, s, move.charges)
    BY <2>2, <2>3, <2>4, TankIsFilled
  <2>6. move.fault = {} => RoadOf(asked, s)
    BY <2>2, <2>3 DEF wrong, J!VehicleIsSuitable, RoadOf
  <2>. QED
    BY <2>2, <2>5, <2>6
<1>. QED
  BY <1>3, <1>4

\* What is made of a movement that is not left unpriced.
MoveTold(asked, s, move) ==
  /\ s.mode \in J!NAMED_ONLY_MODES => move.named
  /\ \/ move.charges = <<>> /\ (move.unpriced \/ (~Hired(s) /\ ~Ours(s)))
     \/ Hired(s) /\ FareOf(asked, s, move.charges)
     \/ Ours(s) /\ DriveOf(asked, s, move.charges) /\ (move.fault = {} => RoadOf(asked, s))

LEMMA MoveIsTold ==
  ASSUME NEW asked, JourneyIsRead(asked), NEW s \in Range(asked.segments)
  PROVE  MoveTold(asked, s, MoveOf(asked, s))
<1>. DEFINE on == DayOf(s, asked.arrival)
            tariff == J!TariffFor(s, asked.desk.tariffs, on)
<1>0. PICK move : move = MoveOf(asked, s)
  OBVIOUS
<1>1. move = IF s.mode \in J!NAMED_ONLY_MODES THEN [J!Nothing EXCEPT !.named = TRUE]
             ELSE IF s.mode \notin J!PRICED_MODES \/ s.kind \notin J!KINDS THEN J!Unpriced({})
             ELSE IF s.vehicle # None THEN J!Drive(s, asked.desk, on)
             ELSE IF tariff = None THEN J!Unpriced({})
             ELSE [J!Nothing EXCEPT !.charges = J!Fare(s, tariff, asked.pax)]
  BY Zenon, <1>0 DEF MoveOf, J!PriceMovement, DayOf
<1>2. J!Unpriced({}).unpriced /\ J!Unpriced({}).charges = <<>>
  BY DEF J!Unpriced, J!Nothing
<1>. HIDE DEF tariff
<1>. SUFFICES MoveTold(asked, s, move)
  BY <1>0
<1>3. CASE s.mode \in J!NAMED_ONLY_MODES
  <2>1. move = [J!Nothing EXCEPT !.named = TRUE]
    BY <1>1, <1>3
  <2>2. move.named /\ move.charges = <<>>
    BY <2>1 DEF J!Nothing
  <2>3. s.mode \notin J!PRICED_MODES
    BY <1>3 DEF J!PRICED_MODES, J!NAMED_ONLY_MODES
  <2>. QED
    BY <2>2, <2>3 DEF MoveTold, Hired, Ours
<1>4. CASE s.mode \notin J!NAMED_ONLY_MODES /\ (s.mode \notin J!PRICED_MODES \/ s.kind \notin J!KINDS)
  <2>1. move = J!Unpriced({})
    BY <1>1, <1>4
  <2>2. move.unpriced /\ move.charges = <<>>
    BY Zenon, <1>2, <2>1
  <2>. QED
    BY Zenon, <1>4, <2>2 DEF MoveTold
<1>5. CASE s.mode \in J!PRICED_MODES /\ s.kind \in J!KINDS /\ s.vehicle # None
  <2>1. s.mode \notin J!NAMED_ONLY_MODES
    BY <1>5 DEF J!PRICED_MODES, J!NAMED_ONLY_MODES
  <2>2. move = J!Drive(s, asked.desk, DayOf(s, asked.arrival))
    BY <1>1, <1>5, <2>1
  <2>3. Ours(s)
    BY <1>5 DEF Ours
  <2>4. \/ move.unpriced /\ move.charges = <<>> /\ move.named = FALSE
        \/ /\ ~move.unpriced /\ DriveOf(asked, s, move.charges)
           /\ move.fault = {} => RoadOf(asked, s)
    BY <2>2, <2>3, DriveIsTold
  <2>. QED
    BY Zenon, <2>1, <2>3, <2>4 DEF MoveTold
<1>6. CASE s.mode \in J!PRICED_MODES /\ s.kind \in J!KINDS /\ s.vehicle = None
  <2>1. s.mode \notin J!NAMED_ONLY_MODES
    BY <1>6 DEF J!PRICED_MODES, J!NAMED_ONLY_MODES
  <2>2. Hired(s)
    BY <1>6 DEF Hired
  <2>3. CASE tariff = None
    <3>1. move = J!Unpriced({})
      BY <1>1, <1>6, <2>1, <2>3
    <3>2. move.unpriced /\ move.charges = <<>>
      BY Zenon, <1>2, <3>1
    <3>. QED
      BY Zenon, <2>1, <3>2 DEF MoveTold
  <2>4. CASE tariff # None
    <3>1. move = [J!Nothing EXCEPT !.charges = J!Fare(s, tariff, asked.pax)]
      BY <1>1, <1>6, <2>1, <2>4
    <3>2. move.charges = J!Fare(s, tariff, asked.pax)
      BY <3>1 DEF J!Nothing
    <3>3. /\ IsFiniteSet(asked.desk.tariffs) /\ None \notin asked.desk.tariffs
          /\ \A t \in asked.desk.tariffs : t.since \in Int
      BY DEF JourneyIsRead
    <3>4. J!TariffFor(s, asked.desk.tariffs, on) # None
      BY <2>4 DEF tariff
    <3>5. PICK t \in asked.desk.tariffs : /\ J!TariffFor(s, asked.desk.tariffs, on) = t
                                          /\ t.destination = s.destination /\ InForce(t, on)
      <4>. HIDE DEF on
      <4>. QED
        BY <3>3, <3>4, TariffIsOnFile
    <3>6. FareOf(asked, s, J!Fare(s, t, asked.pax))
      BY <2>2, <3>5, FareIsTold
    <3>. QED
      BY <2>1, <2>2, <3>2, <3>5, <3>6 DEF MoveTold, tariff
  <2>. QED
    BY <2>3, <2>4
<1>7. s.mode \in J!PRICED_MODES => s.mode \notin J!NAMED_ONLY_MODES
  BY DEF J!PRICED_MODES, J!NAMED_ONLY_MODES
<1>. QED
  BY <1>3, <1>4, <1>5, <1>6, <1>7

\* The charges of a movement, told one by one.
LEMMA ChargesAreTold ==
  ASSUME NEW asked, NEW s, NEW move, MoveTold(asked, s, move)
  PROVE  /\ move.charges \in Seq(Range(move.charges))
         /\ \A c \in Range(move.charges) : ChargeOf(asked, s, c)
<1>1. CASE move.charges = <<>>
  BY <1>1 DEF Range
<1>2. CASE FareOf(asked, s, move.charges)
  <2>1. PICK c : move.charges = <<c>> /\ ChargeOf(asked, s, c)
    BY <1>2 DEF FareOf
  <2>. QED
    BY <2>1 DEF Range
<1>3. CASE DriveOf(asked, s, move.charges)
  <2>1. PICK fuel, crew : /\ move.charges = <<fuel>> \/ move.charges = <<fuel, crew>>
                          /\ ChargeOf(asked, s, fuel) /\ ChargeOf(asked, s, crew)
    BY <1>3 DEF DriveOf
  <2>2. CASE move.charges = <<fuel>>
    BY <2>1, <2>2 DEF Range
  <2>3. CASE move.charges = <<fuel, crew>>
    BY <2>1, <2>3 DEF Range
  <2>. QED
    BY <2>1, <2>2, <2>3
<1>. QED
  BY <1>1, <1>2, <1>3 DEF MoveTold

\* How many charges of a kind a movement makes.
Kind(F, T, seq, what) == \A c \in T : F[c] = IF c.seq = seq /\ c.what = what THEN 1 ELSE 0
Due(s, seq, what) ==
  IF s.seq = seq /\ (IF what = "fare" THEN Hired(s) ELSE Ours(s)) THEN 1 ELSE 0

LEMMA SumOfShort ==
  ASSUME NEW T, NEW F, Integral(F, T)
  PROVE  /\ SumOver(F, <<>>) = 0
         /\ \A x \in T : SumOver(F, <<x>>) = F[x]
         /\ \A x, y \in T : SumOver(F, <<x, y>>) = F[x] + F[y]
<1>1. SumOver(F, <<>>) = 0
  BY SumOfNone DEF SumOver
<1>2. ASSUME NEW x \in T PROVE SumOver(F, <<x>>) = F[x]
  <2>1. PICK f : f = [i \in DOMAIN <<x>> |-> F[<<x>>[i]]]
    OBVIOUS
  <2>2. DOMAIN <<x>> = {1} /\ f[1] = F[x] /\ f[1] \in Int
    BY <2>1 DEF Integral
  <2>3. SumFunctionOnSet(f, {1}) = f[1]
    BY <2>2, SumOfOne
  <2>. QED
    BY <2>1, <2>2, <2>3 DEF SumOver
<1>3. ASSUME NEW x \in T, NEW y \in T PROVE SumOver(F, <<x, y>>) = F[x] + F[y]
  <2>1. PICK f : f = [i \in DOMAIN <<x, y>> |-> F[<<x, y>>[i]]]
    OBVIOUS
  <2>2. PICK D : D = {1, 2} /\ IsFiniteSet(D)
    <3>1. PICK n \in Nat : n = 2
      OBVIOUS
    <3>2. PICK D : D = 1..n /\ IsFiniteSet(D)
      BY FS_Interval
    <3>3. \A i : i \in 1..2 <=> i = 1 \/ i = 2
      OBVIOUS
    <3>4. \A i : i \in D <=> i \in {1, 2}
      BY <3>1, <3>2, <3>3
    <3>. QED
      BY <3>2, <3>4
  <2>3. DOMAIN <<x, y>> = D /\ f[1] = F[x] /\ f[2] = F[y] /\ Integral(f, D)
    BY <2>1, <2>2 DEF Integral
  <2>4. 1 \in D /\ D \ {1} = {2} /\ f[2] \in Int
    BY <2>2, <2>3 DEF Integral
  <2>5. SumFunctionOnSet(f, D) = f[1] + SumFunctionOnSet(f, D \ {1})
    BY <2>2, <2>3, <2>4, SumTakes
  <2>6. SumFunctionOnSet(f, {2}) = f[2]
    BY <2>4, SumOfOne
  <2>. QED
    BY <2>1, <2>3, <2>4, <2>5, <2>6 DEF SumOver
<1>. QED
  BY <1>1, <1>2, <1>3

LEMMA MoveIsCounted ==
  ASSUME NEW asked, NEW s, NEW move, MoveTold(asked, s, move), ~move.unpriced,
         NEW T, Range(move.charges) \subseteq T, NEW F, NEW seq, NEW what, Kind(F, T, seq, what),
         Integral(F, T)
  PROVE  /\ what \in {"fare", "fuel"} => SumOver(F, move.charges) = Due(s, seq, what)
         /\ what = "crew" => SumOver(F, move.charges) <= Due(s, seq, what)
<1>1. CASE move.charges = <<>> /\ ~Hired(s) /\ ~Ours(s)
  BY <1>1, SumOfShort DEF Due
<1>2. CASE Hired(s) /\ FareOf(asked, s, move.charges)
  <2>1. PICK c : move.charges = <<c>> /\ c.what = "fare" /\ ChargeOf(asked, s, c)
    BY <1>2 DEF FareOf
  <2>2. c \in T /\ c.seq = s.seq /\ ~Ours(s)
    BY <1>2, <2>1 DEF Range, ChargeOf, Hired, Ours
  <2>3. SumOver(F, move.charges) = F[c]
    BY <2>1, <2>2, SumOfShort
  <2>. QED
    BY <1>2, <2>1, <2>2, <2>3 DEF Due, Kind
<1>3. CASE Ours(s) /\ DriveOf(asked, s, move.charges)
  <2>1. PICK fuel, crew : /\ move.charges = <<fuel>> \/ move.charges = <<fuel, crew>>
                          /\ fuel.what = "fuel" /\ ChargeOf(asked, s, fuel)
                          /\ crew.what = "crew" /\ ChargeOf(asked, s, crew)
    BY <1>3 DEF DriveOf
  <2>2. fuel.seq = s.seq /\ crew.seq = s.seq /\ ~Hired(s)
    BY <1>3, <2>1 DEF ChargeOf, Hired, Ours
  <2>3. CASE move.charges = <<fuel>>
    <3>1. fuel \in T
      BY <2>3 DEF Range
    <3>2. SumOver(F, move.charges) = F[fuel]
      BY <2>3, <3>1, SumOfShort
    <3>. QED
      BY <1>3, <2>1, <2>2, <3>1, <3>2 DEF Due, Kind
  <2>4. CASE move.charges = <<fuel, crew>>
    <3>1. fuel \in T /\ crew \in T
      BY <2>4 DEF Range
    <3>2. SumOver(F, move.charges) = F[fuel] + F[crew]
      BY <2>4, <3>1, SumOfShort
    <3>. QED
      BY <1>3, <2>1, <2>2, <3>1, <3>2 DEF Due, Kind
  <2>. QED
    BY <2>1, <2>3, <2>4
<1>. QED
  BY <1>1, <1>2, <1>3 DEF MoveTold

\* A journey, made of its movements in their turn.
Move(asked, i) == MoveOf(asked, asked.segments[i])
ListsInTurn(asked, n, from) == [k \in 1..n |-> Move(asked, from[k]).charges]
ChargedInTurn(asked, n, from) == FlattenSeq(ListsInTurn(asked, n, from))
JourneyAsked(asked) == J!Journey(asked.segments, asked.desk, asked.arrival, asked.pax)
MadeOf(asked, journey, n, from) ==
  LET charged == ChargedInTurn(asked, n, from)
  IN  /\ n \in Nat /\ from \in Bijection(1..n, 1..n) /\ DOMAIN asked.segments = 1..n
      /\ journey.charges = RowsAt(charged, {i \in DOMAIN charged : ~charged[i].optional})
      /\ journey.optional = RowsAt(charged, {i \in DOMAIN charged : charged[i].optional})
      /\ \A i \in 1..n : /\ Move(asked, i).named => asked.segments[i].seq \in journey.named
                         /\ journey.unpriced = {} => ~Move(asked, i).unpriced
                         /\ journey.faults = {} => Move(asked, i).fault = {}

LEMMA JourneyIsMade ==
  ASSUME NEW asked, JourneyIsRead(asked)
  PROVE  \E n, from : MadeOf(asked, JourneyAsked(asked), n, from)
<1>. DEFINE segments == asked.segments
            ordered == InTurn(segments)
            priced == [i \in DOMAIN ordered |-> J!PriceMovement(ordered[i], asked.desk, asked.arrival, asked.pax)]
            lists == [i \in DOMAIN priced |-> priced[i].charges]
            charged == J!FlattenSeq(lists)
<1>1. PICK n \in Nat : DOMAIN segments = 1..n /\ segments \in [1..n -> Range(segments)]
  BY DEF JourneyIsRead, IsList, Range
<1>2. \A i \in 1..n : segments[i] \in Range(segments) /\ segments[i].seq \in Int
  BY <1>1 DEF JourneyIsRead, Range
<1>. HIDE DEF segments
<1>3. PICK from \in Bijection(1..n, 1..n) : ordered = [k \in 1..n |-> segments[from[k]]]
  BY <1>1, <1>2, MovementsInTurn
<1>4. DOMAIN ordered = 1..n /\ \A k \in 1..n : ordered[k] = segments[from[k]]
  BY <1>3
<1>5. PICK journey : journey = JourneyAsked(asked)
  OBVIOUS
<1>6. /\ journey.charges = J!Kept(charged, LAMBDA c : ~c.optional)
      /\ journey.optional = J!Kept(charged, LAMBDA c : c.optional)
      /\ journey.named = {ordered[i].seq : i \in {j \in DOMAIN priced : priced[j].named}}
      /\ journey.unpriced = {ordered[i].seq : i \in {j \in DOMAIN priced : priced[j].unpriced}}
      /\ journey.faults = UNION {priced[i].fault : i \in DOMAIN priced}
  BY <1>5, Zenon DEF JourneyAsked, J!Journey, InTurn, segments
<1>. HIDE DEF ordered
<1>7. DOMAIN priced = 1..n /\ \A k \in 1..n : priced[k] = Move(asked, from[k])
  BY <1>4 DEF Move, MoveOf, segments
<1>. HIDE DEF priced
<1>8. lists = ListsInTurn(asked, n, from)
  BY <1>7 DEF ListsInTurn
<1>9. charged = ChargedInTurn(asked, n, from)
  <2>1. DOMAIN lists = 1..n /\ Len(lists) = n
    BY <1>1, <1>7
  <2>. HIDE DEF lists
  <2>2. J!FlattenSeq(lists) = FlattenSeq(lists)
    BY <1>1, <2>1, SameFlattening
  <2>. QED
    BY <1>8, <2>2 DEF ChargedInTurn
<1>. HIDE DEF charged
<1>10. /\ journey.charges = RowsAt(charged, {i \in DOMAIN charged : ~charged[i].optional})
       /\ journey.optional = RowsAt(charged, {i \in DOMAIN charged : charged[i].optional})
  BY <1>6, SameRowsAt DEF J!Kept
<1>11. \A i \in 1..n : \E k \in 1..n : from[k] = i
  BY <1>3 DEF Bijection, Surjection
<1>12. ASSUME NEW i \in 1..n
       PROVE  /\ Move(asked, i).named => segments[i].seq \in journey.named
              /\ journey.unpriced = {} => ~Move(asked, i).unpriced
              /\ journey.faults = {} => Move(asked, i).fault = {}
  <2>1. PICK k \in 1..n : from[k] = i
    BY <1>11
  <2>2. k \in DOMAIN priced /\ priced[k] = Move(asked, i) /\ ordered[k] = segments[i]
    BY <1>4, <1>7, <2>1
  <2>3. Move(asked, i).named => segments[i].seq \in journey.named
    BY <1>6, <2>2
  <2>4. journey.unpriced = {} => ~Move(asked, i).unpriced
    <3>1. Move(asked, i).unpriced => segments[i].seq \in journey.unpriced
      BY <1>6, <2>2
    <3>. QED
      BY <3>1
  <2>5. journey.faults = {} => Move(asked, i).fault = {}
    BY <1>6, <2>2
  <2>. QED
    BY <2>3, <2>4, <2>5
<1>13. MadeOf(asked, journey, n, from)
  BY <1>1, <1>3, <1>9, <1>10, <1>12 DEF MadeOf, segments
<1>. QED
  BY <1>5, <1>13

\* The charges there may be, and how many of a kind.
AllCharges(asked) == UNION {Range(Move(asked, i).charges) : i \in DOMAIN asked.segments}
KindOf(asked, seq, what) ==
  [c \in AllCharges(asked) |-> IF c.seq = seq /\ c.what = what THEN 1 ELSE 0]
DueOf(asked, seq, what) == [i \in DOMAIN asked.segments |-> Due(asked.segments[i], seq, what)]

LEMMA ListsAreInTurn ==
  ASSUME NEW asked, JourneyIsRead(asked), NEW journey, NEW n, NEW from, MadeOf(asked, journey, n, from)
  PROVE  /\ ListsInTurn(asked, n, from) \in [1..n -> Seq(AllCharges(asked))]
         /\ ChargedInTurn(asked, n, from) \in Seq(AllCharges(asked))
<1>1. n \in Nat /\ DOMAIN asked.segments = 1..n /\ from \in [1..n -> 1..n]
  BY DEF MadeOf, Bijection, Injection
<1>2. ASSUME NEW k \in 1..n PROVE Move(asked, from[k]).charges \in Seq(AllCharges(asked))
  <2>1. PICK i \in 1..n : i = from[k]
    BY <1>1
  <2>2. asked.segments[i] \in Range(asked.segments)
    BY <1>1 DEF Range
  <2>3. PICK rows : rows = Move(asked, i).charges
    OBVIOUS
  <2>4. rows \in Seq(Range(rows))
    BY <2>2, <2>3, MoveIsTold, ChargesAreTold DEF Move
  <2>5. Range(rows) \subseteq AllCharges(asked)
    BY <1>1, <2>3 DEF AllCharges
  <2>. QED
    BY <2>1, <2>3, <2>4, <2>5
<1>3. ListsInTurn(asked, n, from) \in [1..n -> Seq(AllCharges(asked))]
  BY <1>2 DEF ListsInTurn
<1>. QED
  BY <1>1, <1>3, Flattened DEF ChargedInTurn

\* What is charged, an add-on apart, is all that is charged.
LEMMA ChargesAreParted ==
  ASSUME NEW asked, JourneyIsRead(asked), NEW journey, NEW n, NEW from, MadeOf(asked, journey, n, from),
         NEW F, Integral(F, AllCharges(asked))
  PROVE  /\ journey.charges \o journey.optional \in Seq(AllCharges(asked))
         /\ SumOver(F, journey.charges \o journey.optional) = SumOver(F, ChargedInTurn(asked, n, from))
<1>1. PICK charged : charged = ChargedInTurn(asked, n, from)
  OBVIOUS
<1>2. charged \in Seq(AllCharges(asked))
  BY <1>1, ListsAreInTurn
<1>3. PICK m \in Nat : DOMAIN charged = 1..m /\ charged \in [1..m -> AllCharges(asked)]
  BY <1>2, LenProperties
<1>. DEFINE L == {i \in DOMAIN charged : charged[i].optional}
            K == {i \in DOMAIN charged : ~charged[i].optional}
<1>4. K \in SUBSET (1..m) /\ L \in SUBSET (1..m) /\ L = (1..m) \ K
  BY <1>3
<1>5. journey.charges = RowsAt(charged, K) /\ journey.optional = RowsAt(charged, L)
  BY <1>1 DEF MadeOf
<1>. HIDE DEF K, L
<1>6. /\ RowsAt(charged, K) \o RowsAt(charged, L) \in Seq(AllCharges(asked))
      /\ SumOver(F, RowsAt(charged, K) \o RowsAt(charged, L)) = SumOver(F, charged)
  BY <1>3, <1>4, PartedRowsSum
<1>. QED
  BY <1>1, <1>5, <1>6

LEMMA ChargesAreListed ==
  ASSUME NEW asked, JourneyIsRead(asked), NEW journey, NEW n, NEW from, MadeOf(asked, journey, n, from)
  PROVE  /\ journey.charges \in Seq(AllCharges(asked)) /\ journey.optional \in Seq(AllCharges(asked))
         /\ \A c \in Range(journey.charges) : c \in AllCharges(asked) /\ ~c.optional
         /\ \A c \in Range(journey.optional) : c \in AllCharges(asked) /\ c.optional
<1>1. PICK charged : charged = ChargedInTurn(asked, n, from)
  OBVIOUS
<1>2. charged \in Seq(AllCharges(asked))
  BY <1>1, ListsAreInTurn
<1>. DEFINE L == {i \in DOMAIN charged : charged[i].optional}
            K == {i \in DOMAIN charged : ~charged[i].optional}
<1>3. \A i \in DOMAIN charged : charged[i] \in AllCharges(asked)
  BY <1>2
<1>4. K \in SUBSET DOMAIN charged /\ L \in SUBSET DOMAIN charged
      /\ (\A i \in K : ~charged[i].optional) /\ \A i \in L : charged[i].optional
  OBVIOUS
<1>5. journey.charges = RowsAt(charged, K) /\ journey.optional = RowsAt(charged, L)
  BY <1>1 DEF MadeOf
<1>. HIDE DEF K, L
<1>6. /\ RowsAt(charged, K) \in Seq(AllCharges(asked))
      /\ Range(RowsAt(charged, K)) = {charged[i] : i \in K}
  BY <1>2, <1>4, ListKept
<1>7. /\ RowsAt(charged, L) \in Seq(AllCharges(asked))
      /\ Range(RowsAt(charged, L)) = {charged[i] : i \in L}
  BY <1>2, <1>4, ListKept
<1>. QED
  BY <1>3, <1>4, <1>5, <1>6, <1>7

\* The sums of lists, list by list.
FlatParts(F, T, n, seqs, parts) ==
  /\ n \in Nat /\ seqs \in [1..n -> Seq(T)] /\ Integral(F, T)
  /\ \A i \in 1..n : parts[i] = SumOver(F, seqs[i])

LEMMA FlatPartsSum ==
  ASSUME NEW F, NEW T, NEW n, NEW seqs, NEW parts, FlatParts(F, T, n, seqs, parts)
  PROVE  Integral(parts, 1..n) /\ SumOver(F, FlattenSeq(seqs)) = SumFunctionOnSet(parts, 1..n)
BY SumOverFlat DEF FlatParts

\* What a journey charges of a kind is what its movements make of it.
LEMMA JourneySums ==
  ASSUME NEW asked, JourneyIsRead(asked), NEW journey, NEW n, NEW from, MadeOf(asked, journey, n, from),
         \A i \in 1..n : ~Move(asked, i).unpriced,
         NEW seq, NEW what
  PROVE  LET F == KindOf(asked, seq, what)
             due == SumFunctionOnSet(DueOf(asked, seq, what), 1..n)
         IN  /\ Integral(F, AllCharges(asked))
             /\ what \in {"fare", "fuel"} => SumOver(F, journey.charges \o journey.optional) = due
             /\ what = "crew" => SumOver(F, journey.charges \o journey.optional) <= due
<1>1. PICK F : F = KindOf(asked, seq, what)
  OBVIOUS
<1>2. PICK T : T = AllCharges(asked)
  OBVIOUS
<1>3. Integral(F, T) /\ Kind(F, T, seq, what)
  BY <1>1, <1>2 DEF Integral, Kind, KindOf
<1>4. /\ n \in Nat /\ DOMAIN asked.segments = 1..n
      /\ from \in Bijection(1..n, 1..n) /\ from \in [1..n -> 1..n]
  BY DEF MadeOf, Bijection, Injection
<1>5. PICK lists : lists = ListsInTurn(asked, n, from)
  OBVIOUS
<1>6. lists \in [1..n -> Seq(T)] /\ ChargedInTurn(asked, n, from) = FlattenSeq(lists)
  BY <1>2, <1>5, ListsAreInTurn DEF ChargedInTurn
<1>7. SumOver(F, journey.charges \o journey.optional) = SumOver(F, FlattenSeq(lists))
  BY <1>2, <1>3, <1>6, ChargesAreParted
<1>8. PICK parts : parts = [k \in 1..n |-> SumOver(F, lists[k])]
  OBVIOUS
<1>9. Integral(parts, 1..n) /\ SumOver(F, FlattenSeq(lists)) = SumFunctionOnSet(parts, 1..n)
  <2>1. \A k \in 1..n : parts[k] = SumOver(F, lists[k])
    BY <1>8
  <2>2. FlatParts(F, T, n, lists, parts)
    BY <1>3, <1>4, <1>6, <2>1 DEF FlatParts
  <2>. QED
    BY <2>2, FlatPartsSum
<1>10. PICK due : due = DueOf(asked, seq, what)
  OBVIOUS
<1>11. \A i \in 1..n : due[i] = Due(asked.segments[i], seq, what) /\ due[i] \in Int
  BY <1>4, <1>10 DEF DueOf, Due
<1>12. PICK turned : turned = [k \in 1..n |-> due[from[k]]]
  OBVIOUS
<1>13. ASSUME NEW k \in 1..n
       PROVE  /\ what \in {"fare", "fuel"} => parts[k] = turned[k]
              /\ what = "crew" => parts[k] <= turned[k]
  <2>1. PICK i \in 1..n : i = from[k]
    BY <1>4
  <2>2. PICK s \in Range(asked.segments) : s = asked.segments[i]
    BY <1>4 DEF Range
  <2>3. PICK move : move = Move(asked, i)
    OBVIOUS
  <2>4. MoveTold(asked, s, move) /\ ~move.unpriced
    BY <2>2, <2>3, MoveIsTold DEF Move
  <2>5. lists[k] = move.charges /\ Range(move.charges) \subseteq T
    BY <1>2, <1>4, <1>5, <2>1, <2>3 DEF ListsInTurn, AllCharges
  <2>6. /\ what \in {"fare", "fuel"} => SumOver(F, move.charges) = Due(s, seq, what)
        /\ what = "crew" => SumOver(F, move.charges) <= Due(s, seq, what)
    BY <1>3, <2>4, <2>5, MoveIsCounted
  <2>7. parts[k] = SumOver(F, move.charges) /\ turned[k] = Due(s, seq, what)
    BY <1>8, <1>11, <1>12, <2>1, <2>2, <2>5
  <2>. QED
    BY <2>6, <2>7
<1>14. PICK D : D = 1..n /\ IsFiniteSet(D)
  BY <1>4, FS_Interval
<1>15. Integral(turned, D) /\ Integral(parts, D)
  BY <1>4, <1>9, <1>11, <1>12, <1>14 DEF Integral
<1>16. SumFunctionOnSet(turned, D) = SumFunctionOnSet(due, D)
  <2>1. PICK E : E = D
    OBVIOUS
  <2>2. from \in Bijection(D, E) /\ \A k \in D : turned[k] = due[from[k]]
    BY <1>4, <1>12, <1>14, <2>1
  <2>3. IsFiniteSet(D) /\ Integral(turned, D)
    BY <1>14, <1>15
  <2>4. SumFunctionOnSet(turned, D) = SumFunctionOnSet(due, E)
    BY <2>2, <2>3, SumOnto
  <2>. QED
    BY <2>1, <2>4
<1>17. /\ what \in {"fare", "fuel"} => SumFunctionOnSet(parts, D) = SumFunctionOnSet(turned, D)
       /\ what = "crew" => SumFunctionOnSet(parts, D) <= SumFunctionOnSet(turned, D)
  <2>1. CASE what \in {"fare", "fuel"}
    <3>1. \A k \in D : parts[k] = turned[k]
      BY <1>13, <1>14, <2>1
    <3>2. SumFunctionOnSet(parts, D) = SumFunctionOnSet(turned, D)
      BY <1>14, <1>15, <3>1, SumOfSame
    <3>. QED
      BY <2>1, <3>2
  <2>2. CASE what = "crew"
    <3>1. \A k \in D : parts[k] <= turned[k]
      BY <1>13, <1>14, <2>2
    <3>2. SumFunctionOnSet(parts, D) <= SumFunctionOnSet(turned, D)
      BY <1>14, <1>15, <3>1, SumAtMost
    <3>. QED
      BY <2>2, <3>2
  <2>. QED
    BY <2>1, <2>2
<1>. QED
  BY <1>1, <1>2, <1>3, <1>7, <1>9, <1>10, <1>14, <1>16, <1>17

\* Charges and movements counted one by one.
ChargedOf(rows, seq, what) == Len(RowsAt(rows, {i \in DOMAIN rows : rows[i].seq = seq /\ rows[i].what = what}))
HiredOf(segments, seq) ==
  Len(RowsAt(segments, {i \in DOMAIN segments : /\ segments[i].seq = seq
                                                /\ segments[i].mode \in J!PRICED_MODES
                                                /\ segments[i].vehicle = None}))
DrivenOf(segments, seq) ==
  Len(RowsAt(segments, {i \in DOMAIN segments : /\ segments[i].seq = seq
                                                /\ segments[i].mode \in J!PRICED_MODES
                                                /\ segments[i].vehicle # None}))

LEMMA KindIsCounted ==
  ASSUME NEW asked, NEW rows \in Seq(AllCharges(asked)), NEW seq, NEW what
  PROVE  ChargedOf(rows, seq, what) = SumOver(KindOf(asked, seq, what), rows)
<1>. DEFINE K == {i \in DOMAIN rows : rows[i].seq = seq /\ rows[i].what = what}
            F == KindOf(asked, seq, what)
<1>1. PICK m \in Nat : DOMAIN rows = 1..m /\ rows \in [1..m -> AllCharges(asked)]
  BY LenProperties
<1>2. K \in SUBSET (1..m)
  BY <1>1
<1>3. [i \in 1..m |-> IF i \in K THEN 1 ELSE 0] = [i \in DOMAIN rows |-> F[rows[i]]]
  <2>1. ASSUME NEW i \in 1..m PROVE (IF i \in K THEN 1 ELSE 0) = F[rows[i]]
    <3>1. rows[i] \in AllCharges(asked) /\ (i \in K <=> rows[i].seq = seq /\ rows[i].what = what)
      BY <1>1
    <3>. HIDE DEF K
    <3>. QED
      BY <3>1 DEF KindOf
  <2>. HIDE DEF K, F
  <2>. QED
    BY <1>1, <2>1
<1>. HIDE DEF K, F
<1>4. Len(RowsAt(rows, K)) = SumFunctionOnSet([i \in 1..m |-> IF i \in K THEN 1 ELSE 0], 1..m)
  BY <1>1, <1>2, RowsCounted
<1>5. Len(RowsAt(rows, K)) = SumOver(F, rows)
  BY <1>1, <1>3, <1>4 DEF SumOver
<1>. QED
  BY <1>5 DEF ChargedOf, K, F

LEMMA DueIsCounted ==
  ASSUME NEW asked, NEW n \in Nat, DOMAIN asked.segments = 1..n,
         asked.segments \in [1..n -> Range(asked.segments)], NEW seq
  PROVE  /\ HiredOf(asked.segments, seq) = SumFunctionOnSet(DueOf(asked, seq, "fare"), 1..n)
         /\ DrivenOf(asked.segments, seq) = SumFunctionOnSet(DueOf(asked, seq, "fuel"), 1..n)
         /\ DrivenOf(asked.segments, seq) = SumFunctionOnSet(DueOf(asked, seq, "crew"), 1..n)
<1>1. PICK segments : segments = asked.segments
  OBVIOUS
<1>. DEFINE H == {i \in DOMAIN segments : /\ segments[i].seq = seq
                                          /\ segments[i].mode \in J!PRICED_MODES
                                          /\ segments[i].vehicle = None}
            D == {i \in DOMAIN segments : /\ segments[i].seq = seq
                                          /\ segments[i].mode \in J!PRICED_MODES
                                          /\ segments[i].vehicle # None}
<1>2. H \in SUBSET (1..n) /\ D \in SUBSET (1..n)
  BY <1>1
<1>3. /\ \A i \in 1..n : i \in H <=> segments[i].seq = seq /\ Hired(segments[i])
      /\ \A i \in 1..n : i \in D <=> segments[i].seq = seq /\ Ours(segments[i])
  BY <1>1 DEF Hired, Ours
<1>4. HiredOf(segments, seq) = Len(RowsAt(segments, H)) /\ DrivenOf(segments, seq) = Len(RowsAt(segments, D))
  BY DEF HiredOf, DrivenOf
<1>. HIDE DEF H, D
<1>5. /\ DueOf(asked, seq, "fare") = [i \in 1..n |-> IF i \in H THEN 1 ELSE 0]
      /\ DueOf(asked, seq, "fuel") = [i \in 1..n |-> IF i \in D THEN 1 ELSE 0]
      /\ DueOf(asked, seq, "crew") = [i \in 1..n |-> IF i \in D THEN 1 ELSE 0]
  BY <1>1, <1>3 DEF DueOf, Due
<1>6. /\ Len(RowsAt(segments, H)) = SumFunctionOnSet([i \in 1..n |-> IF i \in H THEN 1 ELSE 0], 1..n)
      /\ Len(RowsAt(segments, D)) = SumFunctionOnSet([i \in 1..n |-> IF i \in D THEN 1 ELSE 0], 1..n)
  <2>1. segments \in [1..n -> Range(segments)]
    BY <1>1
  <2>. QED
    BY <1>2, <2>1, RowsCounted
<1>. QED
  BY <1>1, <1>4, <1>5, <1>6

\* A row of two lists is a row of one of them.
LEMMA JoinedRange ==
  ASSUME NEW S, NEW s \in Seq(S), NEW u \in Seq(S), NEW c \in Range(s \o u)
  PROVE  c \in Range(s) \/ c \in Range(u)
<1>1. PICK m \in Nat : m = Len(s) /\ DOMAIN s = 1..m
  BY LenProperties
<1>2. PICK n \in Nat : n = Len(u) /\ DOMAIN u = 1..n
  BY LenProperties
<1>3. PICK both \in Seq(S) : both = s \o u
  BY ConcatProperties
<1>4. /\ Len(both) = m + n /\ DOMAIN both = 1..(m + n)
      /\ \A i \in 1..(m + n) : both[i] = IF i <= m THEN s[i] ELSE u[i - m]
  BY <1>1, <1>2, <1>3, ConcatProperties, LenProperties
<1>5. PICK i \in 1..(m + n) : c = both[i]
  BY <1>3, <1>4 DEF Range
<1>6. CASE i <= m
  BY <1>1, <1>4, <1>5, <1>6 DEF Range
<1>7. CASE i > m
  <2>1. i - m \in 1..n /\ c = u[i - m]
    BY <1>4, <1>5, <1>7
  <2>. QED
    BY <1>2, <2>1 DEF Range
<1>. QED
  BY <1>5, <1>6, <1>7

\* The answer to a journey is what pricing it gives.
JourneyInv ==
  question = "journey" =>
    /\ given \in JourneyQuestions
    /\ answer = None \/ answer = [journey |-> JourneyAsked(given),
                                  blocks  |-> J!JourneyBlocks(given.segments, given.legs, JourneyAsked(given))]

LEMMA JourneyStep ==
  ASSUME JourneyInv, [Next]_vars
  PROVE  JourneyInv'
<1>. SUFFICES ASSUME question' = "journey" PROVE JourneyInv'
  BY DEF JourneyInv
<1>1. CASE AskJourney
  <2>1. /\ answer' = [journey |-> JourneyAsked(given),
                      blocks  |-> J!JourneyBlocks(given.segments, given.legs, JourneyAsked(given))]
        /\ question' = question /\ given' = given
    BY <1>1 DEF AskJourney, Answer, JourneyAsked
  <2>. QED
    BY <2>1 DEF JourneyInv
<1>2. CASE UNCHANGED vars
  BY <1>2 DEF JourneyInv, vars
<1>3. CASE AskPackage \/ AskOrder \/ AskStay \/ RefuseOffer \/ AskOffer
  BY <1>3 DEF AskPackage, AskOrder, AskStay, RefuseOffer, AskOffer, Answer
<1>4. CASE IssueOffer
  BY <1>4 DEF IssueOffer, Priced
<1>. QED
  BY <1>1, <1>2, <1>3, <1>4 DEF Next

LEMMA JourneyInvCharges ==
  ASSUME JourneyInv
  PROVE  ReadyJourneyIsCharged
<1>. SUFFICES ASSUME Answered("journey"), answer.blocks = {} PROVE ReadyJourneyIsCharged
  BY DEF ReadyJourneyIsCharged
<1>. DEFINE segments == given.segments
            journey == answer.journey
            all == journey.charges \o journey.optional
            priced(s) == s.mode \in J!PRICED_MODES
            on(s) == IF s.on = None THEN given.arrival ELSE s.on
            charged(seq, what) == Len(Kept(all, LAMBDA c : c.seq = seq /\ c.what = what))
            byTariff(seq) == Len(Kept(segments, LAMBDA s : s.seq = seq /\ priced(s) /\ s.vehicle = None))
            driven(seq) == Len(Kept(segments, LAMBDA s : s.seq = seq /\ priced(s) /\ s.vehicle # None))
            inForce(r, s) == r.since <= on(s) /\ (r.until = None \/ on(s) <= r.until)
<1>1. /\ JourneyIsRead(given) /\ answer # None
      /\ journey = JourneyAsked(given)
      /\ answer.blocks = J!JourneyBlocks(given.segments, given.legs, JourneyAsked(given))
  BY CostingAssumption DEF JourneyInv, Answered
<1>2. PICK n, from : MadeOf(given, journey, n, from)
  BY <1>1, JourneyIsMade
<1>3. journey.unpriced = {} /\ journey.faults = {}
  BY <1>1 DEF J!JourneyBlocks
<1>4. n \in Nat /\ DOMAIN segments = 1..n /\ segments \in [1..n -> Range(segments)]
  <2>1. segments \in Seq(Range(segments))
    BY <1>1 DEF JourneyIsRead, IsList
  <2>. QED
    BY <1>2, <2>1 DEF MadeOf
<1>. HIDE DEF segments, journey
<1>5. ASSUME NEW i \in 1..n
      PROVE  /\ segments[i] \in Range(segments)
             /\ MoveTold(given, segments[i], Move(given, i)) /\ ~Move(given, i).unpriced
             /\ Move(given, i).fault = {} /\ (Move(given, i).named => segments[i].seq \in journey.named)
  <2>1. segments[i] \in Range(segments)
    BY <1>4 DEF Range
  <2>2. MoveTold(given, segments[i], Move(given, i))
    BY <1>1, <2>1, MoveIsTold DEF Move, segments
  <2>. QED
    BY <1>2, <1>3, <2>1, <2>2 DEF MadeOf, segments
<1>6. /\ all \in Seq(AllCharges(given))
      /\ journey.charges \in Seq(AllCharges(given)) /\ journey.optional \in Seq(AllCharges(given))
      /\ \A c \in Range(journey.charges) : c \in AllCharges(given) /\ ~c.optional
      /\ \A c \in Range(journey.optional) : c \in AllCharges(given) /\ c.optional
  <2>1. /\ journey.charges \in Seq(AllCharges(given)) /\ journey.optional \in Seq(AllCharges(given))
        /\ \A c \in Range(journey.charges) : c \in AllCharges(given) /\ ~c.optional
        /\ \A c \in Range(journey.optional) : c \in AllCharges(given) /\ c.optional
    BY <1>1, <1>2, ChargesAreListed
  <2>2. all \in Seq(AllCharges(given))
    BY <2>1
  <2>. QED
    BY <2>1, <2>2
<1>7. ASSUME NEW seq
      PROVE  /\ charged(seq, "fare") = byTariff(seq)
             /\ charged(seq, "fuel") = driven(seq) /\ charged(seq, "crew") <= driven(seq)
  <2>1. ASSUME NEW what
        PROVE  LET due == SumFunctionOnSet(DueOf(given, seq, what), 1..n)
               IN  /\ what \in {"fare", "fuel"} => ChargedOf(all, seq, what) = due
                   /\ what = "crew" => ChargedOf(all, seq, what) <= due
    <3>1. ChargedOf(all, seq, what) = SumOver(KindOf(given, seq, what), all)
      BY <1>6, KindIsCounted
    <3>2. \A i \in 1..n : ~Move(given, i).unpriced
      BY <1>5
    <3>3. LET F == KindOf(given, seq, what)
              due == SumFunctionOnSet(DueOf(given, seq, what), 1..n)
          IN  /\ Integral(F, AllCharges(given))
              /\ what \in {"fare", "fuel"} => SumOver(F, journey.charges \o journey.optional) = due
              /\ what = "crew" => SumOver(F, journey.charges \o journey.optional) <= due
      BY <1>1, <1>2, <3>2, JourneySums
    <3>. QED
      BY <3>1, <3>3
  <2>2. /\ HiredOf(segments, seq) = SumFunctionOnSet(DueOf(given, seq, "fare"), 1..n)
        /\ DrivenOf(segments, seq) = SumFunctionOnSet(DueOf(given, seq, "fuel"), 1..n)
        /\ DrivenOf(segments, seq) = SumFunctionOnSet(DueOf(given, seq, "crew"), 1..n)
    BY <1>4, DueIsCounted DEF segments
  <2>. HIDE DEF all
  <2>3. \A what : charged(seq, what) = ChargedOf(all, seq, what)
    BY DEF ChargedOf, Kept
  <2>4. byTariff(seq) = HiredOf(segments, seq) /\ driven(seq) = DrivenOf(segments, seq)
    BY DEF HiredOf, DrivenOf, Kept
  <2>. HIDE DEF charged, byTariff, driven
  <2>. QED
    BY <2>1, <2>2, <2>3, <2>4
<1>8. ASSUME NEW s \in Range(segments)
      PROVE  /\ s.mode \in J!NAMED_ONLY_MODES => s.seq \in journey.named
             /\ priced(s) /\ s.vehicle # None =>
                  \E r \in given.desk.routes :
                    /\ {r.from, r.to} = {s.origin, s.destination} /\ inForce(r, s)
                    /\ r.takes = {} \/ s.vehicle.type \in r.takes
  <2>1. PICK i \in 1..n : s = segments[i]
    BY <1>4 DEF Range
  <2>2. PICK move : move = Move(given, i)
    OBVIOUS
  <2>3. /\ MoveTold(given, s, move) /\ ~move.unpriced /\ move.fault = {}
        /\ (move.named => s.seq \in journey.named)
    BY <1>5, <2>1, <2>2
  <2>4. s.mode \in J!NAMED_ONLY_MODES => s.seq \in journey.named
    BY <2>3 DEF MoveTold
  <2>5. Ours(s) => RoadOf(given, s)
    BY <2>3 DEF MoveTold, Ours, Hired
  <2>6. RoadOf(given, s) => \E r \in given.desk.routes :
                    /\ {r.from, r.to} = {s.origin, s.destination} /\ inForce(r, s)
                    /\ r.takes = {} \/ s.vehicle.type \in r.takes
    BY Zenon DEF RoadOf, InForce, DayOf
  <2>. QED
    BY <2>4, <2>5, <2>6 DEF Ours
<1>9. ASSUME NEW c \in Range(all)
      PROVE  \E s \in Range(segments) :
               /\ s.seq = c.seq /\ priced(s)
               /\ c \in Range(IF s.optional THEN journey.optional ELSE journey.charges)
               /\ IF s.vehicle # None THEN c.what = "fuel" => c.amount > 0
                  ELSE \E t \in given.desk.tariffs :
                         /\ t.destination = s.destination /\ t.currency = c.currency /\ inForce(t, s)
                         /\ c.amount >= t.amount * s.units
  <2>1. c \in Range(journey.charges) \/ c \in Range(journey.optional)
    BY <1>6, JoinedRange
  <2>2. PICK i \in 1..n : c \in Range(Move(given, i).charges)
    BY <1>4, <1>6, <2>1 DEF AllCharges, segments
  <2>3. PICK s \in Range(segments) : s = segments[i]
    BY <1>5
  <2>4. ChargeOf(given, s, c)
    BY <1>5, <2>2, <2>3, ChargesAreTold
  <2>5. c \in Range(IF s.optional THEN journey.optional ELSE journey.charges)
    <3>1. s.optional \in BOOLEAN /\ c.optional = s.optional
      BY <1>1, <2>4 DEF JourneyIsRead, ChargeOf, segments
    <3>. QED
      BY <1>6, <2>1, <3>1
  <2>6. IF s.vehicle # None THEN c.what = "fuel" => c.amount > 0
        ELSE \E t \in given.desk.tariffs :
               /\ t.destination = s.destination /\ t.currency = c.currency /\ inForce(t, s)
               /\ c.amount >= t.amount * s.units
    BY <2>4, Zenon DEF ChargeOf, InForce, DayOf
  <2>7. s.seq = c.seq /\ priced(s)
    BY <2>4 DEF ChargeOf
  <2>. QED
    BY <2>5, <2>6, <2>7
<1>. HIDE DEF all, priced, charged, byTariff, driven, inForce
<1>10. \A s \in Range(segments) :
         /\ charged(s.seq, "fare") = byTariff(s.seq)
         /\ charged(s.seq, "fuel") = driven(s.seq) /\ charged(s.seq, "crew") <= driven(s.seq)
         /\ s.mode \in J!NAMED_ONLY_MODES => s.seq \in journey.named
         /\ priced(s) /\ s.vehicle # None =>
              \E r \in given.desk.routes :
                /\ {r.from, r.to} = {s.origin, s.destination} /\ inForce(r, s)
                /\ r.takes = {} \/ s.vehicle.type \in r.takes
  BY <1>7, <1>8
<1>11. \A c \in Range(all) :
         \E s \in Range(segments) :
           /\ s.seq = c.seq /\ priced(s)
           /\ c \in Range(IF s.optional THEN journey.optional ELSE journey.charges)
           /\ IF s.vehicle # None THEN c.what = "fuel" => c.amount > 0
              ELSE \E t \in given.desk.tariffs :
                     /\ t.destination = s.destination /\ t.currency = c.currency /\ inForce(t, s)
                     /\ c.amount >= t.amount * s.units
  BY <1>9
<1>. QED
  BY <1>10, <1>11, Zenon
     DEF ReadyJourneyIsCharged, all, priced, charged, byTariff, driven, inForce, segments, journey

\* A journey nothing blocks is charged movement by movement, however its segments are
\* numbered, for any tariffs, roads and fuel prices on file.
THEOREM ReadyJourneysAreCharged == Spec => []ReadyJourneyIsCharged
<1>1. Init => JourneyInv
  BY DEF Init, JourneyInv
<1>. QED
  BY <1>1, JourneyStep, JourneyInvCharges, PTL DEF Spec

-------------------------------------------------------------------------------
(***************************************************************************)
(* What each cohort bears                                                  *)
(***************************************************************************)

LEMMA RoundedIsNumber ==
  ASSUME NEW n \in Int, NEW d \in Nat \ {0}
  PROVE  HalfEven(n, d) \in Int
<1>1. PICK q \in Int : q = n \div d
  BY Divided
<1>. QED
  BY <1>1 DEF HalfEven

\* A part of a group, none of it empty.
IsParty(cohorts, m) ==
  /\ m \in Nat \ {0} /\ DOMAIN cohorts = 1..m /\ Len(cohorts) = m
  /\ \A i \in 1..m : cohorts[i].count \in Nat \ {0}

LEMMA PartyIsSomebody ==
  ASSUME NEW cohorts, NEW m, IsParty(cohorts, m)
  PROVE  LET counts == [i \in 1..m |-> cohorts[i].count]
         IN  /\ Integral(counts, 1..m) /\ Heads(cohorts) = SumFunctionOnSet(counts, 1..m)
             /\ Heads(cohorts) \in Nat \ {0}
<1>. DEFINE counts == [i \in 1..m |-> cohorts[i].count]
<1>1. /\ m \in Nat \ {0} /\ DOMAIN cohorts = 1..m
      /\ \A i \in 1..m : cohorts[i].count \in Nat \ {0}
  BY DEF IsParty
<1>2. /\ DOMAIN counts = 1..m /\ Integral(counts, 1..m)
      /\ \A i \in 1..m : counts[i] \in Nat \ {0}
  BY <1>1 DEF Integral
<1>3. Heads(cohorts) = Total(counts)
  BY <1>1 DEF Heads
<1>. HIDE DEF counts
<1>4. PICK D : D = 1..m /\ IsFiniteSet(D)
  BY <1>1, FS_Interval
<1>5. Total(counts) = SumFunctionOnSet(counts, 1..m)
  BY <1>1, <1>2, TotalIsSum
<1>6. PICK x \in D : x = m
  BY <1>1, <1>4
<1>7. SumFunctionOnSet(counts, D) = counts[x] + SumFunctionOnSet(counts, D \ {x})
  BY <1>2, <1>4, <1>6, SumTakes
<1>8. SumFunctionOnSet(counts, D \ {x}) \in Nat
  <2>1. IsFiniteSet(D \ {x}) /\ \A i \in D \ {x} : counts[i] \in Nat
    BY <1>2, <1>4, FS_Subset
  <2>. QED
    BY <2>1, SumIsNat
<1>9. counts[x] \in Nat \ {0}
  BY <1>2, <1>4
<1>. QED
  BY <1>2, <1>3, <1>4, <1>5, <1>7, <1>8, <1>9 DEF counts

\* Shares add up to what is shared, however they are rounded: the last cohort has what is left.
LEMMA SharesAddUp ==
  ASSUME NEW cohorts, NEW m, IsParty(cohorts, m), NEW total \in Int
  PROVE  LET shares == SplitPerHead(total, cohorts)
         IN  /\ DOMAIN shares = 1..m /\ Integral(shares, 1..m)
             /\ SumFunctionOnSet(shares, 1..m) = total
<1>. DEFINE rounded == RoundedShares(total, cohorts)
            shares == SplitPerHead(total, cohorts)
<1>1. /\ m \in Nat \ {0} /\ DOMAIN cohorts = 1..m /\ Len(cohorts) = m
      /\ \A i \in 1..m : cohorts[i].count \in Nat \ {0}
  BY DEF IsParty
<1>2. rounded \in [1..m -> Int]
  <2>1. PICK heads \in Nat \ {0} : heads = Heads(cohorts)
    BY PartyIsSomebody
  <2>2. ASSUME NEW i \in 1..m PROVE HalfEven(total * cohorts[i].count, heads) \in Int
    <3>1. PICK n \in Int : n = total * cohorts[i].count
      BY <1>1
    <3>. QED
      BY <2>1, <3>1, RoundedIsNumber
  <2>. QED
    BY <1>1, <2>1, <2>2 DEF RoundedShares
<1>3. shares = [i \in 1..m |-> IF i < m THEN rounded[i] ELSE total - Total(Front(rounded))]
  BY <1>1, Zenon DEF SplitPerHead
<1>. HIDE DEF rounded, shares
<1>4. PICK front : front = Front(rounded)
  OBVIOUS
<1>5. /\ DOMAIN front = 1..(m - 1) /\ m - 1 \in Nat
      /\ \A i \in 1..(m - 1) : front[i] = rounded[i] /\ front[i] \in Int
  <2>1. Len(rounded) = m
    BY <1>1, <1>2, LenProperties, SeqDef
  <2>2. front = SubSeq(rounded, 1, m - 1)
    BY <1>4, <2>1 DEF Front
  <2>3. \A i \in 1..(m - 1) : rounded[i] \in Int
    BY <1>1, <1>2
  <2>4. /\ front \in Seq(Int)
        /\ Len(front) = IF 1 <= m - 1 THEN (m - 1) - 1 + 1 ELSE 0
        /\ \A i \in 1..((m - 1) - 1 + 1) : front[i] = rounded[1 + i - 1]
    BY <1>1, <2>2, <2>3, SubSeqProperties
  <2>5. Len(front) = m - 1 /\ m - 1 \in Nat
    BY <1>1, <2>4
  <2>. QED
    BY <1>1, <2>3, <2>4, <2>5, LenProperties
<1>6. PICK D : D = 1..m /\ IsFiniteSet(D)
  BY <1>1, FS_Interval
<1>7. PICK E : E = 1..(m - 1) /\ IsFiniteSet(E)
  BY <1>5, FS_Interval
<1>8. PICK x \in D : x = m
  BY <1>1, <1>6
<1>9. D \ {x} = E
  BY <1>1, <1>6, <1>7, <1>8
<1>10. Integral(front, E) /\ Integral(rounded, E)
  BY <1>5, <1>7 DEF Integral
<1>11. Total(front) = SumFunctionOnSet(front, E) /\ Total(front) \in Int
  <2>1. Total(front) = SumFunctionOnSet(front, 1..(m - 1))
    BY <1>5, <1>7, <1>10, TotalIsSum
  <2>2. SumFunctionOnSet(front, E) \in Int
    BY <1>7, <1>10, SumIsInt
  <2>. QED
    BY <1>7, <2>1, <2>2
<1>12. /\ shares[x] = total - Total(front)
       /\ \A i \in E : shares[i] = front[i]
       /\ DOMAIN shares = D
  BY <1>1, <1>3, <1>4, <1>5, <1>6, <1>7, <1>8
<1>13. Integral(shares, D) /\ Integral(shares, E)
  <2>1. \A i \in E : shares[i] \in Int
    BY <1>5, <1>7, <1>12
  <2>2. shares[x] \in Int
    BY <1>11, <1>12
  <2>3. \A i \in D : i = x \/ i \in E
    BY <1>9
  <2>. QED
    BY <2>1, <2>2, <2>3 DEF Integral
<1>14. SumFunctionOnSet(shares, D) = shares[x] + SumFunctionOnSet(shares, D \ {x})
  <2>1. IsFiniteSet(D) /\ Integral(shares, D)
    BY <1>6, <1>13
  <2>2. PICK f : f = shares
    OBVIOUS
  <2>3. Integral(f, D)
    BY <2>1, <2>2
  <2>4. SumFunctionOnSet(f, D) = f[x] + SumFunctionOnSet(f, D \ {x})
    BY <2>1, <2>3, SumTakes
  <2>. QED
    BY <2>2, <2>4
<1>15. SumFunctionOnSet(shares, E) = SumFunctionOnSet(front, E)
  BY <1>7, <1>12, <1>13, SumOfSame
<1>16. SumFunctionOnSet(shares, D) = total
  <2>1. SumFunctionOnSet(shares, D \ {x}) = Total(front)
    BY <1>9, <1>11, <1>15
  <2>2. PICK t \in Int : t = Total(front)
    BY <1>11
  <2>. QED
    BY <1>12, <1>14, <2>1, <2>2
<1>17. DOMAIN shares = 1..m /\ Integral(shares, 1..m) /\ SumFunctionOnSet(shares, 1..m) = total
  BY <1>6, <1>12, <1>13, <1>16
<1>. QED
  BY <1>17 DEF shares

\* The cohorts a line is of, and the ones it is split between.
Bearers(line, group) ==
  {i \in DOMAIN group : /\ line.residence \in {None, group[i].residence}
                        /\ line.type \in {None, group[i].type}
                        /\ line.bearers = {} \/ group[i].type \in line.bearers}

\* A line's shares, each to its own cohort.
IsBorne(line, group, capacity, cost) ==
  /\ CostOf(line, group, capacity) = cost /\ cost \in Int
  /\ Bearers(line, group) # {}

LEMMA TargetsAreCounted ==
  ASSUME NEW line, NEW group, NEW g, IsGroup(group, g)
  PROVE  LET K == Bearers(line, group)
             targets == Targets(line, group)
         IN  /\ IsFiniteSet(K) /\ Cardinality(K) \in Nat /\ Counts(K, targets)
             /\ RowsAt(group, K) = [i \in DOMAIN targets |-> group[targets[i]]]
<1>. DEFINE K == Bearers(line, group)
            steps == [i \in DOMAIN group |-> i]
            m == Cardinality(K)
<1>1. K \in SUBSET (1..g) /\ g \in Nat /\ DOMAIN group = 1..g
  BY DEF Bearers, IsGroup
<1>2. Targets(line, group) = RowsAt(steps, {i \in DOMAIN steps :
                       /\ line.residence \in {None, group[steps[i]].residence}
                       /\ line.type \in {None, group[steps[i]].type}
                       /\ line.bearers = {} \/ group[steps[i]].type \in line.bearers})
  BY Zenon DEF Targets, Kept
<1>3. {i \in DOMAIN steps : /\ line.residence \in {None, group[steps[i]].residence}
                            /\ line.type \in {None, group[steps[i]].type}
                            /\ line.bearers = {} \/ group[steps[i]].type \in line.bearers} = K
  BY DEF Bearers
<1>. HIDE DEF K
<1>4. PICK pos : Counts(K, pos) /\ \A r : RowsAt(r, K) = [k \in 1..m |-> r[pos[k]]]
  BY <1>1, PositionsAreCounted
<1>5. RowsAt(steps, K) = pos
  <2>1. pos \in [1..m -> K]
    BY <1>4 DEF Counts
  <2>2. RowsAt(steps, K) = [k \in 1..m |-> steps[pos[k]]]
    BY <1>4
  <2>3. \A k \in 1..m : steps[pos[k]] = pos[k]
    BY <1>1, <2>1
  <2>. QED
    BY <2>1, <2>2, <2>3
<1>6. IsFiniteSet(K) /\ Cardinality(K) \in Nat
  BY <1>1, PositionsAreCounted
<1>7. PICK targets : targets = Targets(line, group)
  OBVIOUS
<1>8. targets = pos
  BY <1>2, <1>3, <1>4, <1>5, <1>7
<1>9. DOMAIN pos = 1..m
  BY <1>4 DEF Counts
<1>10. RowsAt(group, K) = [i \in DOMAIN targets |-> group[targets[i]]]
  BY <1>4, <1>8, <1>9
<1>11. Counts(K, targets)
  BY <1>4, <1>8
<1>. QED
  BY <1>6, <1>7, <1>10, <1>11 DEF K

\* Nothing of a line is lost between the cohorts that bear it, and nothing is borne twice.
LEMMA LineIsShared ==
  ASSUME NEW group, NEW g, IsGroup(group, g), NEW line, NEW capacity, NEW cost,
         IsBorne(line, group, capacity, cost)
  PROVE  LET shares == SharesOf(line, group, capacity)
         IN  /\ DOMAIN shares = 1..g /\ Integral(shares, 1..g)
             /\ SumFunctionOnSet(shares, 1..g) = cost
<1>. DEFINE K == Bearers(line, group)
            shares == SharesOf(line, group, capacity)
<1>1. PICK m \in Nat : m = Cardinality(K)
  BY TargetsAreCounted
<1>2. PICK pos : pos = Targets(line, group) /\ Counts(K, pos)
  BY TargetsAreCounted
<1>3. /\ IsFiniteSet(K) /\ K \in SUBSET (1..g) /\ DOMAIN group = 1..g /\ g \in Nat /\ K # {}
      /\ \A i \in 1..g : group[i].count \in Nat \ {0}
  BY TargetsAreCounted DEF IsBorne, IsGroup, Bearers
<1>4. PICK cohorts : cohorts = [i \in DOMAIN pos |-> group[pos[i]]]
  OBVIOUS
<1>5. PICK split : split = SplitPerHead(cost, cohorts)
  OBVIOUS
<1>6. shares = [c \in 1..g |-> IF \E i \in DOMAIN pos : pos[i] = c
                               THEN split[CHOOSE i \in DOMAIN pos : pos[i] = c] ELSE 0]
  BY <1>2, <1>3, <1>4, <1>5, Zenon DEF SharesOf, IsBorne
<1>. HIDE DEF shares, K
<1>7. /\ pos \in [1..m -> K] /\ \A i \in K : \E k \in 1..m : pos[k] = i
      /\ \A k, l \in 1..m : k < l => pos[k] < pos[l]
  BY <1>1, <1>2 DEF Counts
<1>8. \A k, l \in 1..m : pos[k] = pos[l] => k = l
  <2>1. \A i \in K : i \in Int
    BY <1>3
  <2>2. \A k \in 1..m : pos[k] \in K
    BY <1>7
  <2>3. ASSUME NEW k \in 1..m, NEW l \in 1..m, k < l PROVE pos[k] # pos[l]
    BY <1>7, <2>1, <2>2, <2>3
  <2>4. \A k, l \in 1..m : k < l \/ l < k \/ k = l
    OBVIOUS
  <2>. QED
    BY <2>3, <2>4
<1>9. IsParty(cohorts, m)
  <2>1. DOMAIN cohorts = 1..m
    BY <1>4, <1>7
  <2>2. m # 0
    <3>1. PICK i \in K : TRUE
      BY <1>3
    <3>2. PICK k \in 1..m : pos[k] = i
      BY <1>7
    <3>. QED
      BY <3>2
  <2>3. \A i \in 1..m : cohorts[i].count \in Nat \ {0}
    BY <1>3, <1>4, <1>7
  <2>4. cohorts \in Seq({cohorts[i] : i \in 1..m})
    BY <2>1, <1>4, <1>7
  <2>5. Len(cohorts) = m
    BY <2>1, <2>4, LenProperties
  <2>. QED
    BY <2>1, <2>2, <2>3, <2>5 DEF IsParty
<1>10. DOMAIN split = 1..m /\ Integral(split, 1..m) /\ SumFunctionOnSet(split, 1..m) = cost
  <2>1. cost \in Int
    BY DEF IsBorne
  <2>. QED
    BY <1>5, <1>9, <2>1, SharesAddUp
<1>11. \A k \in 1..m : split[k] = shares[pos[k]]
  <2>1. ASSUME NEW k \in 1..m PROVE split[k] = shares[pos[k]]
    <3>1. pos[k] \in 1..g /\ DOMAIN pos = 1..m
      BY <1>3, <1>7
    <3>2. (CHOOSE i \in 1..m : pos[i] = pos[k]) = k
      BY <1>8
    <3>. QED
      BY <1>6, <3>1, <3>2
  <2>. QED
    BY <2>1
<1>12. {pos[k] : k \in 1..m} = K
  BY <1>7
<1>13. PICK M : M = 1..m /\ IsFiniteSet(M)
  BY <1>1, FS_Interval
<1>14. SumFunctionOnSet(split, M) = SumFunctionOnSet(shares, {pos[k] : k \in M})
  <2>1. /\ IsFiniteSet(M) /\ Integral(split, M) /\ \A k \in M : split[k] = shares[pos[k]]
        /\ \A k, l \in M : pos[k] = pos[l] => k = l
    BY <1>8, <1>10, <1>11, <1>13
  <2>. QED
    BY <2>1, SumRenames
<1>15. PICK D : D = 1..g /\ IsFiniteSet(D)
  BY <1>3, FS_Interval
<1>16. Integral(shares, D) /\ \A c \in D \ K : shares[c] = 0
  <2>1. ASSUME NEW c \in D, c \in K PROVE shares[c] \in Int
    <3>1. PICK k \in 1..m : pos[k] = c
      BY <1>7, <2>1
    <3>. QED
      BY <1>10, <1>11, <3>1 DEF Integral
  <2>2. ASSUME NEW c \in D, c \notin K PROVE shares[c] = 0
    <3>1. ~\E i \in DOMAIN pos : pos[i] = c
      BY <1>7, <2>2
    <3>. QED
      BY <1>6, <1>15, <3>1
  <2>. QED
    BY <2>1, <2>2 DEF Integral
<1>17. SumFunctionOnSet(shares, K) = SumFunctionOnSet(shares, D)
  <2>1. K \in SUBSET D
    BY <1>3, <1>15
  <2>. QED
    BY <1>15, <1>16, <2>1, SumOverSubset
<1>18. DOMAIN shares = 1..g
  BY <1>6
<1>19. Integral(shares, 1..g) /\ SumFunctionOnSet(shares, 1..g) = cost
  BY <1>10, <1>12, <1>13, <1>14, <1>15, <1>16, <1>17
<1>. QED
  BY <1>18, <1>19 DEF shares

-------------------------------------------------------------------------------
(***************************************************************************)
(* Sums of sums                                                            *)
(***************************************************************************)

Table(F, A, B) == IsFiniteSet(A) /\ IsFiniteSet(B) /\ \A a \in A : Integral(F[a], B)
Down(F, T, b) == SumFunctionOnSet([a \in T |-> F[a][b]], T)

Grown(F, T, a, b) ==
  /\ Down(F, T, b) \in Int /\ Down(F, T \ {a}, b) \in Int
  /\ Down(F, T, b) = F[a][b] + Down(F, T \ {a}, b)

\* One row more of a table is that row more in every column.
LEMMA ColumnsGrow ==
  ASSUME NEW F, NEW A, NEW B, Table(F, A, B), NEW T \in SUBSET A, NEW a \in T, NEW b \in B
  PROVE  Grown(F, T, a, b)
<1>. DEFINE f == [x \in T |-> F[x][b]]
            rest == [x \in T \ {a} |-> F[x][b]]
<1>1. PICK R : R = T \ {a} /\ IsFiniteSet(R)
  BY FS_Subset DEF Table
<1>2. IsFiniteSet(T) /\ \A x \in T : F[x][b] \in Int
  BY FS_Subset DEF Table, Integral
<1>3. /\ \A x \in T : f[x] = F[x][b] /\ f[x] \in Int
      /\ \A x \in R : rest[x] = f[x] /\ rest[x] \in Int
  BY <1>1, <1>2
<1>4. Down(F, T, b) = SumFunctionOnSet(f, T) /\ Down(F, R, b) = SumFunctionOnSet(rest, R)
  BY <1>1 DEF Down
<1>. HIDE DEF f, rest
<1>5. Integral(f, T)
  BY <1>3 DEF Integral
<1>6. Integral(rest, R) /\ Integral(f, R)
  BY <1>1, <1>3 DEF Integral
<1>7. SumFunctionOnSet(f, T) = f[a] + SumFunctionOnSet(f, T \ {a})
  BY <1>2, <1>5, SumTakes
<1>8. SumFunctionOnSet(rest, R) = SumFunctionOnSet(f, R)
  BY <1>1, <1>3, <1>6, SumOfSame
<1>9. SumFunctionOnSet(f, T) \in Int
  BY <1>2, <1>5, SumIsInt
<1>10. SumFunctionOnSet(rest, R) \in Int
  BY <1>1, <1>6, SumIsInt
<1>. QED
  BY <1>1, <1>3, <1>4, <1>7, <1>8, <1>9, <1>10 DEF Grown

Tabled(F, A, B, rows, cols) ==
  /\ Table(F, A, B)
  /\ \A a \in A : rows[a] = SumFunctionOnSet(F[a], B)
  /\ \A b \in B : cols[b] = SumFunctionOnSet([a \in A |-> F[a][b]], A)
TabledAlike(A, B, rows, cols) ==
  Integral(rows, A) /\ Integral(cols, B) /\ SumFunctionOnSet(rows, A) = SumFunctionOnSet(cols, B)

\* A table adds up to the same by its rows and by its columns.
LEMMA TableAddsUp ==
  ASSUME NEW F, NEW A, NEW B, NEW rows, NEW cols, Tabled(F, A, B, rows, cols)
  PROVE  TabledAlike(A, B, rows, cols)
<1>a. /\ Table(F, A, B)
      /\ \A a \in A : rows[a] = SumFunctionOnSet(F[a], B)
      /\ \A b \in B : cols[b] = SumFunctionOnSet([a \in A |-> F[a][b]], A)
  BY DEF Tabled
<1>0. ASSUME NEW T \in SUBSET A, NEW a \in T, NEW b \in B
      PROVE  Grown(F, T, a, b)
  BY <1>a, ColumnsGrow
<1>. DEFINE down(T) == [b \in B |-> Down(F, T, b)]
            Q == {T \in SUBSET A : SumFunctionOnSet(rows, T) = SumFunctionOnSet(down(T), B)}
<1>1. IsFiniteSet(A) /\ IsFiniteSet(B) /\ \A a \in A : Integral(F[a], B)
  BY <1>a DEF Table
<1>2. \A a \in A : rows[a] \in Int
  <2>1. ASSUME NEW a \in A PROVE SumFunctionOnSet(F[a], B) \in Int
    BY <1>1, SumIsInt
  <2>. QED
    BY <1>a, <2>1
<1>3. ASSUME NEW T \in SUBSET A, NEW a \in T, SumFunctionOnSet(rows, T \ {a}) = SumFunctionOnSet(down(T \ {a}), B)
      PROVE  Integral(down(T), B) /\ SumFunctionOnSet(rows, T) = SumFunctionOnSet(down(T), B)
  <2>1. PICK R : R = T \ {a}
    OBVIOUS
  <2>2. PICK h : h = down(T)
    OBVIOUS
  <2>3. PICK r : r = down(R)
    OBVIOUS
  <2>4. PICK f : f = F[a]
    OBVIOUS
  <2>5. \A b \in B : h[b] \in Int /\ r[b] \in Int /\ f[b] \in Int /\ h[b] = f[b] + r[b]
    <3>1. ASSUME NEW b \in B PROVE h[b] \in Int /\ r[b] \in Int /\ h[b] = f[b] + r[b]
      <4>1. h[b] = Down(F, T, b) /\ r[b] = Down(F, T \ {a}, b)
        BY <2>1, <2>2, <2>3
      <4>2. /\ Down(F, T, b) \in Int /\ Down(F, T \ {a}, b) \in Int
            /\ Down(F, T, b) = F[a][b] + Down(F, T \ {a}, b)
        BY <1>0 DEF Grown
      <4>. QED
        BY <2>4, <4>1, <4>2
    <3>2. \A b \in B : f[b] \in Int
      BY <1>1, <2>4 DEF Integral
    <3>. QED
      BY <3>1, <3>2
  <2>6. Integral(h, B) /\ Integral(r, B) /\ Integral(f, B)
    BY <2>5 DEF Integral
  <2>7. SumFunctionOnSet(h, B) = SumFunctionOnSet(f, B) + SumFunctionOnSet(r, B)
    <3>1. \A b \in B : h[b] = f[b] + r[b]
      BY <2>5
    <3>. HIDE DEF down
    <3>. QED
      BY <1>1, <2>6, <3>1, SumAdds
  <2>8. SumFunctionOnSet(rows, T) = rows[a] + SumFunctionOnSet(rows, T \ {a})
    <3>1. IsFiniteSet(T) /\ Integral(rows, T)
      BY <1>1, <1>2, FS_Subset DEF Integral
    <3>. QED
      BY <3>1, SumTakes
  <2>9. rows[a] = SumFunctionOnSet(f, B)
    BY <1>a, <2>4
  <2>. HIDE DEF down
  <2>. QED
    BY <1>3, <2>1, <2>2, <2>3, <2>6, <2>7, <2>8, <2>9
<1>4. SumFunctionOnSet(rows, {}) = SumFunctionOnSet(down({}), B)
  <2>1. \A b \in B : down({})[b] = 0
    BY SumOfNone DEF Down
  <2>2. PICK z : z = down({})
    OBVIOUS
  <2>3. \A b \in B : z[b] = 0
    BY <2>1, <2>2
  <2>4. SumFunctionOnSet(z, B) = 0
    BY <1>1, <2>3, SumOfNothing
  <2>. HIDE DEF down
  <2>. QED
    BY <2>2, <2>4, SumOfNone
<1>. HIDE DEF down
<1>5. ASSUME NEW T \in SUBSET A, \A x \in T : T \ {x} \in Q PROVE T \in Q
  <2>1. CASE T = {}
    BY <1>4, <2>1
  <2>2. CASE T # {}
    <3>1. PICK a \in T : SumFunctionOnSet(rows, T \ {a}) = SumFunctionOnSet(down(T \ {a}), B)
      BY <1>5, <2>2
    <3>. QED
      BY <1>3, <3>1
  <2>. QED
    BY <2>1, <2>2
<1>6. \A T \in SUBSET A : (\A x \in T : T \ {x} \in Q) => T \in Q
  BY <1>5
<1>. HIDE DEF Q
<1>7. A \in Q
  BY <1>1, <1>6, SubsetInduction
<1>8. SumFunctionOnSet(rows, A) = SumFunctionOnSet(down(A), B)
  BY <1>7 DEF Q
<1>9. PICK h : h = down(A)
  OBVIOUS
<1>10. \A b \in B : cols[b] = h[b] /\ cols[b] \in Int
  <2>1. ASSUME NEW b \in B PROVE cols[b] = h[b] /\ cols[b] \in Int
    <3>1. cols[b] = Down(F, A, b) /\ h[b] = Down(F, A, b)
      BY <1>a, <1>9, Zenon DEF down, Down
    <3>2. PICK f : f = [a \in A |-> F[a][b]]
      OBVIOUS
    <3>3. Integral(f, A)
      BY <1>1, <3>2 DEF Integral
    <3>4. SumFunctionOnSet(f, A) \in Int
      BY <1>1, <3>3, SumIsInt
    <3>5. cols[b] = SumFunctionOnSet(f, A)
      BY <1>a, <3>2
    <3>. QED
      BY <3>1, <3>4, <3>5
  <2>. QED
    BY <2>1
<1>11. Integral(cols, B) /\ Integral(rows, A)
  BY <1>2, <1>10 DEF Integral
<1>12. \A b \in B : cols[b] = h[b]
  BY <1>10
<1>13. SumFunctionOnSet(cols, B) = SumFunctionOnSet(h, B)
  BY <1>1, <1>11, <1>12, SumOfSame
<1>. QED
  BY <1>8, <1>9, <1>11, <1>13 DEF TabledAlike

\* A rooming has so many rooms.
RoomsOf(group, capacity) ==
  [residence \in Residences(group) |-> Len(Rooming(group, capacity, <<>>)[residence])]

LEMMA PlansHaveLengths ==
  ASSUME NEW pax \in Int, NEW capacity \in Nat \ {0}
  PROVE  Len(RoomPlan(pax, capacity)) \in Nat
<1>1. PICK k \in Nat : DOMAIN RoomPlan(pax, capacity) = 1..k
  BY PlanIsAList
<1>2. PICK plan : plan = RoomPlan(pax, capacity)
  OBVIOUS
<1>3. plan = [room \in DOMAIN plan |-> plan[room]]
  BY <1>2 DEF RoomPlan
<1>4. plan \in Seq({plan[room] : room \in 1..k})
  BY <1>1, <1>2, <1>3
<1>. QED
  BY <1>2, <1>4, LenProperties

LEMMA RoomsAreCounted ==
  ASSUME NEW group, NEW g, IsGroup(group, g), NEW capacity \in Nat \ {0}
  PROVE  TotalRooms(group, capacity) \in Int
<1>. DEFINE S == Residences(group)
            f == RoomsOf(group, capacity)
            rooms == Rooming(group, capacity, <<>>)
            step(s, h) == IF s = {} THEN 0
                          ELSE h[s \ {CHOOSE x \in s : TRUE}] + Len(rooms[CHOOSE x \in s : TRUE])
            chosen == CHOOSE h : h = [s \in SUBSET S |-> step(s, h)]
<1>1. TotalRooms(group, capacity) = chosen[S]
  BY DEF TotalRooms, FoldSet, MapThenFoldSet
<1>2. IsFiniteSet(S)
  <2>1. DOMAIN group = 1..g /\ g \in Nat
    BY DEF IsGroup
  <2>2. PICK D : D = 1..g /\ IsFiniteSet(D)
    BY <2>1, FS_Interval
  <2>3. PICK h : h = [i \in D |-> group[i].residence]
    OBVIOUS
  <2>4. S = {h[i] : i \in D}
    BY <2>1, <2>2, <2>3 DEF Residences
  <2>5. h \in Surjection(D, S)
    BY <2>3, <2>4 DEF Surjection
  <2>. HIDE DEF S
  <2>. QED
    BY <2>2, <2>5, FS_Surjection
<1>3. Integral(f, S)
  <2>1. ASSUME NEW residence \in S PROVE f[residence] \in Int
    <3>1. Headcount(group, residence) \in Int
      BY HeadcountsAreNumbers
    <3>2. residence \notin DOMAIN <<>>
      OBVIOUS
    <3>3. rooms[residence] = RoomPlan(Headcount(group, residence), capacity)
      BY <3>2 DEF Rooming
    <3>4. Len(RoomPlan(Headcount(group, residence), capacity)) \in Nat
      BY <3>1, PlansHaveLengths
    <3>. QED
      BY <3>3, <3>4 DEF RoomsOf
  <2>. QED
    BY <2>1 DEF Integral
<1>4. \A x \in S : f[x] = Len(rooms[x])
  BY DEF RoomsOf
<1>. HIDE DEF f, rooms, S
<1>5. ASSUME NEW h, NEW s \in SUBSET S PROVE Added(f, s, h) = step(s, h)
  <2>1. CASE s = {}
    BY <2>1 DEF Added
  <2>2. CASE s # {}
    <3>. DEFINE c == CHOOSE x \in s : TRUE
    <3>1. c \in S
      BY <2>2
    <3>2. f[c] = Len(rooms[c])
      BY <1>4, <3>1
    <3>3. Added(f, s, h) = h[s \ {c}] + f[c]
      BY <2>2 DEF Added
    <3>4. step(s, h) = h[s \ {c}] + Len(rooms[c])
      BY <2>2
    <3>. QED
      BY <3>2, <3>3, <3>4
  <2>. QED
    BY <2>1, <2>2
<1>. HIDE DEF step
<1>6. \A h : IsSumOf(f, S, h) <=> h = [s \in SUBSET S |-> step(s, h)]
  <2>1. ASSUME NEW h PROVE [s \in SUBSET S |-> Added(f, s, h)] = [s \in SUBSET S |-> step(s, h)]
    BY <1>5
  <2>. QED
    BY <2>1 DEF IsSumOf
<1>7. (\E h : IsSumOf(f, S, h)) /\ (\A h : IsSumOf(f, S, h) => h[S] = SumFunctionOnSet(f, S))
  BY <1>2, <1>3, SumIsAdded
<1>8. IsSumOf(f, S, chosen)
  BY <1>6, <1>7
<1>9. SumFunctionOnSet(f, S) \in Int
  BY <1>2, <1>3, SumIsInt
<1>. QED
  BY <1>1, <1>7, <1>8, <1>9

\* A line of a supplier's, in whole units of its currency.
IsLine(line) == {line.amount, line.nights, line.days, line.units} \subseteq Int

LEMMA MultiplierIsNumber ==
  ASSUME NEW line, IsLine(line), NEW p \in Int, NEW r \in Int
  PROVE  Multiplier(line, p, r) \in Int
<1>. DEFINE heads == CASE line.basis \in {"per_person", "per_person_per_night", "per_person_per_day"} -> p
                       [] line.basis \in {"per_room", "per_room_per_night"} -> r
                       [] OTHER -> 1
            times == CASE line.basis \in {"per_person_per_night", "per_room_per_night",
                                          "per_group_per_night"} -> line.nights
                       [] line.basis \in {"per_person_per_day", "per_group_per_day"} -> line.days
                       [] OTHER -> 1
<1>1. line.nights \in Int /\ line.days \in Int /\ line.units \in Int
  BY DEF IsLine
<1>2. Multiplier(line, p, r) = heads * times * line.units
  BY Zenon DEF Multiplier
<1>3. heads \in Int
  OBVIOUS
<1>4. times \in Int
  BY <1>1
<1>. HIDE DEF heads, times
<1>. QED
  BY <1>1, <1>2, <1>3, <1>4

LEMMA LineCostIsNumber ==
  ASSUME NEW group, NEW g, IsGroup(group, g), NEW capacity \in Nat \ {0}, NEW line, IsLine(line)
  PROVE  CostOf(line, group, capacity) \in Int
<1>1. PICK targets : targets = Targets(line, group)
  OBVIOUS
<1>2. PICK pax : pax = IF line.residence = None THEN Pax(group)
                       ELSE Heads([i \in DOMAIN targets |-> group[targets[i]]])
  OBVIOUS
<1>3. PICK rooms : rooms = IF line.residence = None THEN TotalRooms(group, capacity)
                           ELSE RoomsRequired(Headcount(group, line.residence), capacity)
  OBVIOUS
<1>4. CostOf(line, group, capacity) = line.amount * Multiplier(line, pax, rooms)
  BY <1>1, <1>2, <1>3 DEF CostOf
<1>5. pax \in Int
  <2>1. DOMAIN group = 1..g /\ g \in Nat
    BY DEF IsGroup
  <2>2. Pax(group) \in Int
    <3>1. RowsAt(group, 1..g) = group
      BY <2>1, AllRowsKept DEF IsGroup
    <3>2. Heads(RowsAt(group, 1..g)) \in Nat
      BY <2>1, HeadsCounted
    <3>. QED
      BY <3>1, <3>2 DEF Pax
  <2>3. Heads([i \in DOMAIN targets |-> group[targets[i]]]) \in Int
    <3>1. Bearers(line, group) \in SUBSET DOMAIN group
      BY DEF Bearers
    <3>2. Heads(RowsAt(group, Bearers(line, group))) \in Nat
      BY <3>1, HeadsCounted
    <3>3. RowsAt(group, Bearers(line, group)) = [i \in DOMAIN targets |-> group[targets[i]]]
      BY <1>1, TargetsAreCounted
    <3>. QED
      BY <3>2, <3>3
  <2>. QED
    BY <1>2, <2>2, <2>3
<1>6. rooms \in Int
  <2>1. TotalRooms(group, capacity) \in Int
    BY RoomsAreCounted
  <2>2. Headcount(group, line.residence) \in Nat
    BY HeadcountsAreNumbers
  <2>3. RoomsRequired(Headcount(group, line.residence), capacity) \in Int
    <3>1. PICK n \in Nat : n = Headcount(group, line.residence)
      BY <2>2
    <3>2. PICK q \in Int : q = (-n) \div capacity
      OBVIOUS
    <3>. QED
      BY <3>1, <3>2 DEF RoomsRequired, Ceiling
  <2>. QED
    BY <1>3, <2>1, <2>3
<1>7. Multiplier(line, pax, rooms) \in Int
  BY <1>5, <1>6, MultiplierIsNumber
<1>8. line.amount \in Int
  BY DEF IsLine
<1>. QED
  BY <1>4, <1>7, <1>8

-------------------------------------------------------------------------------
(***************************************************************************)
(* What each cohort pays                                                   *)
(***************************************************************************)

\* Rounded up to a step: what is due is covered, by less than a step a head.
LEMMA RoundedUpCovers ==
  ASSUME NEW selling \in Int, NEW count \in Nat \ {0}, NEW step \in Nat \ {0}
  PROVE  LET pays == RoundUpTo(selling, 10000 * count, step) * count
         IN  /\ pays \in Int
             /\ pays * 10000 >= selling
             /\ pays * 10000 < selling + 10000 * step * count
<1>1. PICK unit \in Nat \ {0} : unit = (10000 * count) * step
  OBVIOUS
<1>2. PICK q \in Int, r \in 0..(unit - 1) : q = (-selling) \div unit /\ -selling = unit * q + r
  <2>1. PICK a \in Int : a = -selling
    OBVIOUS
  <2>. QED
    BY <2>1, Divided
<1>3. RoundUpTo(selling, 10000 * count, step) = (-q) * step
  BY <1>1, <1>2 DEF RoundUpTo, Ceiling
<1>4. PICK pays : pays = RoundUpTo(selling, 10000 * count, step) * count
  OBVIOUS
<1>5. pays \in Int /\ pays * 10000 = unit * (-q)
  BY <1>1, <1>3, <1>4
<1>6. unit * (-q) = selling + r
  BY <1>2
<1>7. unit = 10000 * step * count
  BY <1>1
<1>. QED
  BY <1>2, <1>4, <1>5, <1>6, <1>7

LEMMA SumIsPositive ==
  ASSUME NEW f, NEW S, IsFiniteSet(S), NEW x \in S, \A y \in S : f[y] \in Nat \ {0}
  PROVE  SumFunctionOnSet(f, S) \in Nat \ {0}
<1>1. Integral(f, S) /\ f[x] \in Nat \ {0}
  BY DEF Integral
<1>2. SumFunctionOnSet(f, S) = f[x] + SumFunctionOnSet(f, S \ {x})
  BY <1>1, SumTakes
<1>3. IsFiniteSet(S \ {x}) /\ \A y \in S \ {x} : f[y] \in Nat
  BY FS_Subset
<1>4. SumFunctionOnSet(f, S \ {x}) \in Nat
  BY <1>3, SumIsNat
<1>. QED
  BY <1>1, <1>2, <1>4

Mixed(h, f, g, S, j, k) ==
  /\ IsFiniteSet(S) /\ Integral(f, S) /\ Integral(g, S) /\ j \in Int /\ k \in Int
  /\ \A x \in S : h[x] = j * f[x] + k * g[x]

LEMMA SumMixes ==
  ASSUME NEW h, NEW f, NEW g, NEW S, NEW j, NEW k, Mixed(h, f, g, S, j, k)
  PROVE  /\ Integral(h, S)
         /\ SumFunctionOnSet(h, S) = j * SumFunctionOnSet(f, S) + k * SumFunctionOnSet(g, S)
<1>1. PICK a : a = [x \in S |-> j * f[x]]
  OBVIOUS
<1>2. PICK b : b = [x \in S |-> k * g[x]]
  OBVIOUS
<1>3. /\ IsFiniteSet(S) /\ Integral(f, S) /\ Integral(g, S) /\ j \in Int /\ k \in Int
      /\ \A x \in S : f[x] \in Int /\ g[x] \in Int
  BY DEF Mixed, Integral
<1>4. \A x \in S : a[x] = j * f[x] /\ a[x] \in Int
  BY <1>1, <1>3
<1>5. \A x \in S : b[x] = k * g[x] /\ b[x] \in Int
  BY <1>2, <1>3
<1>6. \A x \in S : h[x] = a[x] + b[x]
  BY <1>4, <1>5 DEF Mixed
<1>7. Integral(a, S) /\ Integral(b, S)
  BY <1>4, <1>5 DEF Integral
<1>8. Scaled(a, f, S, j) /\ Scaled(b, g, S, k)
  BY <1>3, <1>4, <1>5 DEF Scaled
<1>9. SumFunctionOnSet(a, S) = j * SumFunctionOnSet(f, S)
  BY <1>8, ScaledSum
<1>10. SumFunctionOnSet(b, S) = k * SumFunctionOnSet(g, S)
  BY <1>8, ScaledSum
<1>11. SumFunctionOnSet(h, S) = SumFunctionOnSet(a, S) + SumFunctionOnSet(b, S)
  BY <1>3, <1>6, <1>7, SumAdds
<1>12. Integral(h, S)
  BY <1>4, <1>5, <1>6 DEF Integral
<1>. QED
  BY <1>9, <1>10, <1>11, <1>12

\* Each cohort pays what it owes, rounded up.
PaidUp(pays, cost, fees, counts, D, margin, step) ==
  /\ IsFiniteSet(D) /\ Integral(cost, D) /\ Integral(fees, D) /\ Integral(pays, D)
  /\ margin \in Int /\ step \in Nat \ {0}
  /\ \A c \in D : counts[c] \in Nat \ {0}
  /\ \A c \in D : pays[c] * 10000 >= cost[c] * margin + fees[c] * 10000
  /\ \A c \in D : pays[c] * 10000 < cost[c] * margin + fees[c] * 10000 + 10000 * step * counts[c]

LEMMA TogetherTheyPay ==
  ASSUME NEW pays, NEW cost, NEW fees, NEW counts, NEW D, NEW x \in D, NEW margin, NEW step,
         PaidUp(pays, cost, fees, counts, D, margin, step)
  PROVE  LET owes == SumFunctionOnSet(cost, D) * margin + SumFunctionOnSet(fees, D) * 10000
             paid == SumFunctionOnSet(pays, D)
         IN  /\ paid * 10000 >= owes
             /\ paid * 10000 < owes + 10000 * step * SumFunctionOnSet(counts, D)
<1>1. /\ IsFiniteSet(D) /\ Integral(cost, D) /\ Integral(fees, D) /\ Integral(pays, D)
      /\ margin \in Int /\ step \in Nat \ {0}
      /\ \A c \in D : counts[c] \in Nat \ {0}
      /\ \A c \in D : cost[c] \in Int /\ fees[c] \in Int /\ pays[c] \in Int
  BY DEF PaidUp, Integral
<1>2. Integral(counts, D)
  BY <1>1 DEF Integral
<1>3. PICK room \in Nat \ {0} : room = 10000 * step
  BY <1>1
<1>4. PICK selling : selling = [c \in D |-> margin * cost[c] + 10000 * fees[c]]
  OBVIOUS
<1>5. PICK upTo : upTo = [c \in D |-> 1 * selling[c] + room * counts[c]]
  OBVIOUS
<1>6. PICK p : p = [c \in D |-> 10000 * pays[c]]
  OBVIOUS
<1>7. PICK slack : slack = [c \in D |-> 1 * upTo[c] + (-1) * p[c]]
  OBVIOUS
<1>8. /\ Integral(selling, D)
      /\ SumFunctionOnSet(selling, D) = margin * SumFunctionOnSet(cost, D) + 10000 * SumFunctionOnSet(fees, D)
  <2>1. Mixed(selling, cost, fees, D, margin, 10000)
    BY <1>1, <1>4 DEF Mixed
  <2>. QED
    BY <2>1, SumMixes
<1>9. /\ Integral(upTo, D)
      /\ SumFunctionOnSet(upTo, D) = 1 * SumFunctionOnSet(selling, D) + room * SumFunctionOnSet(counts, D)
  <2>1. Mixed(upTo, selling, counts, D, 1, room)
    BY <1>1, <1>2, <1>3, <1>5, <1>8 DEF Mixed
  <2>. QED
    BY <2>1, SumMixes
<1>10. Integral(p, D) /\ SumFunctionOnSet(p, D) = 10000 * SumFunctionOnSet(pays, D)
  <2>1. Scaled(p, pays, D, 10000)
    BY <1>1, <1>6 DEF Scaled
  <2>2. Integral(p, D)
    BY <1>1, <1>6 DEF Integral
  <2>. QED
    BY <2>1, <2>2, ScaledSum
<1>11. /\ Integral(slack, D)
       /\ SumFunctionOnSet(slack, D) = 1 * SumFunctionOnSet(upTo, D) + (-1) * SumFunctionOnSet(p, D)
  <2>1. Mixed(slack, upTo, p, D, 1, -1)
    BY <1>1, <1>7, <1>9, <1>10 DEF Mixed
  <2>. QED
    BY <2>1, SumMixes
<1>12. ASSUME NEW c \in D PROVE selling[c] <= p[c] /\ slack[c] \in Nat \ {0}
  <2>1. PICK a \in Int, f \in Int, t \in Int, n \in Nat \ {0} :
          a = cost[c] /\ f = fees[c] /\ t = pays[c] /\ n = counts[c]
    BY <1>1
  <2>2. t * 10000 >= a * margin + f * 10000 /\ t * 10000 < a * margin + f * 10000 + 10000 * step * n
    BY <2>1 DEF PaidUp
  <2>3. PICK owed \in Int : owed = a * margin
    BY <1>1
  <2>4. PICK over \in Int : over = 10000 * step * n
    BY <1>1
  <2>5. selling[c] = owed + 10000 * f
    BY <1>1, <1>4, <2>1, <2>3
  <2>6. room * n = over
    BY <1>1, <1>3, <2>4
  <2>7. upTo[c] = selling[c] + over
    BY <1>5, <1>8, <2>1, <2>5, <2>6
  <2>8. p[c] = 10000 * t
    BY <1>6, <2>1
  <2>9. slack[c] = upTo[c] - p[c]
    BY <1>7, <2>5, <2>7, <2>8
  <2>. QED
    BY <2>2, <2>3, <2>4, <2>5, <2>7, <2>8, <2>9
<1>13. SumFunctionOnSet(selling, D) <= SumFunctionOnSet(p, D)
  <2>1. \A c \in D : selling[c] <= p[c]
    BY <1>12
  <2>. QED
    BY <1>1, <1>8, <1>10, <2>1, SumAtMost
<1>14. SumFunctionOnSet(slack, D) \in Nat \ {0}
  <2>1. \A c \in D : slack[c] \in Nat \ {0}
    BY <1>12
  <2>. QED
    BY <1>1, <2>1, SumIsPositive
<1>15. PICK C \in Int : C = SumFunctionOnSet(cost, D)
  BY <1>1, SumIsInt
<1>16. PICK F \in Int : F = SumFunctionOnSet(fees, D)
  BY <1>1, SumIsInt
<1>17. PICK sum \in Int : sum = SumFunctionOnSet(pays, D)
  BY <1>1, SumIsInt
<1>18. PICK H \in Int : H = SumFunctionOnSet(counts, D)
  BY <1>1, <1>2, SumIsInt
<1>19. PICK S \in Int : S = margin * C + 10000 * F
  BY <1>1
<1>20. PICK over \in Int : over = room * H
  OBVIOUS
<1>21. S = C * margin + F * 10000 /\ over = 10000 * step * H
  BY <1>1, <1>3, <1>19, <1>20
<1>22. S <= 10000 * sum
  BY <1>8, <1>10, <1>13, <1>15, <1>16, <1>17, <1>19
<1>23. S + over - 10000 * sum > 0
  <2>1. SumFunctionOnSet(upTo, D) = S + over
    BY <1>8, <1>9, <1>15, <1>16, <1>18, <1>19, <1>20
  <2>2. SumFunctionOnSet(slack, D) = S + over - 10000 * sum
    BY <1>10, <1>11, <1>17, <2>1
  <2>. QED
    BY <1>14, <2>2
<1>24. sum * 10000 >= S /\ sum * 10000 < S + over
  BY <1>22, <1>23
<1>. QED
  BY <1>15, <1>16, <1>17, <1>18, <1>21, <1>24

\* Of a line somebody bears, nothing is lost between its bearers and nothing is
\* borne twice: the shares split_per_head makes of it are what it costs, whatever
\* the currencies of the cohorts and however the shares are rounded.
THEOREM EveryLineIsBorne ==
  ASSUME NEW group, NEW g, IsGroup(group, g), NEW capacity \in Nat \ {0},
         NEW line, IsLine(line), Bearers(line, group) # {}
  PROVE  Total(SharesOf(line, group, capacity)) = CostOf(line, group, capacity)
<1>1. PICK cost \in Int : cost = CostOf(line, group, capacity)
  BY LineCostIsNumber
<1>2. IsBorne(line, group, capacity, cost)
  BY <1>1 DEF IsBorne
<1>3. PICK shares : shares = SharesOf(line, group, capacity)
  OBVIOUS
<1>4. DOMAIN shares = 1..g /\ Integral(shares, 1..g) /\ SumFunctionOnSet(shares, 1..g) = cost
  BY <1>2, <1>3, LineIsShared
<1>5. g \in Nat
  BY DEF IsGroup
<1>6. Total(shares) = SumFunctionOnSet(shares, 1..g)
  BY <1>4, <1>5, TotalIsSum
<1>. QED
  BY <1>1, <1>3, <1>4, <1>6

\* Lines with somebody to bear them, for cohorts billed in one currency, into
\* which every line has a direct rate: a whole number of units to the unit.
IsBilled(lines, n, group, g, rates, currency, multiple) ==
  /\ IsGroup(group, g) /\ g # 0 /\ \A c \in 1..g : group[c].currency = currency
  /\ n \in Nat /\ DOMAIN lines = 1..n
  /\ \A i \in 1..n : IsLine(lines[i]) /\ Bearers(lines[i], group) # {}
  /\ \A i \in 1..n : /\ multiple[i] \in Int
                     /\ rates[<<lines[i].currency, currency>>] = <<multiple[i], 1>>

LEMMA WholeUnitsConvert ==
  ASSUME NEW a \in Int, NEW k \in Int
  PROVE  Convert(a, <<k, 1>>) = k * a
<1>1. PICK m \in Int : m = a * k
  OBVIOUS
<1>2. m \div 1 = m
  <2>1. 1 \in Nat \ {0} /\ 0 \in 0..(1 - 1) /\ m = 1 * m + 0
    OBVIOUS
  <2>. QED
    BY <2>1, QuotientIs
<1>3. Convert(a, <<k, 1>>) = (a * k) \div 1
  BY DEF Convert
<1>. QED
  BY <1>1, <1>2, <1>3

\* What the cohorts bear together is what the lines come to.
LEMMA LinesAreAttributed ==
  ASSUME NEW lines, NEW n, NEW group, NEW g, NEW rates, NEW currency, NEW multiple,
         IsBilled(lines, n, group, g, rates, currency, multiple), NEW capacity \in Nat \ {0}
  PROVE  LET cost == Attribute(lines, group, capacity, rates)
             due == [i \in DOMAIN lines |-> Convert(CostOf(lines[i], group, capacity),
                                                    rates[<<lines[i].currency, currency>>])]
         IN  /\ DOMAIN cost = 1..g /\ Integral(cost, 1..g)
             /\ SumFunctionOnSet(cost, 1..g) = Total(due)
<1>1. /\ IsGroup(group, g) /\ g \in Nat /\ DOMAIN group = 1..g /\ n \in Nat /\ DOMAIN lines = 1..n
      /\ \A c \in 1..g : group[c].currency = currency
      /\ \A i \in 1..n : multiple[i] \in Int
  BY DEF IsBilled, IsGroup
<1>2. PICK A : A = 1..n /\ IsFiniteSet(A)
  BY <1>1, FS_Interval
<1>3. PICK B : B = 1..g /\ IsFiniteSet(B)
  BY <1>1, FS_Interval
<1>4. PICK shares : shares = [i \in A |-> SharesOf(lines[i], group, capacity)]
  OBVIOUS
<1>5. PICK costs : costs = [i \in A |-> CostOf(lines[i], group, capacity)]
  OBVIOUS
<1>6. ASSUME NEW i \in A
      PROVE  /\ costs[i] \in Int /\ DOMAIN shares[i] = 1..g /\ Integral(shares[i], B)
             /\ SumFunctionOnSet(shares[i], B) = costs[i]
  <2>1. PICK line : line = lines[i] /\ IsLine(line) /\ Bearers(line, group) # {}
    BY <1>2 DEF IsBilled
  <2>2. PICK cost \in Int : cost = CostOf(line, group, capacity)
    BY <1>1, <2>1, LineCostIsNumber
  <2>3. IsBorne(line, group, capacity, cost)
    BY <2>1, <2>2 DEF IsBorne
  <2>4. PICK own : own = SharesOf(line, group, capacity)
    OBVIOUS
  <2>5. DOMAIN own = 1..g /\ Integral(own, 1..g) /\ SumFunctionOnSet(own, 1..g) = cost
    BY <1>1, <2>3, <2>4, LineIsShared
  <2>. QED
    BY <1>3, <1>4, <1>5, <2>1, <2>2, <2>4, <2>5
<1>7. PICK F : F = [i \in A |-> [c \in B |-> multiple[i] * shares[i][c]]]
  OBVIOUS
<1>8. \A i \in A, c \in B : shares[i][c] \in Int /\ F[i][c] = multiple[i] * shares[i][c] /\ F[i][c] \in Int
  BY <1>1, <1>2, <1>6, <1>7 DEF Integral
<1>9. Table(F, A, B)
  BY <1>2, <1>3, <1>8 DEF Table, Integral
<1>10. PICK due : due = [i \in DOMAIN lines |-> Convert(CostOf(lines[i], group, capacity),
                                                         rates[<<lines[i].currency, currency>>])]
  OBVIOUS
<1>11. \A i \in A : due[i] = SumFunctionOnSet(F[i], B)
  <2>1. ASSUME NEW i \in A PROVE due[i] = SumFunctionOnSet(F[i], B)
    <3>1. due[i] = Convert(costs[i], <<multiple[i], 1>>)
      BY <1>1, <1>2, <1>5, <1>10 DEF IsBilled
    <3>2. due[i] = multiple[i] * costs[i]
      BY <1>1, <1>2, <1>6, <3>1, WholeUnitsConvert
    <3>3. PICK f : f = F[i]
      OBVIOUS
    <3>4. PICK s : s = shares[i]
      OBVIOUS
    <3>5. PICK k \in Int : k = multiple[i]
      BY <1>1, <1>2
    <3>6. Scaled(f, s, B, k)
      BY <1>3, <1>6, <1>8, <3>3, <3>4, <3>5 DEF Scaled
    <3>7. SumFunctionOnSet(f, B) = k * SumFunctionOnSet(s, B)
      BY <3>6, ScaledSum
    <3>. QED
      BY <1>6, <3>2, <3>3, <3>4, <3>5, <3>7
  <2>. QED
    BY <2>1
<1>12. PICK cost : cost = Attribute(lines, group, capacity, rates)
  OBVIOUS
<1>13. DOMAIN cost = 1..g
  BY <1>1, <1>12 DEF Attribute
<1>14. \A c \in B : cost[c] = SumFunctionOnSet([i \in A |-> F[i][c]], A)
  <2>1. ASSUME NEW c \in B PROVE cost[c] = SumFunctionOnSet([i \in A |-> F[i][c]], A)
    <3>1. PICK borne : borne = [i \in A |-> IF shares[i][c] = 0 THEN 0
                                 ELSE Convert(shares[i][c], rates[<<lines[i].currency, group[c].currency>>])]
      OBVIOUS
    <3>2. cost[c] = Total(borne)
      BY <1>1, <1>2, <1>3, <1>4, <1>12, <3>1 DEF Attribute
    <3>3. ASSUME NEW i \in A PROVE borne[i] = F[i][c]
      <4>1. rates[<<lines[i].currency, group[c].currency>>] = <<multiple[i], 1>>
        BY <1>1, <1>2, <1>3 DEF IsBilled
      <4>2. shares[i][c] \in Int /\ multiple[i] \in Int
        BY <1>1, <1>2, <1>8
      <4>3. Convert(shares[i][c], <<multiple[i], 1>>) = multiple[i] * shares[i][c]
        BY <4>2, WholeUnitsConvert
      <4>4. CASE shares[i][c] = 0
        BY <1>8, <3>1, <4>2, <4>4
      <4>5. CASE shares[i][c] # 0
        BY <1>8, <3>1, <4>1, <4>3, <4>5
      <4>. QED
        BY <4>4, <4>5
    <3>4. borne = [i \in A |-> F[i][c]]
      BY <3>1, <3>3
    <3>5. DOMAIN borne = 1..n /\ Integral(borne, 1..n)
      BY <1>2, <1>8, <3>4 DEF Integral
    <3>6. Total(borne) = SumFunctionOnSet(borne, 1..n)
      BY <1>1, <3>5, TotalIsSum
    <3>. QED
      BY <1>2, <3>2, <3>4, <3>6
  <2>. QED
    BY <2>1
<1>15. /\ Integral(due, A) /\ Integral(cost, B)
       /\ SumFunctionOnSet(due, A) = SumFunctionOnSet(cost, B)
  <2>1. Tabled(F, A, B, due, cost)
    BY <1>9, <1>11, <1>14 DEF Tabled
  <2>. QED
    BY <2>1, TableAddsUp DEF TabledAlike
<1>16. Total(due) = SumFunctionOnSet(due, A)
  <2>1. DOMAIN due = 1..n /\ Integral(due, 1..n)
    BY <1>1, <1>2, <1>10, <1>15
  <2>2. Total(due) = SumFunctionOnSet(due, 1..n)
    BY <1>1, <2>1, TotalIsSum
  <2>. QED
    BY <1>2, <2>2
<1>17. DOMAIN cost = 1..g /\ Integral(cost, 1..g) /\ SumFunctionOnSet(cost, 1..g) = Total(due)
  BY <1>3, <1>13, <1>15, <1>16
<1>. QED
  BY <1>10, <1>12, <1>17

\* A group is a party: it is split as the bearers of a line are.
LEMMA GroupIsParty ==
  ASSUME NEW group, NEW g, IsGroup(group, g), g # 0
  PROVE  IsParty(group, g)
<1>1. /\ g \in Nat \ {0} /\ group \in [1..g -> Range(group)] /\ DOMAIN group = 1..g
      /\ \A i \in 1..g : group[i].count \in Nat \ {0}
  BY DEF IsGroup
<1>2. group \in Seq(Range(group))
  BY <1>1
<1>3. Len(group) = g
  BY <1>1, <1>2, LenProperties
<1>. QED
  BY <1>1, <1>3 DEF IsParty

\* The build-up of every cohort.
BuiltUp(pays, cost, fees, counts, D, margin, step, group, g, terms, built) ==
  /\ IsGroup(group, g) /\ D = 1..g /\ Integral(cost, D) /\ Integral(fees, D)
  /\ margin \in Int /\ margin = (100 + terms.contingency) * (100 + terms.profit)
  /\ {step, terms.contingency, terms.profit} \subseteq Int /\ step \in Nat \ {0}
  /\ built = [c \in D |-> BuildUp(cost[c], group[c].count, terms, fees[c], step, TRUE)]
  /\ pays = [c \in D |-> built[c].total] /\ counts = [c \in D |-> group[c].count]

\* What each cohort pays is what it owes, rounded up to a step a head.
LEMMA CohortsArePaidUp ==
  ASSUME NEW pays, NEW cost, NEW fees, NEW counts, NEW D, NEW margin, NEW step,
         NEW group, NEW g, NEW terms, NEW built,
         BuiltUp(pays, cost, fees, counts, D, margin, step, group, g, terms, built)
  PROVE  PaidUp(pays, cost, fees, counts, D, margin, step)
<1>1. built = [c \in D |-> BuildUp(cost[c], group[c].count, terms, fees[c], step, TRUE)]
  BY Zenon DEF BuiltUp
<1>2. pays = [c \in D |-> built[c].total]
  BY DEF BuiltUp
<1>3. counts = [c \in D |-> group[c].count]
  BY DEF BuiltUp
<1>4. /\ margin \in Int /\ step \in Nat \ {0} /\ terms.contingency \in Int /\ terms.profit \in Int
      /\ margin = (100 + terms.contingency) * (100 + terms.profit)
      /\ IsGroup(group, g) /\ D = 1..g /\ Integral(cost, D) /\ Integral(fees, D)
  BY DEF BuiltUp
<1>5. IsFiniteSet(D)
  BY <1>4, FS_Interval DEF IsGroup
<1>6. ASSUME NEW c \in D
      PROVE  /\ counts[c] \in Nat \ {0} /\ pays[c] \in Int
             /\ pays[c] * 10000 >= cost[c] * margin + fees[c] * 10000
             /\ pays[c] * 10000 < cost[c] * margin + fees[c] * 10000 + 10000 * step * counts[c]
  <2>1. PICK count \in Nat \ {0} : count = group[c].count
    BY <1>4 DEF IsGroup
  <2>2. PICK a \in Int, f \in Int : a = cost[c] /\ f = fees[c]
    BY <1>4 DEF Integral
  <2>3. PICK selling \in Int : selling = a * margin + f * 10000
    BY <1>4
  <2>4. SellingTotal(a, terms, f) = selling
    <3>1. SellingTotal(a, terms, f) = a * (100 + terms.contingency) * (100 + terms.profit) + f * 10000
      BY Zenon DEF SellingTotal
    <3>2. PICK u \in Int, v \in Int : u = 100 + terms.contingency /\ v = 100 + terms.profit
      BY <1>4
    <3>3. margin = u * v /\ a * (100 + terms.contingency) * (100 + terms.profit) = a * u * v
      BY <1>4, <3>2, Zenon
    <3>4. a * u * v = a * (u * v)
      OBVIOUS
    <3>. QED
      BY <2>3, <3>1, <3>3, <3>4
  <2>5. PICK b : /\ b = built[c]
                 /\ b.total = RoundUpTo(selling, 10000 * count, step) * count
    <3>1. PICK b : b = built[c]
      OBVIOUS
    <3>2. b.total = RoundUpTo(SellingTotal(a, terms, f), 10000 * count, step) * count
      BY <1>1, <2>1, <2>2, <3>1 DEF BuildUp
    <3>. QED
      BY <2>4, <3>1, <3>2
  <2>6. PICK paid : paid = RoundUpTo(selling, 10000 * count, step) * count
    OBVIOUS
  <2>7. /\ paid \in Int /\ paid * 10000 >= selling
        /\ paid * 10000 < selling + 10000 * step * count
    BY <1>4, <2>6, RoundedUpCovers
  <2>8. pays[c] = paid /\ counts[c] = count
    <3>1. pays[c] = built[c].total
      BY <1>2
    <3>2. counts[c] = count
      BY <1>3, <2>1
    <3>. QED
      BY <2>5, <2>6, <3>1, <3>2
  <2>9. cost[c] * margin + fees[c] * 10000 = selling
    BY <1>4, <2>2, <2>3
  <2>10. paid * 10000 >= cost[c] * margin + fees[c] * 10000
    BY <2>7, <2>9
  <2>11. paid * 10000 < cost[c] * margin + fees[c] * 10000 + 10000 * step * count
    <3>1. PICK over \in Int : over = 10000 * step * count
      BY <1>4
    <3>2. paid * 10000 < selling + over
      BY <2>7, <3>1
    <3>. QED
      BY <2>9, <3>1, <3>2
  <2>12. counts[c] \in Nat \ {0} /\ pays[c] \in Int
    BY <2>7, <2>8
  <2>13. pays[c] * 10000 >= cost[c] * margin + fees[c] * 10000
    BY <2>8, <2>10
  <2>14. pays[c] * 10000 < cost[c] * margin + fees[c] * 10000 + 10000 * step * counts[c]
    BY <2>8, <2>11
  <2>. QED
    BY <2>12, <2>13, <2>14
<1>7. Integral(pays, D)
  BY <1>6 DEF Integral
<1>. QED
  BY <1>4, <1>5, <1>6, <1>7 DEF PaidUp

\* A group whose lines are owed by somebody, in currencies that convert, is priced.
LEMMA BilledIsPriced ==
  ASSUME NEW lines, NEW n, NEW group, NEW g, NEW rates, NEW currency, NEW multiple,
         IsBilled(lines, n, group, g, rates, currency, multiple),
         rates[<<currency, currency>>] = <<1, 1>>, None \notin Int \X Int
  PROVE  /\ Attributable(lines, group, rates)
         /\ \A c \in DOMAIN group : rates[<<group[c].currency, currency>>] # None
<1>1. /\ IsGroup(group, g) /\ g \in Nat /\ DOMAIN group = 1..g /\ DOMAIN lines = 1..n
      /\ \A c \in 1..g : group[c].currency = currency
      /\ \A i \in 1..n : Bearers(lines[i], group) # {}
      /\ \A i \in 1..n : /\ multiple[i] \in Int
                         /\ rates[<<lines[i].currency, currency>>] = <<multiple[i], 1>>
  BY DEF IsBilled, IsGroup
<1>2. \A k \in Int : <<k, 1>> # None
  OBVIOUS
<1>3. ASSUME NEW i \in DOMAIN lines
      PROVE  /\ Targets(lines[i], group) # <<>>
             /\ \A c \in Range(Targets(lines[i], group)) : rates[<<lines[i].currency, group[c].currency>>] # None
  <2>1. PICK line : line = lines[i] /\ Bearers(line, group) # {}
    BY <1>1
  <2>2. PICK K : K = Bearers(line, group) /\ K \in SUBSET (1..g)
    BY <1>1 DEF Bearers
  <2>3. PICK targets : targets = Targets(line, group) /\ Counts(K, targets)
    BY <1>1, <2>2, TargetsAreCounted
  <2>4. PICK m : m = Cardinality(K)
    OBVIOUS
  <2>5. targets \in [1..m -> K] /\ \A c \in K : \E k \in 1..m : targets[k] = c
    BY <2>3, <2>4 DEF Counts
  <2>6. targets # <<>>
    <3>1. PICK c \in K : TRUE
      BY <2>1, <2>2
    <3>2. PICK k \in 1..m : targets[k] = c
      BY <2>5
    <3>3. k \in DOMAIN targets
      BY <2>5
    <3>4. DOMAIN <<>> = {}
      OBVIOUS
    <3>. QED
      BY <3>3, <3>4
  <2>7. ASSUME NEW c \in Range(targets) PROVE rates[<<line.currency, group[c].currency>>] # None
    <3>1. c \in 1..g
      BY <2>2, <2>5 DEF Range
    <3>2. group[c].currency = currency
      BY <1>1, <3>1
    <3>. QED
      BY <1>1, <1>2, <2>1, <3>2
  <2>. QED
    BY <2>1, <2>3, <2>6, <2>7
<1>4. Attributable(lines, group, rates)
  BY <1>3 DEF Attributable
<1>5. \A c \in DOMAIN group : rates[<<group[c].currency, currency>>] # None
  BY <1>1, <1>2
<1>. QED
  BY <1>4, <1>5

\* In one currency the group pays its way, whoever is in it and however its shares
\* are rounded: attribute and price_group charge the cohorts what the lines come
\* to and the fee, to the last unit, and what they pay together covers that cost,
\* the margins and the fee, by less than one rounding step a head.
THEOREM GroupsPayTheirWay ==
  ASSUME NEW lines, NEW n, NEW group, NEW g, NEW rates, NEW currency, NEW multiple,
         IsBilled(lines, n, group, g, rates, currency, multiple),
         rates[<<currency, currency>>] = <<1, 1>>, None \notin Int \X Int,
         NEW capacity \in Nat \ {0}, NEW fee \in Int, NEW terms,
         terms.contingency \in Int, terms.profit \in Int, terms.steps[currency] \in Nat \ {0}
  PROVE  LET priced == PriceGroup(lines, group, capacity, terms, fee, currency, rates)
             paid == priced.cohorts
             due == Total([i \in DOMAIN lines |-> Convert(CostOf(lines[i], group, capacity),
                                                          rates[<<lines[i].currency, currency>>])])
             owes == SellingTotal(due, terms, fee)
         IN  /\ Total([c \in DOMAIN paid |-> paid[c].cost]) = due
             /\ Total([c \in DOMAIN paid |-> paid[c].fee]) = fee
             /\ priced.total = Total([c \in DOMAIN paid |-> paid[c].total])
             /\ priced.total * 10000 >= owes
             /\ priced.total * 10000 < owes + 10000 * terms.steps[currency] * Pax(group)
<1>1. /\ IsGroup(group, g) /\ g \in Nat \ {0} /\ DOMAIN group = 1..g
      /\ \A c \in 1..g : group[c].currency = currency
  BY DEF IsBilled, IsGroup
<1>2. PICK step \in Nat \ {0} : step = terms.steps[currency]
  OBVIOUS
<1>3. PICK D : D = 1..g /\ IsFiniteSet(D)
  BY <1>1, FS_Interval
<1>4. PICK due : due = Total([i \in DOMAIN lines |-> Convert(CostOf(lines[i], group, capacity),
                                                             rates[<<lines[i].currency, currency>>])])
  OBVIOUS
<1>5. PICK cost : cost = Attribute(lines, group, capacity, rates)
  OBVIOUS
<1>6. DOMAIN cost = 1..g /\ Integral(cost, 1..g) /\ SumFunctionOnSet(cost, 1..g) = due
  BY <1>4, <1>5, LinesAreAttributed
<1>7. PICK fees : fees = SplitPerHead(fee, group)
  OBVIOUS
<1>8. DOMAIN fees = 1..g /\ Integral(fees, 1..g) /\ SumFunctionOnSet(fees, 1..g) = fee
  <2>1. IsParty(group, g)
    BY <1>1, GroupIsParty
  <2>. QED
    BY <1>7, <2>1, SharesAddUp
<1>9. PICK built : built = [c \in D |-> BuildUp(cost[c], group[c].count, terms, fees[c], step, TRUE)]
  OBVIOUS
<1>10. PICK pays : pays = [c \in D |-> built[c].total]
  OBVIOUS
<1>11. PICK counts : counts = [c \in D |-> group[c].count]
  OBVIOUS
<1>12. PICK margin \in Int : margin = (100 + terms.contingency) * (100 + terms.profit)
  <2>1. PICK a \in Int, b \in Int : a = 100 + terms.contingency /\ b = 100 + terms.profit
    OBVIOUS
  <2>2. a * b \in Int
    OBVIOUS
  <2>. QED
    BY <2>1, <2>2
<1>13. Integral(cost, D) /\ Integral(fees, D)
  BY <1>3, <1>6, <1>8
<1>14. PaidUp(pays, cost, fees, counts, D, margin, step)
  <2>1. BuiltUp(pays, cost, fees, counts, D, margin, step, group, g, terms, built)
    BY <1>1, <1>2, <1>3, <1>9, <1>10, <1>11, <1>12, <1>13 DEF BuiltUp
  <2>. QED
    BY <2>1, CohortsArePaidUp
<1>15. PICK priced : priced = PriceGroup(lines, group, capacity, terms, fee, currency, rates)
  OBVIOUS
<1>16. priced = [cohorts |-> built, currency |-> currency,
                 total |-> Total([c \in D |-> Convert(built[c].total, <<1, 1>>)])]
  <2>1. /\ Attributable(lines, group, rates)
        /\ \A c \in DOMAIN group : rates[<<group[c].currency, currency>>] # None
    BY BilledIsPriced
  <2>2. \A c \in D : rates[<<group[c].currency, currency>>] = <<1, 1>> /\ terms.steps[group[c].currency] = step
    BY <1>1, <1>2, <1>3
  <2>3. priced = [cohorts |-> [c \in DOMAIN group |->
                                 BuildUp(cost[c], group[c].count, terms, fees[c],
                                         terms.steps[group[c].currency], TRUE)],
                  currency |-> currency,
                  total |-> Total([c \in DOMAIN group |->
                     Convert([d \in DOMAIN group |->
                                 BuildUp(cost[d], group[d].count, terms, fees[d],
                                         terms.steps[group[d].currency], TRUE)][c].total,
                             rates[<<group[c].currency, currency>>])])]
    BY <1>5, <1>7, <1>15, <2>1, Zenon DEF PriceGroup
  <2>4. [c \in DOMAIN group |-> BuildUp(cost[c], group[c].count, terms, fees[c],
                                        terms.steps[group[c].currency], TRUE)] = built
    BY <1>1, <1>3, <1>9, <2>2
  <2>5. [c \in DOMAIN group |-> Convert(built[c].total, rates[<<group[c].currency, currency>>])]
          = [c \in D |-> Convert(built[c].total, <<1, 1>>)]
    BY <1>1, <1>3, <2>2
  <2>. QED
    BY <2>3, <2>4, <2>5
<1>17. /\ \A c \in D : pays[c] \in Int /\ counts[c] \in Nat \ {0}
       /\ Integral(pays, D) /\ Integral(counts, D)
  BY <1>14 DEF PaidUp, Integral
<1>18. /\ [c \in D |-> built[c].cost] = cost /\ [c \in D |-> built[c].fee] = fees
       /\ [c \in D |-> Convert(built[c].total, <<1, 1>>)] = pays
       /\ [c \in D |-> built[c].total] = pays
  <2>1. \A c \in D : built[c].cost = cost[c] /\ built[c].fee = fees[c]
    BY <1>9 DEF BuildUp
  <2>2. cost = [c \in D |-> cost[c]]
    BY <1>1, <1>3, <1>5 DEF Attribute
  <2>3. fees = [c \in D |-> fees[c]]
    BY <1>1, <1>3, <1>7 DEF SplitPerHead
  <2>4. ASSUME NEW c \in D PROVE Convert(built[c].total, <<1, 1>>) = pays[c]
    <3>1. pays[c] = built[c].total /\ pays[c] \in Int
      BY <1>10, <1>17
    <3>2. Convert(pays[c], <<1, 1>>) = 1 * pays[c]
      BY <1>17, WholeUnitsConvert
    <3>. QED
      BY <3>1, <3>2
  <2>. QED
    BY <1>10, <2>1, <2>2, <2>3, <2>4
<1>19. PICK paid : paid = priced.cohorts /\ DOMAIN paid = D /\ paid = built
  BY <1>9, <1>16
<1>20. /\ Total(cost) = due /\ Total(fees) = fee /\ Total(pays) = SumFunctionOnSet(pays, D)
       /\ Pax(group) = SumFunctionOnSet(counts, D)
  <2>1. Total(cost) = SumFunctionOnSet(cost, 1..g)
    BY <1>1, <1>6, TotalIsSum
  <2>2. Total(fees) = SumFunctionOnSet(fees, 1..g)
    BY <1>1, <1>8, TotalIsSum
  <2>3. DOMAIN pays = 1..g /\ Integral(pays, 1..g) /\ DOMAIN counts = 1..g /\ Integral(counts, 1..g)
    BY <1>3, <1>10, <1>11, <1>17
  <2>4. Total(pays) = SumFunctionOnSet(pays, 1..g)
    BY <1>1, <2>3, TotalIsSum
  <2>5. Total(counts) = SumFunctionOnSet(counts, 1..g)
    BY <1>1, <2>3, TotalIsSum
  <2>6. Pax(group) = Total(counts)
    BY <1>1, <1>3, <1>11 DEF Pax, Heads
  <2>. QED
    BY <1>3, <1>6, <1>8, <2>1, <2>2, <2>4, <2>5, <2>6
<1>21. LET owes == due * margin + fee * 10000
       IN  /\ Total(pays) * 10000 >= owes
           /\ Total(pays) * 10000 < owes + 10000 * step * Pax(group)
  <2>1. PICK x \in D : x = g
    BY <1>1, <1>3
  <2>2. LET owes == SumFunctionOnSet(cost, D) * margin + SumFunctionOnSet(fees, D) * 10000
            sum == SumFunctionOnSet(pays, D)
        IN  /\ sum * 10000 >= owes
            /\ sum * 10000 < owes + 10000 * step * SumFunctionOnSet(counts, D)
    BY <1>14, <2>1, TogetherTheyPay
  <2>. QED
    BY <1>3, <1>6, <1>8, <1>20, <2>2
<1>22. SellingTotal(due, terms, fee) = due * margin + fee * 10000
  <2>1. due \in Int
    BY <1>3, <1>6, <1>13, SumIsInt
  <2>2. SellingTotal(due, terms, fee) = due * (100 + terms.contingency) * (100 + terms.profit) + fee * 10000
    BY Zenon DEF SellingTotal
  <2>3. due * (100 + terms.contingency) * (100 + terms.profit)
          = due * ((100 + terms.contingency) * (100 + terms.profit))
    BY <2>1
  <2>. QED
    BY <1>12, <2>2, <2>3
<1>23. priced.total = Total(pays)
  BY <1>16, <1>18
<1>24. /\ Total([c \in DOMAIN paid |-> paid[c].cost]) = due
       /\ Total([c \in DOMAIN paid |-> paid[c].fee]) = fee
       /\ Total([c \in DOMAIN paid |-> paid[c].total]) = Total(pays)
  BY <1>18, <1>19, <1>20
<1>25. /\ priced.total * 10000 >= SellingTotal(due, terms, fee)
       /\ priced.total * 10000 < SellingTotal(due, terms, fee) + 10000 * step * Pax(group)
  BY <1>21, <1>22, <1>23
<1>. QED
  BY <1>2, <1>4, <1>15, <1>19, <1>23, <1>24, <1>25

================================================================================
