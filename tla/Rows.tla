--------------------------------- MODULE Rows ---------------------------------
(***************************************************************************)
(* What the services do with a list of rows: sort it, and keep the rows    *)
(* that pass a test.                                                       *)
(***************************************************************************)
EXTENDS Integers, FiniteSets

\* The place a row is sorted to: stable, so rows that tie keep their order.
PlaceIn(rows, i, Earlier(_, _)) ==
  Cardinality({j \in DOMAIN rows : \/ Earlier(rows[j], rows[i])
                                   \/ ~Earlier(rows[i], rows[j]) /\ j <= i})

Sorted(rows, Earlier(_, _)) ==
  LET place == [i \in DOMAIN rows |-> PlaceIn(rows, i, Earlier)]
  IN  [n \in DOMAIN rows |-> rows[CHOOSE i \in DOMAIN rows : place[i] = n]]

\* The rows at some of the positions, in their order.
RowsAt(rows, positions) ==
  LET place == [i \in positions |-> Cardinality({j \in positions : j <= i})]
  IN  [n \in 1..Cardinality(positions) |-> rows[CHOOSE i \in positions : place[i] = n]]

Kept(rows, Test(_)) == RowsAt(rows, {i \in DOMAIN rows : Test(rows[i])})

==============================================================================
