------------------------------- MODULE MCSales -------------------------------
(***************************************************************************)
(* Sales for TLC, with what the code's own words say of a booking's total  *)
(* and of its version.                                                     *)
(***************************************************************************)
EXTENDS Sales, TLC

CONSTANTS e1, q1, o1, o2, s1, b1, b2

\* Rates make either option the dearer one.
Rates == {[o \in {o1, o2} |-> IF o = dear THEN 2 ELSE 1] : dear \in {o1, o2}}

\* Minimum stays make the stay too short for either option.
MinimumStays == {[o \in {o1, o2} |-> IF o = short THEN None ELSE 1] : short \in {o1, o2}}

Symmetric == Permutations({o1, o2})

\* "Book the accepted option on a quote": the total is the price of the option
\* accepted, in the version booked.
BookedTotalIsAcceptedOptions ==
  \A b \in Booked :
    LET terms == booking[b].terms
        prices == VersionOf(b).prices
    IN  terms.option \in DOMAIN prices => terms.total = prices[terms.option]

\* "The immutable version the client accepted": the version and the option a
\* booking is made from were accepted together.
BookedVersionIsAccepted ==
  \A b \in Booked :
    LET terms == booking[b].terms
    IN  [option |-> terms.option, version |-> terms.version] \in agreed[booking[b].quote]

==============================================================================
