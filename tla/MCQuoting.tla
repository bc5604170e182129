------------------------------ MODULE MCQuoting ------------------------------
EXTENDS QuotingProps, TLC

CONSTANTS e1, e2, q1, o1, o2

\* The rates do not move.
FlatRates == {[o \in {o1, o2} |-> 1]}

Symmetric == Permutations({e1, e2}) \cup Permutations({o1, o2})

==============================================================================
