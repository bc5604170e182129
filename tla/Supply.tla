-------------------------------- MODULE Supply --------------------------------
(***************************************************************************)
(* What is bought for a booking (operations/supply.py, SupplyService): one *)
(* row per supplier's service, moved between four states, with what it was *)
(* budgeted at, billed at and paid so far.                                 *)
(***************************************************************************)
EXTENDS Trips, FiniteSetsExt, Rounding

CONSTANTS
  SupplyIds,       \* supplier bookings (a bound)
  References,      \* booking numbers suppliers give
  Budgets,         \* expected amounts
  Deadlines,       \* confirm_by days (a bound)
  Bills,           \* invoiced and settled amounts
  Money,           \* currencies
  ConfirmByDays,   \* confirm_by_days
  BillTolerance    \* DEFAULT_TOLERANCE_PCT

VARIABLE supply   \* supplier_bookings

SUPPLY_STATUSES == {"to_request", "requested", "confirmed", "cancelled"}

\* The columns of a row.
SupplyRows ==
  [booking : Trip, status : SUPPLY_STATUSES, reference : References \cup {None},
   currency : Money, expected : Budgets, invoiced : Bills \cup {None},
   settled : Bills \cup {None}, confirmBy : Deadlines \cup {None}]

ASSUME SupplyAssumption ==
  /\ IsFiniteSet(SupplyIds)
  /\ None \notin References
  /\ Budgets \subseteq Nat /\ Bills \subseteq Nat
  /\ ConfirmByDays \in Nat
  /\ None \notin Nat \cup SupplyRows

Bought == {r \in SupplyIds : supply[r] # None}
BoughtFor(b) == {r \in Bought : supply[r].booking = b}

\* The rows that still hold something, and those nobody has confirmed.
Live(r) == supply[r].status # "cancelled"
Unconfirmed(b) == {r \in BoughtFor(b) : supply[r].status \in {"to_request", "requested"}}

-------------------------------------------------------------------------------
\* A row as it is added: budgeted, and nothing asked, billed or paid.
NewSupply(b, currency, expected, confirmBy) ==
  [booking |-> b, status |-> "to_request", reference |-> None, currency |-> currency,
   expected |-> expected, invoiced |-> None, settled |-> None, confirmBy |-> confirmBy]

Add(r, b, currency, expected, confirmBy) ==
  /\ Quiet
  /\ supply[r] = None
  /\ Running(b)
  /\ supply' = [supply EXCEPT ![r] = NewSupply(b, currency, expected, confirmBy)]
  /\ UNCHANGED <<status, work>>

\* A confirmation needs their reference: this one, or the one on the row.
MayMove(r, target, given) ==
  /\ supply[r].status # target
  /\ target = "confirmed" => given # None \/ supply[r].reference # None
  /\ supply[r].status = "cancelled" => target = "to_request"

\* The row as read is what the move is checked against; status and, for a
\* confirmation that brings one, the reference are the columns written.
BeginMove(s, r, target, given) ==
  /\ r \in Bought
  /\ MayMove(r, target, given)
  /\ Decide(s, [desk |-> "supply", on |-> r, target |-> target,
                given |-> IF target = "confirmed" THEN given ELSE None])
  /\ UNCHANGED <<supply, status>>

CommitMove(s) ==
  /\ work[s] # None
  /\ work[s].desk = "supply"
  /\ supply' = [supply EXCEPT ![work[s].on].status = work[s].target,
                              ![work[s].on].reference =
                                 IF work[s].given # None THEN work[s].given ELSE @]
  /\ Done(s)
  /\ UNCHANGED status

\* Whatever the status of the row: each writes its own column.
Invoice(r, amount) ==
  /\ Quiet
  /\ r \in Bought
  /\ supply' = [supply EXCEPT ![r].invoiced = amount]
  /\ UNCHANGED <<status, work>>

\* A running total, as typed.
Settle(r, amount) ==
  /\ Quiet
  /\ r \in Bought
  /\ supply' = [supply EXCEPT ![r].settled = amount]
  /\ UNCHANGED <<status, work>>

-------------------------------------------------------------------------------
(***************************************************************************)
(* What is owed, and what is wrong                                         *)
(***************************************************************************)

OrZero(amount) == IF amount = None THEN 0 ELSE amount

\* The invoice where there is one, else the budget, less what was paid.
Owing(r) ==
  LET due == IF supply[r].invoiced # None THEN supply[r].invoiced ELSE supply[r].expected
      left == due - OrZero(supply[r].settled)
  IN  IF Live(r) /\ left > 0 THEN left ELSE 0

\* exposure: per currency and never summed across them.
Exposure(b) ==
  LET rows(c) == {r \in BoughtFor(b) : Live(r) /\ supply[r].currency = c}
  IN  [c \in Money |->
        [expected |-> SumFunction([r \in rows(c) |-> supply[r].expected]),
         invoiced |-> SumFunction([r \in rows(c) |-> OrZero(supply[r].invoiced)]),
         settled |-> SumFunction([r \in rows(c) |-> OrZero(supply[r].settled)]),
         owed |-> SumFunction([r \in rows(c) |-> Owing(r)])]]

\* Mutant: only what was confirmed is owed.
ConfirmedPayables == {r \in Bought : /\ supply[r].status = "confirmed"
                                    /\ Running(supply[r].booking) /\ Owing(r) > 0}

\* The finance list: over the bookings that are still running.
Payables == {r \in Bought : Live(r) /\ Running(supply[r].booking) /\ Owing(r) > 0}

ShouldBeHeld(r) ==
  \/ Arrives[supply[r].booking] - today <= ConfirmByDays
  \/ supply[r].confirmBy # None /\ supply[r].confirmBy <= today

\* Mutant: to have asked is enough.
NotAsked(b) == {r \in BoughtFor(b) : supply[r].status = "to_request" /\ ShouldBeHeld(r)}

\* check_supply: nobody has asked, or nobody has answered.
Unheld(b) == {r \in Unconfirmed(b) : ShouldBeHeld(r)}

\* check_invoices: billed something other than the budget, beyond the tolerance.
Variance(r) == HalfUp(10000 * (supply[r].invoiced - supply[r].expected), supply[r].expected)
Misbilled(b) ==
  {r \in BoughtFor(b) : /\ Live(r) /\ supply[r].invoiced # None /\ supply[r].expected # 0
                        /\ Magnitude(Variance(r)) >= 100 * BillTolerance}

\* unsettled: still owed after the group has gone home.
Unsettled(b) ==
  IF Departs[b] >= today THEN {} ELSE {r \in BoughtFor(b) : Live(r) /\ Owing(r) > 0}

SupplyInit == supply = [r \in SupplyIds |-> None]

\* What is bought, and where it has got to.
Adds(rows, deadlines) ==
  \E r \in rows, b \in Trip, c \in Money, expected \in Budgets, confirmBy \in deadlines :
    Add(r, b, c, expected, confirmBy)

SupplyMoves(rows) ==
  \/ Adds(rows, Deadlines)
  \/ \E s \in Sessions, r \in rows, target \in SUPPLY_STATUSES,
        given \in References \cup {None} : BeginMove(s, r, target, given)
  \/ \E s \in Sessions : CommitMove(s)

\* What it came to.  Of the moves only a cancellation changes what is owed, and
\* a deadline changes nothing.
SupplyBills ==
  \/ Adds(SupplyIds, {None})
  \/ \E s \in Sessions, r \in SupplyIds : BeginMove(s, r, "cancelled", None)
  \/ \E s \in Sessions : CommitMove(s)
  \/ \E r \in SupplyIds, amount \in Bills : Invoice(r, amount) \/ Settle(r, amount)

==============================================================================
