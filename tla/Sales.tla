--------------------------------- MODULE Sales ---------------------------------
(***************************************************************************)
(* From quote to booking: Quoting and Bookings over one calendar and one   *)
(* database.  A booking copies its terms from the quote row and from the   *)
(* version the quote points at, in the transaction that reads them         *)
(* (bookings/service.py, create_from_quote); nothing else joins the two.   *)
(***************************************************************************)
EXTENDS QuotingProps

CONSTANTS
  Sessions, BookingIds, Amounts, MaxReceived, DepositPct, BalanceDays,  \* of Bookings
  Arrival, Departure   \* the quote's travel dates, the same for every quote

VARIABLES
  booking, counter, lock, req   \* of Bookings

\* What a booking copies, and the version and option it points at.  (The option
\* is the one copied: were it removed later, the foreign key would clear it.)
Figures == Itineraries \cup ({table[o] : table \in Tables, o \in Options} \ {None})

Bookable == [total : Figures, arrival : {Arrival}, departure : {Departure},
             version : Nat, option : Options \cup {None}]

bookings == <<booking, counter, lock, req>>

B == INSTANCE Bookings WITH Terms <- Bookable

ASSUME SalesAssumption ==
  /\ Arrival \in Int /\ Departure \in Int
  /\ Amounts \subseteq Nat \ {0}
  /\ MaxReceived \in Nat
  /\ DepositPct \in 1..100
  /\ BalanceDays \in Int
  /\ None \notin BookingIds \cup Bookable \cup Sessions

\* Mutant: from the quote's first version.
TermsOfFirst(q) ==
  [total |-> versions[q][1].headline,
   arrival |-> Arrival, departure |-> Departure,
   version |-> quote[q].current, option |-> quote[q].selected]

TermsOf(q) ==
  LET current == quote[q].current
  IN  [total |-> versions[q][current].headline,
       arrival |-> Arrival, departure |-> Departure,
       version |-> current, option |-> quote[q].selected]

\* Mutant: whatever the client answered.
BookAnyQuote(s, q) == quote[q].current # 0 /\ B!BeginCreate(s, q, TermsOf(q))

\* create_from_quote: an accepted quote with a version, not booked already.
BookQuote(s, q) ==
  /\ quote[q].status = "accepted"
  /\ quote[q].current # 0
  /\ B!BeginCreate(s, q, TermsOf(q))

SellStep(s) == \/ \E q \in Quotes : BookQuote(s, q)
               \/ \E b \in BookingIds : B!BeginWork(s, b)
               \/ B!Step(s)
               \/ B!Crash(s)

SalesInit == Init /\ B!BookingInit

SalesNext ==
  \/ UNCHANGED <<today, quoteVars>> /\ \E s \in Sessions : SellStep(s)
  \/ UNCHANGED <<today, bookings>> /\ QuoteNext
  \/ UNCHANGED <<quoteVars, bookings>> /\ Tick

salesVars == <<today, quoteVars, bookings>>

SalesSpec == SalesInit /\ [][SalesNext]_salesVars

-------------------------------------------------------------------------------
Booked == {b \in BookingIds : B!Exists(b)}
VersionOf(b) == versions[booking[b].quote][booking[b].terms.version]

\* No sale, no booking: a booking stands on an acceptance of its quote, of the
\* version it invoices or of an earlier one, whatever was edited in between.
BookedWasAccepted ==
  \A b \in Booked : \E a \in agreed[booking[b].quote] :
    a.version <= booking[b].terms.version

\* A booking invoices the figure of the version it names, to the cent and in
\* full, whatever the rates have become since.
BookedFigureIsFrozen ==
  \A b \in Booked :
    /\ booking[b].terms.total = VersionOf(b).headline
    /\ LET due == booking[b].schedule
       IN  VersionOf(b).headline = due[1].amount + (IF Len(due) = 2 THEN due[2].amount ELSE 0)

==============================================================================
