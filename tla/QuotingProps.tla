----------------------------- MODULE QuotingProps -----------------------------
(***************************************************************************)
(* The properties of Quoting.  Those of the first part hold whatever the   *)
(* requests in flight; those of the second hold when requests on quotes    *)
(* are served one at a time.                                               *)
(***************************************************************************)
EXTENDS Quoting

QuoteRows == [status : StatusEdits \cup {"draft", "sent"} \cup TERMINAL,
              options : SUBSET Options, recommended : SUBSET Options,
              selected : Options \cup {None}, current : Nat,
              validUntil : Int \cup {None}]

\* Each version's numbers, and what its options cost.
IsVersion(v) == /\ DOMAIN v = {"prices", "refused", "leads", "headline"}
                /\ DOMAIN v.prices \subseteq Options
                /\ \A o \in DOMAIN v.prices : v.prices[o] \in Nat
                /\ v.refused \subseteq Options
                /\ v.leads \in Options \cup {None}
                /\ v.headline \in Nat

\* The shape of every table and request.
QuoteTypeOK ==
  /\ quote \in [Quotes -> QuoteRows]
  /\ \A q \in Quotes : /\ quote[q].recommended \subseteq quote[q].options
                       /\ quote[q].selected \in quote[q].options \cup {None}
                       /\ \A n \in DOMAIN versions[q] : IsVersion(versions[q][n])
  /\ refused \in [Quotes -> SUBSET Options]
  /\ price \in Tables
  /\ \A e \in Editors : /\ DOMAIN edit[e].seen \subseteq DOMAIN NewQuote({}, {})
                        /\ edit[e].pc # "idle" => edit[e].quote \in Quotes
                        /\ IsVersion(edit[e].version)

-------------------------------------------------------------------------------
Issued(v) == v.leads # None

\* "CurrentVersion" is what a booking invoices and the newest version number is
\* what the document prints: whichever requests raced to append a version, the
\* two are the same one.
CurrentIsNewest == \A q \in Quotes : quote[q].current = Len(versions[q])

\* While nobody sets a status by hand, only a quote with an issued version is
\* sent, accepted or declined.
SentWasIssued ==
  \A q \in Quotes :
    quote[q].status # "draft" => \E n \in DOMAIN versions[q] : Issued(versions[q][n])

\* "Has been decided and does not move again": a quote the client answered keeps
\* the answer, "which keeps the record of what was decided intact".
DecidedStays ==
  [][\A q \in Quotes :
       quote[q].status \in TERMINAL => quote'[q].status = quote[q].status]_vars

-------------------------------------------------------------------------------
\* "Exactly one recommendation": a quote may be created with several, but marking
\* an option leaves it the only one, and no other edit marks any.
MarkingIsSole ==
  [][\A q \in Quotes :
       \/ quote'[q].recommended \subseteq quote[q].recommended
       \/ \E o \in Options : quote'[q].recommended = {o}]_vars

\* "Accepting is accepting an option": an accepted quote has its option on it,
\* whatever was edited since (while nobody sets "accepted" by hand).
AcceptanceKeepsItsOption ==
  \A q \in Quotes : quote[q].status = "accepted" => quote[q].selected # None

\* What a client accepted was in a document sent before: with its price, or on
\* the list of what was considered and could not be offered for these dates.
Shown(v) == DOMAIN v.prices \cup v.refused
AcceptedWasShown ==
  \A q \in Quotes : \A a \in agreed[q] :
    \E n \in DOMAIN versions[q] : /\ n <= a.version
                                 /\ Issued(versions[q][n])
                                 /\ a.option \in Shown(versions[q][n])

==============================================================================
