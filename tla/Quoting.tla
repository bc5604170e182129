-------------------------------- MODULE Quoting --------------------------------
(***************************************************************************)
(* A quote from draft to the client's answer (quotes/assembly.py,          *)
(* outcomes.py, pricing_service.py, service.py), edited by concurrent      *)
(* requests.  A request loads the quote once, keeps that copy for its      *)
(* refusals (the session does not expire on commit), and at its commit     *)
(* writes only the columns that differ from the copy.                      *)
(*                                                                         *)
(* An option is named by what it offers, a property or a package, which    *)
(* add_option refuses to repeat; of an option only its price is kept.  Two *)
(* requests that add the same property at once are left out: each passes   *)
(* the check and the quote is left with two rows for it.                   *)
(***************************************************************************)
EXTENDS Clock, Sequences, Functions

CONSTANTS
  Editors,       \* requests on quotes that can be in flight at once
  Quotes,        \* quote ids
  Options,       \* what can be offered
  Tables,        \* what each option can cost the client, None where the stay is too
                 \* short for it: [Options -> Nat \cup {None}]
  Itineraries,   \* what the itinerary alone can cost the client
  Validity,      \* cfg.quotation_validity_days
  StatusEdits,   \* the statuses PATCH /quotes/{id}/status is used to set
  MaxVersions,   \* versions a quote is given (a bound)
  None           \* SQL NULL

ASSUME QuotingAssumption ==
  /\ Tables \subseteq [Options -> Nat \cup {None}]
  /\ Itineraries \subseteq Nat
  /\ Validity \in Nat
  /\ MaxVersions \in Nat
  /\ StatusEdits \subseteq {"draft", "sent", "accepted", "declined", "expired"}
  /\ None \notin Options \cup Quotes \cup Nat

VARIABLES
  quote,      \* the quotes table, with each quote's options
  versions,   \* quote_versions of each quote, by version_number
  refused,    \* quote_rejected_candidates of each quote, of source "engine"
  price,      \* what each option costs at the rates of the moment
  edit,       \* what each request holds in memory
  agreed      \* history: the option and version of each acceptance recorded

quoteVars == <<quote, versions, refused, price, edit, agreed>>

TERMINAL == {"accepted", "declined"}

\* create_quote: the options typed, and flagged as typed, however many are.
NewQuote(options, recommended) ==
  [status |-> "draft", options |-> options, recommended |-> recommended,
   selected |-> None, current |-> 0, validUntil |-> None]

NoVersion == [prices |-> << >>, refused |-> {}, leads |-> None, headline |-> 0]

Unused == [pc |-> "idle", quote |-> None, seen |-> << >>, option |-> None,
           change |-> None, number |-> 0, version |-> NoVersion]

\* An expired quote is a sent one past its date; the column is not changed.
EffectiveStatus(row) ==
  IF row.status = "sent" /\ row.validUntil # None /\ row.validUntil < today
  THEN "expired"
  ELSE row.status

\* Mutant: a draft is accepted.
MayRecordOnDraft(row, outcome) ==
  /\ row.status \notin TERMINAL
  /\ outcome = "accepted" => EffectiveStatus(row) # "expired"

\* check_outcome
MayRecord(row, outcome) ==
  /\ row.status # "draft"
  /\ row.status \notin TERMINAL
  /\ outcome = "accepted" => EffectiveStatus(row) # "expired"

\* A request that begins: of its copy of the quote, the columns used later.
Load(e, q, columns, request) ==
  /\ edit[e].pc = "idle"
  /\ edit' = [edit EXCEPT ![e] =
       [request EXCEPT !.quote = q, !.seen = Restrict(quote[q], columns)]]
  /\ UNCHANGED <<quote, versions, price, agreed>>

\* A request that commits: it gives the quote these columns.
Store(e, row) ==
  /\ quote' = [quote EXCEPT ![edit[e].quote] = row]
  /\ edit' = [edit EXCEPT ![e] = Unused]
  /\ UNCHANGED refused

Current(e) == quote[edit[e].quote]

-------------------------------------------------------------------------------
(***************************************************************************)
(* add_option, update_option, remove_option: drafts only                   *)
(***************************************************************************)

\* Mutant: a quote that has gone out can be edited.
AlwaysEditable(q) == TRUE

\* _refuse_if_issued
Editable(q) == quote[q].status = "draft"

BeginOption(e, q, o, change) ==
  /\ Editable(q)
  /\ (change \in {"add", "add_recommended"}) <=> (o \notin quote[q].options)
  /\ Load(e, q, {"options", "recommended"},
          [Unused EXCEPT !.pc = "option", !.option = o, !.change = change])
  /\ UNCHANGED refused

\* Mutant: the other flags stay.
OneMoreRecommendation(row, seen, o) == row.recommended \cup {o}

\* _make_sole_recommendation: the flags it clears are those it loaded as set,
\* and those of rows it had not loaded.
SoleRecommendation(row, seen, o) ==
  (row.recommended \ (seen.recommended \cup (row.options \ seen.options)))
    \cup (IF o \in seen.recommended THEN row.recommended \cap {o} ELSE {o})

Changed(row, options, recommended) ==
  [row EXCEPT !.options = options, !.recommended = recommended]

\* Mutant: the flag of a removed option stays.
WithoutRow(row, o) == [row EXCEPT !.options = @ \ {o}]

\* The row goes, its flag with it, and the foreign key clears the selection.
Without(row, o) ==
  [Changed(row, row.options \ {o}, row.recommended \ {o})
     EXCEPT !.selected = IF @ = o THEN None ELSE @]

\* An option removed since is not there to be marked or removed again.
CommitOption(e) ==
  LET r == edit[e]
      row == Current(e)
      o == r.option
  IN  /\ r.pc = "option"
      /\ r.change \in {"add", "add_recommended"} => o \notin row.options
      /\ \/ /\ r.change = "add"
            /\ Store(e, Changed(row, row.options \cup {o}, row.recommended))
         \/ /\ r.change = "add_recommended"
            /\ Store(e, Changed(row, row.options \cup {o},
                                SoleRecommendation(row, r.seen, o)))
         \/ /\ r.change = "recommend"
            /\ Store(e, Changed(row, row.options,
                                SoleRecommendation(row, r.seen, o) \cap row.options))
         \/ /\ r.change = "unrecommend"
            /\ Store(e, Changed(row, row.options,
                                row.recommended \ (r.seen.recommended \cap {o})))
         \/ /\ r.change = "remove"
            /\ Store(e, Without(row, o))
      /\ UNCHANGED <<versions, price, agreed>>

Changes == {"add", "add_recommended", "recommend", "unrecommend", "remove"}

-------------------------------------------------------------------------------
(***************************************************************************)
(* issue and price_quote: two ways to append a version                     *)
(***************************************************************************)

\* price_options: an option the stay is too short for is not priced.  It stays on
\* the quote, and on the list of what was considered and refused, which each
\* pricing replaces.
Priced(q) == {o \in quote[q].options : price[o] # None}
RecordRefusals(q) == refused' = [refused EXCEPT ![q] = quote[q].options \ Priced(q)]

\* POST /quotes/{id}/price-options, from its load to its commit.
PriceOptions(e, q) ==
  /\ edit[e].pc = "idle"
  /\ RecordRefusals(q)
  /\ UNCHANGED <<quote, versions, price, edit, agreed>>

\* The options are priced first; the quote's status is not looked at.
BeginIssue(e, q) ==
  /\ Len(versions[q]) < MaxVersions
  /\ Load(e, q, {"status", "validUntil"}, [Unused EXCEPT
       !.pc = "priced",
       !.version.prices = [o \in Priced(q) |-> price[o]]])
  /\ RecordRefusals(q)

\* Mutant: the refusals are those loaded before the engine derived them.
FrozenUnrefreshed(prices, short, o) ==
  [prices |-> prices, refused |-> {}, leads |-> o, headline |-> prices[o]]

\* The version's selling price is that of the recommended option.
Frozen(prices, short, o) ==
  [prices |-> prices, refused |-> short, leads |-> o, headline |-> prices[o]]

\* Options and refusals are read again and graded: one recommendation, and
\* priced; a refused option does not block.  An option priced and gone since is
\* a KeyError.  Then max(version_number) + 1.
FreezeIssue(e) ==
  LET r == edit[e]
      row == Current(e)
      prices == r.version.prices
  IN  /\ r.pc = "priced"
      /\ DOMAIN prices \subseteq row.options
      /\ \E o \in DOMAIN prices :
           /\ row.recommended = {o}
           /\ edit' = [edit EXCEPT ![e].pc = "frozen",
                                   ![e].number = Len(versions[r.quote]) + 1,
                                   ![e].version = Frozen(prices, refused[r.quote], o)]
      /\ UNCHANGED <<quote, versions, refused, price, agreed>>

\* Mutant: no unique constraint.
NumberUnchecked(e) == TRUE

\* uq_quote_version_no: the number is refused if a rival has taken it.
NumberFree(e) == edit[e].number = Len(versions[edit[e].quote]) + 1

AppendVersion(e) ==
  versions' = [versions EXCEPT ![edit[e].quote] = Append(@, edit[e].version)]

CommitIssue(e) ==
  LET r == edit[e]
      until == today + Validity
  IN  /\ r.pc = "frozen"
      /\ NumberFree(e)
      /\ AppendVersion(e)
      /\ Store(e, [Current(e) EXCEPT
           !.current = r.number,
           !.validUntil = IF until = r.seen.validUntil THEN @ ELSE until,
           !.status = IF r.seen.status = "sent" THEN @ ELSE "sent"])
      /\ UNCHANGED <<price, agreed>>

\* POST /quotes/{id}/price: the itinerary's own price, and no options.
BeginReprice(e, q, p) ==
  /\ Len(versions[q]) < MaxVersions
  /\ Load(e, q, {}, [Unused EXCEPT !.pc = "repriced",
                                   !.number = Len(versions[q]) + 1,
                                   !.version.headline = p])
  /\ UNCHANGED refused

CommitReprice(e) ==
  /\ edit[e].pc = "repriced"
  /\ NumberFree(e)
  /\ AppendVersion(e)
  /\ Store(e, [Current(e) EXCEPT !.current = edit[e].number])
  /\ UNCHANGED <<price, agreed>>

-------------------------------------------------------------------------------
(***************************************************************************)
(* select_option, record_outcome, set_status                               *)
(***************************************************************************)

BeginSelect(e, q, o) ==
  /\ o \in quote[q].options
  /\ Load(e, q, {"selected"}, [Unused EXCEPT !.pc = "selecting", !.option = o])
  /\ UNCHANGED refused

\* A foreign key: a selection written must name an option still there.
Selected(e) ==
  IF edit[e].option = edit[e].seen.selected THEN Current(e).selected
                                            ELSE edit[e].option

CommitSelect(e) ==
  /\ edit[e].pc = "selecting"
  /\ Selected(e) \in Current(e).options \cup {None}
  /\ Store(e, [Current(e) EXCEPT !.selected = Selected(e)])
  /\ UNCHANGED <<versions, price, agreed>>

\* The option given, or else the one selected before.
BeginAccept(e, q, given) ==
  LET o == IF given = None THEN quote[q].selected ELSE given
  IN  /\ MayRecord(quote[q], "accepted")
      /\ o \in quote[q].options
      /\ Load(e, q, {"selected", "current"},
              [Unused EXCEPT !.pc = "accepting", !.option = o])
      /\ UNCHANGED refused

CommitAccept(e) ==
  LET r == edit[e]
  IN  /\ r.pc = "accepting"
      /\ Selected(e) \in Current(e).options \cup {None}
      /\ Store(e, [Current(e) EXCEPT !.selected = Selected(e),
                                     !.status = "accepted"])
      /\ agreed' = [agreed EXCEPT ![r.quote] =
           @ \cup {[option |-> r.option, version |-> r.seen.current]}]
      /\ UNCHANGED <<versions, price>>

BeginDecline(e, q) ==
  /\ MayRecord(quote[q], "declined")
  /\ Load(e, q, {}, [Unused EXCEPT !.pc = "declining"])
  /\ UNCHANGED refused

CommitDecline(e) ==
  /\ edit[e].pc = "declining"
  /\ Store(e, [Current(e) EXCEPT !.status = "declined"])
  /\ UNCHANGED <<versions, price, agreed>>

\* Any status from any other: load and commit are taken together.
SetStatus(q, status) ==
  /\ quote' = [quote EXCEPT ![q].status = status]
  /\ UNCHANGED <<versions, refused, price, edit, agreed>>

-------------------------------------------------------------------------------
\* A request fails and rolls back.
Fail(e) == /\ edit[e].pc # "idle"
           /\ edit' = [edit EXCEPT ![e] = Unused]
           /\ UNCHANGED <<quote, versions, refused, price, agreed>>

\* A rate, a fee or the exchange rate is edited elsewhere.
ChangePrices(table) == /\ price # table
                       /\ price' = table
                       /\ UNCHANGED <<quote, versions, refused, edit, agreed>>

\* Quotes as create_quote stores them.
QuoteInit == /\ \E typed \in [Quotes -> SUBSET Options] :
                  \E flagged \in [Quotes -> SUBSET Options] :
                    /\ \A q \in Quotes : flagged[q] \subseteq typed[q]
                    /\ quote = [q \in Quotes |-> NewQuote(typed[q], flagged[q])]
             /\ versions = [q \in Quotes |-> << >>]
             /\ refused = [q \in Quotes |-> {}]
             /\ price \in Tables
             /\ edit = [e \in Editors |-> Unused]
             /\ agreed = [q \in Quotes |-> {}]

Init == today = 0 /\ QuoteInit

BeginEdit(e, q) ==
  \/ \E o \in Options : \/ \E change \in Changes : BeginOption(e, q, o, change)
                        \/ BeginSelect(e, q, o)
  \/ \E given \in Options \cup {None} : BeginAccept(e, q, given)
  \/ BeginIssue(e, q)
  \/ \E p \in Itineraries : BeginReprice(e, q, p)
  \/ BeginDecline(e, q)

CommitEdit(e) ==
  \/ CommitOption(e) \/ FreezeIssue(e) \/ CommitIssue(e) \/ CommitReprice(e)
  \/ CommitSelect(e) \/ CommitAccept(e) \/ CommitDecline(e)

QuoteNext ==
  \/ \E e \in Editors : CommitEdit(e) \/ Fail(e)
  \/ \E e \in Editors, q \in Quotes : BeginEdit(e, q) \/ PriceOptions(e, q)
  \/ \E q \in Quotes, status \in StatusEdits : SetStatus(q, status)
  \/ \E table \in Tables : ChangePrices(table)

Next == \/ UNCHANGED today /\ QuoteNext
        \/ UNCHANGED quoteVars /\ Tick

vars == <<today, quoteVars>>

Spec == Init /\ [][Next]_vars

==============================================================================
