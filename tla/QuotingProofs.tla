---------------------------- MODULE QuotingProofs ----------------------------
(***************************************************************************)
(* Theorems about Quoting for any number of quotes, options, versions and  *)
(* days: those of the first part for any number of requests at once, those *)
(* of the second for requests served one at a time.                        *)
(***************************************************************************)
EXTENDS QuotingProps, TLAPS

-------------------------------------------------------------------------------
(***************************************************************************)
(* The shape of the state                                                  *)
(***************************************************************************)

Columns == {"status", "options", "recommended", "selected", "current", "validUntil"}

PriceTables == UNION {[offered -> Nat] : offered \in SUBSET Options}

Versions == [prices : PriceTables, refused : SUBSET Options,
             leads : Options \cup {None}, headline : Nat]

Seens == {Restrict(row, columns) : row \in QuoteRows, columns \in SUBSET Columns}

EditPhases == {"idle", "option", "priced", "frozen", "repriced", "selecting",
               "accepting", "declining"}

Edits == [pc : EditPhases, quote : Quotes \cup {None}, seen : Seens \cup {<< >>},
          option : Options \cup {None}, change : Changes \cup {None},
          number : Nat, version : Versions]

\* A request under way has a quote; one about an option has the option; one
\* that has frozen a version leads with an option.
Knows(r) ==
  /\ r.pc # "idle" => r.quote \in Quotes
  /\ r.pc \in {"option", "selecting", "accepting"} => r.option \in Options
  /\ r.pc = "option" => r.change \in Changes
  /\ r.pc = "frozen" => r.version.leads \in Options
  /\ r.pc = "accepting" => r.seen.current \in Nat

\* What a row says of its own options.
Sound(row) == /\ row.recommended \subseteq row.options
              /\ row.selected \in row.options \cup {None}

SoundRows == {row \in QuoteRows : Sound(row)}

Agreements == [option : Options, version : Nat]

Shape ==
  /\ today \in Days
  /\ quote \in [Quotes -> SoundRows]
  /\ versions \in [Quotes -> Seq(Versions)]
  /\ refused \in [Quotes -> SUBSET Options]
  /\ price \in Tables
  /\ edit \in [Editors -> {r \in Edits : Knows(r)}]
  /\ agreed \in [Quotes -> SUBSET Agreements]

\* What a request loads is what the row says, column by column.
LEMMA LoadedColumns ==
  ASSUME NEW row \in QuoteRows, NEW columns \in SUBSET Columns
  PROVE  /\ Restrict(row, columns) \in Seens
         /\ \A c \in columns : Restrict(row, columns)[c] = row[c]
BY DEF Restrict, Seens

LEMMA NoPrices == << >> \in PriceTables
<1>1. << >> \in [{} -> Nat]
  OBVIOUS
<1>. QED
  BY <1>1 DEF PriceTables

LEMMA NoVersionIsVersion == NoVersion \in Versions
BY NoPrices DEF NoVersion, Versions

LEMMA UnusedIsEdit == Unused \in Edits /\ Knows(Unused)
BY NoVersionIsVersion DEF Unused, Edits, Knows, EditPhases

LEMMA NewQuoteIsSound ==
  ASSUME NEW options \in SUBSET Options, NEW recommended \in SUBSET options
  PROVE  NewQuote(options, recommended) \in SoundRows
BY DEF NewQuote, SoundRows, QuoteRows, Sound, TERMINAL

\* A quote starts as it was typed: a draft with no version and no answer.
LEMMA InitQuotes ==
  ASSUME Init
  PROVE  /\ quote \in [Quotes -> SoundRows]
         /\ \A q \in Quotes : /\ quote[q].status = "draft" /\ quote[q].current = 0
                              /\ versions[q] = << >> /\ agreed[q] = {}
         /\ \A e \in Editors : edit[e].pc = "idle"
<1>1. PICK typed \in [Quotes -> SUBSET Options], flagged \in [Quotes -> SUBSET Options] :
        /\ \A q \in Quotes : flagged[q] \subseteq typed[q]
        /\ quote = [q \in Quotes |-> NewQuote(typed[q], flagged[q])]
  BY DEF Init, QuoteInit
<1>2. \A q \in Quotes : NewQuote(typed[q], flagged[q]) \in SoundRows
  BY <1>1, NewQuoteIsSound
<1>3. \A q \in Quotes : quote[q].status = "draft" /\ quote[q].current = 0
  BY <1>1 DEF NewQuote
<1>. QED
  BY <1>1, <1>2, <1>3 DEF Init, QuoteInit, Unused

\* A version as QuoteTypeOK describes it.
LEMMA VersionsAreVersions == \A v \in Versions : IsVersion(v)
BY DEF Versions, IsVersion, PriceTables

LEMMA ShapeIsTypeOK == Shape => QuoteTypeOK
<1>. SUFFICES ASSUME Shape PROVE QuoteTypeOK
  OBVIOUS
<1>1. quote \in [Quotes -> QuoteRows] /\ \A q \in Quotes : Sound(quote[q])
  BY DEF Shape, SoundRows
<1>2. ASSUME NEW q \in Quotes PROVE \A n \in DOMAIN versions[q] : IsVersion(versions[q][n])
  BY VersionsAreVersions DEF Shape
<1>3. ASSUME NEW e \in Editors
      PROVE  /\ DOMAIN edit[e].seen \subseteq DOMAIN NewQuote({}, {})
             /\ edit[e].pc # "idle" => edit[e].quote \in Quotes
             /\ IsVersion(edit[e].version)
  <2>1. edit[e] \in Edits /\ Knows(edit[e])
    BY DEF Shape
  <2>2. \A seen \in Seens \cup {<< >>} : DOMAIN seen \subseteq Columns
    BY DEF Seens, Restrict
  <2>3. DOMAIN NewQuote({}, {}) = Columns
    BY DEF NewQuote, Columns
  <2>4. edit[e].version \in Versions /\ edit[e].seen \in Seens \cup {<< >>}
    BY <2>1 DEF Edits
  <2>. QED
    BY <2>1, <2>2, <2>3, <2>4, VersionsAreVersions DEF Knows
<1>. QED
  BY <1>1, <1>2, <1>3 DEF Shape, QuoteTypeOK, Sound

LEMMA InitShape == Init => Shape
<1>. SUFFICES ASSUME Init PROVE Shape
  OBVIOUS
<1>1. << >> \in Seq(Versions)
  OBVIOUS
<1>. QED
  BY <1>1, ClockAssumption, UnusedIsEdit, InitQuotes
  DEF Init, QuoteInit, Shape, Days

\* A request that moves on by itself.
LEMMA EditStep ==
  ASSUME Shape, NEW e \in Editors, NEW r \in Edits, Knows(r),
         edit' = [edit EXCEPT ![e] = r], UNCHANGED <<today, quote, versions, refused, price, agreed>>
  PROVE  Shape'
BY DEF Shape

\* A request that ends with one row written, and perhaps a version.
LEMMA CommitStep ==
  ASSUME Shape, NEW e \in Editors, NEW row \in SoundRows, Store(e, row),
         edit[e].pc # "idle", UNCHANGED <<today, price>>,
         versions' \in [Quotes -> Seq(Versions)], agreed' \in [Quotes -> SUBSET Agreements]
  PROVE  Shape'
BY UnusedIsEdit DEF Shape, Store

\* A request that has begun with a copy of some columns.
Loaded(r, new, q, columns) ==
  /\ <<new.pc, new.quote, new.option, new.version>> = <<r.pc, q, r.option, r.version>>
  /\ \A c \in columns : new.seen[c] = quote[q][c]

\* Loading keeps every table's shape.
LEMMA LoadStep ==
  ASSUME Shape, UNCHANGED today, refused' \in [Quotes -> SUBSET Options],
         NEW e \in Editors, NEW q \in Quotes,
         NEW columns \in SUBSET Columns, NEW r \in Edits, Load(e, q, columns, r),
         r.pc \in {"option", "selecting", "accepting"} => r.option \in Options,
         r.pc = "option" => r.change \in Changes,
         r.pc # "frozen", r.pc = "accepting" => "current" \in columns
  PROVE  Shape' /\ Loaded(r, edit'[e], q, columns)
<1>. DEFINE seen == Restrict(quote[q], columns)
            loaded == [r EXCEPT !.quote = q, !.seen = seen]
<1>1. quote[q] \in QuoteRows
  BY DEF Shape, SoundRows
<1>2. seen \in Seens /\ \A c \in columns : seen[c] = quote[q][c]
  BY <1>1, LoadedColumns
<1>3. quote[q].current \in Nat
  BY <1>1 DEF QuoteRows
<1>4. edit' = [edit EXCEPT ![e] = loaded] /\ UNCHANGED <<today, quote, versions, price, agreed>>
  BY DEF Load
<1>. HIDE DEF seen
<1>5. /\ loaded \in Edits
      /\ loaded.seen = seen
      /\ loaded.quote = q
      /\ <<loaded.pc, loaded.option, loaded.version>> = <<r.pc, r.option, r.version>>
  BY <1>2 DEF Edits
<1>6. Knows(loaded)
  BY <1>2, <1>3 DEF Knows, Edits
<1>7. edit'[e] = loaded
  BY <1>4 DEF Shape
<1>8. Loaded(r, edit'[e], q, columns)
  BY <1>2, <1>5, <1>7 DEF Loaded
<1>. QED
  BY <1>4, <1>5, <1>6, <1>8 DEF Shape

\* What each request knows when it has begun: the checks it made on the quote,
\* and the columns it loaded.
Begun(r, row) ==
  \/ /\ r.pc = "option"
     /\ row.status = "draft"
     /\ r.seen.options = row.options
     /\ r.seen.recommended = row.recommended
  \/ /\ r.pc = "selecting"
     /\ r.seen.selected = row.selected
  \/ /\ r.pc = "accepting"
     /\ row.status # "draft"
     /\ r.option \in row.options
     /\ r.seen.selected = row.selected
     /\ r.seen.current = row.current
  \/ r.pc \in {"priced", "repriced"}
  \/ r.pc = "declining" /\ row.status # "draft"

OthersWait(e) == \A f \in Editors \ {e} : edit'[f] = edit[f]

\* The request is the one pricing, and has priced or refused each option.
AllPriced(r, row, short) ==
  r.pc = "priced" => row.options \subseteq DOMAIN r.version.prices \cup short

\* Pricing is of options, and what it drops are options.
LEMMA Refusals ==
  ASSUME Shape, NEW q \in Quotes, RecordRefusals(q)
  PROVE  /\ refused' \in [Quotes -> SUBSET Options]
         /\ quote[q].options = Priced(q) \cup refused'[q]
         /\ Priced(q) \subseteq Options
         /\ \A o \in Priced(q) : price[o] \in Nat
<1>1. quote[q].options \subseteq Options /\ price \in [Options -> Nat \cup {None}]
  BY QuotingAssumption DEF Shape, SoundRows, QuoteRows
<1>2. refused' = [refused EXCEPT ![q] = quote[q].options \ Priced(q)]
  BY DEF RecordRefusals
<1>3. refused'[q] = quote[q].options \ Priced(q)
  BY <1>2 DEF Shape
<1>. QED
  BY <1>1, <1>2, <1>3 DEF Shape, Priced

LEMMA Begins ==
  ASSUME Shape, UNCHANGED today, NEW e \in Editors, NEW q \in Quotes, BeginEdit(e, q)
  PROVE  /\ Shape'
         /\ edit'[e].quote = q
         /\ Begun(edit'[e], quote[q])
         /\ AllPriced(edit'[e], quote[q], refused'[q])
         /\ UNCHANGED <<quote, versions, agreed>>
         /\ OthersWait(e)
<1>. DEFINE Goal == /\ Shape' /\ edit'[e].quote = q /\ Begun(edit'[e], quote[q])
                    /\ AllPriced(edit'[e], quote[q], refused'[q])
<1>. SUFFICES Goal
  BY DEF BeginEdit, BeginOption, BeginSelect, BeginAccept, BeginIssue, BeginReprice,
         BeginDecline, Load, OthersWait, Shape
<1>. USE DEF EditPhases, AllPriced
<1>0. UNCHANGED refused => refused' \in [Quotes -> SUBSET Options]
  BY DEF Shape
<1>1. ASSUME NEW o \in Options, NEW change \in Changes, BeginOption(e, q, o, change)
      PROVE  Goal
  <2>. DEFINE r == [Unused EXCEPT !.pc = "option", !.option = o, !.change = change]
  <2>1. r \in Edits /\ r.pc = "option" /\ r.option = o /\ r.change = change
    BY UnusedIsEdit DEF Edits, Unused
  <2>2. Load(e, q, {"options", "recommended"}, r)
    BY <1>1 DEF BeginOption
  <2>3. quote[q].status = "draft"
    BY <1>1 DEF BeginOption, Editable
  <2>. HIDE DEF r
  <2>4. Shape' /\ Loaded(r, edit'[e], q, {"options", "recommended"})
    BY <1>0, <1>1, <2>1, <2>2, LoadStep DEF Columns, BeginOption
  <2>. QED
    BY <2>1, <2>3, <2>4 DEF Begun, Loaded
<1>2. ASSUME NEW o \in Options, BeginSelect(e, q, o) PROVE Goal
  <2>. DEFINE r == [Unused EXCEPT !.pc = "selecting", !.option = o]
  <2>1. r \in Edits /\ r.pc = "selecting" /\ r.option = o
    BY UnusedIsEdit DEF Edits, Unused
  <2>2. Load(e, q, {"selected"}, r)
    BY <1>2 DEF BeginSelect
  <2>. HIDE DEF r
  <2>4. Shape' /\ Loaded(r, edit'[e], q, {"selected"})
    BY <1>0, <1>2, <2>1, <2>2, LoadStep DEF Columns, BeginSelect
  <2>. QED
    BY <2>1, <2>4 DEF Begun, Loaded
<1>3. ASSUME NEW given \in Options \cup {None}, BeginAccept(e, q, given) PROVE Goal
  <2>. DEFINE o == IF given = None THEN quote[q].selected ELSE given
              r == [Unused EXCEPT !.pc = "accepting", !.option = o]
  <2>1. Load(e, q, {"selected", "current"}, r) /\ o \in quote[q].options
    BY <1>3 DEF BeginAccept
  <2>2. o \in Options
    BY <2>1 DEF Shape, SoundRows, QuoteRows
  <2>. HIDE DEF o
  <2>3. r \in Edits /\ r.pc = "accepting" /\ r.option = o
    BY <2>2, UnusedIsEdit DEF Edits, Unused
  <2>. HIDE DEF r
  <2>4. Shape' /\ Loaded(r, edit'[e], q, {"selected", "current"})
    BY <1>0, <1>3, <2>1, <2>2, <2>3, LoadStep DEF Columns, BeginAccept
  <2>. QED
    BY <1>3, <2>1, <2>3, <2>4 DEF Begun, Loaded, BeginAccept, MayRecord
<1>4. CASE BeginIssue(e, q)
  <2>. DEFINE offered == Priced(q)
              prices == [o \in offered |-> price[o]]
              r == [Unused EXCEPT !.pc = "priced", !.version.prices = prices]
              version == [NoVersion EXCEPT !.prices = prices]
  <2>1. /\ offered \subseteq Options
        /\ \A o \in offered : price[o] \in Nat
        /\ refused' \in [Quotes -> SUBSET Options]
        /\ quote[q].options = offered \cup refused'[q]
    BY <1>4, Refusals DEF BeginIssue
  <2>2. Load(e, q, {"status", "validUntil"}, r)
    BY <1>4 DEF BeginIssue
  <2>. HIDE DEF offered
  <2>3. prices \in PriceTables
    BY <2>1 DEF PriceTables
  <2>. HIDE DEF prices
  <2>4. version \in Versions
    BY <2>3, NoVersionIsVersion DEF Versions
  <2>5. r = [Unused EXCEPT !.pc = "priced", !.version = version]
    BY DEF Unused
  <2>6. r \in Edits /\ r.pc = "priced" /\ r.version = version
    BY <2>4, <2>5, UnusedIsEdit DEF Edits, Unused
  <2>7. DOMAIN version.prices = offered
    BY DEF NoVersion, prices
  <2>. HIDE DEF r, version
  <2>8. Shape' /\ Loaded(r, edit'[e], q, {"status", "validUntil"})
    BY <2>1, <2>2, <2>6, LoadStep DEF Columns
  <2>. QED
    BY <2>1, <2>6, <2>7, <2>8 DEF Begun, Loaded
<1>5. ASSUME NEW p \in Itineraries, BeginReprice(e, q, p) PROVE Goal
  <2>. DEFINE number == Len(versions[q]) + 1
              version == [NoVersion EXCEPT !.headline = p]
              r == [Unused EXCEPT !.pc = "repriced", !.number = number,
                                  !.version.headline = p]
  <2>1. number \in Nat
    BY DEF Shape
  <2>2. Load(e, q, {}, r)
    BY <1>5 DEF BeginReprice
  <2>. HIDE DEF number
  <2>3. version \in Versions
    BY NoVersionIsVersion, QuotingAssumption DEF Versions
  <2>4. r = [Unused EXCEPT !.pc = "repriced", !.number = number, !.version = version]
    BY DEF Unused
  <2>5. r \in Edits /\ r.pc = "repriced"
    BY <2>1, <2>3, <2>4, UnusedIsEdit DEF Edits, Unused
  <2>. HIDE DEF r
  <2>8. Shape' /\ Loaded(r, edit'[e], q, {})
    BY <1>0, <1>5, <2>2, <2>5, LoadStep DEF BeginReprice
  <2>. QED
    BY <2>5, <2>8 DEF Begun, Loaded
<1>6. CASE BeginDecline(e, q)
  <2>. DEFINE r == [Unused EXCEPT !.pc = "declining"]
  <2>1. r \in Edits /\ r.pc = "declining"
    BY UnusedIsEdit DEF Edits, Unused
  <2>2. Load(e, q, {}, r)
    BY <1>6 DEF BeginDecline
  <2>. HIDE DEF r
  <2>4. Shape' /\ Loaded(r, edit'[e], q, {})
    BY <1>0, <1>6, <2>1, <2>2, LoadStep DEF BeginDecline
  <2>. QED
    BY <1>6, <2>1, <2>4 DEF Begun, Loaded, BeginDecline, MayRecord
<1>. QED
  BY <1>1, <1>2, <1>3, <1>4, <1>5, <1>6 DEF BeginEdit

\* A row with some of its options changed, and its flags within them.
LEMMA ChangedIsSound ==
  ASSUME NEW row \in SoundRows, NEW options \in SUBSET Options,
         NEW recommended \in SUBSET options, row.options \subseteq options
  PROVE  Changed(row, options, recommended) \in SoundRows
BY DEF Changed, SoundRows, QuoteRows, Sound

\* A row that loses an option, its flag and the selection of it.
LEMMA WithoutIsSound ==
  ASSUME NEW row \in SoundRows, NEW o \in Options
  PROVE  Without(row, o) \in SoundRows
<1>. DEFINE next == Changed(row, row.options \ {o}, row.recommended \ {o})
            selected == IF next.selected = o THEN None ELSE next.selected
<1>1. next \in QuoteRows
  BY DEF Changed, SoundRows, QuoteRows
<1>2. /\ next.options = row.options \ {o}
      /\ next.recommended = row.recommended \ {o}
      /\ next.selected = row.selected
  BY DEF Changed, SoundRows, QuoteRows
<1>. HIDE DEF next
<1>3. selected \in (row.options \ {o}) \cup {None}
  BY <1>2 DEF SoundRows, Sound
<1>. QED
  BY <1>1, <1>2, <1>3 DEF Without, SoundRows, QuoteRows, Sound, next

\* What a request under way has in hand.
LEMMA UnderWay ==
  ASSUME Shape, NEW e \in Editors, edit[e].pc # "idle"
  PROVE  /\ edit[e] \in Edits
         /\ Knows(edit[e])
         /\ edit[e].quote \in Quotes
         /\ Current(e) \in SoundRows
         /\ Current(e) = quote[edit[e].quote]
BY DEF Shape, Knows, Current

\* What a request writes on the quote when it commits, column by column.
Writes(r, old, row) ==
  /\ r.pc = "option" =>
       /\ row.selected \in {old.selected, None}
       /\ \/ row.recommended \subseteq old.recommended
          \/ row.recommended \subseteq SoleRecommendation(old, r.seen, r.option)
  /\ r.pc # "option" => row.options = old.options /\ row.recommended = old.recommended
  /\ r.pc \in {"selecting", "accepting"} =>
       row.selected = IF r.option = r.seen.selected THEN old.selected ELSE r.option
  /\ r.pc \notin {"option", "selecting", "accepting"} => row.selected = old.selected
  /\ row.current = IF r.pc \in {"frozen", "repriced"} THEN r.number ELSE old.current
  /\ r.pc \in {"option", "selecting", "repriced"} => row.status = old.status
  /\ r.pc = "frozen" => row.status \in {old.status, "sent"}
  /\ r.pc = "accepting" => row.status = "accepted"
  /\ r.pc = "declining" => row.status = "declined"

Answer(r) == [option |-> r.option, version |-> r.seen.current]

\* A request that commits: its row, and what it adds to the other tables.
Written(e) ==
  LET r == edit[e]
  IN  /\ r.pc \notin {"idle", "priced"}
      /\ \E row : Store(e, row) /\ Writes(r, Current(e), row)
      /\ IF r.pc \in {"frozen", "repriced"} THEN NumberFree(e) /\ AppendVersion(e)
                                            ELSE UNCHANGED versions
      /\ IF r.pc = "accepting"
         THEN agreed' = [agreed EXCEPT ![r.quote] = @ \cup {Answer(r)}]
         ELSE UNCHANGED agreed

LEMMA CommitWrites ==
  ASSUME Shape, UNCHANGED today, NEW e \in Editors, NEW row \in SoundRows, Store(e, row),
         UNCHANGED price, Writes(edit[e], Current(e), row),
         edit[e].pc \notin {"idle", "priced"},
         IF edit[e].pc \in {"frozen", "repriced"} THEN NumberFree(e) /\ AppendVersion(e)
                                                  ELSE UNCHANGED versions,
         IF edit[e].pc = "accepting"
         THEN agreed' = [agreed EXCEPT ![edit[e].quote] = @ \cup {Answer(edit[e])}]
         ELSE UNCHANGED agreed
  PROVE  Shape' /\ Written(e)
<1>. DEFINE r == edit[e]
<1>1. r \in Edits /\ Knows(r) /\ r.quote \in Quotes
  BY UnderWay
<1>2. versions' \in [Quotes -> Seq(Versions)]
  <2>1. r.version \in Versions
    BY <1>1 DEF Edits
  <2>2. versions \in [Quotes -> Seq(Versions)]
    BY DEF Shape
  <2>3. \/ versions' = versions
        \/ versions' = [versions EXCEPT ![r.quote] = Append(@, r.version)]
    BY DEF AppendVersion
  <2>4. Append(versions[r.quote], r.version) \in Seq(Versions)
    BY <1>1, <2>1, <2>2
  <2>. QED
    BY <1>1, <2>2, <2>3, <2>4
<1>3. agreed' \in [Quotes -> SUBSET Agreements]
  <2>1. r.pc = "accepting" => Answer(r) \in Agreements
    BY <1>1 DEF Answer, Agreements, Knows
  <2>. QED
    BY <1>1, <2>1 DEF Shape
<1>. QED
  BY <1>2, <1>3, CommitStep DEF Written

\* A version frozen: the request goes on with the prices it had.
LEMMA Freezes ==
  ASSUME Shape, UNCHANGED today, NEW e \in Editors, FreezeIssue(e)
  PROVE  /\ Shape'
         /\ UNCHANGED <<quote, versions, agreed>>
         /\ OthersWait(e)
         /\ edit[e].pc = "priced"
         /\ edit'[e].pc = "frozen"
         /\ edit'[e].quote = edit[e].quote
         /\ edit'[e].version.prices = edit[e].version.prices
         /\ edit'[e].version.refused = refused[edit[e].quote]
         /\ UNCHANGED refused
<1>. DEFINE r == edit[e]
            prices == r.version.prices
            short == refused[r.quote]
            number == Len(versions[r.quote]) + 1
<1>1. r \in Edits /\ r.quote \in Quotes /\ r.pc = "priced"
  BY UnderWay DEF FreezeIssue
<1>2. PICK o \in DOMAIN prices :
        edit' = [edit EXCEPT ![e].pc = "frozen", ![e].number = number,
                             ![e].version = Frozen(prices, short, o)]
  BY DEF FreezeIssue
<1>3. prices \in PriceTables
  BY <1>1 DEF Edits, Versions
<1>4. o \in Options /\ prices[o] \in Nat
  BY <1>3 DEF PriceTables
<1>9. short \in SUBSET Options
  BY <1>1 DEF Shape
<1>. HIDE DEF prices, short
<1>. DEFINE version == Frozen(prices, short, o)
            next == [r EXCEPT !.pc = "frozen", !.number = number, !.version = version]
<1>5. /\ version \in Versions
      /\ version.leads = o
      /\ version.prices = prices
      /\ version.refused = short
  BY <1>3, <1>4, <1>9 DEF Frozen, Versions
<1>6. number \in Nat
  BY <1>1 DEF Shape
<1>. HIDE DEF number, version
<1>7. /\ next \in Edits
      /\ Knows(next)
      /\ next.pc = "frozen"
      /\ next.quote = r.quote
      /\ next.version.prices = prices
      /\ next.version.refused = short
  BY <1>1, <1>4, <1>5, <1>6 DEF Edits, EditPhases, Knows
<1>8. edit' = [edit EXCEPT ![e] = next] /\ edit'[e] = next
  BY <1>1, <1>2 DEF Shape, version
<1>10. UNCHANGED <<quote, versions, refused, price, agreed>>
  BY DEF FreezeIssue
<1>. HIDE DEF next
<1>. QED
  BY <1>1, <1>7, <1>8, <1>10, EditStep DEF prices, short, OthersWait, Shape

LEMMA Commits ==
  ASSUME Shape, UNCHANGED today, NEW e \in Editors, CommitEdit(e), ~FreezeIssue(e)
  PROVE  Shape' /\ Written(e)
<1>. DEFINE r == edit[e]
            row == Current(e)
<1>1. CASE CommitOption(e)
  <2>. DEFINE o == r.option
  <2>1. /\ row \in SoundRows
        /\ o \in Options
        /\ r.pc = "option"
        /\ UNCHANGED <<versions, price, agreed>>
    BY <1>1, UnderWay DEF CommitOption, Knows
  <2>2. /\ row.options \subseteq Options
        /\ row.recommended \subseteq row.options
    BY <2>1 DEF SoundRows, QuoteRows, Sound
  <2>3. SoleRecommendation(row, r.seen, o) \subseteq row.options \cup {o}
    BY <2>2 DEF SoleRecommendation
  <2>4. ASSUME NEW options, NEW recommended,
               options \subseteq Options, recommended \subseteq options,
               row.options \subseteq options,
               \/ recommended \subseteq row.recommended
               \/ recommended \subseteq SoleRecommendation(row, r.seen, o),
               Store(e, Changed(row, options, recommended))
        PROVE  Shape' /\ Written(e)
    <3>. DEFINE next == Changed(row, options, recommended)
    <3>1. next \in SoundRows
      BY <2>1, <2>4, ChangedIsSound
    <3>2. Writes(r, row, next)
      BY <2>1, <2>4 DEF Writes, Changed, SoundRows, QuoteRows
    <3>. HIDE DEF next
    <3>. QED
      BY <2>1, <2>4, <3>1, <3>2, CommitWrites DEF next
  <2>5. CASE Store(e, Without(row, o))
    <3>. DEFINE next == Without(row, o)
    <3>1. next \in SoundRows
      BY <2>1, WithoutIsSound
    <3>2. Writes(r, row, next)
      BY <2>1 DEF Writes, Without, Changed, SoundRows, QuoteRows
    <3>. HIDE DEF next
    <3>. QED
      BY <2>1, <2>5, <3>1, <3>2, CommitWrites DEF next
  <2>6. \/ Store(e, Changed(row, row.options \cup {o}, row.recommended))
        \/ Store(e, Changed(row, row.options \cup {o}, SoleRecommendation(row, r.seen, o)))
        \/ Store(e, Changed(row, row.options,
                            SoleRecommendation(row, r.seen, o) \cap row.options))
        \/ Store(e, Changed(row, row.options,
                            row.recommended \ (r.seen.recommended \cap {o})))
        \/ Store(e, Without(row, o))
    BY <1>1 DEF CommitOption
  <2>. DEFINE sole == SoleRecommendation(row, r.seen, o)
  <2>. HIDE DEF row, o, sole
  <2>7. CASE Store(e, Changed(row, row.options \cup {o}, row.recommended))
    BY <2>1, <2>2, <2>4, <2>7
  <2>8. CASE Store(e, Changed(row, row.options \cup {o}, sole))
    BY <2>1, <2>2, <2>3, <2>4, <2>8 DEF sole
  <2>9. CASE Store(e, Changed(row, row.options, sole \cap row.options))
    BY <2>1, <2>2, <2>3, <2>4, <2>9 DEF sole
  <2>10. CASE Store(e, Changed(row, row.options,
                              row.recommended \ (r.seen.recommended \cap {o})))
    BY <2>1, <2>2, <2>4, <2>10
  <2>. QED
    BY <2>5, <2>6, <2>7, <2>8, <2>9, <2>10 DEF sole
<1>2. CASE CommitIssue(e)
  <2>. DEFINE until == today + Validity
              next == [row EXCEPT
                         !.current = r.number,
                         !.validUntil = IF until = r.seen.validUntil THEN @ ELSE until,
                         !.status = IF r.seen.status = "sent" THEN @ ELSE "sent"]
  <2>1. /\ Store(e, next)
        /\ r.pc = "frozen"
        /\ NumberFree(e) /\ AppendVersion(e)
        /\ UNCHANGED <<price, agreed>>
    BY <1>2 DEF CommitIssue
  <2>2. row \in SoundRows /\ r.number \in Nat
    BY <2>1, UnderWay DEF Edits
  <2>3. until \in Int
    BY QuotingAssumption, ClockAssumption DEF Shape, Days
  <2>. HIDE DEF row, until
  <2>4. next \in SoundRows /\ Writes(r, row, next)
    BY <2>1, <2>2, <2>3 DEF SoundRows, QuoteRows, Sound, Writes
  <2>. HIDE DEF next
  <2>. QED
    BY <2>1, <2>4, CommitWrites DEF row
<1>3. CASE CommitReprice(e)
  <2>. DEFINE next == [row EXCEPT !.current = r.number]
  <2>1. /\ Store(e, next)
        /\ r.pc = "repriced"
        /\ NumberFree(e) /\ AppendVersion(e)
        /\ UNCHANGED <<price, agreed>>
    BY <1>3 DEF CommitReprice
  <2>2. row \in SoundRows /\ r.number \in Nat
    BY <2>1, UnderWay DEF Edits
  <2>. HIDE DEF row
  <2>3. next \in SoundRows /\ Writes(r, row, next)
    BY <2>1, <2>2 DEF SoundRows, QuoteRows, Sound, Writes
  <2>. HIDE DEF next
  <2>. QED
    BY <2>1, <2>3, CommitWrites DEF row
<1>4. CASE CommitSelect(e)
  <2>. DEFINE next == [row EXCEPT !.selected = Selected(e)]
  <2>1. /\ Store(e, next)
        /\ r.pc = "selecting"
        /\ Selected(e) \in row.options \cup {None}
        /\ UNCHANGED <<versions, price, agreed>>
    BY <1>4 DEF CommitSelect
  <2>2. row \in SoundRows
    BY <2>1, UnderWay
  <2>3. next \in SoundRows /\ Writes(r, row, next)
    BY <2>1, <2>2 DEF SoundRows, QuoteRows, Sound, Writes, Selected
  <2>. HIDE DEF next
  <2>. QED
    BY <2>1, <2>3, CommitWrites
<1>5. CASE CommitAccept(e)
  <2>. DEFINE next == [row EXCEPT !.selected = Selected(e), !.status = "accepted"]
  <2>1. /\ Store(e, next)
        /\ r.pc = "accepting"
        /\ Selected(e) \in row.options \cup {None}
        /\ agreed' = [agreed EXCEPT ![r.quote] = @ \cup {Answer(r)}]
        /\ UNCHANGED <<versions, price>>
    BY <1>5 DEF CommitAccept, Answer
  <2>2. row \in SoundRows
    BY <2>1, UnderWay
  <2>3. next \in SoundRows /\ Writes(r, row, next)
    BY <2>1, <2>2 DEF SoundRows, QuoteRows, Sound, TERMINAL, Writes, Selected
  <2>. HIDE DEF next
  <2>. QED
    BY <2>1, <2>3, CommitWrites
<1>6. CASE CommitDecline(e)
  <2>. DEFINE next == [row EXCEPT !.status = "declined"]
  <2>1. Store(e, next) /\ r.pc = "declining" /\ UNCHANGED <<versions, price, agreed>>
    BY <1>6 DEF CommitDecline
  <2>2. row \in SoundRows
    BY <2>1, UnderWay
  <2>. HIDE DEF row
  <2>3. next \in SoundRows /\ Writes(r, row, next)
    BY <2>1, <2>2 DEF SoundRows, QuoteRows, Sound, TERMINAL, Writes
  <2>. HIDE DEF next
  <2>. QED
    BY <2>1, <2>3, CommitWrites DEF row
<1>. QED
  BY <1>1, <1>2, <1>3, <1>4, <1>5, <1>6 DEF CommitEdit


\* The row a request has written, and that nothing else moved.
LEMMA WrittenRow ==
  ASSUME Shape, NEW e \in Editors, Written(e)
  PROVE  LET q == edit[e].quote
         IN  /\ q \in Quotes
             /\ Writes(edit[e], quote[q], quote'[q])
             /\ \A p \in Quotes \ {q} : quote'[p] = quote[p]
             /\ edit'[e] = Unused
             /\ OthersWait(e)
<1>. DEFINE q == edit[e].quote
<1>1. PICK row : Store(e, row) /\ Writes(edit[e], Current(e), row)
  BY DEF Written
<1>2. q \in Quotes /\ DOMAIN quote = Quotes /\ DOMAIN edit = Editors
  BY UnderWay DEF Written, Shape
<1>3. quote' = [quote EXCEPT ![q] = row] /\ edit' = [edit EXCEPT ![e] = Unused]
  BY <1>1 DEF Store
<1>4. quote'[q] = row /\ \A p \in Quotes \ {q} : quote'[p] = quote[p]
  BY <1>2, <1>3
<1>5. edit'[e] = Unused /\ OthersWait(e)
  BY <1>2, <1>3 DEF OthersWait
<1>. QED
  BY <1>1, <1>2, <1>4, <1>5 DEF Current

\* A status set by hand: every other column stays.
LEMMA StatusSet ==
  ASSUME Shape, UNCHANGED today, NEW q \in Quotes, NEW status \in StatusEdits,
         SetStatus(q, status)
  PROVE  /\ Shape'
         /\ quote'[q].status = status
         /\ \A p \in Quotes :
              /\ quote'[p].options = quote[p].options
              /\ quote'[p].recommended = quote[p].recommended
              /\ quote'[p].selected = quote[p].selected
              /\ quote'[p].current = quote[p].current
              /\ p # q => quote'[p].status = quote[p].status
<1>. DEFINE row == [quote[q] EXCEPT !.status = status]
<1>1. row \in SoundRows
  BY DEF Shape, SoundRows, QuoteRows, Sound
<1>2. quote' = [quote EXCEPT ![q] = row] /\ DOMAIN quote = Quotes
  BY DEF SetStatus, Shape
<1>3. /\ row.status = status
      /\ row.options = quote[q].options
      /\ row.recommended = quote[q].recommended
      /\ row.selected = quote[q].selected
      /\ row.current = quote[q].current
  BY DEF Shape, SoundRows, QuoteRows
<1>. HIDE DEF row
<1>4. Shape'
  BY <1>1, <1>2 DEF SetStatus, Shape
<1>5. \A p \in Quotes : quote'[p] = IF p = q THEN row ELSE quote[p]
  BY <1>2
<1>. QED
  BY <1>3, <1>4, <1>5

LEMMA QuoteNextShape ==
  ASSUME Shape, UNCHANGED today, QuoteNext
  PROVE  Shape'
<1>1. ASSUME NEW e \in Editors, Fail(e) PROVE Shape'
  BY <1>1, EditStep, UnusedIsEdit DEF Fail
<1>2. ASSUME NEW table \in Tables, ChangePrices(table) PROVE Shape'
  BY <1>2 DEF ChangePrices, Shape
<1>3. ASSUME NEW e \in Editors, NEW q \in Quotes, PriceOptions(e, q) PROVE Shape'
  BY <1>3, Refusals DEF PriceOptions, Shape
<1>. QED
  BY <1>1, <1>2, <1>3, Begins, Freezes, Commits, StatusSet DEF QuoteNext

LEMMA NextShape == Shape /\ [Next]_vars => Shape'
<1>. SUFFICES ASSUME Shape, [Next]_vars PROVE Shape'
  OBVIOUS
<1>1. CASE UNCHANGED quoteVars /\ Tick
  BY <1>1, ClockAssumption DEF Tick, Shape, Days, quoteVars
<1>2. CASE UNCHANGED vars
  BY <1>2 DEF vars, quoteVars, Shape
<1>. QED
  BY <1>1, <1>2, QuoteNextShape DEF Next

LEMMA ShapeHolds == Spec => []Shape
BY InitShape, NextShape, PTL DEF Spec

\* Every quote, version and request keeps its shape: a selection is always one
\* of the quote's options, and so is every option flagged.
THEOREM QuotesTypeCorrect == Spec => []QuoteTypeOK
BY ShapeHolds, ShapeIsTypeOK, PTL

-------------------------------------------------------------------------------
(***************************************************************************)
(* The versions of a quote, whatever the requests in flight                *)
(***************************************************************************)

LEMMA InitCurrent == Init => CurrentIsNewest
BY InitQuotes DEF CurrentIsNewest

\* The number a request writes is the one the unique constraint let through.
LEMMA WrittenCurrent ==
  ASSUME Shape, CurrentIsNewest, NEW e \in Editors, Written(e)
  PROVE  CurrentIsNewest'
<1>. DEFINE q == edit[e].quote
            r == edit[e]
<1>1. /\ q \in Quotes
      /\ Writes(r, quote[q], quote'[q])
      /\ \A p \in Quotes \ {q} : quote'[p] = quote[p]
  BY WrittenRow
<1>2. r.version \in Versions /\ versions \in [Quotes -> Seq(Versions)]
  BY UnderWay DEF Written, Edits, Shape
<1>3. CASE r.pc \in {"frozen", "repriced"}
  <2>1. /\ r.number = Len(versions[q]) + 1
        /\ versions' = [versions EXCEPT ![q] = Append(@, r.version)]
        /\ quote'[q].current = r.number
    BY <1>1, <1>3 DEF Written, NumberFree, AppendVersion, Writes
  <2>. HIDE DEF q, r
  <2>2. Len(versions'[q]) = Len(versions[q]) + 1
    BY <1>1, <1>2, <2>1
  <2>. QED
    BY <1>1, <1>2, <2>1, <2>2 DEF CurrentIsNewest
<1>4. CASE r.pc \notin {"frozen", "repriced"}
  BY <1>1, <1>4 DEF Written, Writes, CurrentIsNewest
<1>. QED
  BY <1>3, <1>4

LEMMA NextCurrent == Shape /\ CurrentIsNewest /\ [Next]_vars => CurrentIsNewest'
<1>. SUFFICES ASSUME Shape, CurrentIsNewest, [Next]_vars PROVE CurrentIsNewest'
  OBVIOUS
<1>1. ASSUME UNCHANGED <<quote, versions>> PROVE CurrentIsNewest'
  BY <1>1 DEF CurrentIsNewest
<1>2. ASSUME NEW q \in Quotes, NEW status \in StatusEdits, SetStatus(q, status),
             UNCHANGED today
      PROVE  CurrentIsNewest'
  BY <1>2, StatusSet DEF SetStatus, CurrentIsNewest
<1>3. ASSUME UNCHANGED today, QuoteNext PROVE CurrentIsNewest'
  BY <1>1, <1>2, <1>3, Begins, Freezes, Commits, WrittenCurrent
  DEF QuoteNext, Fail, ChangePrices, PriceOptions
<1>. QED
  BY <1>1, <1>3 DEF Next, vars, quoteVars

\* The version a booking invoices is the newest one, which the document prints:
\* for any number of requests that race to append versions, because the number
\* written on the quote is the one the unique constraint let through.
THEOREM CurrentIsAlwaysNewest == Spec => []CurrentIsNewest
BY InitCurrent, NextCurrent, ShapeHolds, PTL DEF Spec

\* A version once appended is never changed and never goes away.
LEMMA VersionsLast ==
  ASSUME Shape, UNCHANGED today, QuoteNext, NEW q \in Quotes, NEW n \in DOMAIN versions[q]
  PROVE  n \in DOMAIN versions'[q] /\ versions'[q][n] = versions[q][n]
<1>1. versions[q] \in Seq(Versions)
  BY DEF Shape
<1>2. ASSUME NEW e \in Editors, Written(e)
      PROVE  n \in DOMAIN versions'[q] /\ versions'[q][n] = versions[q][n]
  <2>1. edit[e].version \in Versions
    BY <1>2, UnderWay DEF Written, Edits
  <2>2. \/ UNCHANGED versions
        \/ versions' = [versions EXCEPT ![edit[e].quote] = Append(@, edit[e].version)]
    BY <1>2 DEF Written, AppendVersion
  <2>3. versions'[q] = versions[q] \/ versions'[q] = Append(versions[q], edit[e].version)
    BY <2>2 DEF Shape
  <2>. QED
    BY <1>1, <2>1, <2>3
<1>. QED
  BY <1>2, Begins, Freezes, Commits DEF QuoteNext, Fail, SetStatus, ChangePrices, PriceOptions

-------------------------------------------------------------------------------
(***************************************************************************)
(* A quote that went out was issued                                        *)
(***************************************************************************)

\* Nobody sends, accepts or declines a quote through PATCH /quotes/{id}/status.
OnlyReopened == StatusEdits \subseteq {"draft"}

HasIssued(q) == \E n \in DOMAIN versions[q] : Issued(versions[q][n])

\* An answer is recorded only on a quote that was out when its request began.
AnswersWereIssued ==
  \A e \in Editors : edit[e].pc \in {"accepting", "declining"} => HasIssued(edit[e].quote)

IssuedInv == SentWasIssued /\ AnswersWereIssued

LEMMA InitIssued == Init => IssuedInv
BY InitQuotes DEF IssuedInv, SentWasIssued, AnswersWereIssued

\* What was issued once stays issued.
LEMMA IssuedLasts ==
  ASSUME Shape, UNCHANGED today, QuoteNext, NEW q \in Quotes, HasIssued(q)
  PROVE  HasIssued(q)'
BY VersionsLast DEF HasIssued

\* Issuing leaves an issued version behind.
LEMMA IssueIssues ==
  ASSUME Shape, NEW e \in Editors, NEW q \in Quotes, edit[e].quote = q,
         edit[e].pc = "frozen", Written(e)
  PROVE  HasIssued(q)'
<1>. DEFINE version == edit[e].version
            n == Len(versions[q]) + 1
<1>1. /\ version \in Versions
      /\ version.leads \in Options
      /\ versions' = [versions EXCEPT ![q] = Append(@, version)]
  BY UnderWay DEF Written, AppendVersion, Edits, Knows
<1>2. Issued(version)
  BY <1>1, QuotingAssumption DEF Issued
<1>3. versions[q] \in Seq(Versions) /\ versions'[q] = Append(versions[q], version)
  BY <1>1 DEF Shape
<1>. HIDE DEF version
<1>4. n \in DOMAIN versions'[q] /\ versions'[q][n] = version
  BY <1>1, <1>3
<1>. QED
  BY <1>2, <1>4 DEF HasIssued

LEMMA QuoteNextIssued ==
  ASSUME Shape, IssuedInv, OnlyReopened, UNCHANGED today, QuoteNext
  PROVE  IssuedInv'
<1>0. \A q \in Quotes : HasIssued(q) => HasIssued(q)'
  BY IssuedLasts
<1>1. ASSUME NEW e \in Editors, NEW q \in Quotes, BeginEdit(e, q) PROVE IssuedInv'
  <2>1. /\ UNCHANGED <<quote, versions>>
        /\ OthersWait(e)
        /\ edit'[e].quote = q
        /\ edit'[e].pc \in {"accepting", "declining"} => quote[q].status # "draft"
    BY <1>1, Begins DEF Begun
  <2>. QED
    BY <2>1 DEF IssuedInv, SentWasIssued, AnswersWereIssued, HasIssued, OthersWait
<1>2. ASSUME NEW e \in Editors, FreezeIssue(e) PROVE IssuedInv'
  BY <1>2, Freezes DEF IssuedInv, SentWasIssued, AnswersWereIssued, HasIssued, OthersWait
<1>3. ASSUME NEW e \in Editors, Written(e) PROVE IssuedInv'
  <2>1. PICK q \in Quotes :
          /\ q = edit[e].quote
          /\ Writes(edit[e], quote[q], quote'[q])
          /\ \A p \in Quotes \ {q} : quote'[p] = quote[p]
          /\ edit'[e] = Unused
          /\ OthersWait(e)
    BY <1>3, WrittenRow
  <2>2. AnswersWereIssued'
    <3>1. ASSUME NEW f \in Editors, edit'[f].pc \in {"accepting", "declining"}
          PROVE  edit[f].quote \in Quotes /\ HasIssued(edit[f].quote) /\ edit'[f] = edit[f]
      BY <2>1, <3>1, UnderWay DEF IssuedInv, AnswersWereIssued, OthersWait, Unused
    <3>. QED
      BY <1>0, <3>1 DEF AnswersWereIssued, HasIssued
  <2>3. ASSUME quote'[q].status # "draft" PROVE HasIssued(q)'
    <3>1. CASE edit[e].pc = "frozen"
      BY <1>3, <2>1, <3>1, IssueIssues
    <3>2. CASE edit[e].pc # "frozen"
      <4>1. HasIssued(q)
        <5>1. edit[e].pc \in EditPhases \ {"idle", "priced", "frozen"}
          BY <1>3, <3>2, UnderWay DEF Written, Edits
        <5>. QED
          BY <2>1, <2>3, <5>1
          DEF EditPhases, Writes, IssuedInv, SentWasIssued, AnswersWereIssued, HasIssued
      <4>. QED
        BY <1>0, <2>1, <4>1
    <3>. QED
      BY <3>1, <3>2
  <2>4. SentWasIssued'
    BY <1>0, <2>1, <2>3 DEF IssuedInv, SentWasIssued, HasIssued
  <2>. QED
    BY <2>2, <2>4 DEF IssuedInv
<1>4. ASSUME NEW q \in Quotes, NEW status \in StatusEdits, SetStatus(q, status)
      PROVE  IssuedInv'
  BY <1>4, StatusSet
  DEF SetStatus, OnlyReopened, IssuedInv, SentWasIssued, AnswersWereIssued, HasIssued
<1>5. ASSUME UNCHANGED <<quote, versions>>,
             \A e \in Editors : edit'[e] = edit[e] \/ edit'[e] = Unused
      PROVE  IssuedInv'
  BY <1>5 DEF IssuedInv, SentWasIssued, AnswersWereIssued, HasIssued, Unused
<1>6. ASSUME NEW e \in Editors, Fail(e) PROVE IssuedInv'
  BY <1>5, <1>6 DEF Fail, Shape
<1>7. ASSUME NEW table \in Tables, ChangePrices(table) PROVE IssuedInv'
  BY <1>5, <1>7 DEF ChangePrices
<1>8. ASSUME NEW e \in Editors, NEW q \in Quotes, PriceOptions(e, q) PROVE IssuedInv'
  BY <1>5, <1>8 DEF PriceOptions
<1>. QED
  BY <1>1, <1>2, <1>3, <1>4, <1>6, <1>7, <1>8, Commits DEF QuoteNext

LEMMA NextIssued == OnlyReopened /\ Shape /\ IssuedInv /\ [Next]_vars => IssuedInv'
<1>. SUFFICES ASSUME OnlyReopened, Shape, IssuedInv, [Next]_vars PROVE IssuedInv'
  OBVIOUS
<1>1. CASE UNCHANGED quoteVars
  BY <1>1 DEF quoteVars, IssuedInv, SentWasIssued, AnswersWereIssued, HasIssued
<1>. QED
  BY <1>1, QuoteNextIssued DEF Next, vars

\* While nobody sends or decides a quote by hand, only a quote with an issued
\* version is sent, accepted or declined, whatever the requests in flight: a
\* quote may be reopened while an answer to it is being recorded.
THEOREM SentOnlyIfIssued ==
  ASSUME OnlyReopened
  PROVE  Spec => []SentWasIssued
<1>1. Shape /\ IssuedInv /\ [Next]_vars => IssuedInv'
  BY NextIssued
<1>2. IssuedInv => SentWasIssued
  BY DEF IssuedInv
<1>. QED
  BY InitIssued, ShapeHolds, <1>1, <1>2, PTL DEF Spec

-------------------------------------------------------------------------------
(***************************************************************************)
(* Requests served one at a time                                           *)
(***************************************************************************)

OneAtATime == \A e, f \in Editors : e = f

\* What a request loaded is still what the quote says.
StillSo(r, row) ==
  /\ r.pc = "option" => /\ r.seen.options = row.options
                        /\ r.seen.recommended = row.recommended
  /\ r.pc \in {"selecting", "accepting"} => r.seen.selected = row.selected

NothingStale == \A e \in Editors : edit[e].pc # "idle" => StillSo(edit[e], Current(e))

\* A quote whose options are being edited is not an accepted one.
NoneEdited == \A e \in Editors : edit[e].pc = "option" => Current(e).status # "accepted"

KeepInv == AcceptanceKeepsItsOption /\ NoneEdited

\* An issued version, of the first k, that shows every option of the quote as it
\* is now.
CoveredBy(q, k) ==
  \E n \in DOMAIN versions[q] : /\ n <= k
                               /\ Issued(versions[q][n])
                               /\ quote[q].options \subseteq Shown(versions[q][n])

Covered(q) == CoveredBy(q, Len(versions[q]))

\* An issue under way has priced or refused every option of its quote.
IssuesShowAll ==
  \A e \in Editors :
    /\ edit[e].pc # "idle" => AllPriced(edit[e], Current(e), refused[edit[e].quote])
    /\ edit[e].pc = "frozen" => Current(e).options \subseteq Shown(edit[e].version)

\* A quote that is out is covered by a version, and stays so while an answer to
\* it is recorded; options change on drafts only.
OffersCovered ==
  /\ \A q \in Quotes : quote[q].status # "draft" => Covered(q)
  /\ \A e \in Editors :
       /\ edit[e].pc = "option" => Current(e).status = "draft"
       /\ edit[e].pc \in {"accepting", "declining"} => Covered(edit[e].quote)
       /\ edit[e].pc = "accepting" => /\ edit[e].option \in Current(e).options
                                      /\ CoveredBy(edit[e].quote, edit[e].seen.current)

OfferInv == OffersCovered /\ AcceptedWasShown

\* The steps of QuoteNext when there is one request at most: what it does to
\* the quotes and to the request, whichever request it is.
LEMMA SerialSteps ==
  ASSUME Shape, OneAtATime, UNCHANGED today, QuoteNext
  PROVE  \/ \E q \in Quotes, e \in Editors :
              /\ UNCHANGED <<quote, versions, agreed>>
              /\ edit'[e].quote = q
              /\ Begun(edit'[e], quote[q])
              /\ AllPriced(edit'[e], quote[q], refused'[q])
              /\ \A f \in Editors : f = e
         \/ \E e \in Editors :
              /\ UNCHANGED <<quote, versions, refused, agreed>>
              /\ edit[e].pc = "priced"
              /\ edit'[e].pc = "frozen"
              /\ edit'[e].quote = edit[e].quote
              /\ edit'[e].version.prices = edit[e].version.prices
              /\ edit'[e].version.refused = refused[edit[e].quote]
              /\ \A f \in Editors : f = e
         \/ \E e \in Editors : Written(e) /\ \A f \in Editors : f = e /\ edit'[f] = Unused
         \/ /\ UNCHANGED <<quote, versions, refused, agreed>>
            /\ \A e \in Editors : edit'[e] = edit[e] \/ edit'[e] = Unused
         \/ /\ UNCHANGED <<quote, versions, edit, agreed>>
            /\ \A e \in Editors : edit[e].pc = "idle"
         \/ \E q \in Quotes, status \in StatusEdits : SetStatus(q, status)
<1>1. ASSUME NEW e \in Editors PROVE \A f \in Editors : f = e
  BY DEF OneAtATime
<1>2. ASSUME NEW e \in Editors, Written(e)
      PROVE  \A f \in Editors : f = e /\ edit'[f] = Unused
  BY <1>1, <1>2, WrittenRow
<1>3. ASSUME NEW e \in Editors, Fail(e)
      PROVE  /\ UNCHANGED <<quote, versions, refused, agreed>>
             /\ \A f \in Editors : edit'[f] = edit[f] \/ edit'[f] = Unused
  BY <1>3 DEF Fail, Shape
<1>4. ASSUME NEW e \in Editors, NEW q \in Quotes, PriceOptions(e, q)
      PROVE  /\ UNCHANGED <<quote, versions, edit, agreed>>
             /\ \A f \in Editors : edit[f].pc = "idle"
  <2>1. \A f \in Editors : f = e
    BY <1>1
  <2>. QED
    BY <1>4, <2>1 DEF PriceOptions
<1>5. ASSUME NEW e \in Editors, NEW q \in Quotes, BeginEdit(e, q)
      PROVE  /\ UNCHANGED <<quote, versions, agreed>>
             /\ edit'[e].quote = q
             /\ Begun(edit'[e], quote[q])
             /\ AllPriced(edit'[e], quote[q], refused'[q])
             /\ \A f \in Editors : f = e
  BY <1>1, <1>5, Begins
<1>6. ASSUME NEW e \in Editors, FreezeIssue(e)
      PROVE  /\ UNCHANGED <<quote, versions, refused, agreed>>
             /\ edit[e].pc = "priced"
             /\ edit'[e].pc = "frozen"
             /\ edit'[e].quote = edit[e].quote
             /\ edit'[e].version.prices = edit[e].version.prices
             /\ edit'[e].version.refused = refused[edit[e].quote]
             /\ \A f \in Editors : f = e
  BY <1>1, <1>6, Freezes
<1>7. ASSUME NEW e \in Editors, CommitEdit(e), ~FreezeIssue(e) PROVE Written(e)
  BY <1>7, Commits
<1>8. ASSUME NEW table \in Tables, ChangePrices(table)
      PROVE  UNCHANGED <<quote, versions, refused, edit, agreed>>
  BY <1>8 DEF ChangePrices
<1>9. QuoteNext <=>
        \/ \E e \in Editors : CommitEdit(e) \/ Fail(e)
        \/ \E e \in Editors, q \in Quotes : BeginEdit(e, q) \/ PriceOptions(e, q)
        \/ \E q \in Quotes, status \in StatusEdits : SetStatus(q, status)
        \/ \E table \in Tables : ChangePrices(table)
  BY DEF QuoteNext
<1>10. ASSUME NEW e \in Editors, CommitEdit(e) \/ Fail(e)
       PROVE  \/ FreezeIssue(e) \/ Written(e) \/ Fail(e)
  BY <1>7, <1>10
<1>. QED
  BY <1>2, <1>3, <1>4, <1>5, <1>6, <1>8, <1>9, <1>10

LEMMA SerialNothingStale ==
  ASSUME Shape, NothingStale, OneAtATime, UNCHANGED today, QuoteNext
  PROVE  NothingStale'
<1>0. ASSUME NEW e \in Editors, edit[e].pc # "idle"
      PROVE  edit[e].quote \in Quotes /\ StillSo(edit[e], quote[edit[e].quote])
  BY <1>0, UnderWay DEF NothingStale
<1>1. SUFFICES ASSUME NEW e \in Editors, edit'[e].pc # "idle"
               PROVE  StillSo(edit'[e], quote'[edit'[e].quote])
  BY DEF NothingStale, Current
<1>2. ASSUME NEW q \in Quotes, NEW status \in StatusEdits, SetStatus(q, status)
      PROVE  StillSo(edit'[e], quote'[edit'[e].quote])
  BY <1>0, <1>1, <1>2, StatusSet DEF SetStatus, StillSo
<1>. QED
  BY <1>0, <1>1, <1>2, SerialSteps DEF Begun, StillSo, Unused

\* A sole recommendation is one: what it clears is every flag there is.
LEMMA SoleIsSole ==
  ASSUME NEW row \in SoundRows, NEW seen, NEW o,
         seen.options = row.options, seen.recommended = row.recommended
  PROVE  SoleRecommendation(row, seen, o) \subseteq {o}
BY DEF SoleRecommendation, SoundRows, Sound

\* What one step may do to the flags of a quote.
Remarks(q) == \/ quote'[q].recommended \subseteq quote[q].recommended
              \/ \E o \in Options : quote'[q].recommended = {o}

LEMMA SerialMarks ==
  ASSUME Shape, NothingStale, OneAtATime, UNCHANGED today, QuoteNext, NEW p \in Quotes
  PROVE  Remarks(p)
<1>1. ASSUME NEW e \in Editors, Written(e) PROVE Remarks(p)
  <2>1. PICK q \in Quotes :
          /\ q = edit[e].quote
          /\ Writes(edit[e], quote[q], quote'[q])
          /\ \A r \in Quotes \ {q} : quote'[r] = quote[r]
    BY <1>1, WrittenRow
  <2>2. /\ quote[q] \in SoundRows
        /\ StillSo(edit[e], quote[q])
        /\ edit[e].pc = "option" => edit[e].option \in Options
    BY <1>1, <2>1, UnderWay DEF Written, Shape, NothingStale, Current, Knows
  <2>3. CASE edit[e].pc = "option"
    <3>. DEFINE o == edit[e].option
    <3>1. SoleRecommendation(quote[q], edit[e].seen, o) \subseteq {o}
      BY <2>2, <2>3, SoleIsSole DEF StillSo
    <3>2. \/ quote'[q].recommended \subseteq quote[q].recommended
          \/ quote'[q].recommended \subseteq {o}
      BY <2>1, <2>3, <3>1 DEF Writes
    <3>3. quote'[q].recommended \subseteq {o} =>
            quote'[q].recommended = {} \/ quote'[q].recommended = {o}
      OBVIOUS
    <3>. QED
      BY <2>1, <2>2, <2>3, <3>2, <3>3 DEF Remarks
  <2>4. CASE edit[e].pc # "option"
    BY <2>1, <2>4 DEF Writes, Remarks
  <2>. QED
    BY <2>3, <2>4
<1>2. ASSUME NEW q \in Quotes, NEW status \in StatusEdits, SetStatus(q, status)
      PROVE  Remarks(p)
  BY <1>2, StatusSet DEF Remarks
<1>3. ASSUME UNCHANGED quote PROVE Remarks(p)
  BY <1>3 DEF Remarks
<1>. QED
  BY <1>1, <1>2, <1>3, SerialSteps

LEMMA NothingIsStale ==
  ASSUME OneAtATime
  PROVE  Spec => []NothingStale
<1>1. Init => NothingStale
  BY InitQuotes DEF NothingStale
<1>2. Shape /\ NothingStale /\ [Next]_vars => NothingStale'
  <2>1. ASSUME NothingStale, UNCHANGED quoteVars PROVE NothingStale'
    BY <2>1 DEF quoteVars, NothingStale, Current, StillSo
  <2>. QED
    BY <2>1, SerialNothingStale DEF Next, vars
<1>. QED
  BY ShapeHolds, <1>1, <1>2, PTL DEF Spec

\* "Exactly one recommendation", for requests served one at a time: whatever a
\* quote was created with, marking an option unmarks every other, and no edit
\* gives a quote with one recommendation a second.
THEOREM OneIsMarked ==
  ASSUME OneAtATime
  PROVE  Spec => MarkingIsSole
<1>1. Shape /\ NothingStale /\ [Next]_vars => [\A q \in Quotes : Remarks(q)]_vars
  <2>1. ASSUME UNCHANGED quoteVars PROVE \A q \in Quotes : Remarks(q)
    BY <2>1 DEF quoteVars, Remarks
  <2>. QED
    BY <2>1, SerialMarks DEF Next, vars
<1>. QED
  BY ShapeHolds, NothingIsStale, <1>1, PTL DEF Spec, MarkingIsSole, Remarks

-------------------------------------------------------------------------------
\* Nobody accepts a quote through PATCH /quotes/{id}/status.
NotAcceptedByHand == "accepted" \notin StatusEdits

LEMMA SerialKeeps ==
  ASSUME Shape, NothingStale, KeepInv, NotAcceptedByHand, OneAtATime,
         UNCHANGED today, QuoteNext
  PROVE  KeepInv'
<1>1. ASSUME NEW e \in Editors, Written(e), \A f \in Editors : f = e /\ edit'[f] = Unused
      PROVE  KeepInv'
  <2>1. PICK q \in Quotes :
          /\ q = edit[e].quote
          /\ Writes(edit[e], quote[q], quote'[q])
          /\ \A p \in Quotes \ {q} : quote'[p] = quote[p]
    BY <1>1, WrittenRow
  <2>2. /\ edit[e].pc \in EditPhases \ {"idle", "priced"}
        /\ StillSo(edit[e], quote[q])
        /\ edit[e].pc \in {"selecting", "accepting"} => edit[e].option \in Options
    BY <1>1, <2>1, UnderWay DEF Written, Edits, Knows, NothingStale, Current
  <2>3. edit[e].pc = "option" => quote[q].status # "accepted"
    BY <2>1 DEF KeepInv, NoneEdited, Current
  <2>4. quote'[q].status = "accepted" => quote'[q].selected # None
    BY <2>1, <2>2, <2>3, QuotingAssumption
    DEF EditPhases, Writes, StillSo, KeepInv, AcceptanceKeepsItsOption
  <2>5. NoneEdited'
    BY <1>1 DEF NoneEdited, Unused
  <2>. QED
    BY <2>1, <2>4, <2>5 DEF KeepInv, AcceptanceKeepsItsOption
<1>2. ASSUME NEW q \in Quotes, NEW e \in Editors, UNCHANGED quote, edit'[e].quote = q,
             Begun(edit'[e], quote[q]), \A f \in Editors : f = e
      PROVE  KeepInv'
  BY <1>2 DEF Begun, KeepInv, AcceptanceKeepsItsOption, NoneEdited, Current
<1>3. ASSUME NEW q \in Quotes, NEW status \in StatusEdits, SetStatus(q, status)
      PROVE  KeepInv'
  <2>1. UNCHANGED edit /\ status # "accepted"
    BY <1>3 DEF SetStatus, NotAcceptedByHand
  <2>2. \A p \in Quotes : quote'[p].status = "accepted" =>
                            /\ quote[p].status = "accepted"
                            /\ quote'[p].selected = quote[p].selected
    BY <1>3, <2>1, StatusSet
  <2>3. \A e \in Editors : edit[e].pc = "option" => edit[e].quote \in Quotes
    BY UnderWay
  <2>. QED
    BY <2>1, <2>2, <2>3 DEF KeepInv, AcceptanceKeepsItsOption, NoneEdited, Current
<1>4. ASSUME UNCHANGED quote, \A e \in Editors : edit'[e].pc = "option" =>
                                edit'[e] = edit[e]
      PROVE  KeepInv'
  BY <1>4 DEF KeepInv, AcceptanceKeepsItsOption, NoneEdited, Current
<1>. QED
  BY <1>1, <1>2, <1>3, <1>4, SerialSteps, OneAtATime DEF Unused

\* "Accepting is accepting an option": an accepted quote has its option on it
\* for good, for requests served one at a time, because an option is removed
\* from drafts only and a selection written names an option.
THEOREM AcceptedKeepsOption ==
  ASSUME OneAtATime, NotAcceptedByHand
  PROVE  Spec => []AcceptanceKeepsItsOption
<1>. DEFINE Inv == NothingStale /\ KeepInv
<1>1. Init => Inv
  BY InitQuotes DEF NothingStale, KeepInv, NoneEdited, AcceptanceKeepsItsOption
<1>2. Shape /\ Inv /\ [Next]_vars => Inv'
  <2>1. ASSUME Inv, UNCHANGED quoteVars PROVE Inv'
    BY <2>1 DEF quoteVars, NothingStale, KeepInv, NoneEdited, AcceptanceKeepsItsOption,
                Current, StillSo
  <2>. QED
    BY <2>1, SerialNothingStale, SerialKeeps DEF Next, vars
<1>3. Inv => AcceptanceKeepsItsOption
  BY DEF KeepInv
<1>. QED
  BY ShapeHolds, <1>1, <1>2, <1>3, PTL DEF Spec

-------------------------------------------------------------------------------
\* What a version covers it covers for good, while the options stay.
LEMMA CoverLasts ==
  ASSUME Shape, UNCHANGED today, QuoteNext, NEW q \in Quotes, NEW k \in Nat,
         CoveredBy(q, k), quote'[q].options = quote[q].options
  PROVE  CoveredBy(q, k)'
BY VersionsLast DEF CoveredBy

\* Versions are only appended.
LEMMA CoveredStays ==
  ASSUME Shape, UNCHANGED today, QuoteNext, NEW q \in Quotes, Covered(q),
         quote'[q].options = quote[q].options
  PROVE  Covered(q)'
<1>1. versions[q] \in Seq(Versions) /\ versions'[q] \in Seq(Versions)
  BY QuoteNextShape DEF Shape
<1>2. CoveredBy(q, Len(versions[q]))'
  BY <1>1, CoverLasts DEF Covered, CoveredBy
<1>. QED
  BY <1>1, <1>2 DEF Covered

\* An issued version shows every option there is.
LEMMA IssueCovers ==
  ASSUME Shape, NEW e \in Editors, NEW q \in Quotes, q = edit[e].quote,
         edit[e].pc = "frozen", Written(e),
         quote[q].options \subseteq Shown(edit[e].version)
  PROVE  Covered(q)'
<1>. DEFINE version == edit[e].version
            n == Len(versions[q]) + 1
<1>1. /\ version \in Versions
      /\ version.leads \in Options
      /\ versions' = [versions EXCEPT ![q] = Append(@, version)]
  BY UnderWay DEF Written, AppendVersion, Edits, Knows
<1>2. quote'[q].options = quote[q].options
  BY WrittenRow DEF Writes
<1>3. versions[q] \in Seq(Versions) /\ versions'[q] = Append(versions[q], version)
  BY <1>1 DEF Shape
<1>4. Issued(version)
  BY <1>1, QuotingAssumption DEF Issued
<1>. HIDE DEF version
<1>5. n \in DOMAIN versions'[q] /\ versions'[q][n] = version /\ n = Len(versions'[q])
  BY <1>1, <1>3
<1>6. quote'[q].options \subseteq Shown(version)
  BY <1>2 DEF version
<1>. QED
  BY <1>3, <1>4, <1>5, <1>6 DEF Covered, CoveredBy

LEMMA SerialShowsAll ==
  ASSUME Shape, IssuesShowAll, OneAtATime, UNCHANGED today, QuoteNext
  PROVE  IssuesShowAll'
<1>1. ASSUME NEW q \in Quotes, NEW e \in Editors, UNCHANGED quote, edit'[e].quote = q,
             Begun(edit'[e], quote[q]), AllPriced(edit'[e], quote[q], refused'[q]),
             \A f \in Editors : f = e
      PROVE  IssuesShowAll'
  <2>1. edit'[e].pc # "frozen"
    BY <1>1 DEF Begun
  <2>. QED
    BY <1>1, <2>1 DEF IssuesShowAll, Current
<1>2. ASSUME NEW e \in Editors, UNCHANGED <<quote, refused>>, edit[e].pc = "priced",
             edit'[e].pc = "frozen", edit'[e].quote = edit[e].quote,
             edit'[e].version.prices = edit[e].version.prices,
             edit'[e].version.refused = refused[edit[e].quote], \A f \in Editors : f = e
      PROVE  IssuesShowAll'
  <2>1. Current(e).options \subseteq DOMAIN edit[e].version.prices \cup refused[edit[e].quote]
    BY <1>2 DEF IssuesShowAll, AllPriced
  <2>. QED
    BY <1>2, <2>1 DEF IssuesShowAll, AllPriced, Current, Shown
<1>3. ASSUME \A e \in Editors : edit'[e].pc = "idle" PROVE IssuesShowAll'
  BY <1>3 DEF IssuesShowAll, AllPriced
<1>4. ASSUME UNCHANGED <<quote, refused>>,
             \A e \in Editors : edit'[e] = edit[e] \/ edit'[e] = Unused
      PROVE  IssuesShowAll'
  BY <1>4 DEF IssuesShowAll, AllPriced, Current, Unused
<1>5. ASSUME NEW q \in Quotes, NEW status \in StatusEdits, SetStatus(q, status)
      PROVE  IssuesShowAll'
  <2>1. \A p \in Quotes : quote'[p].options = quote[p].options
    BY <1>5, StatusSet
  <2>2. UNCHANGED <<edit, refused>>
    BY <1>5 DEF SetStatus
  <2>3. ASSUME NEW e \in Editors, edit[e].pc # "idle"
        PROVE  (Current(e).options)' = Current(e).options
    BY <2>1, <2>2, <2>3, UnderWay DEF Current
  <2>. QED
    BY <2>2, <2>3 DEF IssuesShowAll, AllPriced
<1>. QED
  BY <1>1, <1>2, <1>3, <1>4, <1>5, SerialSteps DEF Unused

\* What was agreed stays shown.
LEMMA ShownLasts ==
  ASSUME Shape, UNCHANGED today, QuoteNext, AcceptedWasShown, UNCHANGED agreed
  PROVE  AcceptedWasShown'
BY VersionsLast DEF AcceptedWasShown

LEMMA WrittenOffers ==
  ASSUME Shape, IssuesShowAll, OfferInv, UNCHANGED today, QuoteNext, NEW e \in Editors,
         Written(e), \A f \in Editors : f = e /\ edit'[f] = Unused
  PROVE  OfferInv'
<1>. DEFINE r == edit[e]
<1>1. PICK q \in Quotes :
        /\ q = r.quote
        /\ Writes(r, quote[q], quote'[q])
        /\ \A p \in Quotes \ {q} : quote'[p] = quote[p]
  BY WrittenRow
<1>2. /\ r.pc \in EditPhases \ {"idle", "priced"}
      /\ r.pc = "frozen" => quote[q].options \subseteq Shown(r.version)
      /\ r.pc \in {"accepting", "declining"} => Covered(q)
      /\ r.pc = "accepting" => /\ r.option \in quote[q].options
                               /\ CoveredBy(q, r.seen.current)
      /\ r.pc = "option" => quote[q].status = "draft"
  BY <1>1, UnderWay DEF Written, Edits, IssuesShowAll, Current, OfferInv, OffersCovered
<1>3. ASSUME quote'[q].status # "draft" PROVE Covered(q)'
  <2>1. CASE r.pc = "frozen"
    BY <1>1, <1>2, <2>1, IssueCovers
  <2>2. CASE r.pc # "frozen"
    <3>1. Covered(q)
      BY <1>1, <1>2, <1>3, <2>2 DEF EditPhases, Writes, OfferInv, OffersCovered
    <3>2. quote'[q].options = quote[q].options
      BY <1>1, <1>2, <1>3 DEF Writes
    <3>. QED
      BY <3>1, <3>2, CoveredStays
  <2>. QED
    BY <2>1, <2>2
<1>4. ASSUME NEW p \in Quotes, quote'[p].status # "draft" PROVE Covered(p)'
  BY <1>1, <1>3, <1>4, CoveredStays DEF OfferInv, OffersCovered
<1>5. OffersCovered'
  BY <1>4 DEF OffersCovered, Unused
<1>6. AcceptedWasShown'
  <2>1. CASE r.pc = "accepting"
    <3>1. agreed' = [agreed EXCEPT ![q] = @ \cup {Answer(r)}]
      BY <1>1, <2>1 DEF Written
    <3>2. PICK n \in DOMAIN versions[q] : /\ n <= r.seen.current
                                         /\ Issued(versions[q][n])
                                         /\ r.option \in Shown(versions[q][n])
      BY <1>2, <2>1 DEF CoveredBy
    <3>3. \A p \in Quotes : \A a \in agreed'[p] : a \in agreed[p] \/ (p = q /\ a = Answer(r))
      BY <3>1 DEF Shape
    <3>4. Answer(r).option = r.option /\ Answer(r).version = r.seen.current
      BY DEF Answer
    <3>5. \A p \in Quotes : \A a \in agreed'[p] :
            \E m \in DOMAIN versions[p] : /\ m <= a.version
                                         /\ Issued(versions[p][m])
                                         /\ a.option \in Shown(versions[p][m])
      BY <3>2, <3>3, <3>4 DEF OfferInv, AcceptedWasShown
    <3>. QED
      BY <3>5, VersionsLast DEF AcceptedWasShown
  <2>2. CASE r.pc # "accepting"
    BY <2>2, ShownLasts DEF Written, OfferInv
  <2>. QED
    BY <2>1, <2>2
<1>. QED
  BY <1>5, <1>6 DEF OfferInv

LEMMA SerialOffers ==
  ASSUME Shape, CurrentIsNewest, IssuesShowAll, OfferInv, OnlyReopened, OneAtATime,
         UNCHANGED today, QuoteNext
  PROVE  OfferInv'
<1>1. ASSUME NEW q \in Quotes, NEW e \in Editors, UNCHANGED <<quote, versions, agreed>>,
             edit'[e].quote = q, Begun(edit'[e], quote[q]), \A f \in Editors : f = e
      PROVE  OfferInv'
  <2>1. /\ edit'[e].pc = "option" => quote[q].status = "draft"
        /\ edit'[e].pc \in {"accepting", "declining"} => Covered(q)
        /\ edit'[e].pc = "accepting" => /\ edit'[e].option \in quote[q].options
                                        /\ CoveredBy(q, edit'[e].seen.current)
    BY <1>1 DEF Begun, OfferInv, OffersCovered, CurrentIsNewest, Covered
  <2>. QED
    BY <1>1, <2>1 DEF OfferInv, OffersCovered, AcceptedWasShown, Covered, CoveredBy, Current
<1>2. ASSUME NEW q \in Quotes, NEW status \in StatusEdits, SetStatus(q, status)
      PROVE  OfferInv'
  <2>1. UNCHANGED <<edit, versions, agreed>> /\ status = "draft"
    BY <1>2 DEF SetStatus, OnlyReopened
  <2>2. \A p \in Quotes : /\ quote'[p].options = quote[p].options
                          /\ quote'[p].status \in {quote[p].status, "draft"}
    BY <1>2, <2>1, StatusSet
  <2>3. \A e \in Editors : edit[e].pc # "idle" => edit[e].quote \in Quotes
    BY UnderWay
  <2>. QED
    BY <2>1, <2>2, <2>3
    DEF OfferInv, OffersCovered, AcceptedWasShown, Covered, CoveredBy, Current
<1>3. ASSUME UNCHANGED <<quote, versions, agreed>>,
             \A e \in Editors : edit'[e].pc \in {"option", "accepting", "declining"} =>
                                  edit'[e] = edit[e]
      PROVE  OfferInv'
  BY <1>3 DEF OfferInv, OffersCovered, AcceptedWasShown, Covered, CoveredBy, Current
<1>. QED
  BY <1>1, <1>2, <1>3, SerialSteps, WrittenOffers DEF Unused

\* What a client accepted was in a document sent before, priced or among what was
\* refused, for requests served one at a time: options are edited on drafts only,
\* and a draft goes out only with a version that prices or refuses every option.
THEOREM AcceptedOffersWereShown ==
  ASSUME OneAtATime, OnlyReopened
  PROVE  Spec => []AcceptedWasShown
<1>. DEFINE Inv == IssuesShowAll /\ OfferInv
<1>1. Init => Inv
  BY InitQuotes DEF IssuesShowAll, OfferInv, OffersCovered, AcceptedWasShown
<1>2. Shape /\ CurrentIsNewest /\ Inv /\ [Next]_vars => Inv'
  <2>1. ASSUME Inv, UNCHANGED quoteVars PROVE Inv'
    BY <2>1 DEF quoteVars, IssuesShowAll, OfferInv, OffersCovered, AcceptedWasShown,
                AllPriced, Covered, CoveredBy, Current
  <2>. QED
    BY <2>1, SerialShowsAll, SerialOffers DEF Next, vars
<1>3. Inv => AcceptedWasShown
  BY DEF OfferInv
<1>. QED
  BY ShapeHolds, CurrentIsAlwaysNewest, <1>1, <1>2, <1>3, PTL DEF Spec

==============================================================================
