-------------------------------- MODULE Review --------------------------------
(***************************************************************************)
(* Rate sheets from suppliers (supplier_docs/service.py): a sheet is       *)
(* uploaded, read into proposed rows, and the rows a reviewer accepts      *)
(* become rates.  The reading itself (pages, columns, currencies) is the   *)
(* choice of the rows it proposes; a proposed rate is the slot it would    *)
(* take: its room, board, residence, occupancy and first day.              *)
(***************************************************************************)
EXTENDS Requests, Sequences, SequencesExt, FiniteSets, Integers

CONSTANTS
  Docs,        \* uploads (a bound)
  Sheets,      \* their contents, by checksum
  Rows,        \* 1..n: proposed rows in all (a bound)
  Slots,       \* what a stored rate is for
  MostRead,    \* rows one reading proposes (a bound)
  MostDecided  \* decisions in one request (a bound)

DOCUMENT_STATUSES == {"uploaded", "extracting", "extracted", "reviewed", "failed"}
EXTRACTION_STATUSES == {"pending", "confirmed", "rejected"}

\* The columns of a document and of a proposed row.
DocRows == [sheet : Sheets, status : DOCUMENT_STATUSES]
ExtractionRows ==
  [doc : Docs, status : EXTRACTION_STATUSES, proposed : Slots, rate : Slots \cup {None}]

ASSUME ReviewAssumption ==
  /\ Rows \subseteq Nat
  /\ None \notin Docs \cup Sheets \cup Rows \cup Slots
  /\ None \notin DocRows \cup ExtractionRows

VARIABLES
  doc,    \* supplier_documents
  row,    \* supplier_document_extractions
  rates   \* accommodation_rates made from sheets, by slot: the row each came from

reviewVars == <<doc, row, rates>>

Uploaded == {d \in Docs : doc[d] # None}
Proposed == {r \in Rows : row[r] # None}
RowsOf(d) == {r \in Proposed : row[r].doc = d}
Pending(d) == {r \in RowsOf(d) : row[r].status = "pending"}

NewDoc(sheet) == [sheet |-> sheet, status |-> "uploaded"]
NewRow(d, slot) == [doc |-> d, status |-> "pending", proposed |-> slot, rate |-> None]

\* One sheet is uploaded once for a property, as far as this request can see.
BeginStore(s, d, sheet) ==
  /\ doc[d] = None
  /\ \A e \in Uploaded : doc[e].sheet # sheet
  /\ Decide(s, [desk |-> "review", job |-> "store", doc |-> d, sheet |-> sheet])
  /\ UNCHANGED reviewVars

CommitStore(s) ==
  /\ work[s] # None
  /\ work[s].job = "store"
  /\ doc[work[s].doc] = None
  /\ doc' = [doc EXCEPT ![work[s].doc] = NewDoc(work[s].sheet)]
  /\ Done(s)
  /\ UNCHANGED <<row, rates>>

-------------------------------------------------------------------------------
\* The rows still pending are dropped by their ids, whatever has become of them
\* by the commit, and what this reading found takes their place.
BeginExtract(s, d, found) ==
  /\ d \in Uploaded
  /\ Cardinality(Rows \ Proposed) >= Len(found)
  /\ Decide(s, [desk |-> "review", job |-> "extract", doc |-> d,
                stale |-> Pending(d), found |-> found])
  /\ UNCHANGED reviewVars

CommitExtract(s) ==
  /\ work[s] # None
  /\ work[s].job = "extract"
  /\ LET d == work[s].doc
         fresh == Rows \ Proposed
         found == work[s].found
         new == {r \in fresh : Cardinality({q \in fresh : q < r}) < Len(found)}
     IN  /\ Cardinality(fresh) >= Len(found)
         /\ row' = [r \in Rows |->
              IF r \in new THEN NewRow(d, found[1 + Cardinality({q \in new : q < r})])
              ELSE IF r \in work[s].stale THEN None ELSE row[r]]
         /\ doc' = [doc EXCEPT ![d].status = IF found = <<>> THEN "failed" ELSE "extracted"]
  /\ Done(s)
  /\ UNCHANGED rates

-------------------------------------------------------------------------------
\* A decision names a row and, where it accepts it, the slot it is to fill: the
\* one proposed, or the reviewer's correction.
Reject(r) == [row |-> r, accept |-> FALSE, slot |-> None]
Accept(r, slot) == [row |-> r, accept |-> TRUE, slot |-> slot]

\* A decision stands or fails by itself: it is on a row of this document that is
\* pending and not decided by one that stood before it, and for a slot no rate has.
\* Mutant: whatever was decided in an earlier request.
StandsAgain(d, decisions, i, before) ==
  /\ decisions[i].row \in RowsOf(d)
  /\ \A j \in before : decisions[j].row # decisions[i].row
  /\ decisions[i].accept => /\ rates[decisions[i].slot] = None
                            /\ \A j \in before : decisions[j].slot # decisions[i].slot
Stands(d, decisions, i, before) ==
  /\ decisions[i].row \in Pending(d)
  /\ \A j \in before : decisions[j].row # decisions[i].row
  /\ decisions[i].accept => /\ rates[decisions[i].slot] = None
                            /\ \A j \in before : decisions[j].slot # decisions[i].slot

\* The decisions that stand, each judged after those before it: one set of them.
StandingDecisions(d, decisions) ==
  {standing \in SUBSET DOMAIN decisions :
     \A i \in DOMAIN decisions :
       i \in standing <=> Stands(d, decisions, i, {j \in standing : j < i})}

\* What the query for pending rows sees: the session flushes only when a rate is
\* added, so it has the decisions made before the last accepted one.
\* Mutant: a decided row is one there was a decision on.
NotAddressed(d, decisions, standing) == Pending(d) \ {decisions[i].row : i \in DOMAIN decisions}
StillPending(d, decisions, standing) ==
  LET flushed == {i \in standing : \E j \in standing : j > i /\ decisions[j].accept}
  IN  Pending(d) \ {decisions[i].row : i \in flushed}

BeginConfirm(s, d, decisions) ==
  /\ d \in Uploaded
  /\ \E standing \in StandingDecisions(d, decisions) :
       Decide(s, [desk |-> "review", job |-> "confirm", doc |-> d,
                  decided |-> {decisions[i] : i \in standing},
                  reviewed |-> /\ StillPending(d, decisions, standing) = {}
                               /\ doc[d].status # "reviewed"])
  /\ UNCHANGED reviewVars

\* A row gone, or a slot taken, since they were read fails the whole request.
CommitConfirm(s) ==
  /\ work[s] # None
  /\ work[s].job = "confirm"
  /\ LET accepted == {c \in work[s].decided : c.accept}
         decision(r) == CHOOSE c \in work[s].decided : c.row = r
     IN  /\ \A c \in work[s].decided : c.row \in Proposed
         /\ \A c \in accepted : rates[c.slot] = None
         /\ row' = [r \in Rows |->
              IF \A c \in work[s].decided : c.row # r THEN row[r]
              ELSE IF decision(r).accept
                   THEN [row[r] EXCEPT !.status = "confirmed", !.rate = decision(r).slot]
                   ELSE [row[r] EXCEPT !.status = "rejected"]]
         /\ rates' = [k \in Slots |->
              IF \E c \in accepted : c.slot = k
              THEN (CHOOSE c \in accepted : c.slot = k).row ELSE rates[k]]
  /\ doc' = IF work[s].reviewed THEN [doc EXCEPT ![work[s].doc].status = "reviewed"] ELSE doc
  /\ Done(s)

ReviewInit ==
  /\ doc = [d \in Docs |-> None]
  /\ row = [r \in Rows |-> None]
  /\ rates = [k \in Slots |-> None]

Found == SeqOf(Slots, MostRead)
Decisions == {ds \in SeqOf({Reject(r) : r \in Rows} \cup {Accept(r, k) : r \in Rows, k \in Slots},
                           MostDecided) : ds # <<>>}

ReviewNext ==
  \/ \E s \in Sessions, d \in Docs, sheet \in Sheets : BeginStore(s, d, sheet)
  \/ \E s \in Sessions : CommitStore(s)
  \/ \E s \in Sessions, d \in Docs, found \in Found : BeginExtract(s, d, found)
  \/ \E s \in Sessions : CommitExtract(s)
  \/ \E s \in Sessions, d \in Docs, decisions \in Decisions : BeginConfirm(s, d, decisions)
  \/ \E s \in Sessions : CommitConfirm(s)

==============================================================================
