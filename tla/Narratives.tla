------------------------------ MODULE Narratives ------------------------------
(***************************************************************************)
(* The review gate on what is written about a property or a destination    *)
(* (narratives/service.py): drafts, one approved text per subject, and the *)
(* texts it replaced.  Rows are numbered in the order they were written.   *)
(***************************************************************************)
EXTENDS Requests, Naturals

CONSTANTS
  NarrativeIds,   \* 1..n (a bound)
  Topics,       \* properties and destinations
  Authors,
  Texts

NARRATIVE_STATUSES == {"draft", "approved", "rejected"}

\* The columns of a row.
NarrativeRows ==
  [topic : Topics, status : NARRATIVE_STATUSES, text : Texts, author : Authors,
   reviewer : Authors \cup {None}, superseded : BOOLEAN]

ASSUME NarrativesAssumption ==
  /\ NarrativeIds \subseteq Nat
  /\ None \notin NarrativeIds \cup Authors \cup Texts
  /\ None \notin NARRATIVE_STATUSES
  /\ None \notin NarrativeRows

VARIABLE narrative

Kept == {n \in NarrativeIds : narrative[n] # None}

NewDraft(topic, text, author) ==
  [topic |-> topic, status |-> "draft", text |-> text, author |-> author,
   reviewer |-> None, superseded |-> FALSE]

Newest(rows) == IF rows = {} THEN None ELSE CHOOSE n \in rows : \A m \in rows : m <= n

InForce(topic) == {n \in Kept : /\ narrative[n].topic = topic
                                      /\ narrative[n].status = "approved"
                                      /\ ~narrative[n].superseded}

\* The one copy a client document may use.
Printable(topic) == Newest(InForce(topic))

\* The provider's words or an agent's own: the same draft on the same path.
Write(topic, text, author) ==
  /\ Quiet
  /\ \E n \in NarrativeIds \ Kept :
       /\ \A m \in NarrativeIds \ Kept : n <= m
       /\ narrative' = [narrative EXCEPT ![n] = NewDraft(topic, text, author)]
  /\ UNCHANGED work

\* Mutant: anything not rejected may be edited.
RevisableText(n) == narrative[n].status # "rejected"
Revisable(n) == narrative[n].status = "draft"

\* What a request is about to write; None is a column it leaves alone.
Edit(n, text, author) ==
  [desk |-> "narratives", on |-> n, text |-> text, author |-> author,
   status |-> None, reviewer |-> None, replaces |-> None]
Verdict(n, status, reviewer, replaces) ==
  [desk |-> "narratives", on |-> n, text |-> None, author |-> None,
   status |-> status, reviewer |-> reviewer, replaces |-> replaces]

BeginRevise(s, n, text, editor) ==
  /\ n \in Kept
  /\ Revisable(n)
  /\ Decide(s, Edit(n, text, editor))
  /\ UNCHANGED narrative

\* Approving an approved text changes nothing, and a rejected one is refused.
BeginApprove(s, n, reviewer) ==
  /\ n \in Kept
  /\ narrative[n].status = "draft"
  /\ Decide(s, Verdict(n, "approved", reviewer, Printable(narrative[n].topic)))
  /\ UNCHANGED narrative

\* Rejecting a rejected one again changes who did.
BeginReject(s, n, reviewer) ==
  /\ n \in Kept
  /\ narrative[n].status # "approved"
  /\ Decide(s, Verdict(n, IF narrative[n].status = "draft" THEN "rejected" ELSE None,
                       reviewer, None))
  /\ UNCHANGED narrative

\* The rows are written as they are now, but for the columns changed.
OrElse(column, value) == IF value = None THEN column ELSE value

CommitReview(s) ==
  /\ work[s] # None
  /\ work[s].desk = "narratives"
  /\ LET job == work[s] IN
     narrative' =
       [n \in NarrativeIds |->
         IF n = job.on
         THEN [narrative[n] EXCEPT !.text = OrElse(@, job.text), !.author = OrElse(@, job.author),
                                   !.status = OrElse(@, job.status),
                                   !.reviewer = OrElse(@, job.reviewer)]
         ELSE IF job.replaces # None /\ n = job.replaces
         THEN [narrative[n] EXCEPT !.superseded = TRUE]
         ELSE narrative[n]]
  /\ Done(s)

NarrativesInit == narrative = [n \in NarrativeIds |-> None]

NarrativesNext ==
  \/ \E topic \in Topics, text \in Texts, a \in Authors : Write(topic, text, a)
  \/ \E s \in Sessions, n \in NarrativeIds, text \in Texts, a \in Authors : BeginRevise(s, n, text, a)
  \/ \E s \in Sessions, n \in NarrativeIds, a \in Authors : BeginApprove(s, n, a) \/ BeginReject(s, n, a)
  \/ \E s \in Sessions : CommitReview(s)

==============================================================================
