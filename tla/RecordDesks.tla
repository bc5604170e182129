----------------------------- MODULE RecordDesks -----------------------------
(***************************************************************************)
(* The desks that keep records rather than trips: enquiries and their      *)
(* contact log, the review of what is written, the review of rate sheets.  *)
(* None writes another's rows, so a behaviour follows one; "desk" says     *)
(* which.  The log is followed twice: three calls about a lead one at a    *)
(* time ("calls"), and fewer entries about more subjects ("log").          *)
(***************************************************************************)
EXTENDS Comms, Narratives, Review

CONSTANTS
  Followed,   \* the desks followed
  Fewer       \* the entries about any subject (a bound)

VARIABLES
  desk,
  agreed,    \* ghost: the text each approval was of
  unstamped, \* ghost: leads whose restamping was lost after its correction
  borrowed   \* ghost: the client's last words when a lead's timeline was last read

recordVars == <<today, work, serial, lead, events, entry, narrative, doc, row, rates,
                desk, agreed, unstamped, borrowed>>

\* The words that stand among some entries, and the last of them.
Standing(es, directions) ==
  {e \in es : ~entry[e].voided /\ entry[e].direction \in directions}
LastOf(es) == IF es = {} THEN None ELSE Max({entry[e].at : e \in es})

ClientsLast(l) ==
  [contact |-> LastOf(Standing(ClientEntries(l), {"inbound", "outbound"})),
   inbound |-> LastOf(Standing(ClientEntries(l), {"inbound"}))]
NothingBorrowed == [contact |-> None, inbound |-> None]

\* The log is followed from an enquiry some days old.
Init ==
  /\ desk \in Followed
  /\ RequestsInit /\ (serial \/ desk = "leads")
  /\ IF desk \in {"calls", "log"}
     THEN /\ today = Horizon
          /\ \E owned \in BOOLEAN, client \in Clients \cup {None} :
               lead = [l \in Leads |-> [NewLead(None, today + 1, owned, client) EXCEPT !.since = 0]]
          /\ events = [l \in Leads |-> {Arrival(lead[l])}]
     ELSE today = 0 /\ PipelineInit
  /\ CommsInit /\ NarrativesInit /\ ReviewInit
  /\ agreed = [n \in NarrativeIds |-> None]
  /\ unstamped = {}
  /\ borrowed = [l \in Leads |-> NothingBorrowed]

-------------------------------------------------------------------------------
LeadsDesk == /\ desk = "leads"
             /\ \/ PipelineNext /\ UNCHANGED today
                \/ Tick /\ UNCHANGED <<pipelineVars, work>>
             /\ UNCHANGED <<entry, narrative, reviewVars, agreed, unstamped, borrowed>>

\* A lead is given its client, or another, or none, while the log is kept.
ChangeClient(l, client) ==
  /\ l \in Recorded
  /\ Update(l, lead[l].next, lead[l].owned, lead[l].reason, client)
  /\ UNCHANGED entry

\* A repair reads the timeline of its lead.
Reads(s, l) == work[s] # None /\ work[s].job = "restamp" /\ work[s].lead = l /\ work'[s] # None

LogDesk == /\ \/ desk = "calls" /\ CommsNext(EntryIds, Leads)
              \/ desk = "log" /\ CommsNext(Fewer, Subjects)
              \/ desk = "log" /\ \E l \in Leads, client \in Clients \cup {None} : ChangeClient(l, client)
           /\ unstamped' = {l \in unstamped : \A s \in Sessions :
                work[s] # None /\ work[s].job = "stamps" /\ work[s].lead = l => work'[s] # None}
           /\ borrowed' = [l \in Leads |-> IF \E s \in Sessions : Reads(s, l) THEN ClientsLast(l)
                                           ELSE borrowed[l]]
           /\ UNCHANGED <<today, narrative, reviewVars, agreed>>

NarrativesDesk == /\ desk = "narratives" /\ NarrativesNext
                  /\ agreed' = [n \in NarrativeIds |->
                       IF n \in Kept /\ narrative'[n].status = "approved"
                            /\ narrative[n].status # "approved"
                       THEN narrative[n].text ELSE agreed[n]]
                  /\ UNCHANGED <<today, commsVars, reviewVars, unstamped, borrowed>>

ReviewDesk == /\ desk = "review" /\ ReviewNext
              /\ UNCHANGED <<today, commsVars, narrative, agreed, unstamped, borrowed>>

Failure == /\ \E s \in Sessions :
                /\ Abandon(s)
                /\ unstamped' = unstamped \cup
                     (IF desk \in {"calls", "log"} /\ work[s].job \in {"restamp", "stamps"}
                      THEN {work[s].lead} ELSE {})
           /\ UNCHANGED <<today, commsVars, narrative, reviewVars, agreed, borrowed>>

Next == /\ LeadsDesk \/ LogDesk \/ NarrativesDesk \/ ReviewDesk \/ Failure
        /\ UNCHANGED <<desk, serial>>

Spec == Init /\ [][Next]_recordVars

-------------------------------------------------------------------------------
\* "Everything worth reading comes from the history": however moves race, a lead
\* is where one of its recorded moves took it, since that move; it arrived once and
\* first; and every move left a stage it had been brought to.  One request at a
\* time, read by their times the moves are a path from its arrival to its stage.
Earlier(l, e) == {f \in events[l] : f.at < e.at}
JustBefore(l, e) == {f \in Earlier(l, e) : \A g \in Earlier(l, e) : g.at <= f.at}

HistoryIsAPath ==
  \A l \in Recorded :
    /\ \E e \in events[l] : e.to = lead[l].stage /\ e.at = lead[l].since
    /\ \E arrival \in events[l] :
         /\ arrival.from = None
         /\ \A e \in events[l] \ {arrival} :
              /\ e.from # e.to /\ e.at > arrival.at
              /\ \E f \in Earlier(l, e) : f.to = e.from
    /\ serial =>
         \A e \in events[l] :
           /\ e.from = None \/ \E f \in JustBefore(l, e) : f.to = e.from
           /\ e.at < lead[l].since \/ (e.at = lead[l].since /\ e.to = lead[l].stage)

\* The stamps are a copy of the log: one request at a time, and but for a repair
\* still owed, a lead's are the last words that stand among its own entries, or of
\* its client's, whoever that was, as they stood when its timeline was last read.
Stand(l, directions) == Standing(OwnEntries(l), directions)
Restamping(l) == \E s \in Sessions : work[s] # None /\ work[s].job \in {"restamp", "stamps"}
                                      /\ work[s].lead = l
LaterOfBoth(one, other) == IF other = None THEN one ELSE LaterOf(one, other)
StampsFollowTheLog ==
  serial => \A l \in Recorded \ unstamped : ~Restamping(l) =>
    /\ lead[l].contact = LaterOfBoth(LastOf(Stand(l, {"inbound", "outbound"})), borrowed[l].contact)
    /\ lead[l].inbound = LaterOfBoth(LastOf(Stand(l, {"inbound"})), borrowed[l].inbound)

\* "A lead nobody has scheduled anything for dies quietly": an open lead that is
\* on nobody's list this morning has somebody, has its next step still to come,
\* was in touch these last days, and has not left our last calls unanswered.
MorningListMissesNobody ==
  \A l \in Open \ NeedsAttention :
    LET words == Stand(l, {"inbound", "outbound"})
        after(e) == {f \in words : entry[f].direction = "outbound"
                                     /\ (entry[f].at > entry[e].at \/ (entry[f].at = entry[e].at /\ f > e))}
        replies == {e \in words : entry[e].direction = "inbound"}
    IN  /\ lead[l].owned /\ lead[l].next # None /\ lead[l].next > today
        /\ \E e \in words : today - entry[e].at < StaleAfterDays
        /\ \/ Cardinality(words) < ChaseThreshold
           \/ \E e \in replies : Cardinality(after(e)) < ChaseThreshold

\* "Approval is of a text, not of a row": one request at a time, once a text about
\* a subject has been approved there is exactly one to print, and it is the text
\* its approver approved.
ClientReadsWhatWasApproved ==
  serial => \A topic \in Topics :
    /\ Cardinality(InForce(topic)) <= 1
    /\ \A n \in InForce(topic) : narrative[n].text = agreed[n]
    /\ (\E n \in Kept : narrative[n].topic = topic /\ agreed[n] # None) => InForce(topic) # {}

\* One request at a time, every rate on file from a sheet is the one rate of one
\* row a reviewer confirmed, however often the sheet is read again.
RateHasItsRow ==
  serial =>
    /\ \A k \in Slots : rates[k] # None =>
         rates[k] \in Proposed /\ row[rates[k]].status = "confirmed" /\ row[rates[k]].rate = k
    /\ \A r \in Proposed : row[r].status = "confirmed" <=> row[r].rate # None
    /\ \A r \in Proposed : row[r].rate # None => rates[row[r].rate] = r

\* One request at a time, a document said to be reviewed has nothing pending.
ReviewedHasNothingPending ==
  serial => \A d \in Uploaded : doc[d].status = "reviewed" => Pending(d) = {}

==============================================================================
