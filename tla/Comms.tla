-------------------------------- MODULE Comms --------------------------------
(***************************************************************************)
(* The contact log (comms/service.py, comms/rules.py): what was said,      *)
(* about what, and the two stamps each lead keeps of it.  The entries of a *)
(* lead are its own, its quotes' and its bookings'; those about the client *)
(* it is of are read on its timeline but belong to no lead.                *)
(***************************************************************************)
EXTENDS Pipeline, SequencesExt

CONSTANTS
  EntryIds,         \* 1..n (a bound)
  Subjects,         \* leads, quotes, bookings and clients that are talked about
  Behind,           \* [Subjects -> Leads \cup {None}]: _lead_behind
  StaleAfterDays,   \* stale_after_days
  ChaseThreshold    \* chase_threshold

DIRECTIONS == {"inbound", "outbound", "internal"}

\* The columns of an entry.
EntryRows == [subject : Subjects, direction : DIRECTIONS, at : Int, voided : BOOLEAN]

\* A repair of a lead's stamps, before and after it has read the timeline.
Times == Int \cup {None}
RestampJobs == [desk : {"comms"}, job : {"restamp"}, lead : Leads]
StampJobs == [desk : {"comms"}, job : {"stamps"}, lead : Leads, read : LeadRows,
              stamped : [contact : Times, inbound : Times, chases : Nat]]

ASSUME CommsAssumption ==
  /\ EntryIds \subseteq Nat /\ IsFiniteSet(EntryIds)
  /\ Leads \subseteq Subjects
  /\ Behind \in [Subjects -> Leads \cup {None}]
  /\ Clients \subseteq Subjects /\ \A c \in Clients : Behind[c] = None
  /\ StaleAfterDays \in Int /\ ChaseThreshold \in Int
  /\ None \notin EntryRows
  /\ None \notin RestampJobs
  /\ None \notin StampJobs

VARIABLE entry   \* communications

commsVars == <<lead, events, entry>>

Logged == {e \in EntryIds : entry[e] # None}

\* What is said to or by the client, and has not been voided.
\* Mutant: voided or not.
Said(e) == entry[e].direction # "internal"
Counts(e) == entry[e].direction # "internal" /\ ~entry[e].voided

OwnEntries(l) == {e \in Logged : Behind[entry[e].subject] = l}
ClientEntries(l) == {e \in Logged : entry[e].subject \in Clients /\ entry[e].subject = lead[l].client}
Timeline(l) == OwnEntries(l) \cup ClientEntries(l)

\* In the order things happened; two things of one moment, as they were logged.
Before(e, f) == entry[e].at < entry[f].at \/ (entry[e].at = entry[f].at /\ e < f)
Ordered(es) ==
  CHOOSE order \in Surjection(1..Cardinality(es), es) :
    \A i, j \in DOMAIN order : i < j => Before(order[i], order[j])

Silence == [contact |-> None, inbound |-> None, chases |-> 0]

Tell(h, e) ==
  IF ~Counts(e) THEN h
  ELSE IF entry[e].direction = "inbound"
  THEN [contact |-> entry[e].at, inbound |-> entry[e].at, chases |-> 0]
  ELSE [h EXCEPT !.contact = entry[e].at, !.chases = @ + 1]

History(es) == FoldLeft(Tell, Silence, Ordered(es))

-------------------------------------------------------------------------------
\* Never into the future: it has not happened yet.
MayLog(at) == at <= today

NewEntry(x, direction, at) == [subject |-> x, direction |-> direction, at |-> at, voided |-> FALSE]

\* The later of two times, where the first may be none.
LaterOf(current, at) == IF current = None \/ at > current THEN at ELSE current

\* A call logged late does not move the stamps back; a note moves neither.
\* Mutant: an attempt that got no answer is not contact.
StampsWhenAnswered(row, direction, at) ==
  IF direction = "inbound"
  THEN [row EXCEPT !.contact = LaterOf(@, at), !.inbound = LaterOf(@, at)] ELSE row
Stamped(row, direction, at) ==
  CASE direction = "internal" -> row
    [] direction = "outbound" -> [row EXCEPT !.contact = LaterOf(@, at)]
    [] OTHER -> [row EXCEPT !.contact = LaterOf(@, at), !.inbound = LaterOf(@, at)]

\* The entry is checked, the lead behind it read, and what differs is written.
BeginLog(s, e, x, direction, at, next) ==
  /\ entry[e] = None
  /\ \A f \in EntryIds : entry[f] = None => e <= f
  /\ MayLog(at)
  /\ Behind[x] # None => Behind[x] \in Recorded
  /\ LET l == Behind[x] IN
     Decide(s, [desk |-> "comms", job |-> "log", lead |-> l, row |-> NewEntry(x, direction, at),
                read |-> IF l = None THEN None ELSE lead[l],
                stamped |-> IF l = None THEN None ELSE Stamped(lead[l], direction, at),
                next |-> next])
  /\ UNCHANGED commsVars

\* Only the columns whose value is not the one that was read.
Fresh(current, read, new) == IF new = read THEN current ELSE new

WithStamps(row, read, new) ==
  [row EXCEPT !.contact = Fresh(@, read.contact, new.contact),
              !.inbound = Fresh(@, read.inbound, new.inbound)]

\* What was said may schedule what comes next.
Scheduled(row, next) == [row EXCEPT !.next = IF next = None THEN @ ELSE next]

CommitLog(s) ==
  /\ work[s] # None
  /\ work[s].desk = "comms"
  /\ work[s].job = "log"
  /\ \E e \in EntryIds \ Logged :
       /\ \A f \in EntryIds \ Logged : e <= f
       /\ entry' = [entry EXCEPT ![e] = work[s].row]
  /\ LET job == work[s] IN
     lead' = IF job.lead = None THEN lead
             ELSE [lead EXCEPT ![job.lead] =
                    Scheduled(WithStamps(@, job.read, job.stamped), job.next)]
  /\ Done(s)
  /\ UNCHANGED events

-------------------------------------------------------------------------------
\* A correction is committed by itself, and then the stamps are rebuilt: the
\* request goes on to read the timeline, and to commit a second time.
Restamp(x) ==
  IF Behind[x] = None THEN None ELSE [desk |-> "comms", job |-> "restamp", lead |-> Behind[x]]

Amend(s, e, at) ==
  /\ work[s] = None /\ Quiet
  /\ e \in Logged /\ ~entry[e].voided
  /\ MayLog(at)
  /\ entry' = [entry EXCEPT ![e].at = at]
  /\ work' = [work EXCEPT ![s] = Restamp(entry[e].subject)]
  /\ UNCHANGED pipelineVars

Void(s, e) ==
  /\ work[s] = None /\ Quiet
  /\ e \in Logged /\ ~entry[e].voided
  /\ entry' = [entry EXCEPT ![e].voided = TRUE]
  /\ work' = [work EXCEPT ![s] = Restamp(entry[e].subject)]
  /\ UNCHANGED pipelineVars

\* The repair an operator may ask for.
BeginRecompute(s, l) ==
  /\ l \in Recorded
  /\ Decide(s, [desk |-> "comms", job |-> "restamp", lead |-> l])
  /\ UNCHANGED commsVars

FromLog(l) == History(Timeline(l))

ReadTimeline(s) ==
  /\ work[s] # None
  /\ work[s].desk = "comms"
  /\ work[s].job = "restamp"
  /\ work' = [work EXCEPT ![s] = [desk |-> "comms", job |-> "stamps", lead |-> work[s].lead,
                                  read |-> lead[work[s].lead], stamped |-> FromLog(work[s].lead)]]
  /\ UNCHANGED commsVars

CommitStamps(s) ==
  /\ work[s] # None
  /\ work[s].desk = "comms"
  /\ work[s].job = "stamps"
  /\ lead' = [lead EXCEPT ![work[s].lead] = WithStamps(@, work[s].read, work[s].stamped)]
  /\ Done(s)
  /\ UNCHANGED <<events, entry>>

-------------------------------------------------------------------------------
(***************************************************************************)
(* The morning list                                                        *)
(***************************************************************************)

\* attention: every reason an open lead needs looking at, from its own entries.
Attention(l) ==
  LET row == lead[l]
      said == History(OwnEntries(l))
      touched == IF said.contact = None THEN DayOf(row.since) ELSE said.contact
  IN  {code \in {"never_contacted", "no_next_action", "overdue", "due", "unowned",
                 "unanswered", "untouched"} :
         CASE code = "never_contacted" -> said.contact = None
           [] code = "no_next_action" -> row.next = None
           [] code = "overdue" -> row.next # None /\ row.next < today
           [] code = "due" -> row.next = today
           [] code = "unowned" -> ~row.owned
           [] code = "unanswered" -> said.chases >= ChaseThreshold
           [] code = "untouched" -> today - touched >= StaleAfterDays}

NeedsAttention == {l \in Open : Attention(l) # {}}

CommsInit == entry = [e \in EntryIds |-> None]

\* Bounds: at most so many entries, dated from the first day.
CommsNext(ids, subjects) ==
  \/ \E s \in Sessions, e \in ids, x \in subjects, d \in DIRECTIONS, at \in 0..today,
        next \in {None, today + 1} : BeginLog(s, e, x, d, at, next)
  \/ \E s \in Sessions : CommitLog(s) \/ ReadTimeline(s) \/ CommitStamps(s)
  \/ \E s \in Sessions, e \in ids, at \in 0..today : Amend(s, e, at)
  \/ \E s \in Sessions, e \in ids : Void(s, e)
  \/ \E s \in Sessions, l \in Leads : BeginRecompute(s, l)

==============================================================================
