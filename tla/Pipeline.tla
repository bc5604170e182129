------------------------------- MODULE Pipeline -------------------------------
(***************************************************************************)
(* Enquiries and the stages they move through (leads/service.py,           *)
(* leads/pipeline.py).  A stage is a row, and what it means is its flags.  *)
(* Days are too coarse for the stage history, which is read by its time:   *)
(* its moments are days of so many instants.                               *)
(***************************************************************************)
EXTENDS Clock, Requests, Sequences, FiniteSets

CONSTANTS
  Leads,
  Clients,         \* whom enquiries are from
  Stages,          \* [stage keys -> [default, won, lost: BOOLEAN]]
  NextActionDays,  \* next_action_default's days
  Instants,        \* moments of a day told apart (a bound)
  MostMoves        \* moves of one lead (a bound)

VARIABLES
  lead,     \* leads
  events    \* lead_stage_events, by lead: a set, and only its times order it

pipelineVars == <<lead, events>>

Keys == DOMAIN Stages
Terminal(k) == Stages[k].won \/ Stages[k].lost
Defaults == {k \in Keys : Stages[k].default}

\* A pipeline with nothing wrong with it: check_pipeline has nothing to say.
PipelineSound ==
  /\ Cardinality(Defaults) = 1
  /\ \E k \in Keys : Stages[k].won
  /\ \E k \in Keys : Stages[k].lost
  /\ \A k \in Keys : ~(Stages[k].won /\ Stages[k].lost)

\* The columns of a lead and of an event.
LeadRows ==
  [stage : Keys, since : Int, owned : BOOLEAN, next : Int \cup {None}, reason : BOOLEAN,
   client : Clients \cup {None}, contact : Int \cup {None}, inbound : Int \cup {None}]
EventRows == [from : Keys \cup {None}, to : Keys, at : Int]

ASSUME PipelineAssumption ==
  /\ PipelineSound
  /\ NextActionDays \in Nat
  /\ Instants \in Nat \ {0}
  /\ None \notin Int \cup Keys \cup Leads
  /\ None \notin LeadRows

Recorded == {l \in Leads : lead[l] # None}
Open == {l \in Recorded : ~Terminal(lead[l].stage)}

DayOf(at) == at \div Instants
FirstOf(day) == day * Instants
Moments(day) == FirstOf(day)..(FirstOf(day + 1) - 1)

\* The moments a lead's moves have been given, those not yet committed included.
Taken(l) == {e.at : e \in events[l]} \cup
            {work[s].at : s \in {t \in Sessions : /\ work[t] # None
                                                  /\ work[t].desk = "leads"
                                                  /\ work[t].lead = l}}

\* datetime.now(): no two moves of a lead at one moment.
IsNow(l, at) ==
  /\ \A moment \in Taken(l) : moment < at
  /\ at = FirstOf(today) \/ at - 1 \in Taken(l)

\* An enquiry lands at the stage it is given, or the default one, with something
\* scheduled.
NewLead(stage, next, owned, client) ==
  [stage |-> IF stage = None THEN CHOOSE k \in Defaults : TRUE ELSE stage,
   since |-> FirstOf(today), owned |-> owned,
   next |-> IF next = None THEN today + NextActionDays ELSE next,
   reason |-> FALSE, client |-> client, contact |-> None, inbound |-> None]

\* The arrival is an event of its history too.
Arrival(row) == [from |-> None, to |-> row.stage, at |-> row.since]

Create(l, stage, next, owned, client) ==
  /\ Quiet
  /\ lead[l] = None
  /\ LET row == NewLead(stage, next, owned, client)
     IN  /\ lead' = [lead EXCEPT ![l] = row]
         /\ events' = [events EXCEPT ![l] = {Arrival(row)}]
  /\ UNCHANGED work

\* The lead's own fields, whose it is and why it was lost among them; the stage
\* only moves.
Update(l, next, owned, reason, client) ==
  /\ Quiet
  /\ l \in Recorded
  /\ lead' = [lead EXCEPT ![l].next = next, ![l].owned = owned, ![l].reason = reason,
                          ![l].client = client]
  /\ UNCHANGED <<events, work>>

\* Backwards and back from the dead: only standing still is refused, and losing
\* it for no reason at all.
MayMoveTo(l, target, reason) ==
  /\ lead[l].stage # target
  /\ Stages[target].lost => reason \/ lead[l].reason

\* The time of the move is read before its commit.  A terminal stage clears the
\* next action, another leaves it unless it was given one.
BeginMove(s, l, target, reason, next, at) ==
  /\ l \in Recorded
  /\ Cardinality(events[l]) <= MostMoves
  /\ MayMoveTo(l, target, reason)
  /\ IsNow(l, at)
  /\ Decide(s, [desk |-> "leads", job |-> "move", lead |-> l, at |-> at, target |-> target,
                left |-> lead[l].stage, reason |-> reason, had |-> lead[l].next,
                next |-> IF Terminal(target) THEN None
                         ELSE IF next = None THEN lead[l].next ELSE next])
  /\ UNCHANGED pipelineVars

\* Mutant: every move is from the stage the lead arrived at.
FromArrival(job) ==
  [from |-> (CHOOSE e \in events[job.lead] : e.from = None).to, to |-> job.target,
   at |-> job.at]
MoveEvent(job) == [from |-> job.left, to |-> job.target, at |-> job.at]

\* The move and its event are one transaction; what differs from what was read is
\* written.
CommitMove(s) ==
  /\ work[s] # None
  /\ work[s].desk = "leads"
  /\ work[s].job = "move"
  /\ LET job == work[s]
         row == lead[job.lead]
     IN  /\ events' = [events EXCEPT ![job.lead] = @ \cup {MoveEvent(job)}]
         /\ lead' = [lead EXCEPT ![job.lead] =
              [row EXCEPT !.stage = job.target, !.since = job.at,
                          !.reason = @ \/ job.reason,
                          !.next = IF job.next = job.had THEN @ ELSE job.next]]
  /\ Done(s)

PipelineInit ==
  /\ lead = [l \in Leads |-> None]
  /\ events = [l \in Leads |-> {}]

\* Bounds: a move schedules tomorrow, or nothing; an update clears what was
\* scheduled; and an enquiry has its owner and no client yet.
PipelineNext ==
  \/ \E l \in Leads, stage \in Keys \cup {None} : Create(l, stage, None, TRUE, None)
  \/ \E l \in Leads, reason \in BOOLEAN :
       l \in Recorded /\ Update(l, None, lead[l].owned, reason, lead[l].client)
  \/ \E s \in Sessions, l \in Leads, k \in Keys, reason \in BOOLEAN,
        next \in {None, today + 1}, at \in Moments(today) : BeginMove(s, l, k, reason, next, at)
  \/ \E s \in Sessions : CommitMove(s)

==============================================================================
