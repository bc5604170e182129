------------------------------ MODULE TripProofs ------------------------------
(***************************************************************************)
(* Theorems about the desks of a trip for any number of requests, rows,    *)
(* bookings and days.                                                      *)
(***************************************************************************)
EXTENDS TripDesks, SumProofs

-------------------------------------------------------------------------------
(***************************************************************************)
(* Requests                                                                *)
(***************************************************************************)

\* One at a time, where that is how they are served.
OnePending == serial => \A s, t \in Sessions : work[s] # None /\ work[t] # None => s = t

\* A request in flight was there before, or has just decided on a job of "name",
\* alone if that is how requests are served.
OnlyWork(name) ==
  /\ DOMAIN work' = Sessions
  /\ \A t \in Sessions : \/ work'[t] = work[t] \/ work'[t] = None
                         \/ work'[t].desk = name
  /\ OnePending /\ UNCHANGED serial => OnePending'

LEMMA WorkDone ==
  ASSUME DOMAIN work = Sessions, NEW s, Done(s)
  PROVE  /\ DOMAIN work' = Sessions
         /\ \A t \in Sessions : work'[t] = work[t] \/ work'[t] = None
         /\ s \in Sessions => work'[s] = None
BY DEF Done

LEMMA WorkDecided ==
  ASSUME DOMAIN work = Sessions, NEW s \in Sessions, NEW job, Decide(s, job)
  PROVE  /\ DOMAIN work' = Sessions
         /\ work'[s] = job /\ work[s] = None
         /\ \A t \in Sessions \ {s} : work'[t] = work[t]
         /\ serial => \A t \in Sessions : work[t] = None
BY DEF Decide, Quiet

LEMMA WorkKept ==
  ASSUME DOMAIN work = Sessions, NEW name, UNCHANGED work
  PROVE  OnlyWork(name)
BY DEF OnlyWork, OnePending

LEMMA DoneOnly ==
  ASSUME DOMAIN work = Sessions, NEW name, NEW s, Done(s)
  PROVE  OnlyWork(name)
BY WorkDone DEF OnlyWork, OnePending

LEMMA DecidedOnly ==
  ASSUME DOMAIN work = Sessions, NEW s \in Sessions, NEW job, Decide(s, job)
  PROVE  OnlyWork(job.desk)
BY WorkDecided DEF OnlyWork, OnePending

LEMMA FleetWork ==
  ASSUME DOMAIN work = Sessions, FleetNext
  PROVE  OnlyWork("fleet")
<1>1. ASSUME NEW s \in Sessions, NEW b \in Trip, NEW x \in Vehicles \cup CrewMembers,
             NEW asked \in Asked, NEW days \in AskedDays, NEW reason \in BOOLEAN,
             BeginAssign(s, b, x, asked, WindowAsked(b, days), reason)
      PROVE  OnlyWork("fleet")
  <2>. DEFINE job == [desk |-> "fleet",
                      row |-> AssignmentRow(b, x, RoleOf(x, asked), WindowAsked(b, days), reason)]
  <2>1. Decide(s, job) /\ job.desk = "fleet"
    BY <1>1 DEF BeginAssign
  <2>. HIDE DEF job
  <2>. QED
    BY <2>1, DecidedOnly
<1>2. ASSUME NEW s \in Sessions, CommitAssign(s)
      PROVE  OnlyWork("fleet")
  BY <1>2, DoneOnly DEF CommitAssign
<1>3. ASSUME \/ \E a \in AssignmentIds : Release(a)
             \/ \E c \in CrewMembers, row \in CrewRows : UpdateCrew(c, row)
             \/ \E v \in Vehicles : UpdateVehicle(v)
      PROVE  OnlyWork("fleet")
  BY <1>3, WorkKept DEF Release, UpdateCrew, UpdateVehicle
<1>. QED
  BY <1>1, <1>2, <1>3 DEF FleetNext

LEMMA LogsWork ==
  ASSUME DOMAIN work = Sessions, LogsNext
  PROVE  OnlyWork("logs")
<1>1. ASSUME NEW s \in Sessions, NEW a \in AssignmentIds, NEW km \in Readings,
             BeginOpen(s, a, km)
      PROVE  OnlyWork("logs")
  <2>. DEFINE job == [desk |-> "logs", on |-> a, row |-> NewLog(assignment[a].subject, km)]
  <2>1. Decide(s, job) /\ job.desk = "logs"
    BY <1>1 DEF BeginOpen
  <2>. HIDE DEF job
  <2>. QED
    BY <2>1, DecidedOnly
<1>2. ASSUME NEW s \in Sessions, CommitOpen(s)
      PROVE  OnlyWork("logs")
  BY <1>2, DoneOnly DEF CommitOpen
<1>3. ASSUME \/ \E a \in AssignmentIds, km \in Readings : Close(a, km)
             \/ \E a \in AssignmentIds, litres \in Litres, c \in Currencies : Fill(a, litres, c)
             \/ \E a \in AssignmentIds : ReleaseWithLog(a)
      PROVE  OnlyWork("logs")
  BY <1>3, WorkKept DEF Close, Fill, ReleaseWithLog, Release
<1>. QED
  BY <1>1, <1>2, <1>3 DEF LogsNext

LEMMA MoveWork ==
  ASSUME DOMAIN work = Sessions, NEW s \in Sessions, NEW r, NEW target, NEW given,
         BeginMove(s, r, target, given)
  PROVE  OnlyWork("supply")
<1>. DEFINE job == [desk |-> "supply", on |-> r, target |-> target,
                    given |-> IF target = "confirmed" THEN given ELSE None]
<1>1. Decide(s, job) /\ job.desk = "supply"
  BY DEF BeginMove
<1>. HIDE DEF job
<1>. QED
  BY <1>1, DecidedOnly

LEMMA SupplyWork ==
  ASSUME DOMAIN work = Sessions, SupplyMoves(Contested) \/ SupplyBills
  PROVE  OnlyWork("supply")
<1>1. ASSUME NEW s \in Sessions, NEW r, NEW target, NEW given, BeginMove(s, r, target, given)
      PROVE  OnlyWork("supply")
  BY <1>1, MoveWork
<1>2. ASSUME NEW s \in Sessions, CommitMove(s)
      PROVE  OnlyWork("supply")
  BY <1>2, DoneOnly DEF CommitMove
<1>3. ASSUME NEW rows, NEW deadlines, Adds(rows, deadlines)
      PROVE  OnlyWork("supply")
  BY <1>3, WorkKept DEF Adds, Add
<1>4. ASSUME NEW r, NEW amount, Invoice(r, amount) \/ Settle(r, amount)
      PROVE  OnlyWork("supply")
  BY <1>4, WorkKept DEF Invoice, Settle
<1>. QED
  BY <1>1, <1>2, <1>3, <1>4 DEF SupplyMoves, SupplyBills

LEMMA PortalWork ==
  ASSUME DOMAIN work = Sessions, PortalNext
  PROVE  OnlyWork("portal")
<1>1. ASSUME NEW s \in Sessions, NEW g \in Grants, BeginVisit(s, g)
      PROVE  OnlyWork("portal")
  <2>. DEFINE job == [desk |-> "portal", on |-> g, views |-> grant[g].views + 1]
  <2>1. Decide(s, job) /\ job.desk = "portal"
    BY <1>1 DEF BeginVisit
  <2>. HIDE DEF job
  <2>. QED
    BY <2>1, DecidedOnly
<1>2. ASSUME NEW s \in Sessions, CommitVisit(s)
      PROVE  OnlyWork("portal")
  BY <1>2, DoneOnly DEF CommitVisit
<1>3. ASSUME \/ \E g \in Grants, b \in Trip, asked \in {None, today, today + 1} : Issue(g, b, asked)
             \/ \E g \in Grants : Revoke(g)
      PROVE  OnlyWork("portal")
  BY <1>3, WorkKept DEF Issue, Revoke
<1>. QED
  BY <1>1, <1>2, <1>3 DEF PortalNext

-------------------------------------------------------------------------------
(***************************************************************************)
(* Links                                                                   *)
(***************************************************************************)

IsGrant(g) == g \in Grants /\ grant[g] \in GrantRows

\* A link issued without a date lasts the trip and the days after, and a visit
\* under way is to a link there is.
PortalInv ==
  /\ today \in Int
  /\ DOMAIN grant = Grants /\ DOMAIN work = Sessions
  /\ \A g \in Grants : grant[g] \in GrantRows \cup {None}
  /\ \A g \in undated : IsGrant(g) /\ grant[g].expires >= Departs[grant[g].booking] + DaysAfter
  /\ \A s \in Sessions : work[s] # None /\ work[s].desk = "portal" =>
       IsGrant(work[s].on) /\ work[s].views \in Nat

LEMMA DefaultExpiryLasts ==
  ASSUME NEW b \in Trip, today \in Int
  PROVE  DefaultExpiry(b) \in Int /\ DefaultExpiry(b) >= Departs[b] + DaysAfter
BY TripsAssumption, PortalAssumption DEF DefaultExpiry

LEMMA PortalInit0 == Init => PortalInv
<1>. SUFFICES ASSUME Init PROVE PortalInv
  OBVIOUS
<1>1. today = 0 /\ undated = {}
  BY DEF Init
<1>2. DOMAIN grant = Grants /\ \A g \in Grants : grant[g] = None
  BY DEF Init, PortalInit
<1>3. DOMAIN work = Sessions /\ \A s \in Sessions : work[s] = None
  BY DEF Init, RequestsInit
<1>. QED
  BY <1>1, <1>2, <1>3 DEF PortalInv

\* A step that leaves the links alone, and decides on no visit.
LEMMA PortalQuietStep ==
  ASSUME PortalInv, UNCHANGED <<grant, undated>>, today' \in Int,
         DOMAIN work' = Sessions,
         \A s \in Sessions : \/ work'[s] = work[s] \/ work'[s] = None
                             \/ work'[s].desk # "portal"
  PROVE  PortalInv'
BY DEF PortalInv, IsGrant

\* A step elsewhere leaves the links alone.
LEMMA ElsewhereWork ==
  ASSUME DOMAIN work = Sessions, Elsewhere \/ Failure, NEW name
  PROVE  OnlyWork(name)
<1>1. ASSUME Elsewhere PROVE OnlyWork(name)
  BY <1>1, WorkKept DEF Elsewhere
<1>2. ASSUME NEW s \in Sessions, Abandon(s) PROVE OnlyWork(name)
  BY <1>2, DoneOnly DEF Abandon
<1>. QED
  BY <1>1, <1>2 DEF Failure

LEMMA PortalUntouched ==
  ASSUME PortalInv, FleetDesk \/ LogsDesk \/ SupplyDesk \/ Elsewhere \/ Failure
  PROVE  PortalInv'
<1>1. DOMAIN work = Sessions /\ today \in Int
  BY DEF PortalInv
<1>2. UNCHANGED <<grant, undated>>
  BY DEF FleetDesk, LogsDesk, SupplyDesk, Elsewhere, Failure
<1>3. today' \in Int
  BY <1>1 DEF FleetDesk, LogsDesk, SupplyDesk, Elsewhere, Failure, Tick
<1>4. \E name \in {"fleet", "logs", "supply"} : OnlyWork(name)
  BY <1>1, FleetWork, LogsWork, SupplyWork, ElsewhereWork DEF FleetDesk, LogsDesk, SupplyDesk
<1>5. DOMAIN work' = Sessions
  BY <1>4 DEF OnlyWork
<1>6. \A s \in Sessions : work'[s] = work[s] \/ work'[s] = None \/ work'[s].desk # "portal"
  BY <1>4 DEF OnlyWork
<1>. QED
  BY <1>2, <1>3, <1>5, <1>6, PortalQuietStep

\* A new link, of a booking and with a date as the code gives it one.
LEMMA IssueIsDated ==
  ASSUME PortalInv, NEW g \in Grants, NEW b \in Trip, NEW asked \in {None, today, today + 1},
         Issue(g, b, asked)
  PROVE  /\ grant[g] = None /\ grant'[g] \in GrantRows
         /\ DOMAIN grant' = Grants /\ \A h \in Grants \ {g} : grant'[h] = grant[h]
         /\ \/ grant'[g].expires \in {today, today + 1}
            \/ grant'[g].expires >= Departs[grant'[g].booking] + DaysAfter
<1>. DEFINE expires == IF asked # None THEN asked ELSE DefaultExpiry(b)
<1>1. today \in Int /\ DOMAIN grant = Grants
  BY DEF PortalInv
<1>2. expires \in Int /\ (expires \in {today, today + 1} \/ expires >= Departs[b] + DaysAfter)
  BY <1>1, DefaultExpiryLasts
<1>3. grant[g] = None /\ grant' = [grant EXCEPT ![g] = NewGrant(b, expires)]
  BY DEF Issue
<1>. HIDE DEF expires
<1>4. /\ NewGrant(b, expires) \in GrantRows
      /\ NewGrant(b, expires).expires = expires /\ NewGrant(b, expires).booking = b
  BY <1>2 DEF NewGrant, GrantRows
<1>. QED
  BY <1>1, <1>2, <1>3, <1>4

\* What withdrawing or visiting a link changes, its date is not.
LEMMA RowKeepsItsDate ==
  ASSUME NEW row \in GrantRows, NEW views \in Nat
  PROVE  /\ [row EXCEPT !.revoked = TRUE] \in GrantRows
         /\ [row EXCEPT !.revoked = TRUE].expires = row.expires
         /\ [row EXCEPT !.revoked = TRUE].booking = row.booking
         /\ [row EXCEPT !.views = views] \in GrantRows
         /\ [row EXCEPT !.views = views].expires = row.expires
         /\ [row EXCEPT !.views = views].booking = row.booking
BY DEF GrantRows

\* A step that changes one row, and neither its date nor its booking.
LEMMA PortalRowStep ==
  ASSUME PortalInv, NEW g, IsGrant(g), NEW row \in GrantRows,
         row.expires = grant[g].expires, row.booking = grant[g].booking,
         grant' = [grant EXCEPT ![g] = row], UNCHANGED <<today, undated>>,
         DOMAIN work' = Sessions,
         \A s \in Sessions : work'[s] = work[s] \/ work'[s] = None
  PROVE  PortalInv'
<1>1. /\ DOMAIN grant = Grants /\ g \in Grants /\ grant'[g] = row
      /\ \A h \in Grants \ {g} : grant'[h] = grant[h]
  BY DEF PortalInv, IsGrant
<1>2. DOMAIN grant' = Grants
  BY <1>1
<1>3. \A h : IsGrant(h) => IsGrant(h)' /\ grant'[h].expires = grant[h].expires
                                      /\ grant'[h].booking = grant[h].booking
  BY <1>1 DEF IsGrant
<1>. QED
  BY <1>1, <1>2, <1>3 DEF PortalInv

LEMMA PortalStep ==
  ASSUME PortalInv, PortalDesk
  PROVE  PortalInv'
<1>. DEFINE added == {g \in Grants \ Sent : grant'[g] # None /\ grant'[g].expires \notin {today, today + 1}}
<1>0. UNCHANGED today /\ undated' = undated \cup added /\ PortalNext
  BY DEF PortalDesk
<1>1. ASSUME NEW g \in Grants, NEW b \in Trip, NEW asked \in {None, today, today + 1},
             Issue(g, b, asked)
      PROVE  PortalInv'
  <2>1. UNCHANGED work
    BY <1>1 DEF Issue
  <2>2. /\ grant[g] = None /\ grant'[g] \in GrantRows
        /\ DOMAIN grant' = Grants /\ \A h \in Grants \ {g} : grant'[h] = grant[h]
        /\ \/ grant'[g].expires \in {today, today + 1}
           \/ grant'[g].expires >= Departs[grant'[g].booking] + DaysAfter
    BY <1>1, IssueIsDated
  <2>3. g \notin undated /\ added \subseteq {g}
    BY <2>2, PortalAssumption DEF PortalInv, IsGrant, Sent
  <2>4. \A h : IsGrant(h) => IsGrant(h)' /\ grant'[h] = grant[h]
    BY <2>2, PortalAssumption DEF IsGrant
  <2>5. \A h \in added : IsGrant(h)' /\ grant'[h].expires >= Departs[grant'[h].booking] + DaysAfter
    BY <2>2, <2>3 DEF IsGrant
  <2>. QED
    BY <1>0, <2>1, <2>2, <2>4, <2>5 DEF PortalInv
<1>2. ASSUME \A h \in Grants : grant[h] = None => grant'[h] = None
      PROVE  UNCHANGED undated
  BY <1>0, <1>2 DEF Sent
<1>3. ASSUME NEW g \in Grants, Revoke(g)
      PROVE  PortalInv'
  <2>. DEFINE row == [grant[g] EXCEPT !.revoked = TRUE]
  <2>1. IsGrant(g)
    BY <1>3 DEF Revoke, PortalInv, Sent, IsGrant
  <2>2. row \in GrantRows /\ row.expires = grant[g].expires /\ row.booking = grant[g].booking
    BY <2>1, RowKeepsItsDate DEF IsGrant
  <2>3. grant' = [grant EXCEPT ![g] = row] /\ UNCHANGED work
    BY <1>3 DEF Revoke
  <2>. HIDE DEF row
  <2>4. UNCHANGED undated
    BY <1>2, <2>1, <2>3, PortalAssumption DEF PortalInv, IsGrant
  <2>. QED
    BY <1>0, <2>1, <2>2, <2>3, <2>4, PortalRowStep DEF PortalInv
<1>4. ASSUME NEW s \in Sessions, NEW g \in Grants, BeginVisit(s, g)
      PROVE  PortalInv'
  <2>. DEFINE job == [desk |-> "portal", on |-> g, views |-> grant[g].views + 1]
  <2>1. IsGrant(g) /\ UNCHANGED grant /\ Decide(s, job)
    BY <1>4 DEF BeginVisit, PortalInv, Sent, IsGrant
  <2>2. job.on = g /\ job.views \in Nat
    BY <2>1 DEF IsGrant, GrantRows
  <2>3. UNCHANGED undated
    BY <1>2, <2>1
  <2>. HIDE DEF job
  <2>4. /\ DOMAIN work' = Sessions /\ work'[s] = job
        /\ \A t \in Sessions \ {s} : work'[t] = work[t]
    BY <2>1, WorkDecided DEF PortalInv
  <2>5. \A h : IsGrant(h)' <=> IsGrant(h)
    BY <2>1 DEF IsGrant
  <2>. QED
    BY <1>0, <2>1, <2>2, <2>3, <2>4, <2>5 DEF PortalInv
<1>5. ASSUME NEW s \in Sessions, CommitVisit(s)
      PROVE  PortalInv'
  <2>. DEFINE g == work[s].on
              row == [grant[g] EXCEPT !.views = work[s].views]
  <2>1. IsGrant(g) /\ work[s].views \in Nat
    BY <1>5 DEF CommitVisit, PortalInv
  <2>2. row \in GrantRows /\ row.expires = grant[g].expires /\ row.booking = grant[g].booking
    BY <2>1, RowKeepsItsDate DEF IsGrant
  <2>3. grant' = [grant EXCEPT ![g] = row] /\ Done(s)
    BY <1>5 DEF CommitVisit
  <2>. HIDE DEF row, g
  <2>4. UNCHANGED undated
    BY <1>2, <2>1, <2>3, PortalAssumption DEF PortalInv, IsGrant
  <2>5. DOMAIN work' = Sessions /\ \A t \in Sessions : work'[t] = work[t] \/ work'[t] = None
    BY <2>3, WorkDone DEF PortalInv
  <2>. QED
    BY <1>0, <2>1, <2>2, <2>3, <2>4, <2>5, PortalRowStep
<1>. QED
  BY <1>0, <1>1, <1>3, <1>4, <1>5 DEF PortalNext

\* A link sent without a date opens the trip until the group is home and for the
\* days after, whoever visits, withdraws or cancels meanwhile, for any number of
\* links, visits and bookings.
THEOREM LinksLast == Spec => []LinkLastsTheTrip
<1>1. PortalInv /\ [Next]_vars => PortalInv'
  <2>. SUFFICES ASSUME PortalInv, [Next]_vars PROVE PortalInv'
    OBVIOUS
  <2>1. CASE UNCHANGED vars
    BY <2>1, PortalQuietStep DEF vars, PortalInv
  <2>. QED
    BY <2>1, PortalUntouched, PortalStep DEF Next
<1>2. PortalInv => LinkLastsTheTrip
  <2>. SUFFICES ASSUME PortalInv, NEW g \in undated,
                       today <= Departs[grant[g].booking] + DaysAfter, ~grant[g].revoked,
                       status[grant[g].booking] # "cancelled"
                PROVE  Access(g) = "open"
    BY DEF LinkLastsTheTrip
  <2>1. today \in Int /\ grant[g] \in GrantRows
        /\ grant[g].expires >= Departs[grant[g].booking] + DaysAfter
    BY DEF PortalInv, IsGrant
  <2>2. ~(grant[g].expires < today)
    BY <2>1, TripsAssumption, PortalAssumption DEF GrantRows
  <2>. QED
    BY <2>2 DEF Access
<1>. QED
  BY PortalInit0, <1>1, <1>2, PTL DEF Spec

-------------------------------------------------------------------------------
(***************************************************************************)
(* Supplier bookings                                                       *)
(***************************************************************************)

IsSupply(r) == r \in SupplyIds /\ supply[r] \in SupplyRows
HasItsNumber(row) == row.status = "confirmed" => row.reference # None

\* Rows are whole; whatever is confirmed, or is about to be, has a number; and a
\* number once given is never taken off.
SupplyInv ==
  /\ today \in Int
  /\ DOMAIN supply = SupplyIds /\ DOMAIN work = Sessions
  /\ \A r \in SupplyIds : supply[r] \in SupplyRows \cup {None}
  /\ \A r : IsSupply(r) => HasItsNumber(supply[r])
  /\ \A s \in Sessions : work[s] # None /\ work[s].desk = "supply" =>
       /\ IsSupply(work[s].on)
       /\ work[s].target \in SUPPLY_STATUSES /\ work[s].given \in References \cup {None}
       /\ work[s].target = "confirmed" =>
            work[s].given # None \/ supply[work[s].on].reference # None

LEMMA SupplyInit0 == Init => SupplyInv
<1>. SUFFICES ASSUME Init PROVE SupplyInv
  OBVIOUS
<1>1. today = 0
  BY DEF Init
<1>2. DOMAIN supply = SupplyIds /\ \A r \in SupplyIds : supply[r] = None
  BY DEF Init, SupplyInit
<1>3. DOMAIN work = Sessions /\ \A s \in Sessions : work[s] = None
  BY DEF Init, RequestsInit
<1>. QED
  BY <1>1, <1>2, <1>3, SupplyAssumption DEF SupplyInv, IsSupply

\* A step that leaves the rows alone, and decides on no move.
LEMMA SupplyQuietStep ==
  ASSUME SupplyInv, UNCHANGED supply, today' \in Int,
         DOMAIN work' = Sessions,
         \A s \in Sessions : \/ work'[s] = work[s] \/ work'[s] = None
                             \/ work'[s].desk # "supply"
  PROVE  SupplyInv'
BY DEF SupplyInv, IsSupply

LEMMA SupplyUntouched ==
  ASSUME SupplyInv, FleetDesk \/ LogsDesk \/ PortalDesk \/ Elsewhere \/ Failure
  PROVE  SupplyInv'
<1>1. DOMAIN work = Sessions /\ today \in Int
  BY DEF SupplyInv
<1>2. UNCHANGED supply
  BY DEF FleetDesk, LogsDesk, PortalDesk, Elsewhere, Failure
<1>3. today' \in Int
  BY <1>1 DEF FleetDesk, LogsDesk, PortalDesk, Elsewhere, Failure, Tick
<1>4. \E name \in {"fleet", "logs", "portal"} : OnlyWork(name)
  BY <1>1, FleetWork, LogsWork, PortalWork, ElsewhereWork DEF FleetDesk, LogsDesk, PortalDesk
<1>5. DOMAIN work' = Sessions
  BY <1>4 DEF OnlyWork
<1>6. \A s \in Sessions : work'[s] = work[s] \/ work'[s] = None \/ work'[s].desk # "supply"
  BY <1>4 DEF OnlyWork
<1>. QED
  BY <1>2, <1>3, <1>5, <1>6, SupplyQuietStep

\* A step that writes one row, takes no number off it, and decides nothing.
LEMMA SupplyRowStep ==
  ASSUME SupplyInv, NEW r \in SupplyIds, NEW row \in SupplyRows, HasItsNumber(row),
         IsSupply(r) /\ supply[r].reference # None => row.reference # None,
         supply' = [supply EXCEPT ![r] = row], UNCHANGED today,
         DOMAIN work' = Sessions,
         \A s \in Sessions : work'[s] = work[s] \/ work'[s] = None
  PROVE  SupplyInv'
<1>1. /\ DOMAIN supply' = SupplyIds /\ supply'[r] = row
      /\ \A q \in SupplyIds \ {r} : supply'[q] = supply[q]
  BY DEF SupplyInv
<1>2. \A q : IsSupply(q) => IsSupply(q)' /\ (supply[q].reference # None => supply'[q].reference # None)
  BY <1>1 DEF IsSupply
<1>3. \A q : IsSupply(q)' => HasItsNumber(supply'[q])
  BY <1>1 DEF IsSupply, SupplyInv
<1>4. \A q \in SupplyIds : supply'[q] \in SupplyRows \cup {None}
  BY <1>1 DEF SupplyInv
<1>5. ASSUME NEW s \in Sessions, work'[s] # None, work'[s].desk = "supply"
      PROVE  /\ IsSupply(work[s].on)'
             /\ work'[s].target \in SUPPLY_STATUSES /\ work'[s].given \in References \cup {None}
             /\ work'[s].target = "confirmed" =>
                  work'[s].given # None \/ supply'[work'[s].on].reference # None
  <2>1. work'[s] = work[s] /\ work[s] # None
    BY <1>5
  <2>2. /\ IsSupply(work[s].on)
        /\ work[s].target \in SUPPLY_STATUSES /\ work[s].given \in References \cup {None}
        /\ work[s].target = "confirmed" =>
             work[s].given # None \/ supply[work[s].on].reference # None
    BY <1>5, <2>1 DEF SupplyInv
  <2>3. /\ work[s].on \in SupplyIds /\ supply'[work[s].on] \in SupplyRows
        /\ supply[work[s].on].reference # None => supply'[work[s].on].reference # None
    BY <2>2, <1>2 DEF IsSupply
  <2>. QED
    BY <2>1, <2>2, <2>3 DEF IsSupply
<1>. QED
  BY <1>1, <1>3, <1>4, <1>5 DEF SupplyInv

LEMMA AddStep ==
  ASSUME SupplyInv, UNCHANGED today, NEW r \in SupplyIds, NEW b \in Trip, NEW c \in Money,
         NEW expected \in Budgets, NEW confirmBy \in Deadlines \cup {None},
         Add(r, b, c, expected, confirmBy)
  PROVE  SupplyInv'
<1>. DEFINE row == NewSupply(b, c, expected, confirmBy)
<1>1. row \in SupplyRows /\ HasItsNumber(row)
  BY DEF NewSupply, SupplyRows, SUPPLY_STATUSES, HasItsNumber
<1>2. supply[r] = None /\ supply' = [supply EXCEPT ![r] = row] /\ UNCHANGED work
  BY DEF Add
<1>3. ~IsSupply(r)
  BY <1>2, SupplyAssumption DEF IsSupply
<1>. HIDE DEF row
<1>. QED
  BY <1>1, <1>2, <1>3, SupplyRowStep DEF SupplyInv

\* A bill or a payment is no matter of status or number.
LEMMA BillStep ==
  ASSUME SupplyInv, UNCHANGED today, NEW r \in SupplyIds, NEW amount \in Bills,
         Invoice(r, amount) \/ Settle(r, amount)
  PROVE  SupplyInv'
<1>1. supply[r] \in SupplyRows /\ HasItsNumber(supply[r]) /\ UNCHANGED work
  BY DEF Invoice, Settle, Bought, SupplyInv, IsSupply
<1>2. ASSUME NEW row \in SupplyRows
      PROVE  /\ [row EXCEPT !.invoiced = amount] \in SupplyRows
             /\ [row EXCEPT !.invoiced = amount].reference = row.reference
             /\ [row EXCEPT !.invoiced = amount].status = row.status
             /\ [row EXCEPT !.settled = amount] \in SupplyRows
             /\ [row EXCEPT !.settled = amount].reference = row.reference
             /\ [row EXCEPT !.settled = amount].status = row.status
  BY DEF SupplyRows
<1>3. \/ supply' = [supply EXCEPT ![r] = [supply[r] EXCEPT !.invoiced = amount]]
      \/ supply' = [supply EXCEPT ![r] = [supply[r] EXCEPT !.settled = amount]]
  BY DEF Invoice, Settle
<1>4. \E row \in SupplyRows : /\ supply' = [supply EXCEPT ![r] = row]
                              /\ row.reference = supply[r].reference /\ HasItsNumber(row)
  BY <1>1, <1>2, <1>3 DEF HasItsNumber
<1>. QED
  BY <1>1, <1>4, SupplyRowStep DEF SupplyInv

\* The row as it was read says the move is allowed; what it said of a number stays.
LEMMA BeginMoveStep ==
  ASSUME SupplyInv, UNCHANGED today, NEW s \in Sessions, NEW r \in SupplyIds,
         NEW target \in SUPPLY_STATUSES, NEW given \in References \cup {None},
         BeginMove(s, r, target, given)
  PROVE  SupplyInv'
<1>. DEFINE job == [desk |-> "supply", on |-> r, target |-> target,
                    given |-> IF target = "confirmed" THEN given ELSE None]
<1>1. IsSupply(r) /\ UNCHANGED supply /\ Decide(s, job)
  BY DEF BeginMove, Bought, SupplyInv, IsSupply
<1>2. /\ job.on = r /\ job.target = target /\ job.given \in References \cup {None}
      /\ target = "confirmed" => job.given # None \/ supply[r].reference # None
  BY DEF BeginMove, MayMove
<1>. HIDE DEF job
<1>3. /\ DOMAIN work' = Sessions /\ work'[s] = job
      /\ \A t \in Sessions \ {s} : work'[t] = work[t]
  BY <1>1, WorkDecided DEF SupplyInv
<1>4. \A q : IsSupply(q)' <=> IsSupply(q)
  BY <1>1 DEF IsSupply
<1>. QED
  BY <1>1, <1>2, <1>3, <1>4 DEF SupplyInv

LEMMA CommitMoveStep ==
  ASSUME SupplyInv, UNCHANGED today, NEW s \in Sessions, CommitMove(s)
  PROVE  SupplyInv'
<1>. DEFINE r == work[s].on
            number == IF work[s].given # None THEN work[s].given ELSE supply[r].reference
            moved == [supply[r] EXCEPT !.status = work[s].target]
            row == [moved EXCEPT !.reference = number]
<1>1. /\ IsSupply(r) /\ work[s].target \in SUPPLY_STATUSES /\ work[s].given \in References \cup {None}
      /\ work[s].target = "confirmed" => number # None
  BY SupplyAssumption DEF SupplyInv, CommitMove
<1>2. /\ moved \in SupplyRows /\ moved.status = work[s].target /\ moved.reference = supply[r].reference
      /\ number \in References \cup {None}
  BY <1>1 DEF IsSupply, SupplyRows
<1>. HIDE DEF moved, number
<1>3. row \in SupplyRows /\ row.status = work[s].target /\ row.reference = number
  BY <1>2 DEF SupplyRows
<1>. HIDE DEF row
<1>4. supply[r].reference # None => number # None
  BY DEF number
<1>. USE DEF moved, number, row
<1>5. supply' = [supply EXCEPT ![r] = row] /\ Done(s)
  <2>1. supply' = [supply EXCEPT ![r] = [[supply[r] EXCEPT !.status = work[s].target]
                                           EXCEPT !.reference = number]] /\ Done(s)
    BY <1>1 DEF CommitMove, SupplyInv, IsSupply
  <2>. QED
    BY <2>1
<1>. HIDE DEF moved, number, row, r
<1>6. DOMAIN work' = Sessions /\ \A t \in Sessions : work'[t] = work[t] \/ work'[t] = None
  BY <1>5, WorkDone DEF SupplyInv
<1>7. HasItsNumber(row)
  BY <1>1, <1>3 DEF HasItsNumber
<1>. QED
  BY <1>1, <1>3, <1>4, <1>5, <1>6, <1>7, SupplyRowStep DEF IsSupply

LEMMA SupplyStep ==
  ASSUME SupplyInv, SupplyDesk
  PROVE  SupplyInv'
<1>1. UNCHANGED today /\ (SupplyMoves(Contested) \/ SupplyBills)
  BY DEF SupplyDesk
<1>2. ASSUME NEW rows \in SUBSET SupplyIds, NEW deadlines \in SUBSET (Deadlines \cup {None}),
             Adds(rows, deadlines)
      PROVE  SupplyInv'
  BY <1>1, <1>2, AddStep DEF Adds
<1>3. CASE SupplyMoves(Contested)
  BY <1>1, <1>2, <1>3, BeginMoveStep, CommitMoveStep, ContestedAssumption DEF SupplyMoves
<1>4. CASE SupplyBills
  BY <1>1, <1>2, <1>4, BeginMoveStep, CommitMoveStep, BillStep DEF SupplyBills, SUPPLY_STATUSES
<1>. QED
  BY <1>1, <1>3, <1>4

LEMMA SupplyHolds == Spec => []SupplyInv
<1>1. SupplyInv /\ [Next]_vars => SupplyInv'
  <2>. SUFFICES ASSUME SupplyInv, [Next]_vars PROVE SupplyInv'
    OBVIOUS
  <2>1. CASE UNCHANGED vars
    BY <2>1, SupplyQuietStep DEF vars, SupplyInv
  <2>. QED
    BY <2>1, SupplyUntouched, SupplyStep DEF Next
<1>. QED
  BY SupplyInit0, <1>1, PTL DEF Spec

\* Once the day to have it held has come, a trip whose suppliers raise no concern is
\* confirmed by each of them with a number, however moves of one row race.
THEOREM SilentTripsAreHeld == Spec => []SilentTripIsHeld
<1>1. SupplyInv => SilentTripIsHeld
  <2>. SUFFICES ASSUME SupplyInv, NEW b \in Departures(ConfirmByDays), Unheld(b) = {},
                       NEW r \in BoughtFor(b), Live(r)
                PROVE  supply[r].status = "confirmed" /\ supply[r].reference # None
    BY DEF SilentTripIsHeld
  <2>1. today \in Int /\ IsSupply(r) /\ supply[r].booking = b /\ HasItsNumber(supply[r])
    BY DEF SupplyInv, BoughtFor, Bought, IsSupply
  <2>2. ShouldBeHeld(r)
    BY <2>1, TripsAssumption, SupplyAssumption DEF Departures, ShouldBeHeld
  <2>3. supply[r].status \notin {"to_request", "requested"}
    BY <2>1, <2>2 DEF Unheld, Unconfirmed
  <2>4. supply[r].status = "confirmed"
    BY <2>1, <2>3 DEF Live, IsSupply, SupplyRows, SUPPLY_STATUSES
  <2>. QED
    BY <2>1, <2>4 DEF HasItsNumber
<1>. QED
  BY SupplyHolds, <1>1, PTL

-------------------------------------------------------------------------------
(***************************************************************************)
(* Assignments                                                             *)
(***************************************************************************)

TripStatuses == {"provisional", "confirmed", "cancelled", "completed"}
IsWindow(w) == w.from \in Int /\ w.to \in Int

LEMMA OverlapsIsMutual ==
  ASSUME NEW w, NEW x, IsWindow(w), IsWindow(x)
  PROVE  Overlaps(w, x) <=> Overlaps(x, w)
<1>1. SharedDays(w, x) = SharedDays(x, w)
  BY DEF IsWindow, SharedDays, Sooner, Later
<1>. QED
  BY <1>1 DEF Overlaps, IsHandover

\* Two windows longer than a day that the code lets through share no day, or meet
\* with one beginning on the other's last.
LEMMA LetThroughIsApart ==
  ASSUME NEW w, NEW x, IsWindow(w), IsWindow(x), w.from < w.to, x.from < x.to, ~Overlaps(w, x)
  PROVE  ~Collide(w, x)
<1>1. CASE SharedDays(w, x) = 0
  BY <1>1 DEF Collide
<1>2. CASE SharedDays(w, x) > 0
  <2>1. SharedDays(w, x) = 1 /\ w.from # x.from /\ w.to # x.to
    BY <1>2 DEF Overlaps, IsHandover
  <2>2. w.to = x.from \/ x.to = w.from
    BY <2>1 DEF IsWindow, SharedDays, Sooner, Later
  <2>. QED
    BY <2>1, <2>2 DEF Collide, MeetEndToStart, IsWindow
<1>3. SharedDays(w, x) \in Nat
  BY DEF IsWindow, SharedDays, Sooner, Later
<1>. QED
  BY <1>1, <1>2, <1>3

TripShape ==
  /\ DOMAIN work = Sessions /\ DOMAIN assignment = AssignmentIds
  /\ status \in [Trip -> TripStatuses]
  /\ serial \in BOOLEAN

Held(row, held) == held.subject = row.subject /\ Running(held.booking)

\* A row about to be written was weighed against every row there is.
Weighed(row) ==
  row.override \/ \A a \in Assigned :
    Held(row, assignment[a]) => ~Overlaps(row.window, assignment[a].window)

FleetJob(s) == work[s] # None /\ work[s].desk = "fleet"

NoClash ==
  serial => \A a, c \in Assigned :
    /\ a # c /\ assignment[a].subject = assignment[c].subject
    /\ Running(assignment[a].booking) /\ Running(assignment[c].booking)
    => \/ assignment[a].override \/ assignment[c].override
       \/ ~Overlaps(assignment[a].window, assignment[c].window)

\* One request at a time no two rows clash, and the one being written clashes with
\* none of them.
FleetInv ==
  /\ TripShape
  /\ OnePending
  /\ \A a \in Assigned : IsAssignment(assignment[a])
  /\ \A s \in Sessions : FleetJob(s) =>
       IsAssignment(work[s].row) /\ (serial => Weighed(work[s].row))
  /\ NoClash

LEMMA FleetInit0 == Init => FleetInv
<1>. SUFFICES ASSUME Init PROVE FleetInv
  OBVIOUS
<1>1. /\ DOMAIN work = Sessions /\ serial \in BOOLEAN
      /\ \A s \in Sessions : work[s] = None
  BY DEF Init, RequestsInit
<1>2. status \in [Trip -> TripStatuses]
  BY DEF Init, TripsInit, TripStatuses
<1>3. CASE assignment = Committed
  <2>1. Assigned = {a \in AssignmentIds : Committed[a] # None}
    BY <1>3 DEF Assigned
  <2>. QED
    BY <1>1, <1>2, <1>3, <2>1, CommittedAssumption
       DEF FleetInv, TripShape, OnePending, FleetJob, NoClash
<1>4. CASE assignment = [a \in AssignmentIds |-> None]
  <2>1. Assigned = {} /\ DOMAIN assignment = AssignmentIds
    BY <1>4 DEF Assigned
  <2>. QED
    BY <1>1, <1>2, <2>1 DEF FleetInv, TripShape, OnePending, FleetJob, NoClash
<1>. QED
  BY <1>3, <1>4 DEF Init, FleetInit

\* A step that releases rows or ends bookings at most, and begins no assignment.
CalmStep ==
  /\ DOMAIN assignment' = AssignmentIds
  /\ \A a \in AssignmentIds : assignment'[a] = assignment[a] \/ assignment'[a] = None
  /\ status' \in [Trip -> TripStatuses]
  /\ \A b \in Trip : Running(b)' => Running(b)
  /\ \A s \in Sessions : \/ work'[s] = work[s] \/ work'[s] = None
                         \/ work'[s].desk # "fleet"

LEMMA CalmKeepsFleetInv ==
  ASSUME FleetInv, CalmStep, UNCHANGED serial, DOMAIN work' = Sessions, OnePending'
  PROVE  FleetInv'
<1>1. \A a \in Assigned' : a \in Assigned /\ assignment'[a] = assignment[a]
  BY DEF CalmStep, Assigned
<1>2. TripShape'
  BY DEF TripShape, CalmStep, FleetInv
<1>3. \A a \in Assigned' : IsAssignment(assignment'[a]) /\ assignment'[a].booking \in Trip
  BY <1>1 DEF FleetInv, IsAssignment
<1>4. \A a \in Assigned' : Running(assignment[a].booking)' => Running(assignment[a].booking)
  BY <1>1, <1>3 DEF CalmStep, Running
<1>5. ASSUME NEW s \in Sessions, FleetJob(s)'
      PROVE  IsAssignment(work'[s].row) /\ (serial => Weighed(work[s].row)')
  <2>1. FleetJob(s) /\ work'[s] = work[s]
    BY <1>5 DEF FleetJob, CalmStep
  <2>2. IsAssignment(work[s].row) /\ (serial => Weighed(work[s].row))
    BY <2>1 DEF FleetInv
  <2>3. Weighed(work[s].row) => Weighed(work[s].row)'
    BY <1>1, <1>4, <2>1 DEF Weighed, Held
  <2>. QED
    BY <2>1, <2>2, <2>3
<1>6. NoClash'
  BY <1>1, <1>4 DEF NoClash, FleetInv
<1>7. \A s \in Sessions : FleetJob(s)' =>
        IsAssignment(work[s].row)' /\ (serial' => Weighed(work[s].row)')
  BY <1>5 DEF IsAssignment
<1>. QED
  BY <1>2, <1>3, <1>6, <1>7 DEF FleetInv, IsAssignment

LEMMA MovingEnds ==
  ASSUME status \in [Trip -> TripStatuses], NEW b \in Trip, MoveBooking(b)
  PROVE  status' \in [Trip -> TripStatuses] /\ \A c \in Trip : Running(c)' => Running(c)
BY DEF MoveBooking, Running, ACTIVE, TripStatuses

LEMMA ReleaseIsCalm ==
  ASSUME TripShape, NEW a, Release(a)
  PROVE  CalmStep
BY DEF TripShape, Release, CalmStep, Running

LEMMA StillIsCalm ==
  ASSUME TripShape, UNCHANGED <<assignment, status>>,
         \A s \in Sessions : \/ work'[s] = work[s] \/ work'[s] = None
                             \/ work'[s].desk # "fleet"
  PROVE  CalmStep
BY DEF TripShape, CalmStep, Running

LEMMA OtherDesksAreCalm ==
  ASSUME FleetInv, UNCHANGED serial, LogsDesk \/ SupplyDesk \/ PortalDesk \/ Elsewhere \/ Failure
  PROVE  FleetInv'
<1>1. TripShape /\ OnePending /\ DOMAIN work = Sessions
  BY DEF FleetInv, TripShape
<1>2. \E name \in {"logs", "supply", "portal"} : OnlyWork(name)
  BY <1>1, LogsWork, SupplyWork, PortalWork, ElsewhereWork DEF LogsDesk, SupplyDesk, PortalDesk
<1>3. /\ DOMAIN work' = Sessions /\ OnePending'
      /\ \A s \in Sessions : work'[s] = work[s] \/ work'[s] = None \/ work'[s].desk # "fleet"
  BY <1>1, <1>2 DEF OnlyWork
<1>4. CASE LogsDesk
  <2>1. ASSUME NEW a \in AssignmentIds, ReleaseWithLog(a) PROVE CalmStep
    BY <2>1, <1>1, ReleaseIsCalm DEF ReleaseWithLog
  <2>2. CASE UNCHANGED <<assignment, status>>
    BY <2>2, <1>1, <1>3, StillIsCalm, CalmKeepsFleetInv
  <2>. QED
    BY <1>1, <1>3, <1>4, <2>1, <2>2, CalmKeepsFleetInv
       DEF LogsDesk, LogsNext, BeginOpen, CommitOpen, Close, Fill, fleetVars
<1>5. CASE SupplyDesk \/ PortalDesk \/ Failure
  <2>1. UNCHANGED assignment
    BY <1>5 DEF SupplyDesk, PortalDesk, Failure, fleetVars
  <2>2. UNCHANGED status
    BY <1>5 DEF SupplyDesk, SupplyMoves, SupplyBills, Adds, Add, BeginMove, CommitMove,
                Invoice, Settle, PortalDesk, PortalNext, Issue, Revoke, BeginVisit, CommitVisit, Failure
  <2>. QED
    BY <1>1, <1>3, <2>1, <2>2, StillIsCalm, CalmKeepsFleetInv
<1>6. CASE Elsewhere
  <2>1. UNCHANGED <<assignment, work>>
    BY <1>6 DEF Elsewhere, fleetVars
  <2>2. UNCHANGED status \/ \E b \in Trip : MoveBooking(b)
    BY <1>6 DEF Elsewhere
  <2>3. status' \in [Trip -> TripStatuses] /\ \A c \in Trip : Running(c)' => Running(c)
    BY <1>1, <2>2, MovingEnds DEF TripShape, Running
  <2>4. CalmStep
    BY <1>1, <2>1, <2>3 DEF CalmStep, TripShape
  <2>. QED
    BY <1>1, <1>3, <2>4, CalmKeepsFleetInv
<1>. QED
  BY <1>4, <1>5, <1>6

LEMMA AskedIsWindow ==
  ASSUME NEW b \in Trip, NEW days \in AskedDays
  PROVE  IsWindow(WindowAsked(b, days))
BY TripsAssumption, FleetAssumption DEF IsWindow, WindowAsked

\* What is decided on was weighed against the rows there are.
LEMMA BeginAssignStep ==
  ASSUME FleetInv, UNCHANGED serial, NEW s \in Sessions, NEW b \in Trip, NEW x, NEW asked,
         NEW days \in AskedDays, NEW reason \in BOOLEAN,
         BeginAssign(s, b, x, asked, WindowAsked(b, days), reason)
  PROVE  FleetInv'
<1>. DEFINE w == WindowAsked(b, days)
            row == AssignmentRow(b, x, RoleOf(x, asked), w, reason)
            job == [desk |-> "fleet", row |-> row]
<1>1. IsWindow(w)
  BY AskedIsWindow
<1>. HIDE DEF w
<1>2. IsAssignment(row) /\ row.subject = x /\ row.window = w /\ row.override = reason
  BY <1>1 DEF AssignmentRow, IsAssignment, IsWindow
<1>3. reason = (Blocking(w, x) # {}) /\ Decide(s, job) /\ UNCHANGED <<assignment, status>>
  BY DEF BeginAssign, fleetVars, w
<1>. HIDE DEF row
<1>4. job.row = row
  OBVIOUS
<1>. HIDE DEF job
<1>5. Weighed(row)
  <2>. SUFFICES ASSUME ~row.override, NEW a \in Assigned, Held(row, assignment[a])
                PROVE  ~Overlaps(row.window, assignment[a].window)
    BY DEF Weighed
  <2>1. Blocking(w, x) = {}
    BY <1>2, <1>3
  <2>2. a \in HeldBy(x)
    BY <1>2 DEF Held, HeldBy
  <2>. QED
    BY <1>2, <2>1, <2>2 DEF Blocking
<1>6. /\ DOMAIN work' = Sessions /\ work'[s] = job /\ \A t \in Sessions \ {s} : work'[t] = work[t]
      /\ serial => \A t \in Sessions : work[t] = None
  BY <1>3, WorkDecided DEF FleetInv, TripShape
<1>7. OnePending' /\ TripShape'
  BY <1>3, <1>6 DEF OnePending, TripShape, FleetInv
<1>8. \A t \in Sessions : FleetJob(t)' =>
        IsAssignment(work[t].row)' /\ (serial' => Weighed(work[t].row)')
  <2>. SUFFICES ASSUME NEW t \in Sessions, FleetJob(t)'
                PROVE  IsAssignment(work[t].row)' /\ (serial' => Weighed(work[t].row)')
    OBVIOUS
  <2>1. CASE t = s
    BY <2>1, <1>2, <1>3, <1>4, <1>5, <1>6 DEF IsAssignment, Weighed, Held, Assigned, Running
  <2>2. CASE t # s
    <3>1. work'[t] = work[t] /\ FleetJob(t)
      BY <2>2, <1>6 DEF FleetJob
    <3>2. IsAssignment(work[t].row) /\ (serial => Weighed(work[t].row))
      BY <3>1 DEF FleetInv
    <3>. QED
      BY <1>3, <3>1, <3>2 DEF IsAssignment, Weighed, Held, Assigned, Running
  <2>. QED
    BY <2>1, <2>2
<1>9. (\A a \in Assigned : IsAssignment(assignment[a]))' /\ NoClash'
  BY <1>3 DEF FleetInv, NoClash, Assigned, Running, IsAssignment
<1>. QED
  BY <1>7, <1>8, <1>9 DEF FleetInv

\* The row weighed is written with nothing in between, and weighed both ways.
LEMMA CommitAssignStep ==
  ASSUME FleetInv, UNCHANGED serial, NEW s \in Sessions, CommitAssign(s)
  PROVE  FleetInv'
<1>. DEFINE row == work[s].row
<1>1. FleetJob(s) /\ Done(s) /\ UNCHANGED status /\ TripShape /\ OnePending
  BY DEF CommitAssign, FleetJob, FleetInv
<1>2. IsAssignment(row) /\ (serial => Weighed(row))
  BY <1>1 DEF FleetInv
<1>3. PICK a \in AssignmentIds \ Assigned : assignment' = [assignment EXCEPT ![a] = row]
  BY DEF CommitAssign
<1>. HIDE DEF row
<1>4. /\ DOMAIN assignment' = AssignmentIds /\ assignment'[a] = row
      /\ \A c \in AssignmentIds \ {a} : assignment'[c] = assignment[c]
  BY <1>1, <1>3 DEF TripShape
<1>5. \A c \in Assigned' : c = a \/ (c \in Assigned /\ assignment'[c] = assignment[c])
  BY <1>4 DEF Assigned
<1>6. DOMAIN work' = Sessions /\ \A t \in Sessions : work'[t] = work[t] \/ work'[t] = None
  BY <1>1, WorkDone DEF TripShape
<1>7. work'[s] = None
  BY <1>1, WorkDone DEF TripShape
<1>8. serial => \A t \in Sessions : work'[t] = None
  BY <1>1, <1>6, <1>7 DEF OnePending, FleetJob
<1>9. TripShape' /\ OnePending'
  BY <1>1, <1>4, <1>6, <1>8 DEF TripShape, OnePending
<1>10. \A t \in Sessions : FleetJob(t)' =>
         IsAssignment(work[t].row)' /\ (serial' => Weighed(work[t].row)')
  BY <1>6, <1>8 DEF FleetJob, FleetInv, IsAssignment
<1>11. (\A c \in Assigned : IsAssignment(assignment[c]))'
  BY <1>2, <1>4, <1>5 DEF FleetInv, IsAssignment
<1>12. ASSUME serial, NEW c \in Assigned, assignment[c].subject = row.subject,
              Running(assignment[c].booking)
       PROVE  \/ row.override
              \/ ~Overlaps(row.window, assignment[c].window) /\ ~Overlaps(assignment[c].window, row.window)
  <2>1. row.override \/ ~Overlaps(row.window, assignment[c].window)
    BY <1>2, <1>12 DEF Weighed, Held
  <2>2. IsWindow(row.window) /\ IsWindow(assignment[c].window)
    BY <1>2, <1>12 DEF FleetInv, IsAssignment, IsWindow
  <2>. QED
    BY <2>1, <2>2, OverlapsIsMutual
<1>13. NoClash'
  <2>. SUFFICES ASSUME serial, NEW c \in Assigned', NEW d \in Assigned', c # d,
                       assignment'[c].subject = assignment'[d].subject,
                       Running(assignment[c].booking)', Running(assignment[d].booking)'
                PROVE  \/ assignment'[c].override \/ assignment'[d].override
                       \/ ~Overlaps(assignment'[c].window, assignment'[d].window)
    BY DEF NoClash
  <2>1. Running(assignment'[c].booking) /\ Running(assignment'[d].booking)
    BY <1>1 DEF Running
  <2>2. CASE c = a
    BY <2>1, <2>2, <1>4, <1>5, <1>12
  <2>3. CASE d = a
    BY <2>1, <2>3, <1>4, <1>5, <1>12
  <2>4. CASE c # a /\ d # a
    BY <2>1, <2>4, <1>5 DEF FleetInv, NoClash
  <2>. QED
    BY <2>2, <2>3, <2>4
<1>. QED
  BY <1>9, <1>10, <1>11, <1>13 DEF FleetInv

LEMMA FleetStep ==
  ASSUME FleetInv, UNCHANGED serial, FleetDesk
  PROVE  FleetInv'
<1>1. FleetNext /\ TripShape /\ OnePending /\ DOMAIN work = Sessions
  BY DEF FleetDesk, FleetInv, TripShape
<1>2. DOMAIN work' = Sessions /\ OnePending'
  BY <1>1, FleetWork DEF OnlyWork
<1>3. ASSUME NEW a \in AssignmentIds, Release(a) PROVE FleetInv'
  BY <1>1, <1>2, <1>3, ReleaseIsCalm, CalmKeepsFleetInv
<1>4. ASSUME \/ \E c \in CrewMembers, row \in CrewRows : UpdateCrew(c, row)
             \/ \E v \in Vehicles : UpdateVehicle(v)
      PROVE  FleetInv'
  <2>1. UNCHANGED <<assignment, status, work>>
    BY <1>4 DEF UpdateCrew, UpdateVehicle
  <2>. QED
    BY <1>1, <1>2, <2>1, StillIsCalm, CalmKeepsFleetInv
<1>. QED
  BY <1>1, <1>3, <1>4, BeginAssignStep, CommitAssignStep DEF FleetNext

LEMMA FleetHolds == Spec => []FleetInv
<1>1. FleetInv /\ [Next]_vars => FleetInv'
  <2>. SUFFICES ASSUME FleetInv, [Next]_vars PROVE FleetInv'
    OBVIOUS
  <2>1. CASE UNCHANGED vars
    <3>1. UNCHANGED <<assignment, status, work, serial>>
      BY <2>1 DEF vars
    <3>2. TripShape /\ DOMAIN work' = Sessions /\ OnePending'
      BY <3>1 DEF FleetInv, TripShape, OnePending
    <3>. QED
      BY <3>1, <3>2, StillIsCalm, CalmKeepsFleetInv
  <2>2. CASE Next
    BY <2>2, OtherDesksAreCalm, FleetStep DEF Next
  <2>. QED
    BY <2>1, <2>2
<1>. QED
  BY FleetInit0, <1>1, PTL DEF Spec

LEMMA NobodyIsOut ==
  ASSUME FleetInv
  PROVE  NobodyOutTwice
<1>. SUFFICES ASSUME serial, NEW a \in Assigned, NEW c \in Assigned,
                     TwoOnOneDay(a, c), LongerThanADay(a), LongerThanADay(c),
                     ~Overridden(a), ~Overridden(c)
              PROVE  FALSE
  BY DEF NobodyOutTwice
<1>1. ~Overlaps(Out(a), Out(c))
  BY DEF FleetInv, NoClash, TwoOnOneDay, Overridden, Out
<1>2. IsWindow(Out(a)) /\ IsWindow(Out(c))
  BY DEF FleetInv, IsAssignment, IsWindow, Out
<1>. QED
  BY <1>1, <1>2, LetThroughIsApart DEF TwoOnOneDay, LongerThanADay

\* With requests served one at a time, no vehicle or person is out twice on a day,
\* however bookings end and assignments are released, unless a reason is on record:
\* for any windows longer than a day.
THEOREM NobodyIsOutTwice == Spec => []NobodyOutTwice
BY FleetHolds, NobodyIsOut, PTL

-------------------------------------------------------------------------------
(***************************************************************************)
(* Trip logs                                                               *)
(***************************************************************************)

LogRows == [vehicle : Vehicles, out : Readings, in : Readings \cup {None},
            fuel : [Currencies -> Nat]]

\* One of the two came back before the other left.
InOrder(x, y) == \/ x.in # None /\ x.in <= y.out
                 \/ y.in # None /\ y.in <= x.out

\* A log about to be opened goes on from every reading its vehicle came back with.
PendingContinues ==
  \A s \in Sessions : work[s] # None /\ work[s].desk = "logs" =>
    /\ work[s].row \in LogRows /\ work[s].row.in = None
    /\ serial => Continues(work[s].row.vehicle, work[s].row.out)

\* The logs of a vehicle are in order, the open ones included, but for the pairs
\* nothing kept in order.
LogsInv ==
  /\ log \in [AssignmentIds -> LogRows \cup {None}] /\ DOMAIN work = Sessions
  /\ OnePending /\ PendingContinues
  /\ serial => \A a, c \in Logged :
       a # c /\ log[a].vehicle = log[c].vehicle /\ {a, c} \notin apart
         => InOrder(log[a], log[c])
LEMMA OrderIsMutual ==
  ASSUME NEW x, NEW y
  PROVE  InOrder(x, y) <=> InOrder(y, x)
BY DEF InOrder

LEMMA LogsInit0 == Init => LogsInv
<1>. SUFFICES ASSUME Init PROVE LogsInv
  OBVIOUS
<1>1. /\ log \in [AssignmentIds -> LogRows \cup {None}]
      /\ \A a \in AssignmentIds : log[a] = None
  BY DEF Init, LogsInit
<1>2. DOMAIN work = Sessions /\ \A s \in Sessions : work[s] = None
  BY DEF Init, RequestsInit
<1>. QED
  BY <1>1, <1>2 DEF LogsInv, OnePending, PendingContinues, Logged

\* A step that leaves the logs alone, and decides on none.
LEMMA LogsQuietStep ==
  ASSUME LogsInv, UNCHANGED <<log, apart, serial>>,
         DOMAIN work' = Sessions, OnePending',
         \A s \in Sessions : \/ work'[s] = work[s] \/ work'[s] = None
                             \/ work'[s].desk # "logs"
  PROVE  LogsInv'
<1>1. PendingContinues'
  BY DEF LogsInv, PendingContinues, Continues, Closings, Closed, LogsOf, Logged
<1>. QED
  BY <1>1 DEF LogsInv, Logged, InOrder

LEMMA LogsUntouched ==
  ASSUME LogsInv, UNCHANGED serial,
         FleetDesk \/ SupplyDesk \/ PortalDesk \/ Elsewhere \/ Failure
  PROVE  LogsInv'
<1>1. DOMAIN work = Sessions /\ OnePending
  BY DEF LogsInv
<1>2. UNCHANGED <<log, apart>>
  BY DEF FleetDesk, SupplyDesk, PortalDesk, Elsewhere, Failure
<1>3. \E name \in {"fleet", "supply", "portal"} : OnlyWork(name)
  BY <1>1, FleetWork, SupplyWork, PortalWork, ElsewhereWork DEF FleetDesk, SupplyDesk, PortalDesk
<1>4. /\ DOMAIN work' = Sessions /\ OnePending'
      /\ \A s \in Sessions : work'[s] = work[s] \/ work'[s] = None \/ work'[s].desk # "logs"
  BY <1>1, <1>3 DEF OnlyWork
<1>. QED
  BY <1>2, <1>4, LogsQuietStep

\* Two logs not noted as apart were not so before, neither was opened beside the
\* other still open, and neither was closed again.
LEMMA NotedApart ==
  ASSUME Observe, NEW a, NEW c, log'[a] # None, log'[c] # None, {a, c} \notin apart'
  PROVE  /\ {a, c} \notin apart
         /\ a \in Opened => c \notin {d \in LogsOf(log'[a].vehicle) : log[d].in = None}
         /\ a \in ClosedAgain => c \notin LogsOf(log[a].vehicle) \ {a}
<1>. DEFINE opened(x) == {{x, d} : d \in {e \in LogsOf(log'[x].vehicle) : log[e].in = None}}
            closedAgain(x) == {{x, d} : d \in LogsOf(log[x].vehicle) \ {x}}
            noted == apart \cup (UNION {opened(x) : x \in Opened})
                           \cup (UNION {closedAgain(x) : x \in ClosedAgain})
<1>1. apart' = {p \in noted : \A x \in p : log'[x] # None}
  BY Zenon DEF Observe
<1>2. {a, c} \notin noted
  <2>. HIDE DEF noted
  <2>1. \A x \in {a, c} : log'[x] # None
    OBVIOUS
  <2>. QED
    BY <1>1, <2>1
<1>3. ASSUME a \in Opened, c \in {d \in LogsOf(log'[a].vehicle) : log[d].in = None}
      PROVE  FALSE
  <2>1. {a, c} \in opened(a)
    BY <1>3
  <2>. QED
    BY <1>2, <1>3, <2>1
<1>4. ASSUME a \in ClosedAgain, c \in LogsOf(log[a].vehicle) \ {a}
      PROVE  FALSE
  <2>1. {a, c} \in closedAgain(a)
    BY <1>4
  <2>. QED
    BY <1>2, <1>4, <2>1
<1>. QED
  BY <1>2, <1>3, <1>4

\* A step that writes one log, in order with the others of its vehicle.
LEMMA LogWritten ==
  ASSUME LogsInv, Observe, UNCHANGED serial, NEW n \in AssignmentIds,
         NEW row \in LogRows \cup {None}, log' = [log EXCEPT ![n] = row],
         DOMAIN work' = Sessions, OnePending', PendingContinues',
         serial /\ row # None => \A c \in Logged \ {n} :
           row.vehicle = log[c].vehicle /\ {n, c} \notin apart' => InOrder(row, log[c])
  PROVE  LogsInv'
<1>1. log'[n] = row /\ \A c \in AssignmentIds \ {n} : log'[c] = log[c]
  BY DEF LogsInv
<1>2. log' \in [AssignmentIds -> LogRows \cup {None}]
  BY DEF LogsInv
<1>3. ASSUME serial, NEW c \in AssignmentIds \ {n}, log'[c] # None, row # None,
             row.vehicle = log'[c].vehicle, {n, c} \notin apart'
      PROVE  InOrder(row, log'[c])
  BY <1>1, <1>3 DEF Logged
<1>4. ASSUME serial, NEW a \in AssignmentIds, NEW c \in AssignmentIds, a # c,
             log'[a] # None, log'[c] # None,
             log'[a].vehicle = log'[c].vehicle, {a, c} \notin apart'
      PROVE  InOrder(log'[a], log'[c])
  <2>1. {c, a} \notin apart'
    <3>1. {a, c} = {c, a}
      OBVIOUS
    <3>. QED
      BY <1>4, <3>1
  <2>2. CASE a = n
    BY <1>1, <1>3, <1>4, <2>2
  <2>3. CASE c = n
    BY <1>1, <1>3, <1>4, <2>1, <2>3, OrderIsMutual
  <2>4. CASE a # n /\ c # n
    <3>1. log'[a] = log[a] /\ log'[c] = log[c] /\ {a, c} \notin apart
      BY <1>1, <1>4, <2>4, NotedApart
    <3>. QED
      BY <1>4, <3>1 DEF LogsInv, Logged
  <2>. QED
    BY <2>2, <2>3, <2>4
<1>5. (serial => \A a, c \in Logged :
         a # c /\ log[a].vehicle = log[c].vehicle /\ {a, c} \notin apart
           => InOrder(log[a], log[c]))'
  BY <1>4 DEF Logged, InOrder
<1>. QED
  BY <1>1, <1>2, <1>5 DEF LogsInv

\* While nothing is pending, where that is how requests are served, a step that
\* decides nothing leaves nothing pending.
LEMMA QuietIsContinued ==
  ASSUME LogsInv, UNCHANGED <<work, serial>>, Quiet
  PROVE  DOMAIN work' = Sessions /\ OnePending' /\ PendingContinues'
BY DEF LogsInv, OnePending, PendingContinues, Quiet

LEMMA BeginOpenStep ==
  ASSUME LogsInv, Observe, UNCHANGED serial, NEW s \in Sessions, NEW a \in AssignmentIds,
         NEW km \in Readings, BeginOpen(s, a, km)
  PROVE  LogsInv'
<1>. DEFINE row == NewLog(assignment[a].subject, km)
            job == [desk |-> "logs", on |-> a, row |-> row]
<1>1. /\ row \in LogRows /\ row.in = None /\ row.vehicle = assignment[a].subject /\ row.out = km
  BY DEF BeginOpen, NewLog, LogRows
<1>2. Continues(row.vehicle, row.out) /\ Decide(s, job) /\ UNCHANGED log
  BY <1>1 DEF BeginOpen
<1>. HIDE DEF row
<1>3. job.desk = "logs" /\ job.row = row
  OBVIOUS
<1>. HIDE DEF job
<1>4. /\ DOMAIN work' = Sessions /\ work'[s] = job
      /\ \A t \in Sessions \ {s} : work'[t] = work[t]
  BY <1>2, WorkDecided DEF LogsInv
<1>5. OnePending'
  BY <1>2, <1>3, DecidedOnly DEF LogsInv, OnlyWork
<1>6. PendingContinues'
  BY <1>1, <1>2, <1>3, <1>4
     DEF LogsInv, PendingContinues, Continues, Closings, Closed, LogsOf, Logged
<1>7. log' = [log EXCEPT ![a] = log[a]] /\ log[a] = None
  BY <1>2 DEF LogsInv, BeginOpen
<1>. QED
  BY <1>4, <1>5, <1>6, <1>7, LogWritten

\* The new log leaves no earlier than those that came back; with those still out it
\* is noted as apart.
LEMMA CommitOpenStep ==
  ASSUME LogsInv, Observe, UNCHANGED serial, NEW s \in Sessions, CommitOpen(s)
  PROVE  LogsInv'
<1>. DEFINE row == work[s].row
            n == work[s].on
<1>1. /\ work[s] # None /\ work[s].desk = "logs" /\ n \in Assigned \ Logged
      /\ log' = [log EXCEPT ![n] = row] /\ Done(s)
  BY DEF CommitOpen
<1>2. /\ row \in LogRows /\ n \in AssignmentIds /\ log[n] = None
      /\ serial => Continues(row.vehicle, row.out)
  BY <1>1 DEF LogsInv, PendingContinues, Assigned, Logged
<1>3. /\ DOMAIN work' = Sessions /\ work'[s] = None
      /\ \A t \in Sessions : work'[t] = work[t] \/ work'[t] = None
  BY <1>1, WorkDone DEF LogsInv
<1>4. OnePending'
  BY <1>1, DoneOnly DEF LogsInv, OnlyWork
<1>5. PendingContinues'
  <2>1. serial => \A t \in Sessions : work'[t] = None
    BY <1>1, <1>3 DEF LogsInv, OnePending
  <2>. QED
    BY <1>3, <2>1 DEF LogsInv, PendingContinues
<1>. HIDE DEF row, n
<1>6. log'[n] = row /\ \A c \in AssignmentIds \ {n} : log'[c] = log[c]
  BY <1>1, <1>2 DEF LogsInv
<1>7. ASSUME serial, row # None, NEW c \in Logged \ {n}, row.vehicle = log[c].vehicle,
             {n, c} \notin apart'
      PROVE  InOrder(row, log[c])
  <2>1. n \in Opened /\ c \in LogsOf(log'[n].vehicle)
    BY <1>2, <1>6, <1>7 DEF Opened, LogsOf
  <2>2. log'[n] # None /\ log'[c] # None
    BY <1>6, <1>7 DEF Logged
  <2>3. log[c].in # None
    BY <1>7, <2>1, <2>2, NotedApart
  <2>4. log[c].in \in Closings(row.vehicle)
    BY <1>6, <2>1, <2>3 DEF Closings, Closed
  <2>5. row.out \in Readings /\ log[c].in \in Readings
    BY <1>2, <1>7, <2>3 DEF LogsInv, LogRows, Logged
  <2>. QED
    BY <1>2, <1>7, <2>3, <2>4, <2>5, TripLogsAssumption DEF Continues, InOrder
<1>. QED
  BY <1>1, <1>2, <1>3, <1>4, <1>5, <1>7, LogWritten

\* A log still out is in order only with those back before it left, and closing it
\* changes nothing of that; one closed again is noted as apart from the others.
LEMMA CloseStep ==
  ASSUME LogsInv, Observe, UNCHANGED serial, NEW a \in AssignmentIds, NEW km \in Readings,
         Close(a, km)
  PROVE  LogsInv'
<1>. DEFINE row == [log[a] EXCEPT !.in = km]
<1>1. log[a] \in LogRows /\ a \in Logged
  BY DEF Close, LogsInv, Logged
<1>2. /\ row \in LogRows /\ row.in = km /\ row.out = log[a].out
      /\ row.vehicle = log[a].vehicle
  BY <1>1 DEF LogRows
<1>3. log' = [log EXCEPT ![a] = row] /\ UNCHANGED work /\ Quiet
  BY DEF Close
<1>. HIDE DEF row
<1>4. log'[a] = row /\ \A c \in AssignmentIds \ {a} : log'[c] = log[c]
  BY <1>3 DEF LogsInv
<1>5. ASSUME serial, row # None, NEW c \in Logged \ {a}, row.vehicle = log[c].vehicle,
             {a, c} \notin apart'
      PROVE  InOrder(row, log[c])
  <2>1. log'[a] # None /\ log'[c] # None
    BY <1>4, <1>5 DEF Logged
  <2>2. InOrder(log[a], log[c])
    BY <1>1, <1>2, <1>5, <2>1, NotedApart DEF LogsInv
  <2>3. c \in LogsOf(log[a].vehicle) \ {a}
    BY <1>2, <1>5 DEF LogsOf
  <2>4. log[a].in \in {None, km}
    BY <1>1, <1>2, <1>4, <1>5, <2>1, <2>3, NotedApart DEF ClosedAgain
  <2>. QED
    BY <1>2, <2>2, <2>4 DEF InOrder
<1>. QED
  BY <1>1, <1>2, <1>3, <1>5, LogWritten, QuietIsContinued

LEMMA FillStep ==
  ASSUME LogsInv, Observe, UNCHANGED serial, NEW a \in AssignmentIds, NEW litres \in Litres,
         NEW currency \in Currencies, Fill(a, litres, currency)
  PROVE  LogsInv'
<1>. DEFINE fuel == [log[a].fuel EXCEPT ![currency] = log[a].fuel[currency] + litres]
            row == [log[a] EXCEPT !.fuel = fuel]
<1>1. log[a] \in LogRows /\ a \in Logged
  BY DEF Fill, LogsInv, Logged
<1>2. fuel \in [Currencies -> Nat]
  BY <1>1, TripLogsAssumption DEF LogRows
<1>3. log' = [log EXCEPT ![a] = row] /\ UNCHANGED work /\ Quiet
  BY DEF Fill
<1>. HIDE DEF fuel
<1>4. /\ row \in LogRows /\ row.in = log[a].in /\ row.out = log[a].out
      /\ row.vehicle = log[a].vehicle
  BY <1>1, <1>2 DEF LogRows
<1>. HIDE DEF row
<1>5. log'[a] = row /\ \A c \in AssignmentIds \ {a} : log'[c] = log[c]
  BY <1>3 DEF LogsInv
<1>6. ASSUME serial, row # None, NEW c \in Logged \ {a}, row.vehicle = log[c].vehicle,
             {a, c} \notin apart'
      PROVE  InOrder(row, log[c])
  <2>1. log'[a] # None /\ log'[c] # None
    BY <1>5, <1>6 DEF Logged
  <2>2. InOrder(log[a], log[c])
    BY <1>1, <1>4, <1>6, <2>1, NotedApart DEF LogsInv
  <2>. QED
    BY <1>4, <2>2 DEF InOrder
<1>. QED
  BY <1>3, <1>4, <1>6, LogWritten, QuietIsContinued

LEMMA LogsStep ==
  ASSUME LogsInv, UNCHANGED serial, LogsDesk
  PROVE  LogsInv'
<1>1. Observe /\ LogsNext
  BY DEF LogsDesk
<1>2. ASSUME NEW a \in AssignmentIds, ReleaseWithLog(a) PROVE LogsInv'
  <2>1. log' = [log EXCEPT ![a] = None] /\ UNCHANGED work /\ Quiet
    BY <1>2 DEF ReleaseWithLog, Release
  <2>. QED
    BY <1>1, <2>1, LogWritten, QuietIsContinued
<1>. QED
  BY <1>1, <1>2, BeginOpenStep, CommitOpenStep, CloseStep, FillStep DEF LogsNext

LEMMA LogsHold == Spec => []LogsInv
<1>1. LogsInv /\ [Next]_vars => LogsInv'
  <2>. SUFFICES ASSUME LogsInv, [Next]_vars PROVE LogsInv'
    OBVIOUS
  <2>1. CASE UNCHANGED vars
    <3>1. UNCHANGED <<log, apart, work, serial>>
      BY <2>1 DEF vars
    <3>. QED
      BY <3>1, LogsQuietStep DEF LogsInv, OnePending
  <2>. QED
    BY <2>1, LogsUntouched, LogsStep DEF Next
<1>. QED
  BY LogsInit0, <1>1, PTL DEF Spec

\* With requests served one at a time, no kilometre is logged on two trips of a
\* vehicle, for any number of trips, logs and readings, however logs are opened,
\* closed and released: only two logs out at once, or one closed again, can overlap.
THEOREM NoKilometreTwice == Spec => []KilometresCountedOnce
<1>1. LogsInv => KilometresCountedOnce
  BY DEF LogsInv, KilometresCountedOnce, Closed, LogsOf, InOrder
<1>. QED
  BY LogsHold, <1>1, PTL

-------------------------------------------------------------------------------
(***************************************************************************)
(* What the desks add up                                                   *)
(***************************************************************************)

\* A row's debt, and the one it has in a sum over the rows of a currency.
LEMMA OwingIsNat ==
  ASSUME NEW r, supply[r] \in SupplyRows
  PROVE  Owing(r) \in Nat
<1>1. /\ supply[r].expected \in Nat
      /\ supply[r].invoiced # None => supply[r].invoiced \in Nat
      /\ OrZero(supply[r].settled) \in Nat
  BY SupplyAssumption DEF SupplyRows, OrZero
<1>. QED
  BY <1>1 DEF Owing

\* The payables of a running booking come to its position, currency by currency, and
\* after the trip each of them is chased: for any number of supplier bookings.
THEOREM OwedIsOwedEverywhere == Spec => []OwedEverywhere
<1>1. SupplyInv => OwedEverywhere
  <2>. SUFFICES ASSUME SupplyInv, NEW b \in Trip, Running(b)
                PROVE  LET listed == Payables \cap BoughtFor(b)
                       IN  /\ \A c \in Money : Exposure(b)[c].owed =
                                SumFunction([r \in {p \in listed : supply[p].currency = c} |-> Owing(r)])
                           /\ Departs[b] < today => listed = Unsettled(b)
    BY DEF OwedEverywhere
  <2>. DEFINE listed == Payables \cap BoughtFor(b)
  <2>1. \A r \in BoughtFor(b) : /\ r \in SupplyIds /\ supply[r] \in SupplyRows
                                /\ supply[r].booking = b /\ Owing(r) \in Nat
    BY OwingIsNat DEF BoughtFor, Bought, SupplyInv
  <2>2. listed = {r \in BoughtFor(b) : Live(r) /\ Owing(r) > 0}
    BY <2>1 DEF Payables, BoughtFor
  <2>3. ASSUME NEW c \in Money
        PROVE  Exposure(b)[c].owed =
                 SumFunction([r \in {p \in listed : supply[p].currency = c} |-> Owing(r)])
    <3>. DEFINE rows == {r \in BoughtFor(b) : Live(r) /\ supply[r].currency = c}
                owed == {p \in listed : supply[p].currency = c}
                all == [r \in rows |-> Owing(r)]
                some == [r \in owed |-> Owing(r)]
    <3>1. IsFiniteSet(rows) /\ IsFiniteSet(owed)
      BY <2>1, <2>2, SupplyAssumption, FS_Subset
    <3>2. /\ owed \in SUBSET rows
          /\ \A r \in rows : all[r] \in Nat /\ all[r] = Owing(r)
          /\ \A r \in rows \ owed : Owing(r) = 0
          /\ \A r \in owed : some[r] = Owing(r)
      BY <2>1, <2>2
    <3>3. Exposure(b)[c].owed = SumFunction(all)
      BY DEF Exposure
    <3>4. SumFunction(all) = SumFunctionOnSet(all, rows)
      BY DEF SumFunction
    <3>5. SumFunction(some) = SumFunctionOnSet(some, owed)
      BY DEF SumFunction
    <3>. HIDE DEF all, some, rows, owed
    <3>6. SumFunctionOnSet(all, owed) = SumFunctionOnSet(all, rows)
      BY <3>1, <3>2, SumOverSubset DEF Integral
    <3>7. SumFunctionOnSet(some, owed) = SumFunctionOnSet(all, owed)
      BY <3>1, <3>2, SumOfSame DEF Integral
    <3>8. Exposure(b)[c].owed = SumFunction(some)
      BY <3>3, <3>4, <3>5, <3>6, <3>7
    <3>. QED
      BY <3>8 DEF some, owed
  <2>4. ASSUME Departs[b] < today PROVE listed = Unsettled(b)
    <3>1. ~(Departs[b] >= today)
      BY <2>4, TripsAssumption DEF SupplyInv
    <3>. QED
      BY <2>2, <3>1 DEF Unsettled
  <2>. QED
    BY <2>3, <2>4
<1>. QED
  BY SupplyHolds, <1>1, PTL

\* Vehicles out on the same days are as many as their assignments, so the seats of
\* the board are theirs.
LEMMA SeatsOfVehicles ==
  ASSUME FleetInv, NEW b \in Trip,
         \A a, c \in VehiclesOn(b) : assignment[a].subject = assignment[c].subject => a = c
  PROVE  /\ Seats(b) = SumFunctionOnSet(Capacity, {assignment[a].subject : a \in VehiclesOn(b)})
         /\ Seats(b) \in Int
<1>. DEFINE S == VehiclesOn(b)
            seating == [a \in S |-> Capacity[assignment[a].subject]]
            subject == [a \in S |-> assignment[a].subject]
<1>1. IsFiniteSet(S)
  <2>1. S \in SUBSET AssignmentIds
    BY DEF VehiclesOn, OnBooking, Assigned
  <2>. QED
    BY <2>1, FleetAssumption, FS_Subset
<1>2. \A a \in S : assignment[a].subject \in Vehicles
  BY DEF VehiclesOn
<1>3. /\ Integral(seating, S)
      /\ \A a \in S : seating[a] = Capacity[subject[a]]
      /\ \A a, c \in S : subject[a] = subject[c] => a = c
  BY <1>2, FleetAssumption DEF Integral
<1>4. Seats(b) = SumFunctionOnSet(seating, S)
  BY DEF Seats, SumFunction
<1>5. {subject[a] : a \in S} = {assignment[a].subject : a \in S}
  OBVIOUS
<1>. HIDE DEF seating, subject, S
<1>6. SumFunctionOnSet(seating, S) = SumFunctionOnSet(Capacity, {subject[a] : a \in S})
  BY <1>1, <1>3, SumRenames
<1>7. SumFunctionOnSet(seating, S) \in Int
  BY <1>1, <1>3, SumIsInt
<1>. QED
  BY <1>4, <1>5, <1>6, <1>7 DEF S

\* A trip with nothing missing on the departure board, whose vehicles are out on the
\* same days, can leave: with a seat for everybody in vehicles counted once each, and
\* a driver sent to drive; for any number of vehicles, people and windows.
THEOREM ClearTripsCanLeave == Spec => []ClearTripCanLeave
<1>1. FleetInv => ClearTripCanLeave
  <2>. SUFFICES ASSUME FleetInv, serial, NEW b \in Departures(BoardDays), Gaps(b) = {},
                       \A a \in OnBooking(b) : ~Overridden(a) /\ LongerThanADay(a),
                       \A a, c \in VehiclesOn(b) : a # c => Collide(Out(a), Out(c))
                PROVE  SeatsFor(b) /\ \E a \in OnBooking(b) : assignment[a].role \in DRIVES
    BY DEF ClearTripCanLeave
  <2>1. b \in Trip /\ Running(b)
    BY DEF Departures
  <2>2. ASSUME NEW a \in VehiclesOn(b), NEW c \in VehiclesOn(b), a # c,
               assignment[a].subject = assignment[c].subject
        PROVE  FALSE
    <3>1. /\ a \in Assigned /\ c \in Assigned /\ a \in OnBooking(b) /\ c \in OnBooking(b)
          /\ assignment[a].booking = b /\ assignment[c].booking = b
      BY DEF VehiclesOn, OnBooking
    <3>2. TwoOnOneDay(a, c)
      BY <2>1, <2>2, <3>1 DEF TwoOnOneDay
    <3>. QED
      BY <3>1, <3>2, NobodyIsOut DEF NobodyOutTwice
  <2>3. /\ Seats(b) = SumFunctionOnSet(Capacity, {assignment[a].subject : a \in VehiclesOn(b)})
        /\ Seats(b) \in Int
    BY <2>1, <2>2, SeatsOfVehicles
  <2>4. /\ VehiclesOn(b) # {} /\ DriversOn(b) # {}
        /\ ~(VehiclesOn(b) # {} /\ Pax[b] > Seats(b))
    BY DEF Gaps
  <2>5. SeatsFor(b)
    BY <2>1, <2>3, <2>4, TripsAssumption DEF SeatsFor
  <2>6. \E a \in OnBooking(b) : assignment[a].role \in DRIVES
    BY <2>4 DEF DriversOn
  <2>. QED
    BY <2>5, <2>6
<1>. QED
  BY FleetHolds, <1>1, PTL

LEMMA DivBounds ==
  ASSUME NEW n \in Int, NEW d \in Nat \ {0}
  PROVE  n \div d \in Int /\ d * (n \div d) <= n /\ n < d * (n \div d) + d
OBVIOUS

LEMMA TimesKeepsOrder ==
  ASSUME NEW d \in Nat, NEW i \in Int, NEW j \in Int, i <= j
  PROVE  d * i <= d * j
OBVIOUS

\* Rounding does not take a quotient across a whole number.
LEMMA RoundingKeepsSide ==
  ASSUME NEW n \in Nat, NEW d \in Nat \ {0}, NEW k \in Int
  PROVE  /\ HalfUp(n, d) \in Int
         /\ n >= d * k => HalfUp(n, d) >= k
         /\ n <= d * k => HalfUp(n, d) <= k
<1>. DEFINE n2 == 2 * n + d
            d2 == 2 * d
            q == n2 \div d2
<1>1. q \in Int /\ (2 * d) * q <= 2 * n + d /\ 2 * n + d < (2 * d) * q + 2 * d
  <2>1. n2 \in Int /\ d2 \in Nat \ {0}
    OBVIOUS
  <2>2. q \in Int /\ d2 * q <= n2 /\ n2 < d2 * q + d2
    <3>. HIDE DEF n2, d2
    <3>. QED
      BY <2>1, DivBounds
  <2>. QED
    BY <2>2
<1>2. HalfUp(n, d) = q
  BY DEF HalfUp, Magnitude
<1>. HIDE DEF q
<1>3. d * q \in Int /\ d * k \in Int /\ (2 * d) * q = 2 * (d * q)
  BY <1>1
<1>4. ASSUME n >= d * k, q < k PROVE FALSE
  <2>1. d * (q + 1) <= d * k /\ d * (q + 1) = d * q + d
    BY <1>1, <1>4, TimesKeepsOrder
  <2>. QED
    BY <1>1, <1>3, <1>4, <2>1
<1>5. ASSUME n <= d * k, q > k PROVE FALSE
  <2>1. d * (k + 1) <= d * q /\ d * (k + 1) = d * k + d
    BY <1>1, <1>5, TimesKeepsOrder
  <2>. QED
    BY <1>1, <1>3, <1>5, <2>1
<1>. QED
  BY <1>1, <1>2, <1>4, <1>5

LEMMA VarianceKeepsSign ==
  ASSUME NEW actual \in Int, NEW model \in Nat \ {0}
  PROVE  /\ VariancePct(actual, model) \in Int
         /\ actual >= model => VariancePct(actual, model) >= 0
         /\ actual <= model => VariancePct(actual, model) <= 0
<1>. DEFINE n == 10000 * (actual - model)
<1>1. VariancePct(actual, model) = HalfUp(n, model)
  BY DEF VariancePct
<1>2. model * 0 = 0 /\ n \in Int
  OBVIOUS
<1>3. CASE n >= 0
  <2>1. HalfUp(n, model) \in Int /\ HalfUp(n, model) >= 0 /\ (n <= 0 => HalfUp(n, model) <= 0)
    BY <1>2, <1>3, RoundingKeepsSide
  <2>. QED
    BY <1>1, <2>1
<1>4. CASE n < 0
  <2>1. HalfUp(n, model) = -HalfUp(-n, model)
    BY <1>2, <1>4 DEF HalfUp, Magnitude
  <2>2. HalfUp(-n, model) \in Int /\ HalfUp(-n, model) >= 0
    BY <1>2, <1>4, RoundingKeepsSide
  <2>. QED
    BY <1>1, <1>4, <2>1, <2>2
<1>. QED
  BY <1>2, <1>3, <1>4

LEMMA MeasuredTrip ==
  ASSUME LogsInv, NEW a \in AssignmentIds, log[a] # None
  PROVE  /\ LitresOf(a) \in Nat
         /\ log[a].in # None => Distance(a) \in Int
<1>1. log[a] \in LogRows
  BY DEF LogsInv
<1>2. LitresOf(a) \in Nat
  <2>1. IsFiniteSet(Currencies) /\ \A c \in Currencies : log[a].fuel[c] \in Nat
    BY <1>1, TripLogsAssumption DEF LogRows
  <2>. QED
    BY <2>1, SumIsNat DEF LitresOf
<1>3. ASSUME log[a].in # None PROVE Distance(a) \in Int
  <2>1. log[a].in \in Readings \cup {None} /\ log[a].out \in Readings
    BY <1>1 DEF LogRows
  <2>2. log[a].in \in Nat /\ log[a].out \in Nat
    BY <1>3, <2>1, TripLogsAssumption
  <2>. QED
    BY <2>2 DEF Distance
<1>. QED
  BY <1>2, <1>3

\* The pool is of trips with a distance and some fuel, and not of none of them.
LEMMA PoolIsMeasured ==
  ASSUME LogsInv, NEW v \in Vehicles, Pooled(v) # {}
  PROVE  /\ IsFiniteSet(Pooled(v))
         /\ \A a \in Pooled(v) : /\ a \in LogsOf(v) /\ log[a].in # None
                                 /\ Distance(a) \in Nat /\ LitresOf(a) \in Nat \ {0}
         /\ PooledKm(v) \in Nat /\ PooledLitres(v) \in Nat \ {0}
<1>. DEFINE P == Pooled(v)
            km == [a \in P |-> Distance(a)]
            litres == [a \in P |-> LitresOf(a)]
<1>1. P \in SUBSET AssignmentIds
  BY DEF Pooled, Closed, LogsOf, Logged
<1>2. \A a \in P : /\ a \in LogsOf(v) /\ log[a] # None /\ log[a].in # None
                   /\ Distance(a) > 0 /\ LitresOf(a) > 0
  BY DEF Pooled, Closed, LogsOf, Logged
<1>3. \A a \in P : Distance(a) \in Nat /\ LitresOf(a) \in Nat \ {0}
  BY <1>1, <1>2, MeasuredTrip
<1>4. IsFiniteSet(P)
  BY <1>1, FleetAssumption, FS_Subset
<1>5. PooledKm(v) = SumFunctionOnSet(km, P) /\ PooledLitres(v) = SumFunctionOnSet(litres, P)
  BY DEF PooledKm, PooledLitres, SumFunction
<1>6. \A a \in P : km[a] \in Nat /\ litres[a] \in Nat \ {0}
  BY <1>3
<1>. HIDE DEF km, litres, P
<1>7. SumFunctionOnSet(km, P) \in Nat
  BY <1>4, <1>6, SumIsNat
<1>8. SumFunctionOnSet(litres, P) \in Nat \ {0}
  <2>1. PICK a \in P : TRUE
    BY DEF P
  <2>2. Integral(litres, P) /\ IsFiniteSet(P \ {a})
    BY <1>4, <1>6, FS_RemoveElement DEF Integral
  <2>3. SumFunctionOnSet(litres, P) = litres[a] + SumFunctionOnSet(litres, P \ {a})
    BY <1>4, <2>2, SumTakes
  <2>4. SumFunctionOnSet(litres, P \ {a}) \in Nat
    BY <1>6, <2>2, SumIsNat
  <2>. QED
    BY <1>6, <2>3, <2>4
<1>. QED
  BY <1>2, <1>3, <1>4, <1>5, <1>7, <1>8 DEF P

\* Trips that each did at least, or at most, as the model says do so together.
LEMMA PoolGoesWithItsTrips ==
  ASSUME LogsInv, NEW v \in Vehicles, Pooled(v) # {}
  PROVE  /\ (\A a \in Pooled(v) : Distance(a) >= ModelKmpl[v] * LitresOf(a))
              => PooledKm(v) >= ModelKmpl[v] * PooledLitres(v)
         /\ (\A a \in Pooled(v) : Distance(a) <= ModelKmpl[v] * LitresOf(a))
              => PooledKm(v) <= ModelKmpl[v] * PooledLitres(v)
<1>. DEFINE P == Pooled(v)
            m == ModelKmpl[v]
            km == [a \in P |-> Distance(a)]
            litres == [a \in P |-> LitresOf(a)]
            priced == [a \in P |-> m * LitresOf(a)]
<1>1. m \in Nat \ {0}
  BY TripLogsAssumption
<1>2. IsFiniteSet(P) /\ \A a \in P : Distance(a) \in Nat /\ LitresOf(a) \in Nat \ {0}
  BY PoolIsMeasured
<1>3. PooledKm(v) = SumFunctionOnSet(km, P) /\ PooledLitres(v) = SumFunctionOnSet(litres, P)
  BY DEF PooledKm, PooledLitres, SumFunction
<1>4. /\ Integral(km, P) /\ Integral(litres, P) /\ Integral(priced, P)
      /\ \A a \in P : km[a] = Distance(a) /\ priced[a] = m * litres[a] /\ priced[a] = m * LitresOf(a)
  BY <1>1, <1>2 DEF Integral
<1>. HIDE DEF P, m, km, litres, priced
<1>5. SumFunctionOnSet(priced, P) = m * SumFunctionOnSet(litres, P)
  BY <1>1, <1>2, <1>4, SumScales
<1>6. ASSUME \A a \in P : Distance(a) >= m * LitresOf(a)
      PROVE  PooledKm(v) >= m * PooledLitres(v)
  <2>1. \A a \in P : priced[a] <= km[a]
    BY <1>4, <1>6 DEF Integral
  <2>2. SumFunctionOnSet(priced, P) <= SumFunctionOnSet(km, P)
    BY <1>2, <1>4, <2>1, SumAtMost
  <2>3. SumFunctionOnSet(priced, P) \in Int /\ SumFunctionOnSet(km, P) \in Int
    BY <1>2, <1>4, SumIsInt
  <2>. QED
    BY <1>3, <1>5, <2>2, <2>3
<1>7. ASSUME \A a \in P : Distance(a) <= m * LitresOf(a)
      PROVE  PooledKm(v) <= m * PooledLitres(v)
  <2>1. \A a \in P : km[a] <= priced[a]
    BY <1>4, <1>7
  <2>2. SumFunctionOnSet(km, P) <= SumFunctionOnSet(priced, P)
    BY <1>2, <1>4, <2>1, SumAtMost
  <2>. QED
    BY <1>3, <1>5, <2>2
<1>. QED
  BY <1>6, <1>7 DEF P, m

\* The audit's verdict on a vehicle is some trip's own: it is called optimistic only
\* where a trip did worse than its model, and pessimistic only where one did better;
\* for any number of trips, readings and receipts, and any tolerance.
THEOREM AuditsHaveTheirTrip == Spec => []AuditHasItsTrip
<1>1. LogsInv => AuditHasItsTrip
  <2>. SUFFICES ASSUME LogsInv, NEW v \in Vehicles
                PROVE  LET trips == {a \in LogsOf(v) : log[a].in # None /\ LitresOf(a) > 0}
                           managed(a) == Distance(a)
                           priced(a) == ModelKmpl[v] * LitresOf(a)
                       IN  /\ Audit(v) = "optimistic" => \E a \in trips : managed(a) < priced(a)
                           /\ Audit(v) = "pessimistic" => \E a \in trips : managed(a) > priced(a)
    BY DEF AuditHasItsTrip
  <2>. DEFINE m == ModelKmpl[v]
              actual == HalfUp(100 * PooledKm(v), PooledLitres(v))
              variance == VariancePct(actual, 100 * m)
  <2>1. CASE Pooled(v) = {}
    <3>1. Audit(v) = "not_enough_data"
      BY <2>1, FS_EmptySet, TripLogsAssumption DEF Audit
    <3>. QED
      BY <3>1
  <2>2. CASE Pooled(v) # {}
    <3>1. /\ PooledKm(v) \in Nat /\ PooledLitres(v) \in Nat \ {0}
          /\ \A a \in Pooled(v) : /\ a \in LogsOf(v) /\ log[a].in # None
                                  /\ Distance(a) \in Nat /\ LitresOf(a) \in Nat \ {0}
      BY <2>2, PoolIsMeasured
    <3>2. m \in Nat \ {0} /\ m * PooledLitres(v) \in Nat
      BY <3>1, TripLogsAssumption
    <3>3. PooledLitres(v) * (100 * m) = 100 * (m * PooledLitres(v))
      BY <3>1, <3>2
    <3>4. /\ actual \in Int
          /\ PooledKm(v) >= m * PooledLitres(v) => actual >= 100 * m
          /\ PooledKm(v) <= m * PooledLitres(v) => actual <= 100 * m
      BY <3>1, <3>2, <3>3, RoundingKeepsSide
    <3>. HIDE DEF actual
    <3>5. /\ variance \in Int
          /\ actual >= 100 * m => variance >= 0
          /\ actual <= 100 * m => variance <= 0
      <4>. DEFINE model == 100 * m
      <4>1. model \in Nat \ {0} /\ variance = VariancePct(actual, model)
        BY <3>2
      <4>. HIDE DEF model, variance
      <4>2. /\ variance \in Int
            /\ actual >= model => variance >= 0
            /\ actual <= model => variance <= 0
        BY <3>4, <4>1, VarianceKeepsSign
      <4>. QED
        BY <4>2 DEF model
    <3>6. /\ Audit(v) = "optimistic" => variance < 0
          /\ Audit(v) = "pessimistic" => variance > 0
      <4>. HIDE DEF variance
      <4>1. \/ Audit(v) \in {"not_enough_data", "as_priced"}
            \/ Audit(v) = "optimistic" /\ variance < 0
            \/ /\ Audit(v) = "pessimistic" /\ ~(variance < 0)
               /\ ~(variance > -100 * TolerancePct /\ variance < 100 * TolerancePct)
        BY DEF Audit, variance, actual, m
      <4>. QED
        BY <3>5, <4>1, TripLogsAssumption
    <3>7. ASSUME Audit(v) = "optimistic"
          PROVE  \E a \in Pooled(v) : Distance(a) < m * LitresOf(a)
      <4>1. ~(PooledKm(v) >= m * PooledLitres(v))
        BY <3>2, <3>4, <3>5, <3>6, <3>7
      <4>2. ~\A a \in Pooled(v) : Distance(a) >= m * LitresOf(a)
        BY <2>2, <4>1, PoolGoesWithItsTrips
      <4>. QED
        BY <3>1, <3>2, <4>2
    <3>8. ASSUME Audit(v) = "pessimistic"
          PROVE  \E a \in Pooled(v) : Distance(a) > m * LitresOf(a)
      <4>1. ~(PooledKm(v) <= m * PooledLitres(v))
        BY <3>2, <3>4, <3>5, <3>6, <3>8
      <4>2. ~\A a \in Pooled(v) : Distance(a) <= m * LitresOf(a)
        BY <2>2, <4>1, PoolGoesWithItsTrips
      <4>. QED
        BY <3>1, <3>2, <4>2
    <3>. QED
      BY <3>1, <3>7, <3>8
  <2>. QED
    BY <2>1, <2>2
<1>. QED
  BY LogsHold, <1>1, PTL

==============================================================================
