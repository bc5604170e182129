-------------------------------- MODULE Portal --------------------------------
(***************************************************************************)
(* The links by which clients read their booking (portal/service.py and    *)
(* the access rules of portal/view.py).  A token is a grant's id: it is    *)
(* looked up by its hash and two cannot collide.                           *)
(***************************************************************************)
EXTENDS Trips

CONSTANTS
  Grants,        \* grants (a bound)
  DaysAfter,     \* PORTAL_ACCESS_DAYS_AFTER_TRAVEL
  MinimumDays,   \* default_expiry's minimum_days
  MostVisits     \* visits to one grant (a bound)

VARIABLE grant   \* booking_access_grants

\* The columns of a row.
GrantRows == [booking : Trip, revoked : BOOLEAN, views : Nat, expires : Int]

ASSUME PortalAssumption ==
  /\ DaysAfter \in Nat /\ MinimumDays \in Nat /\ MostVisits \in Nat
  /\ None \notin GrantRows

Sent == {g \in Grants : grant[g] # None}

\* Departure plus a margin, and never sooner than the minimum from today.
\* Mutant: whichever comes first.
SoonerExpiry(b) ==
  IF Departs[b] + DaysAfter <= today + MinimumDays
  THEN Departs[b] + DaysAfter ELSE today + MinimumDays
DefaultExpiry(b) ==
  IF Departs[b] + DaysAfter >= today + MinimumDays
  THEN Departs[b] + DaysAfter ELSE today + MinimumDays

NewGrant(b, expires) == [booking |-> b, revoked |-> FALSE, views |-> 0, expires |-> expires]

Issue(g, b, asked) ==
  /\ Quiet
  /\ grant[g] = None
  /\ status[b] # "cancelled"
  /\ asked # None => asked >= today
  /\ grant' = [grant EXCEPT ![g] = NewGrant(b, IF asked # None THEN asked ELSE DefaultExpiry(b))]
  /\ UNCHANGED <<status, work>>

\* Withdrawing a withdrawn link changes nothing.
Revoke(g) ==
  /\ Quiet
  /\ g \in Sent /\ ~grant[g].revoked
  /\ grant' = [grant EXCEPT ![g].revoked = TRUE]
  /\ UNCHANGED <<status, work>>

\* check_access: a cancelled booking is said before a withdrawn or expired link.
Access(g) ==
  IF status[grant[g].booking] = "cancelled" THEN "cancelled"
  ELSE IF grant[g].revoked THEN "revoked"
  ELSE IF grant[g].expires < today THEN "expired" ELSE "open"

\* The visit counts itself on the grant it read.
BeginVisit(s, g) ==
  /\ g \in Sent
  /\ Access(g) = "open"
  /\ grant[g].views < MostVisits
  /\ Decide(s, [desk |-> "portal", on |-> g, views |-> grant[g].views + 1])
  /\ UNCHANGED <<grant, status>>

CommitVisit(s) ==
  /\ work[s] # None
  /\ work[s].desk = "portal"
  /\ grant' = [grant EXCEPT ![work[s].on].views = work[s].views]
  /\ Done(s)
  /\ UNCHANGED status

PortalInit == grant = [g \in Grants |-> None]

PortalNext ==
  \/ \E g \in Grants, b \in Trip, asked \in {None, today, today + 1} : Issue(g, b, asked)
  \/ \E g \in Grants : Revoke(g)
  \/ \E s \in Sessions, g \in Grants : BeginVisit(s, g)
  \/ \E s \in Sessions : CommitVisit(s)

==============================================================================
