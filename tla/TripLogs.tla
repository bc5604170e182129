------------------------------- MODULE TripLogs -------------------------------
(***************************************************************************)
(* What the assigned vehicles did (operations/actuals.py, TripLogService): *)
(* a log per assignment, opened with a reading and closed with another,    *)
(* and the fuel bought on the way.  Kilometres and litres are integers, in *)
(* units of a bound's choosing; of a receipt only its litres and currency  *)
(* are kept, since its money is summed and never decided on.               *)
(***************************************************************************)
EXTENDS Fleet, Rounding

CONSTANTS
  Readings,      \* odometer readings (a bound)
  Litres,        \* litres on a receipt (a bound)
  Currencies,
  MostLitres,    \* fuel bought in all (a bound)
  ModelKmpl,     \* [Vehicles -> fuel_consumption_kmpl]
  MinKm,         \* MIN_KM_FOR_CONSUMPTION
  MinTrips,      \* min_trips
  TolerancePct   \* DEFAULT_TOLERANCE_PCT

ASSUME TripLogsAssumption ==
  /\ Readings \subseteq Nat
  /\ Litres \subseteq Nat \ {0} /\ IsFiniteSet(Currencies)
  /\ MinTrips \in Nat \ {0} /\ TolerancePct \in Nat \ {0}
  /\ ModelKmpl \in [Vehicles -> Nat \ {0}]

VARIABLE log   \* trip_logs and their fuel_fills, by assignment

Logged == {a \in AssignmentIds : log[a] # None}
LogsOf(v) == {a \in Logged : log[a].vehicle = v}
Closed(v) == {a \in LogsOf(v) : log[a].in # None}

\* The vehicle's highest closing reading, and a reading no lower than it.
\* Mutant: the closing reading of the last assignment.
LastClosed(v) == {log[a].in : a \in {b \in Closed(v) : \A c \in Closed(v) : c <= b}}
Closings(v) == {log[a].in : a \in Closed(v)}
Continues(v, km) == \A previous \in Closings(v) : km >= previous

PaidIn(a) == {c \in Currencies : log[a].fuel[c] > 0}
LitresOf(a) == SumFunctionOnSet(log[a].fuel, Currencies)

\* A log as it is opened: which vehicle, its reading, and no receipts.
NewLog(v, km) == [vehicle |-> v, out |-> km, in |-> None, fuel |-> [c \in Currencies |-> 0]]

BeginOpen(s, a, km) ==
  /\ a \in Assigned
  /\ assignment[a].subject \in Vehicles
  /\ log[a] = None
  /\ Continues(assignment[a].subject, km)
  /\ Decide(s, [desk |-> "logs", on |-> a,
                row |-> NewLog(assignment[a].subject, km)])
  /\ UNCHANGED <<fleetVars, log, status>>

\* The foreign key and the unique constraint hold the insert to an assignment
\* that is still there and has no log; otherwise the request is abandoned.
CommitOpen(s) ==
  /\ work[s] # None
  /\ work[s].desk = "logs"
  /\ work[s].on \in Assigned \ Logged
  /\ log' = [log EXCEPT ![work[s].on] = work[s].row]
  /\ Done(s)
  /\ UNCHANGED <<fleetVars, status>>

\* Only against the log's own opening reading; a closed log may be closed again.
Close(a, km) ==
  /\ Quiet
  /\ a \in Logged
  /\ km >= log[a].out
  /\ log' = [log EXCEPT ![a].in = km]
  /\ UNCHANGED <<fleetVars, status, work>>

Fill(a, litres, currency) ==
  /\ Quiet
  /\ a \in Logged
  /\ litres + SumFunction([b \in Logged |-> LitresOf(b)]) <= MostLitres
  /\ log' = [log EXCEPT ![a].fuel[currency] = @ + litres]
  /\ UNCHANGED <<fleetVars, status, work>>

\* The log and its receipts go with the assignment (ON DELETE CASCADE).
ReleaseWithLog(a) == Release(a) /\ log' = [log EXCEPT ![a] = None]

-------------------------------------------------------------------------------
(***************************************************************************)
(* Is the model true?                                                      *)
(***************************************************************************)

Distance(a) == log[a].in - log[a].out

\* One trip's consumption in hundredths: None for a short one, and no figure at
\* all for fuel bought in two currencies.
Measurable(a) == log[a].in # None /\ Cardinality(PaidIn(a)) <= 1
ActualKmpl(a) == IF Distance(a) >= MinKm /\ LitresOf(a) > 0
                 THEN HalfUp(100 * Distance(a), LitresOf(a)) ELSE None

\* Mutant: closed logs only, but the litres of every log.
LitresEver(v) == SumFunction([a \in LogsOf(v) |-> LitresOf(a)])

Pooled(v) == {a \in Closed(v) : Measurable(a) /\ Distance(a) > 0 /\ LitresOf(a) > 0}
PooledLitres(v) == SumFunction([a \in Pooled(v) |-> LitresOf(a)])
PooledKm(v) == SumFunction([a \in Pooled(v) |-> Distance(a)])

VariancePct(actual, model) == HalfUp(10000 * (actual - model), model)

\* audit, as the code of its finding.
Audit(v) ==
  IF Cardinality(Pooled(v)) < MinTrips THEN "not_enough_data"
  ELSE LET variance == VariancePct(HalfUp(100 * PooledKm(v), PooledLitres(v)),
                                   100 * ModelKmpl[v])
       IN  IF variance > -100 * TolerancePct /\ variance < 100 * TolerancePct THEN "as_priced"
           ELSE IF variance < 0 THEN "optimistic" ELSE "pessimistic"

LogsInit == log = [a \in AssignmentIds |-> None]

LogsNext ==
  \/ \E s \in Sessions, a \in AssignmentIds, km \in Readings : BeginOpen(s, a, km)
  \/ \E s \in Sessions : CommitOpen(s)
  \/ \E a \in AssignmentIds, km \in Readings : Close(a, km)
  \/ \E a \in AssignmentIds, litres \in Litres, c \in Currencies : Fill(a, litres, c)
  \/ \E a \in AssignmentIds : ReleaseWithLog(a)

==============================================================================
