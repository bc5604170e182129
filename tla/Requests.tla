------------------------------- MODULE Requests -------------------------------
(***************************************************************************)
(* The HTTP requests every desk is worked through.  A request reads the    *)
(* committed rows it decides on, keeps what it is about to write in        *)
(* memory, and writes it at its commit; READ COMMITTED and no locks, so    *)
(* anything may be committed in between.  An operation whose writes do not *)
(* depend on what it read is one step.                                     *)
(***************************************************************************)
CONSTANTS
  Sessions,   \* requests that can be in flight at once
  None        \* SQL NULL, and the job of a request that has none

VARIABLES
  work,     \* the write each request has decided on and not yet committed
  serial    \* whether this behaviour serves its requests one at a time

requestVars == <<work, serial>>

\* No request is between its reads and its commit, where that matters.
Quiet == serial => \A s \in Sessions : work[s] = None

Decide(s, job) ==
  /\ work[s] = None
  /\ Quiet
  /\ work' = [work EXCEPT ![s] = job]

Done(s) == work' = [work EXCEPT ![s] = None]

\* An error, a lost connection or a crash rolls the transaction back.
Abandon(s) == work[s] # None /\ Done(s)

RequestsInit == work = [s \in Sessions |-> None] /\ serial \in BOOLEAN

==============================================================================
