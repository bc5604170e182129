----------------------------- MODULE RecordProofs -----------------------------
(***************************************************************************)
(* Theorems about the record-keeping desks, for any number of requests,    *)
(* rows, texts, stages and days.                                           *)
(***************************************************************************)
EXTENDS RecordDesks, SumProofs

-------------------------------------------------------------------------------
(***************************************************************************)
(* Requests                                                                *)
(***************************************************************************)

\* One at a time, where that is how they are served.
OnePending == serial => \A s, t \in Sessions : work[s] # None /\ work[t] # None => s = t

InTurn == DOMAIN work = Sessions /\ OnePending

LEMMA DecidesAlone ==
  ASSUME InTurn, UNCHANGED serial, NEW s \in Sessions, NEW job, Decide(s, job)
  PROVE  /\ InTurn'
         /\ \A t \in Sessions : work'[t] = job \/ work'[t] = work[t]
         /\ serial => \A t \in Sessions : work'[t] = IF t = s THEN job ELSE None
BY DEF InTurn, OnePending, Decide, Quiet

\* A request that ends, by its commit or without one.
LEMMA EndsAlone ==
  ASSUME InTurn, UNCHANGED serial, NEW s \in Sessions, Done(s)
  PROVE  /\ InTurn'
         /\ \A t \in Sessions : work'[t] = None \/ work'[t] = work[t]
         /\ serial /\ work[s] # None => \A t \in Sessions : work'[t] = None
BY DEF InTurn, OnePending, Done

\* What a step may do to the requests in flight: one of them begins while the
\* others let it, goes on, or ends.
Moves ==
  \/ UNCHANGED work
  \/ \E s \in Sessions : \E job : /\ work' = [work EXCEPT ![s] = job]
                                  /\ Quiet \/ work[s] # None \/ job = None

LEMMA MovesInTurn ==
  ASSUME InTurn, UNCHANGED serial, Moves
  PROVE  InTurn'
BY DEF InTurn, OnePending, Moves, Quiet

LEMMA DecideMoves == ASSUME NEW s \in Sessions, NEW job, Decide(s, job) PROVE Moves
BY DEF Moves, Decide

LEMMA DoneMoves == ASSUME NEW s \in Sessions, Done(s) PROVE Moves
BY DEF Moves, Done

LEMMA PipelineMoves == PipelineNext => Moves
BY DecideMoves, DoneMoves DEF PipelineNext, Create, Update, BeginMove, CommitMove, Moves

LEMMA NarrativeMoves == NarrativesNext => Moves
BY DecideMoves, DoneMoves
DEF NarrativesNext, Write, BeginRevise, BeginApprove, BeginReject, CommitReview, Moves

LEMMA ReviewMoves == ReviewNext => Moves
BY DecideMoves, DoneMoves
DEF ReviewNext, BeginStore, CommitStore, BeginExtract, CommitExtract, BeginConfirm, CommitConfirm

LEMMA CommsMoves == ASSUME NEW ids, NEW subjects, CommsNext(ids, subjects) PROVE Moves
<1>1. ASSUME NEW s \in Sessions, NEW e, NEW x, NEW d, NEW at, NEW next, BeginLog(s, e, x, d, at, next)
      PROVE  Moves
  BY <1>1, DecideMoves DEF BeginLog
<1>2. ASSUME NEW s \in Sessions, CommitLog(s) \/ CommitStamps(s) PROVE Moves
  BY <1>2, DoneMoves DEF CommitLog, CommitStamps
<1>3. ASSUME NEW s \in Sessions, ReadTimeline(s) PROVE Moves
  BY <1>3 DEF ReadTimeline, Moves
<1>4. ASSUME NEW s \in Sessions, NEW e, NEW at, Amend(s, e, at) \/ Void(s, e) PROVE Moves
  BY <1>4 DEF Amend, Void, Moves
<1>5. ASSUME NEW s \in Sessions, NEW l, BeginRecompute(s, l) PROVE Moves
  BY <1>5, DecideMoves DEF BeginRecompute
<1>. QED
  BY <1>1, <1>2, <1>3, <1>4, <1>5 DEF CommsNext

\* Requests are served in turn where they are said to be, at every desk.
LEMMA NextInTurn == InTurn /\ [Next]_recordVars => InTurn'
<1>. SUFFICES ASSUME InTurn, [Next]_recordVars PROVE InTurn'
  OBVIOUS
<1>1. CASE UNCHANGED recordVars
  BY <1>1 DEF recordVars, InTurn, OnePending
<1>2. CASE Next
  <2>1. ASSUME LeadsDesk PROVE Moves
    BY <2>1, PipelineMoves DEF LeadsDesk, Moves
  <2>2. ASSUME LogDesk PROVE Moves
    <3>1. ASSUME NEW l, NEW client, ChangeClient(l, client) PROVE Moves
      BY <3>1 DEF ChangeClient, Update, Moves
    <3>. QED
      BY <2>2, <3>1, CommsMoves DEF LogDesk
  <2>3. ASSUME NarrativesDesk PROVE Moves
    BY <2>3, NarrativeMoves DEF NarrativesDesk
  <2>4. ASSUME ReviewDesk PROVE Moves
    BY <2>4, ReviewMoves DEF ReviewDesk
  <2>5. ASSUME Failure PROVE Moves
    BY <2>5, DoneMoves DEF Failure, Abandon
  <2>. QED
    BY <1>2, <2>1, <2>2, <2>3, <2>4, <2>5, MovesInTurn DEF Next
<1>. QED
  BY <1>1, <1>2

LEMMA AlwaysInTurn == Spec => []InTurn
<1>1. Init => InTurn
  BY DEF Init, RequestsInit, InTurn, OnePending
<1>. QED
  BY <1>1, NextInTurn, PTL DEF Spec

-------------------------------------------------------------------------------
(***************************************************************************)
(* Narratives                                                              *)
(***************************************************************************)

NothingWritten == \A n \in NarrativeIds : narrative[n] = None /\ agreed[n] = None

\* An approval is of the text the row still has, and only an approved text is
\* ever superseded.
ApprovedAsAgreed(n) ==
  /\ agreed[n] # None <=> narrative[n].status = "approved"
  /\ narrative[n].status = "approved" => narrative[n].text = agreed[n]
  /\ narrative[n].superseded => narrative[n].status = "approved"

OneStands(topic) ==
  /\ \A n, m \in InForce(topic) : n = m
  /\ \A n \in Kept : narrative[n].topic = topic /\ narrative[n].status = "approved"
                       => InForce(topic) # {}

\* What a request decided on is still decided rightly: its row is what it read,
\* and an approval replaces the text that stands.
JudgedNow(job) ==
  /\ job.desk = "narratives"
  /\ job.on \in Kept
  /\ \/ /\ narrative[job.on].status = "draft"
        /\ \/ \E text \in Texts, a \in Authors : job = Edit(job.on, text, a)
           \/ \E a \in Authors : \/ job = Verdict(job.on, "rejected", a, None)
                                 \/ job = Verdict(job.on, "approved", a,
                                                  Printable(narrative[job.on].topic))
     \/ /\ narrative[job.on].status = "rejected"
        /\ \E a \in Authors : job = Verdict(job.on, None, a, None)

NarrativeShape ==
  /\ InTurn
  /\ DOMAIN agreed = NarrativeIds
  /\ DOMAIN narrative = NarrativeIds
  /\ desk # "narratives" => NothingWritten

NarrativeTurn ==
  /\ \A n \in NarrativeIds : narrative[n] \in NarrativeRows \cup {None}
  /\ \A n \in Kept : ApprovedAsAgreed(n)
  /\ \A n \in NarrativeIds \ Kept : agreed[n] = None
  /\ \A topic \in Topics : OneStands(topic)
  /\ \A s \in Sessions : work[s] # None => JudgedNow(work[s])

NarrativeInv == NarrativeShape /\ (serial /\ desk = "narratives" => NarrativeTurn)
LEMMA InitNarratives == Init => NarrativeInv
<1>. SUFFICES ASSUME Init PROVE NarrativeInv
  OBVIOUS
<1>1. DOMAIN work = Sessions /\ \A s \in Sessions : work[s] = None
  BY DEF Init, RequestsInit
<1>2. /\ DOMAIN narrative = NarrativeIds /\ DOMAIN agreed = NarrativeIds
      /\ NothingWritten /\ Kept = {}
  BY DEF Init, NarrativesInit, NothingWritten, Kept
<1>3. NarrativeShape
  BY <1>1, <1>2 DEF NarrativeShape, InTurn, OnePending
<1>4. NarrativeTurn
  BY <1>1, <1>2 DEF NarrativeTurn, NothingWritten, OneStands, InForce
<1>. QED
  BY <1>3, <1>4 DEF NarrativeInv

\* A request that is abandoned.
LEMMA FailureFrees ==
  ASSUME InTurn, UNCHANGED serial, Failure
  PROVE  /\ InTurn'
         /\ \A s \in Sessions : work'[s] = None \/ work'[s] = work[s]
         /\ UNCHANGED <<today, commsVars, narrative, reviewVars, agreed>>
BY EndsAlone DEF Failure, Abandon

\* No step of another desk, and no failure, writes a narrative.
LEMMA NarrativesElsewhere ==
  ASSUME NarrativeInv, UNCHANGED <<desk, serial, narrative, agreed>>, InTurn',
         \/ desk # "narratives"
         \/ \A s \in Sessions : work'[s] = None \/ work'[s] = work[s]
  PROVE  NarrativeInv'
<1>1. NarrativeShape'
  BY DEF NarrativeInv, NarrativeShape, NothingWritten
<1>2. ASSUME serial, desk = "narratives" PROVE NarrativeTurn'
  <2>1. NarrativeTurn
    BY <1>2 DEF NarrativeInv
  <2>2. UNCHANGED <<narrative, agreed, Kept>>
    BY DEF Kept
  <2>3. \A topic \in Topics : OneStands(topic)'
    BY <2>1, <2>2 DEF NarrativeTurn, OneStands, InForce, Kept
  <2>4. ASSUME NEW s \in Sessions, work'[s] # None PROVE JudgedNow(work[s])'
    <3>1. work'[s] = work[s] /\ JudgedNow(work[s])
      BY <1>2, <2>1, <2>4 DEF NarrativeTurn
    <3>. QED
      BY <2>2, <3>1 DEF JudgedNow, Printable, InForce
  <2>5. \A n \in Kept' : ApprovedAsAgreed(n)'
    BY <2>1, <2>2 DEF NarrativeTurn, ApprovedAsAgreed
  <2>. QED
    BY <2>1, <2>2, <2>3, <2>4, <2>5 DEF NarrativeTurn
<1>. QED
  BY <1>1, <1>2 DEF NarrativeInv

\* The columns a request is about to write.
LEMMA JobColumns ==
  ASSUME NEW job, JudgedNow(job)
  PROVE  /\ job.text \in Texts \cup {None} /\ job.author \in Authors \cup {None}
         /\ job.status \in NARRATIVE_STATUSES \cup {None} /\ job.reviewer \in Authors \cup {None}
         /\ job.on \in Kept /\ narrative[job.on].status # "approved"
         /\ job.status # "approved" => job.replaces = None
         /\ job.status = "approved" =>
              /\ narrative[job.on].status = "draft" /\ job.text = None
              /\ job.replaces = Printable(narrative[job.on].topic)
<1>. DEFINE n == job.on
            standing == Printable(narrative[n].topic)
<1>1. None # "approved"
  BY NarrativesAssumption DEF NARRATIVE_STATUSES
<1>2. /\ n \in Kept
      /\ \/ \E text \in Texts, a \in Authors : job = Edit(n, text, a)
         \/ \E a \in Authors : job = Verdict(n, "rejected", a, None) \/ job = Verdict(n, None, a, None)
         \/ \E a \in Authors : narrative[n].status = "draft" /\ job = Verdict(n, "approved", a, standing)
      /\ narrative[n].status # "approved"
  BY DEF JudgedNow
<1>3. ASSUME NEW text \in Texts, NEW a \in Authors, job = Edit(n, text, a)
      PROVE  /\ job.text = text /\ job.author = a /\ job.status = None /\ job.reviewer = None
             /\ job.replaces = None
  BY <1>3 DEF Edit
<1>4. ASSUME NEW a \in Authors, NEW to, NEW other, job = Verdict(n, to, a, other)
      PROVE  /\ job.text = None /\ job.author = None /\ job.status = to /\ job.reviewer = a
             /\ job.replaces = other
  BY <1>4 DEF Verdict
<1>. HIDE DEF n, standing
<1>5. CASE \E text \in Texts, a \in Authors : job = Edit(n, text, a)
  BY <1>1, <1>2, <1>3, <1>5 DEF n
<1>6. CASE \E a \in Authors : job = Verdict(n, "rejected", a, None) \/ job = Verdict(n, None, a, None)
  BY <1>1, <1>2, <1>4, <1>6 DEF n, NARRATIVE_STATUSES
<1>7. CASE \E a \in Authors : narrative[n].status = "draft" /\ job = Verdict(n, "approved", a, standing)
  <2>1. PICK a \in Authors : narrative[n].status = "draft" /\ job = Verdict(n, "approved", a, standing)
    BY <1>7
  <2>. QED
    BY <1>2, <1>4, <2>1 DEF n, standing, NARRATIVE_STATUSES
<1>. QED
  BY <1>2, <1>5, <1>6, <1>7

\* What a commit leaves, given the row it reviewed and the one it replaces.
LEMMA CommitWrites ==
  ASSUME NarrativeShape, NarrativeTurn, NEW s \in Sessions, CommitReview(s)
  PROVE  LET job == work[s]
             n == job.on
         IN  /\ n \in Kept /\ DOMAIN narrative' = NarrativeIds
             /\ narrative'[n] \in NarrativeRows
             /\ narrative'[n].topic = narrative[n].topic
             /\ narrative'[n].superseded = narrative[n].superseded
             /\ narrative'[n].status = OrElse(narrative[n].status, job.status)
             /\ narrative'[n].text = OrElse(narrative[n].text, job.text)
             /\ \A m \in NarrativeIds \ {n} :
                  narrative'[m] = IF job.replaces # None /\ m = job.replaces
                                  THEN [narrative[m] EXCEPT !.superseded = TRUE]
                                  ELSE narrative[m]
<1>. DEFINE job == work[s]
            n == job.on
            was == narrative[n]
            new == [was EXCEPT !.text = OrElse(@, job.text), !.author = OrElse(@, job.author),
                               !.status = OrElse(@, job.status),
                               !.reviewer = OrElse(@, job.reviewer)]
<1>1. work[s] # None /\ JudgedNow(job)
  BY DEF CommitReview, NarrativeTurn
<1>2. n \in Kept /\ n \in NarrativeIds /\ was \in NarrativeRows
  BY <1>1 DEF JudgedNow, NarrativeTurn, Kept
<1>3. /\ job.text \in Texts \cup {None} /\ job.author \in Authors \cup {None}
      /\ job.status \in NARRATIVE_STATUSES \cup {None} /\ job.reviewer \in Authors \cup {None}
  BY <1>1, JobColumns
<1>4. /\ new \in NarrativeRows
      /\ new.topic = was.topic /\ new.superseded = was.superseded
      /\ new.text = OrElse(was.text, job.text) /\ new.status = OrElse(was.status, job.status)
  BY <1>2, <1>3 DEF NarrativeRows, OrElse
<1>5. /\ DOMAIN narrative' = NarrativeIds
      /\ narrative'[n] = new
      /\ \A m \in NarrativeIds \ {n} :
           narrative'[m] = IF job.replaces # None /\ m = job.replaces
                           THEN [narrative[m] EXCEPT !.superseded = TRUE]
                           ELSE narrative[m]
  BY <1>2 DEF CommitReview
<1>. HIDE DEF new
<1>. QED
  BY <1>2, <1>4, <1>5

\* The standing text of a subject, as an approval finds it.
LEMMA PrintableStands ==
  ASSUME NEW topic \in Topics, OneStands(topic)
  PROVE  \/ InForce(topic) = {} /\ Printable(topic) = None
         \/ InForce(topic) = {Printable(topic)} /\ Printable(topic) \in Kept
<1>1. CASE InForce(topic) = {}
  BY <1>1 DEF Printable, Newest
<1>2. ASSUME NEW n \in InForce(topic) PROVE InForce(topic) = {Printable(topic)} /\ Printable(topic) \in Kept
  <2>1. InForce(topic) = {n} /\ n \in Kept /\ n \in Nat
    BY <1>2, NarrativesAssumption DEF OneStands, InForce, Kept
  <2>2. \A k : k \in {n} /\ (\A m \in {n} : m <= k) <=> k = n
    BY <2>1
  <2>3. Newest({n}) = n
    BY <2>2 DEF Newest
  <2>. QED
    BY <2>1, <2>3 DEF Printable
<1>. QED
  BY <1>1, <1>2

\* What the desk remembers each approval to have been of.
Remembers ==
  /\ DOMAIN agreed' = NarrativeIds
  /\ \A n \in NarrativeIds :
       agreed'[n] = IF n \in Kept /\ narrative'[n].status = "approved"
                         /\ narrative[n].status # "approved"
                    THEN narrative[n].text ELSE agreed[n]

\* A row that is written and approves nothing: a new draft, an edit, a rejection.
LEMMA UnapprovedTurn ==
  ASSUME NarrativeShape, NarrativeTurn, Remembers, NEW n \in NarrativeIds,
         DOMAIN narrative' = NarrativeIds,
         n \in Kept => /\ narrative[n].status # "approved"
                       /\ narrative'[n].superseded = narrative[n].superseded,
         n \notin Kept => ~narrative'[n].superseded,
         narrative'[n] \in NarrativeRows, narrative'[n].status # "approved",
         \A m \in NarrativeIds \ {n} : narrative'[m] = narrative[m],
         \A s \in Sessions : work'[s] = None
  PROVE  NarrativeTurn'
<1>1. Kept' = Kept \cup {n}
  BY NarrativesAssumption DEF Kept
<1>2. \A m \in NarrativeIds : agreed'[m] = agreed[m]
  BY DEF Kept, Remembers
<1>3. ASSUME NEW topic PROVE InForce(topic)' = InForce(topic)
  BY <1>1 DEF InForce, Kept
<1>4. \A m \in Kept' : ApprovedAsAgreed(m)'
  BY <1>1, <1>2 DEF ApprovedAsAgreed, NarrativeTurn, Kept
<1>5. \A topic \in Topics : OneStands(topic)'
  BY <1>1, <1>3 DEF OneStands, NarrativeTurn, Kept
<1>. QED
  BY <1>1, <1>2, <1>4, <1>5 DEF NarrativeTurn

\* A row that is approved takes the place of the one that stood for its topic.
LEMMA ApprovedTurn ==
  ASSUME NarrativeShape, NarrativeTurn, Remembers, NEW n \in Kept,
         narrative[n].status = "draft", DOMAIN narrative' = NarrativeIds,
         narrative'[n] \in NarrativeRows, narrative'[n].status = "approved",
         narrative'[n].topic = narrative[n].topic, narrative'[n].text = narrative[n].text,
         narrative'[n].superseded = narrative[n].superseded,
         \A m \in NarrativeIds \ {n} :
           narrative'[m] = IF InForce(narrative[n].topic) = {m}
                           THEN [narrative[m] EXCEPT !.superseded = TRUE] ELSE narrative[m],
         \A s \in Sessions : work'[s] = None
  PROVE  NarrativeTurn'
<1>. DEFINE topic == narrative[n].topic
<1>1. n \in NarrativeIds /\ n \notin InForce(topic) /\ narrative[n] \in NarrativeRows /\ topic \in Topics
  BY DEF Kept, InForce, NarrativeTurn, NarrativeRows
<1>2. ASSUME NEW m \in Kept \ {n}
      PROVE  /\ narrative[m] \in NarrativeRows /\ narrative'[m] \in NarrativeRows
             /\ narrative'[m].topic = narrative[m].topic
             /\ narrative'[m].text = narrative[m].text
             /\ narrative'[m].status = narrative[m].status
             /\ narrative'[m].superseded <=> narrative[m].superseded \/ InForce(topic) = {m}
             /\ InForce(topic) = {m} => narrative[m].status = "approved"
  <2>1. narrative[m] \in NarrativeRows
    BY DEF NarrativeTurn, Kept
  <2>2. narrative'[m] = IF InForce(topic) = {m}
                        THEN [narrative[m] EXCEPT !.superseded = TRUE] ELSE narrative[m]
    BY DEF Kept
  <2>3. InForce(topic) = {m} => narrative[m].status = "approved"
    BY DEF InForce
  <2>. QED
    BY <2>1, <2>2, <2>3 DEF NarrativeRows
<1>3. Kept' = Kept
  BY <1>1, <1>2, NarrativesAssumption DEF Kept, InForce
<1>4. ~narrative[n].superseded /\ ~narrative'[n].superseded
  BY DEF NarrativeTurn, ApprovedAsAgreed
<1>5. InForce(topic)' = {n}
  <2>1. InForce(topic) = {} \/ \E m : InForce(topic) = {m}
    <3>1. \A k, m \in InForce(topic) : k = m
      BY <1>1 DEF NarrativeTurn, OneStands
    <3>. QED
      BY <3>1
  <2>2. \A m \in Kept \ {n} : ~(narrative'[m].topic = topic /\ narrative'[m].status = "approved"
                                  /\ ~narrative'[m].superseded)
    BY <1>2, <2>1 DEF InForce, Kept
  <2>3. narrative'[n].topic = topic
    OBVIOUS
  <2>. QED
    BY <1>3, <1>4, <2>2, <2>3 DEF InForce
<1>6. ASSUME NEW other \in Topics \ {topic} PROVE InForce(other)' = InForce(other)
  <2>1. \A m \in InForce(topic) : narrative[m].topic = topic
    BY DEF InForce
  <2>. QED
    BY <1>2, <1>3, <2>1 DEF InForce
<1>7. \A m \in NarrativeIds : agreed'[m] = IF m = n THEN narrative[n].text ELSE agreed[m]
  BY <1>1, <1>2 DEF Remembers
<1>8. ASSUME NEW m \in Kept PROVE ApprovedAsAgreed(m)'
  <2>1. CASE m = n
    <3>1. narrative[n].text # None
      BY <1>1, NarrativesAssumption DEF NarrativeRows
    <3>. QED
      BY <1>1, <1>7, <2>1, <3>1 DEF ApprovedAsAgreed
  <2>2. CASE m # n
    <3>1. ApprovedAsAgreed(m) /\ m \in NarrativeIds
      BY DEF NarrativeTurn, Kept
    <3>. QED
      BY <1>2, <1>7, <2>2, <3>1 DEF ApprovedAsAgreed
  <2>. QED
    BY <2>1, <2>2
<1>9. ASSUME NEW other \in Topics PROVE OneStands(other)'
  <2>1. CASE other = topic
    BY <1>5, <2>1 DEF OneStands
  <2>2. CASE other # topic
    BY <1>2, <1>3, <1>6, <2>2 DEF OneStands, NarrativeTurn
  <2>. QED
    BY <2>1, <2>2
<1>10. \A m \in NarrativeIds : narrative'[m] \in NarrativeRows \cup {None}
  <2>1. \A m \in NarrativeIds \ Kept : narrative'[m] = None
    BY <1>1 DEF Kept, InForce
  <2>. QED
    BY <1>2, <2>1
<1>11. \A m \in NarrativeIds \ Kept : agreed'[m] = None
  BY <1>7 DEF NarrativeTurn
<1>. QED
  BY <1>3, <1>8, <1>9, <1>10, <1>11 DEF NarrativeTurn

LEMMA CommitTurn ==
  ASSUME NarrativeShape, NarrativeTurn, Remembers, serial, UNCHANGED serial,
         NEW s \in Sessions, CommitReview(s)
  PROVE  NarrativeTurn' /\ InTurn' /\ DOMAIN narrative' = NarrativeIds
<1>. DEFINE job == work[s]
            n == job.on
<1>1. work[s] # None /\ JudgedNow(job)
  BY DEF CommitReview, NarrativeTurn
<1>2. InTurn' /\ \A t \in Sessions : work'[t] = None
  BY <1>1, EndsAlone DEF NarrativeShape, CommitReview
<1>3. /\ n \in Kept /\ n \in NarrativeIds /\ DOMAIN narrative' = NarrativeIds
      /\ narrative[n] \in NarrativeRows /\ narrative'[n] \in NarrativeRows
      /\ narrative'[n].topic = narrative[n].topic
      /\ narrative'[n].superseded = narrative[n].superseded
      /\ narrative'[n].status = OrElse(narrative[n].status, job.status)
      /\ narrative'[n].text = OrElse(narrative[n].text, job.text)
      /\ \A m \in NarrativeIds \ {n} :
           narrative'[m] = IF job.replaces # None /\ m = job.replaces
                           THEN [narrative[m] EXCEPT !.superseded = TRUE]
                           ELSE narrative[m]
  BY CommitWrites DEF NarrativeTurn, Kept
<1>4. /\ narrative[n].status # "approved"
      /\ job.status # "approved" => job.replaces = None
      /\ job.status = "approved" => /\ narrative[n].status = "draft" /\ job.text = None
                                    /\ job.replaces = Printable(narrative[n].topic)
  BY <1>1, JobColumns
<1>. HIDE DEF n, job
<1>5. CASE job.status # "approved"
  BY <1>2, <1>3, <1>4, <1>5, UnapprovedTurn DEF OrElse
<1>6. CASE job.status = "approved"
  <2>. DEFINE topic == narrative[n].topic
  <2>1. topic \in Topics /\ OneStands(topic)
    BY <1>3 DEF NarrativeRows, NarrativeTurn
  <2>2. \A m \in NarrativeIds : job.replaces # None /\ m = job.replaces <=> InForce(topic) = {m}
    BY <1>4, <1>6, <2>1, PrintableStands, NarrativesAssumption
  <2>3. narrative'[n].status = "approved" /\ narrative'[n].text = narrative[n].text
    BY <1>3, <1>4, <1>6, NarrativesAssumption DEF OrElse, NARRATIVE_STATUSES
  <2>4. \A m \in NarrativeIds \ {n} :
          narrative'[m] = IF InForce(topic) = {m}
                          THEN [narrative[m] EXCEPT !.superseded = TRUE] ELSE narrative[m]
    BY <1>3, <2>2
  <2>. QED
    BY <1>2, <1>3, <1>4, <1>6, <2>3, <2>4, ApprovedTurn
<1>. QED
  BY <1>2, <1>3, <1>5, <1>6

\* A request that has read a row decides on it.
LEMMA DecideTurn ==
  ASSUME NarrativeShape, NarrativeTurn, Remembers, serial, UNCHANGED <<serial, narrative>>,
         NEW s \in Sessions, NEW job, JudgedNow(job), Decide(s, job)
  PROVE  NarrativeTurn' /\ InTurn'
<1>1. InTurn' /\ \A t \in Sessions : work'[t] = job \/ work'[t] = None
  BY DecidesAlone DEF NarrativeShape
<1>2. \A n \in NarrativeIds : agreed'[n] = agreed[n]
  BY DEF Remembers
<1>3. Kept' = Kept /\ \A topic : InForce(topic)' = InForce(topic)
  BY DEF Kept, InForce
<1>4. \A n \in Kept : ApprovedAsAgreed(n)'
  BY <1>2 DEF NarrativeTurn, ApprovedAsAgreed, Kept
<1>5. \A topic \in Topics : OneStands(topic)'
  BY <1>3 DEF NarrativeTurn, OneStands
<1>6. ASSUME NEW t \in Sessions, work'[t] # None PROVE JudgedNow(work[t])'
  <2>1. work'[t] = job
    BY <1>1, <1>6
  <2>. QED
    BY <1>3, <2>1 DEF JudgedNow, Printable
<1>. QED
  BY <1>1, <1>2, <1>3, <1>4, <1>5, <1>6 DEF NarrativeTurn

LEMMA BeginsJudged ==
  ASSUME NarrativeTurn, NEW n \in NarrativeIds, NEW a \in Authors, n \in Kept
  PROVE  /\ Revisable(n) => \A text \in Texts : JudgedNow(Edit(n, text, a))
         /\ narrative[n].status = "draft" =>
              JudgedNow(Verdict(n, "approved", a, Printable(narrative[n].topic)))
         /\ narrative[n].status # "approved" =>
              JudgedNow(Verdict(n, IF narrative[n].status = "draft" THEN "rejected" ELSE None,
                                a, None))
<1>1. \A text : Edit(n, text, a).desk = "narratives" /\ Edit(n, text, a).on = n
  BY DEF Edit
<1>2. \A to, other : Verdict(n, to, a, other).desk = "narratives" /\ Verdict(n, to, a, other).on = n
  BY DEF Verdict
<1>3. narrative[n].status \in NARRATIVE_STATUSES
  BY DEF NarrativeTurn, NarrativeRows, Kept
<1>. QED
  BY <1>1, <1>2, <1>3 DEF JudgedNow, Revisable, NARRATIVE_STATUSES

LEMMA WriteTurn ==
  ASSUME NarrativeShape, NarrativeTurn, Remembers, serial, UNCHANGED serial,
         NEW topic \in Topics, NEW text \in Texts, NEW a \in Authors, Write(topic, text, a)
  PROVE  NarrativeTurn' /\ InTurn' /\ DOMAIN narrative' = NarrativeIds
<1>. DEFINE draft == NewDraft(topic, text, a)
<1>1. PICK n \in NarrativeIds \ Kept : narrative' = [narrative EXCEPT ![n] = draft]
  BY DEF Write
<1>2. /\ draft \in NarrativeRows /\ draft.status = "draft" /\ ~draft.superseded
  BY DEF NewDraft, NarrativeRows, NARRATIVE_STATUSES
<1>3. InTurn' /\ \A t \in Sessions : work'[t] = None
  BY DEF Write, Quiet, InTurn, OnePending, NarrativeShape
<1>. HIDE DEF draft
<1>4. /\ DOMAIN narrative' = NarrativeIds /\ narrative'[n] = draft
      /\ \A m \in NarrativeIds \ {n} : narrative'[m] = narrative[m]
  BY <1>1 DEF NarrativeShape
<1>. QED
  BY <1>1, <1>2, <1>3, <1>4, UnapprovedTurn

LEMMA NarrativesStep ==
  ASSUME NarrativeInv, NarrativesDesk, UNCHANGED <<desk, serial>>
  PROVE  NarrativeInv'
<1>1. /\ NarrativeShape /\ desk = "narratives" /\ NarrativesNext /\ Remembers
  BY DEF NarrativesDesk, NarrativeInv, Remembers
<1>. DEFINE Goal == (serial => NarrativeTurn') /\ InTurn' /\ DOMAIN narrative' = NarrativeIds
<1>2. ASSUME NEW topic \in Topics, NEW text \in Texts, NEW a \in Authors, Write(topic, text, a)
      PROVE  Goal
  <2>1. CASE serial
    BY <1>1, <1>2, <2>1, WriteTurn DEF NarrativeInv
  <2>2. CASE ~serial
    BY <1>1, <1>2, <2>2 DEF Write, NarrativeShape, InTurn, OnePending
  <2>. QED
    BY <2>1, <2>2
<1>3. ASSUME NEW s \in Sessions, NEW n \in NarrativeIds, NEW a \in Authors,
             \/ \E text \in Texts : BeginRevise(s, n, text, a)
             \/ BeginApprove(s, n, a) \/ BeginReject(s, n, a)
      PROVE  Goal
  <2>1. PICK job : /\ Decide(s, job) /\ UNCHANGED narrative
                   /\ NarrativeTurn => JudgedNow(job)
    BY <1>3, BeginsJudged DEF BeginRevise, BeginApprove, BeginReject
  <2>2. CASE serial
    BY <1>1, <2>1, <2>2, DecideTurn DEF NarrativeInv, NarrativeShape
  <2>3. CASE ~serial
    BY <1>1, <2>1, <2>3, DecidesAlone DEF NarrativeShape
  <2>. QED
    BY <2>2, <2>3
<1>4. ASSUME NEW s \in Sessions, CommitReview(s) PROVE Goal
  <2>1. CASE serial
    BY <1>1, <1>4, <2>1, CommitTurn DEF NarrativeInv
  <2>2. CASE ~serial
    BY <1>1, <1>4, <2>2, EndsAlone DEF CommitReview, NarrativeShape
  <2>. QED
    BY <2>1, <2>2
<1>5. Goal
  <2>1. \/ \E topic \in Topics, text \in Texts, a \in Authors : Write(topic, text, a)
        \/ \E s \in Sessions, n \in NarrativeIds, a \in Authors :
             \/ \E text \in Texts : BeginRevise(s, n, text, a)
             \/ BeginApprove(s, n, a) \/ BeginReject(s, n, a)
        \/ \E s \in Sessions : CommitReview(s)
    BY <1>1 DEF NarrativesNext
  <2>. HIDE DEF Goal
  <2>. QED
    BY <1>2, <1>3, <1>4, <2>1
<1>. QED
  BY <1>1, <1>5 DEF NarrativeInv, NarrativeShape, Remembers

LEMMA NarrativesHold == Spec => []NarrativeInv
<1>1. NarrativeInv /\ [Next]_recordVars => NarrativeInv'
  <2>. SUFFICES ASSUME NarrativeInv, [Next]_recordVars PROVE NarrativeInv'
    OBVIOUS
  <2>0. InTurn /\ InTurn'
    BY NextInTurn DEF NarrativeInv, NarrativeShape
  <2>1. CASE UNCHANGED recordVars
    BY <2>0, <2>1, NarrativesElsewhere DEF recordVars
  <2>2. CASE Failure /\ UNCHANGED <<desk, serial>>
    BY <2>0, <2>2, FailureFrees, NarrativesElsewhere
  <2>3. CASE NarrativesDesk /\ UNCHANGED <<desk, serial>>
    BY <2>3, NarrativesStep
  <2>4. CASE (LeadsDesk \/ LogDesk \/ ReviewDesk) /\ UNCHANGED <<desk, serial>>
    BY <2>0, <2>4, NarrativesElsewhere DEF LeadsDesk, LogDesk, ReviewDesk
  <2>. QED
    BY <2>1, <2>2, <2>3, <2>4 DEF Next
<1>. QED
  BY InitNarratives, <1>1, PTL DEF Spec

\* Requests in turn: a subject has one text to print once one was approved, and
\* it is the text its approver approved.
THEOREM ClientsReadTheApproved == Spec => []ClientReadsWhatWasApproved
<1>1. NarrativeInv => ClientReadsWhatWasApproved
  <2>. SUFFICES ASSUME NarrativeInv, serial, NEW topic \in Topics
                PROVE  /\ Cardinality(InForce(topic)) <= 1
                       /\ \A n \in InForce(topic) : narrative[n].text = agreed[n]
                       /\ (\E n \in Kept : narrative[n].topic = topic /\ agreed[n] # None)
                            => InForce(topic) # {}
    BY DEF ClientReadsWhatWasApproved
  <2>1. CASE desk # "narratives"
    <3>1. Kept = {} /\ InForce(topic) = {}
      BY <2>1 DEF NarrativeInv, NarrativeShape, NothingWritten, Kept, InForce
    <3>. QED
      BY <3>1, FS_EmptySet
  <2>2. CASE desk = "narratives"
    <3>1. NarrativeTurn /\ OneStands(topic)
      BY <2>2 DEF NarrativeInv, NarrativeTurn
    <3>2. InForce(topic) = {} \/ \E n : InForce(topic) = {n}
      BY <3>1 DEF OneStands
    <3>3. Cardinality(InForce(topic)) <= 1
      <4>1. ASSUME NEW n, InForce(topic) = {n} PROVE Cardinality(InForce(topic)) = 1
        BY <4>1, FS_Singleton
      <4>2. ASSUME InForce(topic) = {} PROVE Cardinality(InForce(topic)) = 0
        BY <4>2, FS_EmptySet
      <4>. HIDE DEF InForce
      <4>. QED
        BY <3>2, <4>1, <4>2
    <3>4. \A n \in InForce(topic) : narrative[n].text = agreed[n]
      BY <3>1 DEF NarrativeTurn, ApprovedAsAgreed, InForce
    <3>5. \A n \in Kept : narrative[n].topic = topic /\ agreed[n] # None => InForce(topic) # {}
      BY <3>1 DEF NarrativeTurn, ApprovedAsAgreed, OneStands
    <3>. QED
      BY <3>3, <3>4, <3>5
  <2>. QED
    BY <2>1, <2>2
<1>. QED
  BY NarrativesHold, <1>1, PTL

-------------------------------------------------------------------------------
(***************************************************************************)
(* Leads                                                                   *)
(***************************************************************************)

\* Stages a move could have left, of those a history brought its lead to.
CameBefore(l, stage, at) == \E f \in events[l] : f.to = stage /\ f.at < at

\* One arrival, and moves from where it or an earlier one ended.
Arrives(l, arrival) ==
  /\ arrival \in events[l] /\ arrival.from = None
  /\ \A e \in events[l] \ {arrival} :
       e.from # e.to /\ e.at > arrival.at /\ CameBefore(l, e.from, e.at)

\* In turn: each event from where the one just before it ended, the last of them
\* where the lead is.
Placed(l, e) ==
  /\ e.from = None \/ \E f \in JustBefore(l, e) : f.to = e.from
  /\ e.at < lead[l].since \/ (e.at = lead[l].since /\ e.to = lead[l].stage)

\* The history of a lead holds the move that took it where it is.
HistoryOf(l) ==
  /\ events[l] \subseteq EventRows
  /\ \E e \in events[l] : e.to = lead[l].stage /\ e.at = lead[l].since
  /\ \E arrival : Arrives(l, arrival)
  /\ serial => \A e \in events[l] : Placed(l, e)

\* A move a request has decided on: in turn, it is from where the lead is, and
\* later than it got there.
MoveDecided(job) ==
  /\ job.lead \in Recorded /\ job.at \in Int
  /\ job.target \in Keys /\ job.left \in Keys /\ job.target # job.left
  /\ job.reason \in BOOLEAN
  /\ job.next \in Int \cup {None} /\ job.had \in Int \cup {None}
  /\ CameBefore(job.lead, job.left, job.at)
  /\ serial => job.left = lead[job.lead].stage /\ job.at > lead[job.lead].since

LogDesks == {"calls", "log"}

LeadInv ==
  /\ today \in Int
  /\ DOMAIN lead = Leads /\ DOMAIN events = Leads
  /\ desk \in LogDesks =>
       \A l \in Leads : HistoryOf(l) /\ {"stage", "since"} \subseteq DOMAIN lead[l]
  /\ desk = "leads" =>
       /\ \A l \in Recorded : HistoryOf(l) /\ lead[l] \in LeadRows
       /\ \A s \in Sessions : work[s] # None => MoveDecided(work[s])
  /\ desk \notin LogDesks \cup {"leads"} => Recorded = {}

LEMMA ArrivalIsAStage == (CHOOSE k \in Defaults : TRUE) \in Keys
<1>1. Defaults # {}
  BY PipelineAssumption, FS_EmptySet DEF PipelineSound
<1>. QED
  BY <1>1 DEF Defaults

LEMMA MomentsAreTimes ==
  ASSUME today \in Int
  PROVE  FirstOf(today) \in Int /\ Moments(today) \subseteq Int
BY PipelineAssumption DEF FirstOf, Moments

LEMMA NewLeadRow ==
  ASSUME NEW stage \in Keys \cup {None}, NEW next \in Int \cup {None}, NEW owned \in BOOLEAN,
         NEW client \in Clients \cup {None}, today \in Int
  PROVE  NewLead(stage, next, owned, client) \in LeadRows
<1>1. FirstOf(today) \in Int /\ today + NextActionDays \in Int
  BY MomentsAreTimes, PipelineAssumption
<1>. QED
  BY <1>1, ArrivalIsAStage DEF NewLead, LeadRows

\* A history of one event.
LEMMA HistoryBegins ==
  ASSUME NEW l, lead[l] \in LeadRows, events[l] = {Arrival(lead[l])}
  PROVE  HistoryOf(l)
<1>. PICK e : e = Arrival(lead[l])
  OBVIOUS
<1>1. e \in EventRows /\ e.from = None /\ e.to = lead[l].stage /\ e.at = lead[l].since
  BY DEF Arrival, EventRows, LeadRows
<1>2. events[l] = {e}
  OBVIOUS
<1>3. Arrives(l, e) /\ Placed(l, e)
  BY <1>1, <1>2 DEF Arrives, Placed
<1>. QED
  BY <1>1, <1>2, <1>3 DEF HistoryOf

LEMMA InitLeads == Init => LeadInv
<1>. SUFFICES ASSUME Init PROVE LeadInv
  OBVIOUS
<1>1. CASE desk \in LogDesks
  <2>1. PICK owned \in BOOLEAN, client \in Clients \cup {None} :
          /\ today = Horizon
          /\ lead = [l \in Leads |-> [NewLead(None, today + 1, owned, client) EXCEPT !.since = 0]]
          /\ events = [l \in Leads |-> {Arrival(lead[l])}]
    BY <1>1 DEF Init, LogDesks
  <2>2. today \in Int
    BY <2>1, ClockAssumption
  <2>3. PICK new \in LeadRows : lead = [l \in Leads |-> [new EXCEPT !.since = 0]]
    <3>1. PICK new : new = NewLead(None, today + 1, owned, client)
      OBVIOUS
    <3>2. None \in Keys \cup {None} /\ today + 1 \in Int \cup {None}
      BY <2>2
    <3>3. new \in LeadRows
      BY <2>1, <2>2, <3>1, <3>2, NewLeadRow
    <3>4. lead = [l \in Leads |-> [new EXCEPT !.since = 0]]
      BY <2>1, <3>1
    <3>. QED
      BY <3>3, <3>4
  <2>4. [new EXCEPT !.since = 0] \in LeadRows
    BY DEF LeadRows
  <2>5. ASSUME NEW l \in Leads PROVE lead[l] \in LeadRows /\ HistoryOf(l)
    <3>1. lead[l] \in LeadRows /\ events[l] = {Arrival(lead[l])}
      BY <2>1, <2>3, <2>4
    <3>. QED
      BY <3>1, HistoryBegins
  <2>6. \A l \in Leads : {"stage", "since"} \subseteq DOMAIN lead[l]
    BY <2>5 DEF LeadRows
  <2>. QED
    BY <1>1, <2>1, <2>2, <2>5, <2>6 DEF LeadInv, LogDesks
<1>2. CASE desk \notin LogDesks
  <2>1. today = 0 /\ lead = [l \in Leads |-> None] /\ events = [l \in Leads |-> {}]
        /\ \A s \in Sessions : work[s] = None
    BY <1>2 DEF Init, LogDesks, PipelineInit, RequestsInit
  <2>. QED
    BY <1>2, <2>1 DEF LeadInv, Recorded
<1>. QED
  BY <1>1, <1>2

\* A history that does not move, on a row whose stage does not.
LEMMA HistoryKept ==
  ASSUME NEW l, UNCHANGED serial, events'[l] = events[l],
         lead'[l].stage = lead[l].stage, lead'[l].since = lead[l].since
  PROVE  /\ HistoryOf(l)' <=> HistoryOf(l)
         /\ \A stage, at : CameBefore(l, stage, at)' <=> CameBefore(l, stage, at)
<1>1. \A stage, at : CameBefore(l, stage, at)' <=> CameBefore(l, stage, at)
  BY DEF CameBefore
<1>2. \A e : JustBefore(l, e)' = JustBefore(l, e)
  BY DEF JustBefore, Earlier
<1>3. \A e : (Arrives(l, e)' <=> Arrives(l, e)) /\ (Placed(l, e)' <=> Placed(l, e))
  BY <1>1, <1>2 DEF Arrives, Placed
<1>. QED
  BY <1>1, <1>3 DEF HistoryOf

\* No step of another desk moves a lead.
LEMMA LeadsElsewhere ==
  ASSUME LeadInv, UNCHANGED <<desk, serial, lead, events, today>>,
         \/ desk # "leads"
         \/ \A s \in Sessions : work'[s] = None \/ work'[s] = work[s]
  PROVE  LeadInv'
<1>1. UNCHANGED Recorded
  BY DEF Recorded
<1>2. \A l : /\ HistoryOf(l)' <=> HistoryOf(l)
             /\ \A stage, at : CameBefore(l, stage, at)' <=> CameBefore(l, stage, at)
  BY HistoryKept
<1>3. ASSUME desk = "leads", NEW s \in Sessions, work'[s] # None PROVE MoveDecided(work[s])'
  <2>1. work'[s] = work[s] /\ MoveDecided(work[s])
    BY <1>3 DEF LeadInv
  <2>. QED
    BY <1>1, <1>2, <2>1 DEF MoveDecided
<1>. QED
  BY <1>1, <1>2, <1>3 DEF LeadInv

\* A step that writes one lead, and leaves it with its history.
LEMMA LeadWritten ==
  ASSUME LeadInv, desk = "leads", UNCHANGED <<desk, serial, today>>,
         NEW l \in Leads, NEW new \in LeadRows, lead' = [lead EXCEPT ![l] = new],
         HistoryOf(l)', DOMAIN events' = Leads,
         \A k \in Leads \ {l} : events'[k] = events[k],
         l \in Recorded => events[l] \subseteq events'[l],
         \A s \in Sessions :
           \/ work'[s] = None
           \/ /\ work'[s] = work[s]
              /\ \/ l \notin Recorded \/ ~serial
                 \/ new.stage = lead[l].stage /\ new.since = lead[l].since
  PROVE  LeadInv'
<1>1. Recorded' = Recorded \cup {l} /\ lead'[l] = new
      /\ \A k \in Leads \ {l} : lead'[k] = lead[k]
  BY PipelineAssumption DEF LeadInv, Recorded
<1>2. ASSUME NEW k \in Recorded' PROVE HistoryOf(k)' /\ lead'[k] \in LeadRows
  <2>1. CASE k = l
    BY <1>1, <2>1
  <2>2. CASE k # l
    <3>1. k \in Leads /\ HistoryOf(k) /\ lead[k] \in LeadRows
      BY <1>1, <1>2, <2>2 DEF LeadInv, Recorded
    <3>2. events'[k] = events[k] /\ lead'[k] = lead[k]
      BY <1>1, <2>2, <3>1
    <3>. QED
      BY <3>1, <3>2, HistoryKept
  <2>. QED
    BY <2>1, <2>2
<1>3. ASSUME NEW s \in Sessions, work'[s] # None PROVE MoveDecided(work[s])'
  <2>. PICK job : job = work[s]
    OBVIOUS
  <2>1. work'[s] = job /\ MoveDecided(job)
    BY <1>3 DEF LeadInv
  <2>. PICK k : k = job.lead
    OBVIOUS
  <2>2. k \in Recorded /\ k \in Leads
    BY <2>1 DEF MoveDecided, Recorded
  <2>3. serial => lead'[k].stage = lead[k].stage /\ lead'[k].since = lead[k].since
    BY <1>1, <1>3, <2>1, <2>2
  <2>4. CameBefore(k, job.left, job.at)'
    <3>1. events[k] \subseteq events'[k]
      BY <2>2
    <3>. QED
      BY <2>1, <3>1 DEF MoveDecided, CameBefore
  <2>5. k \in Recorded'
    BY <1>1, <2>2
  <2>. QED
    BY <2>1, <2>3, <2>4, <2>5 DEF MoveDecided
<1>. QED
  BY <1>1, <1>2, <1>3 DEF LeadInv, LogDesks

LEMMA CreateKeeps ==
  ASSUME LeadInv, desk = "leads", UNCHANGED <<desk, serial, today>>,
         NEW l \in Leads, NEW stage \in Keys \cup {None}, NEW next \in Int \cup {None},
         NEW owned \in BOOLEAN, NEW client \in Clients \cup {None},
         Create(l, stage, next, owned, client)
  PROVE  LeadInv'
<1>. PICK new : new = NewLead(stage, next, owned, client)
  OBVIOUS
<1>1. new \in LeadRows
  BY NewLeadRow DEF LeadInv
<1>2. /\ lead' = [lead EXCEPT ![l] = new]
      /\ events' = [events EXCEPT ![l] = {Arrival(new)}]
      /\ UNCHANGED work /\ l \notin Recorded
  BY DEF Create, Recorded
<1>3. lead'[l] = new /\ events'[l] = {Arrival(new)}
      /\ DOMAIN events' = Leads /\ \A k \in Leads \ {l} : events'[k] = events[k]
  BY <1>2 DEF LeadInv
<1>4. HistoryOf(l)'
  <2>. PICK e : e = Arrival(new)
    OBVIOUS
  <2>1. e \in EventRows /\ e.from = None /\ e.to = new.stage /\ e.at = new.since
    BY <1>1 DEF Arrival, EventRows, LeadRows
  <2>2. events'[l] = {e} /\ lead'[l] = new
    BY <1>3
  <2>3. Arrives(l, e)' /\ Placed(l, e)'
    BY <2>1, <2>2 DEF Arrives, Placed
  <2>. QED
    BY <2>1, <2>2, <2>3 DEF HistoryOf
<1>. QED
  BY <1>1, <1>2, <1>3, <1>4, LeadWritten DEF Recorded

LEMMA UpdateKeeps ==
  ASSUME LeadInv, desk = "leads", UNCHANGED <<desk, serial, today>>,
         NEW l \in Leads, NEW next \in Int \cup {None}, NEW owned \in BOOLEAN,
         NEW reason \in BOOLEAN, NEW client \in Clients \cup {None},
         Update(l, next, owned, reason, client)
  PROVE  LeadInv'
<1>. DEFINE new == [lead[l] EXCEPT !.next = next, !.owned = owned, !.reason = reason,
                      !.client = client]
<1>1. l \in Recorded /\ HistoryOf(l) /\ lead[l] \in LeadRows
  BY DEF Update, LeadInv
<1>2. new \in LeadRows /\ new.stage = lead[l].stage /\ new.since = lead[l].since
  BY <1>1 DEF LeadRows
<1>3. lead' = [lead EXCEPT ![l] = new] /\ UNCHANGED <<events, work>>
  BY DEF Update, LeadInv
<1>. HIDE DEF new
<1>4. lead'[l] = new
  BY <1>1, <1>3 DEF LeadInv
<1>5. HistoryOf(l)'
  BY <1>1, <1>2, <1>3, <1>4, HistoryKept
<1>. QED
  BY <1>2, <1>3, <1>5, LeadWritten DEF LeadInv

\* A move joins a history that holds where it was decided from.
LEMMA HistoryGrows ==
  ASSUME NEW l, HistoryOf(l), lead[l] \in LeadRows, UNCHANGED serial,
         NEW new \in EventRows, events'[l] = events[l] \cup {new},
         new.from \in Keys, new.from # new.to, CameBefore(l, new.from, new.at),
         lead'[l].stage = new.to, lead'[l].since = new.at,
         serial => new.from = lead[l].stage /\ new.at > lead[l].since
  PROVE  HistoryOf(l)'
<1>. PICK path : path = events[l]
  OBVIOUS
<1>1. /\ path \subseteq EventRows /\ new \in events'[l] /\ path \subseteq events'[l]
      /\ \A e \in events'[l] : e \in path \/ e = new
      /\ new.at \in Int /\ lead[l].since \in Int /\ \A e \in path : e.at \in Int
  BY DEF HistoryOf, EventRows, LeadRows
<1>2. \E arrival : Arrives(l, arrival)'
  <2>1. PICK arrival : Arrives(l, arrival)
    BY DEF HistoryOf
  <2>2. \A stage, at : CameBefore(l, stage, at) => CameBefore(l, stage, at)'
    BY <1>1 DEF CameBefore
  <2>3. new.at > arrival.at
    <3>1. PICK f \in path : f.at < new.at
      BY DEF CameBefore
    <3>2. f = arrival \/ f.at > arrival.at
      BY <2>1 DEF Arrives
    <3>. QED
      BY <1>1, <2>1, <3>1, <3>2 DEF Arrives
  <2>4. ASSUME NEW e \in events'[l] \ {arrival}
        PROVE  e.from # e.to /\ e.at > arrival.at /\ CameBefore(l, e.from, e.at)'
    <3>1. CASE e = new
      BY <2>2, <2>3, <3>1
    <3>2. CASE e # new
      BY <1>1, <2>1, <2>2, <3>2 DEF Arrives
    <3>. QED
      BY <3>1, <3>2
  <2>5. Arrives(l, arrival)'
    BY <1>1, <2>1, <2>4 DEF Arrives
  <2>. QED
    BY <2>5
<1>3. ASSUME serial, NEW e \in events'[l] PROVE Placed(l, e)'
  <2>1. \A f \in path : Placed(l, f) /\ f.at <= lead[l].since
    BY <1>1, <1>3 DEF HistoryOf, Placed
  <2>2. \A f \in path : f.at < new.at
    BY <1>1, <1>3, <2>1
  <2>3. CASE e = new
    <3>1. PICK f \in path : f.to = lead[l].stage /\ f.at = lead[l].since
      BY DEF HistoryOf
    <3>2. Earlier(l, e)' = path
      BY <1>1, <2>2, <2>3 DEF Earlier
    <3>3. f \in JustBefore(l, e)'
      BY <2>1, <3>1, <3>2 DEF JustBefore
    <3>. QED
      BY <1>3, <2>3, <3>1, <3>3 DEF Placed
  <2>4. CASE e \in path
    <3>1. Earlier(l, e)' = Earlier(l, e)
      BY <1>1, <2>2, <2>4 DEF Earlier
    <3>2. JustBefore(l, e)' = JustBefore(l, e)
      BY <3>1 DEF JustBefore
    <3>. QED
      BY <2>1, <2>2, <2>4, <3>2 DEF Placed
  <2>. QED
    BY <1>1, <2>3, <2>4
<1>. QED
  BY <1>1, <1>2, <1>3 DEF HistoryOf

LEMMA CommitMoveKeeps ==
  ASSUME LeadInv, InTurn, desk = "leads", UNCHANGED <<desk, serial, today>>,
         NEW s \in Sessions, CommitMove(s)
  PROVE  LeadInv'
<1>. PICK job : job = work[s]
  OBVIOUS
<1>1. work[s] # None /\ MoveDecided(job)
  BY DEF CommitMove, LeadInv
<1>. PICK l : l = job.lead
  OBVIOUS
<1>. DEFINE e == MoveEvent(job)
            new == [lead[l] EXCEPT !.stage = job.target, !.since = job.at,
                      !.reason = @ \/ job.reason,
                      !.next = IF job.next = job.had THEN @ ELSE job.next]
<1>2. l \in Recorded /\ l \in Leads /\ HistoryOf(l) /\ lead[l] \in LeadRows
  <2>1. l \in Recorded
    BY <1>1 DEF MoveDecided
  <2>. QED
    BY <2>1 DEF LeadInv, Recorded
<1>3. new \in LeadRows /\ new.stage = job.target /\ new.since = job.at
  <2>1. /\ job.target \in Keys /\ job.at \in Int /\ job.reason \in BOOLEAN
        /\ job.next \in Int \cup {None}
    BY <1>1 DEF MoveDecided
  <2>2. PICK mine \in LeadRows : mine = lead[l]
    BY <1>2
  <2>3. PICK next \in Int \cup {None} : next = IF job.next = job.had THEN mine.next ELSE job.next
    BY <2>1 DEF LeadRows
  <2>4. (mine.reason \/ job.reason) \in BOOLEAN
    OBVIOUS
  <2>5. new = [mine EXCEPT !.stage = job.target, !.since = job.at,
                 !.reason = mine.reason \/ job.reason, !.next = next]
    BY <2>2, <2>3
  <2>. QED
    BY <2>1, <2>3, <2>4, <2>5 DEF LeadRows
<1>4. /\ lead' = [lead EXCEPT ![l] = new]
      /\ events' = [events EXCEPT ![l] = @ \cup {e}]
      /\ Done(s)
  BY DEF CommitMove
<1>5. e \in EventRows /\ e.from = job.left /\ e.to = job.target /\ e.at = job.at
  BY <1>1 DEF MoveEvent, EventRows, MoveDecided
<1>. HIDE DEF new, e
<1>6. /\ lead'[l] = new /\ events'[l] = events[l] \cup {e}
      /\ DOMAIN events' = Leads /\ \A k \in Leads \ {l} : events'[k] = events[k]
  BY <1>2, <1>4 DEF LeadInv
<1>7. \A t \in Sessions : work'[t] = None \/ (work'[t] = work[t] /\ ~serial)
  BY <1>1, <1>4, EndsAlone
<1>8. HistoryOf(l)'
  <2>1. /\ e.from \in Keys /\ e.from # e.to /\ CameBefore(l, e.from, e.at)
        /\ serial => e.from = lead[l].stage /\ e.at > lead[l].since
    BY <1>1, <1>5 DEF MoveDecided
  <2>2. lead'[l].stage = e.to /\ lead'[l].since = e.at
    BY <1>3, <1>5, <1>6
  <2>. QED
    BY <1>2, <1>5, <1>6, <2>1, <2>2, HistoryGrows
<1>. QED
  BY <1>2, <1>3, <1>4, <1>6, <1>7, <1>8, LeadWritten

LEMMA BeginMoveKeeps ==
  ASSUME LeadInv, InTurn, desk = "leads", UNCHANGED <<desk, serial, today>>,
         NEW s \in Sessions, NEW l \in Leads, NEW k \in Keys, NEW reason \in BOOLEAN,
         NEW next \in Int \cup {None}, NEW at \in Int, BeginMove(s, l, k, reason, next, at)
  PROVE  LeadInv'
<1>. DEFINE job == [desk |-> "leads", job |-> "move", lead |-> l, at |-> at, target |-> k,
                    left |-> lead[l].stage, reason |-> reason, had |-> lead[l].next,
                    next |-> IF Terminal(k) THEN None
                             ELSE IF next = None THEN lead[l].next ELSE next]
<1>1. /\ Decide(s, job) /\ UNCHANGED <<lead, events>>
      /\ l \in Recorded /\ lead[l].stage # k /\ IsNow(l, at)
  BY DEF BeginMove, MayMoveTo, pipelineVars
<1>2. HistoryOf(l) /\ lead[l].stage \in Keys /\ lead[l].next \in Int \cup {None}
      /\ lead[l].since \in Int
  BY <1>1 DEF LeadInv, LeadRows
<1>3. CameBefore(l, lead[l].stage, at) /\ at > lead[l].since
  <2>1. PICK e \in events[l] : e.to = lead[l].stage /\ e.at = lead[l].since
    BY <1>2 DEF HistoryOf
  <2>2. e.at < at
    BY <1>1 DEF IsNow, Taken
  <2>. QED
    BY <1>2, <2>1, <2>2 DEF CameBefore
<1>4. MoveDecided(job)
  BY <1>1, <1>2, <1>3 DEF MoveDecided
<1>. HIDE DEF job
<1>5. UNCHANGED Recorded
      /\ \A x : /\ HistoryOf(x)' <=> HistoryOf(x)
                /\ \A stage, when : CameBefore(x, stage, when)' <=> CameBefore(x, stage, when)
  BY <1>1, HistoryKept DEF Recorded
<1>6. ASSUME NEW t \in Sessions, work'[t] # None PROVE MoveDecided(work[t])'
  <2>1. MoveDecided(work'[t])
    BY <1>1, <1>4, <1>6, DecidesAlone DEF LeadInv
  <2>. QED
    BY <1>1, <1>5, <2>1 DEF MoveDecided
<1>. QED
  BY <1>1, <1>5, <1>6 DEF LeadInv, LogDesks

LEMMA TickKeeps ==
  ASSUME LeadInv, desk = "leads", UNCHANGED <<desk, serial, lead, events, work>>, Tick
  PROVE  LeadInv'
<1>1. today' \in Int /\ UNCHANGED Recorded
  BY DEF LeadInv, Tick, Recorded
<1>2. \A x : /\ HistoryOf(x)' <=> HistoryOf(x)
             /\ \A stage, when : CameBefore(x, stage, when)' <=> CameBefore(x, stage, when)
  BY HistoryKept
<1>3. ASSUME NEW s \in Sessions, work'[s] # None PROVE MoveDecided(work[s])'
  <2>1. MoveDecided(work[s])
    BY <1>3 DEF LeadInv
  <2>. QED
    BY <1>1, <1>2, <2>1 DEF MoveDecided
<1>. QED
  BY <1>1, <1>2, <1>3 DEF LeadInv, LogDesks

LEMMA LeadsStep ==
  ASSUME LeadInv, InTurn, LeadsDesk, UNCHANGED <<desk, serial>>
  PROVE  LeadInv'
<1>0. desk = "leads" /\ today \in Int
  BY DEF LeadsDesk, LeadInv
<1>1. CASE Tick /\ UNCHANGED <<pipelineVars, work>>
  BY <1>0, <1>1, TickKeeps DEF pipelineVars
<1>2. CASE PipelineNext /\ UNCHANGED today
  <2>1. ASSUME NEW l \in Leads, NEW stage \in Keys \cup {None}, Create(l, stage, None, TRUE, None)
        PROVE  LeadInv'
    BY <1>0, <1>2, <2>1, CreateKeeps
  <2>2. ASSUME NEW l \in Leads, NEW reason \in BOOLEAN,
               l \in Recorded, Update(l, None, lead[l].owned, reason, lead[l].client)
        PROVE  LeadInv'
    <3>1. lead[l].owned \in BOOLEAN /\ lead[l].client \in Clients \cup {None}
      BY <1>0, <2>2 DEF LeadInv, LeadRows
    <3>. QED
      BY <1>0, <1>2, <2>2, <3>1, UpdateKeeps
  <2>3. ASSUME NEW s \in Sessions, NEW l \in Leads, NEW k \in Keys, NEW reason \in BOOLEAN,
               NEW next \in {None, today + 1}, NEW at \in Moments(today),
               BeginMove(s, l, k, reason, next, at)
        PROVE  LeadInv'
    <3>1. next \in Int \cup {None} /\ at \in Int
      BY <1>0, MomentsAreTimes
    <3>. QED
      BY <1>0, <1>2, <2>3, <3>1, BeginMoveKeeps
  <2>4. ASSUME NEW s \in Sessions, CommitMove(s) PROVE LeadInv'
    BY <1>0, <1>2, <2>4, CommitMoveKeeps
  <2>. QED
    BY <1>2, <2>1, <2>2, <2>3, <2>4 DEF PipelineNext
<1>. QED
  BY <1>1, <1>2 DEF LeadsDesk

\* The log writes a lead's stamps and its next step, and moves none.
Moved(was, new) ==
  ~ /\ new.stage = was.stage /\ new.since = was.since
    /\ {"stage", "since"} \subseteq DOMAIN new

LEMMA OtherColumns ==
  ASSUME NEW was, {"stage", "since"} \subseteq DOMAIN was, NEW value, NEW other
  PROVE  /\ ~Moved(was, [was EXCEPT !.contact = value, !.inbound = other])
         /\ ~Moved(was, [was EXCEPT !.next = value])
BY DEF Moved

LEMMA StampsMoveNothing ==
  ASSUME NEW was, {"stage", "since"} \subseteq DOMAIN was, NEW read, NEW stamped, NEW next
  PROVE  /\ ~Moved(was, WithStamps(was, read, stamped))
         /\ ~Moved(was, Scheduled(WithStamps(was, read, stamped), next))
<1>. DEFINE stamps == WithStamps(was, read, stamped)
            new == Scheduled(stamps, next)
<1>1. ~Moved(was, stamps)
  <2>. DEFINE contact == Fresh(was.contact, read.contact, stamped.contact)
              inbound == Fresh(was.inbound, read.inbound, stamped.inbound)
  <2>1. ~Moved(was, [was EXCEPT !.contact = contact, !.inbound = inbound])
    BY OtherColumns
  <2>. QED
    BY <2>1 DEF WithStamps
<1>. HIDE DEF stamps
<1>2. ~Moved(stamps, new)
  <2>. DEFINE value == IF next = None THEN stamps.next ELSE next
  <2>1. ~Moved(stamps, [stamps EXCEPT !.next = value])
    BY <1>1, OtherColumns DEF Moved
  <2>. QED
    BY <2>1 DEF Scheduled
<1>. QED
  BY <1>1, <1>2 DEF Moved, stamps

LEMMA LogMovesNobody ==
  ASSUME \A l \in Leads : {"stage", "since"} \subseteq DOMAIN lead[l], DOMAIN lead = Leads,
         NEW ids, NEW subjects, CommsNext(ids, subjects)
  PROVE  /\ UNCHANGED events
         /\ DOMAIN lead' = Leads
         /\ \A l \in Leads : ~Moved(lead[l], lead'[l])
<1>1. ASSUME NEW s \in Sessions, CommitLog(s), NEW l \in Leads PROVE ~Moved(lead[l], lead'[l])
  <2>. DEFINE stamps == WithStamps(lead[l], work[s].read, work[s].stamped)
  <2>1. lead'[l] = lead[l] \/ lead'[l] = Scheduled(stamps, work[s].next)
    BY <1>1 DEF CommitLog
  <2>2. ~Moved(lead[l], Scheduled(stamps, work[s].next))
    BY StampsMoveNothing
  <2>. QED
    BY <2>1, <2>2 DEF Moved
<1>2. ASSUME NEW s \in Sessions, CommitStamps(s), NEW l \in Leads PROVE ~Moved(lead[l], lead'[l])
  <2>. DEFINE stamps == WithStamps(lead[l], work[s].read, work[s].stamped)
  <2>1. lead'[l] = lead[l] \/ lead'[l] = stamps
    BY <1>2 DEF CommitStamps
  <2>2. ~Moved(lead[l], stamps)
    BY StampsMoveNothing
  <2>. QED
    BY <2>1, <2>2 DEF Moved
<1>3. \/ UNCHANGED <<lead, events>>
      \/ UNCHANGED events /\ \E s \in Sessions : CommitLog(s) \/ CommitStamps(s)
  BY DEF CommsNext, BeginLog, ReadTimeline, Amend, Void, BeginRecompute, CommitLog, CommitStamps,
         commsVars, pipelineVars
<1>4. CASE UNCHANGED <<lead, events>>
  BY <1>4 DEF Moved
<1>5. CASE UNCHANGED events /\ \E s \in Sessions : CommitLog(s) \/ CommitStamps(s)
  <2>1. DOMAIN lead' = Leads
    BY <1>5 DEF CommitLog, CommitStamps
  <2>. QED
    BY <1>1, <1>2, <1>5, <2>1
<1>. QED
  BY <1>3, <1>4, <1>5

LEMMA ClientMovesNobody ==
  ASSUME \A l \in Leads : {"stage", "since"} \subseteq DOMAIN lead[l], DOMAIN lead = Leads,
         NEW k \in Leads, NEW client, ChangeClient(k, client)
  PROVE  /\ UNCHANGED events
         /\ DOMAIN lead' = Leads
         /\ \A l \in Leads : ~Moved(lead[l], lead'[l])
<1>. PICK next, owned, reason :
       lead' = [lead EXCEPT ![k].next = next, ![k].owned = owned, ![k].reason = reason,
                            ![k].client = client]
  BY DEF ChangeClient, Update
<1>1. ~Moved(lead[k], [lead[k] EXCEPT !.next = next, !.owned = owned, !.reason = reason,
                                      !.client = client])
  BY DEF Moved
<1>2. /\ lead'[k] = [lead[k] EXCEPT !.next = next, !.owned = owned, !.reason = reason,
                                    !.client = client]
      /\ \A l \in Leads \ {k} : lead'[l] = lead[l]
  OBVIOUS
<1>3. \A l \in Leads : ~Moved(lead[l], lead'[l])
  BY <1>1, <1>2 DEF Moved
<1>. QED
  BY <1>3 DEF ChangeClient, Update

LEMMA LogStep ==
  ASSUME LeadInv, LogDesk, UNCHANGED <<desk, serial>>
  PROVE  LeadInv'
<1>1. /\ desk \in LogDesks /\ UNCHANGED today
      /\ \/ \E ids, subjects : CommsNext(ids, subjects)
         \/ \E l \in Leads : \E client : ChangeClient(l, client)
  BY DEF LogDesk, LogDesks
<1>2. \A l \in Leads : HistoryOf(l) /\ {"stage", "since"} \subseteq DOMAIN lead[l]
  BY <1>1 DEF LeadInv
<1>3. /\ UNCHANGED events /\ DOMAIN lead' = Leads
      /\ \A l \in Leads : ~Moved(lead[l], lead'[l])
  BY <1>1, <1>2, LogMovesNobody, ClientMovesNobody DEF LeadInv
<1>4. ASSUME NEW l \in Leads PROVE HistoryOf(l)' /\ {"stage", "since"} \subseteq DOMAIN lead'[l]
  <2>1. /\ lead'[l].stage = lead[l].stage /\ lead'[l].since = lead[l].since
        /\ {"stage", "since"} \subseteq DOMAIN lead'[l]
    BY <1>3 DEF Moved
  <2>. QED
    BY <1>2, <1>3, <2>1, HistoryKept
<1>. QED
  BY <1>1, <1>3, <1>4 DEF LeadInv, LogDesks

LEMMA LeadsHold == Spec => []LeadInv
<1>1. InTurn /\ LeadInv /\ [Next]_recordVars => LeadInv'
  <2>. SUFFICES ASSUME InTurn, LeadInv, [Next]_recordVars PROVE LeadInv'
    OBVIOUS
  <2>1. CASE UNCHANGED recordVars
    BY <2>1, LeadsElsewhere DEF recordVars
  <2>2. CASE Failure /\ UNCHANGED <<desk, serial>>
    BY <2>2, FailureFrees, LeadsElsewhere DEF commsVars
  <2>3. CASE LeadsDesk /\ UNCHANGED <<desk, serial>>
    BY <2>3, LeadsStep
  <2>4. CASE LogDesk /\ UNCHANGED <<desk, serial>>
    BY <2>4, LogStep
  <2>5. CASE (NarrativesDesk \/ ReviewDesk) /\ UNCHANGED <<desk, serial>>
    BY <2>5, LeadsElsewhere DEF NarrativesDesk, ReviewDesk, commsVars
  <2>. QED
    BY <2>1, <2>2, <2>3, <2>4, <2>5 DEF Next
<1>. QED
  BY InitLeads, AlwaysInTurn, <1>1, PTL DEF Spec

\* However moves race, a lead is where one of its recorded moves took it, arrived
\* once and first, and every move left a stage it had been brought to; in turn they
\* are, by their times, a path from its arrival to its stage, whatever the log does
\* to its stamps and whoever its client becomes.
THEOREM HistoriesArePaths == Spec => []HistoryIsAPath
<1>1. LeadInv => HistoryIsAPath
  <2>1. ASSUME LeadInv, NEW l \in Recorded PROVE HistoryOf(l)
    BY <2>1 DEF LeadInv, Recorded
  <2>2. ASSUME NEW l, NEW arrival, Arrives(l, arrival)
        PROVE  /\ arrival \in events[l] /\ arrival.from = None
               /\ \A e \in events[l] \ {arrival} :
                    /\ e.from # e.to /\ e.at > arrival.at
                    /\ \E f \in Earlier(l, e) : f.to = e.from
    BY <2>2 DEF Arrives, CameBefore, Earlier
  <2>. QED
    BY <2>1, <2>2 DEF HistoryOf, HistoryIsAPath, Placed
<1>. QED
  BY LeadsHold, <1>1, PTL

-------------------------------------------------------------------------------
(***************************************************************************)
(* The log in order                                                        *)
(***************************************************************************)

\* Rows of the log, as far as its order and its stamps are about them.
Dated(es) == \A e \in es : entry[e].at \in Int /\ entry[e].direction \in DIRECTIONS

LEMMA BeforeIsTotal ==
  ASSUME NEW es \in SUBSET EntryIds, Dated(es), NEW e \in es, NEW f \in es
  PROVE  /\ Before(e, f) \/ Before(f, e) \/ e = f
         /\ ~(Before(e, f) /\ Before(f, e))
         /\ \A d \in es : Before(d, e) /\ Before(e, f) => Before(d, f)
BY CommsAssumption DEF Before, Dated

LEMMA LatestExists ==
  ASSUME NEW es \in SUBSET EntryIds, Dated(es), es # {}
  PROVE  \E e \in es : \A f \in es \ {e} : Before(f, e)
<1>. DEFINE HasLatest(T) == T = {} \/ \E e \in T : \A f \in T \ {e} : Before(f, e)
            Q == {T \in SUBSET es : HasLatest(T)}
<1>1. ASSUME NEW T \in SUBSET es, \A x \in T : T \ {x} \in Q
      PROVE  T \in Q
  <2>1. CASE T = {}
    BY <2>1
  <2>2. CASE T # {}
    <3>1. PICK x \in T : T \ {x} \in Q
      BY <1>1, <2>2
    <3>2. CASE T \ {x} = {}
      <4>1. \A f \in T \ {x} : Before(f, x)
        BY <3>2
      <4>. QED
        BY <4>1
    <3>3. CASE T \ {x} # {}
      <4>1. PICK e \in T \ {x} : \A f \in (T \ {x}) \ {e} : Before(f, e)
        BY <3>1, <3>3
      <4>2. CASE Before(x, e)
        <5>1. \A f \in T \ {e} : Before(f, e)
          BY <4>1, <4>2
        <5>. QED
          BY <4>1, <5>1
      <4>3. CASE ~Before(x, e)
        <5>1. Before(e, x)
          BY <4>1, <4>3, BeforeIsTotal
        <5>2. ASSUME NEW f \in T \ {x} PROVE Before(f, x)
          <6>1. CASE f = e
            BY <5>1, <6>1
          <6>2. CASE f # e
            <7>1. Before(f, e)
              BY <4>1, <5>2, <6>2
            <7>2. f \in es /\ e \in es /\ x \in es
              BY <4>1, <5>2
            <7>. QED
              BY <5>1, <7>1, <7>2, BeforeIsTotal
          <6>. QED
            BY <6>1, <6>2
        <5>. QED
          BY <5>2
      <4>. QED
        BY <4>2, <4>3
    <3>. QED
      BY <3>2, <3>3
  <2>. QED
    BY <2>1, <2>2
<1>2. IsFiniteSet(es)
  BY CommsAssumption, FS_Subset
<1>. HIDE DEF Q
<1>3. es \in Q
  BY <1>1, <1>2, SubsetInduction
<1>. QED
  BY <1>3 DEF Q

\* An order of the log: every entry once, each after those before it.
Chronicle(es, order) ==
  /\ order \in Surjection(1..Cardinality(es), es)
  /\ \A i, j \in DOMAIN order : i < j => Before(order[i], order[j])

LEMMA OrderGrows ==
  ASSUME NEW es \in SUBSET EntryIds, NEW e \in es, \A f \in es \ {e} : Before(f, e),
         NEW order, Chronicle(es \ {e}, order)
  PROVE  \E longer : Chronicle(es, longer)
<1>. DEFINE n == Cardinality(es)
            longer == [i \in 1..n |-> IF i = n THEN e ELSE order[i]]
<1>1. IsFiniteSet(es) /\ n \in Nat /\ Cardinality(es \ {e}) = n - 1 /\ n - 1 \in Nat
  <2>1. IsFiniteSet(es)
    BY CommsAssumption, FS_Subset
  <2>2. IsFiniteSet(es \ {e}) /\ Cardinality(es \ {e}) = n - 1
    BY <2>1, FS_RemoveElement
  <2>. QED
    BY <2>1, <2>2, FS_CardinalityType
<1>. HIDE DEF n
<1>2. /\ order \in [1..(n - 1) -> es \ {e}] /\ DOMAIN order = 1..(n - 1)
      /\ \A f \in es \ {e} : \E i \in 1..(n - 1) : order[i] = f
      /\ \A i, j \in 1..(n - 1) : i < j => Before(order[i], order[j])
  BY <1>1 DEF Chronicle, Surjection
<1>3. longer \in [1..n -> es] /\ longer[n] = e /\ \A i \in 1..(n - 1) : longer[i] = order[i]
  BY <1>1, <1>2
<1>. HIDE DEF longer
<1>4. ASSUME NEW f \in es PROVE \E i \in 1..n : longer[i] = f
  <2>1. CASE f = e
    BY <1>1, <1>3, <2>1
  <2>2. CASE f # e
    BY <1>1, <1>2, <1>3, <2>2
  <2>. QED
    BY <2>1, <2>2
<1>5. ASSUME NEW i \in 1..n, NEW j \in 1..n, i < j PROVE Before(longer[i], longer[j])
  <2>1. i \in 1..(n - 1)
    BY <1>1, <1>5
  <2>2. CASE j = n
    BY <1>2, <1>3, <2>1, <2>2
  <2>3. CASE j # n
    BY <1>1, <1>2, <1>3, <1>5, <2>1, <2>3
  <2>. QED
    BY <2>2, <2>3
<1>6. Chronicle(es, longer)
  BY <1>3, <1>4, <1>5 DEF Chronicle, Surjection, n
<1>. QED
  BY <1>6

LEMMA LogIsOrdered ==
  ASSUME NEW es \in SUBSET EntryIds, Dated(es)
  PROVE  Chronicle(es, Ordered(es))
<1>. DEFINE Q == {T \in SUBSET es : \E order : Chronicle(T, order)}
<1>1. ASSUME NEW T \in SUBSET es, \A x \in T : T \ {x} \in Q
      PROVE  T \in Q
  <2>1. CASE T = {}
    <3>. DEFINE none == [i \in 1..0 |-> i]
    <3>1. Cardinality(T) = 0 /\ none \in [1..0 -> T] /\ DOMAIN none = {} /\ 1..0 = {}
      BY <2>1, FS_EmptySet
    <3>. HIDE DEF none
    <3>2. Chronicle(T, none)
      BY <2>1, <3>1 DEF Chronicle, Surjection
    <3>. QED
      BY <3>2
  <2>2. CASE T # {}
    <3>1. Dated(T)
      BY DEF Dated
    <3>2. PICK e \in T : \A f \in T \ {e} : Before(f, e)
      BY <2>2, <3>1, LatestExists
    <3>3. PICK order : Chronicle(T \ {e}, order)
      BY <1>1
    <3>. QED
      BY <3>2, <3>3, OrderGrows
  <2>. QED
    BY <2>1, <2>2
<1>2. IsFiniteSet(es)
  BY CommsAssumption, FS_Subset
<1>. HIDE DEF Q
<1>3. es \in Q
  BY <1>1, <1>2, SubsetInduction
<1>. QED
  BY <1>3 DEF Q, Chronicle, Ordered

LEMMA OrderedFacts ==
  ASSUME NEW es \in SUBSET EntryIds, Dated(es)
  PROVE  LET order == Ordered(es)
             n == Cardinality(es)
         IN  /\ n \in Nat /\ order \in [1..n -> es]
             /\ \A e \in es : \E i \in 1..n : order[i] = e
             /\ \A i, j \in 1..n : i < j => Before(order[i], order[j])
<1>1. Cardinality(es) \in Nat
  BY CommsAssumption, FS_Subset, FS_CardinalityType
<1>. QED
  BY <1>1, LogIsOrdered DEF Chronicle, Surjection

-------------------------------------------------------------------------------
(***************************************************************************)
(* What the log says, in one go                                            *)
(***************************************************************************)

\* The positions of an order that are words, those that are replies, and those of
\* our calls since the last reply.
Heard(order, s) == {i \in s : Counts(order[i])}
Replies(order, s) == {i \in Heard(order, s) : entry[order[i]].direction = "inbound"}
Calls(order, s) ==
  {i \in Heard(order, s) \ Replies(order, s) : \A j \in Replies(order, s) : j < i}

Latest(order, s) == IF s = {} THEN None ELSE entry[order[Max(s)]].at

Telling(order, s) ==
  [contact |-> Latest(order, Heard(order, s)),
   inbound |-> Latest(order, Replies(order, s)),
   chases |-> Cardinality(Calls(order, s))]

LEMMA MaxIsTheTop ==
  ASSUME NEW S, S \subseteq Int, NEW m \in S, \A x \in S : x <= m
  PROVE  Max(S) = m
<1>1. \A x \in S : (\A y \in S : x >= y) => x = m
  OBVIOUS
<1>2. \A y \in S : m >= y
  OBVIOUS
<1>. QED
  BY <1>1, <1>2 DEF Max

LEMMA MaxIsThere ==
  ASSUME NEW n \in Nat, NEW S \in SUBSET (1..n), S # {}
  PROVE  Max(S) \in S /\ \A x \in S : x <= Max(S)
<1>. DEFINE below == {n - x : x \in S}
<1>0. \A x \in S : x \in 1..n /\ n - x \in Nat
  OBVIOUS
<1>1. below \subseteq Nat /\ below # {}
  BY <1>0
<1>2. PICK k \in below : \A j \in below : k <= j
  BY <1>1, LeastNatural
<1>3. PICK m \in S : k = n - m
  BY <1>2
<1>4. \A x \in S : n - m <= n - x
  BY <1>2, <1>3
<1>. HIDE DEF below
<1>5. \A x \in S : m >= x
  BY <1>0, <1>4
<1>6. Max(S) \in S /\ \A x \in S : Max(S) >= x
  BY <1>5 DEF Max
<1>. QED
  BY <1>0, <1>6

\* One entry further.
LEMMA TellingGoesOn ==
  ASSUME NEW n \in Nat, NEW es \in SUBSET EntryIds, Dated(es), NEW order \in [1..n -> es],
         NEW s \in SUBSET (1..n), s # {}
  PROVE  Telling(order, s) = Tell(Telling(order, s \ {Max(s)}), order[Max(s)])
<1>. DEFINE m == Max(s)
            t == s \ {m}
            e == order[m]
<1>1. m \in s /\ m \in 1..n /\ \A i \in s : i <= m
  BY MaxIsThere
<1>. HIDE DEF m
<1>2. e = order[m] /\ e \in es /\ entry[e].direction \in DIRECTIONS
  BY <1>1 DEF Dated
<1>3. /\ t \in SUBSET (1..n) /\ s = t \cup {m} /\ m \notin t
      /\ m \in Int /\ \A i \in t : i \in Int /\ i < m
  BY <1>1
<1>. HIDE DEF t, e
<1>4. /\ Heard(order, t) \subseteq t /\ Replies(order, t) \subseteq t
      /\ Calls(order, t) \subseteq t
  BY DEF Heard, Replies, Calls
<1>5. ASSUME ~Counts(e) PROVE Telling(order, s) = Tell(Telling(order, t), e)
  <2>1. Heard(order, s) = Heard(order, t)
    BY <1>2, <1>3, <1>5 DEF Heard
  <2>2. Telling(order, s) = Telling(order, t)
    BY <2>1 DEF Telling, Replies, Calls
  <2>. QED
    BY <1>5, <2>2 DEF Tell
<1>6. ASSUME Counts(e), entry[e].direction = "inbound"
      PROVE  Telling(order, s) = Tell(Telling(order, t), e)
  <2>1. Heard(order, s) = Heard(order, t) \cup {m} /\ Replies(order, s) = Replies(order, t) \cup {m}
    BY <1>2, <1>3, <1>6 DEF Heard, Replies
  <2>2. Max(Heard(order, s)) = m /\ Max(Replies(order, s)) = m
    <3>1. Heard(order, s) \subseteq Int /\ Replies(order, s) \subseteq Int
      BY <1>1, <1>3, <1>4, <2>1
    <3>2. /\ \A i \in Heard(order, s) : i <= m
          /\ \A i \in Replies(order, s) : i <= m
      BY <1>1, <1>3, <1>4, <2>1
    <3>. QED
      BY <2>1, <3>1, <3>2, MaxIsTheTop
  <2>3. Calls(order, s) = {}
    <3>1. ASSUME NEW i \in Calls(order, s) PROVE FALSE
      <4>1. i \in s /\ m < i
        BY <2>1, <3>1 DEF Calls, Heard
      <4>. QED
        BY <1>1, <1>3, <4>1
    <3>. QED
      BY <3>1
  <2>4. Telling(order, s) = [contact |-> entry[e].at, inbound |-> entry[e].at, chases |-> 0]
    BY <1>2, <2>1, <2>2, <2>3, FS_EmptySet DEF Telling, Latest
  <2>5. Tell(Telling(order, t), e) = [contact |-> entry[e].at, inbound |-> entry[e].at, chases |-> 0]
    BY <1>6 DEF Tell
  <2>. QED
    BY <2>4, <2>5
<1>7. ASSUME Counts(e), entry[e].direction # "inbound"
      PROVE  Telling(order, s) = Tell(Telling(order, t), e)
  <2>1. Heard(order, s) = Heard(order, t) \cup {m} /\ Replies(order, s) = Replies(order, t)
    BY <1>2, <1>3, <1>7 DEF Heard, Replies
  <2>2. Max(Heard(order, s)) = m
    <3>1. Heard(order, s) \subseteq Int /\ \A i \in Heard(order, s) : i <= m
      BY <1>1, <1>3, <1>4, <2>1
    <3>. QED
      BY <2>1, <3>1, MaxIsTheTop
  <2>3. Calls(order, s) = Calls(order, t) \cup {m} /\ m \notin Calls(order, t)
    <3>. DEFINE words == Heard(order, t)
                replies == Replies(order, t)
    <3>1. /\ Calls(order, t) = {i \in words \ replies : \A j \in replies : j < i}
          /\ Calls(order, s) = {i \in (words \cup {m}) \ replies : \A j \in replies : j < i}
      BY <2>1 DEF Calls
    <3>2. m \notin words /\ m \notin replies /\ \A j \in replies : j < m
      BY <1>3, <1>4
    <3>. HIDE DEF words, replies
    <3>. QED
      BY <3>1, <3>2
  <2>4. Cardinality(Calls(order, s)) = Cardinality(Calls(order, t)) + 1
    <3>1. IsFiniteSet(Calls(order, t))
      <4>1. Calls(order, t) \subseteq 1..n /\ IsFiniteSet(1..n)
        <5>1. IsFiniteSet(1..n)
          BY FS_Interval
        <5>. QED
          BY <1>3, <1>4, <5>1
      <4>. QED
        BY <4>1, FS_Subset
    <3>. QED
      BY <2>3, <3>1, FS_AddElement
  <2>5. Telling(order, s) = [contact |-> entry[e].at, inbound |-> Latest(order, Replies(order, t)),
                             chases |-> Cardinality(Calls(order, t)) + 1]
    BY <1>2, <2>1, <2>2, <2>4 DEF Telling, Latest
  <2>6. Tell(Telling(order, t), e)
          = [Telling(order, t) EXCEPT !.contact = entry[e].at, !.chases = @ + 1]
    BY <1>7 DEF Tell
  <2>7. Tell(Telling(order, t), e)
          = [contact |-> entry[e].at, inbound |-> Latest(order, Replies(order, t)),
             chases |-> Cardinality(Calls(order, t)) + 1]
    BY <2>6 DEF Telling
  <2>. QED
    BY <2>5, <2>7
<1>8. Telling(order, s) = Tell(Telling(order, t), e)
  BY <1>5, <1>6, <1>7
<1>. QED
  BY <1>8 DEF t, e, m

\* The recursion under FoldLeft, at a set of positions of the order.
Told(order, s, g) ==
  IF s = {} THEN Silence ELSE Tell(g[s \ {Max(s)}], order[Max(s)])

LEMMA HistoryIsChosen ==
  ASSUME NEW es
  PROVE  LET order == Ordered(es)
         IN  History(es) = (CHOOSE g : g = [s \in SUBSET DOMAIN order |-> Told(order, s, g)])[DOMAIN order]
BY DEF History, FoldLeft, MapThenFoldSet, Told

LEMMA HistoryIsTelling ==
  ASSUME NEW es \in SUBSET EntryIds, Dated(es)
  PROVE  History(es) = Telling(Ordered(es), 1..Cardinality(es))
<1>. DEFINE order == Ordered(es)
            n == Cardinality(es)
            IsFold(g) == g = [s \in SUBSET (1..n) |-> Told(order, s, g)]
            h == [s \in SUBSET (1..n) |-> Telling(order, s)]
<1>1. n \in Nat /\ order \in [1..n -> es] /\ DOMAIN order = 1..n
  BY OrderedFacts
<1>2. History(es) = (CHOOSE g : IsFold(g))[1..n]
  BY <1>1, HistoryIsChosen
<1>. HIDE DEF order, n
<1>3. Telling(order, {}) = Silence
  BY FS_EmptySet DEF Telling, Silence, Latest, Heard, Replies, Calls
<1>4. ASSUME NEW s \in SUBSET (1..n), s # {}
      PROVE  /\ Telling(order, s) = Tell(Telling(order, s \ {Max(s)}), order[Max(s)])
             /\ Max(s) \in s /\ s \ {Max(s)} \in SUBSET (1..n)
  BY <1>1, <1>4, TellingGoesOn, MaxIsThere
<1>5. IsFold(h)
  <2>1. ASSUME NEW s \in SUBSET (1..n) PROVE Telling(order, s) = Told(order, s, h)
    BY <1>3, <1>4 DEF Told
  <2>. QED
    BY <2>1
<1>6. ASSUME NEW g, IsFold(g) PROVE g[1..n] = Telling(order, 1..n)
  <2>. DEFINE Q == {s \in SUBSET (1..n) : g[s] = Telling(order, s)}
  <2>1. \A s \in SUBSET (1..n) : g[s] = Told(order, s, g)
    BY <1>6
  <2>2. ASSUME NEW s \in SUBSET (1..n), \A x \in s : s \ {x} \in Q
        PROVE  s \in Q
    BY <1>3, <1>4, <2>1, <2>2 DEF Told
  <2>3. IsFiniteSet(1..n)
    BY <1>1, FS_Interval
  <2>. HIDE DEF Q
  <2>4. 1..n \in Q
    BY <2>2, <2>3, SubsetInduction
  <2>. QED
    BY <2>4 DEF Q
<1>. HIDE DEF IsFold, h
<1>7. History(es) = Telling(order, 1..n)
  BY <1>2, <1>5, <1>6
<1>. QED
  BY <1>7 DEF order, n

\* The latest of some positions is the last of the entries there.
LEMMA LatestIsLast ==
  ASSUME NEW es \in SUBSET EntryIds, Dated(es), NEW n \in Nat, NEW order \in [1..n -> es],
         \A i, j \in 1..n : i < j => Before(order[i], order[j]),
         NEW P \in SUBSET (1..n), NEW W, W = {order[i] : i \in P}
  PROVE  Latest(order, P) = LastOf(W)
<1>1. CASE P = {}
  BY <1>1 DEF Latest, LastOf
<1>2. CASE P # {}
  <2>. DEFINE m == Max(P)
              times == {entry[e].at : e \in W}
  <2>1. m \in P /\ m \in 1..n /\ \A i \in P : i <= m
    BY <1>2, MaxIsThere
  <2>. HIDE DEF m
  <2>2. order[m] \in W /\ \A e \in W : entry[e].at \in Int
    BY <2>1 DEF Dated
  <2>3. ASSUME NEW e \in W PROVE entry[e].at <= entry[order[m]].at
    <3>1. PICK i \in P : e = order[i]
      OBVIOUS
    <3>2. i = m \/ Before(order[i], order[m])
      BY <2>1
    <3>. QED
      BY <2>2, <3>1, <3>2 DEF Before
  <2>4. times \subseteq Int /\ entry[order[m]].at \in times /\ \A x \in times : x <= entry[order[m]].at
    BY <2>2, <2>3
  <2>5. Max(times) = entry[order[m]].at
    <3>. HIDE DEF times
    <3>. QED
      BY <2>4, MaxIsTheTop
  <2>. QED
    BY <1>2, <2>2, <2>5 DEF Latest, LastOf, m
<1>. QED
  BY <1>1, <1>2

LEMMA ImageIsNoLarger ==
  ASSUME NEW S, IsFiniteSet(S), NEW f, NEW T, T \subseteq {f[x] : x \in S}
  PROVE  IsFiniteSet(T) /\ Cardinality(T) <= Cardinality(S)
<1>. DEFINE image == {f[x] : x \in S}
            g == [x \in S |-> f[x]]
<1>1. g \in Surjection(S, image)
  BY DEF Surjection
<1>. HIDE DEF image, g
<1>2. IsFiniteSet(image) /\ Cardinality(image) <= Cardinality(S)
  BY <1>1, FS_Surjection
<1>3. T \in SUBSET image
  BY DEF image
<1>4. IsFiniteSet(T) /\ Cardinality(T) <= Cardinality(image)
  BY <1>2, <1>3, FS_Subset
<1>5. Cardinality(T) \in Nat /\ Cardinality(image) \in Nat /\ Cardinality(S) \in Nat
  BY <1>2, <1>4, FS_CardinalityType
<1>. QED
  BY <1>2, <1>4, <1>5

\* What the history says of some entries, in their own terms: when we were last
\* in touch and last heard from them, and how often we called since.
LEMMA HistoryTold ==
  ASSUME NEW es \in SUBSET EntryIds, Dated(es)
  PROVE  LET said == History(es)
             words == {e \in es : Counts(e)}
             replies == {e \in words : entry[e].direction = "inbound"}
         IN  /\ said.contact = LastOf(words)
             /\ said.inbound = LastOf(replies)
             /\ said.chases \in Nat
             /\ replies = {} => Cardinality(words) <= said.chases
             /\ replies # {} => \E e \in replies :
                  Cardinality({f \in words : entry[f].direction = "outbound" /\ Before(e, f)})
                    <= said.chases
<1>. DEFINE said == History(es)
            words == {e \in es : Counts(e)}
            replies == {e \in words : entry[e].direction = "inbound"}
            order == Ordered(es)
            n == Cardinality(es)
            heard == Heard(order, 1..n)
            replied == Replies(order, 1..n)
            calls == Calls(order, 1..n)
<1>1. /\ n \in Nat /\ order \in [1..n -> es]
      /\ \A e \in es : \E i \in 1..n : order[i] = e
      /\ \A i, j \in 1..n : i < j => Before(order[i], order[j])
  BY OrderedFacts
<1>2. said.contact = Latest(order, heard) /\ said.inbound = Latest(order, replied)
      /\ said.chases = Cardinality(calls)
  BY HistoryIsTelling DEF Telling
<1>. HIDE DEF said, order, n
<1>3. /\ words = {order[i] : i \in heard} /\ replies = {order[i] : i \in replied}
      /\ heard \in SUBSET (1..n) /\ replied \in SUBSET (1..n) /\ calls \in SUBSET (1..n)
  BY <1>1 DEF Heard, Replies, Calls
<1>4. said.contact = LastOf(words) /\ said.inbound = LastOf(replies)
  <2>. HIDE DEF words, replies, heard, replied
  <2>. QED
    BY <1>1, <1>2, <1>3, LatestIsLast
<1>5. IsFiniteSet(calls) /\ Cardinality(calls) \in Nat
  <2>1. IsFiniteSet(1..n)
    BY <1>1, FS_Interval
  <2>. QED
    BY <1>3, <2>1, FS_Subset, FS_CardinalityType
<1>6. ASSUME replies = {} PROVE Cardinality(words) <= said.chases
  <2>1. words \subseteq {order[i] : i \in calls}
    BY <1>3, <1>6 DEF Calls
  <2>. QED
    BY <1>2, <1>5, <2>1, ImageIsNoLarger
<1>7. ASSUME replies # {}
      PROVE  \E e \in replies :
               Cardinality({f \in words : entry[f].direction = "outbound" /\ Before(e, f)})
                 <= said.chases
  <2>. DEFINE m == Max(replied)
              e == order[m]
              after == {f \in words : entry[f].direction = "outbound" /\ Before(e, f)}
  <2>1. m \in replied /\ \A i \in replied : i <= m
    BY <1>1, <1>3, <1>7, MaxIsThere
  <2>. HIDE DEF m
  <2>2. ASSUME NEW f \in after PROVE f \in {order[i] : i \in calls}
    <3>1. PICK i \in heard : f = order[i]
      BY <1>3
    <3>2. entry[order[i]].direction = "outbound" /\ Before(e, order[i])
      BY <3>1
    <3>3. i \in heard \ replied
      BY <3>2 DEF Replies
    <3>4. m < i
      <4>1. m \in 1..n /\ i \in 1..n /\ i # m
        BY <1>3, <2>1, <3>3
      <4>2. ~(i < m)
        <5>1. e \in es /\ order[i] \in es
          BY <1>1, <4>1
        <5>2. ~Before(order[i], e)
          BY <3>2, <5>1, BeforeIsTotal
        <5>. QED
          BY <1>1, <4>1, <5>2
      <4>. QED
        BY <4>1, <4>2
    <3>5. i \in calls
      BY <1>1, <1>3, <2>1, <3>3, <3>4 DEF Calls
    <3>. QED
      BY <3>1, <3>5
  <2>3. Cardinality(after) <= Cardinality(calls)
    <3>1. after \subseteq {order[i] : i \in calls}
      BY <2>2
    <3>. HIDE DEF after, calls
    <3>. QED
      BY <1>5, <3>1, ImageIsNoLarger
  <2>4. e \in replies
    BY <1>3, <2>1
  <2>. QED
    BY <1>2, <2>3, <2>4
<1>. HIDE DEF words, replies
<1>8. said.chases \in Nat
  BY <1>2, <1>5
<1>9. /\ said.contact = LastOf(words) /\ said.inbound = LastOf(replies) /\ said.chases \in Nat
      /\ replies = {} => Cardinality(words) <= said.chases
      /\ replies # {} => \E e \in replies :
           Cardinality({f \in words : entry[f].direction = "outbound" /\ Before(e, f)})
             <= said.chases
  BY <1>4, <1>6, <1>7, <1>8
<1>. QED
  BY <1>9 DEF said, words, replies

-------------------------------------------------------------------------------
(***************************************************************************)
(* The last of some times                                                  *)
(***************************************************************************)

LastTime(T) == IF T = {} THEN None ELSE Max(T)

LEMMA LastTimeIsThere ==
  ASSUME NEW T, T \subseteq Int, IsFiniteSet(T), T # {}
  PROVE  LastTime(T) \in T /\ \A x \in T : x <= LastTime(T)
<1>. DEFINE HasTop(U) == U = {} \/ \E m \in U : \A x \in U : x <= m
            Q == {U \in SUBSET T : HasTop(U)}
<1>1. ASSUME NEW U \in SUBSET T, \A x \in U : U \ {x} \in Q
      PROVE  U \in Q
  <2>1. CASE U = {}
    BY <2>1
  <2>2. CASE U # {}
    <3>1. PICK x \in U : U \ {x} \in Q
      BY <1>1, <2>2
    <3>2. CASE U \ {x} = {}
      BY <3>2
    <3>3. CASE U \ {x} # {}
      <4>1. PICK m \in U \ {x} : \A y \in U \ {x} : y <= m
        BY <3>1, <3>3
      <4>2. CASE x <= m
        BY <4>1, <4>2
      <4>3. CASE ~(x <= m)
        <5>1. \A y \in U : y <= x
          BY <4>1, <4>3
        <5>. QED
          BY <5>1
      <4>. QED
        BY <4>2, <4>3
    <3>. QED
      BY <3>2, <3>3
  <2>. QED
    BY <2>1, <2>2
<1>. HIDE DEF Q
<1>2. T \in Q
  BY <1>1, SubsetInduction
<1>3. PICK m \in T : \A x \in T : x <= m
  BY <1>2 DEF Q
<1>4. Max(T) = m
  BY <1>3, MaxIsTheTop
<1>. QED
  BY <1>3, <1>4 DEF LastTime

LEMMA LastTimeIsATime ==
  ASSUME NEW T, T \subseteq Int, IsFiniteSet(T)
  PROVE  LastTime(T) \in Times
<1>1. CASE T = {}
  BY <1>1 DEF LastTime, Times
<1>2. CASE T # {}
  BY <1>2, LastTimeIsThere DEF Times
<1>. QED
  BY <1>1, <1>2

LEMMA LastTimeGrows ==
  ASSUME NEW T, T \subseteq Int, IsFiniteSet(T), NEW at \in Int
  PROVE  LastTime(T \cup {at}) = LaterOf(LastTime(T), at)
<1>. DEFINE U == T \cup {at}
            m == LaterOf(LastTime(T), at)
<1>1. m \in U /\ \A x \in U : x <= m
  <2>1. CASE T = {}
    BY <2>1 DEF LastTime, LaterOf
  <2>2. CASE T # {}
    <3>1. LastTime(T) \in T /\ \A x \in T : x <= LastTime(T)
      BY <2>2, LastTimeIsThere
    <3>2. LastTime(T) # None /\ LastTime(T) \in Int
      BY <3>1, PipelineAssumption
    <3>3. m = IF at > LastTime(T) THEN at ELSE LastTime(T)
      BY <3>2 DEF LaterOf
    <3>. HIDE DEF m
    <3>. QED
      BY <3>1, <3>2, <3>3
  <2>. QED
    BY <2>1, <2>2
<1>2. U \subseteq Int /\ U # {}
  OBVIOUS
<1>. HIDE DEF U, m
<1>3. Max(U) = m
  BY <1>1, <1>2, MaxIsTheTop
<1>4. LastTime(U) = m
  BY <1>2, <1>3 DEF LastTime
<1>. QED
  BY <1>4 DEF U, m

LEMMA LastTimeOfBoth ==
  ASSUME NEW T, T \subseteq Int, IsFiniteSet(T), NEW U, U \subseteq Int, IsFiniteSet(U)
  PROVE  LastTime(T \cup U) = LaterOfBoth(LastTime(T), LastTime(U))
<1>1. CASE U = {}
  BY <1>1 DEF LastTime, LaterOfBoth
<1>2. CASE U # {}
  <2>. DEFINE u == LastTime(U)
              m == LaterOf(LastTime(T), u)
  <2>1. u \in U /\ u \in Int /\ \A x \in U : x <= u
    BY <1>2, LastTimeIsThere
  <2>2. u # None
    BY <2>1, PipelineAssumption
  <2>. HIDE DEF u
  <2>3. m \in T \cup U /\ \A x \in T \cup U : x <= m
    <3>1. CASE T = {}
      BY <2>1, <3>1 DEF LastTime, LaterOf
    <3>2. CASE T # {}
      <4>. PICK t : t = LastTime(T)
        OBVIOUS
      <4>1. t \in T /\ t \in Int /\ \A x \in T : x <= t
        BY <3>2, LastTimeIsThere
      <4>2. t # None
        BY <4>1, PipelineAssumption
      <4>3. m = IF u > t THEN u ELSE t
        BY <4>2 DEF LaterOf
      <4>. HIDE DEF m
      <4>. QED
        BY <2>1, <4>1, <4>3
    <3>. QED
      BY <3>1, <3>2
  <2>. HIDE DEF m
  <2>4. T \cup U \subseteq Int /\ T \cup U # {}
    BY <1>2
  <2>5. Max(T \cup U) = m
    BY <2>3, <2>4, MaxIsTheTop
  <2>6. LastTime(T \cup U) = m
    BY <2>4, <2>5 DEF LastTime
  <2>. QED
    BY <2>2, <2>6 DEF LaterOfBoth, m, u
<1>. QED
  BY <1>1, <1>2

LEMMA LaterIsATime ==
  ASSUME NEW one \in Times, NEW other \in Times, NEW at \in Int
  PROVE  /\ LaterOf(one, at) \in Times
         /\ LaterOfBoth(one, other) \in Times
         /\ LaterOfBoth(LaterOf(one, at), other) = LaterOf(LaterOfBoth(one, other), at)
BY PipelineAssumption DEF Times, LaterOf, LaterOfBoth

\* When some entries were.
At(es) == {entry[e].at : e \in es}

LEMMA LastIsLastTime ==
  ASSUME NEW es
  PROVE  LastOf(es) = LastTime(At(es))
BY DEF LastOf, LastTime, At

LEMMA AtIsFinite ==
  ASSUME NEW es \in SUBSET EntryIds, Dated(es)
  PROVE  At(es) \subseteq Int /\ IsFiniteSet(At(es)) /\ IsFiniteSet(es)
<1>1. IsFiniteSet(es)
  BY CommsAssumption, FS_Subset
<1>. DEFINE when == [e \in es |-> entry[e].at]
<1>2. At(es) \subseteq {when[e] : e \in es}
  BY DEF At
<1>. HIDE DEF when
<1>3. IsFiniteSet(At(es))
  BY <1>1, <1>2, ImageIsNoLarger
<1>. QED
  BY <1>1, <1>3 DEF At, Dated

-------------------------------------------------------------------------------
(***************************************************************************)
(* The log and its stamps                                                  *)
(***************************************************************************)

\* Stamps that say what the log says of a lead, in the words of StampsFollowTheLog,
\* where this much was borrowed from its client.
Faithful(l, contact, inbound, from) ==
  /\ contact = LaterOfBoth(LastOf(Stand(l, {"inbound", "outbound"})), from.contact)
  /\ inbound = LaterOfBoth(LastOf(Stand(l, {"inbound"})), from.inbound)

Loans == [contact : Times, inbound : Times]

\* What a request in flight read is still so: an entry being logged carries the
\* stamps of the lead as it is, and a repair the stamps of the log as it is.
Entering(job) ==
  /\ job.job = "log"
  /\ job.row \in EntryRows /\ ~job.row.voided
  /\ job.lead = Behind[job.row.subject] /\ job.next \in Times
  /\ job.lead # None =>
       /\ job.read = lead[job.lead]
       /\ job.stamped = Stamped(lead[job.lead], job.row.direction, job.row.at)

Restoring(job) ==
  /\ job \in StampJobs
  /\ job.read = lead[job.lead]
  /\ Faithful(job.lead, job.stamped.contact, job.stamped.inbound, borrowed[job.lead])

InFlight == {work[s] : s \in Sessions} \ {None}

LogTurn ==
  /\ serial
  /\ \A e \in EntryIds : entry[e] \in EntryRows \cup {None}
  /\ \A l \in Leads : lead[l] \in LeadRows /\ borrowed[l] \in Loans
  /\ \A job \in InFlight : Entering(job) \/ job \in RestampJobs \/ Restoring(job)
  /\ \A l \in Leads \ unstamped :
       ~Restamping(l) => Faithful(l, lead[l].contact, lead[l].inbound, borrowed[l])

LogInv ==
  /\ DOMAIN entry = EntryIds
  /\ desk \notin LogDesks => /\ \A e \in EntryIds : entry[e] = None
                             /\ \A l \in Leads : borrowed[l] = NothingBorrowed
  /\ desk = "leads" => \A l \in Recorded : lead[l].contact = None /\ lead[l].inbound = None
  /\ desk \in LogDesks => LogTurn

LEMMA NothingToldYet ==
  ASSUME Logged = {}, NEW l
  PROVE  Faithful(l, None, None, NothingBorrowed)
<1>1. \A directions : Stand(l, directions) = {}
  BY DEF Stand, Standing, OwnEntries
<1>. QED
  BY <1>1 DEF Faithful, LastOf, NothingBorrowed, LaterOfBoth

LEMMA InitLog == Init => LogInv
<1>. SUFFICES ASSUME Init PROVE LogInv
  OBVIOUS
<1>1. /\ entry = [e \in EntryIds |-> None] /\ Logged = {}
      /\ \A s \in Sessions : work[s] = None
      /\ \A l \in Leads : borrowed[l] = NothingBorrowed
  BY DEF Init, CommsInit, Logged, RequestsInit
<1>2. CASE desk \in LogDesks
  <2>1. PICK owned \in BOOLEAN, client \in Clients \cup {None} :
          /\ today = Horizon
          /\ lead = [l \in Leads |-> [NewLead(None, today + 1, owned, client) EXCEPT !.since = 0]]
    BY <1>2 DEF Init, LogDesks
  <2>2. today \in Int /\ serial
    <3>1. serial \/ desk = "leads"
      BY DEF Init
    <3>. QED
      BY <1>2, <2>1, <3>1, ClockAssumption DEF LogDesks
  <2>. DEFINE new == NewLead(None, today + 1, owned, client)
  <2>3. new \in LeadRows /\ new.contact = None /\ new.inbound = None
    BY <2>2, NewLeadRow DEF NewLead
  <2>. HIDE DEF new
  <2>4. ASSUME NEW l \in Leads
        PROVE  lead[l] \in LeadRows /\ lead[l].contact = None /\ lead[l].inbound = None
    BY <2>1, <2>3 DEF new, LeadRows
  <2>5. NothingBorrowed \in Loans
    BY DEF NothingBorrowed, Loans, Times
  <2>6. InFlight = {}
    BY <1>1 DEF InFlight
  <2>. QED
    BY <1>1, <1>2, <2>2, <2>4, <2>5, <2>6, NothingToldYet DEF LogInv, LogTurn, LogDesks
<1>3. CASE desk \notin LogDesks
  <2>1. Recorded = {}
    BY <1>3 DEF Init, LogDesks, PipelineInit, Recorded
  <2>. QED
    BY <1>1, <1>3, <2>1 DEF LogInv
<1>. QED
  BY <1>2, <1>3

LEMMA LoggedIsDated ==
  ASSUME LogTurn, NEW es \in SUBSET Logged
  PROVE  es \in SUBSET EntryIds /\ Dated(es)
BY DEF LogTurn, Logged, Dated, EntryRows

LEMMA StandIsLogged ==
  ASSUME NEW l, NEW directions
  PROVE  Stand(l, directions) \in SUBSET Logged
BY DEF Stand, Standing, OwnEntries

LEMMA WordsHaveATime ==
  ASSUME LogTurn, NEW l, NEW directions
  PROVE  LastOf(Stand(l, directions)) \in Times
<1>1. Stand(l, directions) \in SUBSET EntryIds /\ Dated(Stand(l, directions))
  BY StandIsLogged, LoggedIsDated
<1>2. At(Stand(l, directions)) \subseteq Int /\ IsFiniteSet(At(Stand(l, directions)))
  BY <1>1, AtIsFinite
<1>. QED
  BY <1>2, LastIsLastTime, LastTimeIsATime

\* An entry that joins the log is the last word if it is later than the last.
LEMMA StandGrows ==
  ASSUME LogTurn, DOMAIN entry = EntryIds, NEW e \in EntryIds \ Logged, NEW new \in EntryRows,
         ~new.voided, entry' = [entry EXCEPT ![e] = new], NEW l, NEW directions
  PROVE  LastOf(Stand(l, directions))' =
           IF Behind[new.subject] = l /\ new.direction \in directions
           THEN LaterOf(LastOf(Stand(l, directions)), new.at) ELSE LastOf(Stand(l, directions))
<1>. DEFINE S == Stand(l, directions)
            T == At(S)
            joins == Behind[new.subject] = l /\ new.direction \in directions
<1>1. /\ entry'[e] = new /\ new # None /\ \A f \in EntryIds \ {e} : entry'[f] = entry[f]
      /\ Logged' = Logged \cup {e} /\ e \notin Logged
  BY CommsAssumption DEF Logged
<1>2. S' = IF joins THEN S \cup {e} ELSE S
  BY <1>1 DEF Stand, Standing, OwnEntries, Logged
<1>3. S \in SUBSET Logged /\ S \in SUBSET EntryIds /\ e \notin S
  BY <1>1, StandIsLogged, LoggedIsDated
<1>4. \A f \in S : entry'[f] = entry[f]
  BY <1>1, <1>3
<1>5. At(S)' = IF joins THEN T \cup {new.at} ELSE T
  <2>1. At(S)' = {entry'[f].at : f \in S'}
    BY DEF At
  <2>2. {entry[f].at : f \in S} = T /\ {entry'[f].at : f \in S} = T
    BY <1>4 DEF At
  <2>3. {entry'[f].at : f \in S \cup {e}} = {entry'[f].at : f \in S} \cup {entry'[e].at}
    OBVIOUS
  <2>. HIDE DEF S, T, joins
  <2>4. CASE joins
    BY <1>1, <1>2, <2>1, <2>2, <2>3, <2>4
  <2>5. CASE ~joins
    BY <1>2, <2>1, <2>2, <2>5
  <2>. QED
    BY <2>4, <2>5
<1>6. T \subseteq Int /\ IsFiniteSet(T)
  BY <1>3, LoggedIsDated, AtIsFinite
<1>7. new.at \in Int
  BY DEF EntryRows
<1>8. LastOf(S) = LastTime(T) /\ LastOf(S)' = LastTime(At(S)')
  BY DEF LastOf, LastTime, At
<1>. HIDE DEF S, T
<1>9. LastTime(T \cup {new.at}) = LaterOf(LastTime(T), new.at)
  BY <1>6, <1>7, LastTimeGrows
<1>. QED
  BY <1>5, <1>8, <1>9 DEF S

LEMMA EntryIsFaithful ==
  ASSUME LogTurn, DOMAIN entry = EntryIds, NEW e \in EntryIds \ Logged, NEW new \in EntryRows,
         ~new.voided, entry' = [entry EXCEPT ![e] = new], NEW l, NEW from \in Loans,
         NEW contact, NEW inbound, Faithful(l, contact, inbound, from),
         NEW contact2, NEW inbound2,
         contact2 = IF Behind[new.subject] = l /\ new.direction # "internal"
                    THEN LaterOf(contact, new.at) ELSE contact,
         inbound2 = IF Behind[new.subject] = l /\ new.direction = "inbound"
                    THEN LaterOf(inbound, new.at) ELSE inbound
  PROVE  Faithful(l, contact2, inbound2, from)'
<1>. DEFINE words == LastOf(Stand(l, {"inbound", "outbound"}))
            replies == LastOf(Stand(l, {"inbound"}))
<1>1. new.at \in Int /\ new.direction \in DIRECTIONS
      /\ from.contact \in Times /\ from.inbound \in Times
  BY DEF EntryRows, Loans
<1>2. words \in Times /\ replies \in Times
  BY WordsHaveATime
<1>3. /\ words' = IF Behind[new.subject] = l /\ new.direction # "internal"
                  THEN LaterOf(words, new.at) ELSE words
      /\ replies' = IF Behind[new.subject] = l /\ new.direction = "inbound"
                    THEN LaterOf(replies, new.at) ELSE replies
  <2>1. /\ new.direction \in {"inbound", "outbound"} <=> new.direction # "internal"
        /\ new.direction \in {"inbound"} <=> new.direction = "inbound"
    BY <1>1 DEF DIRECTIONS
  <2>2. words' = IF Behind[new.subject] = l /\ new.direction \in {"inbound", "outbound"}
                 THEN LaterOf(words, new.at) ELSE words
    BY StandGrows
  <2>3. replies' = IF Behind[new.subject] = l /\ new.direction \in {"inbound"}
                   THEN LaterOf(replies, new.at) ELSE replies
    BY StandGrows
  <2>. HIDE DEF words, replies
  <2>. QED
    BY <2>1, <2>2, <2>3
<1>4. contact = LaterOfBoth(words, from.contact) /\ inbound = LaterOfBoth(replies, from.inbound)
  BY DEF Faithful
<1>5. Faithful(l, contact2, inbound2, from)' <=>
        /\ contact2 = LaterOfBoth(words', from.contact)
        /\ inbound2 = LaterOfBoth(replies', from.inbound)
  BY DEF Faithful, LaterOfBoth, LaterOf
<1>. HIDE DEF words, replies
<1>6. /\ LaterOfBoth(LaterOf(words, new.at), from.contact) = LaterOf(contact, new.at)
      /\ LaterOfBoth(LaterOf(replies, new.at), from.inbound) = LaterOf(inbound, new.at)
  BY <1>1, <1>2, <1>4, LaterIsATime
<1>7. contact2 = LaterOfBoth(words', from.contact)
  BY <1>3, <1>4, <1>6
<1>8. inbound2 = LaterOfBoth(replies', from.inbound)
  BY <1>3, <1>4, <1>6
<1>. QED
  BY <1>5, <1>7, <1>8

\* Where a lead's own entries are as they were, so is what is faithful to them.
LEMMA FaithfulKept ==
  ASSUME NEW l, NEW contact, NEW inbound, NEW from, Logged' = Logged,
         \A e \in Logged : /\ entry'[e].subject = entry[e].subject
                           /\ Behind[entry[e].subject] = l => entry'[e] = entry[e]
  PROVE  Faithful(l, contact, inbound, from)' <=> Faithful(l, contact, inbound, from)
<1>1. \A directions : Stand(l, directions)' = Stand(l, directions)
  BY DEF Stand, Standing, OwnEntries
<1>2. \A directions : \A e \in Stand(l, directions) : entry'[e] = entry[e]
  BY DEF Stand, Standing, OwnEntries
<1>3. ASSUME NEW directions
      PROVE  LastOf(Stand(l, directions))' = LastOf(Stand(l, directions))
  <2>. DEFINE S == Stand(l, directions)
  <2>1. S' = S /\ {entry'[e].at : e \in S} = {entry[e].at : e \in S}
    BY <1>1, <1>2
  <2>2. /\ LastOf(S)' = IF S' = {} THEN None ELSE Max({entry'[e].at : e \in S'})
        /\ LastOf(S) = IF S = {} THEN None ELSE Max({entry[e].at : e \in S})
    BY DEF LastOf
  <2>. HIDE DEF S
  <2>3. LastOf(S)' = LastOf(S)
    BY <2>1, <2>2
  <2>. QED
    BY <2>3 DEF S
<1>. QED
  BY <1>3 DEF Faithful, LaterOfBoth, LaterOf

\* Two sets of entries, and the last of both.
LEMMA LastOfBoth ==
  ASSUME NEW es \in SUBSET EntryIds, Dated(es), NEW fs \in SUBSET EntryIds, Dated(fs)
  PROVE  /\ LastOf(es \cup fs) = LaterOfBoth(LastOf(es), LastOf(fs))
         /\ LastOf(fs) \in Times
<1>1. At(es) \subseteq Int /\ IsFiniteSet(At(es)) /\ At(fs) \subseteq Int /\ IsFiniteSet(At(fs))
  BY AtIsFinite
<1>2. At(es \cup fs) = At(es) \cup At(fs)
  BY DEF At
<1>3. LastTime(At(es) \cup At(fs)) = LaterOfBoth(LastTime(At(es)), LastTime(At(fs)))
  BY <1>1, LastTimeOfBoth
<1>4. LastTime(At(fs)) \in Times
  BY <1>1, LastTimeIsATime
<1>. QED
  BY <1>2, <1>3, <1>4, LastIsLastTime

\* The stamps a repair reads off the timeline.
LEMMA TimelineIsFaithful ==
  ASSUME LogTurn, NEW l \in Leads
  PROVE  /\ FromLog(l) \in [contact : Times, inbound : Times, chases : Nat]
         /\ ClientsLast(l) \in Loans
         /\ Faithful(l, FromLog(l).contact, FromLog(l).inbound, ClientsLast(l))
<1>. DEFINE es == Timeline(l)
            said == History(es)
            words == {e \in es : Counts(e)}
            replies == {e \in words : entry[e].direction = "inbound"}
            own == Stand(l, {"inbound", "outbound"})
            ownReplies == Stand(l, {"inbound"})
            apart == Standing(ClientEntries(l), {"inbound", "outbound"})
            apartReplies == Standing(ClientEntries(l), {"inbound"})
<1>1. es \in SUBSET Logged /\ es \in SUBSET EntryIds /\ Dated(es)
  <2>1. es \in SUBSET Logged
    BY DEF Timeline, OwnEntries, ClientEntries
  <2>. QED
    BY <2>1, LoggedIsDated
<1>2. said.contact = LastOf(words) /\ said.inbound = LastOf(replies) /\ said.chases \in Nat
  BY <1>1, HistoryTold
<1>3. words = own \cup apart /\ replies = ownReplies \cup apartReplies
  BY <1>1 DEF Stand, Standing, Timeline, Counts, Dated, DIRECTIONS
<1>4. /\ own \in SUBSET Logged /\ ownReplies \in SUBSET Logged
      /\ apart \in SUBSET Logged /\ apartReplies \in SUBSET Logged
  BY StandIsLogged DEF Standing, ClientEntries
<1>5. said = [contact |-> said.contact, inbound |-> said.inbound, chases |-> said.chases]
  BY <1>1, HistoryIsTelling DEF Telling
<1>6. ClientsLast(l) = [contact |-> LastOf(apart), inbound |-> LastOf(apartReplies)]
  BY DEF ClientsLast
<1>. HIDE DEF said, words, replies, own, ownReplies, apart, apartReplies
<1>7. /\ LastOf(words) = LaterOfBoth(LastOf(own), LastOf(apart))
      /\ LastOf(replies) = LaterOfBoth(LastOf(ownReplies), LastOf(apartReplies))
      /\ LastOf(apart) \in Times /\ LastOf(apartReplies) \in Times
  BY <1>3, <1>4, LoggedIsDated, LastOfBoth
<1>8. LastOf(own) \in Times /\ LastOf(ownReplies) \in Times
  BY WordsHaveATime DEF own, ownReplies
<1>9. said.contact \in Times /\ said.inbound \in Times
  BY <1>2, <1>7, <1>8 DEF LaterOfBoth, LaterOf
<1>10. said \in [contact : Times, inbound : Times, chases : Nat]
  BY <1>2, <1>5, <1>9
<1>11. Faithful(l, said.contact, said.inbound, ClientsLast(l))
  BY <1>2, <1>6, <1>7 DEF Faithful, own, ownReplies
<1>. QED
  BY <1>6, <1>7, <1>10, <1>11 DEF FromLog, said, Loans

SameLoans == \A l \in Leads : borrowed'[l] = borrowed[l]

LEMMA SameJobs ==
  ASSUME UNCHANGED <<entry, lead>>, SameLoans, NEW job
  PROVE  /\ Entering(job)' <=> Entering(job)
         /\ Restoring(job)' <=> Restoring(job)
<1>1. Entering(job)' <=> Entering(job)
  BY DEF Entering, Stamped, LaterOf
<1>2. ASSUME job \in StampJobs PROVE Restoring(job)' <=> Restoring(job)
  <2>. PICK l \in Leads : l = job.lead
    BY <1>2 DEF StampJobs
  <2>. PICK contact, inbound, from :
         contact = job.stamped.contact /\ inbound = job.stamped.inbound /\ from = borrowed[l]
    OBVIOUS
  <2>1. Faithful(l, contact, inbound, from)' <=> Faithful(l, contact, inbound, from)
    <3>1. Logged' = Logged
      BY DEF Logged
    <3>. QED
      BY <3>1, FaithfulKept
  <2>2. borrowed'[l] = from
    BY DEF SameLoans
  <2>3. Faithful(l, contact, inbound, borrowed[l])' <=> Faithful(l, contact, inbound, from)'
    BY <2>2 DEF Faithful, LaterOfBoth, LaterOf
  <2>. QED
    BY <2>1, <2>3 DEF Restoring
<1>3. job \notin StampJobs => ~Restoring(job) /\ ~Restoring(job)'
  BY DEF Restoring
<1>. QED
  BY <1>1, <1>2, <1>3

\* The stamps of a lead, after a step that leaves it with these.
LEMMA StampsAreFaithful ==
  ASSUME NEW l, NEW contact, NEW inbound, NEW from,
         lead'[l].contact = contact, lead'[l].inbound = inbound, borrowed'[l] = from,
         Faithful(l, contact, inbound, from)'
  PROVE  Faithful(l, lead[l].contact, lead[l].inbound, borrowed[l])'
BY DEF Faithful, LaterOfBoth, LaterOf

\* The stamps of a lead that keeps them, its own entries, and what it borrowed.
LEMMA StampsKept ==
  ASSUME NEW l, Logged' = Logged, borrowed'[l] = borrowed[l],
         \A e \in Logged : /\ entry'[e].subject = entry[e].subject
                           /\ Behind[entry[e].subject] = l => entry'[e] = entry[e],
         lead'[l].contact = lead[l].contact, lead'[l].inbound = lead[l].inbound,
         Faithful(l, lead[l].contact, lead[l].inbound, borrowed[l])
  PROVE  Faithful(l, lead[l].contact, lead[l].inbound, borrowed[l])'
<1>. PICK contact, inbound, from :
       contact = lead[l].contact /\ inbound = lead[l].inbound /\ from = borrowed[l]
  OBVIOUS
<1>1. Faithful(l, contact, inbound, from)
  OBVIOUS
<1>2. Faithful(l, contact, inbound, from)'
  BY <1>1, FaithfulKept
<1>. QED
  BY <1>2, StampsAreFaithful

\* A step of a request that writes nothing.
LEMMA WorkMoves ==
  ASSUME LogTurn, UNCHANGED <<entry, lead, serial>>, SameLoans,
         \A job \in InFlight' :
           job \in InFlight \/ Entering(job) \/ job \in RestampJobs \/ Restoring(job),
         \A l \in Leads \ unstamped' : ~Restamping(l)' => l \notin unstamped /\ ~Restamping(l)
  PROVE  LogTurn'
<1>1. ASSUME NEW job \in InFlight'
      PROVE  Entering(job)' \/ job \in RestampJobs \/ Restoring(job)'
  <2>1. Entering(job) \/ job \in RestampJobs \/ Restoring(job)
    BY <1>1 DEF LogTurn
  <2>. QED
    BY <2>1, SameJobs
<1>2. ASSUME NEW l \in Leads \ unstamped', ~Restamping(l)'
      PROVE  Faithful(l, lead[l].contact, lead[l].inbound, borrowed[l])'
  <2>1. Faithful(l, lead[l].contact, lead[l].inbound, borrowed[l])
    BY <1>2 DEF LogTurn
  <2>2. Logged' = Logged
    BY DEF Logged
  <2>. QED
    BY <2>1, <2>2, StampsKept DEF SameLoans
<1>. QED
  BY <1>1, <1>2 DEF LogTurn, SameLoans

LEMMA NobodyWaits ==
  ASSUME LogTurn, Quiet
  PROVE  /\ \A s \in Sessions : work[s] = None
         /\ InFlight = {} /\ \A l : ~Restamping(l)
BY DEF LogTurn, Quiet, InFlight, Restamping

LEMMA LogBegins ==
  ASSUME LogTurn, UNCHANGED <<entry, lead, serial, unstamped>>, SameLoans,
         NEW s \in Sessions, NEW job, Decide(s, job), Entering(job) \/ job \in RestampJobs
  PROVE  LogTurn'
<1>1. (\A t \in Sessions : work[t] = None) /\ \A l : ~Restamping(l)
  BY NobodyWaits DEF Decide
<1>2. \A new \in InFlight' : new = job
  BY <1>1 DEF InFlight, Decide
<1>. QED
  BY <1>1, <1>2, WorkMoves DEF LogTurn

LEMMA CorrectionKeeps ==
  ASSUME LogTurn, DOMAIN entry = EntryIds, DOMAIN work = Sessions, Quiet,
         UNCHANGED <<lead, serial, unstamped>>, SameLoans,
         NEW s \in Sessions, NEW e \in Logged, NEW new \in EntryRows,
         new.subject = entry[e].subject, entry' = [entry EXCEPT ![e] = new],
         work' = [work EXCEPT ![s] = Restamp(entry[e].subject)]
  PROVE  LogTurn'
<1>. PICK x : x = entry[e].subject
  OBVIOUS
<1>1. /\ entry'[e] = new /\ new # None /\ e \in EntryIds
      /\ \A f \in EntryIds \ {e} : entry'[f] = entry[f]
      /\ Logged' = Logged
  BY CommsAssumption DEF Logged
<1>2. x \in Subjects /\ Behind[x] \in Leads \cup {None}
  BY CommsAssumption DEF EntryRows
<1>3. (\A t \in Sessions : work[t] = None) /\ \A l : ~Restamping(l)
  BY NobodyWaits
<1>4. work'[s] = Restamp(x) /\ \A t \in Sessions \ {s} : work'[t] = None
  BY <1>3
<1>5. Behind[x] # None =>
        /\ Restamp(x) \in RestampJobs /\ Restamp(x) # None
        /\ Restamp(x).job = "restamp" /\ Restamp(x).lead = Behind[x]
  BY <1>2, CommsAssumption DEF Restamp, RestampJobs
<1>6. \A job \in InFlight' : job \in RestampJobs
  BY <1>4, <1>5 DEF InFlight, Restamp
<1>7. ASSUME NEW l \in Leads \ unstamped', ~Restamping(l)'
      PROVE  Faithful(l, lead[l].contact, lead[l].inbound, borrowed[l])'
  <2>1. Behind[x] # l
    <3>1. l # None
      BY PipelineAssumption
    <3>. QED
      BY <1>4, <1>5, <1>7, <3>1 DEF Restamping
  <2>2. Faithful(l, lead[l].contact, lead[l].inbound, borrowed[l])
    BY <1>3, <1>7 DEF LogTurn
  <2>3. \A f \in Logged : /\ entry'[f].subject = entry[f].subject
                          /\ Behind[entry[f].subject] = l => entry'[f] = entry[f]
    BY <1>1, <2>1 DEF Logged
  <2>. QED
    BY <1>1, <2>2, <2>3, StampsKept DEF SameLoans
<1>8. \A f \in EntryIds : entry'[f] \in EntryRows \cup {None}
  BY <1>1 DEF LogTurn
<1>. QED
  BY <1>6, <1>7, <1>8 DEF LogTurn, SameLoans

\* A lead that is given another client keeps its stamps.
LEMMA ClientKeeps ==
  ASSUME LogTurn, DOMAIN lead = Leads, UNCHANGED <<serial, unstamped>>, SameLoans,
         NEW l \in Leads, NEW client \in Clients \cup {None}, ChangeClient(l, client)
  PROVE  LogTurn'
<1>1. UNCHANGED <<entry, work>> /\ (\A t \in Sessions : work[t] = None) /\ InFlight = {}
      /\ \A k : ~Restamping(k)
  BY NobodyWaits DEF ChangeClient, Update
<1>2. InFlight' = {} /\ Logged' = Logged
  BY <1>1 DEF InFlight, Logged
<1>3. PICK mine : mine = lead[l]
  OBVIOUS
<1>4. mine \in LeadRows
  BY <1>3 DEF LogTurn
<1>. DEFINE new == [mine EXCEPT !.next = mine.next, !.owned = mine.owned, !.reason = mine.reason,
                      !.client = client]
<1>5. new \in LeadRows /\ new.contact = mine.contact /\ new.inbound = mine.inbound
  BY <1>4 DEF LeadRows
<1>6. lead' = [lead EXCEPT ![l] = new]
  BY <1>3 DEF ChangeClient, Update
<1>. HIDE DEF new
<1>7. ASSUME NEW k \in Leads
      PROVE  /\ lead'[k] \in LeadRows
             /\ lead'[k].contact = lead[k].contact /\ lead'[k].inbound = lead[k].inbound
  <2>1. CASE k = l
    BY <1>3, <1>5, <1>6, <2>1
  <2>2. CASE k # l
    <3>1. lead'[k] = lead[k]
      BY <1>6, <2>2
    <3>. QED
      BY <3>1 DEF LogTurn
  <2>. QED
    BY <2>1, <2>2
<1>8. ASSUME NEW k \in Leads \ unstamped
      PROVE  Faithful(k, lead[k].contact, lead[k].inbound, borrowed[k])'
  <2>1. Faithful(k, lead[k].contact, lead[k].inbound, borrowed[k])
    BY <1>1 DEF LogTurn
  <2>. QED
    BY <1>1, <1>2, <1>7, <2>1, StampsKept DEF SameLoans
<1>. QED
  BY <1>1, <1>2, <1>7, <1>8 DEF LogTurn, SameLoans

\* Who is at work is alone.
LEMMA WorksAlone ==
  ASSUME LogTurn, InTurn, NEW s \in Sessions, work[s] # None
  PROVE  /\ \A t \in Sessions \ {s} : work[t] = None
         /\ InFlight = {work[s]}
         /\ \A l : Restamping(l) <=> work[s].job \in {"restamp", "stamps"} /\ work[s].lead = l
BY DEF LogTurn, InTurn, OnePending, InFlight, Restamping

\* The request ends.
LEMMA AloneEnds ==
  ASSUME LogTurn, InTurn, NEW s \in Sessions, work[s] # None, Done(s)
  PROVE  (\A t \in Sessions : work'[t] = None) /\ InFlight' = {} /\ \A l : ~Restamping(l)'
BY WorksAlone DEF Done, InTurn, InFlight, Restamping

LEMMA CommitLogKeeps ==
  ASSUME LogTurn, InTurn, DOMAIN entry = EntryIds, DOMAIN lead = Leads,
         UNCHANGED <<serial, unstamped>>, SameLoans, NEW s \in Sessions, CommitLog(s)
  PROVE  LogTurn'
<1>. PICK job : job = work[s]
  OBVIOUS
<1>1. work[s] # None /\ job.job = "log" /\ Entering(job)
  <2>1. work[s] # None /\ job.job = "log"
    BY DEF CommitLog
  <2>2. job \in InFlight
    BY <2>1 DEF InFlight
  <2>. QED
    BY <2>1, <2>2 DEF LogTurn, RestampJobs, StampJobs, Restoring
<1>. PICK new, k : new = job.row /\ k = job.lead
  OBVIOUS
<1>2. /\ new \in EntryRows /\ ~new.voided /\ k = Behind[new.subject] /\ k \in Leads \cup {None}
      /\ new.at \in Int /\ job.next \in Times
  BY <1>1, CommsAssumption DEF Entering, EntryRows
<1>3. PICK e \in EntryIds \ Logged : entry' = [entry EXCEPT ![e] = new]
  BY DEF CommitLog
<1>4. /\ InFlight' = {} /\ \A l : ~Restamping(l)
  BY <1>1, WorksAlone, AloneEnds DEF CommitLog
<1>5. ASSUME NEW l \in Leads
      PROVE  /\ lead'[l] \in LeadRows
             /\ lead'[l].contact = IF k = l /\ new.direction # "internal"
                                   THEN LaterOf(lead[l].contact, new.at) ELSE lead[l].contact
             /\ lead'[l].inbound = IF k = l /\ new.direction = "inbound"
                                   THEN LaterOf(lead[l].inbound, new.at) ELSE lead[l].inbound
  <2>. DEFINE row0 == lead[l]
  <2>1. row0 \in LeadRows /\ row0.contact \in Times /\ row0.inbound \in Times
    BY DEF LogTurn, LeadRows, Times
  <2>2. CASE k # l
    <3>1. lead'[l] = row0
      BY <2>2 DEF CommitLog
    <3>. QED
      BY <2>1, <2>2, <3>1
  <2>3. CASE k = l
    <3>. DEFINE stamped == Stamped(row0, new.direction, new.at)
                written == WithStamps(row0, row0, stamped)
                last == Scheduled(written, job.next)
    <3>1. lead'[l] = last
      <4>1. k # None /\ job.read = row0 /\ job.stamped = stamped
        BY <1>1, <2>3, PipelineAssumption DEF Entering
      <4>. QED
        BY <2>3, <4>1 DEF CommitLog
    <3>2. new.direction \in DIRECTIONS
      BY <1>2 DEF EntryRows
    <3>3. /\ stamped.contact = IF new.direction # "internal" THEN LaterOf(row0.contact, new.at)
                               ELSE row0.contact
          /\ stamped.inbound = IF new.direction = "inbound" THEN LaterOf(row0.inbound, new.at)
                               ELSE row0.inbound
      BY <2>1, <3>2 DEF Stamped, DIRECTIONS, LeadRows
    <3>4. stamped.contact \in Times /\ stamped.inbound \in Times
      BY <1>2, <2>1, <3>3 DEF LaterOf, Times
    <3>. HIDE DEF row0, stamped
    <3>5. written \in LeadRows /\ written.contact = stamped.contact
          /\ written.inbound = stamped.inbound
      BY <2>1, <3>4 DEF WithStamps, Fresh, LeadRows, Times
    <3>. HIDE DEF written
    <3>6. last \in LeadRows /\ last.contact = written.contact /\ last.inbound = written.inbound
      BY <1>2, <3>5 DEF Scheduled, LeadRows, Times
    <3>. HIDE DEF last
    <3>. QED
      BY <2>3, <3>1, <3>3, <3>5, <3>6 DEF row0
  <2>. QED
    BY <2>2, <2>3
<1>6. ASSUME NEW l \in Leads \ unstamped
      PROVE  Faithful(l, lead[l].contact, lead[l].inbound, borrowed[l])'
  <2>. PICK contact, inbound, from :
         contact = lead[l].contact /\ inbound = lead[l].inbound /\ from = borrowed[l]
    OBVIOUS
  <2>. PICK contact2, inbound2 : contact2 = lead'[l].contact /\ inbound2 = lead'[l].inbound
    OBVIOUS
  <2>1. Faithful(l, contact, inbound, from)
    <3>1. ~Restamping(l)
      BY <1>1, WorksAlone
    <3>. QED
      BY <3>1 DEF LogTurn
  <2>2. from \in Loans
    BY DEF LogTurn
  <2>3. /\ contact2 = IF Behind[new.subject] = l /\ new.direction # "internal"
                      THEN LaterOf(contact, new.at) ELSE contact
        /\ inbound2 = IF Behind[new.subject] = l /\ new.direction = "inbound"
                      THEN LaterOf(inbound, new.at) ELSE inbound
    BY <1>2, <1>5
  <2>4. Faithful(l, contact2, inbound2, from)'
    BY <1>2, <1>3, <2>1, <2>2, <2>3, EntryIsFaithful
  <2>5. borrowed'[l] = from
    BY DEF SameLoans
  <2>. QED
    BY <2>4, <2>5, StampsAreFaithful
<1>7. \A f \in EntryIds : entry'[f] \in EntryRows \cup {None}
  BY <1>2, <1>3 DEF LogTurn
<1>. QED
  BY <1>4, <1>5, <1>6, <1>7 DEF LogTurn, SameLoans

LEMMA ReadTimelineKeeps ==
  ASSUME LogTurn, InTurn, UNCHANGED <<serial, unstamped>>, NEW s \in Sessions, ReadTimeline(s),
         \A k \in Leads : borrowed'[k] = IF k = work[s].lead THEN ClientsLast(k) ELSE borrowed[k]
  PROVE  LogTurn'
<1>. PICK job : job = work[s]
  OBVIOUS
<1>1. work[s] # None /\ job \in RestampJobs /\ UNCHANGED <<lead, entry>>
  <2>1. work[s] # None /\ job.job = "restamp" /\ UNCHANGED <<lead, entry>>
    BY DEF ReadTimeline, commsVars
  <2>2. job \in InFlight
    BY <2>1 DEF InFlight
  <2>. QED
    BY <2>1, <2>2 DEF LogTurn, Entering, Restoring, StampJobs
<1>. PICK l \in Leads : l = job.lead
  BY <1>1 DEF RestampJobs
<1>. PICK read, stamped, from : read = lead[l] /\ stamped = FromLog(l) /\ from = ClientsLast(l)
  OBVIOUS
<1>2. /\ read \in LeadRows
      /\ stamped \in [contact : Times, inbound : Times, chases : Nat]
      /\ from \in Loans
      /\ Faithful(l, stamped.contact, stamped.inbound, from)
  BY TimelineIsFaithful DEF LogTurn
<1>. DEFINE new == [desk |-> "comms", job |-> "stamps", lead |-> l, read |-> read, stamped |-> stamped]
<1>3. /\ new \in StampJobs /\ new # None /\ new.read = read /\ new.stamped = stamped
      /\ new.job = "stamps" /\ new.lead = l
  BY <1>2, CommsAssumption DEF StampJobs
<1>4. work' = [work EXCEPT ![s] = new]
  BY DEF ReadTimeline
<1>. HIDE DEF new
<1>5. work'[s] = new /\ \A t \in Sessions \ {s} : work'[t] = None
  BY <1>1, <1>4, WorksAlone DEF InTurn
<1>6. borrowed'[l] = from /\ \A k \in Leads \ {l} : borrowed'[k] = borrowed[k]
  OBVIOUS
<1>7. Restoring(new)'
  <2>. PICK contact, inbound : contact = stamped.contact /\ inbound = stamped.inbound
    OBVIOUS
  <2>1. Logged' = Logged
    BY <1>1 DEF Logged
  <2>2. Faithful(l, contact, inbound, from)'
    BY <1>1, <1>2, <2>1, FaithfulKept
  <2>3. Faithful(l, contact, inbound, borrowed[l])'
    BY <1>6, <2>2 DEF Faithful, LaterOfBoth, LaterOf
  <2>. QED
    BY <1>1, <1>3, <2>3 DEF Restoring
<1>8. \A other \in InFlight' : Restoring(other)'
  BY <1>3, <1>5, <1>7 DEF InFlight
<1>9. ASSUME NEW k \in Leads \ unstamped, ~Restamping(k)'
      PROVE  Faithful(k, lead[k].contact, lead[k].inbound, borrowed[k])'
  <2>1. k # l
    BY <1>3, <1>5, <1>9 DEF Restamping
  <2>2. ~Restamping(k)
    BY <1>1, <2>1, WorksAlone
  <2>3. Faithful(k, lead[k].contact, lead[k].inbound, borrowed[k])
    BY <2>2 DEF LogTurn
  <2>4. Logged' = Logged
    BY <1>1 DEF Logged
  <2>. QED
    BY <1>1, <1>6, <2>1, <2>3, <2>4, StampsKept
<1>10. \A k \in Leads : lead'[k] \in LeadRows /\ borrowed'[k] \in Loans
  BY <1>1, <1>2, <1>6 DEF LogTurn
<1>. QED
  BY <1>1, <1>8, <1>9, <1>10 DEF LogTurn

LEMMA CommitStampsKeeps ==
  ASSUME LogTurn, InTurn, DOMAIN lead = Leads, UNCHANGED serial, SameLoans,
         NEW s \in Sessions, unstamped \ {work[s].lead} \subseteq unstamped', CommitStamps(s)
  PROVE  LogTurn'
<1>. PICK job : job = work[s]
  OBVIOUS
<1>1. work[s] # None /\ Restoring(job) /\ UNCHANGED entry /\ Done(s)
  <2>1. work[s] # None /\ job.job = "stamps" /\ UNCHANGED entry /\ Done(s)
    BY DEF CommitStamps
  <2>2. job \in InFlight
    BY <2>1 DEF InFlight
  <2>. QED
    BY <2>1, <2>2 DEF LogTurn, Entering, RestampJobs
<1>. PICK l, read, stamped : l = job.lead /\ read = lead[l] /\ stamped = job.stamped
  OBVIOUS
<1>. PICK contact, inbound, from :
       contact = stamped.contact /\ inbound = stamped.inbound /\ from = borrowed[l]
  OBVIOUS
<1>2. /\ l \in Leads /\ job.read = read /\ read \in LeadRows
      /\ contact \in Times /\ inbound \in Times
      /\ Faithful(l, contact, inbound, from)
  BY <1>1 DEF Restoring, StampJobs, LogTurn
<1>. DEFINE new == WithStamps(read, read, stamped)
<1>3. new \in LeadRows /\ new.contact = contact /\ new.inbound = inbound
  BY <1>2 DEF WithStamps, Fresh, LeadRows, Times
<1>4. lead' = [lead EXCEPT ![l] = new]
  BY <1>2 DEF CommitStamps
<1>. HIDE DEF new
<1>5. lead'[l] = new /\ \A k \in Leads \ {l} : lead'[k] = lead[k]
  BY <1>2, <1>4
<1>6. /\ InFlight' = {} /\ \A k : Restamping(k) => k = l
  BY <1>1, WorksAlone, AloneEnds
<1>7. Logged' = Logged
  BY <1>1 DEF Logged
<1>8. ASSUME NEW k \in Leads \ unstamped'
      PROVE  Faithful(k, lead[k].contact, lead[k].inbound, borrowed[k])'
  <2>1. CASE k = l
    <3>1. lead'[k].contact = contact /\ lead'[k].inbound = inbound /\ borrowed'[k] = from
      BY <1>3, <1>5, <2>1 DEF SameLoans
    <3>2. Faithful(k, contact, inbound, from)'
      BY <1>1, <1>2, <1>7, <2>1, FaithfulKept
    <3>. QED
      BY <3>1, <3>2, StampsAreFaithful
  <2>2. CASE k # l
    <3>1. Faithful(k, lead[k].contact, lead[k].inbound, borrowed[k])
      BY <1>6, <1>8, <2>2 DEF LogTurn
    <3>2. lead'[k] = lead[k]
      BY <1>5, <2>2
    <3>. QED
      BY <1>1, <1>7, <3>1, <3>2, StampsKept DEF SameLoans
  <2>. QED
    BY <2>1, <2>2
<1>9. \A k \in Leads : lead'[k] \in LeadRows
  BY <1>3, <1>5 DEF LogTurn
<1>. QED
  BY <1>1, <1>6, <1>8, <1>9 DEF LogTurn, SameLoans

\* A request that fails before its repair leaves the lead to be repaired.
LEMMA LogFailureKeeps ==
  ASSUME LogTurn, InTurn, desk \in LogDesks, UNCHANGED serial, Failure
  PROVE  LogTurn'
<1>. PICK s \in Sessions :
       /\ Abandon(s)
       /\ unstamped' = unstamped \cup
            (IF desk \in {"calls", "log"} /\ work[s].job \in {"restamp", "stamps"}
             THEN {work[s].lead} ELSE {})
  BY DEF Failure
<1>1. work[s] # None /\ Done(s) /\ UNCHANGED <<entry, lead>> /\ SameLoans
  BY DEF Failure, Abandon, commsVars, SameLoans
<1>2. InFlight' = {}
  BY <1>1, AloneEnds
<1>3. \A l \in Leads \ unstamped' : l \notin unstamped /\ ~Restamping(l)
  BY <1>1, WorksAlone DEF LogDesks
<1>. QED
  BY <1>1, <1>2, <1>3, WorkMoves

\* Nothing is repaired while no repair is committed.
LEMMA StillUnstamped ==
  ASSUME LogTurn, InTurn, LogDesk, NEW s \in Sessions
  PROVE  /\ Quiet => UNCHANGED unstamped
         /\ work[s] # None /\ work[s].job # "stamps" => UNCHANGED unstamped
         /\ work[s] # None => unstamped \ {work[s].lead} \subseteq unstamped'
<1>1. unstamped' = {l \in unstamped : \A t \in Sessions :
        work[t] # None /\ work[t].job = "stamps" /\ work[t].lead = l => work'[t] # None}
  BY DEF LogDesk
<1>2. Quiet => UNCHANGED unstamped
  BY <1>1, NobodyWaits
<1>3. ASSUME work[s] # None PROVE \A t \in Sessions \ {s} : work[t] = None
  BY <1>3, WorksAlone
<1>. QED
  BY <1>1, <1>2, <1>3

\* Nothing is borrowed while no timeline is read.
LEMMA StillBorrowed ==
  ASSUME LogTurn, InTurn, LogDesk, NEW s \in Sessions
  PROVE  /\ Quiet => SameLoans
         /\ work[s] # None /\ work[s].job # "restamp" => SameLoans
<1>1. \A l \in Leads : borrowed'[l] = IF \E t \in Sessions : Reads(t, l) THEN ClientsLast(l)
                                      ELSE borrowed[l]
  BY DEF LogDesk
<1>2. ASSUME Quiet PROVE SameLoans
  BY <1>1, <1>2, NobodyWaits DEF Reads, SameLoans
<1>3. ASSUME work[s] # None, work[s].job # "restamp" PROVE SameLoans
  <2>1. \A t \in Sessions \ {s} : work[t] = None
    BY <1>3, WorksAlone
  <2>2. \A t \in Sessions, l \in Leads : ~Reads(t, l)
    BY <1>3, <2>1 DEF Reads
  <2>. QED
    BY <1>1, <2>2 DEF SameLoans
<1>. QED
  BY <1>2, <1>3

LEMMA LogDeskKeeps ==
  ASSUME LogTurn, InTurn, desk \in LogDesks, LogDesk, today \in Int,
         DOMAIN entry = EntryIds, DOMAIN lead = Leads, UNCHANGED serial
  PROVE  LogTurn' /\ DOMAIN entry' = EntryIds
<1>1. \/ \E ids \in {EntryIds, Fewer}, subjects \in SUBSET Subjects : CommsNext(ids, subjects)
      \/ \E l \in Leads, client \in Clients \cup {None} : ChangeClient(l, client)
  BY CommsAssumption DEF LogDesk
<1>2. ASSUME NEW s \in Sessions, NEW e, NEW x \in Subjects, NEW d \in DIRECTIONS,
             NEW at \in 0..today, NEW next \in {None, today + 1}, BeginLog(s, e, x, d, at, next)
      PROVE  LogTurn'
  <2>. PICK l : l = Behind[x]
    OBVIOUS
  <2>. DEFINE new == NewEntry(x, d, at)
              job == [desk |-> "comms", job |-> "log", lead |-> l, row |-> new,
                      read |-> IF l = None THEN None ELSE lead[l],
                      stamped |-> IF l = None THEN None ELSE Stamped(lead[l], d, at),
                      next |-> next]
  <2>1. new \in EntryRows /\ ~new.voided /\ new.subject = x /\ new.direction = d /\ new.at = at
    BY DEF NewEntry, EntryRows
  <2>2. next \in Times
    BY DEF Times
  <2>3. Decide(s, job) /\ UNCHANGED <<entry, lead>>
    BY <1>2 DEF BeginLog, commsVars
  <2>. HIDE DEF new
  <2>4. Entering(job)
    BY <2>1, <2>2 DEF Entering
  <2>5. UNCHANGED unstamped /\ SameLoans
    BY <2>3, StillUnstamped, StillBorrowed DEF Decide
  <2>. HIDE DEF job
  <2>. QED
    BY <2>3, <2>4, <2>5, LogBegins
<1>3. ASSUME NEW s \in Sessions, NEW l \in Leads, BeginRecompute(s, l) PROVE LogTurn'
  <2>. DEFINE job == [desk |-> "comms", job |-> "restamp", lead |-> l]
  <2>1. job \in RestampJobs /\ Decide(s, job) /\ UNCHANGED <<entry, lead>>
    BY <1>3 DEF BeginRecompute, commsVars, RestampJobs
  <2>2. UNCHANGED unstamped /\ SameLoans
    BY <2>1, StillUnstamped, StillBorrowed DEF Decide
  <2>. HIDE DEF job
  <2>. QED
    BY <2>1, <2>2, LogBegins
<1>4. ASSUME NEW s \in Sessions, NEW e, NEW at \in Int, Amend(s, e, at) \/ Void(s, e)
      PROVE  LogTurn' /\ DOMAIN entry' = EntryIds
  <2>1. e \in Logged /\ Quiet /\ UNCHANGED <<lead, events>>
        /\ work' = [work EXCEPT ![s] = Restamp(entry[e].subject)]
    BY <1>4 DEF Amend, Void, pipelineVars
  <2>2. entry[e] \in EntryRows
    BY <2>1 DEF Logged, LogTurn
  <2>3. PICK new \in EntryRows : new.subject = entry[e].subject /\ entry' = [entry EXCEPT ![e] = new]
    <3>1. CASE Amend(s, e, at)
      <4>1. [entry[e] EXCEPT !.at = at] \in EntryRows
            /\ [entry[e] EXCEPT !.at = at].subject = entry[e].subject
        BY <2>2 DEF EntryRows
      <4>. QED
        BY <3>1, <4>1 DEF Amend
    <3>2. CASE Void(s, e)
      <4>1. [entry[e] EXCEPT !.voided = TRUE] \in EntryRows
            /\ [entry[e] EXCEPT !.voided = TRUE].subject = entry[e].subject
        BY <2>2 DEF EntryRows
      <4>. QED
        BY <3>2, <4>1 DEF Void
    <3>. QED
      BY <1>4, <3>1, <3>2
  <2>4. UNCHANGED unstamped /\ SameLoans
    BY <2>1, StillUnstamped, StillBorrowed
  <2>. QED
    BY <2>1, <2>3, <2>4, CorrectionKeeps DEF InTurn
<1>5. ASSUME NEW s \in Sessions, CommitLog(s) PROVE LogTurn' /\ DOMAIN entry' = EntryIds
  <2>1. UNCHANGED unstamped /\ SameLoans
    BY <1>5, StillUnstamped, StillBorrowed DEF CommitLog
  <2>. QED
    BY <1>5, <2>1, CommitLogKeeps DEF CommitLog
<1>6. ASSUME NEW s \in Sessions, ReadTimeline(s) PROVE LogTurn' /\ UNCHANGED entry
  <2>1. UNCHANGED unstamped /\ work[s] # None /\ work[s].job = "restamp" /\ UNCHANGED entry
    BY <1>6, StillUnstamped DEF ReadTimeline, commsVars
  <2>2. /\ \A t \in Sessions \ {s} : work[t] = None
        /\ work'[s] # None
    <3>1. \A t \in Sessions \ {s} : work[t] = None
      BY <2>1, WorksAlone
    <3>2. work[s] \in InFlight
      BY <2>1 DEF InFlight
    <3>3. work[s] \in RestampJobs
      BY <2>1, <3>2 DEF LogTurn, Entering, Restoring, StampJobs
    <3>. PICK l \in Leads : l = work[s].lead
      BY <3>3 DEF RestampJobs
    <3>. PICK stamped : stamped = FromLog(l)
      OBVIOUS
    <3>4. lead[l] \in LeadRows /\ stamped \in [contact : Times, inbound : Times, chases : Nat]
      BY TimelineIsFaithful DEF LogTurn
    <3>5. [desk |-> "comms", job |-> "stamps", lead |-> l, read |-> lead[l], stamped |-> stamped]
            \in StampJobs
      BY <3>4 DEF StampJobs
    <3>6. work'[s] = [desk |-> "comms", job |-> "stamps", lead |-> l, read |-> lead[l],
                      stamped |-> stamped]
      BY <1>6 DEF ReadTimeline, InTurn
    <3>. QED
      BY <3>1, <3>5, <3>6, CommsAssumption
  <2>3. \A l \in Leads : (\E t \in Sessions : Reads(t, l)) <=> l = work[s].lead
    BY <2>1, <2>2 DEF Reads
  <2>4. \A l \in Leads : borrowed'[l] = IF l = work[s].lead THEN ClientsLast(l) ELSE borrowed[l]
    BY <2>3 DEF LogDesk
  <2>. QED
    BY <1>6, <2>1, <2>4, ReadTimelineKeeps
<1>7. ASSUME NEW s \in Sessions, CommitStamps(s) PROVE LogTurn' /\ UNCHANGED entry
  <2>1. unstamped \ {work[s].lead} \subseteq unstamped' /\ SameLoans
    BY <1>7, StillUnstamped, StillBorrowed DEF CommitStamps
  <2>. QED
    BY <1>7, <2>1, CommitStampsKeeps DEF CommitStamps
<1>0. ASSUME NEW l \in Leads, NEW client \in Clients \cup {None}, ChangeClient(l, client)
      PROVE  LogTurn' /\ DOMAIN entry' = EntryIds
  <2>1. Quiet /\ UNCHANGED <<entry, work>>
    BY <1>0 DEF ChangeClient, Update
  <2>2. UNCHANGED unstamped /\ SameLoans
    <3>1. \A t \in Sessions : work[t] = None
      BY <2>1, NobodyWaits
    <3>2. UNCHANGED unstamped
      BY <3>1 DEF LogDesk
    <3>3. \A t \in Sessions, k \in Leads : ~Reads(t, k)
      BY <3>1 DEF Reads
    <3>4. SameLoans
      BY <3>3 DEF LogDesk, SameLoans
    <3>. QED
      BY <3>2, <3>4
  <2>. QED
    BY <1>0, <2>1, <2>2, ClientKeeps
<1>. SUFFICES ASSUME NEW ids, NEW subjects \in SUBSET Subjects, CommsNext(ids, subjects)
              PROVE  LogTurn' /\ DOMAIN entry' = EntryIds
  BY <1>0, <1>1
<1>8. CASE \E s \in Sessions, e \in ids, x \in subjects, d \in DIRECTIONS, at \in 0..today,
           next \in {None, today + 1} : BeginLog(s, e, x, d, at, next)
  <2>1. PICK s \in Sessions, e \in ids, x \in subjects, d \in DIRECTIONS, at \in 0..today,
             next \in {None, today + 1} : BeginLog(s, e, x, d, at, next)
    BY <1>8
  <2>2. LogTurn'
    BY <1>2, <2>1
  <2>3. UNCHANGED entry
    BY <2>1 DEF BeginLog, commsVars
  <2>. QED
    BY <2>2, <2>3
<1>9. CASE \E s \in Sessions : CommitLog(s) \/ ReadTimeline(s) \/ CommitStamps(s)
  BY <1>5, <1>6, <1>7, <1>9
<1>10. CASE \E s \in Sessions, e \in ids, at \in 0..today : Amend(s, e, at)
  BY <1>4, <1>10
<1>11. ASSUME NEW s \in Sessions, NEW e, Void(s, e) PROVE LogTurn' /\ DOMAIN entry' = EntryIds
  BY <1>4, <1>11
<1>12. CASE \E s \in Sessions, l \in Leads : BeginRecompute(s, l)
  BY <1>3, <1>12 DEF BeginRecompute, commsVars
<1>. QED
  BY <1>8, <1>9, <1>10, <1>11, <1>12 DEF CommsNext

\* An enquiry that moves has not been spoken to by it.
Unspoken(of) == of.contact = None /\ of.inbound = None

LEMMA LeadsDeskSaysNothing ==
  ASSUME LeadInv, InTurn, LeadsDesk, \A l \in Recorded : Unspoken(lead[l])
  PROVE  \A l \in Recorded' : Unspoken(lead'[l])
<1>1. desk = "leads" /\ today \in Int /\ DOMAIN lead = Leads
      /\ \A l \in Recorded : lead[l] \in LeadRows
  BY DEF LeadsDesk, LeadInv
<1>2. ASSUME NEW l \in Leads, NEW new, lead' = [lead EXCEPT ![l] = new], Unspoken(new)
      PROVE  \A k \in Recorded' : Unspoken(lead'[k])
  <2>1. lead'[l] = new /\ \A k \in Leads \ {l} : lead'[k] = lead[k]
    BY <1>1, <1>2
  <2>2. \A k \in Recorded' : k = l \/ (k \in Recorded /\ lead'[k] = lead[k])
    BY <2>1 DEF Recorded
  <2>. QED
    BY <1>2, <2>1, <2>2
<1>3. CASE UNCHANGED lead
  BY <1>3 DEF Recorded
<1>4. ASSUME NEW l \in Leads, NEW stage, Create(l, stage, None, TRUE, None)
      PROVE  \A k \in Recorded' : Unspoken(lead'[k])
  <2>. DEFINE new == NewLead(stage, None, TRUE, None)
  <2>1. Unspoken(new)
    BY DEF NewLead, Unspoken
  <2>2. lead' = [lead EXCEPT ![l] = new]
    BY <1>4 DEF Create
  <2>. HIDE DEF new
  <2>. QED
    BY <1>2, <2>1, <2>2
<1>5. ASSUME NEW l \in Leads, NEW next, NEW owned, NEW reason, NEW client,
             Update(l, next, owned, reason, client)
      PROVE  \A k \in Recorded' : Unspoken(lead'[k])
  <2>. DEFINE new == [lead[l] EXCEPT !.next = next, !.owned = owned, !.reason = reason,
                        !.client = client]
  <2>1. Unspoken(new)
    BY <1>1, <1>5 DEF Update, Unspoken, LeadRows
  <2>2. lead' = [lead EXCEPT ![l] = new]
    BY <1>1, <1>5 DEF Update
  <2>. HIDE DEF new
  <2>. QED
    BY <1>2, <2>1, <2>2
<1>6. ASSUME NEW s \in Sessions, CommitMove(s) PROVE \A k \in Recorded' : Unspoken(lead'[k])
  <2>. PICK job : job = work[s]
    OBVIOUS
  <2>1. MoveDecided(job)
    BY <1>1, <1>6 DEF CommitMove, LeadInv
  <2>. PICK l \in Recorded : l = job.lead
    BY <2>1 DEF MoveDecided
  <2>. DEFINE new == [lead[l] EXCEPT !.stage = job.target, !.since = job.at,
                        !.reason = @ \/ job.reason,
                        !.next = IF job.next = job.had THEN @ ELSE job.next]
  <2>2. Unspoken(new)
    BY <1>1 DEF Unspoken, LeadRows
  <2>3. lead' = [lead EXCEPT ![l] = new] /\ l \in Leads
    BY <1>6 DEF CommitMove, Recorded
  <2>. HIDE DEF new
  <2>. QED
    BY <1>2, <2>2, <2>3
<1>7. ASSUME NEW s \in Sessions, NEW l, NEW k, NEW reason, NEW next, NEW at,
             BeginMove(s, l, k, reason, next, at)
      PROVE  UNCHANGED lead
  BY <1>7 DEF BeginMove, pipelineVars
<1>. QED
  BY <1>3, <1>4, <1>5, <1>6, <1>7 DEF LeadsDesk, PipelineNext, pipelineVars

LEMMA LogElsewhere ==
  ASSUME LogInv, desk \notin LogDesks, UNCHANGED <<desk, entry, borrowed>>,
         desk = "leads" => \A l \in Recorded' : Unspoken(lead'[l])
  PROVE  LogInv'
BY DEF LogInv, Unspoken

LEMMA LogUnchanged ==
  ASSUME LogInv, UNCHANGED recordVars
  PROVE  LogInv'
<1>1. UNCHANGED <<desk, entry, lead, serial, unstamped, borrowed, work>> /\ SameLoans
  BY DEF recordVars, SameLoans
<1>2. CASE desk \in LogDesks
  <2>1. UNCHANGED InFlight /\ \A l : Restamping(l)' <=> Restamping(l)
    BY <1>1 DEF InFlight, Restamping
  <2>2. LogTurn'
    BY <1>1, <1>2, <2>1, WorkMoves DEF LogInv
  <2>. QED
    BY <1>1, <1>2, <2>2 DEF LogInv, LogDesks
<1>3. CASE desk \notin LogDesks
  <2>1. desk = "leads" => \A l \in Recorded' : Unspoken(lead'[l])
    BY <1>1, <1>3 DEF LogInv, Unspoken, Recorded
  <2>. QED
    BY <1>1, <1>3, <2>1, LogElsewhere
<1>. QED
  BY <1>2, <1>3

LEMMA LogNext ==
  ASSUME LogInv, InTurn, LeadInv, Next
  PROVE  LogInv'
<1>1. UNCHANGED <<desk, serial>>
  BY DEF Next
<1>2. CASE desk \in LogDesks
  <2>1. LogTurn /\ DOMAIN entry = EntryIds /\ today \in Int /\ DOMAIN lead = Leads
    BY <1>2 DEF LogInv, LeadInv
  <2>2. LogDesk \/ Failure
    BY <1>2 DEF Next, LogDesks, LeadsDesk, NarrativesDesk, ReviewDesk
  <2>3. LogTurn' /\ DOMAIN entry' = EntryIds
    <3>1. CASE LogDesk
      BY <1>1, <1>2, <2>1, <3>1, LogDeskKeeps
    <3>2. CASE Failure
      BY <1>1, <1>2, <2>1, <3>2, LogFailureKeeps DEF Failure, commsVars
    <3>. QED
      BY <2>2, <3>1, <3>2
  <2>. QED
    BY <1>1, <1>2, <2>3 DEF LogInv, LogDesks
<1>3. CASE desk \notin LogDesks
  <2>1. UNCHANGED <<entry, borrowed>> /\ (LeadsDesk \/ UNCHANGED lead)
    BY <1>3 DEF Next, LogDesks, LeadsDesk, LogDesk, NarrativesDesk, ReviewDesk, Failure, commsVars
  <2>2. desk = "leads" => \A l \in Recorded : Unspoken(lead[l])
    BY DEF LogInv, Unspoken
  <2>3. desk = "leads" => \A l \in Recorded' : Unspoken(lead'[l])
    <3>1. CASE LeadsDesk
      BY <2>2, <3>1, LeadsDeskSaysNothing DEF LeadsDesk
    <3>2. CASE UNCHANGED lead
      BY <2>2, <3>2 DEF Recorded
    <3>. QED
      BY <2>1, <3>1, <3>2
  <2>. QED
    BY <1>1, <1>3, <2>1, <2>3, LogElsewhere
<1>. QED
  BY <1>2, <1>3

LEMMA LogHolds == Spec => []LogInv
<1>1. LogInv /\ InTurn /\ LeadInv /\ [Next]_recordVars => LogInv'
  BY LogUnchanged, LogNext
<1>. QED
  BY InitLog, AlwaysInTurn, LeadsHold, <1>1, PTL DEF Spec

\* One request at a time, and but for the leads whose repair was lost after the
\* correction that called for it, the stamps of a lead are the last words of its
\* own entries, or those its client had said when its timeline was last read where
\* they are later: the stamps logging leaves, and those a repair writes, both of
\* them, whatever client the lead is given meanwhile.
THEOREM StampsFollow == Spec => []StampsFollowTheLog
<1>1. LogInv /\ LeadInv => StampsFollowTheLog
  <2>. SUFFICES ASSUME LogInv, LeadInv, serial, NEW l \in Recorded \ unstamped, ~Restamping(l)
                PROVE  Faithful(l, lead[l].contact, lead[l].inbound, borrowed[l])
    BY DEF StampsFollowTheLog, Faithful
  <2>1. CASE desk \in LogDesks
    BY <2>1 DEF LogInv, LogTurn, Recorded
  <2>2. CASE desk \notin LogDesks
    <3>1. Logged = {} /\ borrowed[l] = NothingBorrowed
      BY <2>2 DEF LogInv, Logged, Recorded
    <3>2. lead[l].contact = None /\ lead[l].inbound = None
      BY <2>2 DEF LogInv, LeadInv
    <3>3. Faithful(l, None, None, NothingBorrowed)
      BY <3>1, NothingToldYet
    <3>. QED
      BY <3>1, <3>2, <3>3
  <2>. QED
    BY <2>1, <2>2
<1>. QED
  BY LogHolds, LeadsHold, <1>1, PTL

-------------------------------------------------------------------------------
(***************************************************************************)
(* The morning list                                                        *)
(***************************************************************************)

\* Each reason an open lead would be on the list for, denied.
LEMMA NobodyLooks ==
  ASSUME NEW l, Attention(l) = {}
  PROVE  LET said == History(OwnEntries(l))
         IN  /\ said.contact # None
             /\ lead[l].next # None /\ ~(lead[l].next < today) /\ lead[l].next # today
             /\ lead[l].owned
             /\ ~(said.chases >= ChaseThreshold)
             /\ ~(today - said.contact >= StaleAfterDays)
<1>. DEFINE said == History(OwnEntries(l))
            seven == {"never_contacted", "no_next_action", "overdue", "due", "unowned",
                      "unanswered", "untouched"}
            touched == IF said.contact = None THEN DayOf(lead[l].since) ELSE said.contact
            Holds(code) ==
              CASE code = "never_contacted" -> said.contact = None
                [] code = "no_next_action" -> lead[l].next = None
                [] code = "overdue" -> lead[l].next # None /\ lead[l].next < today
                [] code = "due" -> lead[l].next = today
                [] code = "unowned" -> ~lead[l].owned
                [] code = "unanswered" -> said.chases >= ChaseThreshold
                [] code = "untouched" -> today - touched >= StaleAfterDays
<1>1. \A code \in seven : ~Holds(code)
  BY DEF Attention
<1>2. /\ ~(said.contact = None) /\ ~(lead[l].next = None)
      /\ ~(lead[l].next # None /\ lead[l].next < today)
      /\ ~(lead[l].next = today) /\ ~(~lead[l].owned)
      /\ ~(said.chases >= ChaseThreshold) /\ ~(today - touched >= StaleAfterDays)
  BY <1>1
<1>. HIDE DEF said, Holds, seven
<1>. QED
  BY <1>2 DEF said

\* However calls were logged, corrected and voided: an open lead nobody is told to
\* look at this morning has an owner and a next step still to come, was in touch
\* within the days allowed, and has not left unanswered as many calls as are too
\* many, counted since some reply of its client where there was one.
THEOREM MorningListIsComplete == Spec => []MorningListMissesNobody
<1>1. LogInv /\ LeadInv => MorningListMissesNobody
  <2>. SUFFICES ASSUME LogInv, LeadInv, NEW l \in Open \ NeedsAttention
                PROVE  LET words == Stand(l, {"inbound", "outbound"})
                           after(e) == {f \in words : /\ entry[f].direction = "outbound"
                                                      /\ (entry[f].at > entry[e].at
                                                          \/ (entry[f].at = entry[e].at /\ f > e))}
                           replies == {e \in words : entry[e].direction = "inbound"}
                       IN  /\ lead[l].owned /\ lead[l].next # None /\ lead[l].next > today
                           /\ \E e \in words : today - entry[e].at < StaleAfterDays
                           /\ \/ Cardinality(words) < ChaseThreshold
                              \/ \E e \in replies : Cardinality(after(e)) < ChaseThreshold
    BY DEF MorningListMissesNobody
  <2>. DEFINE es == OwnEntries(l)
              said == History(es)
              words == Stand(l, {"inbound", "outbound"})
              replies == {e \in words : entry[e].direction = "inbound"}
              after(e) == {f \in words : /\ entry[f].direction = "outbound"
                                         /\ (entry[f].at > entry[e].at
                                             \/ (entry[f].at = entry[e].at /\ f > e))}
  <2>1. Attention(l) = {} /\ l \in Recorded
    BY DEF NeedsAttention, Open
  <2>2. /\ said.contact # None
        /\ lead[l].next # None /\ ~(lead[l].next < today) /\ lead[l].next # today
        /\ lead[l].owned
        /\ ~(said.chases >= ChaseThreshold)
        /\ ~(today - said.contact >= StaleAfterDays)
    BY <2>1, NobodyLooks
  <2>3. es \in SUBSET EntryIds /\ Dated(es)
    <3>1. es \in SUBSET Logged
      BY DEF OwnEntries
    <3>2. CASE desk \in LogDesks
      BY <3>1, <3>2, LoggedIsDated DEF LogInv
    <3>3. CASE desk \notin LogDesks
      BY <3>1, <3>3 DEF LogInv, Logged, Dated
    <3>. QED
      BY <3>2, <3>3
  <2>4. words = {e \in es : Counts(e)}
    BY <2>3 DEF Stand, Standing, Counts, Dated, DIRECTIONS
  <2>5. /\ said.contact = LastOf(words) /\ said.chases \in Nat
        /\ replies = {} => Cardinality(words) <= said.chases
        /\ replies # {} => \E e \in replies :
             Cardinality({f \in words : entry[f].direction = "outbound" /\ Before(e, f)})
               <= said.chases
    <3>. HIDE DEF es
    <3>. QED
      BY <2>3, <2>4, HistoryTold
  <2>6. words \in SUBSET EntryIds /\ Dated(words)
    BY <2>3, <2>4 DEF Dated
  <2>7. /\ today \in Int /\ lead[l].next \in Int
        /\ StaleAfterDays \in Int /\ ChaseThreshold \in Int
    <3>1. lead[l] \in LeadRows
      <4>1. CASE desk \in LogDesks
        BY <2>1, <4>1 DEF LogInv, LogTurn, Recorded
      <4>2. CASE desk \notin LogDesks
        BY <2>1, <4>2 DEF LeadInv
      <4>. QED
        BY <4>1, <4>2
    <3>. QED
      BY <2>2, <3>1, CommsAssumption DEF LeadInv, LeadRows
  <2>8. lead[l].next > today
    BY <2>2, <2>7
  <2>. HIDE DEF said, words
  <2>9. \E e \in words : today - entry[e].at < StaleAfterDays
    <3>1. At(words) \subseteq Int /\ IsFiniteSet(At(words))
      BY <2>6, AtIsFinite
    <3>2. LastOf(words) = LastTime(At(words))
      BY LastIsLastTime
    <3>3. At(words) # {}
      BY <2>2, <2>5, <3>2 DEF LastTime
    <3>4. said.contact \in At(words) /\ said.contact \in Int
      BY <2>5, <3>1, <3>2, <3>3, LastTimeIsThere
    <3>5. PICK e \in words : entry[e].at = said.contact
      BY <3>4 DEF At
    <3>. QED
      BY <2>2, <2>7, <3>4, <3>5
  <2>10. \A e \in words : {f \in words : entry[f].direction = "outbound" /\ Before(e, f)} = after(e)
    <3>. SUFFICES ASSUME NEW e \in words, NEW f \in words
                  PROVE  Before(e, f) <=> \/ entry[f].at > entry[e].at
                                          \/ entry[f].at = entry[e].at /\ f > e
      OBVIOUS
    <3>1. entry[e].at \in Int /\ entry[f].at \in Int /\ e \in Nat /\ f \in Nat
      BY <2>6, CommsAssumption DEF Dated
    <3>. QED
      BY <3>1 DEF Before
  <2>. DEFINE size(e) == Cardinality(after(e))
  <2>11. IsFiniteSet(words) /\ Cardinality(words) \in Nat
         /\ \A e \in words : size(e) \in Nat
    <3>1. IsFiniteSet(words)
      BY <2>6, AtIsFinite
    <3>2. \A e \in words : after(e) \in SUBSET words
      OBVIOUS
    <3>. HIDE DEF after
    <3>. QED
      BY <3>1, <3>2, FS_Subset, FS_CardinalityType
  <2>12. said.chases < ChaseThreshold
    BY <2>2, <2>5, <2>7
  <2>13. Cardinality(words) < ChaseThreshold \/ \E e \in replies : size(e) < ChaseThreshold
    <3>1. CASE replies = {}
      BY <2>5, <2>7, <2>11, <2>12, <3>1
    <3>2. CASE replies # {}
      <4>1. PICK e \in replies :
              Cardinality({f \in words : entry[f].direction = "outbound" /\ Before(e, f)})
                <= said.chases
        BY <2>5, <3>2
      <4>2. size(e) <= said.chases /\ size(e) \in Nat
        BY <2>10, <2>11, <4>1
      <4>3. size(e) < ChaseThreshold
        <5>. HIDE DEF size
        <5>. QED
          BY <2>5, <2>7, <2>12, <4>2
      <4>. HIDE DEF size, replies
      <4>. QED
        BY <4>3
    <3>. QED
      BY <3>1, <3>2
  <2>. QED
    BY <2>2, <2>8, <2>9, <2>13 DEF words
<1>. QED
  BY LogHolds, LeadsHold, <1>1, PTL

-------------------------------------------------------------------------------
(***************************************************************************)
(* Rate sheets                                                             *)
(***************************************************************************)

\* A rate and the row it was made from name each other.
RatesMatchRows ==
  /\ \A k \in Slots : rates[k] # None =>
       rates[k] \in Proposed /\ row[rates[k]].status = "confirmed" /\ row[rates[k]].rate = k
  /\ \A r \in Proposed : row[r].status = "confirmed" <=> row[r].rate # None
  /\ \A r \in Proposed : row[r].rate # None => rates[row[r].rate] = r

NothingPendingOnReviewed ==
  \A d \in Uploaded : doc[d].status = "reviewed" => Pending(d) = {}

\* The decisions of a request can all be carried out: each on a pending row of
\* its own, for a free slot of its own.
DecidedWell(d, decided) ==
  /\ \A c \in decided :
       /\ c.row \in Pending(d) /\ c.accept \in BOOLEAN
       /\ c.accept => c.slot \in Slots /\ rates[c.slot] = None
  /\ \A c, e \in decided : c.row = e.row => c = e
  /\ \A c, e \in decided : c.accept /\ e.accept /\ c.slot = e.slot => c = e

DecidedNow(job) ==
  \/ /\ job.job = "store" /\ job.doc \in Docs /\ job.sheet \in Sheets
  \/ /\ job.job = "extract" /\ job.doc \in Uploaded /\ job.stale = Pending(job.doc)
     /\ job.found \in Found
  \/ /\ job.job = "confirm" /\ job.doc \in Uploaded
     /\ DecidedWell(job.doc, job.decided)
     /\ job.reviewed => \A r \in Pending(job.doc) : \E c \in job.decided : c.row = r

ReviewShape ==
  /\ \A r \in Rows : row[r] \in ExtractionRows \cup {None}
  /\ \A d \in Docs : doc[d] \in DocRows \cup {None}

ReviewTurn ==
  /\ ReviewShape /\ RatesMatchRows /\ NothingPendingOnReviewed
  /\ \A s \in Sessions : work[s] # None => DecidedNow(work[s])

ReviewInv ==
  /\ DOMAIN row = Rows /\ DOMAIN doc = Docs /\ DOMAIN rates = Slots
  /\ desk # "review" => Uploaded = {} /\ Proposed = {} /\ \A k \in Slots : rates[k] = None
  /\ serial /\ desk = "review" => ReviewTurn

LEMMA InitReview == Init => ReviewInv
<1>. SUFFICES ASSUME Init PROVE ReviewInv
  OBVIOUS
<1>1. /\ row = [r \in Rows |-> None] /\ doc = [d \in Docs |-> None]
      /\ rates = [k \in Slots |-> None] /\ \A s \in Sessions : work[s] = None
  BY DEF Init, ReviewInit, RequestsInit
<1>2. Proposed = {} /\ Uploaded = {}
  BY <1>1 DEF Proposed, Uploaded
<1>. QED
  BY <1>1, <1>2 DEF ReviewInv, ReviewTurn, ReviewShape, RatesMatchRows, NothingPendingOnReviewed

\* No step of another desk, and no failure, writes a sheet.
LEMMA ReviewElsewhere ==
  ASSUME ReviewInv, UNCHANGED <<desk, serial, doc, row, rates>>,
         \/ desk # "review"
         \/ \A s \in Sessions : work'[s] = None \/ work'[s] = work[s]
  PROVE  ReviewInv'
<1>1. UNCHANGED <<Proposed, Uploaded>> /\ \A d : Pending(d)' = Pending(d)
  BY DEF Proposed, Uploaded, Pending, RowsOf
<1>2. ReviewShape /\ RatesMatchRows /\ NothingPendingOnReviewed
        => (ReviewShape /\ RatesMatchRows /\ NothingPendingOnReviewed)'
  BY <1>1 DEF ReviewShape, RatesMatchRows, NothingPendingOnReviewed
<1>3. ASSUME serial, desk = "review", NEW s \in Sessions, work'[s] # None
      PROVE  DecidedNow(work[s])'
  <2>1. work'[s] = work[s] /\ DecidedNow(work[s])
    BY <1>3 DEF ReviewInv, ReviewTurn
  <2>. QED
    BY <1>1, <2>1 DEF DecidedNow, DecidedWell
<1>. QED
  BY <1>1, <1>2, <1>3 DEF ReviewInv, ReviewTurn

\* A request that has read what it decides on.
LEMMA DecideReview ==
  ASSUME ReviewTurn, InTurn, serial, UNCHANGED <<serial, doc, row, rates>>,
         NEW s \in Sessions, NEW job, DecidedNow(job), Decide(s, job)
  PROVE  ReviewTurn'
<1>1. UNCHANGED <<Proposed, Uploaded>> /\ \A d : Pending(d)' = Pending(d)
  BY DEF Proposed, Uploaded, Pending, RowsOf
<1>2. (ReviewShape /\ RatesMatchRows /\ NothingPendingOnReviewed)'
  BY <1>1 DEF ReviewTurn, ReviewShape, RatesMatchRows, NothingPendingOnReviewed
<1>3. ASSUME NEW t \in Sessions, work'[t] # None PROVE DecidedNow(work[t])'
  <2>1. work'[t] = job
    BY <1>3, DecidesAlone
  <2>. QED
    BY <1>1, <2>1 DEF DecidedNow, DecidedWell
<1>. QED
  BY <1>2, <1>3 DEF ReviewTurn

\* Decisions that stand, each after those before it, can all be carried out.
LEMMA StandingIsWell ==
  ASSUME NEW d \in Docs, NEW decisions \in Decisions,
         NEW standing \in StandingDecisions(d, decisions)
  PROVE  /\ DecidedWell(d, {decisions[i] : i \in standing})
         /\ StillPending(d, decisions, standing) = {} =>
              \A r \in Pending(d) : \E i \in standing : decisions[i].row = r
<1>. DEFINE One == {Reject(r) : r \in Rows} \cup {Accept(r, k) : r \in Rows, k \in Slots}
<1>1. PICK m \in Nat : decisions \in [1..m -> One]
  <2>1. decisions \in SeqOf(One, MostDecided)
    BY DEF Decisions
  <2>. HIDE DEF One
  <2>. QED
    BY <2>1 DEF SeqOf
<1>2. /\ standing \subseteq 1..m
      /\ \A i \in 1..m : i \in standing <=> Stands(d, decisions, i, {j \in standing : j < i})
  BY <1>1 DEF StandingDecisions
<1>3. ASSUME NEW i \in standing
      PROVE  /\ decisions[i].row \in Pending(d) /\ decisions[i].accept \in BOOLEAN
             /\ decisions[i].accept => /\ decisions[i].slot \in Slots
                                       /\ rates[decisions[i].slot] = None
             /\ \A j \in standing : j < i =>
                  /\ decisions[j].row # decisions[i].row
                  /\ decisions[i].accept => decisions[j].slot # decisions[i].slot
  <2>1. i \in 1..m /\ Stands(d, decisions, i, {j \in standing : j < i})
    BY <1>2
  <2>2. decisions[i] \in One
    BY <1>1, <2>1
  <2>3. decisions[i].accept \in BOOLEAN /\ (decisions[i].accept => decisions[i].slot \in Slots)
    <3>1. CASE \E r \in Rows : decisions[i] = Reject(r)
      BY <3>1 DEF Reject
    <3>2. CASE \E r \in Rows, k \in Slots : decisions[i] = Accept(r, k)
      <4>1. PICK r \in Rows, k \in Slots : decisions[i] = [row |-> r, accept |-> TRUE, slot |-> k]
        BY <3>2 DEF Accept
      <4>. QED
        BY <4>1
    <3>. QED
      BY <2>2, <3>1, <3>2
  <2>. QED
    BY <2>1, <2>3 DEF Stands
<1>4. \A i, j \in standing : i < j \/ j < i \/ i = j
  BY <1>2
<1>5. ASSUME NEW i \in standing, NEW j \in standing
      PROVE  /\ decisions[i].row = decisions[j].row => decisions[i] = decisions[j]
             /\ decisions[i].accept /\ decisions[j].accept /\ decisions[i].slot = decisions[j].slot
                  => decisions[i] = decisions[j]
  BY <1>3, <1>4
<1>6. DecidedWell(d, {decisions[i] : i \in standing})
  BY <1>3, <1>5 DEF DecidedWell
<1>7. StillPending(d, decisions, standing) = {} =>
        \A r \in Pending(d) : \E i \in standing : decisions[i].row = r
  BY DEF StillPending
<1>. QED
  BY <1>6, <1>7

LEMMA BeginReview ==
  ASSUME ReviewTurn, InTurn, serial, UNCHANGED serial, NEW s \in Sessions, NEW d \in Docs,
         \/ \E sheet \in Sheets : BeginStore(s, d, sheet)
         \/ \E found \in Found : BeginExtract(s, d, found)
         \/ \E decisions \in Decisions : BeginConfirm(s, d, decisions)
  PROVE  ReviewTurn'
<1>1. ASSUME NEW sheet \in Sheets, BeginStore(s, d, sheet) PROVE ReviewTurn'
  <2>. DEFINE job == [desk |-> "review", job |-> "store", doc |-> d, sheet |-> sheet]
  <2>1. Decide(s, job) /\ UNCHANGED <<doc, row, rates>>
    BY <1>1 DEF BeginStore, reviewVars
  <2>2. DecidedNow(job)
    BY DEF DecidedNow
  <2>. QED
    BY <2>1, <2>2, DecideReview
<1>2. ASSUME NEW found \in Found, BeginExtract(s, d, found) PROVE ReviewTurn'
  <2>. DEFINE job == [desk |-> "review", job |-> "extract", doc |-> d,
                      stale |-> Pending(d), found |-> found]
  <2>1. Decide(s, job) /\ UNCHANGED <<doc, row, rates>> /\ d \in Uploaded
    BY <1>2 DEF BeginExtract, reviewVars
  <2>2. DecidedNow(job)
    BY <2>1 DEF DecidedNow
  <2>. QED
    BY <2>1, <2>2, DecideReview
<1>3. ASSUME NEW decisions \in Decisions, BeginConfirm(s, d, decisions) PROVE ReviewTurn'
  <2>1. PICK standing \in StandingDecisions(d, decisions) :
          Decide(s, [desk |-> "review", job |-> "confirm", doc |-> d,
                     decided |-> {decisions[i] : i \in standing},
                     reviewed |-> /\ StillPending(d, decisions, standing) = {}
                                  /\ doc[d].status # "reviewed"])
    BY <1>3 DEF BeginConfirm
  <2>. DEFINE job == [desk |-> "review", job |-> "confirm", doc |-> d,
                      decided |-> {decisions[i] : i \in standing},
                      reviewed |-> /\ StillPending(d, decisions, standing) = {}
                                   /\ doc[d].status # "reviewed"]
  <2>2. Decide(s, job) /\ UNCHANGED <<doc, row, rates>> /\ d \in Uploaded
    BY <1>3, <2>1 DEF BeginConfirm, reviewVars
  <2>3. DecidedNow(job)
    <3>1. /\ job.job = "confirm" /\ job.doc = d /\ job.decided = {decisions[i] : i \in standing}
          /\ job.reviewed => StillPending(d, decisions, standing) = {}
      OBVIOUS
    <3>. HIDE DEF job
    <3>. QED
      BY <2>2, <3>1, StandingIsWell DEF DecidedNow
  <2>. HIDE DEF job
  <2>. QED
    BY <2>2, <2>3, DecideReview
<1>. QED
  BY <1>1, <1>2, <1>3

\* A request that has committed leaves none behind it.
LEMMA NonePending ==
  ASSUME InTurn, serial, UNCHANGED serial, NEW s \in Sessions, work[s] # None, Done(s)
  PROVE  \A t \in Sessions : work'[t] = None
BY EndsAlone

LEMMA CommitStoreKeeps ==
  ASSUME ReviewTurn, InTurn, serial, UNCHANGED serial, DOMAIN doc = Docs,
         NEW s \in Sessions, CommitStore(s)
  PROVE  ReviewTurn'
<1>0. work[s] # None
  BY DEF CommitStore
<1>1. PICK d : d = work[s].doc
  OBVIOUS
<1>2. DecidedNow(work[s]) /\ work[s].job = "store"
  BY DEF CommitStore, ReviewTurn
<1>3. d \in Docs /\ work[s].sheet \in Sheets /\ doc[d] = None
  BY <1>1, <1>2 DEF CommitStore, DecidedNow
<1>. DEFINE new == NewDoc(work[s].sheet)
<1>4. new \in DocRows /\ new.status # "reviewed" /\ new # None
  BY <1>3, ReviewAssumption DEF NewDoc, DocRows, DOCUMENT_STATUSES
<1>5. /\ UNCHANGED <<row, rates>> /\ Done(s)
      /\ \A e \in Docs : doc'[e] = IF e = d THEN new ELSE doc[e]
  BY <1>1 DEF CommitStore
<1>. HIDE DEF new
<1>6. /\ UNCHANGED Proposed /\ \A e : Pending(e)' = Pending(e)
      /\ Uploaded' = Uploaded \cup {d}
  BY <1>3, <1>4, <1>5 DEF Proposed, Uploaded, Pending, RowsOf
<1>7. RatesMatchRows'
  BY <1>5, <1>6 DEF ReviewTurn, RatesMatchRows
<1>8. NothingPendingOnReviewed'
  BY <1>4, <1>5, <1>6 DEF ReviewTurn, NothingPendingOnReviewed, Uploaded
<1>9. ReviewShape'
  BY <1>4, <1>5 DEF ReviewTurn, ReviewShape
<1>. QED
  BY <1>0, <1>5, <1>7, <1>8, <1>9, NonePending DEF ReviewTurn

\* The place of a new row among the new ones is one of those read.
LEMMA NewRowIsRead ==
  ASSUME NEW fresh \in SUBSET Nat, NEW m \in Nat, NEW new,
         new = {r \in fresh : Cardinality({q \in fresh : q < r}) < m}, NEW r \in new
  PROVE  1 + Cardinality({q \in new : q < r}) \in 1..m
<1>. DEFINE below == {q \in fresh : q < r}
            lower == {q \in new : q < r}
<1>1. r \in Nat /\ Cardinality(below) < m
  OBVIOUS
<1>2. IsFiniteSet(below)
  <2>1. \A q \in below : q \in 0..r
    BY <1>1
  <2>2. IsFiniteSet(0..r)
    BY <1>1, FS_Interval
  <2>. QED
    BY <2>1, <2>2, FS_Subset
<1>3. lower \subseteq below
  OBVIOUS
<1>. HIDE DEF below, lower
<1>4. /\ IsFiniteSet(lower) /\ Cardinality(lower) <= Cardinality(below)
  BY <1>2, <1>3, FS_Subset
<1>5. Cardinality(lower) \in Nat /\ Cardinality(below) \in Nat
  BY <1>2, <1>4, FS_CardinalityType
<1>6. 1 + Cardinality(lower) \in 1..m
  BY <1>1, <1>4, <1>5
<1>. QED
  BY <1>6 DEF lower

LEMMA CommitExtractKeeps ==
  ASSUME ReviewTurn, InTurn, serial, UNCHANGED serial, DOMAIN doc = Docs,
         NEW s \in Sessions, CommitExtract(s)
  PROVE  ReviewTurn'
<1>0. work[s] # None
  BY DEF CommitExtract
<1>1. PICK d, found, stale : d = work[s].doc /\ found = work[s].found /\ stale = work[s].stale
  OBVIOUS
<1>2. DecidedNow(work[s]) /\ work[s].job = "extract"
  BY DEF CommitExtract, ReviewTurn
<1>3. d \in Uploaded /\ stale = Pending(d) /\ found \in Found
  BY <1>1, <1>2 DEF DecidedNow
<1>4. PICK m \in Nat : found \in [1..m -> Slots] /\ Len(found) = m
  BY <1>3 DEF Found, SeqOf
<1>. DEFINE fresh == Rows \ Proposed
            new == {r \in fresh : Cardinality({q \in fresh : q < r}) < m}
            read(r) == NewRow(d, found[1 + Cardinality({q \in new : q < r})])
            written == [doc[d] EXCEPT !.status = IF found = <<>> THEN "failed" ELSE "extracted"]
<1>5. ASSUME NEW r \in new
      PROVE  /\ read(r) \in ExtractionRows /\ read(r) # None
             /\ read(r).doc = d /\ read(r).status = "pending" /\ read(r).rate = None
  <2>1. 1 + Cardinality({q \in new : q < r}) \in 1..m
    <3>1. fresh \in SUBSET Nat
      BY ReviewAssumption
    <3>. HIDE DEF fresh
    <3>. QED
      BY <3>1, NewRowIsRead
  <2>. HIDE DEF new
  <2>2. found[1 + Cardinality({q \in new : q < r})] \in Slots
    BY <1>4, <2>1
  <2>. QED
    BY <1>3, <2>2, ReviewAssumption DEF NewRow, ExtractionRows, EXTRACTION_STATUSES, Uploaded
<1>6. /\ UNCHANGED rates /\ Done(s)
      /\ \A r \in Rows : row'[r] = CASE r \in stale -> None [] r \in new -> read(r)
                                  [] OTHER -> row[r]
      /\ \A e \in Docs : doc'[e] = IF e = d THEN written ELSE doc[e]
  BY <1>1, <1>4 DEF CommitExtract
<1>7. new \cap Proposed = {} /\ new \subseteq Rows /\ stale \subseteq Proposed
  BY <1>3 DEF Pending, RowsOf
<1>8. written \in DocRows /\ written.status # "reviewed" /\ written # None
  BY <1>3, ReviewAssumption DEF ReviewTurn, ReviewShape, Uploaded, DocRows, DOCUMENT_STATUSES
<1>. HIDE DEF new, read, written
<1>9. /\ \A r \in stale : r \in Rows /\ row'[r] = None
      /\ \A r \in new : r \in Rows /\ row'[r] = read(r)
      /\ \A r \in Rows \ (stale \cup new) : row'[r] = row[r]
  BY <1>6, <1>7 DEF Proposed
<1>10. /\ Proposed' = (Proposed \ stale) \cup new /\ UNCHANGED Uploaded
  BY <1>3, <1>5, <1>6, <1>7, <1>8, <1>9 DEF Proposed, Uploaded
<1>11. \A r \in stale : row[r].status = "pending" /\ row[r].doc = d
  BY <1>3 DEF Pending, RowsOf
<1>12. RatesMatchRows'
  BY <1>5, <1>6, <1>7, <1>9, <1>10, <1>11 DEF ReviewTurn, RatesMatchRows, Proposed
<1>13. NothingPendingOnReviewed'
  <2>1. ASSUME NEW e \in Uploaded, e # d, NEW r \in Pending(e)' PROVE r \in Pending(e)
    BY <1>5, <1>7, <1>9, <1>10, <2>1 DEF Pending, RowsOf, Proposed
  <2>. QED
    BY <1>3, <1>6, <1>8, <1>10, <2>1 DEF ReviewTurn, NothingPendingOnReviewed, Uploaded
<1>14. ReviewShape'
  BY <1>5, <1>6, <1>8, <1>9 DEF ReviewTurn, ReviewShape
<1>. QED
  BY <1>0, <1>6, <1>12, <1>13, <1>14, NonePending DEF ReviewTurn

\* What each decision of a request that can be carried out comes to.
Decided(was, c) ==
  IF c.accept THEN [was EXCEPT !.status = "confirmed", !.rate = c.slot]
              ELSE [was EXCEPT !.status = "rejected"]

LEMMA DecidedColumns ==
  ASSUME NEW was \in ExtractionRows, NEW c, c.accept => c.slot \in Slots
  PROVE  /\ Decided(was, c) \in ExtractionRows
         /\ Decided(was, c).doc = was.doc
         /\ c.accept => Decided(was, c).status = "confirmed" /\ Decided(was, c).rate = c.slot
         /\ ~c.accept => Decided(was, c).status = "rejected" /\ Decided(was, c).rate = was.rate
<1>1. CASE c.accept
  BY <1>1 DEF Decided, ExtractionRows, EXTRACTION_STATUSES
<1>2. CASE ~c.accept
  BY <1>2 DEF Decided, ExtractionRows, EXTRACTION_STATUSES
<1>. QED
  BY <1>1, <1>2

LEMMA ConfirmWrites ==
  ASSUME DOMAIN row = Rows, NEW s \in Sessions, CommitConfirm(s), NEW d \in Docs,
         NEW decided, decided = work[s].decided, DecidedWell(d, decided)
  PROVE  /\ \A r \in Rows : (\A c \in decided : c.row # r) => row'[r] = row[r]
         /\ \A c \in decided : row'[c.row] = Decided(row[c.row], c)
         /\ \A k \in Slots : (\A c \in decided : ~(c.accept /\ c.slot = k)) => rates'[k] = rates[k]
         /\ \A c \in decided : c.accept => rates'[c.slot] = c.row
<1>. DEFINE accepted == {c \in decided : c.accept}
            decision(r) == CHOOSE c \in decided : c.row = r
            taker(k) == CHOOSE c \in accepted : c.slot = k
<1>1. /\ \A r \in Rows : row'[r] =
           IF \A c \in decided : c.row # r THEN row[r]
           ELSE IF decision(r).accept
                THEN [row[r] EXCEPT !.status = "confirmed", !.rate = decision(r).slot]
                ELSE [row[r] EXCEPT !.status = "rejected"]
      /\ \A k \in Slots : rates'[k] = IF \E c \in accepted : c.slot = k THEN taker(k).row ELSE rates[k]
  BY DEF CommitConfirm
<1>2. \A c \in decided : decision(c.row) = c /\ c.row \in Rows
  BY DEF DecidedWell, Pending, RowsOf, Proposed
<1>3. \A c \in accepted : taker(c.slot) = c /\ c.slot \in Slots
  BY DEF DecidedWell
<1>. HIDE DEF decision, taker
<1>4. \A r \in Rows : (\A c \in decided : c.row # r) => row'[r] = row[r]
  BY <1>1
<1>5. ASSUME NEW c \in decided
      PROVE  row'[c.row] = Decided(row[c.row], c)
  <2>1. decision(c.row) = c /\ c.row \in Rows
    BY <1>2
  <2>2. row'[c.row] = IF decision(c.row).accept
                      THEN [row[c.row] EXCEPT !.status = "confirmed", !.rate = decision(c.row).slot]
                      ELSE [row[c.row] EXCEPT !.status = "rejected"]
    BY <1>1, <2>1
  <2>. QED
    BY <2>1, <2>2 DEF Decided
<1>6. \A k \in Slots : (\A c \in decided : ~(c.accept /\ c.slot = k)) => rates'[k] = rates[k]
  BY <1>1
<1>7. ASSUME NEW c \in decided, c.accept PROVE rates'[c.slot] = c.row
  <2>1. c \in accepted /\ taker(c.slot) = c /\ c.slot \in Slots
    BY <1>3, <1>7
  <2>2. rates'[c.slot] = taker(c.slot).row
    BY <1>1, <2>1
  <2>. QED
    BY <2>1, <2>2
<1>. QED
  BY <1>4, <1>5, <1>6, <1>7

LEMMA CommitConfirmKeeps ==
  ASSUME ReviewTurn, InTurn, serial, UNCHANGED serial, DOMAIN doc = Docs, DOMAIN row = Rows,
         NEW s \in Sessions, CommitConfirm(s)
  PROVE  ReviewTurn'
<1>0. work[s] # None /\ Done(s)
  BY DEF CommitConfirm
<1>1. PICK d, decided : d = work[s].doc /\ decided = work[s].decided
  OBVIOUS
<1>2. DecidedNow(work[s]) /\ work[s].job = "confirm"
  BY DEF CommitConfirm, ReviewTurn
<1>3. /\ d \in Uploaded /\ DecidedWell(d, decided)
      /\ work[s].reviewed => \A r \in Pending(d) : \E c \in decided : c.row = r
  BY <1>1, <1>2 DEF DecidedNow
<1>4. d \in Docs
  BY <1>3 DEF Uploaded
<1>. DEFINE undecided == {r \in Rows : \A c \in decided : c.row # r}
            taken(k) == \E c \in decided : c.accept /\ c.slot = k
<1>5. /\ \A r \in undecided : row'[r] = row[r]
      /\ \A c \in decided : row'[c.row] = Decided(row[c.row], c)
      /\ \A k \in Slots : ~taken(k) => rates'[k] = rates[k]
      /\ \A c \in decided : c.accept => rates'[c.slot] = c.row
  BY <1>1, <1>3, <1>4, ConfirmWrites
<1>6. \A r \in Rows : r \in undecided \/ \E c \in decided : c.row = r
  OBVIOUS
<1>7. ASSUME NEW c \in decided
      PROVE  /\ c.row \in Proposed /\ row[c.row].doc = d
             /\ row[c.row].status = "pending" /\ row[c.row].rate = None
             /\ row'[c.row] \in ExtractionRows /\ row'[c.row].doc = d
             /\ c.accept => /\ c.slot \in Slots /\ c.slot # None /\ rates[c.slot] = None
                            /\ rates'[c.slot] = c.row
                            /\ row'[c.row].status = "confirmed" /\ row'[c.row].rate = c.slot
             /\ ~c.accept => row'[c.row].status = "rejected" /\ row'[c.row].rate = None
  <2>1. /\ c.row \in Proposed /\ row[c.row].doc = d /\ row[c.row].status = "pending"
        /\ c.accept => c.slot \in Slots /\ rates[c.slot] = None
    BY <1>3 DEF DecidedWell, Pending, RowsOf
  <2>2. row[c.row] \in ExtractionRows /\ row[c.row].rate = None
    BY <2>1 DEF ReviewTurn, ReviewShape, RatesMatchRows, Proposed
  <2>3. c.accept => c.slot # None
    BY <2>1, ReviewAssumption
  <2>4. row'[c.row] = Decided(row[c.row], c)
    BY <1>5
  <2>. QED
    BY <1>5, <2>1, <2>2, <2>3, <2>4, DecidedColumns
<1>8. \A r \in undecided : row'[r] = row[r]
  BY <1>5
<1>9. \A k \in Slots : ~taken(k) => rates'[k] = rates[k]
  BY <1>5
<1>10. \A k \in Slots : taken(k) => rates[k] = None
  BY <1>7
<1>11. \A r \in Proposed : row[r].status # "pending" => r \in undecided
  BY <1>6, <1>7 DEF Proposed
<1>12. \A r \in Rows : row'[r] = None <=> row[r] = None
  BY <1>6, <1>7, <1>8, ReviewAssumption DEF Proposed
<1>13. UNCHANGED Proposed
  BY <1>12 DEF Proposed
<1>14. ReviewShape'
  <2>1. \A r \in Rows : row'[r] \in ExtractionRows \cup {None}
    BY <1>6, <1>7, <1>8 DEF ReviewTurn, ReviewShape
  <2>2. \A e \in Docs : doc'[e] \in DocRows \cup {None}
    <3>1. doc[d] \in DocRows
      BY <1>3 DEF ReviewTurn, ReviewShape, Uploaded
    <3>2. [doc[d] EXCEPT !.status = "reviewed"] \in DocRows
      BY <3>1 DEF DocRows, DOCUMENT_STATUSES
    <3>. QED
      BY <1>1, <3>2 DEF ReviewTurn, ReviewShape, CommitConfirm
  <2>. QED
    BY <2>1, <2>2 DEF ReviewShape
<1>15. /\ UNCHANGED Uploaded
       /\ \A e \in Uploaded :
            doc'[e].status = doc[e].status \/ (e = d /\ work[s].reviewed)
  <2>1. doc[d] \in DocRows
    BY <1>3 DEF ReviewTurn, ReviewShape, Uploaded
  <2>2. [doc[d] EXCEPT !.status = "reviewed"] # None
    BY <2>1, ReviewAssumption DEF DocRows, DOCUMENT_STATUSES
  <2>. QED
    BY <1>1, <1>3, <2>2 DEF CommitConfirm, Uploaded
<1>. HIDE DEF undecided, taken
<1>16. RatesMatchRows'
  <2>1. ASSUME NEW k \in Slots, rates'[k] # None
        PROVE  rates'[k] \in Proposed /\ row'[rates'[k]].status = "confirmed" /\ row'[rates'[k]].rate = k
    <3>1. CASE taken(k)
      BY <1>7, <3>1 DEF taken
    <3>2. CASE ~taken(k)
      <4>1. rates[k] \in Proposed /\ row[rates[k]].status = "confirmed" /\ row[rates[k]].rate = k
        BY <1>9, <2>1, <3>2 DEF ReviewTurn, RatesMatchRows
      <4>2. row'[rates[k]] = row[rates[k]]
        BY <1>8, <1>11, <4>1
      <4>. QED
        BY <1>9, <3>2, <4>1, <4>2
    <3>. QED
      BY <3>1, <3>2
  <2>2. ASSUME NEW r \in Proposed
        PROVE  /\ row'[r].status = "confirmed" <=> row'[r].rate # None
               /\ row'[r].rate # None => rates'[row'[r].rate] = r
    <3>1. CASE r \in undecided
      <4>1. /\ row[r].status = "confirmed" <=> row[r].rate # None
            /\ row[r].rate # None => row[r].rate \in Slots /\ rates[row[r].rate] = r
        BY DEF ReviewTurn, RatesMatchRows, ReviewShape, ExtractionRows, Proposed
      <4>2. row[r].rate # None => ~taken(row[r].rate)
        BY <1>10, <4>1, ReviewAssumption DEF Proposed
      <4>. QED
        BY <1>8, <1>9, <3>1, <4>1, <4>2
    <3>2. CASE \E c \in decided : c.row = r
      BY <1>7, <3>2
    <3>. QED
      BY <1>6, <3>1, <3>2 DEF Proposed
  <2>. QED
    BY <1>13, <2>1, <2>2 DEF RatesMatchRows
<1>17. NothingPendingOnReviewed'
  <2>1. ASSUME NEW e \in Uploaded, doc'[e].status = "reviewed", NEW r \in Pending(e)' PROVE FALSE
    <3>1. r \in Proposed /\ row'[r].doc = e /\ row'[r].status = "pending"
      BY <1>13, <2>1 DEF Pending, RowsOf
    <3>2. r \in undecided
      BY <1>6, <1>7, <3>1 DEF Proposed
    <3>3. r \in Pending(e)
      BY <1>8, <3>1, <3>2 DEF Pending, RowsOf
    <3>4. CASE doc[e].status = "reviewed"
      BY <3>3, <3>4 DEF ReviewTurn, NothingPendingOnReviewed
    <3>5. CASE e = d /\ work[s].reviewed
      BY <1>3, <3>2, <3>3, <3>5 DEF undecided
    <3>. QED
      BY <1>15, <2>1, <3>4, <3>5
  <2>. QED
    BY <1>15, <2>1 DEF NothingPendingOnReviewed
<1>. QED
  BY <1>0, <1>14, <1>16, <1>17, NonePending DEF ReviewTurn

LEMMA ReviewDomains ==
  ASSUME DOMAIN row = Rows, DOMAIN doc = Docs, DOMAIN rates = Slots, ReviewNext
  PROVE  DOMAIN row' = Rows /\ DOMAIN doc' = Docs /\ DOMAIN rates' = Slots
BY DEF ReviewNext, BeginStore, CommitStore, BeginExtract, CommitExtract, BeginConfirm,
       CommitConfirm, reviewVars

LEMMA ReviewStep ==
  ASSUME ReviewInv, InTurn, ReviewDesk, UNCHANGED <<desk, serial>>
  PROVE  ReviewInv'
<1>1. desk = "review" /\ ReviewNext
  BY DEF ReviewDesk
<1>2. DOMAIN row = Rows /\ DOMAIN doc = Docs /\ DOMAIN rates = Slots
  BY DEF ReviewInv
<1>3. DOMAIN row' = Rows /\ DOMAIN doc' = Docs /\ DOMAIN rates' = Slots
  BY <1>1, <1>2, ReviewDomains
<1>4. ASSUME serial PROVE ReviewTurn'
  <2>1. ReviewTurn
    BY <1>1, <1>4 DEF ReviewInv
  <2>2. CASE \E s \in Sessions, d \in Docs :
               \/ \E sheet \in Sheets : BeginStore(s, d, sheet)
               \/ \E found \in Found : BeginExtract(s, d, found)
               \/ \E decisions \in Decisions : BeginConfirm(s, d, decisions)
    BY <1>4, <2>1, <2>2, BeginReview
  <2>3. CASE \E s \in Sessions : CommitStore(s)
    BY <1>2, <1>4, <2>1, <2>3, CommitStoreKeeps
  <2>4. CASE \E s \in Sessions : CommitExtract(s)
    BY <1>2, <1>4, <2>1, <2>4, CommitExtractKeeps
  <2>5. CASE \E s \in Sessions : CommitConfirm(s)
    BY <1>2, <1>4, <2>1, <2>5, CommitConfirmKeeps
  <2>. QED
    BY <1>1, <2>2, <2>3, <2>4, <2>5 DEF ReviewNext
<1>. QED
  BY <1>1, <1>3, <1>4 DEF ReviewInv

LEMMA ReviewHolds == Spec => []ReviewInv
<1>1. InTurn /\ ReviewInv /\ [Next]_recordVars => ReviewInv'
  <2>. SUFFICES ASSUME InTurn, ReviewInv, [Next]_recordVars PROVE ReviewInv'
    OBVIOUS
  <2>1. CASE UNCHANGED recordVars
    BY <2>1, ReviewElsewhere DEF recordVars
  <2>2. CASE Failure /\ UNCHANGED <<desk, serial>>
    BY <2>2, FailureFrees, ReviewElsewhere DEF Failure, reviewVars
  <2>3. CASE ReviewDesk /\ UNCHANGED <<desk, serial>>
    BY <2>3, ReviewStep
  <2>4. CASE (LeadsDesk \/ LogDesk \/ NarrativesDesk) /\ UNCHANGED <<desk, serial>>
    BY <2>4, ReviewElsewhere DEF LeadsDesk, LogDesk, NarrativesDesk, reviewVars
  <2>. QED
    BY <2>1, <2>2, <2>3, <2>4 DEF Next
<1>. QED
  BY InitReview, AlwaysInTurn, <1>1, PTL DEF Spec

\* One request at a time, the rates made from sheets and the rows a reviewer
\* confirmed name each other, whichever rows are dropped and read again.
THEOREM RatesHaveTheirRows == Spec => []RateHasItsRow
<1>1. ReviewInv => RateHasItsRow
  BY DEF ReviewInv, ReviewTurn, RatesMatchRows, RateHasItsRow
<1>. QED
  BY ReviewHolds, <1>1, PTL

\* One request at a time, a document is said to be reviewed only when no row of
\* it is left to decide, and is said to be so only while that lasts.
THEOREM ReviewedIsSettled == Spec => []ReviewedHasNothingPending
<1>1. ReviewInv => ReviewedHasNothingPending
  BY DEF ReviewInv, ReviewTurn, NothingPendingOnReviewed, ReviewedHasNothingPending
<1>. QED
  BY ReviewHolds, <1>1, PTL

==============================================================================
