-------------------------- MODULE PostingQueueProofs --------------------------
(***************************************************************************)
(* Proofs about PostingQueue, for any posts, accounts, preparation modes,  *)
(* number of attempts and number of crashes.  Who runs in a container is   *)
(* proved whatever Faults allows; what is known of the clicks is proved    *)
(* when no stage line is lost, with every writer that saves an older copy  *)
(* of the queue, of the posts whose record no such save has set back.      *)
(***************************************************************************)
EXTENDS PostingQueue, FiniteSetTheorems, TLAPS

-----------------------------------------------------------------------------
(* The inductive invariant, whatever Faults allows *)

\* An attempt that starts its worker or has one.
Runs(a) == Used(a) /\ (att[a].task = "starting" \/ att[a].worker = "alive")

\* A worker is alive only under a task that still looks after it, and an
\* attempt that is starting has done nothing yet.
Led(w) ==
  /\ w.worker = "alive" => w.task \in {"working", "cancelled"}
  /\ w.task = "starting" => w.worker = "none" /\ w.stage = "idle" /\ ~w.clicked
TasksLead == \A a \in Attempts : Used(a) => Led(att[a])

\* What a worker has printed, clicked and reported fits together: only a
\* publisher clicks or concludes, it clicks only after announcing the click, and
\* it reports published only after one.
Ends == {"published", "uncertain", "failed_after_publish"}
Told(w) ==
  /\ w.kind = "preparer" => w.stage = "idle"
  /\ w.clicked => w.stage \in {"announced", "concluded"}
  /\ w.durable => w.stage = "concluded"
  /\ w.stage = "concluded" => w.outcome \in Ends
  /\ w.reported => w.outcome \in IF w.kind = "publisher" THEN Ends \cup {"failed"}
                                 ELSE {"prepared", "failed"}
  /\ w.outcome = "published" => w.clicked
WorkersTell == \A a \in Attempts : Used(a) => Told(att[a])

RunnersOwn == \A a \in Attempts : Runs(a) => Owns(a) /\ Owner(a).state = "active"

\* A save that is pending was asked of a record that allowed it.
PendingAllowed ==
  LET job == slow.job IN
  job # Free /\ job.kind # "sweep" =>
    /\ job.exec \in Executions
    /\ job.kind = "run_now" => ManualRetryOf(job.copy[job.exec])
    /\ job.kind = "review" => job.copy[job.exec].status = "uncertain"

AInv == TypeOK /\ TasksLead /\ WorkersTell /\ RunnersOwn /\ PendingAllowed

-----------------------------------------------------------------------------
(* ... and what holds of the clicks of the posts whose record is intact, when   *)
(* no stage line is lost                                                         *)

\* Every stage line is read at once.
InStep == \A a \in Attempts : Used(a) => ~att[a].unread

\* A lease is held exactly while the record is active, by the attempt whose
\* token it carries; tokens are those of attempts of the same execution.
Leased == \A e \in Intact :
  LET x == queue[e] IN
  /\ x.status \in Active <=> x.lease # None
  /\ x.lease # None => x.token = x.lease
  /\ x.token # None => Used(x.token) /\ att[x.token].exec = e

\* The record stays with an attempt while that starts or drives a worker, and a
\* stage past the gate is in its history.
RunsIntact(a) == Runs(a) /\ att[a].exec \in Intact
RunnersLease == \A a \in Attempts : RunsIntact(a) => queue[att[a].exec].lease = a
GateIsOnRecord == \A a \in Attempts :
  RunsIntact(a) /\ att[a].stage \in EvidenceStages => queue[att[a].exec].evidence

\* Who has not clicked yet will be the first since the operator last asked.
FirstToClick == \A a \in Attempts :
  RunsIntact(a) /\ ~att[a].clicked => clicks[att[a].exec] = 0
WaitingIsUnclicked == \A e \in Intact :
  queue[e].status \in {"pending", "ready", "cancelled"} => clicks[e] = 0
AtMostOne == \A e \in Intact : clicks[e] \in {0, 1}

\* A click is in the history, and while its attempt holds the lease it was that
\* attempt's, which has got past its announcement.
ClickedIsOnRecord == \A e \in Intact : clicks[e] > 0 =>
  /\ queue[e].evidence
  /\ queue[e].lease # None => att[queue[e].lease].stage \in {"announced", "concluded"}

\* A click of the last attempt counts until the operator has taken over: while
\* the lease stands, and while recovery may still find the attempt's result.
LastClickCounts == \A e \in Intact :
  LET x == queue[e] IN
  /\ x.token # None /\ (x.lease # None \/ (x.status = "uncertain" /\ x.interrupted))
  /\ att[x.token].clicked
  => clicks[e] > 0
PublishedIsClicked == \A e \in Intact :
  queue[e].status = "published" /\ ~queue[e].review => clicks[e] > 0

CInv ==
  /\ InStep /\ Leased /\ RunnersLease /\ GateIsOnRecord
  /\ FirstToClick /\ WaitingIsUnclicked /\ AtMostOne
  /\ ClickedIsOnRecord /\ LastClickCounts /\ PublishedIsClicked

-----------------------------------------------------------------------------
(* Records and what is written into them *)

USE QueueAssumption

\* What the invariants look at in a record of an execution.
LEMMA RecordFields ==
  ASSUME NEW x \in Record
  PROVE  /\ x.status \in Statuses /\ x.stage \in Stages
         /\ x.lease \in Attempts \cup {None} /\ x.token \in Attempts \cup {None}
         /\ x.lastLease \in Attempts \cup {None}
         /\ x.claim \in Attempts \cup {None, ManualRetry}
         /\ x.evidence \in BOOLEAN /\ x.review \in BOOLEAN /\ x.interrupted \in BOOLEAN
BY DEF Record

LEMMA PersistedFacts ==
  ASSUME NEW x \in Record, NEW a \in Attempts, NEW s \in Stages
  PROVE  LET y == Persisted(x, a, s) IN
         /\ y \in Record
         /\ y.status = x.status /\ y.lease = x.lease /\ y.token = x.token
         /\ y.review = x.review /\ y.interrupted = x.interrupted
         /\ x.evidence => y.evidence
         /\ x.lease = a /\ s \in EvidenceStages => y.evidence
<1>1. Persisted(x, a, s) \in Record
  <2> DEFINE b == x.evidence \/ s \in EvidenceStages
  <2>1. b \in BOOLEAN
    BY DEF Record
  <2> HIDE DEF b
  <2>2. [x EXCEPT !.stage = s, !.evidence = b] \in Record
    BY <2>1 DEF Record
  <2> QED BY <2>2 DEF Persisted, b
<1>2. /\ Persisted(x, a, s).status = x.status /\ Persisted(x, a, s).lease = x.lease
      /\ Persisted(x, a, s).token = x.token
  BY DEF Persisted, Record
<1>3. /\ Persisted(x, a, s).review = x.review
      /\ Persisted(x, a, s).interrupted = x.interrupted
  BY DEF Persisted, Record
<1>4. /\ x.evidence => Persisted(x, a, s).evidence
      /\ x.lease = a /\ s \in EvidenceStages => Persisted(x, a, s).evidence
  BY DEF Persisted, Record
<1> QED BY <1>1, <1>2, <1>3, <1>4

LEMMA InterruptedFacts ==
  ASSUME NEW x \in Record
  PROVE  LET y == Interrupted(x) IN
         /\ y \in Record
         /\ y.status \in {"failed_before_publish", "uncertain"}
         /\ y.lease = x.lease /\ y.token = x.token
         /\ y.evidence = x.evidence /\ y.review = x.review
         /\ y.status = "failed_before_publish" => ~x.evidence \/ IsPreparation(x)
<1>1. Interrupted(x) \in Record
  <2> DEFINE s == IF /\ ~HasPublicationEvidence(x)
                     /\ x.stage \in {"idle", "composing"} \/ IsPreparation(x)
                  THEN "failed_before_publish" ELSE "uncertain"
             b == x.stage \in EvidenceStages
  <2>1. s \in Statuses /\ b \in BOOLEAN
    BY DEF Statuses
  <2> HIDE DEF s, b
  <2>2. [x EXCEPT !.status = s, !.stage = "idle", !.interrupted = TRUE,
                  !.lastActive = b] \in Record
    BY <2>1 DEF Record, Stages
  <2> QED BY <2>2 DEF Interrupted, s, b
<1>2. /\ Interrupted(x).status \in {"failed_before_publish", "uncertain"}
      /\ Interrupted(x).lease = x.lease /\ Interrupted(x).token = x.token
  BY DEF Interrupted, Record
<1>3. Interrupted(x).evidence = x.evidence /\ Interrupted(x).review = x.review
  BY DEF Interrupted, Record
<1>4. Interrupted(x).status = "failed_before_publish" => ~x.evidence \/ IsPreparation(x)
  BY DEF Interrupted, Record, HasPublicationEvidence
<1> QED BY <1>1, <1>2, <1>3, <1>4

LEMMA UnleasedFacts ==
  ASSUME NEW x \in Record
  PROVE  LET y == Unleased(x) IN
         /\ y \in Record
         /\ y.lease = None /\ y.status = x.status /\ y.token = x.token
         /\ y.evidence = x.evidence /\ y.review = x.review
         /\ y.interrupted = x.interrupted
<1>1. Unleased(x) \in Record
  BY DEF Unleased, Record
<1>2. Unleased(x).lease = None /\ Unleased(x).status = x.status /\ Unleased(x).token = x.token
  BY DEF Unleased, Record
<1>3. /\ Unleased(x).evidence = x.evidence /\ Unleased(x).review = x.review
      /\ Unleased(x).interrupted = x.interrupted
  BY DEF Unleased, Record
<1> QED BY <1>1, <1>2, <1>3

LEMMA PublishedFacts ==
  ASSUME NEW x \in Record
  PROVE  LET y == AsPublished(x) IN
         /\ y \in Record
         /\ y.lease = x.lease /\ y.status = "published" /\ y.token = x.token
         /\ y.evidence /\ y.review = x.review
<1>1. AsPublished(x) \in Record
  BY ZenonT(60) DEF AsPublished, Record, Stages, Statuses
<1>2. /\ AsPublished(x).lease = x.lease /\ AsPublished(x).status = "published"
      /\ AsPublished(x).token = x.token
  BY DEF AsPublished, Record
<1>3. AsPublished(x).evidence /\ AsPublished(x).review = x.review
  BY DEF AsPublished, Record
<1> QED BY <1>1, <1>2, <1>3

LEMMA PreparedAgainFacts ==
  ASSUME NEW x \in Record
  PROVE  LET y == PreparedAgain(x) IN
         /\ y \in Record
         /\ y.lease = x.lease /\ y.status = "pending" /\ y.token = x.token
         /\ y.evidence = x.evidence
<1>1. PreparedAgain(x) \in Record
  <2>1. Pending(x) \in Record
    BY ZenonT(60) DEF Pending, Record, Stages, Statuses
  <2> HIDE DEF Pending
  <2> QED BY <2>1 DEF PreparedAgain, Record
<1>2. /\ PreparedAgain(x).lease = x.lease /\ PreparedAgain(x).status = "pending"
      /\ PreparedAgain(x).token = x.token
  BY DEF PreparedAgain, Pending, Record
<1>3. PreparedAgain(x).evidence = x.evidence
  BY DEF PreparedAgain, Pending, Record
<1> QED BY <1>1, <1>2, <1>3

LEMMA RunNowFacts ==
  ASSUME NEW x \in Record
  PROVE  LET y == RunNowRecord(x) IN
         /\ y \in Record
         /\ y.lease = x.lease /\ y.status = "pending" /\ y.token = x.token
<1>1. RunNowRecord(x) \in Record
  <2>1. Pending(x) \in Record
    BY DEF Pending, Record, Stages, Statuses
  <2> HIDE DEF Pending
  <2> QED BY <2>1, ZenonT(60) DEF RunNowRecord, Record
<1>2. /\ RunNowRecord(x).lease = x.lease /\ RunNowRecord(x).status = "pending"
      /\ RunNowRecord(x).token = x.token
  BY DEF RunNowRecord, Pending, Record
<1> QED BY <1>1, <1>2

LEMMA CancelledFacts ==
  ASSUME NEW x \in Record
  PROVE  LET y == CancelledAs(x) IN
         /\ y \in Record
         /\ y.status \in {"cancelled", "uncertain"}
         /\ y.lease = x.lease /\ y.token = x.token
         /\ y.evidence = x.evidence /\ y.review = x.review /\ ~y.interrupted
         /\ y.status = "cancelled" => ~x.evidence \/ IsPreparation(x)
<1> DEFINE i == Interrupted(x)
<1>1. /\ i \in Record /\ i.status \in {"failed_before_publish", "uncertain"}
      /\ i.lease = x.lease /\ i.token = x.token
      /\ i.evidence = x.evidence /\ i.review = x.review
      /\ i.status = "failed_before_publish" => ~x.evidence \/ IsPreparation(x)
  BY InterruptedFacts
<1>2. CancelledAs(x) = [i EXCEPT !.status = IF i.status = "failed_before_publish"
                                            THEN "cancelled" ELSE i.status,
                                 !.interrupted = FALSE]
  BY DEF CancelledAs
<1> HIDE DEF i
<1> DEFINE s == IF i.status = "failed_before_publish" THEN "cancelled" ELSE i.status
<1>3. /\ s \in {"cancelled", "uncertain"}
      /\ s = "cancelled" => i.status = "failed_before_publish"
  BY <1>1
<1>4. CancelledAs(x) = [i EXCEPT !.status = s, !.interrupted = FALSE]
  BY <1>2
<1> HIDE DEF s
<1>5. [i EXCEPT !.status = s, !.interrupted = FALSE] \in Record
  BY <1>1, <1>3, ZenonT(60) DEF Record, Statuses
<1>6. /\ CancelledAs(x).status = s /\ CancelledAs(x).lease = i.lease
      /\ CancelledAs(x).token = i.token
  BY <1>1, <1>4 DEF Record
<1>7. /\ CancelledAs(x).evidence = i.evidence /\ CancelledAs(x).review = i.review
      /\ ~CancelledAs(x).interrupted
  BY <1>1, <1>4 DEF Record
<1> QED BY <1>1, <1>3, <1>4, <1>5, <1>6, <1>7

\* A preparation that recovery repeats left no evidence.
LEMMA RecoveredFacts ==
  ASSUME NEW x \in Record
  PROVE  LET y == Recovered(x) IN
         /\ y \in Record
         /\ y.lease = None /\ y.token = x.token
         /\ x.evidence => y.evidence
         /\ \/ y.status = "published" /\ Completed(x)
            \/ y.status = "pending" /\ ~x.evidence
            \/ y.status \in {"failed_before_publish", "uncertain"}
<1> DEFINE z == IF Completed(x) THEN AsPublished(x)
                ELSE IF IsPreparation(x) /\ ~HasPublicationEvidence(x)
                THEN [PreparedAgain(x) EXCEPT !.lastActive = FALSE]
                ELSE Interrupted(x)
<1>1. /\ z \in Record /\ z.lease = x.lease /\ z.token = x.token
      /\ x.evidence => z.evidence
      /\ \/ z.status = "published" /\ Completed(x)
         \/ z.status = "pending" /\ ~x.evidence
         \/ z.status \in {"failed_before_publish", "uncertain"}
  <2>1. CASE Completed(x)
    BY <2>1, PublishedFacts
  <2>2. CASE ~Completed(x) /\ IsPreparation(x) /\ ~HasPublicationEvidence(x)
    <3> DEFINE y == PreparedAgain(x)
    <3>1. /\ y \in Record /\ y.lease = x.lease /\ y.status = "pending"
          /\ y.token = x.token /\ y.evidence = x.evidence
      BY PreparedAgainFacts
    <3> HIDE DEF y
    <3>2. [y EXCEPT !.lastActive = FALSE] \in Record
      BY <3>1 DEF Record
    <3>3. /\ [y EXCEPT !.lastActive = FALSE].lease = x.lease
          /\ [y EXCEPT !.lastActive = FALSE].token = x.token
          /\ [y EXCEPT !.lastActive = FALSE].status = "pending"
      BY <3>1 DEF Record
    <3>4. ~x.evidence
      BY <2>2 DEF HasPublicationEvidence
    <3>5. z = [y EXCEPT !.lastActive = FALSE]
      BY <2>2 DEF y
    <3> QED BY <3>2, <3>3, <3>4, <3>5
  <2>3. CASE ~Completed(x) /\ ~(IsPreparation(x) /\ ~HasPublicationEvidence(x))
    BY <2>3, InterruptedFacts
  <2> QED BY <2>1, <2>2, <2>3
<1>2. Recovered(x) = [z EXCEPT !.lastLease = x.lease, !.lease = None]
  BY DEF Recovered
<1>3. x.lease \in Attempts \cup {None}
  BY RecordFields
<1> HIDE DEF z
<1>4. Recovered(x) \in Record
  BY <1>1, <1>2, <1>3 DEF Record
<1>5. /\ Recovered(x).lease = None /\ Recovered(x).token = z.token
      /\ Recovered(x).status = z.status
  BY <1>1, <1>2 DEF Record
<1>6. Recovered(x).evidence = z.evidence
  BY <1>1, <1>2 DEF Record
<1> QED BY <1>1, <1>4, <1>5, <1>6

-----------------------------------------------------------------------------
(* Attempts and what happens to them *)

\* What an invariant looks at in an attempt.
LEMMA AttemptFields ==
  ASSUME NEW w \in Attempt
  PROVE  /\ w # Unused
         /\ w.exec \in Executions /\ w.kind \in {"publisher", "preparer"}
         /\ w.task \in Tasks /\ w.worker \in {"none", "alive", "orphan", "dead"}
         /\ w.stage \in Stages /\ w.outcome \in Outcomes \cup {"none"}
         /\ w.unread \in BOOLEAN /\ w.clicked \in BOOLEAN
         /\ w.durable \in BOOLEAN /\ w.reported \in BOOLEAN
<1>1. w.task \in Tasks
  BY DEF Attempt
<1>2. w # Unused
  BY <1>1 DEF Unused, Tasks
<1>3. w.unread \in BOOLEAN /\ w.clicked \in BOOLEAN
  BY DEF Attempt
<1>4. w.durable \in BOOLEAN /\ w.reported \in BOOLEAN
  BY DEF Attempt
<1> QED BY <1>1, <1>2, <1>3, <1>4 DEF Attempt

\* An attempt goes on, and comes no nearer to driving a browser.
Goes(b) ==
  /\ Used(b)' <=> Used(b)
  /\ Used(b) => /\ att'[b] \in Attempt /\ att'[b].exec = att[b].exec
                /\ Told(att'[b]) /\ Led(att'[b])
  /\ Runs(b)' => Runs(b)

\* ... and nothing happens in its worker that the queue file should know of.
Silent(b) ==
  Used(b) => /\ att'[b].stage = att[b].stage /\ att'[b].clicked = att[b].clicked
             /\ att'[b].unread => att[b].unread

\* One attempt changes to w.
LEMMA OneGoes ==
  ASSUME AInv, NEW a \in Attempts, Used(a), NEW w \in Attempt,
         att' = [att EXCEPT ![a] = w],
         w.exec = att[a].exec, Told(w), Led(w),
         w.task = "starting" \/ w.worker = "alive" => Runs(a)
  PROVE  /\ att' \in [Attempts -> Attempt \cup {Unused}]
         /\ att'[a] = w /\ \A b \in Attempts \ {a} : att'[b] = att[b]
         /\ \A b \in Attempts : Goes(b)
<1>1. /\ att' \in [Attempts -> Attempt \cup {Unused}]
      /\ att'[a] = w /\ \A b \in Attempts \ {a} : att'[b] = att[b]
  BY DEF AInv, TypeOK
<1>2. Goes(a)
  BY <1>1, AttemptFields DEF Goes, Used, Runs
<1>3. ASSUME NEW b \in Attempts, b # a
      PROVE  Goes(b)
  <2>1. att'[b] = att[b]
    BY <1>1, <1>3
  <2>2. Used(b) => att[b] \in Attempt /\ Told(att[b]) /\ Led(att[b])
    BY DEF AInv, TypeOK, TasksLead, WorkersTell, Used
  <2> QED BY <2>1, <2>2 DEF Goes, Used, Runs
<1> QED BY <1>1, <1>2, <1>3

\* Runners keep their containers when every attempt only goes on.
LEMMA AttemptsGoOn ==
  ASSUME AInv, \A b \in Attempts : Goes(b),
         \A b \in Attempts : Runs(b)' =>
            owner'[ProfileOf[att[b].exec]] = owner[ProfileOf[att[b].exec]]
  PROVE  TasksLead' /\ WorkersTell' /\ RunnersOwn'
<1>1. TasksLead' /\ WorkersTell'
  BY DEF TasksLead, WorkersTell, Goes, Used
<1>2. ASSUME NEW b \in Attempts, Runs(b)'
      PROVE  (Owns(b) /\ Owner(b).state = "active")'
  <2>1. Runs(b) /\ Used(b) /\ att'[b].exec = att[b].exec
    BY <1>2 DEF Goes, Runs
  <2>2. Owns(b) /\ Owner(b).state = "active"
    BY <2>1 DEF AInv, RunnersOwn
  <2>3. owner'[ProfileOf[att[b].exec]] = owner[ProfileOf[att[b].exec]]
    BY <1>2
  <2>4. Owner(b)' = Owner(b)
    BY <2>1, <2>3 DEF Owner
  <2> QED BY <2>2, <2>4 DEF Owns
<1> QED BY <1>1, <1>2 DEF RunnersOwn

\* Two runners on one profile are one attempt.
LEMMA RunnersApart ==
  ASSUME AInv, NEW a \in Attempts, NEW b \in Attempts, Runs(a), Runs(b),
         ProfileOf[att[a].exec] = ProfileOf[att[b].exec]
  PROVE  a = b
BY DEF AInv, RunnersOwn, Owns, Owner

\* The task of an attempt goes on to t, leaving its worker, if it has one.
LEMMA TaskGoes ==
  ASSUME AInv, NEW a \in Attempts, Used(a), NEW t \in Tasks, GoTo(a, t),
         t # "starting", att[a].worker = "alive" => t \in {"working", "cancelled"}
  PROVE  /\ att' \in [Attempts -> Attempt \cup {Unused}]
         /\ \A b \in Attempts : Goes(b) /\ Silent(b)
         /\ \A b \in Attempts \ {a} : att'[b] = att[b]
         /\ att'[a].task = t /\ att'[a].worker = att[a].worker
<1> DEFINE w == [att[a] EXCEPT !.task = t]
<1>1. att[a] \in Attempt /\ Told(att[a]) /\ Led(att[a])
  BY DEF AInv, TypeOK, TasksLead, WorkersTell, Used
<1>2. att' = [att EXCEPT ![a] = w]
  BY DEF GoTo
<1>3. w \in Attempt /\ w.task = t /\ w.worker = att[a].worker /\ w.exec = att[a].exec
  BY <1>1 DEF Attempt
<1>4. w.kind = att[a].kind /\ w.stage = att[a].stage /\ w.outcome = att[a].outcome
  BY <1>1 DEF Attempt
<1>5. w.unread = att[a].unread /\ w.clicked = att[a].clicked
  BY <1>1 DEF Attempt
<1>6. w.durable = att[a].durable /\ w.reported = att[a].reported
  BY <1>1 DEF Attempt
<1> HIDE DEF w
<1>7. Told(w) /\ Led(w)
  BY <1>1, <1>3, <1>4, <1>5, <1>6 DEF Told, Led
<1>8. w.task = "starting" \/ w.worker = "alive" => Runs(a)
  BY <1>3 DEF Runs
<1>9. /\ att' \in [Attempts -> Attempt \cup {Unused}]
      /\ att'[a] = w /\ \A b \in Attempts \ {a} : att'[b] = att[b]
      /\ \A b \in Attempts : Goes(b)
  BY <1>2, <1>3, <1>7, <1>8, OneGoes
<1>10. \A b \in Attempts : Silent(b)
  BY <1>4, <1>5, <1>9 DEF Silent
<1> QED BY <1>3, <1>9, <1>10

\* ... with its worker: it is started, or it ends with the task.
LEMMA TaskAndWorkerGo ==
  ASSUME AInv, NEW a \in Attempts, Used(a), NEW t \in Tasks,
         NEW k \in {"none", "alive", "orphan", "dead"},
         att' = [att EXCEPT ![a].task = t, ![a].worker = k], t # "starting",
         k = "alive" => t = "working" /\ Runs(a)
  PROVE  /\ att' \in [Attempts -> Attempt \cup {Unused}]
         /\ \A b \in Attempts : Goes(b) /\ Silent(b)
         /\ \A b \in Attempts \ {a} : att'[b] = att[b]
         /\ att'[a].task = t /\ att'[a].worker = k
<1> DEFINE w == [att[a] EXCEPT !.task = t, !.worker = k]
<1>1. att[a] \in Attempt /\ Told(att[a]) /\ Led(att[a])
  BY DEF AInv, TypeOK, TasksLead, WorkersTell, Used
<1>2. att' = [att EXCEPT ![a] = w]
  BY <1>1 DEF AInv, TypeOK
<1>3. w \in Attempt /\ w.task = t /\ w.worker = k /\ w.exec = att[a].exec
  BY <1>1 DEF Attempt
<1>4. w.kind = att[a].kind /\ w.stage = att[a].stage /\ w.outcome = att[a].outcome
  BY <1>1 DEF Attempt
<1>5. w.unread = att[a].unread /\ w.clicked = att[a].clicked
  BY <1>1 DEF Attempt
<1>6. w.durable = att[a].durable /\ w.reported = att[a].reported
  BY <1>1 DEF Attempt
<1> HIDE DEF w
<1>7. Told(w) /\ Led(w)
  BY <1>1, <1>3, <1>4, <1>5, <1>6 DEF Told, Led
<1>8. w.task = "starting" \/ w.worker = "alive" => Runs(a)
  BY <1>3 DEF Runs
<1>9. /\ att' \in [Attempts -> Attempt \cup {Unused}]
      /\ att'[a] = w /\ \A b \in Attempts \ {a} : att'[b] = att[b]
      /\ \A b \in Attempts : Goes(b)
  BY <1>2, <1>3, <1>7, <1>8, OneGoes
<1>10. \A b \in Attempts : Silent(b)
  BY <1>4, <1>5, <1>9 DEF Silent
<1> QED BY <1>3, <1>9, <1>10

\* A worker is killed, writes its result, or ends: what the queue file should
\* know of it stays the same.
LEMMA WorkerGoes ==
  ASSUME AInv, NEW a \in Attempts, Used(a), NEW w \in Attempt,
         att' = [att EXCEPT ![a] = w],
         w.exec = att[a].exec, w.task = att[a].task, w.stage = att[a].stage,
         w.clicked = att[a].clicked, w.unread = att[a].unread, Told(w),
         w.worker = att[a].worker \/ (w.worker = "dead" /\ att[a].worker # "none")
  PROVE  /\ att' \in [Attempts -> Attempt \cup {Unused}]
         /\ \A b \in Attempts : Goes(b) /\ Silent(b)
<1>1. att[a] \in Attempt /\ Led(att[a])
  BY DEF AInv, TypeOK, TasksLead, Used
<1>2. Led(w)
  BY <1>1 DEF Led
<1>3. w.task = "starting" \/ w.worker = "alive" => Runs(a)
  BY DEF Runs
<1>4. /\ att' \in [Attempts -> Attempt \cup {Unused}]
      /\ att'[a] = w /\ \A b \in Attempts \ {a} : att'[b] = att[b]
      /\ \A b \in Attempts : Goes(b)
  BY <1>2, <1>3, OneGoes
<1> QED BY <1>4 DEF Silent

LEMMA KillGoes ==
  ASSUME AInv, NEW a \in Attempts, Kill(a)
  PROVE  /\ att' \in [Attempts -> Attempt \cup {Unused}]
         /\ \A b \in Attempts : Goes(b) /\ Silent(b)
<1> DEFINE w == [att[a] EXCEPT !.worker = "dead"]
<1>1. /\ Used(a) /\ att[a].worker = "alive" /\ att[a] \in Attempt /\ Told(att[a])
      /\ att' = [att EXCEPT ![a] = w]
  BY DEF Kill, Alive, AInv, TypeOK, WorkersTell, Used
<1>2. w \in Attempt /\ w.worker = "dead" /\ w.exec = att[a].exec /\ w.task = att[a].task
  BY <1>1 DEF Attempt
<1>3. w.kind = att[a].kind /\ w.stage = att[a].stage /\ w.outcome = att[a].outcome
  BY <1>1 DEF Attempt
<1>4. w.unread = att[a].unread /\ w.clicked = att[a].clicked
  BY <1>1 DEF Attempt
<1>5. w.durable = att[a].durable /\ w.reported = att[a].reported
  BY <1>1 DEF Attempt
<1> HIDE DEF w
<1>6. Told(w)
  BY <1>1, <1>3, <1>4, <1>5 DEF Told
<1> QED BY <1>1, <1>2, <1>3, <1>4, <1>6, WorkerGoes

LEMMA FinalizeGoes ==
  ASSUME AInv, NEW a \in Attempts, Finalize(a)
  PROVE  /\ att' \in [Attempts -> Attempt \cup {Unused}]
         /\ \A b \in Attempts : Goes(b) /\ Silent(b)
<1> DEFINE w == [att[a] EXCEPT !.durable = TRUE]
<1>1. /\ Used(a) /\ att[a] \in Attempt /\ Told(att[a]) /\ att[a].stage = "concluded"
      /\ att' = [att EXCEPT ![a] = w]
  BY DEF Finalize, Alive, AInv, TypeOK, WorkersTell, Used
<1>2. w \in Attempt /\ w.exec = att[a].exec /\ w.task = att[a].task
      /\ w.worker = att[a].worker
  BY <1>1 DEF Attempt
<1>3. w.kind = att[a].kind /\ w.stage = att[a].stage /\ w.outcome = att[a].outcome
  BY <1>1 DEF Attempt
<1>4. w.unread = att[a].unread /\ w.clicked = att[a].clicked
  BY <1>1 DEF Attempt
<1>5. w.reported = att[a].reported
  BY <1>1 DEF Attempt
<1> HIDE DEF w
<1>6. Told(w)
  BY <1>1, <1>3, <1>4, <1>5 DEF Told
<1> QED BY <1>1, <1>2, <1>3, <1>4, <1>6, WorkerGoes

LEMMA OrphanGoes ==
  ASSUME AInv, NEW a \in Attempts, OrphanFinalizes(a)
  PROVE  /\ att' \in [Attempts -> Attempt \cup {Unused}]
         /\ \A b \in Attempts : Goes(b) /\ Silent(b)
<1> DEFINE d == att[a].stage = "concluded"
           w == [att[a] EXCEPT !.durable = d, !.worker = "dead"]
<1>1. /\ Used(a) /\ att[a] \in Attempt /\ Told(att[a]) /\ att[a].worker = "orphan"
      /\ att' = [att EXCEPT ![a] = w]
  BY DEF OrphanFinalizes, AInv, TypeOK, WorkersTell, Used
<1>2. d \in BOOLEAN /\ (d => att[a].stage = "concluded")
  OBVIOUS
<1> HIDE DEF d
<1>3. w \in Attempt /\ w.exec = att[a].exec /\ w.task = att[a].task /\ w.worker = "dead"
  BY <1>1, <1>2 DEF Attempt
<1>4. w.kind = att[a].kind /\ w.stage = att[a].stage /\ w.outcome = att[a].outcome
  BY <1>1 DEF Attempt
<1>5. w.unread = att[a].unread /\ w.clicked = att[a].clicked
  BY <1>1 DEF Attempt
<1>6. w.reported = att[a].reported /\ w.durable = d
  BY <1>1 DEF Attempt
<1> HIDE DEF w
<1>7. Told(w)
  BY <1>1, <1>2, <1>4, <1>5, <1>6 DEF Told
<1> QED BY <1>1, <1>3, <1>4, <1>5, <1>7, WorkerGoes

LEMMA ExitsGoes ==
  ASSUME AInv, NEW a \in Attempts, Alive(a), NEW o \in Outcomes, Exits(a, o),
         att[a].stage = "concluded" => o = att[a].outcome,
         o = "published" => att[a].clicked,
         o \in IF att[a].kind = "publisher" THEN Ends \cup {"failed"}
               ELSE {"prepared", "failed"}
  PROVE  /\ att' \in [Attempts -> Attempt \cup {Unused}]
         /\ \A b \in Attempts : Goes(b) /\ Silent(b)
<1> DEFINE w == [att[a] EXCEPT !.outcome = o, !.reported = TRUE, !.worker = "dead"]
<1>1. /\ Used(a) /\ att[a] \in Attempt /\ Told(att[a]) /\ att[a].worker = "alive"
  BY DEF Alive, AInv, TypeOK, WorkersTell, Used
<1>2. att' = [att EXCEPT ![a] = w]
  BY <1>1 DEF Exits, AInv, TypeOK
<1>3. w \in Attempt /\ w.exec = att[a].exec /\ w.task = att[a].task /\ w.worker = "dead"
  BY <1>1 DEF Attempt
<1>4. w.kind = att[a].kind /\ w.stage = att[a].stage /\ w.outcome = o
  BY <1>1 DEF Attempt
<1>5. w.unread = att[a].unread /\ w.clicked = att[a].clicked
  BY <1>1 DEF Attempt
<1>6. w.durable = att[a].durable
  BY <1>1 DEF Attempt
<1> HIDE DEF w
<1>7. Told(w)
  BY <1>1, <1>4, <1>5, <1>6 DEF Told
<1> QED BY <1>1, <1>2, <1>3, <1>4, <1>5, <1>7, WorkerGoes

LEMMA ReportGoes ==
  ASSUME AInv, NEW a \in Attempts, Report(a)
  PROVE  /\ att' \in [Attempts -> Attempt \cup {Unused}]
         /\ \A b \in Attempts : Goes(b) /\ Silent(b)
<1>1. Used(a) /\ Alive(a) /\ att[a] \in Attempt /\ Told(att[a])
  BY DEF Report, Alive, AInv, TypeOK, WorkersTell, Used
<1>2. CASE att[a].durable /\ Exits(a, att[a].outcome)
  <2>1. att[a].stage = "concluded" /\ att[a].outcome \in Ends /\ att[a].kind = "publisher"
    BY <1>1, <1>2, AttemptFields DEF Told
  <2>2. att[a].outcome = "published" => att[a].clicked
    BY <1>1 DEF Told
  <2>3. att[a].outcome \in Outcomes
    BY <2>1 DEF Ends, Outcomes
  <2> QED BY <1>1, <1>2, <2>1, <2>2, <2>3, ExitsGoes
<1>3. CASE att[a].kind = "preparer" /\ \E o \in {"prepared", "failed"} : Exits(a, o)
  BY <1>1, <1>3, ExitsGoes DEF Told, Outcomes
<1>4. CASE /\ att[a].kind = "publisher"
           /\ att[a].stage \in {"idle", "composing", "authorized"}
           /\ Exits(a, "failed")
  BY <1>1, <1>4, ExitsGoes DEF Outcomes
<1>5. CASE att[a].stage = "authorized" /\ Exits(a, "uncertain")
  <2>1. att[a].kind = "publisher"
    BY <1>1, <1>5, AttemptFields DEF Told
  <2> QED BY <1>1, <1>5, <2>1, ExitsGoes DEF Outcomes, Ends
<1> QED BY <1>2, <1>3, <1>4, <1>5 DEF Report

\* A stage line is printed, and read and persisted unless lines may be lost.
LEMMA Prints ==
  ASSUME AInv, NEW a \in Attempts, Alive(a), att[a].kind = "publisher",
         NEW v \in Attempt, NEW s \in Stages, PrintStage(a, v, s),
         v.exec = att[a].exec, v.kind = att[a].kind, v.task = att[a].task,
         v.worker = att[a].worker, v.clicked = att[a].clicked,
         v.reported = att[a].reported, ~v.durable,
         v.clicked => s = "concluded",
         s = "concluded" \/ v.reported => v.outcome \in Ends \cup {"failed"},
         s = "concluded" => v.outcome \in Ends,
         v.outcome = "published" => v.clicked
  PROVE  /\ att' \in [Attempts -> Attempt \cup {Unused}]
         /\ queue' \in [Executions -> Record]
         /\ \A b \in Attempts : Goes(b)
         /\ \A b \in Attempts \ {a} : att'[b] = att[b]
         /\ att'[a].stage = s /\ att'[a].clicked = att[a].clicked
         /\ "lost_lines" \notin Faults =>
              /\ Update(att[a].exec, Persisted(queue[att[a].exec], a, s))
              /\ ~att'[a].unread
<1>1. PICK u \in BOOLEAN : /\ att' = [att EXCEPT ![a] = [v EXCEPT !.stage = s, !.unread = u]]
                           /\ "lost_lines" \notin Faults => ~u
  BY DEF PrintStage
<1> DEFINE w == [v EXCEPT !.stage = s, !.unread = u]
<1>2. w \in Attempt /\ w.exec = v.exec /\ w.task = v.task /\ w.worker = v.worker
  BY DEF Attempt
<1>3. w.kind = v.kind /\ w.stage = s /\ w.outcome = v.outcome
  BY DEF Attempt
<1>4. w.unread = u /\ w.clicked = v.clicked
  BY DEF Attempt
<1>5. w.reported = v.reported /\ w.durable = v.durable
  BY DEF Attempt
<1>6. att' = [att EXCEPT ![a] = w]
  BY <1>1
<1> HIDE DEF w
<1>7. att[a] \in Attempt /\ Told(att[a]) /\ Led(att[a]) /\ Used(a) /\ Runs(a)
  BY DEF AInv, TypeOK, TasksLead, WorkersTell, Used, Alive, Runs
<1>8. Told(w)
  BY <1>3, <1>4, <1>5 DEF Told
<1>9. Led(w)
  BY <1>2, <1>3, <1>7 DEF Led, Alive
<1>10. /\ att' \in [Attempts -> Attempt \cup {Unused}]
       /\ att'[a] = w /\ \A b \in Attempts \ {a} : att'[b] = att[b]
       /\ \A b \in Attempts : Goes(b)
  BY <1>2, <1>6, <1>7, <1>8, <1>9, OneGoes
<1>11. queue' \in [Executions -> Record]
  <2>1. att[a].exec \in Executions /\ queue[att[a].exec] \in Record
    BY <1>7, AttemptFields DEF AInv, TypeOK
  <2>2. Persisted(queue[att[a].exec], a, s) \in Record
    BY <2>1, PersistedFacts
  <2> QED BY <2>1, <2>2 DEF PrintStage, Update, AInv, TypeOK
<1>12. "lost_lines" \notin Faults => Update(att[a].exec, Persisted(queue[att[a].exec], a, s))
  BY DEF PrintStage
<1> QED BY <1>1, <1>3, <1>4, <1>10, <1>11, <1>12

LEMMA AdvanceGoes ==
  ASSUME AInv, NEW a \in Attempts, Advance(a)
  PROVE  /\ att' \in [Attempts -> Attempt \cup {Unused}]
         /\ queue' \in [Executions -> Record]
         /\ \A b \in Attempts : Goes(b)
         /\ \A b \in Attempts \ {a} : att'[b] = att[b]
         /\ ~att[a].clicked /\ ~att'[a].clicked
         /\ att'[a].stage \in {"composing", "authorized", "announced"}
         /\ "lost_lines" \notin Faults =>
              /\ Update(att[a].exec, Persisted(queue[att[a].exec], a, att'[a].stage))
              /\ ~att'[a].unread
<1>1. PICK s \in {"composing", "authorized", "announced"} :
        /\ s = NextStage[att[a].stage] /\ att[a].stage \in {"idle", "composing", "authorized"}
        /\ PrintStage(a, att[a], s)
  BY DEF Advance, NextStage
<1>2. /\ Alive(a) /\ Used(a) /\ att[a] \in Attempt /\ Told(att[a]) /\ att[a].kind = "publisher"
  BY DEF Advance, Alive, AInv, TypeOK, WorkersTell, Used
<1>3. ~att[a].clicked /\ ~att[a].durable /\ s \in Stages
  BY <1>1, <1>2 DEF Told, Stages
<1>4. att[a].reported => att[a].outcome \in Ends \cup {"failed"}
  BY <1>2 DEF Told
<1>5. att[a].outcome = "published" => att[a].clicked
  BY <1>2 DEF Told
<1> QED BY <1>1, <1>2, <1>3, <1>4, <1>5, Prints

LEMMA ConcludeGoes ==
  ASSUME AInv, NEW a \in Attempts, Conclude(a)
  PROVE  /\ att' \in [Attempts -> Attempt \cup {Unused}]
         /\ queue' \in [Executions -> Record]
         /\ \A b \in Attempts : Goes(b)
         /\ \A b \in Attempts \ {a} : att'[b] = att[b]
         /\ att'[a].clicked = att[a].clicked /\ att'[a].stage = "concluded"
         /\ "lost_lines" \notin Faults =>
              /\ Update(att[a].exec, Persisted(queue[att[a].exec], a, "concluded"))
              /\ ~att'[a].unread
<1>1. PICK o \in Ends : /\ att[a].clicked \/ o = "uncertain"
                        /\ PrintStage(a, [att[a] EXCEPT !.outcome = o], "concluded")
  BY DEF Conclude, Ends
<1> DEFINE v == [att[a] EXCEPT !.outcome = o]
<1>2. /\ Alive(a) /\ Used(a) /\ att[a] \in Attempt /\ Told(att[a])
      /\ att[a].stage = "announced"
  BY DEF Conclude, Alive, AInv, TypeOK, WorkersTell, Used
<1>3. att[a].kind = "publisher" /\ ~att[a].durable
  BY <1>2, AttemptFields DEF Told
<1>4. v \in Attempt /\ v.exec = att[a].exec /\ v.task = att[a].task
  BY <1>2 DEF Attempt, Ends, Outcomes
<1>5. v.worker = att[a].worker /\ v.kind = att[a].kind /\ v.outcome = o
  BY <1>2 DEF Attempt
<1>6. v.clicked = att[a].clicked
  BY <1>2 DEF Attempt
<1>7. v.reported = att[a].reported /\ v.durable = att[a].durable
  BY <1>2 DEF Attempt
<1>8. PrintStage(a, v, "concluded") /\ "concluded" \in Stages
  BY <1>1 DEF Stages
<1> HIDE DEF v
<1>9. v.outcome = "published" => v.clicked
  BY <1>1, <1>5, <1>6
<1>10. v.outcome \in Ends
  BY <1>5
<1> QED BY <1>2, <1>3, <1>4, <1>5, <1>6, <1>7, <1>8, <1>9, <1>10, Prints

LEMMA ClickGoes ==
  ASSUME AInv, NEW a \in Attempts, Click(a)
  PROVE  /\ att' \in [Attempts -> Attempt \cup {Unused}]
         /\ \A b \in Attempts : Goes(b)
         /\ \A b \in Attempts \ {a} : att'[b] = att[b]
         /\ att'[a].stage = "announced" /\ att'[a].clicked
         /\ att'[a].unread = att[a].unread
<1> DEFINE w == [att[a] EXCEPT !.clicked = TRUE]
<1>1. /\ Used(a) /\ att[a] \in Attempt /\ Told(att[a]) /\ Led(att[a])
      /\ att[a].stage = "announced" /\ att[a].worker = "alive"
      /\ att' = [att EXCEPT ![a] = w]
  BY DEF Click, Alive, AInv, TypeOK, WorkersTell, TasksLead, Used
<1>2. w \in Attempt /\ w.exec = att[a].exec /\ w.task = att[a].task
  BY <1>1 DEF Attempt
<1>3. w.kind = att[a].kind /\ w.stage = att[a].stage /\ w.outcome = att[a].outcome
  BY <1>1 DEF Attempt
<1>4. w.unread = att[a].unread /\ w.clicked /\ w.worker = att[a].worker
  BY <1>1 DEF Attempt
<1>5. w.durable = att[a].durable /\ w.reported = att[a].reported
  BY <1>1 DEF Attempt
<1> HIDE DEF w
<1>6. Told(w) /\ Led(w)
  BY <1>1, <1>2, <1>3, <1>4, <1>5 DEF Told, Led
<1>7. w.task = "starting" \/ w.worker = "alive" => Runs(a)
  BY <1>1 DEF Runs
<1> QED BY <1>1, <1>2, <1>3, <1>4, <1>6, <1>7, OneGoes

LEMMA DrainGoes ==
  ASSUME AInv, NEW a \in Attempts, Drain(a)
  PROVE  /\ att' \in [Attempts -> Attempt \cup {Unused}]
         /\ queue' \in [Executions -> Record]
         /\ \A b \in Attempts : Goes(b)
<1> DEFINE w == [att[a] EXCEPT !.unread = FALSE]
<1>1. /\ Used(a) /\ att[a] \in Attempt /\ Told(att[a]) /\ Led(att[a])
      /\ att' = [att EXCEPT ![a] = w]
  BY DEF Drain, InTask, AInv, TypeOK, WorkersTell, TasksLead, Used
<1>2. w \in Attempt /\ w.exec = att[a].exec /\ w.task = att[a].task
  BY <1>1 DEF Attempt
<1>3. w.kind = att[a].kind /\ w.stage = att[a].stage /\ w.outcome = att[a].outcome
  BY <1>1 DEF Attempt
<1>4. w.clicked = att[a].clicked /\ w.worker = att[a].worker
  BY <1>1 DEF Attempt
<1>5. w.durable = att[a].durable /\ w.reported = att[a].reported
  BY <1>1 DEF Attempt
<1> HIDE DEF w
<1>6. Told(w) /\ Led(w)
  BY <1>1, <1>2, <1>3, <1>4, <1>5 DEF Told, Led
<1>7. w.task = "starting" \/ w.worker = "alive" => Runs(a)
  BY <1>1, <1>2, <1>4 DEF Runs
<1>8. queue' \in [Executions -> Record]
  <2>1. att[a].exec \in Executions /\ queue[att[a].exec] \in Record /\ att[a].stage \in Stages
    BY <1>1, AttemptFields DEF AInv, TypeOK
  <2>2. Persisted(queue[att[a].exec], a, att[a].stage) \in Record
    BY <2>1, PersistedFacts
  <2> QED BY <2>1, <2>2 DEF Drain, Update, AInv, TypeOK
<1> QED BY <1>1, <1>2, <1>6, <1>7, <1>8, OneGoes

-----------------------------------------------------------------------------
(* The records that the end of an attempt, a retry and the operator write *)

LEMMA FailedBeforeFacts ==
  ASSUME AInv, NEW a \in Attempts, Used(a)
  PROVE  LET x == queue[att[a].exec]  y == FailedBefore(a) IN
         /\ x \in Record /\ y \in Record
         /\ y.status = "failed_before_publish" /\ y.lease = None /\ y.token = x.token
         /\ y.evidence = x.evidence
<1> DEFINE x == queue[att[a].exec]
           q == IF att[a].kind = "preparer" THEN "failed" ELSE x.prep
           z == [x EXCEPT !.status = "failed_before_publish", !.stage = "idle", !.prep = q]
<1>1. x \in Record
  BY AttemptFields DEF AInv, TypeOK, Used
<1> HIDE DEF x
<1>2. q \in {"off", "pending", "ready", "failed"}
  BY <1>1 DEF Record
<1>3. FailedBefore(a) = Unleased(z)
  BY <1>1 DEF FailedBefore, x, Record
<1> HIDE DEF q
<1>4. z \in Record
  BY <1>1, <1>2, ZenonT(60) DEF Record, Statuses, Stages
<1>5. z.status = "failed_before_publish" /\ z.token = x.token
  BY <1>1 DEF Record
<1>6. z.evidence = x.evidence
  BY <1>1 DEF Record
<1> HIDE DEF z
<1> QED BY <1>1, <1>3, <1>4, <1>5, <1>6, UnleasedFacts DEF x

LEMMA FinalStatusFacts ==
  ASSUME AInv, NEW a \in Attempts, Used(a), att[a].kind = "publisher"
  PROVE  /\ FinalStatus(a) \in Ends \cup {"failed_before_publish"}
         /\ FinalStatus(a) = "published" => att[a].clicked
<1>1. Told(att[a])
  BY DEF AInv, WorkersTell
<1>2. CASE att[a].reported /\ att[a].outcome # "failed"
  BY <1>1, <1>2 DEF FinalStatus, Told, Ends
<1>3. CASE ~att[a].reported /\ att[a].stage = "announced"
  BY <1>3 DEF FinalStatus, Ends
<1>4. CASE /\ ~(att[a].reported /\ att[a].outcome # "failed")
           /\ ~(~att[a].reported /\ att[a].stage = "announced")
  BY <1>4 DEF FinalStatus
<1> QED BY <1>2, <1>3, <1>4

LEMMA ResultFacts ==
  ASSUME AInv, NEW a \in Attempts, Used(a), att[a].kind = "publisher", NEW x \in Record
  PROVE  LET y == Result(a, x) IN
         /\ y \in Record
         /\ y.status \in Ends \cup {"failed_before_publish"}
         /\ y.status = "published" => att[a].clicked
         /\ y.lease = None /\ y.token = x.token
         /\ IF att[a].reported THEN att[a].stage \in EvidenceStages => y.evidence
                               ELSE x.evidence => y.evidence
<1> DEFINE f == FinalStatus(a)
           s == att[a].stage
           y == [x EXCEPT !.status = f, !.stage = s]
           b == s \in EvidenceStages
           z == [y EXCEPT !.evidence = b, !.reviewed = FALSE, !.claim = None]
<1>1. /\ f \in Ends \cup {"failed_before_publish"}
      /\ f = "published" => att[a].clicked
  BY FinalStatusFacts
<1>2. s \in Stages
  BY AttemptFields DEF AInv, TypeOK, Used
<1>3. Result(a, x) = Unleased(IF ~att[a].reported THEN y ELSE z)
  BY DEF Result
<1>4. b \in BOOLEAN /\ (s \in EvidenceStages => b)
  OBVIOUS
<1> HIDE DEF f, b
<1>5. y \in Record /\ y.status = f /\ y.token = x.token
  BY <1>1, <1>2, ZenonT(60) DEF Record, Statuses, Ends
<1>6. y.evidence = x.evidence
  BY DEF Record
<1> HIDE DEF y
<1>7. z \in Record /\ z.status = f /\ z.token = y.token
  BY <1>4, <1>5, ZenonT(60) DEF Record
<1>8. z.evidence = b
  BY <1>5 DEF Record
<1> HIDE DEF z
<1>9. CASE att[a].reported
  <2>1. Result(a, x) = Unleased(z)
    BY <1>3, <1>9
  <2> QED BY <1>1, <1>4, <1>5, <1>7, <1>8, <1>9, <2>1, UnleasedFacts
<1>10. CASE ~att[a].reported
  <2>1. Result(a, x) = Unleased(y)
    BY <1>3, <1>10
  <2> QED BY <1>1, <1>5, <1>6, <1>10, <2>1, UnleasedFacts
<1> QED BY <1>9, <1>10

LEMMA ReadyFacts ==
  ASSUME NEW x \in Record
  PROVE  LET y == Unleased([x EXCEPT !.status = "ready", !.stage = "idle", !.prep = "ready"]) IN
         /\ y \in Record
         /\ y.status = "ready" /\ y.lease = None /\ y.token = x.token
         /\ y.evidence = x.evidence
<1> DEFINE z == [x EXCEPT !.status = "ready", !.stage = "idle", !.prep = "ready"]
<1>1. z \in Record
  BY ZenonT(60) DEF Record, Statuses, Stages
<1>2. z.status = "ready" /\ z.token = x.token
  BY DEF Record
<1>3. z.evidence = x.evidence
  BY DEF Record
<1> HIDE DEF z
<1>4. LET y == Unleased(z) IN
      /\ y \in Record
      /\ y.status = "ready" /\ y.lease = None /\ y.token = x.token
      /\ y.evidence = x.evidence
  BY <1>1, <1>2, <1>3, UnleasedFacts
<1> QED BY <1>4 DEF z

\* Repeating a preparation, or a whole attempt, never touches lease or token.
LEMMA AgainFacts ==
  ASSUME NEW x \in Record,
         NEW y, \/ y = [PreparedAgain(x) EXCEPT !.lastActive = FALSE]
                \/ y = [PreparedAgain(x) EXCEPT !.evidence = FALSE, !.reviewed = FALSE,
                          !.lastActive = FALSE, !.review = FALSE, !.claim = None]
                \/ y = [PreparedAgain(x) EXCEPT !.claim = ManualRetry, !.held = FALSE,
                                                !.cancelAsked = FALSE]
                \/ y = [PreparedAgain(x) EXCEPT !.held = FALSE, !.cancelAsked = FALSE]
  PROVE  y \in Record /\ y.status = "pending" /\ y.lease = x.lease /\ y.token = x.token
<1> DEFINE p == PreparedAgain(x)
<1>1. p \in Record /\ p.lease = x.lease /\ p.status = "pending" /\ p.token = x.token
  BY PreparedAgainFacts
<1> HIDE DEF p
<1>2. CASE y = [p EXCEPT !.lastActive = FALSE]
  BY <1>1, <1>2 DEF Record
<1>3. CASE y = [p EXCEPT !.evidence = FALSE, !.reviewed = FALSE,
                         !.lastActive = FALSE, !.review = FALSE, !.claim = None]
  BY <1>1, <1>3, ZenonT(60) DEF Record
<1>4. CASE y = [p EXCEPT !.claim = ManualRetry, !.held = FALSE, !.cancelAsked = FALSE]
  BY <1>1, <1>4 DEF Record
<1>5. CASE y = [p EXCEPT !.held = FALSE, !.cancelAsked = FALSE]
  BY <1>1, <1>5 DEF Record
<1> QED BY <1>2, <1>3, <1>4, <1>5 DEF p

LEMMA ResolvedFacts ==
  ASSUME NEW x \in Record
  PROVE  /\ LET y == ReviewedPublished(x) IN
              /\ y \in Record /\ y.status = "published"
              /\ y.lease = x.lease /\ y.token = x.token
              /\ y.review /\ y.evidence
         /\ LET y == ReviewedNotPublished(x) IN
              /\ y \in Record /\ y.status = "failed_before_publish"
              /\ y.lease = x.lease /\ y.token = x.token
<1> DEFINE p == AsPublished(x)
<1>1. /\ p \in Record /\ p.lease = x.lease /\ p.status = "published" /\ p.token = x.token
      /\ p.evidence
  BY PublishedFacts
<1> HIDE DEF p
<1>2. LET y == [p EXCEPT !.review = TRUE] IN
        y \in Record /\ y.status = "published" /\ y.lease = x.lease /\ y.token = x.token
  BY <1>1 DEF Record
<1>3. LET y == [p EXCEPT !.review = TRUE] IN y.review /\ y.evidence
  BY <1>1 DEF Record
<1>7. LET y == ReviewedPublished(x) IN
      /\ y \in Record /\ y.status = "published"
      /\ y.lease = x.lease /\ y.token = x.token
      /\ y.review /\ y.evidence
  BY <1>2, <1>3 DEF ReviewedPublished, p
<1> DEFINE r == [x EXCEPT !.status = "failed_before_publish", !.stage = "idle"]
           y == [r EXCEPT !.evidence = FALSE, !.reviewed = TRUE, !.interrupted = FALSE,
                          !.review = TRUE]
<1>4. /\ r \in Record /\ r.status = "failed_before_publish"
      /\ r.lease = x.lease /\ r.token = x.token
  BY ZenonT(60) DEF Record, Statuses, Stages
<1> HIDE DEF r
<1>5. y \in Record /\ y.status = r.status /\ y.lease = r.lease /\ y.token = r.token
  BY <1>4, ZenonT(60) DEF Record
<1> HIDE DEF y
<1>6. /\ y \in Record /\ y.status = "failed_before_publish"
      /\ y.lease = x.lease /\ y.token = x.token
  BY <1>4, <1>5
<1>8. ReviewedNotPublished(x) = y
  BY DEF ReviewedNotPublished, r, y
<1> QED BY <1>6, <1>7, <1>8

\* What recovery writes of a record that it found, whatever the copy.
LEMMA RecoveryFacts ==
  ASSUME NEW x \in Record, x.status \in Active \cup {"uncertain", "ready"}
  PROVE  RecoveryOf(x) \in Record
<1>1. CASE x.status \in Active
  <2>1. RecoveryOf(x) = Recovered(x)
    BY <1>1 DEF RecoveryOf, Active
  <2> QED BY <2>1, RecoveredFacts
<1>2. CASE x.status = "uncertain"
  BY <1>2, PublishedFacts DEF RecoveryOf, Active
<1>3. CASE x.status = "ready"
  <2>1. RecoveryOf(x) = [PreparedAgain(x) EXCEPT !.lastActive = FALSE]
    BY <1>3 DEF RecoveryOf, Active
  <2> QED BY <2>1, AgainFacts
<1> QED BY <1>1, <1>2, <1>3

-----------------------------------------------------------------------------
(* Each step preserves the first invariant *)

\* What a step does to the pending save: nothing, or it ends it, or what is pending
\* then was allowed.
Pends ==
  \/ slow' = slow
  \/ slow' = [slow EXCEPT !.job = Free]
  \/ /\ slow' \in [job : Unlocked \cup {Free}, lost : SUBSET Executions]
     /\ PendingAllowed'

\* What a step has to show when no attempt begins.
LEMMA AStep ==
  ASSUME AInv,
         queue' \in [Executions -> Record],
         att' \in [Attempts -> Attempt \cup {Unused}], \A b \in Attempts : Goes(b),
         owner' \in [Profiles -> Holder \cup {Free}],
         \A b \in Attempts : Runs(b)' =>
            owner'[ProfileOf[att[b].exec]] = owner[ProfileOf[att[b].exec]],
         Pends,
         clicks' \in [Executions -> Nat], crashes' \in 0..MaxCrashes
  PROVE  AInv'
<1>1. slow' \in [job : Unlocked \cup {Free}, lost : SUBSET Executions] /\ PendingAllowed'
  <2>1. CASE slow' = slow
    BY <2>1 DEF AInv, TypeOK, PendingAllowed
  <2>2. CASE slow' = [slow EXCEPT !.job = Free]
    BY <2>2 DEF AInv, TypeOK, PendingAllowed
  <2> QED BY <2>1, <2>2 DEF Pends
<1>2. TypeOK'
  BY <1>1 DEF TypeOK
<1>3. TasksLead' /\ WorkersTell' /\ RunnersOwn'
  BY AttemptsGoOn
<1> QED BY <1>1, <1>2, <1>3 DEF AInv

LEMMA AttemptsStay ==
  ASSUME AInv, att' = att
  PROVE  att' \in [Attempts -> Attempt \cup {Unused}] /\ \A b \in Attempts : Goes(b) /\ Silent(b)
<1>1. ASSUME NEW b \in Attempts, Used(b)
      PROVE  att[b] \in Attempt /\ Told(att[b]) /\ Led(att[b])
  BY <1>1 DEF AInv, TypeOK, TasksLead, WorkersTell, Used
<1>2. ASSUME NEW b \in Attempts
      PROVE  Goes(b) /\ Silent(b)
  BY <1>1 DEF Goes, Silent, Used, Runs
<1> QED BY <1>2 DEF AInv, TypeOK

LEMMA UpdateTypes ==
  ASSUME AInv, NEW e \in Executions, NEW x \in Record, Update(e, x)
  PROVE  /\ queue' \in [Executions -> Record]
         /\ queue'[e] = x /\ \A f \in Executions \ {e} : queue'[f] = queue[f]
BY DEF AInv, TypeOK, Update

\* An attempt that no longer runs releases its container: nobody else loses one.
LEMMA ReleasedFacts ==
  ASSUME AInv, NEW a \in Attempts, Used(a), ~Runs(a)', \A b \in Attempts : Goes(b),
         owner' = Freed(a) \/ (Owns(a) /\ owner' = CleanupFailed(a))
  PROVE  /\ owner' \in [Profiles -> Holder \cup {Free}]
         /\ \A b \in Attempts : Runs(b)' =>
              owner'[ProfileOf[att[b].exec]] = owner[ProfileOf[att[b].exec]]
<1> DEFINE p == ProfileOf[att[a].exec]
<1>1. p \in Profiles /\ owner \in [Profiles -> Holder \cup {Free}]
  BY AttemptFields DEF AInv, TypeOK, Used
<1>2. Owns(a) => owner[p] \in Holder
  BY <1>1 DEF Owns, Owner
<1>3. \/ owner' = owner
      \/ Owns(a) /\ owner' = [owner EXCEPT ![p] = Free]
      \/ Owns(a) /\ owner' = [owner EXCEPT ![p].state = "closing"]
  BY DEF Freed, CleanupFailed
<1>4. owner' \in [Profiles -> Holder \cup {Free}]
  BY <1>1, <1>2, <1>3 DEF Holder
<1>5. ASSUME NEW b \in Attempts, Runs(b)'
      PROVE  owner'[ProfileOf[att[b].exec]] = owner[ProfileOf[att[b].exec]]
  <2>1. Runs(b) /\ Used(b) /\ b # a
    BY <1>5 DEF Goes, Runs
  <2>2. Owns(b) /\ ProfileOf[att[b].exec] \in Profiles
    BY <2>1, AttemptFields DEF AInv, TypeOK, RunnersOwn, Used
  <2>3. CASE ProfileOf[att[b].exec] = p
    <3>1. ~Owns(a)
      BY <2>1, <2>2, <2>3 DEF Owns, Owner
    <3> QED BY <1>3, <3>1
  <2>4. CASE ProfileOf[att[b].exec] # p
    BY <1>1, <1>3, <2>2, <2>4
  <2> QED BY <2>3, <2>4
<1> QED BY <1>4, <1>5

LEMMA AStartupFails ==
  ASSUME AInv, NEW a \in Attempts, StartupFails(a)
  PROVE  AInv' /\ (\A b \in Attempts : Goes(b) /\ Silent(b)) /\ ~Runs(a)'
<1>1. /\ Used(a) /\ att[a].task = "starting" /\ GoTo(a, "closing")
      /\ UNCHANGED <<owner, slow, clicks, crashes>>
  BY DEF StartupFails, InTask
<1>2. att[a].worker = "none" /\ att[a].exec \in Executions
  BY <1>1, AttemptFields DEF AInv, TypeOK, TasksLead, Led, Used
<1>3. /\ att' \in [Attempts -> Attempt \cup {Unused}]
      /\ \A b \in Attempts : Goes(b) /\ Silent(b)
      /\ att'[a].task = "closing" /\ att'[a].worker = "none"
  BY <1>1, <1>2, TaskGoes DEF Tasks
<1>4. queue' \in [Executions -> Record]
  BY <1>1, <1>2, FailedBeforeFacts, UpdateTypes DEF StartupFails, AInv, TypeOK
<1>5. AInv'
  BY <1>1, <1>3, <1>4, AStep DEF AInv, TypeOK, Pends
<1> QED BY <1>3, <1>5 DEF Runs

LEMMA ASpawn ==
  ASSUME AInv, NEW a \in Attempts, Spawn(a)
  PROVE  AInv' /\ \A b \in Attempts : Goes(b) /\ Silent(b)
<1>1. /\ Used(a) /\ att[a].task = "starting" /\ Runs(a)
      /\ UNCHANGED <<queue, owner, slow, clicks, crashes>>
  BY DEF Spawn, InTask, Runs
<1>2. att[a].worker = "none"
  BY <1>1 DEF AInv, TasksLead, Led
<1>3. /\ att' \in [Attempts -> Attempt \cup {Unused}]
      /\ \A b \in Attempts : Goes(b) /\ Silent(b)
  BY <1>1, <1>2, TaskGoes, TaskAndWorkerGo DEF Spawn, Tasks
<1>4. AInv'
  BY <1>1, <1>3, AStep DEF AInv, TypeOK, Pends
<1> QED BY <1>3, <1>4

\* Steps of the worker, and its end.
LEMMA AWorker ==
  ASSUME AInv, NEW a \in Attempts,
         Kill(a) \/ Finalize(a) \/ Report(a) \/ OrphanFinalizes(a)
  PROVE  AInv' /\ \A b \in Attempts : Goes(b) /\ Silent(b)
<1>1. UNCHANGED <<queue, owner, slow, clicks, crashes>>
  BY DEF Kill, Finalize, Report, Exits, OrphanFinalizes
<1>2. /\ att' \in [Attempts -> Attempt \cup {Unused}]
      /\ \A b \in Attempts : Goes(b) /\ Silent(b)
  BY KillGoes, FinalizeGoes, ReportGoes, OrphanGoes
<1>3. AInv'
  BY <1>1, <1>2, AStep DEF AInv, TypeOK, Pends
<1> QED BY <1>2, <1>3

LEMMA APrints ==
  ASSUME AInv, NEW a \in Attempts, Advance(a) \/ Conclude(a) \/ Drain(a)
  PROVE  AInv'
<1>1. UNCHANGED <<owner, slow, clicks, crashes>>
  BY DEF Advance, Conclude, Drain
<1>2. /\ att' \in [Attempts -> Attempt \cup {Unused}]
      /\ queue' \in [Executions -> Record]
      /\ \A b \in Attempts : Goes(b)
  BY AdvanceGoes, ConcludeGoes, DrainGoes
<1> QED BY <1>1, <1>2, AStep DEF AInv, TypeOK, Pends

LEMMA AClick ==
  ASSUME AInv, NEW a \in Attempts, Click(a)
  PROVE  AInv'
<1>1. /\ UNCHANGED <<queue, owner, slow, crashes>>
      /\ clicks' = [clicks EXCEPT ![att[a].exec] = @ + 1]
  BY DEF Click
<1>2. att[a].exec \in Executions
  BY AttemptFields DEF Click, Alive, AInv, TypeOK, Used
<1>3. clicks' \in [Executions -> Nat]
  <2> DEFINE n == clicks[att[a].exec] + 1
  <2>1. clicks \in [Executions -> Nat]
    BY DEF AInv, TypeOK
  <2>2. n \in Nat
    <3>1. ASSUME NEW k \in Nat PROVE k + 1 \in Nat
      OBVIOUS
    <3>2. clicks[att[a].exec] \in Nat
      BY <1>2, <2>1
    <3> QED BY <3>1, <3>2
  <2>3. clicks' = [clicks EXCEPT ![att[a].exec] = n]
    BY <1>1, <2>1
  <2> HIDE DEF n
  <2> QED BY <2>1, <2>2, <2>3
<1>4. /\ att' \in [Attempts -> Attempt \cup {Unused}]
      /\ \A b \in Attempts : Goes(b)
  BY ClickGoes
<1> QED BY <1>1, <1>3, <1>4, AStep DEF AInv, TypeOK, Pends

LEMMA AFinish ==
  ASSUME AInv, NEW a \in Attempts, Finish(a)
  PROVE  AInv' /\ (\A b \in Attempts : Goes(b) /\ Silent(b)) /\ ~Runs(a)'
<1>1. /\ Used(a) /\ att[a].worker = "dead" /\ att[a].kind = "publisher"
      /\ UNCHANGED <<owner, slow, clicks, crashes>>
      /\ GoTo(a, "closing") \/ GoTo(a, "cleaning")
  BY DEF Finish, Ended, InTask
<1>2. att[a].exec \in Executions /\ queue[att[a].exec] \in Record
  BY <1>1, AttemptFields DEF AInv, TypeOK, Used
<1>3. /\ att' \in [Attempts -> Attempt \cup {Unused}]
      /\ \A b \in Attempts : Goes(b) /\ Silent(b)
      /\ att'[a].task \in {"closing", "cleaning"} /\ att'[a].worker = "dead"
  BY <1>1, TaskGoes DEF Tasks
<1>4. queue' \in [Executions -> Record]
  BY <1>1, <1>2, ResultFacts, UpdateTypes DEF Finish, AInv, TypeOK
<1>5. AInv'
  BY <1>1, <1>3, <1>4, AStep DEF AInv, TypeOK, Pends
<1> QED BY <1>3, <1>5 DEF Runs

LEMMA AClean ==
  ASSUME AInv, NEW a \in Attempts, Clean(a)
  PROVE  AInv' /\ (\A b \in Attempts : Goes(b) /\ Silent(b))
<1>1. /\ Used(a) /\ att[a].task = "cleaning" /\ GoTo(a, "over")
      /\ UNCHANGED <<slow, clicks, crashes>>
      /\ owner' = Freed(a) \/ (Owns(a) /\ owner' = CleanupFailed(a))
      /\ queue' = queue \/ queue' = [queue EXCEPT ![att[a].exec].held = FALSE]
  BY DEF Clean, InTask
<1>2. att[a].exec \in Executions /\ queue[att[a].exec] \in Record /\ att[a].worker # "alive"
  BY <1>1, AttemptFields DEF AInv, TypeOK, Used, TasksLead, Led
<1>3. /\ att' \in [Attempts -> Attempt \cup {Unused}]
      /\ \A b \in Attempts : Goes(b) /\ Silent(b)
      /\ att'[a].task = "over" /\ att'[a].worker = att[a].worker
  BY <1>1, <1>2, TaskGoes DEF Tasks
<1>4. queue' \in [Executions -> Record]
  <2> DEFINE y == [queue[att[a].exec] EXCEPT !.held = FALSE]
  <2>1. y \in Record
    BY <1>2 DEF Record
  <2>2. queue' = queue \/ queue' = [queue EXCEPT ![att[a].exec] = y]
    BY <1>1
  <2> HIDE DEF y
  <2> QED BY <2>1, <2>2 DEF AInv, TypeOK
<1>5. ~Runs(a)'
  BY <1>2, <1>3 DEF Runs
<1>6. /\ owner' \in [Profiles -> Holder \cup {Free}]
      /\ \A b \in Attempts : Runs(b)' =>
           owner'[ProfileOf[att[b].exec]] = owner[ProfileOf[att[b].exec]]
  BY <1>1, <1>3, <1>5, ReleasedFacts
<1>7. AInv'
  BY <1>1, <1>3, <1>4, <1>6, AStep DEF AInv, TypeOK, Pends
<1> QED BY <1>3, <1>7

\* Who closes, or was cancelled, takes the worker with it.
LEMMA TaskCloses ==
  ASSUME AInv, NEW a \in Attempts, Close(a) \/ CancelledTaskEnds(a),
         queue' \in [Executions -> Record]
  PROVE  AInv' /\ (\A b \in Attempts : Goes(b) /\ Silent(b)) /\ ~Runs(a)'
<1>1. /\ Used(a) /\ att[a].task \in {"closing", "cancelled"}
      /\ UNCHANGED <<slow, clicks, crashes>>
      /\ owner' = Freed(a) \/ (Owns(a) /\ owner' = CleanupFailed(a))
      /\ att' = [att EXCEPT ![a].task = "over",
                            ![a].worker = IF @ = "alive" THEN "dead" ELSE @]
  BY DEF Close, CancelledTaskEnds, InTask, Released
<1>2. att[a] \in Attempt
  BY <1>1 DEF AInv, TypeOK, Used
<1> DEFINE k == IF att[a].worker = "alive" THEN "dead" ELSE att[a].worker
<1>3. k \in {"none", "orphan", "dead"}
  BY <1>2 DEF Attempt
<1>4. att' = [att EXCEPT ![a].task = "over", ![a].worker = k]
  BY <1>1, <1>2, SMTT(30) DEF AInv, TypeOK, Attempt
<1> HIDE DEF k
<1>5. /\ att' \in [Attempts -> Attempt \cup {Unused}]
      /\ \A b \in Attempts : Goes(b) /\ Silent(b)
      /\ att'[a].task = "over" /\ att'[a].worker = k
  BY <1>1, <1>3, <1>4, TaskAndWorkerGo DEF Tasks
<1>6. ~Runs(a)'
  BY <1>3, <1>5 DEF Runs
<1>7. /\ owner' \in [Profiles -> Holder \cup {Free}]
      /\ \A b \in Attempts : Runs(b)' =>
           owner'[ProfileOf[att[b].exec]] = owner[ProfileOf[att[b].exec]]
  BY <1>1, <1>5, <1>6, ReleasedFacts
<1>8. AInv'
  BY <1>1, <1>5, <1>7, AStep DEF AInv, TypeOK, Pends
<1> QED BY <1>5, <1>6, <1>8

LEMMA AClose ==
  ASSUME AInv, NEW a \in Attempts, Close(a)
  PROVE  AInv' /\ (\A b \in Attempts : Goes(b) /\ Silent(b)) /\ ~Runs(a)'
<1>1. queue' \in [Executions -> Record]
  BY DEF Close, AInv, TypeOK
<1> QED BY <1>1, TaskCloses

LEMMA ACancelledTaskEnds ==
  ASSUME AInv, NEW a \in Attempts, CancelledTaskEnds(a)
  PROVE  AInv' /\ (\A b \in Attempts : Goes(b) /\ Silent(b)) /\ ~Runs(a)'
<1> DEFINE e == att[a].exec
           y == Unleased(CancelledAs(queue[e]))
<1>1. e \in Executions /\ queue[e] \in Record
  BY AttemptFields DEF CancelledTaskEnds, InTask, AInv, TypeOK, Used
<1>2. y \in Record
  BY <1>1, CancelledFacts, UnleasedFacts
<1>3. queue' = queue \/ queue' = [queue EXCEPT ![e] = y]
  BY DEF CancelledTaskEnds, CancellationOf
<1> HIDE DEF y
<1>4. queue' \in [Executions -> Record]
  BY <1>2, <1>3 DEF AInv, TypeOK
<1> QED BY <1>4, TaskCloses

\* What the end of a preparation writes.
LEMMA PrepFinishFacts ==
  ASSUME AInv, NEW a \in Attempts, PrepFinish(a)
  PROVE  LET e == att[a].exec  x == queue[e] IN
         \/ queue' = queue /\ Fenced(a) /\ GoTo(a, "closing")
         \/ /\ ~Fenced(a)
            /\ \E y \in Record :
                 /\ Update(e, y) /\ y.lease = None /\ y.token = x.token
                 /\ y.evidence = x.evidence
                 /\ \/ y.status = "ready" /\ GoTo(a, "handover")
                    \/ /\ y.status \in {"failed_before_publish", "uncertain"}
                       /\ GoTo(a, "closing")
<1> DEFINE e == att[a].exec
           x == queue[e]
           r == Unleased([x EXCEPT !.status = "ready", !.stage = "idle", !.prep = "ready"])
           i == Unleased(Interrupted(x))
           f == FailedBefore(a)
<1>1. Used(a) /\ x \in Record
  BY AttemptFields DEF PrepFinish, Ended, InTask, AInv, TypeOK, Used
<1>2. /\ r \in Record /\ r.status = "ready" /\ r.lease = None
      /\ r.token = x.token /\ r.evidence = x.evidence
  BY <1>1, ReadyFacts
<1>3. /\ i \in Record /\ i.status \in {"failed_before_publish", "uncertain"}
      /\ i.lease = None /\ i.token = x.token /\ i.evidence = x.evidence
  BY <1>1, InterruptedFacts, UnleasedFacts
<1>4. /\ f \in Record /\ f.status = "failed_before_publish"
      /\ f.lease = None /\ f.token = x.token /\ f.evidence = x.evidence
  BY <1>1, FailedBeforeFacts
<1>5. \/ ~Fenced(a) /\ Update(e, r) /\ GoTo(a, "handover")
      \/ Fenced(a) /\ queue' = queue /\ GoTo(a, "closing")
      \/ ~Fenced(a) /\ (Update(e, i) \/ Update(e, f)) /\ GoTo(a, "closing")
  BY DEF PrepFinish, Update
<1> HIDE DEF r, i, f
<1> QED BY <1>2, <1>3, <1>4, <1>5

LEMMA APrepFinish ==
  ASSUME AInv, NEW a \in Attempts, PrepFinish(a)
  PROVE  AInv' /\ (\A b \in Attempts : Goes(b) /\ Silent(b)) /\ ~Runs(a)'
<1>1. /\ Used(a) /\ att[a].worker = "dead"
      /\ UNCHANGED <<owner, slow, clicks, crashes>>
      /\ GoTo(a, "closing") \/ GoTo(a, "handover")
  BY DEF PrepFinish, Ended, InTask
<1>2. /\ att' \in [Attempts -> Attempt \cup {Unused}]
      /\ \A b \in Attempts : Goes(b) /\ Silent(b)
      /\ att'[a].task \in {"closing", "handover"} /\ att'[a].worker = "dead"
  BY <1>1, TaskGoes DEF Tasks
<1>3. queue' \in [Executions -> Record]
  BY PrepFinishFacts DEF Update, AInv, TypeOK
<1>4. AInv'
  BY <1>1, <1>2, <1>3, AStep DEF AInv, TypeOK, Pends
<1> QED BY <1>2, <1>4 DEF Runs

\* Only what the task of an attempt itself holds becomes a handoff.
LEMMA AHandover ==
  ASSUME AInv, NEW a \in Attempts, Handover(a)
  PROVE  AInv' /\ (\A b \in Attempts : Goes(b) /\ Silent(b))
<1> DEFINE p == ProfileOf[att[a].exec]
<1>1. /\ Used(a) /\ att[a].task = "handover"
      /\ GoTo(a, "over") \/ GoTo(a, "closing")
      /\ UNCHANGED <<queue, slow, clicks, crashes>>
      /\ \/ owner' = owner
         \/ Owns(a) /\ owner' = [owner EXCEPT ![p].state = "handoff"]
  BY DEF Handover, InTask
<1>2. att[a].worker # "alive" /\ p \in Profiles /\ owner \in [Profiles -> Holder \cup {Free}]
  BY <1>1, AttemptFields DEF AInv, TypeOK, Used, TasksLead, Led
<1>3. /\ att' \in [Attempts -> Attempt \cup {Unused}]
      /\ \A b \in Attempts : Goes(b) /\ Silent(b)
      /\ att'[a].task \in {"over", "closing"} /\ att'[a].worker = att[a].worker
  BY <1>1, <1>2, TaskGoes DEF Tasks
<1>4. Owns(a) => owner[p] \in Holder
  BY <1>2 DEF Owns, Owner
<1>5. owner' \in [Profiles -> Holder \cup {Free}]
  BY <1>1, <1>2, <1>4 DEF Holder
<1>6. ASSUME NEW b \in Attempts, Runs(b)'
      PROVE  owner'[ProfileOf[att[b].exec]] = owner[ProfileOf[att[b].exec]]
  <2>1. b # a /\ Runs(b) /\ Used(b)
    BY <1>2, <1>3, <1>6 DEF Runs, Goes
  <2>2. Owns(b) /\ ProfileOf[att[b].exec] \in Profiles
    BY <2>1, AttemptFields DEF AInv, TypeOK, RunnersOwn, Used
  <2>3. Owns(a) => ProfileOf[att[b].exec] # p
    BY <2>1, <2>2 DEF Owns, Owner
  <2> QED BY <1>1, <1>2, <2>2, <2>3
<1>7. AInv'
  BY <1>1, <1>3, <1>5, <1>6, AStep DEF AInv, TypeOK, Pends
<1> QED BY <1>3, <1>7

-----------------------------------------------------------------------------
(* Recovery and the operator write the queue and leave the attempts alone *)

LEMMA AQueue ==
  ASSUME AInv, UNCHANGED <<att, owner, crashes>>,
         queue' \in [Executions -> Record], clicks' \in [Executions -> Nat], Pends
  PROVE  AInv'
<1>1. /\ att' \in [Attempts -> Attempt \cup {Unused}]
      /\ \A b \in Attempts : Goes(b)
  BY AttemptsStay
<1> QED BY <1>1, AStep DEF AInv, TypeOK, Pends

LEMMA ARecovery ==
  ASSUME AInv, NEW e \in Executions, Recovery(e)
  PROVE  AInv'
<1>1. UNCHANGED <<att, owner, slow, clicks, crashes>> /\ queue[e] \in Record
  BY DEF Recovery, RecoverStale, RecoverUncertain, RecoverReady, NetworkRetry, AInv, TypeOK
<1>2. CASE RecoverStale(e) \/ RecoverUncertain(e) \/ RecoverReady(e)
  <2>1. Update(e, RecoveryOf(queue[e])) /\ RecoveryOf(queue[e]) \in Record
    BY <1>1, <1>2, RecoveryFacts
       DEF RecoverStale, RecoverUncertain, RecoverReady, Stale, TurnedUp, Unprepared
  <2> QED BY <1>1, <2>1, UpdateTypes, AQueue DEF AInv, TypeOK, Pends
<1>3. CASE NetworkRetry(e)
  <2> DEFINE y == [PreparedAgain(queue[e]) EXCEPT !.evidence = FALSE, !.reviewed = FALSE,
                     !.lastActive = FALSE, !.review = FALSE, !.claim = None]
  <2>1. Update(e, y)
    BY <1>3, SMTT(30) DEF NetworkRetry
  <2>2. y \in Record
    BY <1>1, AgainFacts
  <2> QED BY <1>1, <2>1, <2>2, UpdateTypes, AQueue DEF AInv, TypeOK, Pends
<1> QED BY <1>2, <1>3 DEF Recovery

LEMMA AOperator ==
  ASSUME AInv, NEW e \in Executions, Operator(e)
  PROVE  AInv'
<1>1. UNCHANGED <<att, owner, slow, crashes>> /\ queue[e] \in Record
  BY DEF Operator, RunNow, RunNowCancelled, ResolvePublished,
         ResolveNotPublished, AInv, TypeOK
<1>2. clicks' \in [Executions -> Nat]
  BY DEF Operator, RunNow, RunNowCancelled, ResolvePublished,
         ResolveNotPublished, AInv, TypeOK
<1>3. CASE RunNow(e)
  BY <1>1, <1>2, <1>3, RunNowFacts, UpdateTypes, AQueue DEF RunNow, Pends
<1>4. CASE RunNowCancelled(e)
  <2>1. [PreparedAgain(queue[e]) EXCEPT !.claim = ManualRetry, !.held = FALSE,
                                        !.cancelAsked = FALSE] \in Record
    BY <1>1, AgainFacts
  <2> QED BY <1>1, <1>2, <1>4, <2>1, UpdateTypes, AQueue, SMTT(30) DEF RunNowCancelled, Pends
<1>5. CASE ResolvePublished(e) \/ ResolveNotPublished(e)
  BY <1>1, <1>2, <1>5, ResolvedFacts, UpdateTypes, AQueue
     DEF ResolvePublished, ResolveNotPublished, Pends
<1> QED BY <1>3, <1>4, <1>5 DEF Operator

\* What is read is the queue as it is, and run-now and the review look at the record
\* they are asked about.
LEMMA AUnlockedRead ==
  ASSUME AInv, UnlockedRead
  PROVE  AInv'
<1>1. PICK kind \in {"run_now", "review", "sweep"}, e \in Executions \cup {None} :
        /\ UnlockedReads(kind, e)
        /\ kind # "sweep" => e \in Executions
        /\ kind = "run_now" => ManualRetryOf(queue[e])
        /\ kind = "review" => queue[e].status = "uncertain"
  BY DEF UnlockedRead, SweepReads, RunNowReads, ReviewReads
<1> DEFINE job == [kind |-> kind, exec |-> e, copy |-> queue]
<1>2. slow' = [slow EXCEPT !.job = job] /\ UNCHANGED <<queue, att, owner, clicks, crashes>>
  BY <1>1 DEF UnlockedReads
<1>3. job \in Unlocked
  BY DEF Unlocked, AInv, TypeOK
<1>4. job.kind = kind /\ job.exec = e /\ job.copy = queue
  OBVIOUS
<1> HIDE DEF job
<1>5. slow' \in [job : Unlocked \cup {Free}, lost : SUBSET Executions] /\ slow'.job = job
  BY <1>2, <1>3 DEF AInv, TypeOK
<1>6. PendingAllowed'
  BY <1>1, <1>4, <1>5 DEF PendingAllowed
<1> QED BY <1>2, <1>5, <1>6, AQueue DEF AInv, TypeOK, Pends

\* The copy that is saved is a queue, with the records that the writer changes.
LEMMA SavesFacts ==
  ASSUME AInv, slow.job # Free, NEW q \in [Executions -> Record], Saves(q),
         clicks' \in [Executions -> Nat]
  PROVE  AInv'
<1>1. /\ slow' = [job |-> Free,
                  lost |-> slow.lost \cup {e \in Executions : slow.job.copy[e] # queue[e]}]
      /\ queue' = q /\ UNCHANGED <<att, owner, crashes>>
  BY DEF Saves
<1>2. slow.lost \subseteq Executions
  BY DEF AInv, TypeOK
<1>3. slow' \in [job : Unlocked \cup {Free}, lost : SUBSET Executions] /\ slow'.job = Free
  BY <1>1, <1>2
<1>4. PendingAllowed'
  BY <1>3 DEF PendingAllowed
<1> QED BY <1>1, <1>3, <1>4, AQueue DEF Pends

LEMMA JobFacts ==
  ASSUME AInv, slow.job # Free
  PROVE  /\ slow.job \in Unlocked /\ slow.job.copy \in [Executions -> Record]
         /\ slow.job.kind \in {"run_now", "review", "sweep"}
<1>1. slow.job \in Unlocked
  BY DEF AInv, TypeOK
<1> QED BY <1>1 DEF Unlocked

LEMMA AUnlockedSave ==
  ASSUME AInv, UnlockedSave
  PROVE  AInv'
<1> DEFINE e == slow.job.exec
           copy == slow.job.copy
<1>1. clicks \in [Executions -> Nat]
  BY DEF AInv, TypeOK
<1>2. slow.job # Free /\ copy \in [Executions -> Record]
  BY JobFacts DEF UnlockedSave, RunNowSaves, ReviewSaves, SweepSaves, NothingSaved
<1>3. slow.job.kind # "sweep" => e \in Executions /\ copy[e] \in Record
  BY <1>2 DEF AInv, PendingAllowed
<1> HIDE DEF copy
<1>4. CASE RunNowSaves
  <2>1. [copy EXCEPT ![e] = RunNowRecord(@)] \in [Executions -> Record]
    BY <1>2, <1>3, <1>4, RunNowFacts DEF RunNowSaves
  <2>2. Saves([copy EXCEPT ![e] = RunNowRecord(@)]) /\ clicks' \in [Executions -> Nat]
    BY <1>1, <1>4 DEF RunNowSaves, copy
  <2> QED BY <1>2, <2>1, <2>2, SavesFacts
<1>5. CASE ReviewSaves
  <2>1. /\ [copy EXCEPT ![e] = ReviewedPublished(@)] \in [Executions -> Record]
        /\ [copy EXCEPT ![e] = ReviewedNotPublished(@)] \in [Executions -> Record]
    BY <1>2, <1>3, <1>5, ResolvedFacts DEF ReviewSaves
  <2>2. /\ \/ Saves([copy EXCEPT ![e] = ReviewedPublished(@)])
           \/ Saves([copy EXCEPT ![e] = ReviewedNotPublished(@)])
        /\ clicks' \in [Executions -> Nat]
    BY <1>1, <1>5 DEF ReviewSaves, copy
  <2> QED BY <1>2, <2>1, <2>2, SavesFacts
<1>6. CASE SweepSaves
  <2>1. PICK found \in SUBSET {f \in Executions :
                 Stale(copy[f]) \/ TurnedUp(copy[f]) \/ Unprepared(f, copy[f])} :
          Saves([f \in Executions |-> IF f \in found THEN RecoveryOf(copy[f]) ELSE copy[f]])
    BY <1>6 DEF SweepSaves, copy
  <2>2. ASSUME NEW f \in found
        PROVE  RecoveryOf(copy[f]) \in Record
    BY <1>2, RecoveryFacts DEF Stale, TurnedUp, Unprepared
  <2>3. [f \in Executions |-> IF f \in found THEN RecoveryOf(copy[f]) ELSE copy[f]]
          \in [Executions -> Record]
    BY <1>2, <2>2
  <2>4. clicks' = clicks
    BY <1>6 DEF SweepSaves
  <2> QED BY <1>1, <1>2, <2>1, <2>3, <2>4, SavesFacts
<1>7. CASE NothingSaved
  BY <1>7, AQueue DEF NothingSaved, AInv, TypeOK, Pends
<1> QED BY <1>4, <1>5, <1>6, <1>7 DEF UnlockedSave

LEMMA ARerun ==
  ASSUME AInv, Rerun
  PROVE  AInv'
<1>1. UNCHANGED <<att, owner, slow, clicks, crashes>>
  BY DEF Rerun
<1>2. ASSUME NEW e \in Executions
      PROVE  [PreparedAgain(queue[e]) EXCEPT !.held = FALSE, !.cancelAsked = FALSE] \in Record
  <2>1. queue[e] \in Record
    BY DEF AInv, TypeOK
  <2> QED BY <2>1, AgainFacts
<1>3. queue' \in [Executions -> Record]
  BY <1>2 DEF Rerun, AInv, TypeOK
<1> QED BY <1>1, <1>3, AQueue DEF AInv, TypeOK, Pends

\* The sweeps free only what nobody runs in.
LEMMA AOwner ==
  ASSUME AInv, NEW p \in Profiles, OwnerFreed(p) \/ HandoffLapses(p)
  PROVE  AInv'
<1>1. /\ owner[p].state \in {"closing", "handoff"}
      /\ owner' = [owner EXCEPT ![p] = Free] \/ owner' = [owner EXCEPT ![p].state = "closing"]
      /\ UNCHANGED <<queue, att, slow, clicks, crashes>>
  BY DEF OwnerFreed, HandoffLapses
<1>2. owner \in [Profiles -> Holder \cup {Free}] /\ owner[p] \in Holder
  BY <1>1 DEF AInv, TypeOK, Free
<1>3. owner' \in [Profiles -> Holder \cup {Free}]
  BY <1>1, <1>2 DEF Holder
<1>4. att' \in [Attempts -> Attempt \cup {Unused}] /\ \A b \in Attempts : Goes(b)
  BY <1>1, AttemptsStay
<1>5. ASSUME NEW b \in Attempts, Runs(b)'
      PROVE  owner'[ProfileOf[att[b].exec]] = owner[ProfileOf[att[b].exec]]
  <2>1. Runs(b)
    BY <1>4, <1>5 DEF Goes
  <2>2. Owner(b).state = "active" /\ ProfileOf[att[b].exec] \in Profiles
    BY <2>1, AttemptFields DEF AInv, TypeOK, RunnersOwn, Used, Runs
  <2>3. ProfileOf[att[b].exec] # p
    BY <1>1, <2>2 DEF Owner
  <2> QED BY <1>1, <1>2, <2>2, <2>3
<1> QED BY <1>1, <1>3, <1>4, <1>5, AStep DEF AInv, TypeOK, Pends

-----------------------------------------------------------------------------
(* A claim, the cancellation of everything, and a crash *)

\* What a claim writes into the record ...
LEMMA ClaimWrites ==
  ASSUME AInv, NEW a \in Attempts, NEW e \in Executions, Claim(a, e)
  PROVE  \E y \in Record :
           /\ Update(e, y) /\ y.status \in Active /\ y.lease = a /\ y.token = a
<1> DEFINE x == queue[e]
           kind == IF x.prep = "pending" THEN "preparer" ELSE "publisher"
           st == IF kind = "preparer" THEN "preparing" ELSE "running"
           sg == IF kind = "preparer" THEN "composing" ELSE "running"
           y == [x EXCEPT !.status = st, !.stage = sg, !.interrupted = FALSE,
                          !.claim = a, !.lease = a, !.token = a, !.held = TRUE]
<1>1. x \in Record
  BY DEF AInv, TypeOK
<1>2. Update(e, y)
  BY DEF Claim
<1>3. st \in Active /\ st \in Statuses /\ sg \in Stages
  BY DEF Active, Statuses, Stages
<1> HIDE DEF kind, st, sg
<1>4. y \in Record
  BY <1>1, <1>3 DEF Record
<1>5. y.status = st /\ y.lease = a /\ y.token = a
  BY <1>1 DEF Record
<1> HIDE DEF y
<1> QED BY <1>2, <1>3, <1>4, <1>5

\* ... and where its attempt begins.
LEMMA ClaimBegins ==
  ASSUME AInv, NEW a \in Attempts, NEW e \in Executions, Claim(a, e)
  PROVE  \E w \in Attempt :
           /\ att' = [att EXCEPT ![a] = w]
           /\ w.exec = e /\ w.task = "starting" /\ w.worker = "none"
           /\ w.stage = "idle" /\ ~w.clicked /\ ~w.unread /\ Told(w) /\ Led(w)
<1> DEFINE kind == IF queue[e].prep = "pending" THEN "preparer" ELSE "publisher"
           w == [exec |-> e, kind |-> kind, task |-> "starting", worker |-> "none",
                 stage |-> "idle", unread |-> FALSE, clicked |-> FALSE,
                 outcome |-> "none", durable |-> FALSE, reported |-> FALSE]
<1>1. att' = [att EXCEPT ![a] = w] /\ kind \in {"preparer", "publisher"}
  BY DEF Claim
<1> HIDE DEF kind
<1>2. w \in Attempt
  BY <1>1 DEF Attempt, Tasks, Stages
<1>3. Told(w) /\ Led(w)
  BY DEF Told, Led
<1>4. /\ w.exec = e /\ w.task = "starting" /\ w.worker = "none"
      /\ w.stage = "idle" /\ ~w.clicked /\ ~w.unread
  OBVIOUS
<1> HIDE DEF w
<1> QED BY <1>1, <1>2, <1>3, <1>4

\* A claimed profile was free, or kept for this execution by a preparation that
\* is over: nobody was running in its container.
LEMMA ClaimedAlone ==
  ASSUME AInv, NEW a \in Attempts, NEW e \in Executions, Claim(a, e),
         NEW b \in Attempts, Runs(b)
  PROVE  b # a /\ ProfileOf[att[b].exec] # ProfileOf[e]
<1>1. Owns(b) /\ Owner(b).state = "active"
  BY DEF AInv, RunnersOwn
<1> QED BY <1>1 DEF Claim, ProfileAvailable, Owns, Owner, Runs

LEMMA AClaim ==
  ASSUME AInv, NEW a \in Attempts, NEW e \in Executions, Claim(a, e)
  PROVE  AInv'
<1> DEFINE h == [att |-> a, exec |-> e, state |-> "active"]
<1>1. PICK w \in Attempt :
        /\ att' = [att EXCEPT ![a] = w]
        /\ w.exec = e /\ w.task = "starting" /\ w.worker = "none"
        /\ w.stage = "idle" /\ ~w.clicked /\ ~w.unread /\ Told(w) /\ Led(w)
  BY ClaimBegins
<1>2. /\ owner' = [owner EXCEPT ![ProfileOf[e]] = h]
      /\ UNCHANGED <<slow, clicks, crashes>>
  BY DEF Claim
<1>3. queue' \in [Executions -> Record]
  BY ClaimWrites, UpdateTypes
<1>4. /\ att' \in [Attempts -> Attempt \cup {Unused}]
      /\ att'[a] = w /\ \A b \in Attempts \ {a} : att'[b] = att[b]
  BY <1>1 DEF AInv, TypeOK
<1>5. owner' \in [Profiles -> Holder \cup {Free}] /\ ProfileOf[e] \in Profiles
  BY <1>2 DEF AInv, TypeOK, Holder
<1>6. TypeOK'
  BY <1>2, <1>3, <1>4, <1>5 DEF AInv, TypeOK
<1>7. TasksLead' /\ WorkersTell'
  BY <1>1, <1>4 DEF AInv, TasksLead, WorkersTell, Used
<1>8. ASSUME NEW b \in Attempts, Runs(b)'
      PROVE  (Owns(b) /\ Owner(b).state = "active")'
  <2>1. CASE b = a
    <3>1. Owner(a)' = h
      BY <1>1, <1>2, <1>4, <1>5 DEF Owner, AInv, TypeOK
    <3>2. h.att = a /\ h.state = "active" /\ h # Free
      BY DEF Free
    <3> HIDE DEF h
    <3> QED BY <2>1, <3>1, <3>2 DEF Owns
  <2>2. CASE b # a
    <3>1. Runs(b) /\ att'[b] = att[b]
      BY <1>4, <1>8, <2>2 DEF Runs, Used
    <3>2. ProfileOf[att[b].exec] # ProfileOf[e] /\ Owns(b) /\ Owner(b).state = "active"
      BY <3>1, ClaimedAlone DEF AInv, RunnersOwn
    <3>3. Owner(b)' = Owner(b)
      BY <1>2, <3>1, <3>2, AttemptFields DEF Owner, AInv, TypeOK, Runs, Used
    <3> QED BY <3>2, <3>3 DEF Owns
  <2> QED BY <2>1, <2>2
<1>9. PendingAllowed'
  BY <1>2 DEF AInv, PendingAllowed
<1> QED BY <1>6, <1>7, <1>8, <1>9 DEF AInv, RunnersOwn

\* What a cancellation writes: only waiting posts change their status.
LEMMA CancelAllFacts ==
  ASSUME AInv, CancelAll, NEW e \in Executions
  PROVE  LET x == queue[e]  y == queue'[e] IN
         /\ y \in Record
         /\ y.status = IF x.status \in {"pending", "ready"} THEN "cancelled" ELSE x.status
         /\ y.lease = x.lease /\ y.token = x.token /\ y.evidence = x.evidence
         /\ y.interrupted = x.interrupted /\ y.review = x.review
<1>1. PICK c \in BOOLEAN, st \in Statuses, sg \in Stages :
        /\ queue'[e] = [queue[e] EXCEPT !.cancelAsked = c, !.status = st, !.stage = sg]
        /\ st = IF queue[e].status \in {"pending", "ready"} THEN "cancelled"
                ELSE queue[e].status
        /\ sg = IF queue[e].status \in {"pending", "ready"} THEN "idle"
                ELSE queue[e].stage
  <2>1. PICK recovering \in SUBSET Executions :
          LET waiting == {d \in Executions : queue[d].status \in {"pending", "ready"}}
              active == {d \in Executions : queue[d].status \in Active} IN
          queue'[e] = [queue[e] EXCEPT
            !.cancelAsked = queue[e].cancelAsked \/ e \in waiting \cup active \cup recovering,
            !.status = IF e \in waiting THEN "cancelled" ELSE queue[e].status,
            !.stage = IF e \in waiting THEN "idle" ELSE queue[e].stage]
    BY DEF CancelAll
  <2>2. queue[e].status \in Statuses /\ queue[e].stage \in Stages
    BY RecordFields DEF AInv, TypeOK
  <2> DEFINE c == queue[e].cancelAsked \/ \/ queue[e].status \in {"pending", "ready"} \cup Active
                                          \/ e \in recovering
             st == IF queue[e].status \in {"pending", "ready"} THEN "cancelled"
                   ELSE queue[e].status
             sg == IF queue[e].status \in {"pending", "ready"} THEN "idle"
                   ELSE queue[e].stage
  <2>3. queue'[e] = [queue[e] EXCEPT !.cancelAsked = c, !.status = st, !.stage = sg]
    BY <2>1
  <2>4. st \in Statuses /\ sg \in Stages /\ c \in BOOLEAN
    BY <2>2 DEF Statuses, Stages
  <2> HIDE DEF c
  <2> QED BY <2>3, <2>4
<1>2. queue[e] \in Record
  BY DEF AInv, TypeOK
<1>4. queue'[e] \in Record
  <2> DEFINE y == [queue[e] EXCEPT !.cancelAsked = c, !.status = st, !.stage = sg]
  <2>1. y \in Record
    BY <1>2 DEF Record
  <2>2. queue'[e] = y
    BY <1>1
  <2> HIDE DEF y
  <2> QED BY <2>1, <2>2
<1>5. queue'[e].status = st /\ queue'[e].lease = queue[e].lease
      /\ queue'[e].token = queue[e].token
  BY <1>1, <1>2 DEF Record
<1>6. /\ queue'[e].evidence = queue[e].evidence /\ queue'[e].review = queue[e].review
      /\ queue'[e].interrupted = queue[e].interrupted
  BY <1>1, <1>2 DEF Record
<1> QED BY <1>1, <1>4, <1>5, <1>6

LEMMA CancelAllGoes ==
  ASSUME AInv, CancelAll
  PROVE  /\ att' \in [Attempts -> Attempt \cup {Unused}]
         /\ \A b \in Attempts : Goes(b) /\ Silent(b)
<1>1. ASSUME NEW b \in Attempts
      PROVE  /\ att'[b] \in Attempt \cup {Unused}
             /\ Goes(b) /\ Silent(b)
  <2>1. CASE att'[b] = att[b]
    <3>1. Used(b) => att[b] \in Attempt /\ Told(att[b]) /\ Led(att[b])
      BY DEF AInv, TypeOK, TasksLead, WorkersTell, Used
    <3> QED BY <2>1, <3>1 DEF Goes, Silent, Used, Runs
  <2>2. CASE att'[b] # att[b]
    <3>1. PICK t \in {"closing", "cancelled"} :
            /\ att'[b] = [att[b] EXCEPT !.task = t]
            /\ t = "closing" => att[b].task \in {"cleaning", "closing"}
      BY <2>2 DEF CancelAll
    <3>2. Used(b)
      BY <2>2 DEF CancelAll, InTask
    <3>3. att[b] \in Attempt /\ Told(att[b]) /\ Led(att[b])
      BY <3>2 DEF AInv, TypeOK, TasksLead, WorkersTell, Used
    <3> DEFINE w == [att[b] EXCEPT !.task = t]
    <3>4. w \in Attempt /\ w.task = t /\ w.worker = att[b].worker /\ w.exec = att[b].exec
      BY <3>3 DEF Attempt, Tasks
    <3>5. w.kind = att[b].kind /\ w.stage = att[b].stage /\ w.outcome = att[b].outcome
      BY <3>3 DEF Attempt
    <3>6. w.unread = att[b].unread /\ w.clicked = att[b].clicked
      BY <3>3 DEF Attempt
    <3>7. w.durable = att[b].durable /\ w.reported = att[b].reported
      BY <3>3 DEF Attempt
    <3>8. att'[b] = w
      BY <3>1
    <3> HIDE DEF w
    <3>9. Told(w) /\ Led(w)
      BY <3>1, <3>3, <3>4, <3>5, <3>6, <3>7 DEF Told, Led
    <3>10. Goes(b)
      BY <3>1, <3>2, <3>4, <3>8, <3>9, AttemptFields DEF Goes, Used, Runs
    <3> QED BY <3>4, <3>5, <3>6, <3>8, <3>10 DEF Silent
  <2> QED BY <2>1, <2>2
<1>2. att' = [a \in Attempts |-> att'[a]]
  BY DEF CancelAll
<1> QED BY <1>1, <1>2

LEMMA ACancelAll ==
  ASSUME AInv, CancelAll
  PROVE  AInv'
<1>1. /\ att' \in [Attempts -> Attempt \cup {Unused}]
      /\ \A b \in Attempts : Goes(b)
  BY CancelAllGoes
<1>2. queue' = [e \in Executions |-> queue'[e]] /\ UNCHANGED <<slow, clicks, crashes>>
  BY DEF CancelAll
<1>3. queue' \in [Executions -> Record]
  BY <1>2, CancelAllFacts
<1>4. ASSUME NEW p \in Profiles
      PROVE  /\ owner'[p] \in Holder \cup {Free}
             /\ owner[p].state = "active" => owner'[p] = owner[p]
  <2>1. \/ owner'[p] = owner[p]
        \/ owner[p].state = "handoff" /\ owner'[p] = [owner[p] EXCEPT !.state = "closing"]
    BY DEF CancelAll
  <2>2. owner[p] \in Holder \cup {Free}
    BY DEF AInv, TypeOK
  <2>3. owner[p].state = "handoff" => owner[p] \in Holder
    BY <2>2 DEF Free
  <2> QED BY <2>1, <2>2, <2>3 DEF Holder
<1>5. owner' = [p \in Profiles |-> owner'[p]]
  BY DEF CancelAll
<1>6. owner' \in [Profiles -> Holder \cup {Free}]
  BY <1>4, <1>5
<1>7. ASSUME NEW b \in Attempts, Runs(b)'
      PROVE  owner'[ProfileOf[att[b].exec]] = owner[ProfileOf[att[b].exec]]
  <2>1. Runs(b)
    BY <1>1, <1>7 DEF Goes
  <2>2. Owner(b).state = "active" /\ ProfileOf[att[b].exec] \in Profiles
    BY <2>1, AttemptFields DEF AInv, TypeOK, RunnersOwn, Used, Runs
  <2> QED BY <1>4, <2>2 DEF Owner
<1> QED BY <1>1, <1>2, <1>3, <1>6, <1>7, AStep DEF AInv, TypeOK, Pends

\* After a crash no task is left; a worker on its way to the click may still send
\* it, and one that had concluded may outlive its reader.
LEMMA CrashGoes ==
  ASSUME AInv, CrashRestart, NEW b \in Attempts
  PROVE  /\ att'[b] \in Attempt \cup {Unused} /\ Goes(b) /\ ~Runs(b)'
         /\ Used(b) => /\ ~att'[b].unread /\ att'[b].stage = att[b].stage
                       /\ att[b].clicked => att'[b].clicked
                       /\ att'[b].clicked # att[b].clicked =>
                            Alive(b) /\ att[b].stage = "announced"
<1>1. CASE ~Used(b)
  <2>1. att'[b] = Unused
    BY <1>1 DEF CrashRestart
  <2> QED BY <1>1, <2>1 DEF Goes, Runs, Used
<1>2. CASE Used(b)
  <2>1. PICK k \in {"none", "orphan", "dead"}, c \in BOOLEAN :
          /\ att'[b] = [att[b] EXCEPT !.task = "over", !.unread = FALSE,
                                      !.worker = k, !.clicked = c]
          /\ att[b].clicked => c
          /\ c # att[b].clicked => Alive(b) /\ att[b].stage = "announced"
    <3>1. PICK late \in SUBSET {a \in Attempts : Alive(a) /\ att[a].stage \in {"announced", "concluded"}} :
            LET clicking == {a \in late : att[a].stage = "announced" /\ ~att[a].clicked} IN
            att' = [a \in Attempts |->
              IF ~Used(a) THEN Unused
              ELSE [att[a] EXCEPT !.task = "over", !.unread = FALSE,
                      !.worker = IF att[a].worker # "alive" THEN att[a].worker
                                 ELSE IF a \in late \ clicking THEN "orphan" ELSE "dead",
                      !.clicked = att[a].clicked \/ a \in clicking]]
      BY DEF CrashRestart
    <3> DEFINE clicking == {a \in late : att[a].stage = "announced" /\ ~att[a].clicked}
               k == IF att[b].worker # "alive" THEN att[b].worker
                    ELSE IF b \in late \ clicking THEN "orphan" ELSE "dead"
               c == att[b].clicked \/ b \in clicking
    <3>2. att'[b] = [att[b] EXCEPT !.task = "over", !.unread = FALSE,
                                   !.worker = k, !.clicked = c]
      BY <1>2, <3>1
    <3>3. att[b] \in Attempt
      BY <1>2 DEF AInv, TypeOK, Used
    <3>4. k \in {"none", "orphan", "dead"}
      BY <3>3, AttemptFields
    <3>5. b \in clicking => Alive(b) /\ att[b].stage = "announced"
      OBVIOUS
    <3> DEFINE m == b \in clicking
    <3>6. c = (att[b].clicked \/ m) /\ m \in BOOLEAN
      OBVIOUS
    <3>7. m => Alive(b) /\ att[b].stage = "announced"
      BY <3>5
    <3>8. att[b].clicked \in BOOLEAN
      BY <3>3, AttemptFields
    <3> HIDE DEF m, k
    <3>9. c \in BOOLEAN /\ (att[b].clicked => c) /\ (c # att[b].clicked => m)
      BY <3>6, <3>8, Zenon
    <3> HIDE DEF c
    <3> QED BY <3>2, <3>4, <3>7, <3>9, ZenonT(60)
  <2>2. att[b] \in Attempt /\ Told(att[b])
    BY <1>2 DEF AInv, TypeOK, WorkersTell, Used
  <2> DEFINE w == [att[b] EXCEPT !.task = "over", !.unread = FALSE, !.worker = k, !.clicked = c]
  <2>3. w \in Attempt
    BY <2>1, <2>2 DEF Attempt, Tasks
  <2>4. w.task = "over" /\ w.worker = k /\ w.exec = att[b].exec
    BY <2>2 DEF Attempt
  <2>5. w.kind = att[b].kind /\ w.stage = att[b].stage /\ w.outcome = att[b].outcome
    BY <2>2 DEF Attempt
  <2>6. w.unread = FALSE /\ w.clicked = c
    BY <2>1, <2>2 DEF Attempt
  <2>7. w.durable = att[b].durable /\ w.reported = att[b].reported
    BY <2>2 DEF Attempt
  <2>8. att'[b] = w
    BY <2>1
  <2> HIDE DEF w
  <2>9. Told(w) /\ Led(w)
    BY <2>1, <2>2, <2>4, <2>5, <2>6, <2>7 DEF Told, Led
  <2>10. Goes(b) /\ ~Runs(b)'
    BY <1>2, <2>1, <2>3, <2>4, <2>8, <2>9, AttemptFields DEF Goes, Used, Runs
  <2> QED BY <2>1, <2>3, <2>5, <2>6, <2>8, <2>10
<1> QED BY <1>1, <1>2

LEMMA ACrash ==
  ASSUME AInv, CrashRestart
  PROVE  AInv'
<1>1. att' = [a \in Attempts |-> att'[a]]
  BY DEF CrashRestart
<1>2. /\ att' \in [Attempts -> Attempt \cup {Unused}]
      /\ \A b \in Attempts : Goes(b) /\ ~Runs(b)'
  BY <1>1, CrashGoes
<1>3. queue' = queue /\ slow' = [slow EXCEPT !.job = Free]
  BY DEF CrashRestart
<1>4. crashes' \in 0..MaxCrashes
  <2>1. crashes \in 0..MaxCrashes
    BY DEF AInv, TypeOK
  <2>2. crashes < MaxCrashes /\ crashes' = crashes + 1
    BY DEF CrashRestart
  <2> QED BY <2>1, <2>2
<1>5. owner' \in [Profiles -> Holder \cup {Free}]
  <2>1. owner' = [p \in Profiles |->
          IF owner[p] = Free THEN Free ELSE [owner[p] EXCEPT !.state = "closing"]]
    BY DEF CrashRestart
  <2>2. ASSUME NEW p \in Profiles, owner[p] # Free
        PROVE  [owner[p] EXCEPT !.state = "closing"] \in Holder
    <3>1. owner[p] \in Holder
      BY <2>2 DEF AInv, TypeOK
    <3> QED BY <3>1 DEF Holder
  <2> QED BY <2>1, <2>2
<1>6. clicks' \in [Executions -> Nat]
  <2>1. PICK late \in SUBSET Attempts :
          LET clicking == {a \in late : att[a].stage = "announced" /\ ~att[a].clicked} IN
          clicks' = [e \in Executions |->
            clicks[e] + Cardinality({a \in clicking : att[a].exec = e})]
    BY DEF CrashRestart
  <2> DEFINE N(e) == {a \in late : /\ att[a].stage = "announced" /\ ~att[a].clicked
                                   /\ att[a].exec = e}
  <2>2. clicks' = [e \in Executions |-> clicks[e] + Cardinality(N(e))]
    <3>1. ASSUME NEW e \in Executions
          PROVE  {a \in {a \in late : att[a].stage = "announced" /\ ~att[a].clicked} :
                    att[a].exec = e} = N(e)
      OBVIOUS
    <3> QED BY <2>1, <3>1
  <2>3. IsFiniteSet(Attempts)
    BY FS_Interval DEF Attempts
  <2>4. ASSUME NEW e \in Executions
        PROVE  Cardinality(N(e)) \in Nat
    <3>1. N(e) \subseteq Attempts
      OBVIOUS
    <3> HIDE DEF N
    <3> QED BY <2>3, <3>1, FS_Subset, FS_CardinalityType
  <2>5. clicks \in [Executions -> Nat]
    BY DEF AInv, TypeOK
  <2> HIDE DEF N
  <2>6. ASSUME NEW e \in Executions
        PROVE  clicks[e] + Cardinality(N(e)) \in Nat
    BY <2>4, <2>5
  <2> QED BY <2>2, <2>6
<1> QED BY <1>2, <1>3, <1>4, <1>5, <1>6, AStep DEF AInv, TypeOK, Pends

-----------------------------------------------------------------------------
(* The theorems that hold whatever Faults allows *)

LEMMA InitA == Init => AInv
<1> SUFFICES ASSUME Init
             PROVE  AInv
  OBVIOUS
<1>1. \A e \in Executions : queue[e] \in Record
  <2> TAKE e \in Executions
  <2> DEFINE p == IF e \in Prepared THEN "pending" ELSE "off"
  <2>1. p \in {"off", "pending"}
    OBVIOUS
  <2>2. queue[e] = [status |-> "pending", stage |-> "idle", evidence |-> FALSE,
          reviewed |-> FALSE, lastActive |-> FALSE, interrupted |-> FALSE, claim |-> None,
          lease |-> None, lastLease |-> None, token |-> None, held |-> FALSE, prep |-> p,
          review |-> FALSE, cancelAsked |-> FALSE]
    BY DEF Init
  <2> HIDE DEF p
  <2> QED BY <2>1, <2>2 DEF Record, Statuses, Stages
<1>2. TypeOK
  <2>1. queue = [e \in Executions |-> queue[e]]
    BY DEF Init
  <2>2. queue \in [Executions -> Record]
    BY <1>1, <2>1
  <2>3. /\ att \in [Attempts -> Attempt \cup {Unused}]
        /\ owner \in [Profiles -> Holder \cup {Free}]
        /\ slow = [job |-> Free, lost |-> {}]
        /\ clicks \in [Executions -> Nat] /\ crashes \in 0..MaxCrashes
    BY DEF Init
  <2>4. slow \in [job : Unlocked \cup {Free}, lost : SUBSET Executions]
    BY <2>3
  <2> QED BY <2>2, <2>3, <2>4 DEF TypeOK
<1>3. TasksLead /\ WorkersTell /\ RunnersOwn /\ PendingAllowed
  BY DEF Init, TasksLead, WorkersTell, RunnersOwn, Runs, Used, PendingAllowed
<1> QED BY <1>2, <1>3 DEF AInv

LEMMA NextA == AInv /\ [Next]_vars => AInv'
<1> SUFFICES ASSUME AInv, [Next]_vars
             PROVE  AInv'
  OBVIOUS
<1>1. ASSUME NEW a \in Attempts, TaskStep(a)
      PROVE  AInv'
  BY <1>1, AStartupFails, ASpawn, APrints, AFinish, AClean, AClose, APrepFinish,
     AHandover, ACancelledTaskEnds DEF TaskStep
<1>2. ASSUME NEW a \in Attempts, WorkerStep(a) \/ Kill(a) \/ OrphanFinalizes(a)
      PROVE  AInv'
  BY <1>2, APrints, AClick, AWorker DEF WorkerStep
<1>3. CASE UNCHANGED vars
  BY <1>3, AQueue DEF vars, AInv, TypeOK, Pends
<1> QED BY <1>1, <1>2, <1>3, AClaim, ARecovery, AOperator, AOwner, AUnlockedRead,
           AUnlockedSave, ARerun, ACancelAll, ACrash DEF Next

\* AInv is inductive, with lost lines and saves of older copies too.
THEOREM Inductive == Spec => []AInv
BY InitA, NextA, PTL DEF Spec

\* The queue file, the attempts, the owners and a save that is pending always have
\* their types.
THEOREM TypeCorrect == Spec => []TypeOK
<1>1. AInv => TypeOK
  BY DEF AInv
<1> QED BY <1>1, Inductive, PTL

\* A worker only runs in a container that its own attempt owns, and never two on
\* one profile: not after a crash, a cancellation, a lost line, or a run-now, a
\* review or a heartbeat that writes back a stale copy of the queue.
THEOREM WorkersOwnTheirProfile ==
  Spec => [](/\ WorkerOwnsProfile
             /\ \A a, b \in Attempts :
                  /\ Alive(a) /\ Alive(b) /\ ProfileOf[att[a].exec] = ProfileOf[att[b].exec]
                  => a = b)
<1>1. AInv => WorkerOwnsProfile
  BY DEF AInv, RunnersOwn, WorkerOwnsProfile, Runs, Alive
<1>2. AInv => \A a, b \in Attempts :
        /\ Alive(a) /\ Alive(b) /\ ProfileOf[att[a].exec] = ProfileOf[att[b].exec]
        => a = b
  BY RunnersApart DEF Runs, Alive
<1> QED BY <1>1, <1>2, Inductive, PTL

-----------------------------------------------------------------------------
(* What a step has to show of the clicks *)

\* The record of e and its clicks stay, but that a stage may enter the history.
Kept(e) ==
  LET x == queue[e]  y == queue'[e] IN
  /\ y.status = x.status /\ y.lease = x.lease /\ y.token = x.token
  /\ y.interrupted = x.interrupted /\ y.review = x.review
  /\ x.evidence => y.evidence
  /\ clicks'[e] = clicks[e]

\* y, with n clicks, closes the record of e: a status that claims something of a
\* click is right.
Settles(e, y, n) ==
  LET x == queue[e] IN
  /\ y.status \notin Active /\ y.lease = None /\ y.token = x.token
  /\ n \in {0, clicks[e]}
  /\ y.status \in {"pending", "ready", "cancelled"} => n = 0
  /\ n > 0 => y.evidence
  /\ /\ y.status = "uncertain" /\ y.interrupted
     /\ x.token # None /\ att[x.token].clicked
     => n > 0
  /\ y.status = "published" /\ ~y.review => n > 0

Deserted(e) == \A b \in Attempts : Runs(b)' => att[b].exec # e

\* An attempt clicks nothing, and what it prints is read into the history.
Steady(b) ==
  Used(b) =>
    /\ att'[b].clicked = att[b].clicked /\ ~att'[b].unread
    /\ att[b].stage \in {"announced", "concluded"}
         => att'[b].stage \in {"announced", "concluded"}
    /\ att'[b].stage \in EvidenceStages
         => att[b].stage \in EvidenceStages \/ queue'[att[b].exec].evidence

LEMMA SilentIsSteady ==
  ASSUME CInv, \A b \in Attempts : Silent(b), NEW b \in Attempts
  PROVE  Steady(b)
BY AttemptFields DEF CInv, InStep, Silent, Steady

\* What the task of a silent attempt has read, it has still read.
LEMMA SilentReads ==
  ASSUME CInv, \A b \in Attempts : Silent(b)
  PROVE  \A b \in Attempts : Used(b) => ~att'[b].unread
BY AttemptFields DEF CInv, InStep, Silent

\* The token of an intact record is an attempt of its execution, and so is its lease.
LEMMA TokenFacts ==
  ASSUME AInv, CInv, NEW e \in Intact
  PROVE  LET x == queue[e] IN
         /\ x \in Record /\ x.token \in Attempts \cup {None} /\ x.lease \in Attempts \cup {None}
         /\ x.token # None => Used(x.token) /\ att[x.token].exec = e /\ Told(att[x.token])
         /\ x.lease # None => x.token = x.lease /\ x.status \in Active
         /\ x.status \in Active => x.lease # None
<1>1. queue[e] \in Record
  BY DEF AInv, TypeOK, Intact
<1>2. queue[e].token \in Attempts \cup {None} /\ queue[e].lease \in Attempts \cup {None}
  BY <1>1, RecordFields
<1>3. None \notin Attempts
  BY DEF None, Attempts
<1> QED BY <1>1, <1>2, <1>3 DEF CInv, Leased, AInv, WorkersTell

\* What a step has to show, of the posts whose record is intact after it.
LEMMA SettleStep ==
  ASSUME AInv, CInv, \A b \in Attempts : Goes(b) /\ (Used(b) => ~att'[b].unread),
         \A b \in Attempts : Used(b) /\ att[b].exec \in Intact' => Steady(b),
         Intact' \subseteq Intact,
         \A e \in Intact' :
            Kept(e) \/ (Deserted(e) /\ Settles(e, queue'[e], clicks'[e]))
  PROVE  CInv'
<1>1. InStep'
  BY DEF CInv, InStep, Goes
<1>2. ASSUME NEW e \in Intact'
      PROVE  LET y == queue'[e]  t == queue[e].token IN
             /\ y.token = t
             /\ y.status \in Active <=> y.lease # None
             /\ y.lease # None => t = y.lease
             /\ t # None => /\ t \in Attempts /\ Used(t)' /\ att'[t].exec = e
                            /\ att'[t].clicked = att[t].clicked
                            /\ att[t].stage \in {"announced", "concluded"}
                                 => att'[t].stage \in {"announced", "concluded"}
  <2> DEFINE t == queue[e].token
  <2>1. /\ t \in Attempts \cup {None}
        /\ t # None => Used(t) /\ att[t].exec = e
        /\ queue[e].lease # None => t = queue[e].lease /\ queue[e].status \in Active
        /\ queue[e].status \in Active => queue[e].lease # None
    BY TokenFacts
  <2>2. /\ queue'[e].token = t
        /\ queue'[e].status \in Active <=> queue'[e].lease # None
        /\ queue'[e].lease # None => t = queue'[e].lease
    BY <2>1 DEF Kept, Settles
  <2>3. t # None => t \in Attempts /\ Used(t) /\ Goes(t) /\ Steady(t)
    BY <1>2, <2>1
  <2> HIDE DEF t
  <2>4. t # None => /\ t \in Attempts /\ Used(t)' /\ att'[t].exec = e
                    /\ att'[t].clicked = att[t].clicked
                    /\ att[t].stage \in {"announced", "concluded"}
                         => att'[t].stage \in {"announced", "concluded"}
    BY <2>1, <2>3 DEF Goes, Steady
  <2> QED BY <2>2, <2>4 DEF t
<1>3. Leased'
  BY <1>2 DEF Leased
<1>4. ASSUME NEW b \in Attempts, RunsIntact(b)'
      PROVE  /\ RunsIntact(b) /\ Used(b) /\ att'[b].exec = att[b].exec
             /\ Steady(b) /\ Kept(att[b].exec)
  <2>1. Runs(b)' /\ att'[b].exec \in Intact'
    BY <1>4 DEF RunsIntact
  <2>2. Runs(b) /\ Used(b) /\ att'[b].exec = att[b].exec
    BY <2>1 DEF Goes, Runs
  <2> QED BY <2>1, <2>2 DEF Deserted, RunsIntact
<1>5. RunnersLease'
  BY <1>4 DEF RunnersLease, CInv, Kept
<1>6. GateIsOnRecord'
  <2> SUFFICES ASSUME NEW b \in Attempts, RunsIntact(b)', att'[b].stage \in EvidenceStages
               PROVE  queue'[att'[b].exec].evidence
    BY DEF GateIsOnRecord
  <2>1. att[b].stage \in EvidenceStages \/ queue'[att[b].exec].evidence
    BY <1>4 DEF Steady
  <2>2. att[b].stage \in EvidenceStages => queue[att[b].exec].evidence
    BY <1>4 DEF CInv, GateIsOnRecord
  <2> QED BY <1>4, <2>1, <2>2 DEF Kept
<1>7. FirstToClick'
  <2> SUFFICES ASSUME NEW b \in Attempts, RunsIntact(b)', ~att'[b].clicked
               PROVE  clicks'[att'[b].exec] = 0
    BY DEF FirstToClick
  <2>1. ~att[b].clicked
    BY <1>4 DEF Steady
  <2> QED BY <1>4, <2>1 DEF Kept, CInv, FirstToClick
<1>8. WaitingIsUnclicked' /\ AtMostOne' /\ PublishedIsClicked'
  BY DEF WaitingIsUnclicked, AtMostOne, PublishedIsClicked, CInv, Kept, Settles
<1>9. ClickedIsOnRecord'
  <2> SUFFICES ASSUME NEW e \in Intact', clicks'[e] > 0
               PROVE  /\ queue'[e].evidence
                      /\ queue'[e].lease # None =>
                           att'[queue'[e].lease].stage \in {"announced", "concluded"}
    BY DEF ClickedIsOnRecord
  <2>1. CASE Kept(e)
    <3>1. /\ queue[e].evidence
          /\ queue[e].lease # None => att[queue[e].lease].stage \in {"announced", "concluded"}
      BY <2>1 DEF Kept, CInv, ClickedIsOnRecord
    <3> QED BY <1>2, <2>1, <3>1 DEF Kept
  <2>2. CASE Settles(e, queue'[e], clicks'[e])
    BY <2>2 DEF Settles
  <2> QED BY <2>1, <2>2
<1>10. LastClickCounts'
  <2> SUFFICES ASSUME NEW e \in Intact', queue'[e].token # None,
                      \/ queue'[e].lease # None
                      \/ queue'[e].status = "uncertain" /\ queue'[e].interrupted,
                      att'[queue'[e].token].clicked
               PROVE  clicks'[e] > 0
    BY DEF LastClickCounts
  <2>1. att[queue[e].token].clicked /\ queue[e].token # None
    BY <1>2
  <2>2. CASE Kept(e)
    BY <2>1, <2>2 DEF Kept, CInv, LastClickCounts
  <2>3. CASE Settles(e, queue'[e], clicks'[e])
    BY <2>1, <2>3 DEF Settles
  <2> QED BY <2>2, <2>3
<1> QED BY <1>1, <1>3, <1>5, <1>6, <1>7, <1>8, <1>9, <1>10 DEF CInv

\* Who runs holds the lease, so a record is deserted when its lease is not held
\* by a runner.
LEMMA NobodyRuns ==
  ASSUME AInv, CInv, \A b \in Attempts : Goes(b), NEW e \in Intact,
         \A b \in Attempts : queue[e].lease = b => ~Runs(b)'
  PROVE  Deserted(e)
BY DEF Deserted, CInv, RunnersLease, RunsIntact, Goes

\* One record is closed.
LEMMA OneSettles ==
  ASSUME AInv, CInv, \A b \in Attempts : Goes(b) /\ Silent(b), slow' = slow,
         NEW e \in Intact, NEW y \in Record, Update(e, y),
         clicks' = clicks \/ clicks' = [clicks EXCEPT ![e] = 0],
         \A b \in Attempts : queue[e].lease = b => ~Runs(b)',
         Settles(e, y, clicks'[e])
  PROVE  CInv'
<1> e \in Executions /\ Intact' = Intact
  BY DEF Intact
<1>1. queue'[e] = y /\ \A f \in Executions \ {e} : queue'[f] = queue[f]
  BY UpdateTypes
<1>2. \A f \in Executions \ {e} : clicks'[f] = clicks[f]
  BY DEF AInv, TypeOK
<1>3. \A f \in Executions \ {e} : Kept(f)
  BY <1>1, <1>2 DEF Kept
<1>4. Deserted(e)
  BY NobodyRuns
<1>5. \A f \in Intact : f \in Executions
  BY DEF Intact
<1> QED BY <1>1, <1>3, <1>4, <1>5, SettleStep, SilentReads, SilentIsSteady

\* Nothing is written, and no click is sent.
LEMMA NothingWritten ==
  ASSUME AInv, CInv, \A b \in Attempts : Goes(b) /\ Silent(b),
         UNCHANGED <<queue, clicks>>, slow' = slow \/ slow'.lost = slow.lost
  PROVE  CInv'
<1>1. \A e \in Intact' : Kept(e)
  BY DEF Kept
<1>2. Intact' = Intact
  BY DEF Intact
<1> QED BY <1>1, <1>2, SettleStep, SilentReads, SilentIsSteady

\* What happens to an execution whose record has been set back: nothing is said of it,
\* and the other records stay as they are.
LEMMA OthersKept ==
  ASSUME AInv, CInv, \A b \in Attempts : Goes(b) /\ (Used(b) => ~att'[b].unread),
         NEW e, e \notin Intact, slow' = slow,
         \A b \in Attempts : Used(b) /\ att[b].exec # e => Silent(b),
         \A f \in Executions \ {e} : queue'[f] = queue[f] /\ clicks'[f] = clicks[f]
  PROVE  CInv'
<1>1. Intact' = Intact /\ \A f \in Intact : f \in Executions /\ f # e
  BY DEF Intact
<1>2. \A f \in Intact' : Kept(f)
  BY <1>1 DEF Kept
<1>3. ASSUME NEW b \in Attempts, Used(b), att[b].exec \in Intact'
      PROVE  Steady(b)
  <2>1. Silent(b)
    BY <1>1, <1>3
  <2> QED BY <1>3, <2>1, AttemptFields DEF CInv, InStep, Silent, Steady
<1> QED BY <1>1, <1>2, <1>3, SettleStep

\* An attempt that only prepared has not clicked, nor has one whose record shows
\* no publication stage.
LEMMA Unclicked ==
  ASSUME AInv, CInv, NEW e \in Intact,
         ~queue[e].evidence \/ IsPreparation(queue[e])
  PROVE  clicks[e] = 0
<1> SUFFICES ASSUME clicks[e] > 0
             PROVE  FALSE
  BY DEF CInv, AtMostOne
<1>1. /\ queue[e].evidence
      /\ queue[e].lease # None => att[queue[e].lease].stage \in {"announced", "concluded"}
  BY DEF CInv, ClickedIsOnRecord
<1>2. queue[e].lease # None => Told(att[queue[e].lease])
  BY TokenFacts
<1> QED BY <1>1, <1>2 DEF IsPreparation, Told

\* The click of the attempt that still holds the lease counts.
LEMMA LeaseClickCounts ==
  ASSUME AInv, CInv, NEW e \in Intact, queue[e].lease # None,
         att[queue[e].token].clicked
  PROVE  clicks[e] > 0
BY TokenFacts DEF CInv, LastClickCounts

-----------------------------------------------------------------------------
(* The end of an attempt *)

LEMMA CStartupFails ==
  ASSUME AInv, CInv, NEW a \in Attempts, StartupFails(a), att[a].exec \in Intact
  PROVE  CInv'
<1> DEFINE e == att[a].exec
           y == FailedBefore(a)
<1>1. (\A b \in Attempts : Goes(b) /\ Silent(b)) /\ ~Runs(a)'
  BY AStartupFails
<1>2. RunsIntact(a) /\ Used(a) /\ e \in Executions
  BY AttemptFields DEF StartupFails, InTask, Runs, RunsIntact, AInv, TypeOK, Used
<1>3. queue[e].lease = a
  BY <1>2 DEF CInv, RunnersLease
<1>4. Update(e, y) /\ UNCHANGED <<slow, clicks>>
  BY <1>3 DEF StartupFails, Fenced
<1>5. /\ y \in Record /\ y.status = "failed_before_publish" /\ y.lease = None
      /\ y.token = queue[e].token /\ y.evidence = queue[e].evidence
  BY <1>2, FailedBeforeFacts
<1> HIDE DEF y
<1>6. clicks[e] > 0 => queue[e].evidence
  BY <1>2 DEF CInv, ClickedIsOnRecord
<1>7. Settles(e, y, clicks'[e])
  BY <1>4, <1>5, <1>6 DEF Settles, Active
<1> QED BY <1>1, <1>2, <1>3, <1>4, <1>5, <1>7, OneSettles

LEMMA CFinish ==
  ASSUME AInv, CInv, NEW a \in Attempts, Finish(a), att[a].exec \in Intact
  PROVE  CInv'
<1> DEFINE e == att[a].exec
           y == Result(a, queue[e])
<1>1. (\A b \in Attempts : Goes(b) /\ Silent(b)) /\ ~Runs(a)'
  BY AFinish
<1>2. Used(a) /\ att[a].kind = "publisher" /\ UNCHANGED <<slow, clicks>>
  BY DEF Finish, Ended, InTask
<1>3. e \in Executions /\ queue[e] \in Record
  BY <1>2, AttemptFields DEF AInv, TypeOK, Used
<1>4. CASE Fenced(a)
  BY <1>1, <1>2, <1>4, NothingWritten DEF Finish
<1>5. CASE ~Fenced(a)
  <2>1. queue[e].lease = a /\ Update(e, y)
    BY <1>5 DEF Fenced, Finish
  <2>2. /\ y \in Record /\ y.status \in Ends \cup {"failed_before_publish"}
        /\ y.status = "published" => att[a].clicked
        /\ y.lease = None /\ y.token = queue[e].token
        /\ IF att[a].reported THEN att[a].stage \in EvidenceStages => y.evidence
                              ELSE queue[e].evidence => y.evidence
    BY <1>2, <1>3, ResultFacts
  <2> HIDE DEF y
  <2>3. a # None /\ queue[e].token = a
    BY <1>3, <2>1, TokenFacts DEF Attempts, None
  <2>4. att[queue[e].token].clicked => clicks[e] > 0
    BY <1>3, <2>1, <2>3, LeaseClickCounts
  <2>5. clicks[e] > 0 =>
          queue[e].evidence /\ att[a].stage \in {"announced", "concluded"}
    BY <1>3, <2>1, <2>3 DEF CInv, ClickedIsOnRecord
  <2>6. Settles(e, y, clicks'[e])
    BY <1>2, <2>2, <2>3, <2>4, <2>5 DEF Settles, Active, Ends, EvidenceStages
  <2> QED BY <1>1, <1>2, <1>3, <2>1, <2>2, <2>6, OneSettles
<1> QED BY <1>4, <1>5

LEMMA CPrepFinish ==
  ASSUME AInv, CInv, NEW a \in Attempts, PrepFinish(a), att[a].exec \in Intact
  PROVE  CInv'
<1> DEFINE e == att[a].exec
<1>1. (\A b \in Attempts : Goes(b) /\ Silent(b)) /\ ~Runs(a)'
  BY APrepFinish
<1>2. Used(a) /\ att[a].kind = "preparer" /\ UNCHANGED <<slow, clicks>>
  BY DEF PrepFinish, Ended, InTask
<1>3. e \in Executions /\ queue[e] \in Record
  BY <1>2, AttemptFields DEF AInv, TypeOK, Used
<1>4. CASE queue' = queue
  BY <1>1, <1>2, <1>4, NothingWritten
<1>5. CASE queue' # queue
  <2>1. PICK y \in Record :
          /\ ~Fenced(a) /\ Update(e, y) /\ y.lease = None /\ y.token = queue[e].token
          /\ y.evidence = queue[e].evidence
          /\ y.status \in {"ready", "failed_before_publish", "uncertain"}
    BY <1>5, PrepFinishFacts
  <2>2. queue[e].lease = a /\ a # None
    BY <2>1 DEF Fenced, Attempts, None
  <2>3. clicks[e] = 0
    BY <1>2, <1>3, <2>2, Unclicked DEF IsPreparation
  <2>4. att[queue[e].token].clicked => clicks[e] > 0
    BY <1>3, <2>2, LeaseClickCounts
  <2>5. Settles(e, y, clicks'[e])
    BY <1>2, <2>1, <2>3, <2>4 DEF Settles, Active
  <2> QED BY <1>1, <1>2, <1>3, <2>1, <2>2, <2>5, OneSettles
<1> QED BY <1>4, <1>5

LEMMA CCancelledTaskEnds ==
  ASSUME AInv, CInv, NEW a \in Attempts, CancelledTaskEnds(a), att[a].exec \in Intact
  PROVE  CInv'
<1> DEFINE e == att[a].exec
           x == queue[e]
           y == Unleased(CancelledAs(x))
<1>1. (\A b \in Attempts : Goes(b) /\ Silent(b)) /\ ~Runs(a)'
  BY ACancelledTaskEnds
<1>2. Used(a) /\ UNCHANGED <<slow, clicks>>
  BY DEF CancelledTaskEnds, InTask
<1>3. e \in Executions /\ x \in Record
  BY <1>2, AttemptFields DEF AInv, TypeOK, Used
<1>4. queue' = queue \/ (x.token = a /\ Update(e, y))
  BY DEF CancelledTaskEnds, CancellationOf, Update
<1>5. /\ y \in Record /\ y.status \in {"cancelled", "uncertain"}
      /\ y.lease = None /\ y.token = x.token /\ y.evidence = x.evidence /\ ~y.interrupted
      /\ y.status = "cancelled" => ~x.evidence \/ IsPreparation(x)
  BY <1>3, CancelledFacts, UnleasedFacts
<1> HIDE DEF y
<1>6. CASE queue' = queue
  BY <1>1, <1>2, <1>6, NothingWritten
<1>7. CASE x.token = a /\ Update(e, y)
  <2>1. \A b \in Attempts : x.lease = b => b = a
    BY <1>3, <1>7, TokenFacts DEF Attempts, None
  <2>2. y.status = "cancelled" => clicks[e] = 0
    BY <1>3, <1>5, Unclicked
  <2>3. clicks[e] > 0 => x.evidence
    BY <1>3 DEF CInv, ClickedIsOnRecord
  <2>4. Settles(e, y, clicks'[e])
    BY <1>2, <1>5, <2>2, <2>3 DEF Settles, Active
  <2> QED BY <1>1, <1>2, <1>3, <1>5, <1>7, <2>1, <2>4, OneSettles
<1> QED BY <1>4, <1>6, <1>7

\* Steps of a task that write nothing about the click.
LEMMA CTaskGoes ==
  ASSUME AInv, CInv, NEW a \in Attempts, Spawn(a) \/ Clean(a) \/ Close(a) \/ Handover(a)
  PROVE  CInv'
<1>1. \A b \in Attempts : Goes(b) /\ Silent(b)
  BY ASpawn, AClean, AClose, AHandover
<1>2. UNCHANGED <<slow, clicks>> /\ Intact' = Intact /\ \A f \in Intact : f \in Executions
  BY DEF Spawn, Clean, Close, Handover, Intact
<1>3. CASE queue' = queue
  BY <1>1, <1>2, <1>3, NothingWritten
<1>4. CASE queue' # queue
  <2> DEFINE e == att[a].exec
             y == [queue[e] EXCEPT !.held = FALSE]
  <2>1. queue' = [queue EXCEPT ![e] = y] /\ Used(a)
    BY <1>4 DEF Spawn, Clean, Close, Handover, InTask
  <2>2. e \in Executions /\ queue[e] \in Record
    BY <2>1, AttemptFields DEF AInv, TypeOK, Used
  <2>3. y.status = queue[e].status /\ y.lease = queue[e].lease /\ y.token = queue[e].token
    BY <2>2 DEF Record
  <2>4. /\ y.interrupted = queue[e].interrupted /\ y.review = queue[e].review
        /\ y.evidence = queue[e].evidence
    BY <2>2 DEF Record
  <2> HIDE DEF y
  <2>5. queue'[e] = y /\ \A f \in Executions \ {e} : queue'[f] = queue[f]
    BY <2>1, <2>2 DEF AInv, TypeOK
  <2>6. \A f \in Executions : Kept(f)
    BY <1>2, <2>3, <2>4, <2>5 DEF Kept
  <2> QED BY <1>1, <1>2, <2>6, SettleStep, SilentReads, SilentIsSteady
<1> QED BY <1>3, <1>4

-----------------------------------------------------------------------------
(* The worker *)

LEMMA CWorker ==
  ASSUME AInv, CInv, NEW a \in Attempts,
         Kill(a) \/ Finalize(a) \/ Report(a) \/ OrphanFinalizes(a)
  PROVE  CInv'
<1>1. UNCHANGED <<queue, slow, clicks>>
  BY DEF Kill, Finalize, Report, Exits, OrphanFinalizes
<1> QED BY <1>1, AWorker, NothingWritten

\* Every line that a worker prints is read at once into the record it leases.
LEMMA CPrints ==
  ASSUME AInv, CInv, "lost_lines" \notin Faults,
         NEW a \in Attempts, Advance(a) \/ Conclude(a), att[a].exec \in Intact
  PROVE  CInv'
<1> DEFINE e == att[a].exec
           s == att'[a].stage
           y == Persisted(queue[e], a, s)
<1>1. RunsIntact(a) /\ Used(a) /\ UNCHANGED <<slow, clicks>> /\ e \in Executions
  BY AttemptFields DEF Advance, Conclude, Alive, Runs, RunsIntact, AInv, TypeOK, Used
<1>2. /\ \A b \in Attempts : Goes(b)
      /\ \A b \in Attempts \ {a} : att'[b] = att[b]
      /\ att'[a].clicked = att[a].clicked /\ ~att'[a].unread
      /\ Update(e, y)
  <2>1. CASE Advance(a)
    <3>1. /\ \A b \in Attempts : Goes(b)
          /\ \A b \in Attempts \ {a} : att'[b] = att[b]
          /\ ~att[a].clicked /\ ~att'[a].clicked /\ ~att'[a].unread
          /\ Update(e, y)
      BY <2>1, AdvanceGoes
    <3>2. att[a].clicked \in BOOLEAN /\ att'[a].clicked \in BOOLEAN
      BY <1>1, <3>1, AttemptFields DEF AInv, TypeOK, Used, Goes
    <3> QED BY <3>1, <3>2, Zenon
  <2>2. CASE Conclude(a)
    BY <2>2, ConcludeGoes
  <2> QED BY <2>1, <2>2
<1>3. /\ att[a].stage \in {"announced", "concluded"} => s = "concluded"
      /\ s \in Stages
  <2>1. Advance(a) => att[a].stage \in {"idle", "composing", "authorized"}
    BY DEF Advance, NextStage
  <2>2. Conclude(a) => s = "concluded"
    BY ConcludeGoes
  <2>3. s \in Stages
    BY <1>1, <1>2, AttemptFields DEF Goes
  <2> QED BY <2>1, <2>2, <2>3
<1>4. queue[e].lease = a /\ queue[e] \in Record
  BY <1>1 DEF CInv, RunnersLease, AInv, TypeOK
<1>5. /\ y \in Record
      /\ y.status = queue[e].status /\ y.lease = queue[e].lease /\ y.token = queue[e].token
      /\ y.review = queue[e].review /\ y.interrupted = queue[e].interrupted
      /\ queue[e].evidence => y.evidence
      /\ s \in EvidenceStages => y.evidence
  BY <1>3, <1>4, PersistedFacts
<1> HIDE DEF y, s
<1>6. queue'[e] = y /\ \A f \in Executions \ {e} : queue'[f] = queue[f]
  BY <1>1, <1>2, <1>5, UpdateTypes
<1>7. \A f \in Executions : Kept(f)
  BY <1>1, <1>5, <1>6 DEF Kept
<1>8. Steady(a)
  BY <1>2, <1>3, <1>5, <1>6 DEF Steady, s
<1>9. ASSUME NEW b \in Attempts, b # a
      PROVE  Steady(b)
  BY <1>2, <1>9 DEF Steady, CInv, InStep
<1>10. Intact' = Intact /\ \A f \in Intact : f \in Executions
  BY <1>1 DEF Intact
<1>11. \A b \in Attempts : Used(b) => ~att'[b].unread
  BY <1>2 DEF CInv, InStep
<1> QED BY <1>1, <1>2, <1>7, <1>8, <1>9, <1>10, <1>11, SettleStep

\* The click: the only one since the operator last asked, by the attempt that
\* holds the lease, with the gate on record.
LEMMA CClick ==
  ASSUME AInv, CInv, NEW a \in Attempts, Click(a), att[a].exec \in Intact
  PROVE  CInv'
<1> DEFINE e == att[a].exec
<1>1. /\ RunsIntact(a) /\ Used(a) /\ e \in Executions /\ ~att[a].clicked
      /\ att[a].stage = "announced" /\ UNCHANGED <<queue, slow>> /\ Intact' = Intact
  BY AttemptFields DEF Click, Alive, Runs, RunsIntact, AInv, TypeOK, Used, Intact
<1> \A f \in Intact : f \in Executions
  BY DEF Intact
<1>2. /\ \A b \in Attempts : Goes(b)
      /\ \A b \in Attempts \ {a} : att'[b] = att[b]
      /\ att'[a].stage = "announced" /\ att'[a].clicked /\ att'[a].unread = att[a].unread
  BY ClickGoes
<1>3. queue[e].lease = a /\ queue[e].evidence /\ clicks[e] = 0
  BY <1>1 DEF CInv, RunnersLease, GateIsOnRecord, FirstToClick, EvidenceStages
<1>4. clicks'[e] = 1 /\ \A f \in Executions \ {e} : clicks'[f] = clicks[f]
  BY <1>1, <1>3 DEF Click, AInv, TypeOK
<1>5. ASSUME NEW b \in Attempts, b # a, RunsIntact(b)
      PROVE  att[b].exec # e
  BY <1>3, <1>5 DEF CInv, RunnersLease
<1>6. queue[e].status \in Active /\ queue[e].token = a /\ a # None
  <2>1. a # None /\ e \in Intact
    BY DEF Attempts, None
  <2> HIDE DEF e
  <2> QED BY <1>1, <1>3, <2>1, TokenFacts
<1>7. ASSUME NEW f \in Intact, f # e, queue[f].token # None
      PROVE  queue[f].token \in Attempts \ {a}
  BY <1>7, TokenFacts
<1>8. InStep'
  BY <1>1, <1>2 DEF CInv, InStep, Goes
<1>9. Leased'
  BY <1>1, <1>2, TokenFacts DEF Leased, Goes
<1>10. RunnersLease' /\ GateIsOnRecord'
  <2>1. ASSUME NEW b \in Attempts, RunsIntact(b)'
        PROVE  /\ RunsIntact(b) /\ Used(b)
               /\ att'[b].exec = att[b].exec /\ att'[b].stage = att[b].stage
    BY <1>1, <1>2, <2>1 DEF Goes, Runs, RunsIntact
  <2> QED BY <1>1, <2>1 DEF CInv, RunnersLease, GateIsOnRecord
<1>11. FirstToClick'
  <2> SUFFICES ASSUME NEW b \in Attempts, RunsIntact(b)', ~att'[b].clicked
               PROVE  clicks'[att'[b].exec] = 0
    BY DEF FirstToClick
  <2>1. b # a /\ RunsIntact(b) /\ att'[b] = att[b] /\ Used(b)
    BY <1>1, <1>2 DEF Goes, Runs, RunsIntact
  <2>2. att[b].exec \in Executions \ {e}
    BY <1>5, <2>1, AttemptFields DEF AInv, TypeOK, Used
  <2>3. clicks[att[b].exec] = 0
    BY <2>1 DEF CInv, FirstToClick
  <2> QED BY <1>4, <2>1, <2>2, <2>3
<1>12. WaitingIsUnclicked' /\ AtMostOne' /\ PublishedIsClicked'
  BY <1>1, <1>4, <1>6 DEF WaitingIsUnclicked, AtMostOne, PublishedIsClicked, CInv, Active
<1>13. ClickedIsOnRecord'
  <2> SUFFICES ASSUME NEW f \in Intact, clicks'[f] > 0
               PROVE  /\ queue[f].evidence
                      /\ queue[f].lease # None =>
                           att'[queue[f].lease].stage \in {"announced", "concluded"}
    BY <1>1 DEF ClickedIsOnRecord
  <2>1. CASE f = e
    BY <1>2, <1>3, <2>1
  <2>2. CASE f # e
    <3>1. /\ queue[f].evidence
          /\ queue[f].lease # None => att[queue[f].lease].stage \in {"announced", "concluded"}
      BY <1>4, <2>2 DEF CInv, ClickedIsOnRecord
    <3>2. queue[f].lease # None => queue[f].lease \in Attempts \ {a}
      BY <1>7, <2>2, TokenFacts
    <3> QED BY <1>2, <3>1, <3>2
  <2> QED BY <2>1, <2>2
<1>14. LastClickCounts'
  <2> SUFFICES ASSUME NEW f \in Intact, queue[f].token # None,
                      \/ queue[f].lease # None
                      \/ queue[f].status = "uncertain" /\ queue[f].interrupted,
                      att'[queue[f].token].clicked
               PROVE  clicks'[f] > 0
    BY <1>1 DEF LastClickCounts
  <2>1. CASE f = e
    BY <1>4, <2>1
  <2>2. CASE f # e
    <3>1. att[queue[f].token].clicked
      BY <1>2, <1>7, <2>2
    <3> QED BY <1>4, <2>2, <3>1 DEF CInv, LastClickCounts
  <2> QED BY <2>1, <2>2
<1> QED BY <1>8, <1>9, <1>10, <1>11, <1>12, <1>13, <1>14 DEF CInv

\* An attempt of an execution whose record has been set back disturbs no other.
LEMMA CLostAttempt ==
  ASSUME AInv, CInv, "lost_lines" \notin Faults, NEW a \in Attempts,
         att[a].exec \notin Intact,
         \/ StartupFails(a) \/ Finish(a) \/ PrepFinish(a) \/ CancelledTaskEnds(a)
         \/ Advance(a) \/ Conclude(a) \/ Click(a)
  PROVE  CInv'
<1> DEFINE e == att[a].exec
<1>1. /\ \A b \in Attempts : Goes(b) /\ (b # a => Silent(b))
      /\ Used(a) => ~att'[a].unread
  <2>1. CASE StartupFails(a) \/ Finish(a) \/ PrepFinish(a) \/ CancelledTaskEnds(a)
    <3>1. \A b \in Attempts : Goes(b) /\ Silent(b)
      BY <2>1, AStartupFails, AFinish, APrepFinish, ACancelledTaskEnds
    <3> QED BY <3>1, SilentReads
  <2>2. ASSUME \A b \in Attempts : Goes(b), \A b \in Attempts \ {a} : att'[b] = att[b],
               ~att'[a].unread
        PROVE  /\ \A b \in Attempts : Goes(b) /\ (b # a => Silent(b))
               /\ Used(a) => ~att'[a].unread
    BY <2>2 DEF Silent
  <2>3. CASE Advance(a)
    BY <2>2, <2>3, AdvanceGoes
  <2>4. CASE Conclude(a)
    BY <2>2, <2>4, ConcludeGoes
  <2>5. CASE Click(a)
    <3>1. Used(a) /\ ~att[a].unread
      BY <2>5 DEF Click, Alive, CInv, InStep
    <3>2. att'[a].unread = att[a].unread
      BY <2>5, ClickGoes
    <3> QED BY <2>2, <2>5, <3>1, <3>2, ClickGoes
  <2> QED BY <2>1, <2>3, <2>4, <2>5
<1>2. slow' = slow
  BY DEF StartupFails, Finish, PrepFinish, CancelledTaskEnds, Advance, Conclude, Click
<1>3. queue' = queue \/ \E y : Update(e, y)
  BY DEF StartupFails, Finish, PrepFinish, CancelledTaskEnds, Advance, Conclude, Click,
         PrintStage, Update
<1>4. clicks' = clicks \/ clicks' = [clicks EXCEPT ![e] = @ + 1]
  BY DEF StartupFails, Finish, PrepFinish, CancelledTaskEnds, Advance, Conclude, Click
<1>5. \A f \in Executions \ {e} : queue'[f] = queue[f] /\ clicks'[f] = clicks[f]
  BY <1>3, <1>4 DEF Update, AInv, TypeOK
<1>6. \A b \in Attempts : Used(b) => ~att'[b].unread
  BY <1>1 DEF CInv, InStep, Silent
<1>7. \A b \in Attempts : Used(b) /\ att[b].exec # e => Silent(b)
  BY <1>1
<1> QED BY <1>1, <1>2, <1>5, <1>6, <1>7, OthersKept

-----------------------------------------------------------------------------
(* Recovery and the operator *)

\* A record is closed, or nothing is said of it, while the attempts stay as they are.
LEMMA QueueSettles ==
  ASSUME AInv, CInv, att' = att, slow' = slow,
         NEW e \in Executions, NEW y \in Record, Update(e, y),
         clicks' = clicks \/ clicks' = [clicks EXCEPT ![e] = 0],
         e \in Intact => /\ queue[e].lease # None => ~Runs(queue[e].lease)
                         /\ Settles(e, y, clicks'[e])
  PROVE  CInv'
<1>1. \A b \in Attempts : Goes(b) /\ Silent(b)
  BY AttemptsStay
<1>2. CASE e \in Intact
  <2>1. \A b \in Attempts : queue[e].lease = b => ~Runs(b)'
    BY <1>1, <1>2 DEF Goes, Attempts, None
  <2> QED BY <1>1, <1>2, <2>1, OneSettles
<1>3. CASE e \notin Intact
  <2>1. \A f \in Executions \ {e} : queue'[f] = queue[f] /\ clicks'[f] = clicks[f]
    BY DEF Update, AInv, TypeOK
  <2>2. \A b \in Attempts : Goes(b) /\ (Used(b) => ~att'[b].unread)
    BY <1>1, SilentReads
  <2> QED BY <1>1, <1>3, <2>1, <2>2, OthersKept
<1> QED BY <1>2, <1>3

\* Recovery closes what no task looks after any more; it calls published only
\* what the last attempt clicked, and repeats only a preparation.
LEMMA StaleSettles ==
  ASSUME AInv, CInv, NEW e \in Intact, Stale(queue[e])
  PROVE  LET x == queue[e] IN
         /\ x.lease # None /\ ~Runs(x.lease)
         /\ Settles(e, Recovered(x), clicks[e])
<1> DEFINE x == queue[e]
           y == Recovered(x)
<1>1. x \in Record
  BY TokenFacts
<1>2. /\ x.lease # None /\ x.token = x.lease /\ x.lease \in Attempts
      /\ Used(x.token) /\ Told(att[x.token]) /\ x.status \in Active
  BY TokenFacts DEF Stale
<1>3. ~Runs(x.lease)
  <2>1. att[x.lease].task = "over"
    BY <1>2 DEF Stale, StillActive, InTask
  <2> QED BY <1>2, <2>1 DEF Runs, AInv, TasksLead, Led
<1>4. /\ y \in Record /\ y.lease = None /\ y.token = x.token
      /\ x.evidence => y.evidence
      /\ \/ y.status = "published" /\ Completed(x)
         \/ y.status = "pending" /\ ~x.evidence
         \/ y.status \in {"failed_before_publish", "uncertain"}
  BY <1>1, RecoveredFacts
<1>5. att[x.token].clicked => clicks[e] > 0
  BY <1>2, LeaseClickCounts
<1>6. Completed(x) => clicks[e] > 0
  <2> SUFFICES ASSUME Completed(x)
               PROVE  att[x.token].clicked
    BY <1>5
  <2>1. Durable(x.token)
    BY <1>2 DEF Completed, OwnResult
  <2> QED BY <1>2, <2>1 DEF Durable, Told
<1>7. ~x.evidence => clicks[e] = 0
  BY Unclicked
<1>8. clicks[e] > 0 => x.evidence
  BY DEF CInv, ClickedIsOnRecord
<1> HIDE DEF y
<1>9. Settles(e, y, clicks[e])
  BY <1>4, <1>5, <1>6, <1>7, <1>8 DEF Settles, Active
<1> QED BY <1>2, <1>3, <1>9 DEF y

\* An uncertain record becomes published on the result of the attempt whose token
\* it still carries.
LEMMA TurnedUpSettles ==
  ASSUME AInv, CInv, NEW e \in Intact, TurnedUp(queue[e])
  PROVE  queue[e].lease = None /\ Settles(e, AsPublished(queue[e]), clicks[e])
<1> DEFINE x == queue[e]
           y == AsPublished(x)
<1>1. /\ x \in Record /\ x.status = "uncertain"
      /\ x.lease = None /\ x.interrupted /\ OwnResult(x)
  BY TokenFacts DEF TurnedUp, Completed, Active
<1>2. x.token # None /\ Durable(x.token)
  BY <1>1 DEF OwnResult
<1>3. att[x.token].clicked
  BY <1>2, TokenFacts DEF Durable, Told
<1>4. clicks[e] > 0
  BY <1>1, <1>2, <1>3 DEF CInv, LastClickCounts
<1>5. /\ y \in Record /\ y.lease = x.lease /\ y.status = "published" /\ y.token = x.token
      /\ y.evidence
  BY <1>1, PublishedFacts
<1> HIDE DEF y
<1>6. Settles(e, y, clicks[e])
  BY <1>1, <1>4, <1>5 DEF Settles, Active
<1> QED BY <1>1, <1>6 DEF y

\* Whatever starts an execution over: it was not active, and it was not clicked or
\* the operator asks for one more click.
LEMMA StartsOver ==
  ASSUME AInv, CInv, NEW e \in Intact, NEW y \in Record,
         queue[e].status \notin Active, y.lease = queue[e].lease, y.token = queue[e].token,
         y.status \in {"pending", "failed_before_publish"}
  PROVE  queue[e].lease = None /\ Settles(e, y, 0)
<1>1. queue[e].lease = None
  BY TokenFacts
<1> QED BY <1>1 DEF Settles, Active

\* Whatever recovery finds in an intact record, at its own moment or in a copy that
\* is still the record.
LEMMA RecoverySettles ==
  ASSUME AInv, CInv, NEW e \in Intact,
         Stale(queue[e]) \/ TurnedUp(queue[e]) \/ Unprepared(e, queue[e])
  PROVE  /\ queue[e].lease # None => ~Runs(queue[e].lease)
         /\ Settles(e, RecoveryOf(queue[e]), clicks[e])
<1>1. CASE Stale(queue[e])
  <2>1. RecoveryOf(queue[e]) = Recovered(queue[e])
    BY <1>1 DEF Stale, RecoveryOf, Active
  <2> QED BY <1>1, <2>1, StaleSettles
<1>2. CASE TurnedUp(queue[e])
  <2>1. RecoveryOf(queue[e]) = AsPublished(queue[e])
    BY <1>2 DEF TurnedUp, RecoveryOf, Active
  <2> QED BY <1>2, <2>1, TurnedUpSettles
<1>3. CASE Unprepared(e, queue[e])
  <2> DEFINE y == [PreparedAgain(queue[e]) EXCEPT !.lastActive = FALSE]
  <2>1. queue[e].status = "ready"
    BY <1>3 DEF Unprepared
  <2>2. RecoveryOf(queue[e]) = y
    BY <2>1 DEF RecoveryOf, Active
  <2>3. /\ y \in Record /\ y.status = "pending"
        /\ y.lease = queue[e].lease /\ y.token = queue[e].token
    BY TokenFacts, AgainFacts
  <2> HIDE DEF y
  <2>4. clicks[e] = 0
    BY <2>1 DEF CInv, WaitingIsUnclicked
  <2> QED BY <2>1, <2>2, <2>3, <2>4, StartsOver DEF Active
<1> QED BY <1>1, <1>2, <1>3

LEMMA CRecovery ==
  ASSUME AInv, CInv, NEW e \in Executions, Recovery(e)
  PROVE  CInv'
<1>1. queue[e] \in Record /\ clicks \in [Executions -> Nat]
  BY DEF AInv, TypeOK
<1>2. CASE RecoverStale(e) \/ RecoverUncertain(e) \/ RecoverReady(e)
  <2>1. /\ Stale(queue[e]) \/ TurnedUp(queue[e]) \/ Unprepared(e, queue[e])
        /\ Update(e, RecoveryOf(queue[e])) /\ UNCHANGED <<att, slow, clicks>>
    BY <1>2 DEF RecoverStale, RecoverUncertain, RecoverReady
  <2>2. RecoveryOf(queue[e]) \in Record
    BY <1>1, <2>1, RecoveryFacts DEF Stale, TurnedUp, Unprepared
  <2> QED BY <2>1, <2>2, RecoverySettles, QueueSettles
<1>3. CASE NetworkRetry(e)
  <2> DEFINE y == [PreparedAgain(queue[e]) EXCEPT !.evidence = FALSE, !.reviewed = FALSE,
                     !.lastActive = FALSE, !.review = FALSE, !.claim = None]
  <2>1. /\ Update(e, y) /\ UNCHANGED <<att, slow, clicks>>
        /\ queue[e].status = "failed_before_publish" /\ ~queue[e].evidence
    BY <1>3, SMTT(30) DEF NetworkRetry, SafeToRetry, HasPublicationEvidence
  <2>2. /\ y \in Record /\ y.status = "pending"
        /\ y.lease = queue[e].lease /\ y.token = queue[e].token
    BY <1>1, AgainFacts
  <2> HIDE DEF y
  <2>3. e \in Intact => clicks[e] = 0
    BY <2>1, Unclicked
  <2>4. e \in Intact => queue[e].lease = None /\ Settles(e, y, clicks'[e])
    BY <2>1, <2>2, <2>3, StartsOver DEF Active
  <2> QED BY <2>1, <2>2, <2>4, QueueSettles
<1> QED BY <1>2, <1>3 DEF Recovery

\* What run-now and the review write of an intact record.
LEMMA OperatorSettles ==
  ASSUME AInv, CInv, NEW e \in Intact
  PROVE  LET x == queue[e] IN
         /\ ManualRetryOf(x) => x.lease = None /\ Settles(e, RunNowRecord(x), 0)
         /\ x.status = "uncertain" =>
              /\ x.lease = None
              /\ Settles(e, ReviewedPublished(x), clicks[e])
              /\ Settles(e, ReviewedNotPublished(x), 0)
<1>1. queue[e] \in Record
  BY TokenFacts
<1>2. ASSUME ManualRetryOf(queue[e])
      PROVE  queue[e].lease = None /\ Settles(e, RunNowRecord(queue[e]), 0)
  <2>1. queue[e].status \notin Active
    BY <1>2 DEF ManualRetryOf, Active
  <2> QED BY <1>1, <2>1, RunNowFacts, StartsOver
<1>3. ASSUME queue[e].status = "uncertain"
      PROVE  /\ queue[e].lease = None
             /\ Settles(e, ReviewedPublished(queue[e]), clicks[e])
             /\ Settles(e, ReviewedNotPublished(queue[e]), 0)
  <2>1. queue[e].lease = None
    BY <1>3, TokenFacts DEF Active
  <2>2. Settles(e, ReviewedPublished(queue[e]), clicks[e])
    BY <1>1, <2>1, ResolvedFacts DEF Settles, Active
  <2>3. Settles(e, ReviewedNotPublished(queue[e]), 0)
    BY <1>1, <1>3, ResolvedFacts, StartsOver DEF Active
  <2> QED BY <2>1, <2>2, <2>3
<1> QED BY <1>2, <1>3

LEMMA COperator ==
  ASSUME AInv, CInv, NEW e \in Executions, Operator(e)
  PROVE  CInv'
<1>1. queue[e] \in Record /\ clicks \in [Executions -> Nat]
  BY DEF AInv, TypeOK
<1>2. CASE RunNow(e)
  <2>1. /\ Update(e, RunNowRecord(queue[e])) /\ UNCHANGED <<att, slow>>
        /\ clicks' = [clicks EXCEPT ![e] = 0] /\ ManualRetryOf(queue[e])
    BY <1>2 DEF RunNow
  <2>2. RunNowRecord(queue[e]) \in Record /\ clicks'[e] = 0
    BY <1>1, <2>1, RunNowFacts
  <2> QED BY <2>1, <2>2, OperatorSettles, QueueSettles
<1>3. CASE RunNowCancelled(e)
  <2> DEFINE y == [PreparedAgain(queue[e]) EXCEPT !.claim = ManualRetry, !.held = FALSE,
                                                  !.cancelAsked = FALSE]
  <2>1. /\ Update(e, y) /\ UNCHANGED <<att, slow, clicks>>
        /\ queue[e].status = "cancelled"
    BY <1>3, SMTT(30) DEF RunNowCancelled
  <2>2. /\ y \in Record /\ y.status = "pending"
        /\ y.lease = queue[e].lease /\ y.token = queue[e].token
    BY <1>1, AgainFacts
  <2> HIDE DEF y
  <2>3. e \in Intact => clicks'[e] = 0
    BY <2>1 DEF CInv, WaitingIsUnclicked
  <2>4. e \in Intact => queue[e].lease = None /\ Settles(e, y, clicks'[e])
    BY <2>1, <2>2, <2>3, StartsOver DEF Active
  <2> QED BY <2>1, <2>2, <2>4, QueueSettles
<1>4. CASE ResolvePublished(e)
  <2>1. /\ Update(e, ReviewedPublished(queue[e])) /\ UNCHANGED <<att, slow, clicks>>
        /\ queue[e].status = "uncertain"
    BY <1>4 DEF ResolvePublished
  <2>2. ReviewedPublished(queue[e]) \in Record
    BY <1>1, ResolvedFacts
  <2> QED BY <2>1, <2>2, OperatorSettles, QueueSettles
<1>5. CASE ResolveNotPublished(e)
  <2>1. /\ Update(e, ReviewedNotPublished(queue[e])) /\ UNCHANGED <<att, slow>>
        /\ clicks' = [clicks EXCEPT ![e] = 0] /\ queue[e].status = "uncertain"
    BY <1>5 DEF ResolveNotPublished
  <2>2. ReviewedNotPublished(queue[e]) \in Record /\ clicks'[e] = 0
    BY <1>1, <2>1, ResolvedFacts
  <2> QED BY <2>1, <2>2, OperatorSettles, QueueSettles
<1> QED BY <1>2, <1>3, <1>4, <1>5 DEF Operator

\* A writer that saves its copy of the queue: what is still intact then is in the
\* copy as it is in the queue, so that the writer settles it or keeps it.
LEMMA SavesStep ==
  ASSUME AInv, CInv, slow.job # Free, NEW q \in [Executions -> Record], Saves(q),
         \A e \in Intact : slow.job.copy[e] = queue[e] =>
            \/ q[e] = queue[e] /\ clicks'[e] = clicks[e]
            \/ /\ queue[e].lease # None => ~Runs(queue[e].lease)
               /\ Settles(e, q[e], clicks'[e])
  PROVE  CInv'
<1>1. /\ slow'.lost = slow.lost \cup {e \in Executions : slow.job.copy[e] # queue[e]}
      /\ queue' = q /\ att' = att
  BY DEF Saves
<1>2. /\ Intact' \subseteq Intact /\ Intact \subseteq Executions
      /\ \A e \in Intact' : slow.job.copy[e] = queue[e]
  BY <1>1 DEF Intact
<1>3. \A b \in Attempts : Goes(b) /\ Silent(b)
  BY <1>1, AttemptsStay
<1>4. ASSUME NEW e \in Intact'
      PROVE  Kept(e) \/ (Deserted(e) /\ Settles(e, queue'[e], clicks'[e]))
  <2>1. CASE q[e] = queue[e] /\ clicks'[e] = clicks[e]
    BY <1>1, <2>1 DEF Kept
  <2>2. CASE /\ queue[e].lease # None => ~Runs(queue[e].lease)
             /\ Settles(e, q[e], clicks'[e])
    <3>1. \A b \in Attempts : queue[e].lease = b => ~Runs(b)'
      BY <1>3, <2>2 DEF Goes, Attempts, None
    <3>2. Deserted(e)
      BY <1>2, <1>3, <1>4, <3>1, NobodyRuns
    <3> QED BY <1>1, <2>2, <3>2
  <2> QED BY <1>2, <1>4, <2>1, <2>2
<1> QED BY <1>2, <1>3, <1>4, SettleStep, SilentReads, SilentIsSteady

LEMMA CUnlockedSave ==
  ASSUME AInv, CInv, UnlockedSave
  PROVE  CInv'
<1> DEFINE e == slow.job.exec
           copy == slow.job.copy
<1>1. clicks \in [Executions -> Nat] /\ Intact \subseteq Executions
  BY DEF AInv, TypeOK, Intact
<1>2. slow.job # Free /\ copy \in [Executions -> Record]
  BY JobFacts DEF UnlockedSave, RunNowSaves, ReviewSaves, SweepSaves, NothingSaved
<1>3. slow.job.kind # "sweep" => e \in Executions /\ copy[e] \in Record
  BY <1>2 DEF AInv, PendingAllowed
<1> HIDE DEF copy
<1>4. CASE RunNowSaves
  <2>1. e \in Executions /\ copy[e] \in Record /\ ManualRetryOf(copy[e])
    BY <1>2, <1>3, <1>4 DEF RunNowSaves, AInv, PendingAllowed, copy
  <2> DEFINE q == [copy EXCEPT ![e] = RunNowRecord(copy[e])]
  <2>2. Saves(q) /\ clicks' = [clicks EXCEPT ![e] = 0]
    BY <1>2, <1>4 DEF RunNowSaves, copy
  <2>3. q \in [Executions -> Record]
    BY <1>2, <2>1, RunNowFacts
  <2>4. q[e] = RunNowRecord(copy[e]) /\ \A f \in Executions \ {e} : q[f] = copy[f]
    BY <1>2, <2>1
  <2>5. clicks'[e] = 0 /\ \A f \in Executions \ {e} : clicks'[f] = clicks[f]
    BY <1>1, <2>1, <2>2
  <2> HIDE DEF q, e
  <2>6. ASSUME NEW f \in Intact, copy[f] = queue[f]
        PROVE  \/ q[f] = queue[f] /\ clicks'[f] = clicks[f]
               \/ /\ queue[f].lease # None => ~Runs(queue[f].lease)
                  /\ Settles(f, q[f], clicks'[f])
    <3>1. CASE f = e
      BY <2>1, <2>4, <2>5, <2>6, <3>1, OperatorSettles
    <3>2. CASE f # e
      BY <1>1, <2>4, <2>5, <2>6, <3>2
    <3> QED BY <3>1, <3>2
  <2> QED BY <1>2, <2>2, <2>3, <2>6, SavesStep DEF copy
<1>5. CASE ReviewSaves
  <2>1. e \in Executions /\ copy[e] \in Record /\ copy[e].status = "uncertain"
    BY <1>2, <1>3, <1>5 DEF ReviewSaves, AInv, PendingAllowed, copy
  <2>2. PICK y, n :
          /\ Saves([copy EXCEPT ![e] = y])
          /\ \/ y = ReviewedPublished(copy[e]) /\ clicks' = clicks /\ n = clicks[e]
             \/ y = ReviewedNotPublished(copy[e]) /\ n = 0
                /\ clicks' = [clicks EXCEPT ![e] = 0]
    BY <1>2, <1>5 DEF ReviewSaves, copy
  <2> DEFINE q == [copy EXCEPT ![e] = y]
  <2>3. q \in [Executions -> Record]
    BY <1>2, <2>1, <2>2, ResolvedFacts
  <2>4. q[e] = y /\ \A f \in Executions \ {e} : q[f] = copy[f]
    BY <1>2, <2>1
  <2>5. clicks'[e] = n /\ \A f \in Executions \ {e} : clicks'[f] = clicks[f]
    BY <1>1, <2>1, <2>2
  <2>6. Saves(q)
    BY <2>2
  <2> HIDE DEF q, e
  <2>7. ASSUME NEW f \in Intact, copy[f] = queue[f]
        PROVE  \/ q[f] = queue[f] /\ clicks'[f] = clicks[f]
               \/ /\ queue[f].lease # None => ~Runs(queue[f].lease)
                  /\ Settles(f, q[f], clicks'[f])
    <3>1. CASE f = e
      BY <2>1, <2>2, <2>4, <2>5, <2>7, <3>1, OperatorSettles
    <3>2. CASE f # e
      BY <1>1, <2>4, <2>5, <2>7, <3>2
    <3> QED BY <3>1, <3>2
  <2> QED BY <1>2, <2>3, <2>6, <2>7, SavesStep DEF copy
<1>6. CASE SweepSaves
  <2>1. PICK found \in SUBSET {f \in Executions :
                 Stale(copy[f]) \/ TurnedUp(copy[f]) \/ Unprepared(f, copy[f])} :
          Saves([f \in Executions |-> IF f \in found THEN RecoveryOf(copy[f]) ELSE copy[f]])
    BY <1>6 DEF SweepSaves, copy
  <2> DEFINE q == [f \in Executions |-> IF f \in found THEN RecoveryOf(copy[f]) ELSE copy[f]]
  <2>2. ASSUME NEW f \in found
        PROVE  RecoveryOf(copy[f]) \in Record
    BY <1>2, RecoveryFacts DEF Stale, TurnedUp, Unprepared
  <2>3. q \in [Executions -> Record]
    BY <1>2, <2>2
  <2>4. clicks' = clicks
    BY <1>6 DEF SweepSaves
  <2>5. ASSUME NEW f \in Intact, copy[f] = queue[f]
        PROVE  \/ q[f] = queue[f] /\ clicks'[f] = clicks[f]
               \/ /\ queue[f].lease # None => ~Runs(queue[f].lease)
                  /\ Settles(f, q[f], clicks'[f])
    <3>1. CASE f \in found
      <4>1. Stale(queue[f]) \/ TurnedUp(queue[f]) \/ Unprepared(f, queue[f])
        BY <2>5, <3>1
      <4>2. q[f] = RecoveryOf(queue[f])
        BY <1>1, <2>5, <3>1
      <4> QED BY <2>4, <4>1, <4>2, RecoverySettles
    <3>2. CASE f \notin found
      BY <1>1, <2>4, <2>5, <3>2
    <3> QED BY <3>1, <3>2
  <2> HIDE DEF q
  <2>6. Saves(q)
    BY <2>1 DEF q
  <2> QED BY <1>2, <2>3, <2>5, <2>6, SavesStep DEF copy
<1>7. CASE NothingSaved
  <2>1. UNCHANGED <<queue, att, clicks>> /\ slow'.lost = slow.lost
    BY <1>7 DEF NothingSaved, AInv, TypeOK
  <2> QED BY <2>1, AttemptsStay, NothingWritten
<1> QED BY <1>4, <1>5, <1>6, <1>7 DEF UnlockedSave

\* A rerun of the batch takes back only what has left no publication stage.
LEMMA CRerun ==
  ASSUME AInv, CInv, Rerun
  PROVE  CInv'
<1>1. UNCHANGED <<att, slow, clicks>> /\ \A b \in Attempts : Goes(b) /\ Silent(b)
  BY AttemptsStay DEF Rerun
<1>2. ASSUME NEW e \in Intact
      PROVE  Kept(e) \/ (Deserted(e) /\ Settles(e, queue'[e], clicks'[e]))
  <2>1. CASE ~Eligible(e)
    BY <1>1, <2>1 DEF Kept, Rerun, Intact
  <2>2. CASE Eligible(e)
    <3> DEFINE y == [PreparedAgain(queue[e]) EXCEPT !.held = FALSE, !.cancelAsked = FALSE]
    <3>1. queue'[e] = y /\ queue[e] \in Record
      <4>1. e \in Executions
        BY DEF Intact
      <4> QED BY <2>2, <4>1, ZenonT(60) DEF Rerun, AInv, TypeOK
    <3>2. y.status = "pending" /\ y.lease = queue[e].lease /\ y.token = queue[e].token
      BY <3>1, AgainFacts
    <3> HIDE DEF y
    <3>3. ~queue[e].evidence /\ queue[e].lease = None
      BY <2>2, TokenFacts DEF Eligible, HasPublicationEvidence
    <3>4. clicks[e] = 0
      BY <3>3, Unclicked
    <3>5. Settles(e, queue'[e], clicks'[e])
      BY <1>1, <3>1, <3>2, <3>3, <3>4 DEF Settles, Active
    <3>6. Deserted(e)
      BY <1>1, <3>3, NobodyRuns DEF Attempts, None
    <3> QED BY <3>5, <3>6
  <2> QED BY <2>1, <2>2
<1>3. Intact' = Intact
  BY <1>1 DEF Intact
<1> QED BY <1>1, <1>2, <1>3, SettleStep, SilentReads, SilentIsSteady

LEMMA CCancelAll ==
  ASSUME AInv, CInv, CancelAll
  PROVE  CInv'
<1>1. UNCHANGED <<slow, clicks>> /\ \A b \in Attempts : Goes(b) /\ Silent(b)
  BY CancelAllGoes DEF CancelAll
<1>2. ASSUME NEW e \in Intact
      PROVE  Kept(e) \/ (Deserted(e) /\ Settles(e, queue'[e], clicks'[e]))
  <2> DEFINE y == queue'[e]
  <2>1. /\ y.status = IF queue[e].status \in {"pending", "ready"} THEN "cancelled"
                      ELSE queue[e].status
        /\ y.lease = queue[e].lease /\ y.token = queue[e].token
        /\ y.evidence = queue[e].evidence
        /\ y.interrupted = queue[e].interrupted /\ y.review = queue[e].review
    BY CancelAllFacts DEF Intact
  <2> HIDE DEF y
  <2>2. CASE queue[e].status \in {"pending", "ready"}
    <3>1. clicks[e] = 0 /\ queue[e].lease = None
      BY <2>2, TokenFacts DEF CInv, WaitingIsUnclicked, Active
    <3>2. Settles(e, y, clicks'[e])
      BY <1>1, <2>1, <2>2, <3>1 DEF Settles, Active
    <3>3. Deserted(e)
      BY <1>1, <3>1, NobodyRuns DEF Attempts, None
    <3> QED BY <3>2, <3>3 DEF y
  <2>3. CASE queue[e].status \notin {"pending", "ready"}
    BY <1>1, <2>1, <2>3 DEF Kept, y
  <2> QED BY <2>2, <2>3
<1>3. Intact' = Intact
  BY <1>1 DEF Intact
<1> QED BY <1>1, <1>2, <1>3, SettleStep, SilentReads, SilentIsSteady, SMTT(30)

\* What is claimed was waiting: it has not been clicked, and nobody runs on its
\* account.
LEMMA CClaim ==
  ASSUME AInv, CInv, NEW a \in Attempts, NEW e \in Executions, Claim(a, e)
  PROVE  CInv'
<1>1. PICK y \in Record :
        /\ Update(e, y) /\ y.status \in Active /\ y.lease = a /\ y.token = a
  BY ClaimWrites
<1>2. PICK w \in Attempt :
        /\ att' = [att EXCEPT ![a] = w]
        /\ w.exec = e /\ w.task = "starting" /\ w.worker = "none"
        /\ w.stage = "idle" /\ ~w.clicked /\ ~w.unread /\ Told(w) /\ Led(w)
  BY ClaimBegins
<1>3. queue'[e] = y /\ \A f \in Executions \ {e} : queue'[f] = queue[f]
  BY <1>1, UpdateTypes
<1>4. att'[a] = w /\ \A b \in Attempts \ {a} : att'[b] = att[b]
  BY <1>2 DEF AInv, TypeOK
<1>5. /\ UNCHANGED <<slow, clicks>> /\ ~Used(a) /\ (e \in Intact => clicks[e] = 0)
      /\ w # Unused /\ Intact' = Intact /\ Intact \subseteq Executions
  BY AttemptFields DEF Claim, CInv, WaitingIsUnclicked, Intact
<1>6. ASSUME NEW f \in Intact, queue[f].token # None
      PROVE  queue[f].token \in Attempts \ {a}
  BY <1>5, <1>6, TokenFacts
<1>7. ASSUME NEW b \in Attempts, b # a, Runs(b)'
      PROVE  Runs(b) /\ Used(b) /\ att'[b] = att[b] /\ att[b].exec \in Executions \ {e}
  <2>1. Runs(b) /\ Used(b) /\ att'[b] = att[b]
    BY <1>4, <1>7 DEF Runs, Used
  <2>2. att[b].exec \in Executions
    BY <2>1, AttemptFields DEF AInv, TypeOK, Used
  <2>3. att[b].exec # e
    BY <2>1, ClaimedAlone
  <2> QED BY <2>1, <2>2, <2>3
<1>8. a # None
  BY DEF Attempts, None
<1>9. InStep'
  BY <1>2, <1>4, <1>5 DEF CInv, InStep, Used
<1>10. Leased'
  <2>1. ASSUME NEW f \in Intact, f # e
        PROVE  LET x == queue[f] IN
               /\ x.status \in Active <=> x.lease # None
               /\ x.lease # None => x.token = x.lease
               /\ x.token # None => att'[x.token] # Unused /\ att'[x.token].exec = f
    <3> DEFINE x == queue[f]
    <3>1. /\ x.token # None => Used(x.token) /\ att[x.token].exec = f
          /\ x.lease # None => x.token = x.lease /\ x.status \in Active
          /\ x.status \in Active => x.lease # None
      BY TokenFacts
    <3>2. x.token # None => x.token \in Attempts \ {a}
      BY <1>6
    <3> HIDE DEF x
    <3>3. x.token # None => att'[x.token] # Unused /\ att'[x.token].exec = f
      BY <1>4, <3>1, <3>2 DEF Used
    <3> QED BY <3>1, <3>3 DEF x
  <2>2. /\ queue'[e].status \in Active /\ queue'[e].lease = a /\ queue'[e].token = a
        /\ a # None /\ att'[a] # Unused /\ att'[a].exec = e
    BY <1>1, <1>2, <1>3, <1>4, <1>5, <1>8
  <2>3. ASSUME NEW f \in Intact
        PROVE  LET x == queue'[f] IN
               /\ x.status \in Active <=> x.lease # None
               /\ x.lease # None => x.token = x.lease
               /\ x.token # None => att'[x.token] # Unused /\ att'[x.token].exec = f
    <3>1. CASE f = e
      BY <2>2, <3>1
    <3>2. CASE f # e
      BY <1>3, <1>5, <2>1, <3>2
    <3> QED BY <3>1, <3>2
  <2> QED BY <1>5, <2>3 DEF Leased, Used
<1>11. RunnersLease' /\ GateIsOnRecord' /\ FirstToClick'
  <2>1. ASSUME NEW b \in Attempts, RunsIntact(b)'
        PROVE  /\ queue'[att'[b].exec].lease = b
               /\ att'[b].stage \in EvidenceStages => queue'[att'[b].exec].evidence
               /\ ~att'[b].clicked => clicks'[att'[b].exec] = 0
    <3>1. CASE b = a
      <4>1. att'[b].exec = e /\ att'[b].stage \notin EvidenceStages
        BY <1>2, <1>4, <3>1 DEF EvidenceStages
      <4>2. queue'[e].lease = a /\ clicks'[e] = 0
        BY <1>1, <1>2, <1>3, <1>4, <1>5, <2>1, <3>1 DEF RunsIntact
      <4> QED BY <3>1, <4>1, <4>2
    <3>2. CASE b # a
      <4>1. /\ RunsIntact(b) /\ att'[b] = att[b] /\ att[b].exec \in Executions \ {e}
        BY <1>5, <1>7, <2>1, <3>2 DEF RunsIntact
      <4>2. /\ queue[att[b].exec].lease = b
            /\ att[b].stage \in EvidenceStages => queue[att[b].exec].evidence
            /\ ~att[b].clicked => clicks[att[b].exec] = 0
        BY <4>1 DEF CInv, RunnersLease, GateIsOnRecord, FirstToClick
      <4> QED BY <1>3, <1>5, <4>1, <4>2
    <3> QED BY <3>1, <3>2
  <2> QED BY <2>1 DEF RunnersLease, GateIsOnRecord, FirstToClick
<1>12. WaitingIsUnclicked' /\ AtMostOne' /\ PublishedIsClicked'
  BY <1>1, <1>3, <1>5 DEF CInv, WaitingIsUnclicked, AtMostOne, PublishedIsClicked, Active
<1>13. ClickedIsOnRecord'
  <2> SUFFICES ASSUME NEW f \in Intact, clicks[f] > 0
               PROVE  /\ queue'[f].evidence
                      /\ queue'[f].lease # None =>
                           att'[queue'[f].lease].stage \in {"announced", "concluded"}
    BY <1>5 DEF ClickedIsOnRecord
  <2>1. f # e
    BY <1>5
  <2>2. /\ queue[f].evidence
        /\ queue[f].lease # None => att[queue[f].lease].stage \in {"announced", "concluded"}
    BY DEF CInv, ClickedIsOnRecord
  <2>3. queue[f].lease # None => queue[f].lease \in Attempts \ {a}
    BY <1>6, TokenFacts
  <2>4. queue'[f] = queue[f]
    BY <1>3, <1>5, <2>1
  <2> QED BY <1>4, <2>2, <2>3, <2>4
<1>14. LastClickCounts'
  <2> SUFFICES ASSUME NEW f \in Intact, queue'[f].token # None,
                      \/ queue'[f].lease # None
                      \/ queue'[f].status = "uncertain" /\ queue'[f].interrupted,
                      att'[queue'[f].token].clicked
               PROVE  clicks[f] > 0
    BY <1>5 DEF LastClickCounts
  <2>1. f # e
    BY <1>1, <1>2, <1>3, <1>4
  <2>2. queue[f].token \in Attempts \ {a} /\ queue'[f] = queue[f]
    BY <1>3, <1>5, <1>6, <2>1
  <2> QED BY <1>4, <2>2 DEF CInv, LastClickCounts
<1> QED BY <1>9, <1>10, <1>11, <1>12, <1>13, <1>14 DEF CInv

-----------------------------------------------------------------------------
(* A crash: at most one worker of an execution was on its way to the click *)

LEMMA CrashClicks ==
  ASSUME AInv, CInv, CrashRestart
  PROVE  /\ \A b \in Attempts :
              /\ Used(b)' <=> Used(b)
              /\ Used(b) => /\ att'[b].exec = att[b].exec /\ att'[b].stage = att[b].stage
                            /\ ~att'[b].unread
              /\ ~Runs(b)'
         /\ \A e \in Intact :
              \/ /\ clicks'[e] = clicks[e]
                 /\ \A b \in Attempts : Used(b) /\ att[b].exec = e /\ att'[b].clicked
                      => att[b].clicked
              \/ /\ clicks[e] = 0 /\ clicks'[e] = 1
                 /\ queue[e].lease \in Attempts /\ Runs(queue[e].lease)
                 /\ att[queue[e].lease].stage = "announced"
<1>1. \A b \in Attempts :
        /\ Used(b)' <=> Used(b)
        /\ Used(b) => /\ att'[b].exec = att[b].exec /\ att'[b].stage = att[b].stage
                      /\ ~att'[b].unread
        /\ ~Runs(b)'
  BY CrashGoes DEF Goes
<1>2. PICK late \in SUBSET {a \in Attempts : Alive(a) /\ att[a].stage \in {"announced", "concluded"}} :
        LET clicking == {a \in late : att[a].stage = "announced" /\ ~att[a].clicked} IN
        /\ att' = [a \in Attempts |->
             IF ~Used(a) THEN Unused
             ELSE [att[a] EXCEPT !.task = "over", !.unread = FALSE,
                     !.worker = IF att[a].worker # "alive" THEN att[a].worker
                                ELSE IF a \in late \ clicking THEN "orphan" ELSE "dead",
                     !.clicked = att[a].clicked \/ a \in clicking]]
        /\ clicks' = [e \in Executions |->
             clicks[e] + Cardinality({a \in clicking : att[a].exec = e})]
  BY DEF CrashRestart
<1> DEFINE clicking == {a \in late : att[a].stage = "announced" /\ ~att[a].clicked}
           Of(e) == {a \in clicking : att[a].exec = e}
<1>3. \A b \in clicking : /\ b \in Attempts /\ Runs(b) /\ Used(b)
                          /\ att[b].stage = "announced" /\ ~att[b].clicked
  BY DEF Alive, Runs
<1>4. ASSUME NEW b \in Attempts, Used(b), att'[b].clicked
      PROVE  att[b].clicked \/ b \in clicking
  <2> DEFINE k == IF att[b].worker # "alive" THEN att[b].worker
                  ELSE IF b \in late \ clicking THEN "orphan" ELSE "dead"
             c == att[b].clicked \/ b \in clicking
  <2>1. att'[b] = [att[b] EXCEPT !.task = "over", !.unread = FALSE,
                                 !.worker = k, !.clicked = c]
    BY <1>2, <1>4
  <2>2. att[b] \in Attempt
    BY <1>4 DEF AInv, TypeOK, Used
  <2> HIDE DEF k, c
  <2>3. att'[b].clicked = c
    BY <2>1, <2>2 DEF Attempt
  <2> QED BY <1>4, <2>3 DEF c
<1>5. \A e \in Executions : clicks'[e] = clicks[e] + Cardinality(Of(e))
  BY <1>2
<1> HIDE DEF clicking
<1> \A e \in Intact : e \in Executions
  BY DEF Intact
<1>6. ASSUME NEW e \in Intact
      PROVE  \/ /\ clicks'[e] = clicks[e]
                /\ \A b \in Attempts : Used(b) /\ att[b].exec = e /\ att'[b].clicked
                     => att[b].clicked
             \/ /\ clicks[e] = 0 /\ clicks'[e] = 1
                /\ queue[e].lease \in Attempts /\ Runs(queue[e].lease)
                /\ att[queue[e].lease].stage = "announced"
  <2>1. clicks[e] \in Nat /\ clicks'[e] = clicks[e] + Cardinality(Of(e))
    BY <1>5 DEF AInv, TypeOK
  <2>2. CASE Of(e) = {}
    <3>1. Cardinality(Of(e)) = 0
      BY <2>2, FS_EmptySet
    <3>2. clicks'[e] = clicks[e]
      BY <2>1, <3>1
    <3>3. \A b \in Attempts : Used(b) /\ att[b].exec = e /\ att'[b].clicked => att[b].clicked
      BY <1>4, <2>2
    <3> QED BY <3>2, <3>3
  <2>3. CASE Of(e) # {}
    <3>1. PICK a \in Attempts : a \in clicking /\ att[a].exec = e
      BY <1>3, <2>3
    <3>2. queue[e].lease = a /\ clicks[e] = 0
      BY <1>3, <3>1 DEF CInv, RunnersLease, FirstToClick, RunsIntact
    <3>3. \A b \in Of(e) : b = a
      BY <1>3, <3>2 DEF CInv, RunnersLease, RunsIntact
    <3>4. Of(e) = {a}
      BY <3>1, <3>3
    <3>5. Cardinality(Of(e)) = 1
      BY <3>4, FS_Singleton
    <3> HIDE DEF Of
    <3>6. clicks'[e] = 1
      BY <2>1, <3>2, <3>5
    <3> QED BY <1>3, <3>1, <3>2, <3>6
  <2> QED BY <2>2, <2>3
<1> QED BY <1>1, <1>6

LEMMA CCrash ==
  ASSUME AInv, CInv, CrashRestart
  PROVE  CInv'
<1>1. slow'.lost = slow.lost /\ queue' = queue
  BY DEF CrashRestart, AInv, TypeOK
<1> Intact' = Intact /\ Intact \subseteq Executions
  BY <1>1 DEF Intact
<1>2. \A b \in Attempts :
        /\ Used(b)' <=> Used(b)
        /\ Used(b) => /\ att'[b].exec = att[b].exec /\ att'[b].stage = att[b].stage
                      /\ ~att'[b].unread
        /\ ~Runs(b)'
  BY CrashClicks
<1>3. ASSUME NEW e \in Intact
      PROVE  \/ /\ clicks'[e] = clicks[e]
                /\ \A b \in Attempts : Used(b) /\ att[b].exec = e /\ att'[b].clicked
                     => att[b].clicked
             \/ /\ clicks[e] = 0 /\ clicks'[e] = 1 /\ queue[e].evidence
                /\ queue[e].lease # None /\ queue[e].status \in Active
                /\ att[queue[e].lease].stage = "announced"
  <2>1. CASE /\ clicks'[e] = clicks[e]
             /\ \A b \in Attempts : Used(b) /\ att[b].exec = e /\ att'[b].clicked
                  => att[b].clicked
    BY <2>1
  <2>2. CASE /\ clicks[e] = 0 /\ clicks'[e] = 1
             /\ queue[e].lease \in Attempts /\ Runs(queue[e].lease)
             /\ att[queue[e].lease].stage = "announced"
    <3>1. queue[e].lease # None
      BY <2>2 DEF Attempts, None
    <3>2. queue[e].status \in Active /\ att[queue[e].lease].exec = e
      BY <3>1, TokenFacts
    <3>3. queue[e].evidence
      BY <2>2, <3>2 DEF CInv, GateIsOnRecord, EvidenceStages, RunsIntact
    <3> QED BY <2>2, <3>1, <3>2, <3>3
  <2> QED BY <2>1, <2>2, CrashClicks
<1>4. InStep'
  BY <1>1, <1>2 DEF InStep
<1>5. Leased'
  BY <1>1, <1>2, TokenFacts DEF Leased
<1>6. RunnersLease' /\ GateIsOnRecord' /\ FirstToClick'
  BY <1>2 DEF RunnersLease, GateIsOnRecord, FirstToClick, RunsIntact
<1>7. WaitingIsUnclicked' /\ AtMostOne' /\ PublishedIsClicked'
  BY <1>1, <1>3 DEF CInv, WaitingIsUnclicked, AtMostOne, PublishedIsClicked, Active
<1>8. ClickedIsOnRecord'
  <2> SUFFICES ASSUME NEW e \in Intact, clicks'[e] > 0
               PROVE  /\ queue[e].evidence
                      /\ queue[e].lease # None =>
                           att'[queue[e].lease].stage \in {"announced", "concluded"}
    BY <1>1 DEF ClickedIsOnRecord
  <2>1. /\ queue[e].evidence
        /\ queue[e].lease # None => att[queue[e].lease].stage \in {"announced", "concluded"}
    BY <1>3 DEF CInv, ClickedIsOnRecord
  <2>2. queue[e].lease # None => queue[e].lease \in Attempts /\ Used(queue[e].lease)
    BY TokenFacts
  <2> QED BY <1>2, <2>1, <2>2
<1>9. LastClickCounts'
  <2> SUFFICES ASSUME NEW e \in Intact, queue[e].token # None,
                      \/ queue[e].lease # None
                      \/ queue[e].status = "uncertain" /\ queue[e].interrupted,
                      att'[queue[e].token].clicked
               PROVE  clicks'[e] > 0
    BY <1>1 DEF LastClickCounts
  <2>1. /\ queue[e].token \in Attempts /\ Used(queue[e].token)
        /\ att[queue[e].token].exec = e
    BY TokenFacts
  <2>2. CASE /\ clicks'[e] = clicks[e]
             /\ \A b \in Attempts : Used(b) /\ att[b].exec = e /\ att'[b].clicked
                  => att[b].clicked
    BY <2>1, <2>2 DEF CInv, LastClickCounts
  <2>3. CASE clicks'[e] = 1
    BY <2>3
  <2> QED BY <1>3, <2>2, <2>3
<1> QED BY <1>4, <1>5, <1>6, <1>7, <1>8, <1>9 DEF CInv

-----------------------------------------------------------------------------
(* The theorems about the click *)

LEMMA InitC == Init => CInv
<1> SUFFICES ASSUME Init
             PROVE  CInv
  OBVIOUS
<1>1. \A e \in Executions :
        /\ queue[e].status = "pending" /\ queue[e].lease = None /\ queue[e].token = None
        /\ clicks[e] = 0
  BY DEF Init
<1>2. InStep /\ RunnersLease /\ GateIsOnRecord /\ FirstToClick
  BY DEF Init, InStep, RunnersLease, GateIsOnRecord, FirstToClick, RunsIntact, Runs, Used
<1>3. Leased /\ WaitingIsUnclicked /\ AtMostOne
  BY <1>1 DEF Leased, WaitingIsUnclicked, AtMostOne, Active, Intact
<1>4. ClickedIsOnRecord /\ LastClickCounts /\ PublishedIsClicked
  BY <1>1 DEF ClickedIsOnRecord, LastClickCounts, PublishedIsClicked, Intact
<1> QED BY <1>2, <1>3, <1>4 DEF CInv

LEMMA NextC ==
  ASSUME AInv, CInv, "lost_lines" \notin Faults, [Next]_vars
  PROVE  CInv'
<1>1. ASSUME NEW a \in Attempts, TaskStep(a)
      PROVE  CInv'
  <2>1. ~Drain(a)
    BY DEF Drain, CInv, InStep, InTask
  <2> QED BY <1>1, <2>1, CLostAttempt, CStartupFails, CTaskGoes, CFinish, CPrepFinish,
             CCancelledTaskEnds DEF TaskStep
<1>2. ASSUME NEW a \in Attempts, WorkerStep(a) \/ Kill(a) \/ OrphanFinalizes(a)
      PROVE  CInv'
  BY <1>2, CLostAttempt, CPrints, CClick, CWorker DEF WorkerStep
<1>3. ASSUME NEW p \in Profiles, OwnerFreed(p) \/ HandoffLapses(p)
      PROVE  CInv'
  <2>1. UNCHANGED <<queue, att, slow, clicks>>
    BY <1>3 DEF OwnerFreed, HandoffLapses
  <2> QED BY <2>1, AttemptsStay, NothingWritten
<1>4. CASE UNCHANGED vars
  <2>1. UNCHANGED <<queue, att, slow, clicks>>
    BY <1>4 DEF vars
  <2> QED BY <2>1, AttemptsStay, NothingWritten
<1>5. CASE UnlockedRead
  <2>1. UNCHANGED <<queue, att, clicks>> /\ slow'.lost = slow.lost
    BY <1>5 DEF UnlockedRead, SweepReads, RunNowReads, ReviewReads, UnlockedReads, AInv, TypeOK
  <2> QED BY <2>1, AttemptsStay, NothingWritten
<1> QED BY <1>1, <1>2, <1>3, <1>4, <1>5, CClaim, CRecovery, COperator, CUnlockedSave,
           CRerun, CCancelAll, CCrash DEF Next

\* AInv and CInv are inductive together when no stage line is lost, whatever the
\* heartbeat, recovery, a review or run-now save of an older copy of the queue.
THEOREM ClicksInductive ==
  ASSUME "lost_lines" \notin Faults
  PROVE  Spec => [](AInv /\ CInv)
<1>1. Init => AInv /\ CInv
  BY InitA, InitC
<1>2. AInv /\ CInv /\ [Next]_vars => (AInv /\ CInv)'
  BY NextA, NextC
<1> QED BY <1>1, <1>2, PTL DEF Spec

\* However often the backend crashes, a worker is killed, an attempt is cancelled,
\* recovered, rerun with its batch or retried, and whatever becomes of other posts
\* that an unlocked writer has set back, a post whose own record none has set back
\* is clicked at most once for every time the operator asked for it.
THEOREM NeverRepeated ==
  ASSUME "lost_lines" \notin Faults
  PROVE  Spec => []NeverRepeatedAutomatically
<1>1. AInv /\ CInv => NeverRepeatedAutomatically
  BY DEF CInv, AtMostOne, NeverRepeatedAutomatically
<1> QED BY <1>1, ClicksInductive, PTL

\* A click that may have been sent is on record in the queue file, unless an unlocked
\* writer has set this very record back.
THEOREM ClicksOnRecord ==
  ASSUME "lost_lines" \notin Faults
  PROVE  Spec => []ClickIsOnRecord
<1>1. AInv /\ CInv => ClickIsOnRecord
  BY DEF CInv, ClickedIsOnRecord, ClickIsOnRecord, HasPublicationEvidence
<1> QED BY <1>1, ClicksInductive, PTL

\* A cancelled post was not clicked, and one that is published without an operator
\* saying so was, again as long as its record has not been set back.
THEOREM OutcomesTrue ==
  ASSUME "lost_lines" \notin Faults
  PROVE  Spec => []OutcomeIsTrue
<1>1. AInv /\ CInv => OutcomeIsTrue
  BY DEF CInv, WaitingIsUnclicked, PublishedIsClicked, OutcomeIsTrue
<1> QED BY <1>1, ClicksInductive, PTL

\* The record of an attempt with a live worker stays fenced to it, as the README of
\* the repository says, as long as no stage line is lost and no unlocked writer sets
\* that record back: these are the only ways a live attempt loses its lease.
THEOREM LeaseStays ==
  ASSUME "lost_lines" \notin Faults
  PROVE  Spec => [](\A a \in Attempts :
                      Alive(a) /\ att[a].exec \in Intact =>
                        ~Fenced(a) /\ queue[att[a].exec].status \in Active)
<1>1. ASSUME AInv, CInv
      PROVE  \A a \in Attempts : Alive(a) /\ att[a].exec \in Intact =>
               ~Fenced(a) /\ queue[att[a].exec].status \in Active
  <2> SUFFICES ASSUME NEW a \in Attempts, Alive(a), att[a].exec \in Intact
               PROVE  ~Fenced(a) /\ queue[att[a].exec].status \in Active
    OBVIOUS
  <2>1. queue[att[a].exec].lease = a
    BY <1>1 DEF Alive, Runs, RunsIntact, CInv, RunnersLease
  <2>2. a # None
    BY DEF Attempts, None
  <2> QED BY <1>1, <2>1, <2>2 DEF Fenced, CInv, Leased
<1> QED BY <1>1, ClicksInductive, PTL

=============================================================================
