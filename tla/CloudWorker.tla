---------------------------- MODULE CloudWorker ----------------------------
(***************************************************************************)
(* backend/worker: the agent that takes publishing attempts from a cloud   *)
(* over a websocket, its SQLite journal, the adapter that puts an attempt  *)
(* into the posting queue, and the intent marker a browser worker writes   *)
(* before it clicks (automation/engine/cloud_publish_guard.py).            *)
(*                                                                         *)
(* The agent runs on one event loop: a handler is atomic up to its awaits, *)
(* and the only await inside the handling of an attempt is the download of *)
(* its media.  Journal, queue file and markers survive a crash; grants,    *)
(* the session and whatever is on the wire do not.  The cloud is the       *)
(* environment: it saves what it receives and repeats what was not         *)
(* answered.  One fencing token per attempt, as the cloud must keep it.    *)
(***************************************************************************)
EXTENDS FiniteSets, Integers

CONSTANTS
  Attempts,        \* attempts the cloud offers
  MaxAccepted,     \* max_accepted_jobs
  Overlaps,        \* which of two races with a cancellation may happen:
                   \*   "lease"  the cloud grants an attempt it asked to cancel,
                   \*   "delete" it cancels an attempt whose execution an
                   \*            operator deleted
  MaxCrashes,      \* bound on crashes of the backend
  None             \* no attempt, no result, no snapshot

ASSUME WorkerAssumption == Overlaps \subseteq {"lease", "delete"} /\ MaxCrashes \in Nat

Commands == [action : {"cancel_attempt"}, attempt : Attempts]
              \cup [action : {"pause_new_jobs", "resume_new_jobs"}]
Cancel(a) == [action |-> "cancel_attempt", attempt |-> a]

VARIABLES
  online,      \* a session is past reconciliation (ready)
  tick,        \* the attempt tick() is in the middle of
  grants,      \* attempts with an unexpired grant
  journal,     \* attempts table
  outbox,      \* outbox table, without the results of commands
  applied,     \* commands table: command -> its result
  paused,      \* durable setting
  queue,       \* attempt -> status of its local execution
  intent,      \* attempts with a publish-intent marker
  clicked,     \* attempts whose post was sent to the site
  saved,       \* answers to offers and results the cloud has saved
  sent,        \* commands the cloud has sent
  crashes

cloud == <<saved, sent>>
local == <<queue, intent, clicked>>
vars == <<online, tick, grants, journal, outbox, applied, paused, local, cloud, crashes>>

JournalStates == {"accepted", "authorized", "submitting", "submitted", "terminal"}
Outcomes == {"published", "failed_before_publish", "needs_review", "cancelled"}
Statuses == {"pending", "running"} \cup Outcomes
Local == {"absent", "pending", "running", "detached",
          "published", "failed", "uncertain", "cancelled"}
CommandResults == {"applied", "cancelled", "too_late"}
Entry == [state : JournalStates, fingerprint : Statuses \cup {None}, sequence : Nat]
Ticks == [attempt : Attempts, step : {"download", "submit", "record"}]

ASSUME NoneAssumption == None \notin Entry /\ None \notin Ticks /\ None \notin CommandResults

Message(kind, a, status, n) ==
  [kind |-> kind, attempt |-> a, status |-> status, sequence |-> n]
Messages ==
  [kind : {"job_accept", "job_reject"}, attempt : Attempts,
   status : {"accepted"}, sequence : {0}]
    \cup [kind : {"execution_event"}, attempt : Attempts,
          status : Statuses \ Outcomes, sequence : Nat]
    \cup [kind : {"execution_result"}, attempt : Attempts, status : Outcomes, sequence : Nat]
Acceptance(a) == Message("job_accept", a, "accepted", 0)
Rejection(a) == Message("job_reject", a, "accepted", 0)

TypeOK ==
  /\ online \in BOOLEAN
  /\ tick \in Ticks \cup {None}
  /\ grants \subseteq Attempts
  /\ journal \in [Attempts -> Entry \cup {None}]
  /\ \A m \in outbox \cup saved : m \in Messages
  /\ applied \in [Commands -> CommandResults \cup {None}]
  /\ paused \in BOOLEAN
  /\ queue \in [Attempts -> Local]
  /\ intent \subseteq Attempts /\ clicked \subseteq Attempts
  /\ sent \subseteq Commands /\ crashes \in 0..MaxCrashes
  /\ ~online => tick = None /\ grants = {}

Init ==
  /\ online = FALSE /\ tick = None /\ grants = {}
  /\ journal = [a \in Attempts |-> None]
  /\ outbox = {} /\ applied = [c \in Commands |-> None] /\ paused = FALSE
  /\ queue = [a \in Attempts |-> "absent"]
  /\ intent = {} /\ clicked = {} /\ saved = {} /\ sent = {} /\ crashes = 0

-----------------------------------------------------------------------------
(* Journal and grants *)

Known(a) == journal[a] # None
State(a) == IF Known(a) THEN journal[a].state ELSE "none"
Open(a) == State(a) \notin {"none", "terminal"}
Goes(j, a, state) == [j EXCEPT ![a].state = state]

Authorized(a) == online /\ ~paused /\ a \in grants
CloudExecutionAllowed(a) == Open(a) /\ Authorized(a)

\* renew: a grant for each lease, and an accepted attempt may go on.
Renewed(j, leases) ==
  [a \in Attempts |-> IF a \in leases /\ j[a] # None /\ j[a].state = "accepted"
                      THEN [j[a] EXCEPT !.state = "authorized"] ELSE j[a]]

\* observation: a changed snapshot is recorded with the message about it, in
\* one transaction; nothing is recorded of a terminal attempt.
ObservedAlready(a, status) ==
  journal[a].fingerprint = status \/ journal[a].state = "terminal"
StateWithoutMessage(a, status) == {}                                \* mutant
MessageOf(a, status) ==
  {Message(IF status \in Outcomes THEN "execution_result" ELSE "execution_event",
           a, status, journal[a].sequence + 1)}

Observe(a, status) ==
  IF ObservedAlready(a, status) THEN UNCHANGED <<journal, outbox>>
  ELSE /\ journal' = [journal EXCEPT ![a] =
            [state |-> IF status \in Outcomes THEN "terminal" ELSE @.state,
             fingerprint |-> status, sequence |-> @.sequence + 1]]
       /\ outbox' = outbox \cup MessageOf(a, status)

\* The event loop is at an await, so that handlers and the scheduler may run.
AtAwait == tick # None => tick.step = "download"

-----------------------------------------------------------------------------
(* Session: connect, reconcile, lose the connection *)

\* What the cloud grants: accepted attempts without a saved result.
Eligible(a) ==
  /\ Acceptance(a) \in saved
  /\ ~\E m \in saved : m.kind = "execution_result" /\ m.attempt = a
  /\ Cancel(a) \in sent => "lease" \in Overlaps

\* hello, reconcile and their answers: no other handler runs in between.
Connect ==
  /\ ~online
  /\ online' = TRUE
  /\ \E leases \in SUBSET {a \in Attempts : Eligible(a)} :
       grants' = leases /\ journal' = Renewed(journal, leases)
  /\ UNCHANGED <<tick, outbox, applied, paused, local, cloud, crashes>>

AfterSession == {}

\* The socket breaks, or heartbeats go unanswered: the session's tasks end,
\* tick() in its download.
Disconnect ==
  /\ online /\ AtAwait
  /\ online' = FALSE /\ tick' = None /\ grants' = AfterSession
  /\ UNCHANGED <<journal, outbox, applied, paused, local, cloud, crashes>>

GrantExpires(a) ==
  /\ a \in grants
  /\ grants' = grants \ {a}
  /\ UNCHANGED <<online, tick, journal, outbox, applied, paused, local, cloud, crashes>>

HeartbeatAck ==
  /\ online /\ AtAwait
  /\ \E leases \in SUBSET {a \in Attempts : Eligible(a)} :
       grants' = grants \cup leases /\ journal' = Renewed(journal, leases)
  /\ UNCHANGED <<online, tick, outbox, applied, paused, local, cloud, crashes>>

-----------------------------------------------------------------------------
(* Messages *)

\* The sender repeats every message of the outbox until it is answered, which
\* may be in a later session.  What the cloud saved and has not answered matters
\* for answers to offers and for results only.
Kept == {"job_accept", "job_reject", "execution_result"}

Deliver(m) ==
  /\ online /\ m \in outbox /\ m.kind \in Kept
  /\ saved' = saved \cup {m}
  /\ UNCHANGED <<online, tick, grants, journal, outbox, applied, paused, local, sent, crashes>>

Acknowledge(m) ==
  /\ online /\ AtAwait /\ m \in outbox /\ m.kind # "job_accept"
  /\ m.kind \in Kept => m \in saved
  /\ outbox' = outbox \ {m}
  /\ UNCHANGED <<online, tick, grants, journal, applied, paused, local, cloud, crashes>>

\* job_offer: a known attempt is accepted again, a new one if there is room
\* and its profile can be used.
Offer(a) ==
  /\ online /\ AtAwait
  /\ ~\E m \in saved : m.kind \in {"execution_result", "job_reject"} /\ m.attempt = a
  /\ \/ /\ Known(a) \/ (~paused /\ Cardinality({b \in Attempts : Open(b)}) < MaxAccepted)
        /\ journal' = IF Known(a) THEN journal
                      ELSE [journal EXCEPT ![a] = [state |-> "accepted", fingerprint |-> None,
                                                   sequence |-> 0]]
        /\ outbox' = outbox \cup {Acceptance(a)}
     \/ /\ ~Known(a)
        /\ outbox' = outbox \cup {Rejection(a)}
        /\ UNCHANGED journal
  /\ UNCHANGED <<online, tick, grants, applied, paused, local, cloud, crashes>>

\* job_start acknowledges the acceptance and grants the attempt.
Start(a) ==
  /\ online /\ AtAwait /\ Eligible(a)
  /\ outbox' = outbox \ {Acceptance(a)}
  /\ grants' = grants \cup {a}
  /\ journal' = Renewed(journal, {a})
  /\ UNCHANGED <<online, tick, applied, paused, local, cloud, crashes>>

\* adapter.cancel, under the claim lock.
CancelsAny(a) == queue[a] \in {"pending", "running", "cancelled"}   \* mutant
CancelsLocally(a) == queue[a] \in {"pending", "cancelled"}
InQueue(a) == queue[a] \notin {"absent", "detached"}

\* A command is applied once, with its result, in one transaction; a repeated
\* command only queues the recorded result again.
Respond(c, status) ==
  /\ applied' = [applied EXCEPT ![c] = status]
  /\ sent' = sent \cup {c}

FirstTime(c) == applied[c] = None

PauseOrResume(c) ==
  /\ online /\ AtAwait /\ FirstTime(c)
  /\ c.action \in {"pause_new_jobs", "resume_new_jobs"}
  /\ paused' = (c.action = "pause_new_jobs")
  /\ Respond(c, "applied")
  /\ UNCHANGED <<online, tick, grants, journal, outbox, local, saved, crashes>>

CancelTooLate(a) ==
  /\ online /\ AtAwait /\ Known(a) /\ FirstTime(Cancel(a))
  /\ ~Open(a) \/ (InQueue(a) /\ ~CancelsLocally(a))
  /\ Respond(Cancel(a), "too_late")
  /\ UNCHANGED <<online, tick, grants, journal, outbox, paused, local, saved, crashes>>

CancelApplies(a) ==
  /\ online /\ AtAwait /\ FirstTime(Cancel(a)) /\ Open(a)
  /\ ~InQueue(a) \/ CancelsLocally(a)
  /\ State(a) \in {"submitting", "submitted"} /\ ~InQueue(a) => "delete" \in Overlaps
  /\ queue' = IF InQueue(a) THEN [queue EXCEPT ![a] = "cancelled"] ELSE queue
  /\ Respond(Cancel(a), "cancelled")
  /\ journal' = [journal EXCEPT ![a] = [state |-> "terminal", fingerprint |-> "cancelled",
                                        sequence |-> @.sequence + 1]]
  /\ outbox' = outbox \cup MessageOf(a, "cancelled")
  /\ grants' = grants \ {a}
  /\ UNCHANGED <<online, tick, paused, intent, clicked, saved, crashes>>

-----------------------------------------------------------------------------
(* tick(): from an authorized attempt to a queued execution and its outcome *)

\* adapter.snapshot, and the status a snapshot is reported with.
StatusAsStored(a) == IF queue[a] = "uncertain" THEN "needs_review"  \* mutant
                     ELSE IF queue[a] = "failed" THEN "failed_before_publish" ELSE queue[a]
Reported(a) ==
  CASE queue[a] = "failed" /\ a \notin intent -> "failed_before_publish"
    [] queue[a] = "uncertain" \/ (queue[a] = "failed" /\ a \in intent) -> "needs_review"
    [] OTHER -> queue[a]

DownloadBegins(a) ==
  /\ online /\ tick = None /\ State(a) = "authorized" /\ Authorized(a)
  /\ tick' = [attempt |-> a, step |-> "download"]
  /\ UNCHANGED <<online, grants, journal, outbox, applied, paused, local, cloud, crashes>>

DownloadFails(a) ==
  /\ tick = [attempt |-> a, step |-> "download"]
  /\ Observe(a, "failed_before_publish")
  /\ tick' = None
  /\ UNCHANGED <<online, grants, applied, paused, local, cloud, crashes>>

\* Authorization is checked again, the state of the attempt is not.
StillAuthorized(a) == Authorized(a)
DownloadEnds(a) ==
  /\ tick = [attempt |-> a, step |-> "download"]
  /\ IF StillAuthorized(a)
     THEN /\ journal' = Goes(journal, a, "submitting")
          /\ tick' = [tick EXCEPT !.step = "submit"]
     ELSE tick' = None /\ UNCHANGED journal
  /\ UNCHANGED <<online, grants, outbox, applied, paused, local, cloud, crashes>>

Submit(a) ==
  /\ tick = [attempt |-> a, step |-> "submit"]
  /\ queue' = IF InQueue(a) THEN queue ELSE [queue EXCEPT ![a] = "pending"]
  /\ tick' = [tick EXCEPT !.step = "record"]
  /\ UNCHANGED <<online, grants, journal, outbox, applied, paused, intent, clicked, cloud, crashes>>

\* The profile is held or has an unresolved publication, or the queue file
\* cannot be written.
SubmitFails(a) ==
  /\ tick = [attempt |-> a, step |-> "submit"]
  /\ Observe(a, "failed_before_publish")
  /\ tick' = None
  /\ UNCHANGED <<online, grants, applied, paused, local, cloud, crashes>>

Record(a) ==
  /\ tick = [attempt |-> a, step |-> "record"]
  /\ journal' = [journal EXCEPT ![a] = [state |-> "submitted", fingerprint |-> "pending",
                                        sequence |-> @.sequence + 1]]
  /\ outbox' = outbox \cup MessageOf(a, "pending")
  /\ tick' = None
  /\ UNCHANGED <<online, grants, applied, paused, local, cloud, crashes>>

\* An execution that was submitted and cannot be found is held for review.
TickObserves(a) ==
  /\ online /\ tick = None /\ Open(a)
  /\ \/ InQueue(a) /\ Observe(a, Reported(a))
     \/ /\ ~InQueue(a) /\ State(a) \in {"submitting", "submitted"}
        /\ Observe(a, "needs_review")
  /\ UNCHANGED <<online, tick, grants, applied, paused, local, cloud, crashes>>

-----------------------------------------------------------------------------
(* The posting queue and the browser worker, as far as an attempt sees them *)

Claim(a) ==
  /\ AtAwait /\ queue[a] = "pending" /\ CloudExecutionAllowed(a)
  /\ queue' = [queue EXCEPT ![a] = "running"]
  /\ UNCHANGED <<online, tick, grants, journal, outbox, applied, paused, intent, clicked, cloud, crashes>>

Running(a) == queue[a] \in {"running", "detached"}

\* record_cloud_publish_intent, then the click.  The marker is created
\* exclusively, so that one execution clicks once.
RecordIntent(a) ==
  /\ Running(a) /\ a \notin intent
  /\ intent' = intent \cup {a}
  /\ UNCHANGED <<online, tick, grants, journal, outbox, applied, paused, queue, clicked, cloud, crashes>>

ClickedUnrecorded(a) == a \notin clicked                            \* mutant
IntentRecorded(a) == a \in intent \ clicked

Click(a) ==
  /\ Running(a) /\ IntentRecorded(a)
  /\ clicked' = clicked \cup {a}
  /\ UNCHANGED <<online, tick, grants, journal, outbox, applied, paused, queue, intent, cloud, crashes>>

\* How an execution may end, see PostingQueue: a killed worker that clicked
\* may still be classified as failed.
Endings(a) == {"failed"} \cup (IF a \in intent THEN {"uncertain"} ELSE {})
                         \cup (IF a \in clicked THEN {"published"} ELSE {})
ExecutionEnds(a) ==
  /\ Running(a)
  /\ \E status \in Endings(a) :
       queue' = [queue EXCEPT ![a] = IF queue[a] = "running" THEN status ELSE "absent"]
  /\ UNCHANGED <<online, tick, grants, journal, outbox, applied, paused, intent, clicked, cloud, crashes>>

\* resolve_uncertain: the operator looked at the page.
Resolve(a) ==
  /\ queue[a] = "uncertain"
  /\ queue' = [queue EXCEPT ![a] = IF a \in clicked THEN "published" ELSE "failed"]
  /\ UNCHANGED <<online, tick, grants, journal, outbox, applied, paused, intent, clicked, cloud, crashes>>

\* delete_batch removes an execution whatever its status, even a running one.
Delete(a) ==
  /\ InQueue(a)
  /\ queue' = [queue EXCEPT ![a] = IF @ = "running" THEN "detached" ELSE "absent"]
  /\ UNCHANGED <<online, tick, grants, journal, outbox, applied, paused, intent, clicked, cloud, crashes>>

\* The backend stops and starts again: recovery classifies what was running
\* by its marker before the agent starts.  A worker dies when it prints to the
\* broken pipe, which may be after its click.  A cancellation may have reached
\* the queue file and not the journal.
Recovered(a, landed) ==
  IF queue[a] = "detached" THEN {"absent"}
  ELSE IF queue[a] # "running" THEN {queue[a]}
  ELSE IF a \notin intent THEN {"failed"}
  ELSE {"uncertain"} \cup (IF a \in landed THEN {"published"} ELSE {})

Torn == {a \in Attempts : online /\ AtAwait /\ Open(a) /\ queue[a] = "pending"
                          /\ FirstTime(Cancel(a))}

Crash ==
  /\ crashes < MaxCrashes
  /\ crashes' = crashes + 1
  /\ online' = FALSE /\ tick' = None /\ grants' = {}
  /\ \E late \in SUBSET {a \in intent \ clicked : Running(a)} : clicked' = clicked \cup late
  /\ \/ \E status \in [Attempts -> Local] :
          /\ \A a \in Attempts : status[a] \in Recovered(a, clicked')
          /\ queue' = status /\ sent' = sent
     \/ \E a \in Torn :
          /\ \A b \in Attempts : ~Running(b)
          /\ queue' = [queue EXCEPT ![a] = "cancelled"]
          /\ sent' = sent \cup {Cancel(a)}
  /\ UNCHANGED <<journal, outbox, applied, paused, intent, saved>>

-----------------------------------------------------------------------------
TickStep(a) ==
  \/ DownloadBegins(a) \/ DownloadFails(a) \/ DownloadEnds(a)
  \/ Submit(a) \/ SubmitFails(a) \/ Record(a) \/ TickObserves(a)
CommandStep ==
  \/ \E c \in Commands : PauseOrResume(c)
  \/ \E a \in Attempts : CancelTooLate(a) \/ CancelApplies(a)
Execution(a) == Claim(a) \/ RecordIntent(a) \/ Click(a) \/ ExecutionEnds(a)
                \/ Resolve(a) \/ Delete(a)

Next ==
  \/ Connect \/ Disconnect \/ HeartbeatAck \/ Crash
  \/ \E a \in Attempts : GrantExpires(a) \/ Offer(a) \/ Start(a)
  \/ \E m \in outbox : Deliver(m) \/ Acknowledge(m)
  \/ CommandStep
  \/ \E a \in Attempts : TickStep(a)
  \/ \E a \in Attempts : Execution(a)

Spec == Init /\ [][Next]_vars

\* The agent reconnects for ever, its session lives long enough now and then
\* for a tick and for a message to be saved, and executions end.
Fairness ==
  /\ WF_vars(Connect)
  /\ \A a \in Attempts : /\ SF_vars(DownloadFails(a) \/ DownloadEnds(a))
                         /\ SF_vars(Submit(a) \/ SubmitFails(a)) /\ SF_vars(Record(a))
                         /\ SF_vars(TickObserves(a) /\ journal' # journal)
                         /\ WF_vars(ExecutionEnds(a))
                         /\ SF_vars(\E m \in outbox : m.kind = "execution_result"
                                       /\ m.attempt = a /\ m \notin saved /\ Deliver(m))

FairSpec == Spec /\ Fairness

-----------------------------------------------------------------------------
(* Correctness *)

Results(a) ==
  {m \in outbox \cup saved : m.kind = "execution_result" /\ m.attempt = a}

\* A cancellation that was confirmed to the cloud stands: the attempt neither
\* runs nor has been published, now or ever after.
ConfirmedCancelStands ==
  \A a \in Attempts : applied[Cancel(a)] = "cancelled" => ~Running(a) /\ a \notin clicked

\* What the cloud is told is true and final: an attempt reported as cancelled or
\* failed before publishing is never sent to the site, before or after the report,
\* one reported as published was, and its one result closes the attempt's events.
ResultIsTrue ==
  \A a \in Attempts : \A m \in Results(a) :
    /\ m.status \in {"cancelled", "failed_before_publish"} => a \notin clicked
    /\ m.status = "published" => a \in clicked
    /\ \A n \in outbox \cup saved :
         n.kind \in {"execution_event", "execution_result"} /\ n.attempt = a
           => n = m \/ n.sequence < m.sequence

\* Whatever was sent to the site is reported, through crashes, deletions and
\* lost connections.
PublicationIsReported ==
  \A a \in Attempts : a \in clicked ~> \E m \in saved : m \in Results(a)

=============================================================================
