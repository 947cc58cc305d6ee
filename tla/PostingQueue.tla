---------------------------- MODULE PostingQueue ----------------------------
(***************************************************************************)
(* The local posting queue: data/posting_queue.json and everything that    *)
(* reads and rewrites it while posts are published.                        *)
(*                                                                         *)
(* Actors: the dispatcher and run-now, which claim an execution under the  *)
(* claim lock; one backend task per claimed attempt, which starts the      *)
(* container, spawns a worker process, persists the stages it prints and   *)
(* writes the final status, fenced by the attempt's lease; the worker,     *)
(* which composes, passes the publish gate, clicks and verifies; the       *)
(* watchdogs, which kill silent workers and recover what a dead backend    *)
(* left behind; the operator, who retries, reruns, resolves and cancels.   *)
(*                                                                         *)
(* One number identifies an attempt: it stands for the lease id and for    *)
(* the container-owner token, both drawn afresh by every claim.            *)
(***************************************************************************)
EXTENDS Integers, FiniteSets

CONSTANTS
  Executions,   \* numbers, in the order of the posts of the batch
  Profiles,     \* accounts, each with one browser container
  ProfileOf,    \* execution -> its profile
  Prepared,     \* executions with a preparation mode other than "off"
  MaxAttempts,  \* bound on claims
  MaxCrashes,   \* bound on backend crashes
  Faults        \* "kill", "lost_lines", "overlap", "threads": see README

ASSUME QueueAssumption ==
  /\ Executions \subseteq Nat
  /\ ProfileOf \in [Executions -> Profiles]
  /\ Prepared \subseteq Executions
  /\ MaxAttempts \in Nat /\ MaxCrashes \in Nat
  /\ Faults \subseteq {"kill", "lost_lines", "overlap", "threads"}

Attempts == 1..MaxAttempts
None == 0
ManualRetry == -1

VARIABLES
  queue,        \* posting_queue.json: execution -> record
  att,          \* attempt -> its task, its worker and what the worker did
  owner,        \* profile -> holder of its container (ContainerOwnership)
  slow,         \* the unlocked writer between its read and its save, and what
                \* such writers have overwritten
  clicks,       \* history: publish clicks since the operator last asked for one
  crashes

vars == <<queue, att, owner, slow, clicks, crashes>>

\* Stages, by what recovery tells apart: not started or ended; the claim's own
\* "running"; before the gate; past the gate; publish_clicked or verifying;
\* the outcome reported by the worker.
Stages == {"idle", "running", "composing", "authorized", "announced", "concluded"}
EvidenceStages == {"authorized", "announced", "concluded"}
Statuses == {"pending", "ready", "preparing", "running", "published", "uncertain",
             "failed_before_publish", "failed_after_publish", "cancelled"}
Active == {"preparing", "running"}
Outcomes == {"published", "uncertain", "failed_after_publish", "failed", "prepared"}

Record == [
  status : Statuses, stage : Stages,
  evidence : BOOLEAN,      \* a publication stage in stage_history since the last review
  reviewed : BOOLEAN,      \* stage_history holds an operator_resolved_not_published
  lastActive : BOOLEAN,    \* last_active_stage is a publication stage
  interrupted : BOOLEAN,   \* last history entry: manager_restart_recovery
  claim : Attempts \cup {None, ManualRetry},    \* last claim entry of stage_history
  lease : Attempts \cup {None}, lastLease : Attempts \cup {None},
  token : Attempts \cup {None},                 \* container_owner_token
  held : BOOLEAN,          \* automation_container_owned
  prep : {"off", "pending", "ready", "failed"},
  review : BOOLEAN,        \* review_status
  cancelAsked : BOOLEAN]   \* cancel_requested_at

Tasks == {"starting", "working", "handover", "cleaning", "closing", "cancelled", "over"}
Attempt == [
  exec : Executions, kind : {"publisher", "preparer"}, task : Tasks,
  worker : {"none", "alive", "orphan", "dead"},
  stage : Stages,          \* last stage line printed
  unread : BOOLEAN,        \* ... and not yet read by the task
  clicked : BOOLEAN, outcome : Outcomes \cup {"none"},
  durable : BOOLEAN,       \* result.json is written
  reported : BOOLEAN]      \* the result line is printed
Unused == [task |-> "unused"]
Holder == [att : Attempts, exec : Executions, state : {"active", "handoff", "closing"}]
Free == [state |-> "free"]
Unlocked == [kind : {"run_now", "review", "sweep"}, exec : Executions \cup {None},
             copy : [Executions -> Record]]

TypeOK ==
  /\ queue \in [Executions -> Record]
  /\ att \in [Attempts -> Attempt \cup {Unused}]
  /\ owner \in [Profiles -> Holder \cup {Free}]
  /\ slow \in [job : Unlocked \cup {Free}, lost : SUBSET Executions]
  /\ clicks \in [Executions -> Nat]
  /\ crashes \in 0..MaxCrashes

Init ==
  /\ queue = [e \in Executions |->
       [status |-> "pending", stage |-> "idle", evidence |-> FALSE, reviewed |-> FALSE,
        lastActive |-> FALSE, interrupted |-> FALSE, claim |-> None, lease |-> None,
        lastLease |-> None, token |-> None, held |-> FALSE,
        prep |-> IF e \in Prepared THEN "pending" ELSE "off",
        review |-> FALSE, cancelAsked |-> FALSE]]
  /\ att = [a \in Attempts |-> Unused]
  /\ owner = [p \in Profiles |-> Free]
  /\ slow = [job |-> Free, lost |-> {}]
  /\ clicks = [e \in Executions |-> 0]
  /\ crashes = 0

-----------------------------------------------------------------------------
(* Reading a record *)

Used(a) == att[a] # Unused
InTask(a) == Used(a) /\ att[a].task # "over"
HasTask(e) == \E a \in Attempts : InTask(a) /\ att[a].exec = e
Alive(a) == Used(a) /\ att[a].worker = "alive"
Owner(a) == owner[ProfileOf[att[a].exec]]
Owns(a) == Owner(a) # Free /\ Owner(a).att = a
ProfileFree(e) == owner[ProfileOf[e]] = Free

CurrentStageOnly(x) == x.stage \in EvidenceStages                  \* mutant
HasPublicationEvidence(x) ==
  x.stage \in EvidenceStages \/ x.evidence \/ (~x.reviewed /\ x.lastActive)
StatusAlone(x) == x.status \in {"failed_before_publish", "pending", "ready"} \* mutant
SafeToRetry(x) ==
  x.status \in {"failed_before_publish", "pending", "ready"} /\ ~HasPublicationEvidence(x)

\* A dead attempt's lease counts in the code until it expires; whether expiry
\* or recovery comes first does not matter to the claims that follow.
ProfileBusy(p) ==
  \E e \in Executions : ProfileOf[e] = p /\ queue[e].status \in Active
                        /\ queue[e].lease # None /\ InTask(queue[e].lease)
ProfileAvailable(e) ==
  LET o == owner[ProfileOf[e]] IN
    ~ProfileBusy(ProfileOf[e]) /\ (o # Free => o.state = "handoff" /\ o.exec = e)

\* batch_iteration_availability, without the configured delay
IterationOpen(e) ==
  \A d \in Executions : d < e /\ ProfileOf[d] = ProfileOf[e] =>
     queue[d].status \notin Active \cup {"pending", "ready"} /\ ~queue[d].held

\* classify_interrupted_execution and apply_interrupted_execution_recovery
IsPreparation(x) == x.lease # None /\ att[x.lease].kind = "preparer"
Interrupted(x) ==
  [x EXCEPT !.status = IF /\ ~HasPublicationEvidence(x)
                          /\ x.stage \in {"idle", "composing"} \/ IsPreparation(x)
                       THEN "failed_before_publish" ELSE "uncertain",
            !.stage = "idle", !.interrupted = TRUE,
            !.lastActive = x.stage \in EvidenceStages]

Unleased(x) == [x EXCEPT !.lastLease = IF x.lease = None THEN @ ELSE x.lease,
                         !.lease = None]

\* recover_completed_publication: the durable result of exactly this attempt
Durable(a) == att[a].kind = "publisher" /\ att[a].durable /\ att[a].outcome = "published"
OwnResult(x) ==
  LET a == IF x.lease # None THEN x.lease ELSE x.lastLease IN
    a # None /\ x.claim \in {None, a} /\ x.token = a /\ Durable(a)
Completed(x) ==
  /\ ~x.review /\ ~x.cancelAsked
  /\ x.status \in Active \/ (x.status = "uncertain" /\ x.lease = None /\ x.interrupted)
  /\ OwnResult(x)
AsPublished(x) ==
  [x EXCEPT !.status = "published", !.stage = "concluded", !.evidence = TRUE,
            !.interrupted = FALSE]

\* A prepared session that is gone, and a retry: prepare again.
Pending(x) == [x EXCEPT !.status = "pending", !.stage = "idle", !.interrupted = FALSE]
PreparedAgain(x) == [Pending(x) EXCEPT !.prep = IF @ = "off" THEN @ ELSE "pending"]

Update(e, x) == queue' = [queue EXCEPT ![e] = x]
GoTo(a, task) == att' = [att EXCEPT ![a].task = task]

-----------------------------------------------------------------------------
(* The task of an attempt: claim, container, worker process *)

\* claim_queue_execution, under the claim lock
Claim(a, e) ==
  LET x == queue[e]
      kind == IF x.prep = "pending" THEN "preparer" ELSE "publisher"
  IN
  /\ ~Used(a) /\ \A b \in 1..(a - 1) : Used(b)
  /\ x.status \in {"pending", "ready"} /\ x.prep # "failed"
  /\ ~HasTask(e) /\ IterationOpen(e) /\ ProfileAvailable(e)
  /\ Update(e, [x EXCEPT
       !.status = IF kind = "preparer" THEN "preparing" ELSE "running",
       !.stage = IF kind = "preparer" THEN "composing" ELSE "running",
       !.interrupted = FALSE, !.claim = a, !.lease = a, !.token = a, !.held = TRUE])
  /\ att' = [att EXCEPT ![a] =
       [exec |-> e, kind |-> kind, task |-> "starting", worker |-> "none", stage |-> "idle",
        unread |-> FALSE, clicked |-> FALSE, outcome |-> "none", durable |-> FALSE,
        reported |-> FALSE]]
  /\ owner' = [owner EXCEPT ![ProfileOf[e]] = [att |-> a, exec |-> e, state |-> "active"]]
  /\ UNCHANGED <<slow, clicks, crashes>>

\* Only the attempt whose lease is in the record may write its result.
Fenced(a) == queue[att[a].exec].lease # a

FailedBefore(a) ==
  LET x == queue[att[a].exec] IN
    Unleased([x EXCEPT !.status = "failed_before_publish", !.stage = "idle",
                       !.prep = IF att[a].kind = "preparer" THEN "failed" ELSE @])

StartupFails(a) ==
  /\ InTask(a) /\ att[a].task = "starting"
  /\ IF Fenced(a) THEN UNCHANGED queue ELSE Update(att[a].exec, FailedBefore(a))
  /\ GoTo(a, "closing")
  /\ UNCHANGED <<owner, slow, clicks, crashes>>

\* ... or the process cannot be started: the error leaves the record as it is.
Spawn(a) ==
  /\ InTask(a) /\ att[a].task = "starting"
  /\ \/ att' = [att EXCEPT ![a].task = "working", ![a].worker = "alive"]
     \/ GoTo(a, "closing")
  /\ UNCHANGED <<queue, owner, slow, clicks, crashes>>

-----------------------------------------------------------------------------
(* The worker process *)

\* set_stage prints a line; the task reads it and, while the lease is its own,
\* persists the stage.  Only "lost_lines" leaves a line unread for a while.
Persisted(x, a, s) ==
  IF x.lease = a
  THEN [x EXCEPT !.stage = s, !.evidence = x.evidence \/ s \in EvidenceStages] ELSE x

PrintStage(a, w, s) ==
  LET e == att[a].exec IN
  \/ /\ att[a].task = "working"
     /\ Update(e, Persisted(queue[e], a, s))
     /\ att' = [att EXCEPT ![a] = [w EXCEPT !.stage = s, !.unread = FALSE]]
  \/ /\ "lost_lines" \in Faults
     /\ att' = [att EXCEPT ![a] = [w EXCEPT !.stage = s, !.unread = TRUE]]
     /\ UNCHANGED queue

Drain(a) ==
  /\ InTask(a) /\ att[a].task = "working" /\ att[a].unread
  /\ Update(att[a].exec, Persisted(queue[att[a].exec], a, att[a].stage))
  /\ att' = [att EXCEPT ![a].unread = FALSE]
  /\ UNCHANGED <<owner, slow, clicks, crashes>>

NextStage == [idle |-> "composing", composing |-> "authorized", authorized |-> "announced"]

\* Composing, the publish gate (once), and publish_clicked before the click.
Advance(a) ==
  /\ Alive(a) /\ att[a].kind = "publisher"
  /\ att[a].stage \in DOMAIN NextStage
  /\ PrintStage(a, att[a], NextStage[att[a].stage])
  /\ UNCHANGED <<owner, slow, clicks, crashes>>

Click(a) ==
  /\ Alive(a) /\ att[a].stage = "announced" /\ ~att[a].clicked
  /\ att' = [att EXCEPT ![a].clicked = TRUE]
  /\ clicks' = [clicks EXCEPT ![att[a].exec] = @ + 1]
  /\ UNCHANGED <<queue, owner, slow, crashes>>

\* set_outcome after the click.  An actuator that raised reports uncertain.
Conclude(a) ==
  /\ Alive(a) /\ att[a].stage = "announced"
  /\ \E o \in {"published", "uncertain", "failed_after_publish"} :
       /\ att[a].clicked \/ o = "uncertain"
       /\ PrintStage(a, [att[a] EXCEPT !.outcome = o], "concluded")
  /\ UNCHANGED <<owner, slow, clicks, crashes>>

Finalize(a) ==
  /\ Alive(a) /\ att[a].stage = "concluded" /\ ~att[a].durable
  /\ att' = [att EXCEPT ![a].durable = TRUE]
  /\ UNCHANGED <<queue, owner, slow, clicks, crashes>>

Exits(a, o) ==
  /\ att' = [att EXCEPT ![a].outcome = o, ![a].reported = TRUE, ![a].worker = "dead"]
  /\ UNCHANGED <<queue, owner, slow, clicks, crashes>>

Report(a) ==
  /\ Alive(a)
  /\ \/ att[a].durable /\ Exits(a, att[a].outcome)
     \/ att[a].kind = "preparer" /\ \E o \in {"prepared", "failed"} : Exits(a, o)
     \/ /\ att[a].kind = "publisher" /\ att[a].stage \in {"idle", "composing", "authorized"}
        /\ Exits(a, "failed")
     \/ att[a].stage = "authorized" /\ Exits(a, "uncertain")

\* A silent worker, or one past its deadline, is terminated by the watchdog.
Kill(a) ==
  /\ "kill" \in Faults /\ Alive(a) /\ att[a].task = "working"
  /\ att' = [att EXCEPT ![a].worker = "dead"]
  /\ UNCHANGED <<queue, owner, slow, clicks, crashes>>

-----------------------------------------------------------------------------
(* The end of an attempt *)

NotAwaited(a) == InTask(a) /\ att[a].task = "working" /\ ~att[a].unread \* mutant
Ended(a) == InTask(a) /\ att[a].task = "working" /\ att[a].worker = "dead" /\ ~att[a].unread

RawStatus(a) == IF att[a].reported THEN att[a].outcome ELSE "uncertain"   \* mutant
FinalStatus(a) ==
  CASE att[a].reported /\ att[a].outcome # "failed" -> att[a].outcome
    [] ~att[a].reported /\ att[a].stage = "announced" -> "uncertain"
    [] OTHER -> "failed_before_publish"

\* The final write of a publisher.  A result brings its own stage history.
Result(a, x) ==
  LET y == [x EXCEPT !.status = FinalStatus(a), !.stage = att[a].stage] IN
  Unleased(IF ~att[a].reported THEN y
           ELSE [y EXCEPT !.evidence = att[a].stage \in EvidenceStages,
                          !.reviewed = FALSE, !.claim = None])

Finish(a) ==
  LET e == att[a].exec IN
  /\ Ended(a) /\ att[a].kind = "publisher"
  /\ IF Fenced(a) THEN GoTo(a, "closing") /\ UNCHANGED queue
     ELSE GoTo(a, "cleaning") /\ Update(e, Result(a, queue[e]))
  /\ UNCHANGED <<owner, slow, clicks, crashes>>

\* `release`: the profile is freed, or its cleanup failed and sweeps go on.
Freed(a) == IF Owns(a) THEN [owner EXCEPT ![ProfileOf[att[a].exec]] = Free] ELSE owner
CleanupFailed(a) == [owner EXCEPT ![ProfileOf[att[a].exec]].state = "closing"]
Released(a) == owner' = Freed(a) \/ (Owns(a) /\ owner' = CleanupFailed(a))

\* Only a clean stop after the final write clears the flag of the record.
Clean(a) ==
  /\ InTask(a) /\ att[a].task = "cleaning"
  /\ \/ owner' = Freed(a) /\ queue' = [queue EXCEPT ![att[a].exec].held = FALSE]
     \/ Owns(a) /\ owner' = CleanupFailed(a) /\ UNCHANGED queue
  /\ GoTo(a, "over")
  /\ UNCHANGED <<slow, clicks, crashes>>

\* The wrapper's own release, after a failure or a fenced result.
Close(a) ==
  /\ InTask(a) /\ att[a].task = "closing"
  /\ Released(a)
  /\ att' = [att EXCEPT ![a].task = "over", ![a].worker = IF @ = "alive" THEN "dead" ELSE @]
  /\ UNCHANGED <<queue, slow, clicks, crashes>>

\* A preparation commits its readiness and gives up the lease in one write ...
PrepFinish(a) ==
  LET e == att[a].exec  x == queue[e] IN
  /\ Ended(a) /\ att[a].kind = "preparer"
  /\ IF /\ att[a].reported /\ att[a].outcome = "prepared" /\ ~Fenced(a)
        /\ x.status = "preparing" /\ ~HasPublicationEvidence(x)
     THEN /\ Update(e, Unleased([x EXCEPT !.status = "ready", !.stage = "idle", !.prep = "ready"]))
          /\ GoTo(a, "handover")
     ELSE /\ queue' = IF Fenced(a) THEN queue
                      ELSE [queue EXCEPT ![e] = IF HasPublicationEvidence(x)
                                                THEN Unleased(Interrupted(x)) ELSE FailedBefore(a)]
          /\ GoTo(a, "closing")
  /\ UNCHANGED <<owner, slow, clicks, crashes>>

\* ... and then offers the running browser to the publisher.
Handover(a) ==
  LET e == att[a].exec IN
  /\ InTask(a) /\ att[a].task = "handover"
  /\ IF queue[e].status = "ready" /\ Owns(a) /\ Owner(a).state = "active"
     THEN owner' = [owner EXCEPT ![ProfileOf[e]].state = "handoff"] /\ GoTo(a, "over")
     ELSE GoTo(a, "closing") /\ UNCHANGED owner
  /\ UNCHANGED <<queue, slow, clicks, crashes>>

\* The finally block of a cancelled task.
CancelledAs(x) ==
  LET y == Interrupted(x) IN
    [y EXCEPT !.status = IF @ = "failed_before_publish" THEN "cancelled" ELSE @,
              !.interrupted = FALSE]
AlwaysCancelled(x) == [Interrupted(x) EXCEPT !.status = "cancelled", !.interrupted = FALSE] \* mutant
CancellationOf(x) == CancelledAs(x)

CancelledTaskEnds(a) ==
  LET e == att[a].exec  x == queue[e] IN
  /\ InTask(a) /\ att[a].task = "cancelled"
  /\ Released(a)
  /\ queue' = IF x.token = a
                 /\ x.status \in Active \cup (IF att[a].kind = "preparer" THEN {"ready"} ELSE {})
              THEN [queue EXCEPT ![e] = Unleased(CancellationOf(x))] ELSE queue
  /\ att' = [att EXCEPT ![a].task = "over", ![a].worker = IF @ = "alive" THEN "dead" ELSE @]
  /\ UNCHANGED <<slow, clicks, crashes>>

-----------------------------------------------------------------------------
(* Recovery *)

LeasedIsActive(x) == x.lease # None                               \* mutant
StillActive(x) == x.lease # None /\ x.token = x.lease /\ InTask(x.lease)

Recovered(x) ==
  LET y == IF Completed(x) THEN AsPublished(x)
           ELSE IF IsPreparation(x) /\ ~HasPublicationEvidence(x)
           THEN [PreparedAgain(x) EXCEPT !.lastActive = FALSE]
           ELSE Interrupted(x)
  IN [y EXCEPT !.lastLease = x.lease, !.lease = None]

\* What recover_stale_queue_executions finds in a copy of the queue: an execution
\* whose lease has expired, an uncertain one whose result turned up, a prepared
\* one whose browser is gone.
Stale(x) == x.status \in Active /\ ~StillActive(x)
TurnedUp(x) == x.status = "uncertain" /\ ~StillActive(x) /\ Completed(x)
Unprepared(e, x) ==
  LET o == owner[ProfileOf[e]] IN
  /\ x.status = "ready" /\ x.prep = "ready" /\ ~HasTask(e)
  /\ ~HasPublicationEvidence(x)
  /\ x.lastLease # None /\ att[x.lastLease].kind = "preparer"
  /\ ~(o # Free /\ o.state = "handoff" /\ o.exec = e /\ o.att = x.token)

RecoveryOf(x) ==
  CASE x.status \in Active -> Recovered(x)
    [] x.status = "uncertain" -> AsPublished(x)
    [] OTHER -> [PreparedAgain(x) EXCEPT !.lastActive = FALSE]

RecoverStale(e) ==
  /\ Stale(queue[e])
  /\ Update(e, RecoveryOf(queue[e]))
  /\ UNCHANGED <<att, owner, slow, clicks, crashes>>
RecoverUncertain(e) ==
  /\ TurnedUp(queue[e])
  /\ Update(e, RecoveryOf(queue[e]))
  /\ UNCHANGED <<att, owner, slow, clicks, crashes>>
RecoverReady(e) ==
  /\ Unprepared(e, queue[e])
  /\ Update(e, RecoveryOf(queue[e]))
  /\ UNCHANGED <<att, owner, slow, clicks, crashes>>

\* queue_retry: the attempt is archived, history and all
NetworkRetry(e) ==
  LET x == queue[e] IN
  /\ x.status = "failed_before_publish" /\ SafeToRetry(x) /\ ~x.cancelAsked
  /\ Update(e, [PreparedAgain(x) EXCEPT !.evidence = FALSE, !.reviewed = FALSE,
                  !.lastActive = FALSE, !.review = FALSE, !.claim = None])
  /\ UNCHANGED <<att, owner, slow, clicks, crashes>>

\* The sweeps of ContainerLifecycle, seen from here.
OwnerFreed(p) ==
  /\ owner[p].state = "closing"
  /\ owner' = [owner EXCEPT ![p] = Free]
  /\ UNCHANGED <<queue, att, slow, clicks, crashes>>

HandoffLapses(p) ==
  /\ owner[p].state = "handoff"
  /\ owner' = [owner EXCEPT ![p].state = "closing"]
  /\ UNCHANGED <<queue, att, slow, clicks, crashes>>

-----------------------------------------------------------------------------
(* The operator *)

\* run-now of a failed or uncertain execution asks for one more click.
RunNowRecord(x) ==
  [Pending(x) EXCEPT !.prep = IF @ = "failed" THEN "pending" ELSE @, !.claim = ManualRetry]
ManualRetryOf(x) == x.status \in {"failed_before_publish", "failed_after_publish", "uncertain"}

RunNow(e) ==
  /\ ManualRetryOf(queue[e])
  /\ Update(e, RunNowRecord(queue[e]))
  /\ clicks' = [clicks EXCEPT ![e] = 0]
  /\ UNCHANGED <<att, owner, slow, crashes>>

\* run-now of a cancelled execution reads and writes under the claim lock.
RunNowCancelled(e) ==
  /\ queue[e].status = "cancelled" /\ ProfileFree(e) /\ ~HasPublicationEvidence(queue[e])
  /\ Update(e, [PreparedAgain(queue[e]) EXCEPT !.claim = ManualRetry, !.held = FALSE,
                                               !.cancelAsked = FALSE])
  /\ UNCHANGED <<att, owner, slow, clicks, crashes>>

Eligible(e) ==
  LET x == queue[e] IN
  /\ ProfileFree(e) /\ x.status \notin Active \cup {"uncertain", "failed_after_publish"}
  /\ ~HasPublicationEvidence(x)
  /\ SafeToRetry(x) \/ x.status = "cancelled"
Rerun ==
  /\ \E e \in Executions : Eligible(e)
  /\ queue' = [e \in Executions |->
       IF Eligible(e)
       THEN [PreparedAgain(queue[e]) EXCEPT !.held = FALSE, !.cancelAsked = FALSE]
       ELSE queue[e]]
  /\ UNCHANGED <<att, owner, slow, clicks, crashes>>

\* resolve_uncertain
ReviewedPublished(x) == [AsPublished(x) EXCEPT !.review = TRUE]
ReviewedNotPublished(x) ==
  [x EXCEPT !.status = "failed_before_publish", !.stage = "idle", !.evidence = FALSE,
            !.reviewed = TRUE, !.interrupted = FALSE, !.review = TRUE]

ResolvePublished(e) ==
  /\ queue[e].status = "uncertain"
  /\ Update(e, ReviewedPublished(queue[e]))
  /\ UNCHANGED <<att, owner, slow, clicks, crashes>>
ResolveNotPublished(e) ==
  /\ queue[e].status = "uncertain"
  /\ Update(e, ReviewedNotPublished(queue[e]))
  /\ clicks' = [clicks EXCEPT ![e] = 0]
  /\ UNCHANGED <<att, owner, slow, crashes>>

\* cancel_all_local_posts.  Which failed executions were still waiting for the
\* network is not modelled: any of them.
CancelAll ==
  LET waiting == {e \in Executions : queue[e].status \in {"pending", "ready"}}
      active == {e \in Executions : queue[e].status \in Active}
  IN
  /\ waiting \cup active # {}
  /\ \A e \in active : HasTask(e)
  /\ \E recovering \in SUBSET {e \in Executions :
                         queue[e].status \in {"failed_before_publish", "uncertain"}} :
       queue' = [e \in Executions |->
         [queue[e] EXCEPT !.cancelAsked = @ \/ e \in waiting \cup active \cup recovering,
                          !.status = IF e \in waiting THEN "cancelled" ELSE @,
                          !.stage = IF e \in waiting THEN "idle" ELSE @]]
  /\ att' = [a \in Attempts |->
       IF InTask(a) /\ att[a].exec \in waiting \cup active
       THEN [att[a] EXCEPT !.task = IF @ \in {"cleaning", "closing"} THEN "closing" ELSE "cancelled"]
       ELSE att[a]]
  /\ owner' = [p \in Profiles |->
       IF owner[p].state = "handoff" /\ queue[owner[p].exec].token = owner[p].att
          /\ owner[p].exec \in waiting
       THEN [owner[p] EXCEPT !.state = "closing"] ELSE owner[p]]
  /\ UNCHANGED <<slow, clicks, crashes>>

-----------------------------------------------------------------------------
(* Writers that rewrite the whole file from an older copy, without a lock: run-  *)
(* now, which awaits docker; the review, in a thread of the request pool; the    *)
(* 15 s sweep, in a thread of the scheduler: first the heartbeat with its copy,  *)
(* then recovery with its own.  One is under way at a time.                      *)

UnlockedReads(kind, e) ==
  /\ slow.job = Free
  /\ slow' = [slow EXCEPT !.job = [kind |-> kind, exec |-> e, copy |-> queue]]
  /\ UNCHANGED <<queue, att, owner, clicks, crashes>>
RunNowReads(e) ==
  "overlap" \in Faults /\ ManualRetryOf(queue[e]) /\ UnlockedReads("run_now", e)
ReviewReads(e) ==
  "threads" \in Faults /\ queue[e].status = "uncertain" /\ UnlockedReads("review", e)
SweepReads == "threads" \in Faults /\ UnlockedReads("sweep", None)
UnlockedRead == SweepReads \/ \E e \in Executions : RunNowReads(e) \/ ReviewReads(e)

\* q replaces the whole file, and what others wrote since the read is lost.
Saves(q) ==
  /\ queue' = q
  /\ slow' = [job |-> Free,
              lost |-> slow.lost \cup {e \in Executions : slow.job.copy[e] # queue[e]}]
  /\ UNCHANGED <<att, owner, crashes>>

RunNowSaves ==
  LET e == slow.job.exec IN
  /\ slow.job # Free /\ slow.job.kind = "run_now"
  /\ Saves([slow.job.copy EXCEPT ![e] = RunNowRecord(@)])
  /\ clicks' = [clicks EXCEPT ![e] = 0]
ReviewSaves ==
  LET e == slow.job.exec IN
  /\ slow.job # Free /\ slow.job.kind = "review"
  /\ \/ Saves([slow.job.copy EXCEPT ![e] = ReviewedPublished(@)]) /\ UNCHANGED clicks
     \/ /\ Saves([slow.job.copy EXCEPT ![e] = ReviewedNotPublished(@)])
        /\ clicks' = [clicks EXCEPT ![e] = 0]

\* The heartbeat saves its copy with nothing but leases renewed, recovery with what
\* it had found by then.
SweepSaves ==
  LET copy == slow.job.copy IN
  /\ slow.job # Free /\ slow.job.kind = "sweep"
  /\ \E found \in SUBSET {e \in Executions :
                   Stale(copy[e]) \/ TurnedUp(copy[e]) \/ Unprepared(e, copy[e])} :
       Saves([e \in Executions |-> IF e \in found THEN RecoveryOf(copy[e]) ELSE copy[e]])
  /\ UNCHANGED clicks

\* Nothing was found or renewed, the save failed, or another writer that had read
\* before it replaced the file at once.
NothingSaved ==
  /\ slow.job # Free
  /\ slow' = [slow EXCEPT !.job = Free]
  /\ UNCHANGED <<queue, att, owner, clicks, crashes>>
UnlockedSave == RunNowSaves \/ ReviewSaves \/ SweepSaves \/ NothingSaved

-----------------------------------------------------------------------------
\* The backend dies and starts again.  A worker dies when it next prints to the
\* broken pipe: the click it had announced may still be sent, and one that had
\* concluded may outlive its reader and still write its result.
CrashRestart ==
  /\ crashes < MaxCrashes
  /\ \E late \in SUBSET {a \in Attempts : Alive(a) /\ att[a].stage \in {"announced", "concluded"}} :
       LET clicking == {a \in late : att[a].stage = "announced" /\ ~att[a].clicked} IN
       /\ att' = [a \in Attempts |->
            IF ~Used(a) THEN Unused
            ELSE [att[a] EXCEPT !.task = "over", !.unread = FALSE,
                    !.worker = IF @ # "alive" THEN @
                               ELSE IF a \in late \ clicking THEN "orphan" ELSE "dead",
                    !.clicked = @ \/ a \in clicking]]
       /\ clicks' = [e \in Executions |->
            clicks[e] + Cardinality({a \in clicking : att[a].exec = e})]
  /\ owner' = [p \in Profiles |->
       IF owner[p] = Free THEN Free ELSE [owner[p] EXCEPT !.state = "closing"]]
  /\ slow' = [slow EXCEPT !.job = Free] /\ crashes' = crashes + 1
  /\ UNCHANGED queue

OrphanFinalizes(a) ==
  /\ Used(a) /\ att[a].worker = "orphan"
  /\ att' = [att EXCEPT ![a].durable = att[a].stage = "concluded", ![a].worker = "dead"]
  /\ UNCHANGED <<queue, owner, slow, clicks, crashes>>

WorkerStep(a) == Advance(a) \/ Click(a) \/ Conclude(a) \/ Finalize(a) \/ Report(a)
TaskStep(a) ==
  \/ StartupFails(a) \/ Spawn(a) \/ Drain(a) \/ Finish(a) \/ Clean(a) \/ Close(a)
  \/ PrepFinish(a) \/ Handover(a) \/ CancelledTaskEnds(a)
Recovery(e) == RecoverStale(e) \/ RecoverUncertain(e) \/ RecoverReady(e) \/ NetworkRetry(e)
Operator(e) ==
  \/ RunNow(e) \/ RunNowCancelled(e)
  \/ ResolvePublished(e) \/ ResolveNotPublished(e)

Next ==
  \/ \E a \in Attempts, e \in Executions : Claim(a, e)
  \/ \E a \in Attempts : TaskStep(a) \/ WorkerStep(a) \/ Kill(a) \/ OrphanFinalizes(a)
  \/ \E e \in Executions : Recovery(e) \/ Operator(e)
  \/ \E p \in Profiles : OwnerFreed(p) \/ HandoffLapses(p)
  \/ UnlockedRead \/ UnlockedSave
  \/ Rerun \/ CancelAll \/ CrashRestart

Spec == Init /\ [][Next]_vars

\* Tasks run on, workers make progress (a silent one is terminated, see Kill),
\* and recovery runs every 15 s.  Nothing is asked of the operator.
Fairness ==
  /\ \A a \in Attempts : WF_vars(TaskStep(a)) /\ WF_vars(WorkerStep(a))
  /\ \A e \in Executions : WF_vars(RecoverStale(e))

FairSpec == Spec /\ Fairness

-----------------------------------------------------------------------------
(* Correctness *)

\* The posts whose record no unlocked writer has overwritten with an older one.
Intact == Executions \ slow.lost

\* A post is clicked at most once for every time the operator asked for it:
\* whatever crashes, is killed, cancelled, recovered, rerun with its batch or
\* retried by network recovery, nothing but run-now or a review leads to a
\* second click.  Only for a post whose record an unlocked writer has set back is
\* more not promised.
NeverRepeatedAutomatically == \A e \in Intact : clicks[e] <= 1

\* A click that may have been sent is on record in the queue file, so that
\* recovery, rerun and retry can see it, and only an unlocked writer takes it off.
ClickIsOnRecord ==
  \A e \in Intact : clicks[e] > 0 => HasPublicationEvidence(queue[e])

\* What is reported is true: a cancelled post was not clicked (an interrupted click
\* is uncertain instead), and without an operator saying so a post is reported as
\* published only after a click of the last request, never from an older attempt's
\* file.  Again an unlocked writer is the exception.
OutcomeIsTrue ==
  \A e \in Intact :
    /\ queue[e].status = "cancelled" => clicks[e] = 0
    /\ queue[e].status = "published" /\ ~queue[e].review => clicks[e] > 0

\* A worker only runs in a container its own attempt owns, hence at most one
\* worker per profile.
WorkerOwnsProfile == \A a \in Attempts : Alive(a) => Owns(a) /\ Owner(a).state = "active"

\* A running execution ends: its task reports, or recovery classifies it.
RunEnds == \A e \in Executions : queue[e].status \in Active ~> queue[e].status \notin Active

-----------------------------------------------------------------------------
(* What the documents say and the code does not do: the README tells how to see  *)
(* each of these refuted.                                                        *)

\* README.md: "a stale process cannot overwrite the outcome of a newer claim."
\* While the task of an attempt watches a live worker, the record is fenced to
\* that attempt: neither a late heartbeat nor recovery takes its lease away.
LiveAttemptKeepsLease ==
  \A a \in Attempts : Alive(a) /\ att[a].task = "working" =>
     ~Fenced(a) /\ queue[att[a].exec].status \in Active

\* README.md: "the task exits with code `2` (`uncertain`) and **never auto-retries
\* blindly**".  Not even when an unlocked writer has set the record back.
NeverRepeatedAtAll == \A e \in Executions : clicks[e] <= 1

\* runner.py: "If process failed after publish_clicked, status MUST be
\* uncertain, never failed!"
FailureMeansNoClick ==
  \A e \in Executions : queue[e].status = "failed_before_publish" => clicks[e] = 0

\* README.md: "uncertain outcomes hold that account's later posts for review."
\* No post is claimed while an earlier one of its account awaits review.
UncertainHoldsLaterPosts ==
  [][\A d, e \in Executions :
       d < e /\ ProfileOf[d] = ProfileOf[e] /\ queue[d].status = "uncertain"
         => ~(queue[e].status \notin Active /\ queue'[e].status \in Active)]_vars

\* profile_pipeline.py: "Terminal preparation failures/skips also finish an
\* iteration."  Once its task is over and the profile free, the execution no
\* longer holds back the later posts of its profile.
IterationFinished ==
  \A e \in Executions :
    queue[e].status \notin Active \cup {"pending", "ready"} /\ ~HasTask(e) /\ ProfileFree(e)
      => ~queue[e].held

=============================================================================
