------------------------------- MODULE PhoneJobs -------------------------------
(***************************************************************************)
(* The backend's phone jobs: android_jobs.py's posts, warming visits,      *)
(* first-use pass and follow-up comments, the hold and the switching lock  *)
(* of android_devices.py, opening an account (android_network.py), the     *)
(* live view that also switches users, and what the queue does with a      *)
(* phone execution: leases, recovery, cancellation, the operator's retry.  *)
(*                                                                         *)
(* Each account has one execution: a post with a first comment for the     *)
(* Posters, a warming visit for the others.  `job` is the coroutine that   *)
(* runs it (or its comment), `exe` the record in the queue file.           *)
(***************************************************************************)
EXTENDS PhoneFlows

CONSTANTS
  Posters,        \* accounts whose execution is a post
  Cooldown,       \* an account may wait longer than the queue lease before its post
  MaxFaults,      \* bound: backend crashes and cancellations
  MaxAsks,        \* bound: posts and comments the operator starts again
  MaxStarts,      \* MAX_COMMENT_STARTS
  MaxLost         \* bound: times a record is set back to an older one

ASSUME JobAssumption ==
  /\ Posters \subseteq Accounts /\ Cooldown \in BOOLEAN
  /\ {MaxFaults, MaxAsks, MaxLost} \subseteq Nat /\ MaxStarts \in Nat \ {0}
  /\ {"nobody", "viewer", "setup"} \cap Accounts = {}

VARIABLES
  job, exe, holder, lock, asks, faults,
  copies,   \* what a thread has read of the queue file and may still save
  lost      \* how often each account's record was set back by such a save

threadVars == <<copies, lost>>
vars == <<user, fb, misplaced, rn, job, exe, holder, lock, asks, faults, copies, lost>>

Nobody == "nobody"
Viewer == "viewer"
Setup == "setup"
JobPlaces == {"none", "cooldown", "hold", "opening", "running", "release", "record"}
Statuses == {"pending", "running", "published", "completed", "failed", "uncertain", "needs_review",
             "cancelled"}
CommentStates == {"none", "pending", "running", "verified", "unverified", "not_found", "interrupted"}

Jobs == [at : JobPlaces, task : Tasks, tapped : BOOLEAN, got : Results \cup {"not_started"}]
Records == [status : Statuses, clicked : BOOLEAN, lease : BOOLEAN, comment : CommentStates,
            starts : 0..MaxStarts]
TypeOK ==
  /\ FlowTypeOK
  /\ job \in [Accounts -> Jobs] /\ exe \in [Accounts -> Records]
  /\ holder \in Accounts \cup {Nobody, Setup} /\ lock \in Accounts \cup {Nobody, Viewer, Setup}
  /\ asks \in 0..MaxAsks /\ faults \in 0..MaxFaults
  /\ copies \subseteq [Accounts -> Records] /\ lost \in [Accounts -> 0..MaxLost]

NoJob == [at |-> "none", task |-> "post", tapped |-> FALSE, got |-> "none"]
Task(a) == IF a \in Posters THEN "post" ELSE "visit"
Init ==
  /\ FlowInit /\ job = [a \in Accounts |-> NoJob]
  /\ exe = [a \in Accounts |-> [status |-> "pending", clicked |-> FALSE, lease |-> FALSE,
                                comment |-> "none", starts |-> 0]]
  /\ holder = Nobody /\ lock = Nobody /\ asks = 0 /\ faults = 0
  /\ copies = {} /\ lost = [a \in Accounts |-> 0]

Counts == UNCHANGED <<asks, faults>>
JobAt(a, place) == job' = [job EXCEPT ![a].at = place]
\* is_task_process_active: the account's record runs, or its runner has not exited.
Active(a) ==
  \/ job[a].at \notin {"none", "record"}
  \/ \E s \in Slots : rn[s].at # "none" /\ rn[s].acct = a /\ rn[s].pipe # "broken"

-----------------------------------------------------------------------------
(* The hold and the switching lock *)

PhoneIsFree == holder = Nobody
HoldForJob(h) == PhoneIsFree /\ holder' = h
ReleaseJob == holder' = Nobody
\* phone_lock: while a job holds the phone only that job may switch it.  The check and the lock
\* taken right after it are one step here.
MayLock(who) == lock = Nobody /\ (who \in {Viewer} => PhoneIsFree)

-----------------------------------------------------------------------------
(* Posts and visits *)

\* dispatch, then claim_queue_execution: a lease and the account's ownership.
Claim(a) ==
  /\ exe[a].status = "pending" /\ ~Active(a) /\ job[a].at = "none" /\ PhoneIsFree
  /\ exe' = [exe EXCEPT ![a].status = "running", ![a].lease = TRUE, ![a].clicked = FALSE]
  /\ job' = [job EXCEPT ![a] = [NoJob EXCEPT !.task = Task(a), !.at = IF a \in Posters THEN "cooldown" ELSE "hold"]]
  /\ UNCHANGED <<phoneVars, rn, holder, lock>> /\ Counts
CooldownEnds(a) ==
  /\ job[a].at = "cooldown" /\ JobAt(a, "hold")
  /\ UNCHANGED <<phoneVars, rn, exe, holder, lock>> /\ Counts
\* _update writes only while the execution still carries this attempt's lease.  The lease of a
\* record that was set back may be an older attempt's.
Writes(a) == IF exe[a].lease THEN IF lost[a] = 0 THEN {TRUE} ELSE BOOLEAN ELSE {FALSE}
Fenced(a, record) ==
  \E writes \in Writes(a) : exe' = IF writes THEN [exe EXCEPT ![a] = record] ELSE exe
Hold(a) ==
  /\ job[a].at = "hold" /\ HoldForJob(a) /\ JobAt(a, "opening")
  /\ UNCHANGED <<phoneVars, rn, exe, lock>> /\ Counts
BackToPending(a) ==
  /\ job[a].at = "hold" /\ ~PhoneIsFree /\ JobAt(a, "none")
  /\ Fenced(a, [exe[a] EXCEPT !.status = "pending", !.lease = FALSE])
  /\ UNCHANGED <<phoneVars, rn, holder, lock>> /\ Counts

\* open_account: the user is shown, the others stopped, the network verified.
OpenAccount(a) ==
  /\ job[a].at = "opening" /\ MayLock(a) /\ lock' = a /\ user' = a
  /\ UNCHANGED <<fb, misplaced, rn, job, exe, holder>> /\ Counts
\* An account opened for a job that is gone goes on in its thread.
Opened(a) ==
  /\ lock = a /\ lock' = Nobody
  /\ IF job[a].at # "opening" THEN UNCHANGED <<job, rn, fb>>
     ELSE \/ /\ JobAt(a, "running") /\ rn' = [rn EXCEPT !["job"] = Runner(job[a].task, a)]
             /\ fb' = [fb EXCEPT ![a].draft = IF @ = "none" THEN @ ELSE "old", ![a].media = FALSE]
          \/ job' = [job EXCEPT ![a].at = "release", ![a].got = "not_started"] /\ UNCHANGED <<rn, fb>>
  /\ UNCHANGED <<user, misplaced, exe, holder>> /\ Counts
\* The lock is taken by someone else: open_account raises.
OpenRefused(a) ==
  /\ job[a].at = "opening" /\ lock \notin {Nobody, a}
  /\ job' = [job EXCEPT ![a].at = "release", ![a].got = "not_started"]
  /\ UNCHANGED <<phoneVars, rn, exe, holder, lock>> /\ Counts

\* on_event: the tap's event makes the stage durable, unless the attempt lost its lease.
Persisted(a) == Fenced(a, [exe[a] EXCEPT !.clicked = TRUE])
ReadEvent(a) ==
  /\ job[a].at = "running" /\ rn["job"].said /\ ~job[a].tapped
  /\ job' = [job EXCEPT ![a].tapped = TRUE]
  /\ IF job[a].task = "post" THEN Persisted(a) ELSE UNCHANGED exe
  /\ UNCHANGED <<phoneVars, rn, holder, lock>> /\ Counts
\* The runner's last line, or its end without one.
ResultRead(a, result) ==
  /\ job[a].at = "running" /\ rn["job"].said = job[a].tapped
  /\ job' = [job EXCEPT ![a].at = "release", ![a].got = result] /\ rn' = [rn EXCEPT !["job"] = Idle]
  /\ UNCHANGED <<phoneVars, exe, holder, lock>> /\ Counts
ReadResult(a) == rn["job"].at = "exit" /\ ResultRead(a, rn["job"].result)
RunnerDies(a) == rn["job"].at # "exit" /\ ResultRead(a, "none")

\* Mutant: only the runner's own word counts.
ResultOnly(a) ==
  CASE job[a].got \in {"published", "completed", "uncertain"} -> job[a].got
    [] job[a].got = "blocked" -> "needs_review"
    [] OTHER -> "failed"
\* finish
Outcome(a) ==
  CASE job[a].got \in {"published", "completed", "uncertain"} -> job[a].got
    [] job[a].got = "blocked" -> "needs_review"
    [] OTHER -> IF job[a].tapped THEN "uncertain" ELSE "failed"
FollowUp(a) == IF Outcome(a) = "published" THEN "pending" ELSE exe[a].comment
\* Mutant: the phone is freed only after a success.
FreesOnSuccess(a) ==
  /\ job[a].at = "release" /\ job[a].task \in {"post", "visit"} /\ JobAt(a, "none")
  /\ Fenced(a, [exe[a] EXCEPT !.status = Outcome(a), !.lease = FALSE, !.comment = FollowUp(a)])
  /\ IF Outcome(a) = "failed" THEN UNCHANGED holder ELSE ReleaseJob
  /\ UNCHANGED <<phoneVars, rn, lock>> /\ Counts
Finish(a) ==
  /\ job[a].at = "release" /\ job[a].task \in {"post", "visit"} /\ JobAt(a, "none")
  /\ Fenced(a, [exe[a] EXCEPT !.status = Outcome(a), !.lease = FALSE, !.comment = FollowUp(a)])
  /\ ReleaseJob /\ UNCHANGED <<phoneVars, rn, lock>> /\ Counts

-----------------------------------------------------------------------------
(* The first comment, in a job of its own *)

\* Mutant: an interrupted comment is due again.
ResumesInterrupted(a) ==
  /\ exe[a].comment = "running" /\ ~(job[a].task = "comment" /\ job[a].at \in {"opening", "running", "release"})
  /\ exe' = [exe EXCEPT ![a].comment = "pending"]
  /\ UNCHANGED <<phoneVars, rn, job, holder, lock>> /\ Counts
\* due_comments: one that runs in no coroutine is settled, the send may have happened.
SettleInterrupted(a) ==
  /\ exe[a].comment = "running" /\ ~(job[a].task = "comment" /\ job[a].at \in {"opening", "running", "release"})
  /\ exe' = [exe EXCEPT ![a].comment = "interrupted"]
  /\ UNCHANGED <<phoneVars, rn, job, holder, lock>> /\ Counts
\* dispatch_comments and the start of run_comment
StartComment(a) ==
  /\ exe[a].comment = "pending" /\ exe[a].status = "published" /\ ~Active(a) /\ job[a].at = "none"
  /\ HoldForJob(a) /\ exe' = [exe EXCEPT ![a].comment = "running"]
  /\ job' = [job EXCEPT ![a] = [NoJob EXCEPT !.task = "comment", !.at = "opening"]]
  /\ UNCHANGED <<phoneVars, rn, lock>> /\ Counts
\* run_comment's finally frees the phone and awaits the release of the account.
FreeComment(a) ==
  /\ job[a].at = "release" /\ job[a].task = "comment" /\ JobAt(a, "record") /\ ReleaseJob
  /\ UNCHANGED <<phoneVars, rn, exe, lock>> /\ Counts
CommentStatus(a) ==
  LET got == job[a].got IN
  CASE got = "posted" -> "verified" [] got = "unseen" -> "unverified" [] got = "skipped" -> "not_found"
    [] got = "not_started" -> IF exe[a].starts + 1 >= MaxStarts THEN "not_found" ELSE "pending"
    [] OTHER -> IF job[a].tapped THEN "unverified" ELSE "not_found"
RecordComment(a) ==
  /\ job[a].at = "record" /\ JobAt(a, "none")
  /\ exe' = [exe EXCEPT ![a].comment = CommentStatus(a),
                        ![a].starts = IF job[a].got = "not_started" /\ @ < MaxStarts THEN @ + 1 ELSE @]
  /\ UNCHANGED <<phoneVars, rn, holder, lock>> /\ Counts

-----------------------------------------------------------------------------
(* Setup's first-use pass, and people *)

\* run_get_ready holds the phone like a job; its runner is killed when it takes too long.  An
\* account is made ready before its first job.
GetReady(a) ==
  /\ exe[a].status = "pending" /\ HoldForJob(Setup) /\ MayLock(Setup) /\ rn["job"].at = "none"
  /\ user' = a /\ rn' = [rn EXCEPT !["job"] = Runner("ready", a)]
  /\ UNCHANGED <<fb, misplaced, job, exe, lock>> /\ Counts
GetReadyEnds ==
  /\ holder = Setup /\ ReleaseJob /\ rn' = [rn EXCEPT !["job"] = Idle]
  /\ UNCHANGED <<phoneVars, job, exe, lock>> /\ Counts
\* switch_user from the app, and the live view it opens.
SwitchUser(u) ==
  /\ MayLock(Viewer) /\ user # u /\ lock' = Viewer /\ user' = u
  /\ UNCHANGED <<fb, misplaced, rn, job, exe, holder>> /\ Counts
SwitchEnds == lock = Viewer /\ lock' = Nobody /\ UNCHANGED <<phoneVars, rn, job, exe, holder>> /\ Counts
\* Run again, offered for what did not publish; a comment only when its post was not found.
RunAgain(a) ==
  /\ asks < MaxAsks /\ asks' = asks + 1 /\ exe[a].status \in {"failed", "cancelled"}
  /\ exe' = [exe EXCEPT ![a].status = "pending"]
  /\ UNCHANGED <<phoneVars, rn, job, holder, lock, faults>>
RequestCommentRetry(a) ==
  /\ asks < MaxAsks /\ asks' = asks + 1 /\ exe[a].comment = "not_found"
  /\ exe' = [exe EXCEPT ![a].comment = "pending"]
  /\ UNCHANGED <<phoneVars, rn, job, holder, lock, faults>>

-----------------------------------------------------------------------------
(* Leases, cancellation, crash *)

\* apply_interrupted_execution_recovery: what the recorded stage tells.
Recovered(e) == [e EXCEPT !.lease = FALSE, !.status = IF e.clicked THEN "uncertain" ELSE "failed"]
\* The heartbeat renews only the lease of an attempt that has a job record; during the cooldown it
\* has none, and a lease that was set back may be an older attempt's.
Expired(a, e) ==
  /\ e.status = "running" /\ e.lease
  /\ (Cooldown /\ job[a].at = "cooldown") \/ job[a].at = "none" \/ lost[a] > 0
LeaseExpires(a) ==
  /\ Expired(a, exe[a])
  /\ exe' = [exe EXCEPT ![a] = Recovered(@)]
  /\ UNCHANGED <<phoneVars, rn, job, holder, lock>> /\ Counts
\* The heartbeat and the recovery after it, and a review, run in threads: they read the whole file
\* and save it again, what they found expired with it, over whatever was written in between.  One
\* is under way at a time.
Else == UNCHANGED <<phoneVars, rn, job, holder, lock>> /\ Counts
ThreadReads == copies = {} /\ copies' = {exe} /\ UNCHANGED <<exe, lost>> /\ Else
ThreadSaves ==
  \E copy \in copies : \E found \in SUBSET {a \in Accounts : Expired(a, copy[a])} :
    LET back == {a \in Accounts : copy[a] # exe[a]} IN
    /\ \A a \in back : lost[a] < MaxLost
    /\ exe' = [a \in Accounts |-> IF a \in found THEN Recovered(copy[a]) ELSE copy[a]]
    /\ lost' = [a \in Accounts |-> IF a \in back THEN lost[a] + 1 ELSE lost[a]]
    /\ copies' = {} /\ Else
\* Nothing to renew or recover, or the save failed.
NothingSaved == copies # {} /\ copies' = {} /\ UNCHANGED <<exe, lost>> /\ Else
Threads == ThreadReads \/ ThreadSaves \/ NothingSaved
\* Cancel all: the coroutine's finally frees the phone.  Its record carries no owner token, so
\* _terminate_owned_worker passes its runner by; an account being opened is opened to its end.
Orphaned(a, pipe) ==
  rn' = IF job[a].at = "running"
        THEN [rn EXCEPT !["job"] = Idle, !["orphan"] = [rn["job"] EXCEPT !.pipe = pipe]] ELSE rn
Cancelled(e) == LET r == Recovered(e) IN [r EXCEPT !.status = IF r.status = "failed" THEN "cancelled" ELSE @]
Cancel(a) ==
  /\ faults < MaxFaults /\ faults' = faults + 1 /\ rn["orphan"].at = "none"
  /\ job[a].at \in {"cooldown", "hold", "opening", "running"} /\ job[a].task # "comment"
  /\ exe[a].status = "running" /\ exe' = [exe EXCEPT ![a] = Cancelled(@)]
  /\ job' = [job EXCEPT ![a] = NoJob] /\ Orphaned(a, "kept")
  /\ holder' = IF holder = a THEN Nobody ELSE holder
  /\ UNCHANGED <<phoneVars, lock, asks>>
\* A backend that dies forgets its jobs, the hold and the lock; the runner is left behind.
Crash ==
  /\ faults < MaxFaults /\ faults' = faults + 1 /\ rn["orphan"].at = "none"
  /\ holder' = Nobody /\ lock' = Nobody /\ job' = [a \in Accounts |-> NoJob]
  /\ rn' = [rn EXCEPT !["job"] = Idle,
       !["orphan"] = IF rn["job"].at = "none" THEN Idle ELSE [rn["job"] EXCEPT !.pipe = "broken"]]
  /\ UNCHANGED <<phoneVars, exe, asks>>

-----------------------------------------------------------------------------
HolderStep(a) ==
  \/ OpenAccount(a) \/ Opened(a) \/ OpenRefused(a) \/ ReadEvent(a) \/ ReadResult(a)
  \/ Finish(a) \/ FreeComment(a)
JobStep(a) ==
  \/ HolderStep(a) \/ Claim(a) \/ CooldownEnds(a) \/ Hold(a) \/ BackToPending(a)
  \/ SettleInterrupted(a) \/ StartComment(a) \/ RecordComment(a) \/ LeaseExpires(a)
People ==
  \/ \E a \in Accounts : GetReady(a)
  \/ \E a \in Posters : RunAgain(a) \/ RequestCommentRetry(a) \/ Cancel(a)
  \/ GetReadyEnds \/ SwitchEnds \/ \E u \in Accounts \cup {Owner} : SwitchUser(u)
Backend == UNCHANGED <<job, exe, holder, lock, asks, faults>>
Works ==
  \/ \E a \in Accounts : JobStep(a) \/ RunnerDies(a)
  \/ People
  \/ (\E s \in Slots : RunnerStep(s)) /\ Backend
  \/ OrphanExits /\ Backend
Next ==
  \/ Works /\ UNCHANGED threadVars
  \/ Crash /\ copies' = {} /\ UNCHANGED lost
  \/ Threads

\* The coroutine that holds the phone goes on, its runner's steps have deadlines of their own,
\* setup's is killed at its timeout, a switch ends.  Nothing makes a runner die or a person act.
Progress ==
  /\ UNCHANGED threadVars
  /\ \/ \E a \in Accounts : holder = a /\ HolderStep(a)
     \/ Backend /\ RunnerStep("job")
     \/ GetReadyEnds \/ SwitchEnds
Fairness == WF_vars(Progress)
Spec == Init /\ [][Next]_vars /\ Fairness

-----------------------------------------------------------------------------
(* Properties *)

\* A share or send is tapped only on the job's own account, over its own media and, where the
\* screen can show it, its own caption: no switch, viewer, earlier draft or other job gets between
\* (job.py, android_devices.phone_lock).  A caption that cannot be read back may be missing, and a
\* runner that outlives its job is the exception.
SharesOwnPost == faults = 0 => ~misplaced

\* An account's own draft and comment are never shared again unless somebody asked for it: not
\* by the queue, by recovery, by a runner left behind, nor by the comment's own retries (job.py's
\* outcomes).  What a runner left behind composes on another account's user is not its draft, and
\* each save of an older copy over the account's record may cost one repetition.
Allowed(a) == 1 + asks + lost[a]
NothingTwiceUnasked ==
  \A a \in Accounts : fb[a].own <= Allowed(a) /\ fb[a].comments <= Allowed(a)

\* "failed" is offered for another run, so nothing was shared (execute_queue_phone's on_event),
\* while no job was lost and no thread set the record back.
FailedWasNotShared ==
  \A a \in Accounts : faults = 0 /\ lost[a] = 0 /\ exe[a].status = "failed" => fb[a].posts = 0

\* "cancelled" says the same (cancel_all_local_posts: "Stopped and cancelled").
CancelledWasNotShared == \A a \in Accounts : exe[a].status = "cancelled" => fb[a].posts = 0

\* A comment may be asked for again only when it was not sent (request_comment_retry).
NotFoundWasNotSent == \A a \in Accounts : asks = 0 /\ exe[a].comment = "not_found" => fb[a].comments = 0

\* Whatever its runner meets, a job frees the phone (the finally of every job).
PhoneIsFreed == holder # Nobody ~> holder = Nobody
=============================================================================
