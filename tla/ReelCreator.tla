------------------------------ MODULE ReelCreator ------------------------------
(***************************************************************************)
(* The local renderer: store.py's journal of render jobs and service.py's  *)
(* worker thread, which claims a job, encodes it with a supervised FFmpeg, *)
(* verifies the file, exports it in one transaction with the journal, and  *)
(* after a crash kills what the last backend left running and settles the  *)
(* job it was rendering.                                                   *)
(*                                                                         *)
(* `job` is the journal, `file` the promoted export, `orphan` an FFmpeg    *)
(* that outlived its backend, `at` and `cur` the worker thread and `proc`  *)
(* the job of the FFmpeg it has started.                                   *)
(***************************************************************************)
EXTENDS Naturals, Sequences

CONSTANTS
  Jobs,           \* request IDs; each names at most one job
  Finals,         \* the jobs that are final renders; the others are previews
  MaxRequeues,    \* MAX_REQUEUES
  MaxFailures,    \* bound: crashes, shutdowns and failed renders
  MaxAsks,        \* bound: cancellations and retries
  NoJob           \* no job at all

ASSUME ReelAssumption ==
  Finals \subseteq Jobs /\ {MaxRequeues, MaxFailures, MaxAsks} \subseteq Nat /\ NoJob \notin Jobs

VARIABLES job, order, file, orphan, at, cur, proc, seen, stopping, nvenc, failures, asks

journal == <<job, order, file>>
worker == <<at, cur, proc, seen>>
renderVars == <<job, order, file, orphan, worker, stopping, nvenc, failures, asks>>

Stopped == {"failed", "interrupted", "cancelled"}
Active == {"rendering", "verifying"}
Steps == {"prepare", "spawn", "record", "encode", "check", "copy", "export", "requeue"}
NewJob == [state |-> "none", cancel |-> FALSE, requeues |-> 0, pid |-> FALSE, marked |-> FALSE]

States == {"none", "queued", "completed"} \cup Active \cup Stopped
JobRecords == [state : States, cancel : BOOLEAN, requeues : Nat, pid : BOOLEAN, marked : BOOLEAN]
Flags == stopping \in BOOLEAN /\ nvenc \in BOOLEAN
RenderTypeOK ==
  /\ job \in [Jobs -> JobRecords] /\ order \in Seq(Jobs) /\ file \in [Jobs -> {"none", "whole"}]
  /\ orphan \in Jobs \cup {NoJob} /\ cur \in Jobs \cup {NoJob} /\ proc \in Jobs \cup {NoJob}
  /\ at \in Steps \cup {"down", "recover", "idle", "expire"} /\ seen \in [Jobs -> BOOLEAN]
  /\ Flags /\ failures \in 0..MaxFailures /\ asks \in 0..MaxAsks

RenderInit ==
  /\ job = [j \in Jobs |-> NewJob] /\ order = <<>> /\ file = [j \in Jobs |-> "none"]
  /\ orphan = NoJob /\ at = "down" /\ cur = NoJob /\ proc = NoJob /\ seen = [j \in Jobs |-> FALSE]
  /\ stopping = FALSE /\ nvenc \in BOOLEAN /\ failures = 0 /\ asks = 0

Update(j, change) == job' = [job EXCEPT ![j] = change]
SetState(j, state) == Update(j, [job[j] EXCEPT !.state = state, !.pid = FALSE])
Failure == failures < MaxFailures /\ failures' = failures + 1
Ask == asks < MaxAsks /\ asks' = asks + 1
Env == UNCHANGED <<stopping, nvenc, failures, asks>>

-----------------------------------------------------------------------------
(* Requests: each is one transaction of the journal *)

\* create_job: the same request ID gives the same job.
Enqueue(j) ==
  /\ at # "down" /\ job[j].state = "none"
  /\ SetState(j, "queued") /\ order' = Append(order, j)
  /\ UNCHANGED <<file, orphan, worker>> /\ Env
Cancel(j) ==
  /\ job[j].state \in Active \cup {"queued"}
  /\ Update(j, [job[j] EXCEPT !.cancel = TRUE, !.state = IF @ = "queued" THEN "cancelled" ELSE @])
  /\ UNCHANGED <<order, file, orphan, worker, stopping, nvenc, failures>> /\ Ask
Retry(j) ==
  /\ job[j].state \in Stopped
  /\ Update(j, [NewJob EXCEPT !.state = "queued", !.marked = job[j].marked])
  /\ UNCHANGED <<order, file, orphan, worker, stopping, nvenc, failures>> /\ Ask

-----------------------------------------------------------------------------
(* The worker *)

\* start: the list of jobs recovery works from is read once.
Start ==
  /\ at = "down" /\ at' = "recover" /\ stopping' = FALSE
  /\ seen' = [j \in Jobs |-> job[j].cancel]
  /\ UNCHANGED <<journal, orphan, cur, proc, nvenc, failures, asks>>

\* stop_owned_process by the saved process, then every process whose command or directory is the
\* attempt's.  Mutant: only the saved process.
SavedProcess(j) == IF orphan = j /\ job[j].pid THEN NoJob ELSE orphan
Killed(j) == IF orphan = j /\ job[j].marked THEN NoJob ELSE orphan
\* _recover, for one job the last backend was rendering; checking its export may fail, as it does
\* when the operator cancels meanwhile.
\* Mutant: a preview is not worth recovering.
FinalsOnly(j) ==
  /\ at = "recover" /\ job[j].state \in Active /\ j \in Finals
  /\ \/ /\ file[j] = "whole" /\ ~seen[j] /\ SetState(j, "completed")
     \/ SetState(j, IF seen[j] THEN "cancelled" ELSE "interrupted")
  /\ orphan' = Killed(j) /\ UNCHANGED <<order, file, worker>> /\ Env
Recover(j) ==
  /\ at = "recover" /\ job[j].state \in Active
  /\ \/ /\ file[j] = "whole" /\ ~seen[j] /\ SetState(j, "completed")
     \/ SetState(j, IF seen[j] THEN "cancelled" ELSE "interrupted")
  /\ orphan' = Killed(j) /\ UNCHANGED <<order, file, worker>> /\ Env
Recovered ==
  /\ at = "recover" /\ \A j \in Jobs : job[j].state \notin Active
  /\ at' = "idle" /\ UNCHANGED <<journal, orphan, cur, proc, seen>> /\ Env

\* claim: finals before previews, each in the order they were asked for.
Queued == {i \in DOMAIN order : job[order[i]].state = "queued"}
Precedes(i, k) == IF order[i] \in Finals <=> order[k] \in Finals THEN i <= k ELSE order[i] \in Finals
\* Pressure on the machine may hold the queue back for a while.
ClaimJob ==
  /\ at = "idle" /\ ~stopping /\ at' = "prepare"
  /\ \E i \in Queued :
       (\A k \in Queued : Precedes(i, k)) /\ cur' = order[i] /\ SetState(order[i], "rendering")
  /\ UNCHANGED <<order, file, orphan, proc, seen>> /\ Env

StepTo(place) == at' = place /\ UNCHANGED <<cur, seen>>
\* _render: the attempt's own directory, then the encoder is started and its process saved.
Prepare ==
  /\ at = "prepare" /\ StepTo("spawn") /\ Update(cur, [job[cur] EXCEPT !.marked = TRUE])
  /\ UNCHANGED <<order, file, orphan, proc>> /\ Env
Spawn ==
  /\ at = "spawn" /\ StepTo("record") /\ proc' = cur /\ UNCHANGED <<journal, orphan>> /\ Env
RecordProcess ==
  /\ at = "record" /\ StepTo(IF job[cur].state = "rendering" THEN "encode" ELSE "check")
  /\ Update(cur, [job[cur] EXCEPT !.pid = TRUE])
  /\ UNCHANGED <<order, file, orphan, proc>> /\ Env
\* The GPU's encoder failed: the owned process is stopped and the CPU starts over.
FallBack ==
  /\ at = "encode" /\ nvenc /\ nvenc' = FALSE /\ StepTo("spawn") /\ proc' = NoJob
  /\ Update(cur, [job[cur] EXCEPT !.pid = FALSE])
  /\ UNCHANGED <<order, file, orphan, stopping, failures, asks>>
\* Encoded: the probe and the full decode are supervised the same way.
Encoded ==
  /\ at = "encode" /\ StepTo("spawn") /\ proc' = NoJob /\ SetState(cur, "verifying")
  /\ UNCHANGED <<order, file, orphan>> /\ Env
Verified ==
  /\ at = "check" /\ StepTo("copy") /\ proc' = NoJob /\ Update(cur, [job[cur] EXCEPT !.pid = FALSE])
  /\ UNCHANGED <<order, file, orphan>> /\ Env
Copy == at = "copy" /\ StepTo("export") /\ UNCHANGED <<journal, orphan, proc>> /\ Env

\* The render is over: its directory goes with it.
Leaves(state) ==
  /\ at' = "idle" /\ cur' = NoJob /\ proc' = NoJob /\ UNCHANGED <<order, orphan, seen>>
  /\ Update(cur, [job[cur] EXCEPT !.state = state, !.pid = FALSE, !.marked = FALSE])
\* Mutant: cancellation is looked at before the copy, not in the transaction.
ExportsAnyway ==
  /\ at = "export" /\ Leaves("completed") /\ file' = [file EXCEPT ![cur] = "whole"] /\ Env
\* One transaction: no cancellation and no shutdown, the file promoted, the job completed.
Export ==
  /\ at = "export" /\ ~job[cur].cancel /\ ~stopping
  /\ Leaves("completed") /\ file' = [file EXCEPT ![cur] = "whole"] /\ Env
ExportRefused ==
  /\ at = "export" /\ (job[cur].cancel \/ stopping)
  /\ Leaves(IF job[cur].cancel THEN "cancelled" ELSE "interrupted") /\ UNCHANGED file /\ Env
\* What follows the promotion in the transaction fails: the thumbnail, the directory, the commit.  The
\* job has failed and the file stays.
ExportFails ==
  /\ at = "export" /\ ~job[cur].cancel /\ ~stopping /\ file' = [file EXCEPT ![cur] = "whole"]
  /\ Leaves("failed") /\ UNCHANGED <<stopping, nvenc, asks>> /\ Failure
\* The crash between the promotion and the commit.
PromotedOnly ==
  /\ at = "export" /\ ~job[cur].cancel /\ ~stopping /\ file' = [file EXCEPT ![cur] = "whole"]
  /\ at' = "down" /\ cur' = NoJob /\ UNCHANGED <<job, order, orphan, proc, seen, stopping, nvenc, asks>> /\ Failure

\* _guard, polled while a process runs.
Interrupted ==
  /\ at \in {"encode", "check"} /\ (job[cur].cancel \/ stopping)
  /\ Leaves(IF job[cur].cancel THEN "cancelled" ELSE "interrupted") /\ UNCHANGED file /\ Env
\* Pressured: automation, Live, maintenance or memory needs the machine.
Pressured ==
  /\ at \in {"encode", "check"} /\ ~job[cur].cancel /\ StepTo("requeue") /\ proc' = NoJob
  /\ IF job[cur].requeues < MaxRequeues THEN UNCHANGED failures ELSE Failure
  /\ Update(cur, [job[cur] EXCEPT !.pid = FALSE])
  /\ UNCHANGED <<order, file, orphan, stopping, nvenc, asks>>
\* Back to the queue, a bounded number of times; a cancellation may land after the job was read.
Requeue ==
  /\ at = "requeue" /\ at' = "idle" /\ cur' = NoJob /\ UNCHANGED <<order, file, orphan, proc, seen>> /\ Env
  /\ \/ job[cur].cancel /\ Update(cur, [job[cur] EXCEPT !.state = "cancelled", !.marked = FALSE])
     \/ Update(cur, IF job[cur].requeues >= MaxRequeues
                      THEN [job[cur] EXCEPT !.state = "interrupted", !.marked = FALSE]
                      ELSE [job[cur] EXCEPT !.state = "queued", !.marked = FALSE, !.requeues = @ + 1])
\* A missing input, a full disk, a timeout, an encoder or a verification that fails; or a check
\* that takes too much memory.
RenderFails ==
  /\ at \in Steps /\ UNCHANGED <<file, stopping, nvenc, asks>> /\ Failure
  /\ \/ Leaves("failed")
     \/ at = "check" /\ Leaves(IF job[cur].cancel THEN "cancelled" ELSE "interrupted")

-----------------------------------------------------------------------------
(* Shutdown and crashes *)

Stop ==
  /\ at # "down" /\ ~stopping /\ stopping' = TRUE
  /\ UNCHANGED <<journal, orphan, worker, nvenc, asks>> /\ Failure
WorkerEnds ==
  /\ at = "idle" /\ stopping /\ at' = "down" /\ UNCHANGED <<journal, orphan, cur, proc, seen>> /\ Env
\* The backend dies, or exits before the worker noticed its stop; FFmpeg may go on.
RenderCrash ==
  /\ at # "down" /\ at' = "down" /\ cur' = NoJob /\ proc' = NoJob
  /\ orphan' \in (IF proc # NoJob THEN {proc, NoJob} ELSE {orphan})
  /\ UNCHANGED <<journal, seen, stopping, nvenc, asks>> /\ Failure
OrphanExits == orphan # NoJob /\ orphan' = NoJob /\ UNCHANGED <<journal, worker>> /\ Env

\* A preview older than seven days: its file, then its job.
ExpireFile(j) ==
  /\ at = "idle" /\ j \notin Finals /\ job[j].state = "completed" /\ file[j] = "whole"
  /\ at' = "expire" /\ file' = [file EXCEPT ![j] = "none"]
  /\ UNCHANGED <<job, order, orphan, cur, proc, seen, stopping, nvenc, asks>> /\ Failure
ExpireJob(j) ==
  /\ at \in {"idle", "expire"} /\ j \notin Finals /\ job[j].state = "completed" /\ file[j] = "none"
  /\ at' = "idle" /\ SetState(j, "failed") /\ UNCHANGED <<order, file, orphan, cur, proc, seen>> /\ Env

Work ==
  \/ Start \/ (\E j \in Jobs : Recover(j)) \/ Recovered
  \/ Prepare \/ Spawn \/ RecordProcess \/ FallBack \/ Encoded \/ Verified \/ Copy
  \/ Export \/ ExportRefused \/ Interrupted \/ Requeue \/ (\E j \in Jobs : ExpireJob(j))
RenderNext ==
  \/ Work \/ ClaimJob \/ Pressured \/ RenderFails \/ ExportFails \/ PromotedOnly
  \/ Stop \/ WorkerEnds \/ RenderCrash \/ OrphanExits
  \/ \E j \in Jobs : Enqueue(j) \/ Cancel(j) \/ Retry(j) \/ ExpireFile(j)

\* The worker thread runs, the backend is started again, and an encoder that is fed finishes; that
\* the machine ever becomes free is not assumed.
RenderFairness == WF_renderVars(Work)
RenderSpec == RenderInit /\ [][RenderNext]_renderVars /\ RenderFairness

-----------------------------------------------------------------------------
(* Properties *)

\* A cancellation that the journal holds keeps the video out of the media folder: no file is
\* promoted for a job whose cancellation was recorded (_render's export transaction, Store.cancel).
CancelStopsTheExport == [][\A j \in Jobs : file'[j] = "whole" /\ file[j] = "none" => ~job[j].cancel]_renderVars

\* One FFmpeg at a time, across crashes: a new encoder never starts while one that outlived its
\* backend still runs, even if that backend died before it saved the process (_recover).
OneEncoder == proc = NoJob \/ orphan = NoJob

\* A job being rendered does not stay so: it completes, stops or goes back to the queue, through
\* cancellations, shutdowns and crashes.
RendersEnd == \A j \in Jobs : job[j].state \in Active ~> job[j].state \notin Active
=============================================================================
