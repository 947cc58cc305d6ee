# Formal models of the Isolated Browser Manager's posting core

The program publishes posts to social accounts by driving one isolated browser
container, or one Android user of a phone, per account.  A backend (`backend/`, FastAPI on one event loop)
keeps a queue of posts in `data/posting_queue.json`, starts a container and a
worker process (`automation/runner.py`) per attempt, watches them, and classifies
what they leave behind.  Live broadcasts, warming visits and phone jobs share that
queue; a separate worker thread renders Reels.  An optional agent (`backend/worker/`) takes attempts
from a cloud over a websocket and feeds the same queue.

Everything that makes this hard follows from one fact: **a click on "Post" cannot
be undone and cannot be asked about afterwards.**  A post must not be clicked
twice because something crashed, must not be reported as failed when it may be
out, and must not be driven by two browsers at once; all that with awaits
between reading and writing, workers that die at any line, watchdogs, an
operator who retries, and a backend that restarts.

## 1. Inventory

| Part | State it keeps | Operations | Hard because |
|---|---|---|---|
| Container lifecycle registry (`services/container_lifecycle.py`) | `data/`'s owners file: profile → token, execution, state, used, deadlines | `acquire`, `mark_used`, `heartbeat`, `handoff`, `release`, `recover`, `set_update_maintenance` | `release` awaits a stop with no lock; three kinds of sweep; restart |
| Automation service (`services/automation_service.py`) | task records, running tasks per execution | claim, spawn, read output, write result, clean up, prepare and hand over, cancel, recover, heartbeat | tasks, watchdogs and recovery interleave at each await |
| Posting queue (`services/queue_service.py`) | the queue file, the claim lock file | load, save, persist a stage, claim lock | whole-file rewrites from copies read before an await, or in another thread |
| Leases and admission (`services/queue_scheduler.py`) | `scheduler_lease` in each record | issue, check, release | leases are fencing tokens |
| Profile pipeline (`services/profile_pipeline.py`) | nothing of its own | is a post of this account due | depends on flags other paths must clear |
| Publication safety (`queue_safety.py`, `publication_evidence.py`, `publication_recovery.py`) | evidence in the record and in `result.json` | classify, recover | decides whether a click may have happened |
| Network recovery (`network_recovery.py`, `queue_network_recovery.py`) | `network_recovery` in each record | probe, confirm, queue a retry | a measurement is awaited and applied later |
| Operator (`routers/queue.py`) | none | run now, rerun, resolve, cancel, delete | some paths hold no lock |
| Worker process (`runner.py`, `tasks/base_task.py`) | stage, `result.json` | publish gate, click, outcome, result line | may die between any two outputs |
| Cloud agent (`backend/worker/`) | SQLite journal: attempts, outbox, commands | session, offer, start, command, tick, deliver | lost or repeated messages, crash between journal and queue |
| Lifespan and jobs (`main.py`, `scheduler/background.py`) | none | start, recover, sweep, shut down | order of recovery and service |
| Idempotency and request handlers (`idempotency.py`, `routers/queue.py`) | rows per key in SQLite, the queue file | claim a key, replay, refuse, forget; create, extend, delete, archive | handlers in threads interleave with the event loop; a lock and a row that grow old |
| Publishing tasks (`automation/tasks`, `engine`, `modules`) | the task object, stage history, context of the pipeline | one workflow step each, verification, prompt, comment, finalize, report | readings of a screen fail; dialogs and deadlines after the click |
| Live broadcasts (`live_service.py`, `live_encoder.py`, `tasks/facebook_live.py`) | session file, `CONTROLS`, destination lock, queue record | claim, prepare, go live, play, end, judge, stop, review, shutdown | Facebook may go live without Go Live; helper, encoder or backend die |
| Phones, jobs (`android_jobs.py`, `android_devices.py`, `automation/phone`) | phone hold, switching lock, queue record, comment state | open an account, post, visit, comment follow-up, recovery | one phone, many accounts, a person who may switch users; runners that outlive their job |
| Phones, setup (`android_setup.py`, `android_ownership.py`, `android_network.py`, companion app) | app store on the phone, reservations and PIN on each PC | setup run, import, takeover, proxy replacement, PIN, verification | two PCs, one phone, a cable that moves in the middle of a run |
| Auto-warming (`auto_warming.py`, `account_hold.py`, `active_hours.py`) | warming items, `yield.json`, holds and restarts, history | plan, run, yield, hand over, hold, release, restart | the dispatcher's list is old when it is used |
| Reel creator (`services/reel_creator`) | SQLite journal of jobs, exported files, process marks | request, claim, encode, verify, export, cancel, retry, recover | an FFmpeg outlives its backend; file and journal change together |
| Resources, websites, vision and input, manager app, image | see PROJECT.json | | section 8 |

Interaction: a task claims an execution in the queue (lease, owner token), acquires
the container under the same token, spawns the worker, persists the stages it
prints, writes the result while the lease is still its own, releases lease and
container.  Sweeps and the heartbeat job kill and reclaim; recovery
reclassifies records; the operator and network recovery make them pending
again.  The cloud agent only adds executions to the queue, cancels unclaimed
ones and reads their status.

Live, warming and phone items are claimed and leased like posts, but a phone item has no
container.  Warming gives its slot to a post by `yield.json`.  Requests of users reach the queue
through the idempotency middleware.

What makes each correct, in a line: the registry gives a container to one
token at a time and never loses a running one; the queue never repeats a click
on its own and keeps its evidence; the agent tells the cloud the truth,
once, and eventually; a key gives its work once; a run clicks once, on the draft its job asks for, after announcing it;
a broadcast is never assumed ended nor offered again once it was sent; a phone shares an account's own
draft and only behind that account's proxy; nothing starts on a paused account; one encoder runs at a time.

## 2. Modules

| Module | Models |
|---|---|
| `ContainerOwnership` | what the registry promises: take, use, offer, close, free |
| `ContainerLifecycle` | the registry with its callers; implements `ContainerOwnership` |
| `PostingQueue` | the queue record, attempts, workers, recovery, operator |
| `CloudWorker` | agent, journal, adapter, intent marker, with the cloud as environment |
| `QueueRequests` | whole-file writes of the queue, the claim lock, the idempotency store |
| `FacebookPage` | environment: the page a worker sees, the draft, what Facebook accepted |
| `PublishTask` | what every publishing task shares: stages, gate, outcome rules, waits |
| `ReelTask`, `PostTask` | the workflow steps of Reels (templates t1, t2, t3) and of photo and text posts (P1, P2) |
| `PublishPipeline` | a whole run: startup, publish, prompt, verifier, comment, finalize, report; implements `PublishOnce` |
| `PublishOnce` | what one run promises the queue: announce, click at most once, conclude truthfully |
| `FacebookLive`, `LiveSession` | Live Producer, encoder and helper; `run_live`, session file, execution, review |
| `PhoneScreen`, `PhoneFlows`, `PhoneJobs` | the phone; the runner and its flows; the backend's jobs, hold and recovery |
| `PhoneSetup` | setup runs and the move of a phone between PCs |
| `AutoWarming` | visits, holds, restarts and the dispatcher's pass |
| `ReelCreator` | the render journal and its worker thread |
| `ContainerLifecycleProofs`, `PostingQueueProofs`, `CloudWorkerProofs`, `PublishPipelineProofs`, `LiveSessionProofs`, `PhoneJobsProofs`, `PhoneSetupProofs` | inductive invariants and theorems about the module each is named after (section 4) |
| `BackendProofs` | the same for `QueueRequests`, `AutoWarming` and `ReelCreator`; it extends all three, so the last two prefix what would share a name (`WarmingInit`, `RenderInit`, ...) |
| `MC…` | instances for TLC |

### ContainerLifecycle

`owners` is the owners file; `container` what docker says; `job[t]` the task that
drew token `t` (queue publisher or preparer, manual run, broadcast: they share the
registry and `_terminate_owned_worker`); `stops` the stop commands in flight, each
with who awaits it; `seen`/`at` a sweep's snapshot and its place in it.  Each
registry function is one step, being under one lock; what awaits (start, stop,
termination) is a step for its beginning and one for its end.  Three sweeps exist:
the awaited one of the lifespan (startup, and forced at shutdown), the one
`setup_background_tasks` starts without waiting, and the 15-second job.
Deadlines are not clocks: `late` says whether the heartbeat or the hard
deadline has passed, and the steps `HeartbeatLapses` and `DeadlinePasses` make it so.

`Overlaps` names two timings which the clock makes rare and the code does not
exclude: `"stop"`, a stop that is still running when another sweep resumes it
(an orphan's at once, any other after 300 seconds), and `"start"`, a start
command still in flight when its owner is released.  The run and the
proofs exclude both; section 3 says what the first does.

### PostingQueue

`queue[e]` has the fields of an execution that decide anything; `att[a]` is
attempt `a`: its task in the backend, its worker, the last stage it printed and
whether the task has read it, whether it clicked, its outcome, whether
`result.json` and the result line exist.  One number per attempt stands for the
lease id and the owner token, both drawn by the same claim.  Stages are kept in
the classes recovery tells apart (`idle`, `running`, `composing`, `authorized` =
past the gate, `announced` = `publish_clicked`/`verifying`, `concluded`).
`owner` is the registry seen through `ContainerOwnership`: its
sweeps appear as `Kill`, `OwnerFreed`, `HandoffLapses`.  `clicks` counts clicks since
the operator last asked for one (run now, resolve as not published).

Functions under the claim lock, and handlers that run on the event loop and do not await between load and
save, are one step.  Four writers are neither and rewrite the whole file from an older copy: `run_execution_now`, which awaits
docker in between; `resolve_uncertain`, a plain `def` that runs in the request pool; and the 15-second job
`heartbeat_scheduler_leases`, a plain `def` that APScheduler runs in a thread, twice: once to renew leases, once in the recovery it ends
with.  `slow.job` is the copy such a writer holds.  A review reads (`ReviewReads`) and saves its verdict into its copy
(`ReviewSaves`); a sweep reads (`SweepReads`) and saves its copy with any subset of what recovery finds in it (`SweepSaves`; the empty
set is the heartbeat); either may save nothing (`NothingSaved`).  One such writer is under way at a time.
The same work is also done in one step: startup recovery and the recovery at the start of every dispatch run on the
event loop (`RecoverStale`, `RecoverUncertain`, `RecoverReady`).  `slow.lost` remembers the executions
whose record such a save set back to an older one.  For these nothing is promised, and the code indeed repeats
clicks of them (section 3); the properties are about the others (`Intact`), which the same saves rewrite, recover and review.
A claim treats the lease of a dead attempt as free: expiry or recovery frees it, whichever is first.

`Faults`: `"kill"`, a watchdog terminates the worker; `"lost_lines"`, lines stay in the pipe and are lost by a crash or a
cancellation; `"overlap"`, the two steps of run now; `"threads"`, those of the review and the sweep.  Without `"lost_lines"` a
printed line is persisted at once, and a cancelled worker gets its signal before it prints another.  Workers can outlive a backend
crash and then write `result.json` (`OrphanFinalizes`; `docs/PUBLICATION_RECOVERY.md`: "A completed run can outlive its stdout
consumer").

### CloudWorker

`journal`, `outbox`, `applied`, `paused` are the SQLite tables; `queue[a]` is the status of the
attempt's local execution (`detached`: deleted by the operator while running);
`intent` the marker `record_cloud_publish_intent` writes before the click; `grants`
unexpired leases.  A handler is atomic up to its awaits, and the only await
inside an attempt is the download.  `tick` holds the attempt `tick()` is in the
middle of.  The journal's state `submitting`, the queue save and the state
`submitted` are separate steps, so a crash can fall between them; a cancel can be
torn between queue and journal (`Torn`).  The cloud is external: it offers, starts,
commands, repeats whatever has no saved answer, and acknowledges in any order;
`Deliver` may be repeated and acknowledgements lost with the session.  Results of commands are kept
in `applied` and not as outbox messages: a repeated command only requeues them.

`Overlaps`: `"lease"`, the cloud grants an attempt it has asked to cancel; `"delete"`, it
cancels an attempt whose execution an operator deleted.  The protocol document
excludes neither (section 3).  Startup order matters here:
`recover_stale_queue_executions` (`main.py:69`) precedes the agent (`main.py:81`) and
uses the marker, hence `Recovered` inside `Crash`.  Cloud executions are excluded from
cancel-all, rerun, run-now and network recovery by the code, so none of them is here.

### QueueRequests

`queue` says where each item stands; `call[p]` is a process between its load and its save
(`snap` is its copy).  Event-loop processes load and save without interleaving among each other, threads
interleave with all.  `lock` is the claim lock file, `row[k]` the idempotency row of a key.  `crossed`
marks a process whose copy was overtaken by a writer that takes no lock, `shaken` a takeover of a living
holder's file.  A batch exists while it has items; an invalid request is `Refuse`.  Taking the lock with the
load, and the save with the unlock, are one step each.

### FacebookPage, PublishTask, ReelTask, PostTask, PublishPipeline, PublishOnce

The worker is one sequential process; its opponent is what it cannot know.  `page`, `draft` and `world` are Facebook's.  The
caption field may open with a restored text, the job's own caption or another (`fb.left`); a job with a caption enters it into an
empty field, takes its own for entered, and stops at any other or at one it cannot read (`composer_entry.py:96-106`), while a job
without one never looks (`facebook_post.py:773-775`).  Every reading is `Sees(P)`, which may miss what is there and never invents.
`task`, `ctx` and `v` are the task object, the pipeline's context and the clocks of the verification loop.  A workflow step is one
action; `Raises` and `Killed` strike at any step.  `PublishOnce` is refined with the gate as announcement, the world's clicks, and
the queue's verdict from the report.  The post-click loop of `reel_post_click_verifier.py` has one action for each thing it may
meet (uploading, audio policy dialog, popup, feed).

### FacebookLive, LiveSession

`sess` is the session file, `mem` the record in memory, `exe` the queue execution that a session may belong to, `pc` where
`run_live` is.  The helper is a process of its own that may be killed between any two of its steps; the broadcast may go live on
bytes alone and end by Facebook's decision.  A crash leaves file and encoder; a restart judges from the file.  `exe.cut` records
that a shutdown cancelled the task in the middle of its judgement.

### PhoneScreen, PhoneFlows, PhoneJobs

One phone, several Android users, one Facebook each.  `rn["job"]` is the runner a job reads, `rn["orphan"]` one that lost its job;
a runner announces each irrevocable tap before it taps.  `job[a]` is the coroutine, `exe[a]` the record, `holder` the phone hold,
`lock` the switching lock, which the live view and the first-use pass take too.  `misplaced` remembers a tap that met anything but
its own job's draft.  A caption that cannot be read back counts as entered when none of three prompts shows (`flows.py:545-554`),
so a paste that was lost can pass (draft `"bare"`).  `copies` is the queue file a heartbeat, recovery or review thread has read
and not yet saved, `lost[a]` how often such a save set the record of `a` back; after one, the job's own writes are fenced off or
not, as the leases compare.  `fb[a].posts` counts what was shared on Facebook of `a`, `fb[a].own` those of them that were the
account's own post: a runner whose job was cancelled can still compose, and share, on the user that the next job has opened.  A
photo and a Reel share one flow.

### PhoneSetup

`dev` and `primary` are on the phone, `pc[p]` on the disk of each PC; `cable` is the PC connected; `op[p]` the
request in progress, a setup run step by step in the code's order.  `count` holds the bounds.  When the cable moves, a request
that is polling goes on waiting, because its loop swallows the error of `adb` (`Waits`): a setup run at its kill-switch or network step, a
proxy replacement, a takeover that has chosen its account.  So does a replacement that has only its PC's own files left to write
(`Assigns`).  `away` marks a request the cable left once.  Anything else stops where it is (`Dropped`).
A takeover works through the accounts of the phone, with the list of proxies it read at its start (`found`), and may keep the PIN of one.

### AutoWarming, ReelCreator

`pass` is the dispatcher's pass, working through the list it made at its start; `changed` remembers the accounts the operator
touched since.  Each due post of a pass starts (`StartPost`), is held back for want of a slot or a container and asks a visit to
end (`MakeRoom`), or is passed over (`SkipPost`: its claim is refused, its batch rests, its proxy is being measured, another
container was just started).  Clocks, hours and stages only choose what is due.  In `ReelCreator`, `job` and `order` are the
journal, `at`/`cur` the worker thread, `proc` its FFmpeg, `orphan` one left by a dead backend, and each write to the journal or
the file system is a step.

## 3. Runs

| Run | Modules | Question | Distinct states |
|---|---|---|---|
| `lifecycle` | ContainerLifecycle, ContainerOwnership | does the registry keep a container with one owner, through sweeps, cancellation, shutdown and a restart, and does every owner let go? | 104,807 |
| `queue` | PostingQueue | two posts of one account: can anything but the operator, or a save that sets its own record back, cause a second click, lose its evidence, or record a false outcome? | 2,738,797 |
| `queue_races` | PostingQueue | one prepared post with every fault: one worker per profile, every run ends | 330,927 |
| `requests` | QueueRequests | do keys and the claim lock protect whole-file writes from threads, takeovers and a crash? | 1,039,260 |
| `worker` | CloudWorker | is what the cloud hears true, final and eventually said? | 235,128 |
| `publish` | PublishPipeline, ReelTask, PostTask, PublishOnce | whatever the screen shows or hides, and whatever text lay in the composer: the job's own post, once, announced, and a true report? | 2,761,632 |
| `publish_pending` | PublishPipeline | is a clicked run never recorded as failed before publishing? | violated |
| `live` | LiveSession | does a broadcast stay exclusive, and is its end never assumed? | 1,370,566 |
| `phones` | PhoneJobs, PhoneFlows | does each account share its own draft, once, and is the phone always freed? | 1,003,840 |
| `setup` | PhoneSetup | do failed and interrupted runs of two PCs leave each job behind its own exit, and what the phone keeps to the PC it names? | 1,927,795 |
| `reels` | ReelCreator | one encoder across crashes, no export after a cancellation, no endless render | 235,438 |
| `warming` | AutoWarming | does nothing start on a paused account, and every due post in the end, unless it is refused for ever? | 662,282 |

### Properties worth knowing

- lifecycle: `StopsHitTheirOwner`, a stop in flight is for the present owner or for nobody;
  `RunningIsOwned`, a running container has an owner marked used, so some sweep will find it; `DriverIsOwner`;
  `MaintenanceIsQuiet`, the update switch stands only over an idle system; `ImplementsOwnership`; `EveryOwnerLetsGo`.
- queue: `NeverRepeatedAutomatically`, at most one click per operator request; `ClickIsOnRecord` and
  `OutcomeIsTrue`, record and world agree as far as each status promises; all three of a post whose own record no unlocked save
  has set back.  `WorkerOwnsProfile` and `RunEnds` are about every post.
- requests: `WorkOncePerKey` counts the documented exceptions instead of forbidding them; `LockProtects`, a holder's copy
  is the file; `LockIsRecovered`.
- worker: `ConfirmedCancelStands`, `ResultIsTrue` (truth and finality), `PublicationIsReported`.
- publish: `DraftComplete` (what was published is the job's media and caption, or for a job without a caption the text that lay
  there), `ReportIsTrue`, `CommentOnce`, `ClicksOnce` (the refinement), `RunEnds`.
- live: `SendingIsExclusive`, `EndIsNotAssumed`, `FailedMeansNeverSent`, `SessionEnds`.
- phones: `SharesOwnPost`, `NothingTwiceUnasked`, `FailedWasNotShared`, `PhoneIsFreed`.
- setup: `FacebookComesLast`, `JobExitIsItsOwn`, `OldPrimaryOverwritesNothing`.
- reels: `OneEncoder`, `CancelStopsTheExport`, `RendersEnd`.
- warming: `RestartsGently` (an action property against the dispatcher's old list), `HeldPostStarts`.

`SharesOwnPost` and `FailedWasNotShared` are stated for histories without a fault: a runner that outlives its job may still tap,
and its evidence is then unread.  `NothingTwiceUnasked` holds with faults; each save that set the account's record back may cost
one repetition, and `FailedWasNotShared` excepts such a record.  TLC refutes both without these exceptions (a thread reads, the
job claims, posts and is announced, the thread saves, and the post is dispatched again).  `NothingTwiceUnasked` counts `own`
shares: of all shares it is false with two accounts that post, because a runner left by a cancelled job may put its post on the
other account.  The run has one poster, so it was the attempt to prove the earlier form that showed this.  The type invariants of
`CloudWorker`, `LiveSession`, `PhoneJobs` and `PublishPipeline` are defined and hold on the same instances; the runs spend their
time on the properties above.

Every property of a passing run has a mutant in PROJECT.json: the modules define
next to the code's operator the form a plausible bug would give it (marked
`\* mutant`), and the property fails under it.

### Where documents and code disagree

The first has a run.  The others are properties, or constants, of the modules; put the name into the
cfg named and TLC shows the trace.

| Property (module) | How to see it | Code and what it contradicts |
|---|---|---|
| `ClickIsNeverFailedBefore` (PublishPipeline) | run `publish_pending` | `automation_service.py:1267` does not know `pending_profile_verification`; `automation/engine/outcome.py:26-28` |
| `CommentKeepsPublished` (PublishPipeline) | `MCPublishPipeline.cfg` | the comment's profile check (`facebook_reel.py:1609`) turns a published Reel uncertain; `publishing_pipeline.py:249-250` |
| `RunEnds` (PublishPipeline) | `SPECIFICATION SpecDialogStays` | a dialog whose Save stays disabled is waited for before the deadline is tested (`reel_post_click_verifier.py:215`) |
| `StopsHitTheirOwner` (ContainerLifecycle) | `Overlaps = {"stop"}` | `recover` exempts orphans from its 300-second rule, so two sweeps stop the same orphan; the second stop may hit the next owner (`container_lifecycle.py:194`) |
| `LiveAttemptKeepsLease` (PostingQueue) | one post, not prepared, `Faults = {"threads"}` or `{"overlap"}`, no `CONSTRAINT` | the 15-second sweep (`automation_service.py:1642,1693`) and `run_execution_now` (`routers/queue.py:811`) overwrite a claim with a copy from before it; `README.md:423-424` |
| `NeverRepeatedAtAll` (PostingQueue) | one post, not prepared, `Faults = {"threads"}`, no `CONSTRAINT` | the same saves, see below; `README.md:28` |
| `FailureMeansNoClick` (PostingQueue) | `Faults = {"kill"}` | `reached_publish` (`automation_service.py:1222`) does not count an outcome stage as evidence; `runner.py:203` |
| `IterationFinished` (PostingQueue) | `MCPostingQueue.cfg` | `automation_container_owned` survives every ending but the normal one (`automation_service.py:1138`) and stops the account's later posts; `profile_pipeline.py:84` |
| `UncertainHoldsLaterPosts` (PostingQueue) | `MCPostingQueue.cfg` | `batch_has_review_hold` is never called (`profile_pipeline.py:72`); `README.md:467-468` |
| `ConfirmedCancelStands` (CloudWorker) | `Overlaps = {"lease"}` | `tick` submits from a row read before the download, and `renew` grants a terminal attempt (`agent.py:308`); `protocol-v1.md:93-95` |
| `ConfirmedCancelStands` (CloudWorker) | `Overlaps = {"delete"}` | `adapter.cancel` takes a deleted running execution for one never submitted (`agent.py:237`); `protocol-v1.md:155-156` |
| `CancelledWasNotShared` (PhoneJobs) | `MCPhoneJobs.cfg` | a phone record has no owner token (`android_jobs.py:231`), so cancelling does not see that it runs (`automation_service.py:411-414`) |
| `FailedWasNotShared` (PhoneJobs) | `Cooldown = TRUE` | the wait before a post (240 s, `android_jobs.py:61-69`) outlasts the queue lease (60 s, `queue_scheduler.py:9`) |
| `OldPrimaryOverwritesNothing` (PhoneSetup) | without its last disjunct | a proxy replacement that waits for the VPN checks the phone's PC only afterwards (`android_ownership.py:286-297,381`); `docs/ANDROID_DEVICE_PLAN.md:483-487` |
| `DraftComplete` (PublishPipeline) | `ComposedFor` with no text for a job without a caption | such a job never reads the field and publishes a restored text (`facebook_post.py:773-775`); `docs/HUMAN_MODE_PLAN.md:272` |
| `NotFoundWasNotSent` (PhoneJobs) | `MCPhoneJobs.cfg` | an error after the comment was sent is reported as skipped (`job.py:147`) and may be asked for again (`android_jobs.py:454-463`) |

The second click of `NeverRepeatedAtAll` is of a post nobody asked for again.  The sweep's thread reads the queue while the post
waits; the dispatcher claims it, and its worker announces its click; the thread saves, and the record waits again, without lease
or evidence, while what the attempt writes later is fenced off.  The backend dies with the click; after it starts again, the
container is freed, the post is claimed and clicked a second time.  Run now does the same to a post of another account that is
claimed, clicked and ended while the request awaits docker; that takes two posts and three attempts (22 states, found with the
next-state relation narrowed to the steps it needs; with one post and `{"overlap"}` alone `NeverRepeatedAtAll` holds).

Four more are shaped into the models rather than refuted: a completion refused by the claim lock leaves the profile's entry
in `CONTROLS` (`live_service.py:915-917`, the exception in `SessionEnds`); writers without the claim lock race the
threads (`routers/queue.py:539,672`, `crossed` in `QueueRequests`); an answer cut short after the save forgets its
key, so a retry creates again (`lapses`; docs/worker/README.md:128-133 says otherwise); and a visit that ran through the old proxy counts
as the visit from the new address (`visited` in `AutoWarming`; docstring of `account_hold.py`).

### Bounds, and why they are enough

- `lifecycle`: one profile (profiles share nothing but the sweep's order and the
  maintenance switch), two tokens (an owner and its successor: every hazard is
  between these), two executions (the right and the wrong one for a handoff), one
  restart, counting crashes and shutdowns.  The proofs remove these bounds.
- `queue`: two posts of one account, the second prepared, two attempts, one crash.  Two attempts are the first click and its
  repetition.  The constraint `Followed` bounds what unlocked saves may multiply: every state reached is checked, but a behaviour
  with a crash, a cancellation or a review goes on only up to the first save that would set a record back, or while a writer's
  copy is current; one without them goes through one such save and on to the end.  The proofs know no such bound.
- `queue_races`: one prepared execution, as a preparation and a publication need
  two attempts, with all faults, and unlocked saves as often as they come.
- `requests`: three requests, one key, a crash, one lapse per key.  A retry, the request it
  repeats and one writer that knows nothing of either are three.
- `worker`: one attempt, one crash.  Attempts meet only in the capacity test,
  which never binds with one attempt, so capacity is not checked.  The cloud sends
  each command once per identifier and repeats it at will.
- `publish`: none.  Every kind of job, account layout and text left in the composer is an initial state.
- `live`: two sessions of one profile (`MaxSessions`) and one crash or shutdown (`MaxFaults`): the second session meets what the
  first left behind.
- `phones`: an account that posts and one that visits, two looks for a comment's post (`Looks`), two comment starts, one request
  of the operator, one fault; `MaxPosts = 3` only caps counters.  `MaxLost = 1`: one save sets the record of an account back.
  While a thread holds a copy, and after such a save, the constraint `Followed` leaves out faults, requests, the live view and the
  first-use pass, and after a fault the live view; `PhoneIsFreed` is checked of the behaviours that stay within it.
- `setup`: two users, PCs and proxies, two operations, one proxy taken elsewhere, two moves of the cable (away and
  back), one fault.
- `reels`: one final render and one preview, one requeue, two faults, two requests of the operator.
- `warming`: two accounts competing for one slot, two operator actions, one fault.
- Symmetry (`Permutations` of users, PCs and proxies) is used in `setup` only, which has no liveness property.
- Deadlock is checked in `publish` (a run may stop only when over) and `phones` (a person may always switch users).  Elsewhere
  `CHECK_DEADLOCK FALSE`: with the bounds used up, or with nothing due, the system may rest.

### Fairness

- ContainerLifecycle: tasks run on (event loop); deadlines pass (clock); sweeps are
  scheduled and step on (APScheduler job); a stopped backend is started again; and strongly, a stop
  retried for ever succeeds.  The last is about docker, not the code: without it no
  owner of a broken container can be released.
- PostingQueue: tasks and workers step on (a silent worker is killed by the
  watchdog, at the latest at its hard deadline) and stale recovery is a 15-second job
  of `heartbeat_scheduler_leases`.  Nothing is asked of the operator.
- QueueRequests: handlers, the dispatcher and running tasks step on; lock files grow old.
- CloudWorker: the agent reconnects for ever; a session lasts long enough, now and
  then, for each step of the tick and for a result to be delivered (strong, as
  connections come and go); an execution ends.  Nothing is asked of leases or commands.
- PublishPipeline: the process runs and its two clocks advance; and strongly, Facebook enables Save in an audio
  dialog that stays up.  The last is about Facebook: see `SpecDialogStays` above.
- LiveSession: `run_live` goes on, or raises (each of its waits has a deadline); helper and encoder run; a stopped backend is
  started again.  Nothing is asked of Facebook or the operator.
- PhoneJobs: the coroutine that holds the phone and its runner go on (each step has a deadline), a first-use pass and a user switch
  end.  Nobody need touch the phone.
- AutoWarming: the backend's timers tick; each visit, journey and hold window ends; and strongly (`NotRefusedForEver`), a due post
  that finds its account and a slot free in pass after pass is not refused in all of them.  The last is about the machine and the
  network around the dispatcher: the container cap, the spacing of starts, the rest between iterations and proxy measurements may
  each refuse any post in any pass.
- ReelCreator: the worker thread goes on and a stopped backend is started again.  PhoneSetup has safety only.

## 4. Proofs

The theorems hold for every value of the constants: any profiles, executions, attempts, accounts, jobs or requests, and any
bounds.  Each `…Proofs` module states an inductive invariant, has one lemma per action (and per conjunct where an action
disturbs several), and ends with the theorems.  `TypeCorrect` (`Spec => []TypeOK`) and `Inductive` are theorems about all ten
components (`WarmingTypeCorrect`, `RenderInductive` and so on in `BackendProofs`).  With them every safety property
that a run checks is also a theorem, under the assumptions the table names.

| Module | Theorem | Property | Beyond the constants' own assumptions |
|---|---|---|---|
| ContainerLifecycle | `NoForeignStop` | `StopsHitTheirOwner` | `Overlaps = {}` |
| | `NoLostContainer` | `RunningIsOwned` | `Overlaps = {}` |
| | `OnlyOwnersDrive` | `DriverIsOwner` | `Overlaps = {}` |
| | `QuietMaintenance` | `MaintenanceIsQuiet` | `Overlaps = {}` |
| | `KeepsOwnership` | `ImplementsOwnership` (refinement) | `Overlaps = {}` |
| PostingQueue | `WorkersOwnTheirProfile` | `WorkerOwnsProfile` | none: every fault |
| | `NeverRepeated` | `NeverRepeatedAutomatically` | no `"lost_lines"` |
| | `ClicksOnRecord` | `ClickIsOnRecord` | the same |
| | `OutcomesTrue` | `OutcomeIsTrue` | the same |
| | `LeaseStays` | `LiveAttemptKeepsLease` of the posts no unlocked save set back | the same |
| CloudWorker | `CancelsStand` | `ConfirmedCancelStands` | `Overlaps = {}` |
| | `ResultsTrue` | `ResultIsTrue` | `Overlaps = {}` |
| QueueRequests | `LockHolds` | `LockProtects` | none |
| | `KeysWorkOnce` | `WorkOncePerKey` | none |
| PublishPipeline | `OnlyWholeDrafts` | `DraftComplete` | none |
| | `TrueReports` | `ReportIsTrue` | none |
| | `OneComment` | `CommentOnce` | none |
| | `KeepsItsPromise` | `ClicksOnce` (refinement) | none |
| LiveSession | `SendingExclusive` | `SendingIsExclusive` | none |
| | `EndNotAssumed` | `EndIsNotAssumed` | none |
| | `FailedNeverSent` | `FailedMeansNeverSent` | none |
| PhoneJobs | `NothingTwice` | `NothingTwiceUnasked` | none: every fault, with or without `Cooldown` |
| | `OwnPosts` | `SharesOwnPost` | none |
| | `FailedNotShared` | `FailedWasNotShared` | `~Cooldown` |
| PhoneSetup | `JobHasItsExit` | `JobExitIsItsOwn` | none |
| | `FacebookLast` | `FacebookComesLast` (action property) | none |
| | `NoOverwrite` | `OldPrimaryOverwritesNothing` (action property) | none |
| ReelCreator | `OneEncoderRuns` | `OneEncoder` | none |
| | `CancelledStaysOut` | `CancelStopsTheExport` (action property) | none |
| AutoWarming | `GentleRestarts` | `RestartsGently` (action property) | none |

The assumptions are real, not conveniences.  TLC refutes `StopsHitTheirOwner` with `Overlaps = {"stop"}`, `DriverIsOwner` with
`{"start"}`, `ConfirmedCancelStands` with `{"lease"}` or `{"delete"}`, `FailedWasNotShared` with `Cooldown = TRUE`, and all three
properties of clicks with `Faults = {"lost_lines"}`.  The constants' own assumptions say that
bounds are natural numbers and that the values standing for nothing are none of the others (`NoneAssumption`,
`HolderAssumption`, `JobAssumption`).  The invariants were given to TLC on the instances of the runs before they were proved.

**ContainerLifecycle.**  A stop in flight hits its owner only because no second stop of that owner can be started (`OneStop`)
and its owner waits in state `stopping` (`StopsOwned`), except during shutdown, where the forced sweep may stop again but
nothing can be acquired; which sweeps exist in which phase is `PhasesSweep`.  A running container keeps its owner because
whoever starts one holds it and is marked used before (`BusyHolds`).  A driver is the owner because a sweep that is about to
release has ended the worker first (`SweepsArePassive`).  Tokens are unique because whatever names one names the job that drew
it (`OwnersIssued`, `StopsIssued`, `SeenIssued`).  `YieldStep` and `AfterReleaseStep` say what all releases have in common.  For
`KeepsOwnership` every action is shown to be a step of `ContainerOwnership` or a stutter; the fairness of `Spec` is not used.

**PostingQueue.** `AInv` needs no assumption on faults: an attempt that starts or runs a worker owns the container (`RunnersOwn`),
a live worker has a task that looks after it (`TasksLead`), and what it printed, clicked and reported fits together
(`WorkersTell`).  `CInv` adds the clicks.  That one click is the last is `FirstToClick` (a live worker past the gate is the first
to click since the operator last asked) with `WaitingIsUnclicked` (a pending record has no click), and both stand on
`GateIsOnRecord` and `RunnersLease`: a worker that may click has its lease, and the record says so.  A lost line breaks
`GateIsOnRecord`, hence the assumption; a save that sets a record back breaks both for its post, hence `Intact`.  That such a save
disturbs no other post is a fact about copies: while a copy agrees with the file on a post, what a review or a recovery makes of
the copy is what it would have made of the file.

**CloudWorker.**  Per attempt, `QueueFits` relates the queue record, the intent marker and the click, `TickFits` the step
of `tick()` to the journal, `EndFits` a terminal attempt to its execution, and `CancelFits` a confirmed cancellation.
By `MessageFits` an unacknowledged event is older than the end of its attempt, and the result carries the journal's last number and status.

**QueueRequests.**  `HoldersHoldTheLock` and `CopiesAreCurrent` are the lock argument, with `crossed` and `shaken` as its
exceptions.  `WorkIsPaid` counts: work done with a key plus requests that carry it are at most its row plus its lapses.

**PublishPipeline.**  None of its properties is inductive: what was reported says nothing of how the run got there.  `PlaceFits`
cuts a run at the click.  Before it (`Composing`) nothing is announced; at it (`Clicking`) the gate has passed, the page has the
button and no click is sent; after it (`Verifying`) one is sent, or an error dialog took its place.  `DraftFits` is the argument for
`DraftComplete`: which step has put the media and the caption in, although an entry may fail and the composer may have opened with a text
of its own.  `StatusFits` holds of every status a task may end with, so a run that raises or is killed
anywhere still reports the truth; `PagesFit` says which pages prove that the post is live.  Every step is
shown to be `Quiet`, `Announcing` or `Sending`, which with the verdict read from the same record (`Kept`) is a step of `PublishOnce` or a
stutter; the fairness of `Spec` is not used.

**LiveSession.** `Course` and `Sent` follow `run_live`: which step implies which entry of the file.  `Sent` is the heart: once the
encoder may have started, file, execution and memory all say so, and no later judgement is a plain failure.  `Ending` needs
`AnswersAreTrue`, that an end seen by the helper is not taken back.

**PhoneJobs.** `Budget` is inductive whatever fails: an account's own shares plus everything that may still become one (a pending
record, a claimed job, a runner before its composer, an own draft) are at most one more than the operator's requests and the saves
that set the record back, and likewise for comments.  `Undisturbed` holds until the first fault: the phone is held by the job that
has the runner, its own account and draft are on screen, and a record runs exactly while its attempt does.

**PhoneSetup.** `JobExitIsItsOwn` needs that a pool gives a proxy to one account (`Exclusive`), and that while a job works on the
phone its PC has no request under way (`JobFits`).  The action properties need `OpsFit`: each request is checked once, when it
begins, and acts several steps later, so the invariant carries its check along.  A run past its network check has the exit that
check saw, one that is going to change what the phone keeps still may, unless it is a replacement the cable has left once
(`away`), and the PC without the cable holds only a request that the move left waiting or about to assign its proxy.
`PhoneChanges` says once what any step writes to the phone, whoever takes it.

**ReelCreator, AutoWarming.** A process is the claimed job's, one left by a dead backend is found by the recovery that comes
before any claim (`OrphanWillBeFound`).  The dispatcher's list stays true of every account the operator has left alone
(`ListIsCurrent`).

Some definitions have the form they have because proofs reason about them: records that were implicit in `TypeOK` are
named sets (`SessionRecord`, `Runners`, `Records`), steps that write a record name the write (`Set`, `Claimed`, `Append`).

Only model-checked:

- Liveness: fairness and ENABLED are out of the prover's reach.
- `ClickIsNeverFailedBefore`, which the code violates (section 3): a theorem cannot state it.

`PublishPipeline` has no constants and finitely many states, all of which its run visits: there the theorems say no more than
TLC does, but the invariant says why.

## 5. Abstractions a reader should know

- Time is order.  Leases, heartbeats, handoffs and grants expire by a step that may happen or not.
- PostingQueue leaves out what the worker sees: screen, captions, media, evidence images; logs and error texts are left out everywhere.
- PostingQueue has no `needs_review` or `skipped_*` status (classified as `uncertain`
  and as a failure before publishing, whose transitions they share), no Live,
  phone, warming or comment executions, no slot limits, no deletes: those have modules of their own.
- A worker's click may be repeated only by another attempt: the publish gate passes once per process.
- Heartbeat-message ids, evidence uploads and the closing of a session on a malformed message
  are left out of CloudWorker; `fingerprint` is the status only, so events repeated for a change of stage are merged.
- Each transaction of the journal and each replacement of a JSON file is atomic, as SQLite and `os.replace` make them.
- Publishing: natural navigation, lingering and permalinks change no outcome and are single steps or left out; the first
  comment is one attempt to send.
- Live: broadcasts from a phone are left out; the pinned comment is part of the optional finish.
- Phones: only a Poster's item is cancelled, run again or asked for its comment; the first-use pass starts only while the
  account's item is pending; the test of the phone hold and its acquisition are one step; a runner whose backend died gets no
  further than its current step.
- PostingQueue, PhoneJobs: one writer with an older copy is under way at a time.  When a second one saves after the first, only
  the last save shows; one that is overtaken at once is `NothingSaved`.
- PublishPipeline: what the composer restores is a text; a restored photo is not modelled, the workflows look for their own file.
- Setup: assigning a proxy and linking the account are one step; `hold_for_job` is part of opening; a login is confirmed
  only while the run waits for it; a proxy is its host, port and username.
- Warming: a claim is atomic; active hours are part of what is due; a visit that ends early is not
  told from one that ends; account checks run like visits and are left out; the machine may refuse any start, in any pass but
  not for ever (`NotRefusedForEver`).
- Ages of lock files, rows and markers are steps that may happen at any time.

## 6. Hazards

PROJECT.json lists what is hard to test, at its line, with the properties that would catch it.  Five have none: a stop that
outlives a second sweep (`container_lifecycle.py:194`) and stage lines lost with their reader (`automation_service.py:1213`),
which the runs of the properties concerned exclude because the code fails there (sections 3 and 4), a container start still in flight when its owner is
released (`automation_service.py:347`), the flag that stops an account's later posts (`profile_pipeline.py:72`, which the code
violates, section 3), and a network measurement applied late (`queue_network_recovery.py:157`).

## 7. Plan

Done: the models of section 2, and the proofs of section 4, the refinements `ImplementsOwnership` and `ClicksOnce` among them.  Left:

1. `NetworkRecovery`: probe token, measurement and retry window against operator actions.
2. The separate slot limits of publishers, preparers and broadcasts.
3. A composition of `PostingQueue` with `ContainerLifecycle` in place of its abstract owner.

## 8. Not modelled

- Deleting a profile (`routers/profiles.py:524-539`), which gives a phone account's proxy back without looking for a job that runs
  behind it.
- Opening an account for a job, or starting a setup run, between a replacement's trial of its proxy and the assignment of it.
- Account checks: items added and run like visits.
- Adaptive resources and host pressure: numeric control from measurements; here the machine may refuse any start.
- Recognition, input and brains of the browser worker: sequential and statistical; their answers are the readings of `FacebookPage`.
- Rendering and writing of Reels: pure computation from one job.
- The manager application: a user interface; `manager-app/server.js` is an earlier server that no script starts.
- Websites, proxy measurements, profile files, support bundles, evidence uploads: stored configuration and I/O.
- The import of legacy owners: once, at startup, records no task holds.
- Browser comment retries, broadcasts from a phone, captions and ordering edited by the operator.
- Container image, scripts, deployment: build and installation.
