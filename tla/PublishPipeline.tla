---------------------------- MODULE PublishPipeline ----------------------------
(***************************************************************************)
(* A publishing run from start to verdict: modules/publishing_pipeline.py  *)
(* under engine/fixed_orchestrator.py, the tasks in its publish module,    *)
(* runner.py's report, and what automation_service makes of it.            *)
(***************************************************************************)
EXTENDS ReelTask, PostTask

vars == <<fb, page, draft, world, job, task, at, step, ctx, v>>

IsReel == job.kind = "reel"

Init == FacebookInit /\ TaskInit

-----------------------------------------------------------------------------
(* Startup, prompt and verifier modules *)

Startup ==
  /\ at = "startup" /\ UNCHANGED <<fbVars, job, step, v>>
  /\ \E answer \in SessionAnswers \cup {"stopped"} :
       LET t == CASE answer = "stopped" -> Fail(task)
                  [] answer = "skipped" -> Outcome(task, "skipped")
                  [] OTHER -> task
       IN task' = t /\ Leave("startup", IF t = task THEN "success" ELSE ModuleResult(t.status), ctx)

StartPublish ==
  /\ at = "publish" /\ step = 0 /\ Continue(task) /\ UNCHANGED <<fbVars, job, v>>

\* A prompt settled during verification is not handled again.
PromptModule ==
  /\ at = "prompt" /\ UNCHANGED <<fb, draft, world, job, step, v>>
  /\ \/ Leave("prompt", "success", ctx) /\ UNCHANGED <<page, task>>
     \/ /\ PromptUp(task) /\ task.prompt # "failed"
        /\ \/ page' \in UnderThePrompt(IsReel) /\ Leave("prompt", "success", ctx)
              /\ task' = [task EXCEPT !.prompt = "dismissed"]
           \/ UNCHANGED page /\ Leave("prompt", "failed_safe", ctx)
              /\ task' = Updated([task EXCEPT !.prompt = "failed"], "failed_after_publish")

\* The header of the profile's first card is recent; an image must match the card,
\* and a Reel of the gallery the cover of the video.
HeaderIsRecent == world.post = "live" \/ fb.recent
MediaMatches == world.post = "live"
CardAccepted == IF IsReel THEN HeaderIsRecent ELSE MediaMatches
GalleryHasReel == MediaMatches
MayLeaveComposer == ComposerClosed
\* One attempt of the profile check.  A Reel never navigates away from a
\* composer that was not seen closed; after its attempts the gallery is read.
Attempts == IF IsReel THEN 3 ELSE 2
ProfileCheck(found, notFound, open) ==
  \/ IsReel /\ v.tries < Attempts /\ open /\ UNCHANGED <<page, v>>
  \/ /\ v.tries < Attempts /\ (IsReel => MayLeaveComposer)
     /\ page' = IF IsReel \/ v.tries > 0 THEN "profile" ELSE page
     /\ \/ CardAccepted /\ found /\ v' = [v EXCEPT !.tries = 0]
        \/ v' = [v EXCEPT !.tries = @ + 1] /\ UNCHANGED <<task, at, ctx>>
  \/ v.tries = Attempts /\ IsReel /\ GalleryHasReel /\ found /\ UNCHANGED <<page, v>>
  \/ v.tries = Attempts /\ notFound /\ UNCHANGED page /\ v' = [v EXCEPT !.tries = 0]

Settle(t) == task' = t /\ Leave("verifier", ModuleResult(t.status), ctx)
NeedsProfileCheck ==
  \/ IsReel /\ task.status = "pending_profile_verification"
  \/ /\ job.kind = "image" /\ job.comment
     /\ task.status \in {"published", "pending_profile_verification"}
VerifierModule ==
  /\ at = "verifier" /\ ctx.attempted /\ UNCHANGED <<fb, draft, world, job, step>>
  /\ IF NeedsProfileCheck
     THEN ProfileCheck(Settle([Updated(task, "published") EXCEPT !.seen = IsReel]),
                       Settle(Uncertain(task)), Settle(Uncertain(task)))
     ELSE Settle(task) /\ UNCHANGED <<page, v>>

-----------------------------------------------------------------------------
(* The first comment *)

TriesAgain(result, t) ==                                           \* mutant
  task' = t /\ IF result = "uncertain" THEN UNCHANGED <<at, ctx>> ELSE Leave("comment", result, ctx)
Commented(result, t) == task' = t /\ Leave("comment", result, ctx)
\* post: the topmost card of the feed gets the text and one Return; no result
\* of it is ever submitted again.
TopCard == IF world.post = "live" THEN {"ours"} ELSE {"others"}
StaleFeed == job.kind = "text" /\ page # "profile"
Submit(cards) ==
  \E card \in cards :
    /\ world' = [world EXCEPT !.ours = @ + (IF card = "ours" THEN 1 ELSE 0),
                              !.others = @ + (IF card = "others" THEN 1 ELSE 0)]
    /\ \E r \in {"success", "uncertain"} : Commented(r, InStage(task, "commenting"))
NotSubmitted == Commented("failed_safe", InStage(task, "commenting")) /\ UNCHANGED world
SubmitOnProfile ==
  \/ page' = page /\ Submit(IF StaleFeed THEN {"ours", "others"} ELSE TopCard)
  \/ page' = "profile" /\ Submit(TopCard)

SubmitOrGiveUp ==
  \/ SubmitOnProfile /\ UNCHANGED v
  \/ page' = "profile" /\ NotSubmitted /\ UNCHANGED v
\* A post may be found again by its permalink.
SubmitByPermalink ==
  ~IsReel /\ world.post = "live" /\ page' = "profile" /\ Submit({"ours"}) /\ UNCHANGED v

CommentModule ==
  /\ at = "comment" /\ UNCHANGED <<fb, draft, job, step>>
  /\ IF ~job.comment
     THEN Leave("comment", "skipped", ctx) /\ UNCHANGED <<page, task, world, v>>
     ELSE IF IsReel /\ ~task.seen
     THEN /\ UNCHANGED world
          /\ ProfileCheck(Stay([task EXCEPT !.seen = TRUE]),
                          Commented("failed_safe", task),
                          Commented("failed_safe", Uncertain(task)))
     ELSE SubmitOrGiveUp \/ SubmitByPermalink

Linger ==
  /\ at = "linger" /\ Leave("linger", "success", ctx) /\ UNCHANGED <<fbVars, job, task, step, v>>

-----------------------------------------------------------------------------
(* Exceptions, finalization, report *)

\* An exception in a module is uncertain once the click is on the context.  The
\* publish module records the click even then.
Exception ==
  /\ LET c == [ctx EXCEPT !.attempted = @ \/ (at = "publish" /\ task.clicked)] IN
       Leave(at, IF c.attempted THEN "uncertain" ELSE "failed_safe", c)
  /\ UNCHANGED <<fbVars, job, task, step, v>>

Raises == at \in {"startup", "publish", "prompt", "verifier", "comment"} /\ Exception
\* record_cloud_publish_intent: an execution's intent is written once
IntentExists ==
  at = "publish" /\ task.stage = "publish_authorized" /\ job.intent = "taken" /\ Exception

\* Finalize fills in a status only while the task still runs.
FinalStatus ==
  IF task.status # "running" \/ ctx.stopped = "no" THEN task
  ELSE Updated(task, IF ctx.stopped = "failed_safe" THEN "failed_before_publish" ELSE ctx.stopped)
Finalize ==
  /\ at = "finalize" /\ at' = "report"
  /\ task' = [FinalStatus EXCEPT !.record = FinalStatus.status]
  /\ UNCHANGED <<fbVars, job, step, ctx, v>>

\* main: a task still running is judged by its stage.
Reported ==
  IF task.status # "running" THEN task.status
  ELSE IF task.stage \in {"publish_clicked", "verifying"} THEN "uncertain"
  ELSE "failed_before_publish"
Report ==
  /\ at = "report" /\ at' = "over" /\ ctx' = [ctx EXCEPT !.reported = Reported]
  /\ UNCHANGED <<fbVars, job, task, step, v>>

\* The process is killed, its container lost: the stages it printed remain.
Killed ==
  /\ at # "over" /\ at' = "over"
  /\ UNCHANGED <<fbVars, job, task, step, ctx, v>>

\* run_automation_task: the status the queue keeps for the execution
Verdict ==
  CASE ctx.reported \in {"skipped", "published", "failed_after_publish", "needs_review"} -> ctx.reported
    [] OTHER -> IF ctx.reported = "uncertain" \/ task.stage \in {"publish_clicked", "verifying"}
                THEN "uncertain" ELSE "failed_before_publish"
\* has_publication_evidence, over the stages the worker printed
OnlyTheLastStage(t) == t.stage \in {"publish_clicked", "verifying"}   \* mutant
Evidence(t) == t.gate
Repeatable == Verdict \in {"failed_before_publish", "skipped"} /\ ~Evidence(task)

-----------------------------------------------------------------------------
Waiting == task.stage = "verifying" /\ at = "publish"
UploadDeadline ==
  /\ Waiting /\ ~v.late /\ v' = [v EXCEPT !.late = TRUE]
  /\ UNCHANGED <<fbVars, job, task, at, step, ctx>>
PopupDeadline ==
  /\ Waiting /\ v.popup = "on" /\ v' = [v EXCEPT !.popup = "over"]
  /\ UNCHANGED <<fbVars, job, task, at, step, ctx>>

Facebooks == Facebook(IsReel) /\ UNCHANGED taskVars

Works ==
  \/ Startup \/ StartPublish \/ PromptModule \/ VerifierModule \/ CommentModule \/ Linger
  \/ IntentExists \/ Finalize \/ Report
  \/ (IsReel /\ ReelNext) \/ (~IsReel /\ PostNext)

Done == at = "over" /\ UNCHANGED vars
Next == Works \/ Raises \/ Killed \/ Facebooks
        \/ AudioPolicyHeld \/ AudioPolicyMissed \/ SaveAudioPolicy
        \/ UploadDeadline \/ PopupDeadline \/ Done

\* The process runs and its clocks advance.
FairProgram == WF_vars(Works) /\ WF_vars(UploadDeadline) /\ WF_vars(PopupDeadline)
SpecDialogStays == Init /\ [][Next]_vars /\ FairProgram
\* ... and Facebook enables Save in a dialog that is up.
Spec == SpecDialogStays /\ SF_vars(SaveAudioPolicy)

-----------------------------------------------------------------------------
TypeOK == FacebookTypeOK /\ TaskTypeOK

\* The click publishes the media of the job, and its caption and no other text,
\* though the composer may open with the text of an earlier run and keeps what
\* failed entries leave.  A job without a caption never looks at the field
\* (facebook_post.py:773, facebook_reel.py:1823): what lay there goes out.
ComposedFor == [media |-> job.kind # "text", caption |-> IF job.caption THEN "job" ELSE fb.left]
DraftComplete == world.clicks > 0 => world.sent = ComposedFor

\* A run reported as published has its post on Facebook; only for a Reel may
\* another post of the last minutes be taken for it: only its header is read.  A
\* run reported as failed before publishing sent no click.
ReportIsTrue ==
  /\ ctx.reported = "published" => world.post = "live" \/ (IsReel /\ fb.recent)
  /\ ctx.reported \in {"failed_before_publish", "skipped"} => world.clicks = 0

\* The comment is sent at most once, after a publication, and to another post
\* only where the feed is not read again (text) or its top card was recent (Reel).
CommentOnce ==
  /\ world.ours + world.others <= 1
  /\ world.others > 0 => job.kind = "text" \/ (IsReel /\ fb.recent)
  /\ world.ours + world.others > 0 => world.clicks = 1

\* The queue may repeat an execution only if this run sent no click, and the
\* click is announced before it is sent (PublishOnce).
Once == INSTANCE PublishOnce WITH
  announced <- task.gate, clicked <- world.clicks > 0,
  verdict <- IF at # "over" THEN "none" ELSE IF Repeatable THEN "repeatable" ELSE "held"
ClicksOnce == Once!Spec

\* What the queue keeps of a reported run never calls a clicked one failed before
\* publishing (outcome.py, runner.py).  The code does: an exception after the
\* publish module leaves the status pending_profile_verification.
ClickIsNeverFailedBefore ==
  ctx.reported # "none" /\ world.clicks > 0 => Verdict # "failed_before_publish"

\* The comment keeps a published status (FinalizeModule).  The code does not: the
\* comment's own profile check of a Reel may set it to uncertain.
CommentKeepsPublished ==
  [][at = "comment" /\ task.status = "published" => task'.status = "published"]_vars

\* Every run ends: no wait of the worker is unbounded.
RunEnds == <>(at = "over")
=============================================================================
