----------------------------- MODULE PublishTask ------------------------------
(***************************************************************************)
(* What every publishing task of the worker process shares: BaseTask, its  *)
(* stage history and publish gate, the outcome rules of engine/outcome.py, *)
(* and the skills a workflow step calls.                                   *)
(*                                                                         *)
(* `at` is the module of the fixed pipeline that runs and `step` the       *)
(* workflow step inside its publish module.  A wait of the program is one  *)
(* step that may always time out.                                          *)
(***************************************************************************)
EXTENDS FacebookPage, Sequences

VARIABLES
  job,    \* the command line: kind, caption, comment, template, cloud intent
  task,   \* the task object
  at, step,
  ctx,    \* AutomationContext
  v       \* the verification loop: clocks and flags

taskVars == <<job, task, at, step, ctx, v>>

Jobs == [
  kind : {"reel", "image", "text"}, caption : BOOLEAN, comment : BOOLEAN,
  template : {"auto", "t1", "t2", "t3"},
  intent : {"free", "taken"}]      \* a publish intent of this execution on disk

Statuses == {"running", "published", "pending_profile_verification", "uncertain",
             "needs_review", "failed_before_publish", "failed_after_publish", "skipped"}
Stages == Statuses \cup {"preparing", "composing", "ready_to_publish", "publish_authorized",
                         "publish_clicked", "verifying", "commenting"}

Modules == <<"startup", "publish", "prompt", "verifier", "comment", "linger", "finalize">>
ModuleSet == {Modules[i] : i \in 1..Len(Modules)}
Places == ModuleSet \cup {"report", "over"}
PlaceAfter(m) == Modules[1 + CHOOSE i \in 1..Len(Modules) : Modules[i] = m]

TaskTypeOK ==
  /\ job \in Jobs
  /\ task \in [stage : Stages, gate : BOOLEAN, clicked : BOOLEAN, status : Statuses,
               template : {"none", "t1", "t2", "t3", "p1", "p2"}, captioned : BOOLEAN,
               prompt : {"not_checked", "absent", "dismissed", "failed"},
               seen : BOOLEAN, record : Statuses \cup {"none"}]
  /\ at \in Places /\ step \in 0..11
  /\ ctx \in [attempted : BOOLEAN, phase : Statuses \cup {"none"},
              stopped : {"no", "failed_safe", "uncertain", "needs_review"},
              reported : Statuses \cup {"none"}]
  /\ v \in [late : BOOLEAN, popup : {"off", "on", "over"},
            audio : {"unchecked", "holding", "over"}, streak : 0..1, tries : 0..3,
            result : {"none", "published", "profile_fallback"}]

TaskInit ==
  /\ job \in Jobs /\ (job.kind = "text" => job.caption)
  /\ (job.kind # "reel" => job.template = "auto")
  /\ task = [stage |-> "preparing", gate |-> FALSE, clicked |-> FALSE, status |-> "running",
             template |-> "none", captioned |-> FALSE, prompt |-> "not_checked",
             seen |-> FALSE, record |-> "none"]
  /\ at = "startup" /\ step = 0
  /\ ctx = [attempted |-> FALSE, phase |-> "none", stopped |-> "no",
            reported |-> "none"]
  /\ v = [late |-> FALSE, popup |-> "off", audio |-> "unchecked", streak |-> 0,
          tries |-> 0, result |-> "none"]

-----------------------------------------------------------------------------
(* Outcomes *)

\* publish_attempted
MaybeClicked(t) == t.gate \/ t.clicked \/ t.stage \in {"publish_clicked", "verifying"}
AsGiven(t, s) == s                                                 \* mutant
\* resolve_status: after the click a plain failure becomes uncertain
Resolved(t, s) == IF MaybeClicked(t) /\ s = "failed_before_publish" THEN "uncertain" ELSE s

\* set_outcome, with finalization left to the pipeline, and update_outcome
Outcome(t, s) == [t EXCEPT !.status = Resolved(t, s), !.stage = Resolved(t, s)]
Updated(t, s) == [t EXCEPT !.status = Resolved(t, s)]
Fail(t) == Outcome(t, "failed_before_publish")
Uncertain(t) == Outcome(t, "uncertain")
NeedsReview(t) == Outcome(t, "needs_review")
FailedAfterPublish(t) == Outcome(t, "failed_after_publish")
InStage(t, s) == [t EXCEPT !.stage = s]

\* _task_result: how a module reports the task's status
ModuleResult(s) ==
  CASE s = "published" -> "success"
    [] s \in {"uncertain", "needs_review"} -> s
    [] OTHER -> "failed_safe"

-----------------------------------------------------------------------------
(* Moving through the pipeline *)

\* FixedAutomationOrchestrator.run: a stopping result skips to Finalize.
Leave(m, result, c) ==
  IF result \in {"success", "skipped"}
  THEN at' = PlaceAfter(m) /\ ctx' = c
  ELSE at' = "finalize" /\ ctx' = [c EXCEPT !.stopped = result]

\* PublishModule: the click is recorded on the context, however the task ended.
PhaseDone == {"published", "pending_profile_verification"}
LeavePublish(t) ==
  LET c == [ctx EXCEPT !.attempted = t.clicked] IN
    IF t.status \in PhaseDone
    THEN Leave("publish", "success", [c EXCEPT !.phase = t.status])
    ELSE Leave("publish", ModuleResult(t.status), c)

\* A workflow step returns None to continue, or an outcome to stop the task.
InStep(n) == at = "publish" /\ step = n
Continue(t) == task' = t /\ step' = step + 1 /\ UNCHANGED <<at, ctx>>
Stop(t) == task' = t /\ step' = step /\ LeavePublish(t)
Stay(t) == task' = t /\ UNCHANGED <<at, step, ctx>>

(* The skills a step calls *)

\* _wait_for_target: the target is clicked and the page moves on; an error dialog
\* or the time limit fails the task.
WaitForTarget(t, shows, next) ==
  \/ Stop(Fail(task)) /\ UNCHANGED page
  \/ shows /\ Continue(t) /\ page' = next

\* SessionCheck.verify and skip_unverified: the personal profile is recognised
\* only when its friend count or Add to story can be read.
SessionAnswers ==
  CASE page = "profile" -> {"authenticated", "unverified"}
    [] page = "personal" -> {"authenticated", "skipped"}
    [] OTHER -> {"skipped"}

\* ComposerEntry.enter reads the field first: the caption itself is kept, any
\* other text stops the entry (draft_conflict, draft_unknown), and only an empty
\* field is typed into and read back.  The review before publishing may find the
\* entry disturbed.  What a failed entry leaves in an empty field is not known.
EntryOutcomes == {"entered", "verification_failed", "review_failed"}
Enterable == draft.caption # "other"
TextsAfter(outcome) ==
  CASE outcome = "entered" -> IF Enterable THEN {"job"} ELSE {}
    [] outcome = "review_failed" -> IF Enterable THEN Captions ELSE {}
    [] OTHER -> IF draft.caption = "empty" THEN Captions ELSE {draft.caption}
DraftAfter(outcome) == {[draft EXCEPT !.caption = c] : c \in TextsAfter(outcome)}

\* The publish action is enabled: a Reel needs its video, a post something.
CanPost == draft.media \/ (job.kind # "reel" /\ draft.caption # "empty")

Preflight ==
  /\ InStep(1) /\ Continue(InStage(task, "preparing"))
  /\ UNCHANGED <<fbVars, job, v>>

(* execute_publish_gate *)

ReadyToPublish(n) ==
  /\ InStep(n) /\ task.stage = "composing"
  /\ Stay(InStage(task, "ready_to_publish"))
  /\ UNCHANGED <<fbVars, job, v>>

\* The screen is observed afresh; a rejected gate sends no click.
GateOpens == CanPost /\ (IF job.kind = "reel" THEN ReelPublishGate ELSE PostEnabled)
Authorize(n) ==
  /\ InStep(n) /\ task.stage = "ready_to_publish" /\ ~task.gate
  /\ \E open \in Sees(GateOpens) :
       IF open THEN Stay([task EXCEPT !.gate = TRUE, !.stage = "publish_authorized"])
       ELSE Stop(Fail(task))
  /\ UNCHANGED <<fbVars, job, v>>

\* publish_clicked is on record before the click; an intent that exists raises.
Announce(n) ==
  /\ InStep(n) /\ task.stage = "publish_authorized" /\ job.intent = "free"
  /\ Stay([task EXCEPT !.clicked = TRUE, !.stage = "publish_clicked"])
  /\ UNCHANGED <<fbVars, job, v>>

\* The page may have changed since it was observed: the click is then lost.
Click(n) ==
  /\ InStep(n) /\ task.stage = "publish_clicked"
  /\ IF page \in PublishPages
     THEN /\ page' = "busy"
          /\ world' = [world EXCEPT !.post = "sent", !.clicks = @ + 1, !.sent = draft]
     ELSE UNCHANGED <<page, world>>
  /\ Continue(task)
  /\ UNCHANGED <<fb, draft, job, v>>

BeginVerify(n) ==
  /\ InStep(n) /\ task.stage = "publish_clicked"
  /\ Stay(InStage(task, "verifying"))
  /\ UNCHANGED <<fbVars, job, v>>

(* PostPublishPromptHandler.handle: at most three clicks on Not now *)

PromptUp(t) == page = "prompt" /\ t.prompt # "dismissed"
UnderThePrompt(reel) ==
  {"busy"} \cup IF reel \/ world.post = "live" THEN {"closed"} ELSE {}
FreshClocks == [v EXCEPT !.late = FALSE, !.popup = "off"]
=============================================================================
