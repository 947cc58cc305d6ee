------------------------- MODULE PublishPipelineProofs -------------------------
(***************************************************************************)
(* Proofs about PublishPipeline, for every account, job and leftover       *)
(* text: only the draft of the job is published, what is reported is true, *)
(* the comment is sent once, and a run keeps the promise of PublishOnce.   *)
(***************************************************************************)
EXTENDS PublishPipeline, TLAPS

-----------------------------------------------------------------------------
(* The inductive invariant *)

\* The workflow step of the click, and the pages it is authorised on and leads to.
ClickStep == IF IsReel THEN 9 ELSE 8
GatePages == (IF IsReel THEN {"share", "final"} ELSE {"create", "settings"}) \cup {"error"}
PagesAfterClick == AfterClick \cup {"closed", "confirmed", "error"}

Live == world.post = "live"
OursOrRecent == Live \/ (IsReel /\ fb.recent)
Clicked == world.clicks = 1

\* The browser shows a confirmation, or a post's composer closed, only for what is live.
PagesFit ==
  /\ world.clicks \in {0, 1} /\ (world.post = "none" <=> world.clicks = 0)
  /\ page = "confirmed" \/ (page = "closed" /\ ~IsReel) \/ v.result = "published" => Live

\* The text a job is published with, and what the composer holds at each step.
Wanted == IF job.caption THEN "job" ELSE fb.left
DraftFits ==
  /\ DraftComplete /\ (~job.caption => draft.caption = fb.left) /\ (draft.media => job.kind # "text")
  /\ at \in {"startup", "publish"} =>
       /\ task.captioned => draft.caption = "job"
       /\ IsReel /\ step > 7 => draft.caption = Wanted
       /\ ~IsReel /\ step > 3 => draft.media = (job.kind = "image")
       /\ ~IsReel /\ step > 4 => draft.caption = Wanted

\* The publish module: nothing announced, or announced and about to click, or the click is
\* past, sent or lost to an error dialog.
Composing ==
  /\ step <= ClickStep /\ task.stage \in {"preparing", "composing", "ready_to_publish"}
  /\ ~task.gate /\ ~task.clicked
Clicking ==
  /\ step = ClickStep /\ task.stage \in {"publish_authorized", "publish_clicked"} /\ task.gate
  /\ task.clicked = (task.stage = "publish_clicked")
  /\ ~Clicked /\ (IsReel => draft.media) /\ page \in GatePages
Verifying ==
  /\ step > ClickStep /\ task.stage \in {"publish_clicked", "verifying"} /\ task.gate /\ task.clicked
  /\ IF Clicked THEN page \in PagesAfterClick ELSE page = "error"
  /\ step > ClickStep + 1 => Clicked /\ (~IsReel => Live)
PlaceFits ==
  /\ at = "startup" => step = 0 /\ task.stage = "preparing" /\ ~task.gate /\ ~task.clicked
  /\ at = "publish" => Composing \/ Clicking \/ Verifying
  /\ at \in {"startup", "publish"} => task.status = "running"
  /\ at \in {"prompt", "verifier"} => task.status \in PhaseDone
  /\ at = "comment" => task.status = "published"
  /\ ctx.reported # "none" => at = "over"

\* A status says whether there was a click, and whose post is on the profile.
StatusFits(s) ==
  /\ s = "published" => OursOrRecent
  /\ s \in PhaseDone => Clicked
  /\ s \in {"failed_before_publish", "skipped"} => ~Clicked
StatusesFit ==
  /\ Clicked => task.gate /\ task.clicked
  /\ Clicked /\ task.status = "running" => task.stage \in {"publish_clicked", "verifying"}
  /\ StatusFits(task.status) /\ StatusFits(ctx.reported)

CommentFits ==
  /\ at \in {"startup", "publish", "prompt", "verifier", "comment"} => world.ours = 0 /\ world.others = 0
  /\ world.ours + world.others <= 1
  /\ world.others > 0 => job.kind = "text" \/ (IsReel /\ fb.recent)
  /\ world.ours + world.others > 0 => Clicked

IInv == TypeOK /\ PagesFit /\ DraftFits /\ PlaceFits /\ StatusesFit /\ CommentFits

\* What a step means for the queue's record of the run (PublishOnce): the click is announced, or
\* sent, or neither.
Quiet ==
  /\ world'.clicks = world.clicks /\ task'.gate = task.gate
  /\ at = "over" => UNCHANGED <<task, at, ctx>>
Announcing ==
  /\ at # "over" /\ at' # "over" /\ world'.clicks = world.clicks /\ ~task.gate /\ task'.gate
Sending ==
  /\ at # "over" /\ at' # "over" /\ task.gate /\ task'.gate /\ world.clicks = 0 /\ world'.clicks = 1
Good == IInv' /\ (Quiet \/ Announcing \/ Sending)

-----------------------------------------------------------------------------
(* Types, places, outcomes *)

Worlds == [post : {"none", "sent", "live", "refused"}, clicks : 0..2,
           sent : Drafts, ours : 0..2, others : 0..2]
Tasks == [stage : Stages, gate : BOOLEAN, clicked : BOOLEAN, status : Statuses,
          template : {"none", "t1", "t2", "t3", "p1", "p2"}, captioned : BOOLEAN,
          prompt : {"not_checked", "absent", "dismissed", "failed"},
          seen : BOOLEAN, record : Statuses \cup {"none"}]
Contexts == [attempted : BOOLEAN, phase : Statuses \cup {"none"},
             stopped : {"no", "failed_safe", "uncertain", "needs_review"},
             reported : Statuses \cup {"none"}]
Clocks == [late : BOOLEAN, popup : {"off", "on", "over"},
           audio : {"unchecked", "holding", "over"}, streak : 0..1, tries : 0..3,
           result : {"none", "published", "profile_fallback"}]

LEMMA Types ==
  TypeOK <=> /\ fb \in Accounts /\ page \in Pages /\ draft \in Drafts /\ world \in Worlds
             /\ job \in Jobs /\ task \in Tasks /\ at \in Places /\ step \in 0..11
             /\ ctx \in Contexts /\ v \in Clocks
BY DEF TypeOK, FacebookTypeOK, TaskTypeOK, Drafts, Worlds, Tasks, Contexts, Clocks

LEMMA TypesNext ==
  TypeOK' <=> /\ fb' \in Accounts /\ page' \in Pages /\ draft' \in Drafts /\ world' \in Worlds
              /\ job' \in Jobs /\ task' \in Tasks /\ at' \in Places /\ step' \in 0..11
              /\ ctx' \in Contexts /\ v' \in Clocks
BY DEF TypeOK, FacebookTypeOK, TaskTypeOK, Drafts, Worlds, Tasks, Contexts, Clocks

\* The order of the modules.
LEMMA Order ==
  /\ Places = {"startup", "publish", "prompt", "verifier", "comment", "linger", "finalize", "report", "over"}
  /\ PlaceAfter("startup") = "publish" /\ PlaceAfter("publish") = "prompt"
  /\ PlaceAfter("prompt") = "verifier" /\ PlaceAfter("verifier") = "comment"
  /\ PlaceAfter("comment") = "linger" /\ PlaceAfter("linger") = "finalize"
<1>1. /\ Len(Modules) = 7
      /\ Modules[1] = "startup" /\ Modules[2] = "publish" /\ Modules[3] = "prompt" /\ Modules[4] = "verifier"
      /\ Modules[5] = "comment" /\ Modules[6] = "linger" /\ Modules[7] = "finalize"
  BY DEF Modules
<1>2. \A i \in 1..7 : Modules[i] = "startup" <=> i = 1
  BY <1>1
<1>3. \A i \in 1..7 : Modules[i] = "publish" <=> i = 2
  BY <1>1
<1>4. \A i \in 1..7 : Modules[i] = "prompt" <=> i = 3
  BY <1>1
<1>5. \A i \in 1..7 : Modules[i] = "verifier" <=> i = 4
  BY <1>1
<1>6. \A i \in 1..7 : Modules[i] = "comment" <=> i = 5
  BY <1>1
<1>7. \A i \in 1..7 : Modules[i] = "linger" <=> i = 6
  BY <1>1
<1>8. Places = {"startup", "publish", "prompt", "verifier", "comment", "linger", "finalize", "report", "over"}
  <2>1. ModuleSet = {Modules[i] : i \in 1..7}
    BY <1>1 DEF ModuleSet
  <2>2. ModuleSet = {"startup", "publish", "prompt", "verifier", "comment", "linger", "finalize"}
    BY <1>1, <2>1
  <2> QED BY <2>2 DEF Places
<1> QED BY <1>1, <1>2, <1>3, <1>4, <1>5, <1>6, <1>7, <1>8 DEF PlaceAfter

\* A task that ends without a publication: what may have been clicked is not called failed before.
Ending(t) ==
  /\ t \in Tasks /\ t.gate = task.gate /\ t.clicked = task.clicked
  /\ t.status \in {"failed_before_publish", "uncertain", "needs_review", "failed_after_publish"}
  /\ t.status = "failed_before_publish" => ~task.gate

LEMMA Endings ==
  ASSUME IInv, NEW t \in Tasks, t.gate = task.gate, t.clicked = task.clicked
  PROVE  /\ Ending(Fail(t)) /\ Ending(Uncertain(t)) /\ Ending(NeedsReview(t)) /\ Ending(FailedAfterPublish(t))
         /\ \A s \in {"failed_before_publish", "uncertain", "needs_review", "failed_after_publish"} :
              /\ Ending(Updated(t, s)) /\ Updated(t, s).stage = t.stage
<1>1. \A s \in {"failed_before_publish", "uncertain", "needs_review", "failed_after_publish"} :
        /\ Resolved(t, s) \in {"failed_before_publish", "uncertain", "needs_review", "failed_after_publish"}
        /\ Resolved(t, s) = "failed_before_publish" => ~t.gate
  BY DEF Resolved, MaybeClicked
<1>2. \A r \in {"failed_before_publish", "uncertain", "needs_review", "failed_after_publish"} :
        (r = "failed_before_publish" => ~t.gate) =>
          /\ Ending([t EXCEPT !.status = r, !.stage = r])
          /\ Ending([t EXCEPT !.status = r]) /\ [t EXCEPT !.status = r].stage = t.stage
  <2> SUFFICES ASSUME NEW r \in {"failed_before_publish", "uncertain", "needs_review", "failed_after_publish"},
                      r = "failed_before_publish" => ~t.gate
               PROVE  /\ Ending([t EXCEPT !.status = r, !.stage = r])
                      /\ Ending([t EXCEPT !.status = r]) /\ [t EXCEPT !.status = r].stage = t.stage
    OBVIOUS
  <2>1. r \in Statuses /\ r \in Stages
    BY DEF Statuses, Stages
  <2>2. [t EXCEPT !.status = r, !.stage = r] \in Tasks /\ [t EXCEPT !.status = r] \in Tasks
    BY <2>1 DEF Tasks
  <2> QED BY <2>2 DEF Ending, Tasks
<1> QED BY <1>1, <1>2 DEF Fail, Uncertain, NeedsReview, FailedAfterPublish, Outcome, Updated

-----------------------------------------------------------------------------
(* Steps of a module to a later one *)

\* A step that ends the publish module or comes after it.
LEMMA LaterGoes ==
  ASSUME IInv, at # "over", UNCHANGED <<fb, world, job, step>>,
         task' \in Tasks, task'.gate = task.gate, task'.clicked = task.clicked,
         StatusFits(task'.status),
         task'.status = "running" => task'.stage = task.stage /\ task.status = "running",
         draft' \in Drafts, ~job.caption => draft'.caption = fb.left, draft'.media => job.kind # "text",
         page' \in Pages, v' \in Clocks,
         page' = "confirmed" \/ (page' = "closed" /\ ~IsReel) \/ v'.result = "published" => Live,
         at' \in Places \ {"startup", "publish"}, ctx' \in Contexts,
         at' \in {"prompt", "verifier"} => task'.status \in PhaseDone /\ at \in {"publish", "prompt", "verifier"},
         at' = "comment" => task'.status = "published" /\ at \in {"verifier", "comment"},
         ctx'.reported # "none" => at' = "over", StatusFits(ctx'.reported)
  PROVE  Good
<1>1. TypeOK'
  BY TypesNext, Types DEF IInv
<1>2. PagesFit'
  BY DEF IInv, PagesFit, Live, IsReel
<1>3. DraftFits'
  BY DEF IInv, DraftFits, DraftComplete, ComposedFor, Wanted, IsReel
<1>4. PlaceFits'
  BY DEF PlaceFits
<1>5. StatusesFit'
  BY DEF IInv, StatusesFit, StatusFits, Clicked, OursOrRecent, Live, IsReel
<1>6. CommentFits'
  BY DEF IInv, CommentFits, Clicked, IsReel
<1> QED BY <1>1, <1>2, <1>3, <1>4, <1>5, <1>6 DEF Good, IInv, Quiet

\* The publish module ends without a publication.
LEMMA StopGoes ==
  ASSUME IInv, at = "publish", NEW t \in Tasks, Ending(t), Stop(t), UNCHANGED <<fb, world, job>>,
         draft' \in Drafts, ~job.caption => draft'.caption = fb.left, draft'.media => job.kind # "text",
         page' \in Pages, v' \in Clocks,
         page' = "confirmed" \/ (page' = "closed" /\ ~IsReel) \/ v'.result = "published" => Live
  PROVE  Good
<1>1. task' = t /\ step' = step /\ at' = "finalize" /\ \E s \in {"failed_safe", "uncertain", "needs_review"} :
        ctx' = [[ctx EXCEPT !.attempted = t.clicked] EXCEPT !.stopped = s]
  BY DEF Stop, LeavePublish, Ending, PhaseDone, Leave, ModuleResult
<1>2. ctx \in Contexts /\ t.clicked \in BOOLEAN /\ ctx.reported = "none"
  BY Types DEF IInv, Tasks, PlaceFits
<1>3. ctx' \in Contexts /\ ctx'.reported = "none"
  BY <1>1, <1>2 DEF Contexts
<1>4. StatusFits(t.status) /\ StatusFits("none") /\ t.status # "running"
  BY DEF Ending, StatusFits, IInv, StatusesFit, PhaseDone
<1> QED BY <1>1, <1>3, <1>4, Order, LaterGoes DEF Ending

\* What a later module may rely on.
LEMMA Now ==
  ASSUME IInv
  PROVE  /\ task \in Tasks /\ draft \in Drafts /\ page \in Pages /\ v \in Clocks /\ ctx \in Contexts /\ world \in Worlds
         /\ (~job.caption => draft.caption = fb.left) /\ (draft.media => job.kind # "text")
         /\ page = "confirmed" \/ (page = "closed" /\ ~IsReel) \/ v.result = "published" => Live
         /\ StatusFits(task.status) /\ StatusFits(ctx.reported) /\ StatusFits("none")
         /\ StatusFits("uncertain") /\ StatusFits("needs_review") /\ StatusFits("failed_after_publish")
         /\ ctx.reported # "none" => at = "over"
BY Types DEF IInv, DraftFits, DraftComplete, ComposedFor, Wanted, PagesFit, StatusesFit, StatusFits, PhaseDone, PlaceFits

LEMMA EndingFits == ASSUME IInv, NEW t, Ending(t) PROVE StatusFits(t.status) /\ t.status # "running" /\ t.status \notin PhaseDone
BY DEF Ending, StatusFits, IInv, StatusesFit, PhaseDone

\* The same, with the module's result.
LEMMA LeaveGoes ==
  ASSUME IInv, at \in {"prompt", "verifier", "comment", "linger"}, UNCHANGED <<fb, world, job, step, draft>>,
         NEW t \in Tasks, task' = t, t.gate = task.gate, t.clicked = task.clicked, StatusFits(t.status),
         t.status = "running" => t.stage = task.stage /\ task.status = "running",
         NEW r \in {"success", "skipped", "failed_safe", "uncertain", "needs_review"}, Leave(at, r, ctx),
         r = "success" /\ at = "prompt" => t.status \in PhaseDone,
         r \in {"success", "skipped"} /\ at = "verifier" => t.status = "published",
         r = "skipped" => at \notin {"prompt", "verifier"},
         page' \in Pages, v' \in Clocks,
         page' = "confirmed" \/ (page' = "closed" /\ ~IsReel) \/ v'.result = "published" => Live
  PROVE  Good
<1>1. ctx.reported = "none" /\ ctx \in Contexts /\ StatusFits("none")
  BY Now
<1>2. ctx' \in Contexts /\ ctx'.reported = "none"
  BY <1>1 DEF Leave, Contexts
<1>3. \/ at' = "finalize"
      \/ r \in {"success", "skipped"} /\ at' = PlaceAfter(at)
  BY DEF Leave
<1>4. /\ at' \in {"verifier", "comment", "linger", "finalize"}
      /\ at' = "verifier" => t.status \in PhaseDone /\ at = "prompt"
      /\ at' = "comment" => t.status = "published" /\ at = "verifier"
  BY <1>3, Order
<1> QED BY <1>1, <1>2, <1>4, Now, Order, LaterGoes

LEMMA StartupStep == ASSUME IInv, Startup PROVE Good
<1>1. at = "startup" /\ UNCHANGED <<fbVars, job, step, v>>
  BY DEF Startup
<1>2. task.status = "running" /\ task.stage = "preparing" /\ ~task.gate /\ ~task.clicked /\ step = 0
  BY <1>1 DEF IInv, PlaceFits
<1>3. ~Clicked
  BY <1>2 DEF IInv, StatusesFit
<1>4. ASSUME NEW t, t = Fail(task) \/ t = Outcome(task, "skipped"),
             task' = t, Leave("startup", IF t = task THEN "success" ELSE ModuleResult(t.status), ctx)
      PROVE  Good
  <2>1. /\ t \in Tasks /\ t.status \in {"failed_before_publish", "skipped"} /\ t.gate = task.gate
        /\ t.clicked = task.clicked
    <3>1. CASE t = Fail(task)
      BY <1>2, <3>1, Now DEF Fail, Outcome, Resolved, MaybeClicked, Tasks, Statuses, Stages
    <3>2. CASE t = Outcome(task, "skipped")
      <4>1. t = [task EXCEPT !.status = "skipped", !.stage = "skipped"]
        BY <3>2 DEF Outcome, Resolved
      <4>2. "skipped" \in Statuses /\ "skipped" \in Stages
        BY DEF Statuses, Stages
      <4> QED BY <4>1, <4>2, Now DEF Tasks
    <3> QED BY <1>4, <3>1, <3>2
  <2>2. ModuleResult(t.status) = "failed_safe" /\ t # task
    BY <1>2, <2>1 DEF ModuleResult
  <2>3. at' = "finalize" /\ ctx' = [ctx EXCEPT !.stopped = "failed_safe"]
    BY <1>4, <2>2 DEF Leave
  <2>4. ctx' \in Contexts /\ ctx'.reported = "none"
    BY <1>1, <2>3, Now DEF Contexts
  <2>5. StatusFits(t.status)
    BY <1>3, <2>1 DEF StatusFits, PhaseDone
  <2> QED BY <1>1, <1>4, <2>1, <2>3, <2>4, <2>5, Now, Order, LaterGoes DEF fbVars
<1>5. CASE task' = task /\ Leave("startup", "success", ctx)
  <2>1. at' = "publish" /\ ctx' = ctx
    BY <1>5, Order DEF Leave
  <2>2. TypeOK'
    BY <1>1, <1>5, <2>1, Types, TypesNext, Order DEF IInv, fbVars
  <2>3. PlaceFits'
    <3>1. Composing'
      BY <1>1, <1>2, <1>5 DEF Composing, ClickStep, IsReel
    <3> QED BY <1>2, <1>5, <2>1, <3>1, <1>1, Now DEF PlaceFits
  <2>4. DraftFits'
    BY <1>1, <1>2, <1>5, <2>1 DEF IInv, DraftFits, DraftComplete, ComposedFor, Wanted, fbVars, IsReel
  <2> QED BY <1>1, <1>2, <1>5, <2>1, <2>2, <2>3, <2>4 DEF Good, IInv, PagesFit, StatusesFit, StatusFits,
            CommentFits, fbVars, Quiet, Clicked, OursOrRecent, Live, IsReel
<1> QED BY <1>1, <1>4, <1>5 DEF Startup

LEMMA LingerStep == ASSUME IInv, Linger PROVE Good
<1>1. at = "linger" /\ Leave(at, "success", ctx) /\ UNCHANGED <<fbVars, job, task, step, v>>
  BY DEF Linger
<1> QED BY <1>1, Now, LeaveGoes DEF fbVars, IInv, StatusesFit

\* An exception leaves the task as it was.
LEMMA ExceptionStep == ASSUME IInv, Exception, at \in {"startup", "publish", "prompt", "verifier", "comment"} PROVE Good
<1> DEFINE c == [ctx EXCEPT !.attempted = @ \/ (at = "publish" /\ task.clicked)]
<1>1. UNCHANGED <<fbVars, job, task, step, v>> /\ Leave(at, IF c.attempted THEN "uncertain" ELSE "failed_safe", c)
  BY DEF Exception
<1>2. c \in Contexts /\ c.reported = "none"
  BY Now DEF Contexts, Tasks
<1> HIDE DEF c
<1>3. at' = "finalize" /\ ctx' \in Contexts /\ ctx'.reported = "none"
  BY <1>1, <1>2 DEF Leave, Contexts
<1> QED BY <1>1, <1>3, Now, Order, LaterGoes DEF fbVars

LEMMA FinalizeStep == ASSUME IInv, Finalize PROVE Good
<1>1. /\ at = "finalize" /\ at' = "report" /\ task' = [FinalStatus EXCEPT !.record = FinalStatus.status]
      /\ UNCHANGED <<fbVars, job, step, ctx, v>>
  BY DEF Finalize
<1>2. /\ FinalStatus \in Tasks /\ FinalStatus.gate = task.gate /\ FinalStatus.clicked = task.clicked
      /\ StatusFits(FinalStatus.status) /\ FinalStatus.stage = task.stage
      /\ FinalStatus.status = "running" => task.status = "running"
  <2>1. CASE task.status # "running" \/ ctx.stopped = "no"
    BY <2>1, Now DEF FinalStatus
  <2>2. CASE ~(task.status # "running" \/ ctx.stopped = "no")
    <3> DEFINE s == IF ctx.stopped = "failed_safe" THEN "failed_before_publish" ELSE ctx.stopped
    <3>1. s \in {"failed_before_publish", "uncertain", "needs_review"}
      BY <2>2, Now DEF Contexts
    <3>2. FinalStatus = Updated(task, s)
      BY <2>2 DEF FinalStatus
    <3> HIDE DEF s
    <3>3. Ending(FinalStatus) /\ FinalStatus.stage = task.stage
      BY <3>1, <3>2, Now, Endings
    <3> QED BY <3>3, EndingFits DEF Ending
  <2> QED BY <2>1, <2>2
<1> DEFINE t == FinalStatus
<1>3. /\ task' \in Tasks /\ task'.gate = task.gate /\ task'.clicked = task.clicked
      /\ StatusFits(task'.status) /\ task'.stage = task.stage
      /\ task'.status = "running" => task.status = "running"
  <2>1. t \in Tasks /\ task' = [t EXCEPT !.record = t.status]
    BY <1>1, <1>2
  <2> HIDE DEF t
  <2>2. task' \in Tasks /\ task'.gate = t.gate /\ task'.clicked = t.clicked /\ task'.stage = t.stage /\ task'.status = t.status
    BY <2>1 DEF Tasks
  <2> QED BY <1>2, <2>2 DEF t
<1>4. ctx.reported = "none"
  BY <1>1, Now
<1> QED BY <1>1, <1>3, <1>4, Now, Order, LaterGoes DEF fbVars

LEMMA ReportStep == ASSUME IInv, Report PROVE Good
<1>1. /\ at = "report" /\ at' = "over" /\ ctx' = [ctx EXCEPT !.reported = Reported]
      /\ UNCHANGED <<fbVars, job, task, step, v>>
  BY DEF Report
<1>2. Reported \in Statuses /\ StatusFits(Reported)
  <2>1. CASE task.status # "running"
    BY <2>1, Now DEF Reported, Tasks
  <2>2. CASE task.status = "running"
    <3>1. /\ Reported \in {"uncertain", "failed_before_publish"}
          /\ Reported = "failed_before_publish" => ~Clicked
      BY <2>2 DEF Reported, IInv, StatusesFit
    <3> QED BY <3>1 DEF StatusFits, Statuses, PhaseDone
  <2> QED BY <2>1, <2>2
<1>3. ctx' \in Contexts /\ ctx'.reported = Reported
  BY <1>1, <1>2, Now DEF Contexts
<1> QED BY <1>1, <1>2, <1>3, Now, Order, LaterGoes DEF fbVars

LEMMA KilledStep == ASSUME IInv, Killed PROVE Good
<1>1. at # "over" /\ at' = "over" /\ UNCHANGED <<fbVars, job, task, step, ctx, v>>
  BY DEF Killed
<1> QED BY <1>1, Now, Order, LaterGoes DEF fbVars

LEMMA PromptStep == ASSUME IInv, PromptModule PROVE Good
<1>1. at = "prompt" /\ UNCHANGED <<fb, draft, world, job, step, v>> /\ task.status \in PhaseDone
  BY DEF PromptModule, IInv, PlaceFits
<1>2. task.status # "running"
  BY <1>1 DEF PhaseDone
<1>3. CASE Leave("prompt", "success", ctx) /\ UNCHANGED <<page, task>>
  BY <1>1, <1>2, <1>3, Now, LeaveGoes
<1>4. CASE /\ page' \in UnderThePrompt(IsReel) /\ Leave("prompt", "success", ctx)
           /\ task' = [task EXCEPT !.prompt = "dismissed"]
  <2>1. page' \in Pages /\ (page' = "closed" /\ ~IsReel => Live) /\ page' # "confirmed"
    BY <1>4 DEF UnderThePrompt, Pages, Live
  <2>2. task' \in Tasks /\ task'.gate = task.gate /\ task'.clicked = task.clicked /\ task'.status = task.status
    BY <1>4, Now DEF Tasks
  <2> QED BY <1>1, <1>2, <1>4, <2>1, <2>2, Now, LeaveGoes
<1>5. CASE /\ UNCHANGED page /\ Leave("prompt", "failed_safe", ctx)
           /\ task' = Updated([task EXCEPT !.prompt = "failed"], "failed_after_publish")
  <2> DEFINE t == [task EXCEPT !.prompt = "failed"]
  <2>1. t \in Tasks /\ t.gate = task.gate /\ t.clicked = task.clicked
    BY Now DEF Tasks
  <2> HIDE DEF t
  <2>2. Ending(task')
    BY <1>5, <2>1, Endings DEF t
  <2> QED BY <1>1, <1>5, <2>2, EndingFits, Now, LeaveGoes DEF Ending
<1> QED BY <1>3, <1>4, <1>5 DEF PromptModule

\* What one attempt of the profile check leaves, whatever its module makes of the result.
LEMMA CheckFacts ==
  ASSUME IInv, NEW ACTION found, NEW ACTION notFound, NEW ACTION open, ProfileCheck(found, notFound, open)
  PROVE  /\ page' \in {page, "profile"} /\ v' \in Clocks /\ v'.result = v.result
         /\ \/ open \/ notFound
            \/ found /\ OursOrRecent
            \/ UNCHANGED <<task, at, ctx>>
<1>1. v \in Clocks /\ page \in Pages
  BY Now
<1>2. CardAccepted \/ (IsReel /\ GalleryHasReel) => OursOrRecent
  BY DEF CardAccepted, GalleryHasReel, HeaderIsRecent, MediaMatches, OursOrRecent, Live
<1>3. v.tries < Attempts => v.tries + 1 \in 0..3
  BY <1>1 DEF Attempts, Clocks
<1>4. /\ [v EXCEPT !.tries = 0] \in Clocks /\ [v EXCEPT !.tries = 0].result = v.result
      /\ v.tries < Attempts => [v EXCEPT !.tries = v.tries + 1] \in Clocks /\ [v EXCEPT !.tries = v.tries + 1].result = v.result
  BY <1>1, <1>3 DEF Clocks
<1> QED BY <1>1, <1>2, <1>4 DEF ProfileCheck

LEMMA VerifierStep == ASSUME IInv, VerifierModule PROVE Good
<1>1. at = "verifier" /\ UNCHANGED <<fb, draft, world, job, step>> /\ task.status \in PhaseDone
  BY DEF VerifierModule, IInv, PlaceFits
<1>2. Clicked /\ task.status # "running"
  BY <1>1, Now DEF PhaseDone, StatusFits
<1>3. ASSUME NEW t \in Tasks, Settle(t), t.gate = task.gate, t.clicked = task.clicked, StatusFits(t.status),
             t.status # "running", page' \in {page, "profile"}, v' \in Clocks, v'.result = v.result
      PROVE  Good
  <2>1. /\ ModuleResult(t.status) \in {"success", "failed_safe", "uncertain", "needs_review"}
        /\ ModuleResult(t.status) = "success" => t.status = "published"
    BY DEF ModuleResult
  <2>2. page' \in Pages /\ (page' = "confirmed" \/ (page' = "closed" /\ ~IsReel) \/ v'.result = "published" => Live)
    BY <1>3, Now DEF Pages
  <2> QED BY <1>1, <1>3, <2>1, <2>2, LeaveGoes DEF Settle
<1>4. CASE ~NeedsProfileCheck
  BY <1>2, <1>3, <1>4, Now DEF VerifierModule
<1>5. CASE NeedsProfileCheck
  <2> DEFINE t == [Updated(task, "published") EXCEPT !.seen = IsReel]
  <2>1. /\ page' \in {page, "profile"} /\ v' \in Clocks /\ v'.result = v.result
        /\ \/ Settle(Uncertain(task))
           \/ Settle(t) /\ OursOrRecent
           \/ UNCHANGED <<task, at, ctx>>
    <3>1. ProfileCheck(Settle(t), Settle(Uncertain(task)), Settle(Uncertain(task)))
      BY <1>5 DEF VerifierModule
    <3> HIDE DEF t
    <3> QED BY <3>1, CheckFacts
  <2>2. CASE Settle(Uncertain(task))
    BY <1>3, <2>1, <2>2, Now, Endings, EndingFits DEF Ending
  <2>3. CASE Settle(t) /\ OursOrRecent
    <3>1. t \in Tasks /\ t.gate = task.gate /\ t.clicked = task.clicked /\ t.status = "published"
      <4>1. "published" \in Statuses /\ IsReel \in BOOLEAN /\ task \in Tasks
        BY Now DEF Statuses, IsReel
      <4>2. t = [[task EXCEPT !.status = "published"] EXCEPT !.seen = IsReel]
        BY DEF Updated, Resolved
      <4> QED BY <4>1, <4>2 DEF Tasks
    <3> HIDE DEF t
    <3>2. StatusFits(t.status)
      BY <1>2, <2>3, <3>1 DEF StatusFits
    <3> QED BY <1>3, <2>1, <2>3, <3>1, <3>2
  <2>4. CASE UNCHANGED <<task, at, ctx>>
    <3>1. page' \in Pages /\ (page' = "confirmed" \/ (page' = "closed" /\ ~IsReel) \/ v'.result = "published" => Live)
      BY <2>1, Now DEF Pages
    <3> QED BY <1>1, <1>2, <2>1, <2>4, <3>1, Now, Order, LaterGoes
  <2> QED BY <2>1, <2>2, <2>3, <2>4
<1> QED BY <1>4, <1>5

\* A comment is submitted: the module ends whatever its result.
LEMMA SubmitGoes ==
  ASSUME IInv, at = "comment", UNCHANGED <<fb, draft, job, step, v>>, page' \in {page, "profile"},
         NEW cards, Submit(cards), cards \subseteq {"ours", "others"},
         "others" \in cards => job.kind = "text" \/ (IsReel /\ fb.recent)
  PROVE  Good
<1> DEFINE t == InStage(task, "commenting")
<1>1. PICK card \in cards, r \in {"success", "uncertain"} :
        /\ world' = [world EXCEPT !.ours = @ + (IF card = "ours" THEN 1 ELSE 0),
                                  !.others = @ + (IF card = "others" THEN 1 ELSE 0)]
        /\ Commented(r, t)
  BY DEF Submit
<1>2. world.ours = 0 /\ world.others = 0 /\ task.status = "published" /\ Clicked /\ ctx.reported = "none"
  BY Now DEF IInv, CommentFits, PlaceFits, StatusFits, PhaseDone
<1>3. /\ world' \in Worlds /\ world'.post = world.post /\ world'.clicks = world.clicks /\ world'.sent = world.sent
      /\ world'.ours + world'.others = 1 /\ (world'.others > 0 => card = "others")
  <2>1. /\ world' = [world EXCEPT !.ours = IF card = "ours" THEN 1 ELSE 0,
                                 !.others = IF card = "others" THEN 1 ELSE 0]
        /\ card = "ours" \/ card = "others"
    BY <1>1, <1>2
  <2>2. world \in Worlds /\ (card = "ours" => card # "others")
    BY Now
  <2>3. CASE card = "ours"
    <3> DEFINE w == [world EXCEPT !.ours = 1, !.others = 0]
    <3>1. world' = w
      BY <2>1, <2>3
    <3>2. w \in Worlds /\ w.ours = 1 /\ w.others = 0 /\ w.post = world.post /\ w.clicks = world.clicks /\ w.sent = world.sent
      <4>1. 0 \in 0..2 /\ 1 \in 0..2 /\ world \in Worlds
        BY <2>2
      <4>2. w \in Worlds
        BY <4>1 DEF Worlds
      <4> QED BY <4>1, <4>2 DEF Worlds
    <3> HIDE DEF w
    <3> QED BY <2>3, <3>1, <3>2
  <2>4. CASE card = "others"
    <3> DEFINE w == [world EXCEPT !.ours = 0, !.others = 1]
    <3>1. world' = w
      BY <2>1, <2>4
    <3>2. w \in Worlds /\ w.ours = 0 /\ w.others = 1 /\ w.post = world.post /\ w.clicks = world.clicks /\ w.sent = world.sent
      <4>1. 0 \in 0..2 /\ 1 \in 0..2 /\ world \in Worlds
        BY <2>2
      <4>2. w \in Worlds
        BY <4>1 DEF Worlds
      <4> QED BY <4>1, <4>2 DEF Worlds
    <3> HIDE DEF w
    <3> QED BY <2>4, <3>1, <3>2
  <2> QED BY <2>1, <2>3, <2>4
<1>4. /\ t \in Tasks /\ t.gate = task.gate /\ t.clicked = task.clicked /\ t.status = "published"
      /\ task' = t
  <2>1. "commenting" \in Stages /\ task \in Tasks
    BY Now DEF Stages
  <2> QED BY <1>1, <1>2, <2>1 DEF InStage, Tasks, Commented
<1> HIDE DEF t
<1>5. at' \in {"linger", "finalize"} /\ ctx' \in Contexts /\ ctx'.reported = "none"
  BY <1>1, <1>2, Now, Order DEF Commented, Leave, Contexts
<1>6. page' \in Pages
  BY Now DEF Pages
<1>7. TypeOK'
  BY <1>3, <1>4, <1>5, <1>6, Types, TypesNext, Order DEF IInv, Pages
<1>8. PagesFit' /\ DraftFits' /\ PlaceFits'
  BY <1>3, <1>5 DEF IInv, PagesFit, DraftFits, DraftComplete, ComposedFor, Wanted, PlaceFits, Live, IsReel
<1>9. StatusesFit' /\ CommentFits'
  BY <1>1, <1>2, <1>3, <1>4, <1>5 DEF IInv, StatusesFit, StatusFits, CommentFits, Clicked, OursOrRecent, Live, IsReel, PhaseDone
<1> QED BY <1>3, <1>4, <1>7, <1>8, <1>9 DEF Good, IInv, Quiet

LEMMA CommentStep == ASSUME IInv, CommentModule PROVE Good
<1>1. at = "comment" /\ UNCHANGED <<fb, draft, job, step>> /\ task.status = "published"
  BY DEF CommentModule, IInv, PlaceFits
<1>2. Clicked /\ OursOrRecent /\ ctx.reported = "none"
  BY <1>1, Now DEF PhaseDone, StatusFits
<1>3. ASSUME NEW t \in Tasks, NEW r \in {"skipped", "failed_safe"}, task' = t, Leave("comment", r, ctx), UNCHANGED world,
             t.gate = task.gate, t.clicked = task.clicked, StatusFits(t.status), t.status # "running",
             page' \in {page, "profile"}, v' \in Clocks, v'.result = v.result
      PROVE  Good
  <2>1. page' \in Pages /\ (page' = "confirmed" \/ (page' = "closed" /\ ~IsReel) \/ v'.result = "published" => Live)
    BY <1>3, Now DEF Pages
  <2> QED BY <1>1, <1>3, <2>1, LeaveGoes
<1>4. CASE ~job.comment
  BY <1>1, <1>3, <1>4, Now DEF CommentModule
<1>5. CASE job.comment /\ IsReel /\ ~task.seen
  <2>1. /\ page' \in {page, "profile"} /\ v' \in Clocks /\ v'.result = v.result /\ UNCHANGED world
        /\ \/ Commented("failed_safe", task) \/ Commented("failed_safe", Uncertain(task))
           \/ Stay([task EXCEPT !.seen = TRUE])
           \/ UNCHANGED <<task, at, ctx>>
    <3>1. /\ ProfileCheck(Stay([task EXCEPT !.seen = TRUE]), Commented("failed_safe", task),
                          Commented("failed_safe", Uncertain(task)))
          /\ UNCHANGED world
      BY <1>5 DEF CommentModule
    <3> QED BY <3>1, CheckFacts
  <2>2. CASE Commented("failed_safe", task) \/ Commented("failed_safe", Uncertain(task))
    BY <1>1, <1>3, <2>1, <2>2, Now, Endings, EndingFits DEF Commented, Ending
  <2>3. CASE Stay([task EXCEPT !.seen = TRUE]) \/ UNCHANGED <<task, at, ctx>>
    <3>1. /\ UNCHANGED <<at, ctx>> /\ task' \in Tasks /\ task'.gate = task.gate /\ task'.clicked = task.clicked
          /\ task'.status = "published"
      BY <1>1, <2>3, Now DEF Stay, Tasks
    <3>2. page' \in Pages /\ (page' = "confirmed" \/ (page' = "closed" /\ ~IsReel) \/ v'.result = "published" => Live)
      BY <2>1, Now DEF Pages
    <3> QED BY <1>1, <1>2, <2>1, <3>1, <3>2, Now, Order, LaterGoes
  <2> QED BY <2>1, <2>2, <2>3
<1>6. CASE job.comment /\ ~(IsReel /\ ~task.seen)
  <2>1. SubmitOrGiveUp \/ SubmitByPermalink
    BY <1>6 DEF CommentModule
  <2>2. UNCHANGED v /\ page' \in {page, "profile"}
    BY <2>1 DEF SubmitOrGiveUp, SubmitByPermalink, SubmitOnProfile
  <2>3. ASSUME NEW cards \in {{"ours"}, TopCard, {"ours", "others"}}, Submit(cards),
               cards = {"ours", "others"} => StaleFeed
        PROVE  Good
    <3>1. cards \subseteq {"ours", "others"} /\ ("others" \in cards => job.kind = "text" \/ (IsReel /\ fb.recent))
      BY <1>2, <2>3 DEF TopCard, StaleFeed, OursOrRecent, Live
    <3> QED BY <1>1, <2>2, <2>3, <3>1, SubmitGoes
  <2>4. CASE NotSubmitted
    <3> DEFINE t == InStage(task, "commenting")
    <3>1. t \in Tasks /\ t.gate = task.gate /\ t.clicked = task.clicked /\ t.status = "published"
      <4>1. "commenting" \in Stages /\ task \in Tasks
        BY Now DEF Stages
      <4> QED BY <1>1, <4>1 DEF InStage, Tasks
    <3>2. task' = t /\ Leave("comment", "failed_safe", ctx) /\ UNCHANGED world
      BY <2>4 DEF NotSubmitted, Commented
    <3> HIDE DEF t
    <3> QED BY <1>1, <1>3, <2>2, <3>1, <3>2, Now
  <2>5. \/ NotSubmitted \/ Submit({"ours"}) \/ Submit(TopCard)
        \/ StaleFeed /\ Submit({"ours", "others"})
    BY <2>1 DEF SubmitOrGiveUp, SubmitByPermalink, SubmitOnProfile
  <2>6. TopCard # {"ours", "others"} /\ {"ours"} # {"ours", "others"}
    <3>1. "others" \notin {"ours"} /\ "ours" \notin {"others"} /\ "others" \in {"ours", "others"} /\ "ours" \in {"ours", "others"}
      OBVIOUS
    <3> QED BY <3>1 DEF TopCard
  <2> QED BY <2>3, <2>4, <2>5, <2>6
<1> QED BY <1>4, <1>5, <1>6

-----------------------------------------------------------------------------
(* Facebook *)

\* A page that Facebook changes, or a decision it takes.
LEMMA FacebookStep == ASSUME IInv, Facebooks PROVE Good
<1>1. UNCHANGED <<fb, draft, job, task, at, step, ctx, v>>
  BY DEF Facebooks, Facebook, taskVars, Processed, ErrorAppears, Decides, Settles, PopupFades
<1>2. /\ page \in Pages /\ world \in Worlds /\ (page = "confirmed" \/ (page = "closed" /\ ~IsReel) => Live)
  BY Now
<1>3. CASE Decides
  <2>1. /\ world' \in Worlds /\ world'.clicks = world.clicks /\ world'.sent = world.sent
        /\ world'.ours = world.ours /\ world'.others = world.others
        /\ world.post = "sent" /\ world'.post \in {"live", "refused"} /\ page' = page
    BY <1>2, <1>3 DEF Decides, Worlds
  <2>2. ~Live /\ world.clicks # 0
    BY <2>1 DEF Live, IInv, PagesFit
  <2>3. TypeOK'
    BY <1>1, <2>1, Types, TypesNext DEF IInv
  <2>4. PagesFit' /\ DraftFits'
    BY <1>1, <2>1, <2>2 DEF IInv, PagesFit, DraftFits, DraftComplete, ComposedFor, Wanted, Live, IsReel
  <2>5. PlaceFits'
    BY <1>1, <2>1, <2>2 DEF IInv, PlaceFits, Composing, Clicking, Verifying, Clicked, ClickStep, GatePages, Live, IsReel
  <2>6. StatusesFit' /\ CommentFits'
    BY <1>1, <2>1, <2>2 DEF IInv, StatusesFit, StatusFits, CommentFits, Clicked, OursOrRecent, Live, IsReel
  <2> QED BY <1>1, <2>1, <2>3, <2>4, <2>5, <2>6 DEF Good, IInv, Quiet
<1>4. CASE Processed \/ ErrorAppears \/ Settles(IsReel) \/ PopupFades
  <2>1. /\ UNCHANGED world /\ page' \in Pages
        /\ page' = "confirmed" \/ (page' = "closed" /\ ~IsReel) => Live
        /\ page \in GatePages => page' = "error"
        /\ page \in PagesAfterClick => page' \in PagesAfterClick
        /\ page # "error"
    BY <1>2, <1>4 DEF Processed, ErrorAppears, Settles, PopupFades, Pages, Live, GatePages, PagesAfterClick,
       AfterClick, ComposerPages, PublishPages
  <2>2. TypeOK'
    BY <1>1, <2>1, Types, TypesNext DEF IInv
  <2>3. PagesFit' /\ DraftFits' /\ StatusesFit' /\ CommentFits'
    BY <1>1, <2>1 DEF IInv, PagesFit, DraftFits, DraftComplete, ComposedFor, Wanted, StatusesFit, StatusFits, CommentFits, Clicked, OursOrRecent, Live, IsReel
  <2>4. PlaceFits'
    BY <1>1, <2>1 DEF IInv, PlaceFits, Composing, Clicking, Verifying, Clicked, ClickStep, GatePages, Live, IsReel
  <2> QED BY <1>1, <2>1, <2>2, <2>3, <2>4 DEF Good, IInv, Quiet
<1> QED BY <1>3, <1>4 DEF Facebooks, Facebook

-----------------------------------------------------------------------------
(* The publish module up to the gate *)

\* A task that is preparing its publication.
Composed(t) ==
  /\ t \in Tasks /\ t.status = "running" /\ t.stage \in {"preparing", "composing", "ready_to_publish"}
  /\ ~t.gate /\ ~t.clicked

LEMMA ComposeGoes ==
  ASSUME IInv, at = "publish", UNCHANGED <<fb, world, job, at, ctx, v>>, Composed(task), Composed(task'),
         step' \in 0..ClickStep, page' \in Pages, page' = page \/ page' \notin {"closed", "confirmed"},
         draft' \in Drafts, DraftFits'
  PROVE  Good
<1>1. ClickStep \in {8, 9} /\ step' \in 0..11 /\ task' \in Tasks
  BY DEF ClickStep, Composed
<1>2. TypeOK'
  BY <1>1, Types, TypesNext DEF IInv
<1>3. PagesFit' /\ CommentFits'
  BY DEF IInv, PagesFit, CommentFits, Live, Clicked, IsReel
<1>4. PlaceFits'
  <2>1. Composing'
    BY <1>1 DEF Composing, Composed, ClickStep, IsReel
  <2> QED BY <2>1, Now DEF PlaceFits, Composed
<1>5. StatusesFit'
  BY DEF IInv, StatusesFit, StatusFits, Composed, Clicked, OursOrRecent, Live, IsReel
<1>6. task.gate = FALSE /\ task'.gate = FALSE
  BY DEF Composed, Tasks
<1>7. at # "over" /\ world'.clicks = world.clicks
  OBVIOUS
<1> QED BY <1>2, <1>3, <1>4, <1>5, <1>6, <1>7 DEF Good, IInv, Quiet

\* What a workflow step before the click may rely on.
LEMMA Composes ==
  ASSUME IInv, at = "publish", step < ClickStep
  PROVE  Composed(task) /\ world.clicks = 0
<1>1. Composing
  BY Types DEF IInv, PlaceFits, Clicking, Verifying, ClickStep
<1> QED BY <1>1, Now DEF Composing, Composed, IInv, PlaceFits, StatusesFit, Clicked, PagesFit

LEMMA ComposedStages ==
  ASSUME NEW t, Composed(t)
  PROVE  /\ Composed(InStage(t, "preparing")) /\ Composed(InStage(t, "composing"))
         /\ Composed([t EXCEPT !.captioned = TRUE])
         /\ \A x \in {"none", "t1", "t2", "t3", "p1", "p2"} :
              Composed([t EXCEPT !.template = x]) /\ [t EXCEPT !.template = x].captioned = t.captioned
         /\ InStage(t, "preparing").captioned = t.captioned /\ InStage(t, "composing").captioned = t.captioned
         /\ InStage(t, "composing").gate = t.gate /\ InStage(t, "composing").clicked = t.clicked
BY DEF Composed, InStage, Tasks, Stages

\* A workflow step that continues, stays or stops before the click.
LEMMA WorkStep ==
  ASSUME IInv, at = "publish", step < ClickStep, UNCHANGED <<fb, world, job, v>>,
         page' \in Pages, page' = page \/ page' \notin {"closed", "confirmed"},
         draft' \in Drafts, ~job.caption => draft'.caption = fb.left, draft'.media => job.kind # "text",
         NEW t,
         \/ Ending(t) /\ Stop(t)
         \/ /\ Composed(t) /\ (Continue(t) \/ Stay(t)) /\ (t.captioned => draft'.caption = "job")
            /\ IsReel /\ step' > 7 => draft'.caption = Wanted
            /\ ~IsReel /\ step' > 3 => draft'.media = (job.kind = "image")
            /\ ~IsReel /\ step' > 4 => draft'.caption = Wanted
  PROVE  Good
<1>1. ClickStep \in {8, 9} /\ step \in 0..11
  BY Types DEF ClickStep, IInv
<1>2. CASE Ending(t) /\ Stop(t)
  <2>1. /\ v' \in Clocks
        /\ page' = "confirmed" \/ (page' = "closed" /\ ~IsReel) \/ v'.result = "published" => Live
    BY Now
  <2>2. t \in Tasks /\ UNCHANGED <<fb, world, job>>
    BY <1>2 DEF Ending
  <2> QED BY <1>2, <2>1, <2>2, StopGoes
<1>3. CASE Composed(t) /\ (Continue(t) \/ Stay(t))
  <2>1. UNCHANGED <<at, ctx>> /\ task' = t /\ step' \in 0..ClickStep
    BY <1>1, <1>3 DEF Continue, Stay
  <2>2. CASE Ending(t)
    BY <1>3, <2>2, EndingFits DEF Composed
  <2>3. CASE ~Ending(t)
    <3>1. DraftFits'
      BY <1>3, <2>1, <2>3 DEF IInv, DraftFits, DraftComplete, ComposedFor, Wanted, IsReel
    <3> QED BY <1>3, <2>1, <3>1, Composes, ComposeGoes
  <2> QED BY <2>2, <2>3
<1> QED BY <1>2, <1>3

\* What every such step leaves of the browser and the draft.
Tidy ==
  /\ UNCHANGED <<fb, world, job, v>> /\ page' \in Pages /\ (page' = page \/ page' \notin {"closed", "confirmed"})
  /\ draft' \in Drafts /\ (~job.caption => draft'.caption = fb.left) /\ (draft'.media => job.kind # "text")

LEMMA WorkStops ==
  ASSUME IInv, at = "publish", step < ClickStep, Tidy,
         NEW t, t = task \/ t = InStage(task, "composing"), Stop(Fail(t)) \/ Stop(NeedsReview(t))
  PROVE  Good
<1>1. t \in Tasks /\ t.gate = task.gate /\ t.clicked = task.clicked
  <2>1. Composed(task) /\ Composed(InStage(task, "composing"))
    BY Composes, ComposedStages
  <2>2. t.gate = task.gate /\ t.clicked = task.clicked
    BY <2>1, ComposedStages
  <2>3. Composed(t)
    BY <2>1
  <2> QED BY <2>2, <2>3 DEF Composed
<1>2. Ending(Fail(t)) /\ Ending(NeedsReview(t))
  BY <1>1, Endings
<1> QED BY <1>2, WorkStep DEF Tidy

LEMMA WorkGoes ==
  ASSUME IInv, at = "publish", step < ClickStep, Tidy, NEW t, Composed(t), Continue(t) \/ Stay(t),
         t.captioned => draft'.caption = "job",
         IsReel /\ step' > 7 => draft'.caption = Wanted,
         ~IsReel /\ step' > 3 => draft'.media = (job.kind = "image"),
         ~IsReel /\ step' > 4 => draft'.caption = Wanted
  PROVE  Good
BY WorkStep DEF Tidy

\* What a workflow step before the click starts from.
LEMMA Begun ==
  ASSUME IInv, NEW n \in 0..8, InStep(n), n < ClickStep
  PROVE  /\ at = "publish" /\ step = n /\ Composed(task) /\ step < ClickStep
         /\ task.captioned => draft.caption = "job"
         /\ draft \in Drafts /\ page \in Pages /\ fb \in Accounts
         /\ (~job.caption => draft.caption = fb.left) /\ (draft.media => job.kind # "text")
         /\ IsReel /\ n > 7 => draft.caption = Wanted
         /\ ~IsReel /\ n > 3 => draft.media = (job.kind = "image")
         /\ ~IsReel /\ n > 4 => draft.caption = Wanted
BY Composes, Types, Now DEF InStep, IInv, DraftFits, DraftComplete, ComposedFor, Wanted

LEMMA StartSteps == ASSUME IInv, StartPublish \/ Preflight PROVE Good
<1>1. CASE StartPublish
  <2>1. InStep(0) /\ Continue(task) /\ UNCHANGED <<fbVars, job, v>> /\ 0 < ClickStep
    BY <1>1 DEF StartPublish, InStep, ClickStep
  <2>2. step' = 1
    BY <2>1 DEF Continue, InStep
  <2> QED BY <2>1, <2>2, Begun, WorkGoes DEF Tidy, fbVars
<1>2. CASE Preflight
  <2>1. InStep(1) /\ Continue(InStage(task, "preparing")) /\ UNCHANGED <<fbVars, job, v>> /\ 1 < ClickStep
    BY <1>2 DEF Preflight, ClickStep
  <2>2. step' = 2
    BY <2>1 DEF Continue, InStep
  <2>3. Tidy /\ at = "publish" /\ step < ClickStep /\ Composed(task) /\ (task.captioned => draft'.caption = "job")
    BY <2>1, Begun DEF Tidy, fbVars
  <2>4. Composed(InStage(task, "preparing")) /\ InStage(task, "preparing").captioned = task.captioned
    BY <2>3, ComposedStages
  <2> QED BY <2>1, <2>2, <2>3, <2>4, WorkGoes
<1> QED BY <1>1, <1>2

\* The field of the caption.
LEMMA EntryLeaves ==
  ASSUME draft \in Drafts, NEW o, draft' \in DraftAfter(o)
  PROVE  draft' \in Drafts /\ draft'.media = draft.media /\ (o = "entered" => draft'.caption = "job")
BY DEF DraftAfter, TextsAfter, Drafts, Captions

-----------------------------------------------------------------------------
(* The steps of a Reel *)

LEMMA ReelEntryStep == ASSUME IInv, IsReel, OpenReelEntry \/ DetectEntry PROVE Good
<1>1. CASE OpenReelEntry
  <2>1. InStep(2) /\ 2 < ClickStep /\ UNCHANGED <<fb, draft, world, job, v>>
    BY <1>1 DEF OpenReelEntry, ClickStep
  <2>2. CASE Stop(Fail(task)) /\ UNCHANGED page
    BY <2>1, <2>2, Begun, WorkStops DEF Tidy
  <2>3. CASE Continue(task) /\ page' = fb.entry
    <3>1. Tidy
      BY <2>1, <2>3, Begun DEF Tidy, Accounts, Pages
    <3>2. step' = 3
      BY <2>1, <2>3 DEF InStep, Continue
    <3> QED BY <2>1, <2>3, <3>1, <3>2, Begun, WorkGoes
  <2> QED BY <1>1, <2>2, <2>3 DEF OpenReelEntry, WaitForTarget
<1>2. CASE DetectEntry
  <2> DEFINE t == InStage(task, "composing")
  <2>1. InStep(3) /\ 3 < ClickStep /\ UNCHANGED <<fbVars, job, v>>
    BY <1>2 DEF DetectEntry, ClickStep
  <2>2. Tidy
    BY <2>1, Begun DEF Tidy, fbVars
  <2>3. CASE Stop(Fail(t)) \/ Stop(NeedsReview(t))
    BY <2>1, <2>2, <2>3, Begun, WorkStops
  <2>4. CASE Continue([t EXCEPT !.template = EntryTemplate])
    <3>1. EntryTemplate \in {"none", "t1", "t2", "t3", "p1", "p2"}
      BY Types DEF EntryTemplate, Jobs, IInv
    <3>5. at = "publish" /\ step < ClickStep /\ Composed(task) /\ (task.captioned => draft.caption = "job")
      BY <2>1, Begun
    <3>2. Composed(t) /\ t.captioned = task.captioned
      BY <3>5, ComposedStages
    <3> HIDE DEF t
    <3>3. Composed([t EXCEPT !.template = EntryTemplate]) /\ [t EXCEPT !.template = EntryTemplate].captioned = task.captioned
      BY <3>1, <3>2, ComposedStages
    <3>4. step' = 4 /\ draft' = draft
      BY <2>1, <2>4 DEF InStep, Continue, fbVars
    <3> DEFINE r == [t EXCEPT !.template = EntryTemplate]
    <3>6. Composed(r) /\ r.captioned = task.captioned /\ Continue(r)
      BY <2>4, <3>3
    <3> HIDE DEF r
    <3> QED BY <2>2, <3>4, <3>5, <3>6, WorkGoes
  <2> QED BY <1>2, <2>3, <2>4 DEF DetectEntry
<1> QED BY <1>1, <1>2

LEMMA MediaStep == ASSUME IInv, IsReel, AttachMedia \/ ReattachMedia \/ ConfirmMedia PROVE Good
<1>1. /\ InStep(4) /\ 4 < ClickStep /\ UNCHANGED <<fb, world, job, v>> /\ job.kind # "text"
      /\ at = "publish" /\ step = 4 /\ Composed(task) /\ (task.captioned => draft.caption = "job")
      /\ draft \in Drafts /\ page \in Pages /\ fb \in Accounts /\ (~job.caption => draft.caption = fb.left)
  <2>1. InStep(4) /\ 4 < ClickStep /\ UNCHANGED <<fb, world, job, v>> /\ job.kind # "text"
    BY DEF AttachMedia, ReattachMedia, ConfirmMedia, fbVars, ClickStep, IsReel
  <2> QED BY <2>1, Begun
<1>2. CASE (Stop(Fail(task)) \/ Stop(NeedsReview(task))) /\ UNCHANGED <<page, draft>>
  BY <1>1, <1>2, WorkStops DEF Tidy
<1>3. CASE /\ \E b \in BOOLEAN : draft' = [draft EXCEPT !.media = b]
           /\ page' \in {"final", "edit", "upload", page} /\ (Stay(task) \/ Continue(task))
  <2>1. draft' \in Drafts /\ draft'.caption = draft.caption
    BY <1>1, <1>3 DEF Drafts
  <2>2. Tidy
    BY <1>1, <1>3, <2>1 DEF Tidy, Pages
  <2>3. step' \in {4, 5}
    BY <1>1, <1>3 DEF Stay, Continue
  <2> QED BY <1>1, <1>3, <2>1, <2>2, <2>3, WorkGoes
<1>4. CASE \E x \in {"t2", "t3"} : Continue([task EXCEPT !.template = x]) /\ UNCHANGED <<page, draft>>
  <2>1. PICK x \in {"t2", "t3"} : Continue([task EXCEPT !.template = x]) /\ UNCHANGED <<page, draft>>
    BY <1>4
  <2> DEFINE t == [task EXCEPT !.template = x]
  <2>2. Composed(t) /\ t.captioned = task.captioned
    BY <1>1, <2>1, ComposedStages
  <2>3. Tidy /\ step' = 5 /\ (task.captioned => draft'.caption = "job")
    BY <1>1, <2>1, Now DEF Tidy, Continue, IsReel
  <2>4. Continue(t)
    BY <2>1
  <2> HIDE DEF t
  <2> QED BY <1>1, <2>2, <2>3, <2>4, WorkGoes
<1>5. AttachMedia => \/ Stop(Fail(task)) /\ UNCHANGED <<page, draft>>
                     \/ /\ \E b \in BOOLEAN : draft' = [draft EXCEPT !.media = b]
                        /\ page' \in {"final", "edit", "upload", page} /\ (Stay(task) \/ Continue(task))
  <2>1. (~Direct \/ fb.carries) \in BOOLEAN
    BY <1>1 DEF Direct, Accounts
  <2> QED BY <2>1 DEF AttachMedia, ComposerPage
<1>6. ReattachMedia => /\ \E b \in BOOLEAN : draft' = [draft EXCEPT !.media = b]
                       /\ page' \in {"final", "edit", "upload", page} /\ (Stay(task) \/ Continue(task))
  BY DEF ReattachMedia
<1>7. ConfirmMedia => \/ (Stop(Fail(task)) \/ Stop(NeedsReview(task))) /\ UNCHANGED <<page, draft>>
                      \/ \E x \in {"t2", "t3"} : Continue([task EXCEPT !.template = x]) /\ UNCHANGED <<page, draft>>
  BY DEF ConfirmMedia, fbVars
<1> QED BY <1>2, <1>3, <1>4, <1>5, <1>6, <1>7

\* What entering the caption, early or not, comes to.
LEMMA CaptionGoes ==
  ASSUME IInv, IsReel, NEW n \in {5, 7}, InStep(n), UNCHANGED <<fb, page, world, job, v>>, job.caption,
         EnterReelCaption(n = 5)
  PROVE  Good
<1>1. n < ClickStep
  BY DEF ClickStep
<1>2. /\ at = "publish" /\ step = n /\ Composed(task) /\ step < ClickStep /\ (task.captioned => draft.caption = "job")
      /\ draft \in Drafts /\ page \in Pages /\ (draft.media => job.kind # "text")
  BY <1>1, Begun
<1>3. CASE UNCHANGED draft /\ Stop(Fail(task))
  BY <1>2, <1>3, WorkStops DEF Tidy
<1>4. CASE UNCHANGED draft /\ n = 5 /\ Continue(task)
  <2>1. Tidy /\ step' = 6
    BY <1>2, <1>4 DEF Tidy, Continue
  <2> QED BY <1>2, <1>4, <2>1, WorkGoes
<1>5. ASSUME NEW o \in EntryOutcomes, draft' \in DraftAfter(o),
             CASE o = "entered" -> Continue([task EXCEPT !.captioned = TRUE])
               [] o = "review_failed" -> Stop(NeedsReview(task))
               [] OTHER -> Stop(Fail(task))
      PROVE  Good
  <2>1. draft' \in Drafts /\ draft'.media = draft.media /\ (o = "entered" => draft'.caption = "job")
    BY <1>2, <1>5, EntryLeaves
  <2>2. Tidy
    BY <1>2, <2>1 DEF Tidy
  <2>3. CASE o = "entered"
    <3>1. Continue([task EXCEPT !.captioned = TRUE]) /\ Composed([task EXCEPT !.captioned = TRUE])
      BY <1>2, <1>5, <2>3, ComposedStages
    <3>2. draft'.caption = Wanted
      BY <2>1, <2>3, Types DEF IInv, Jobs, Wanted, Drafts
    <3> QED BY <1>2, <2>1, <2>2, <2>3, <3>1, <3>2, WorkGoes
  <2>4. CASE o # "entered"
    BY <1>2, <1>5, <2>2, <2>4, WorkStops
  <2> QED BY <2>3, <2>4
<1> QED BY <1>3, <1>4, <1>5 DEF EnterReelCaption

LEMMA CaptionSteps == ASSUME IInv, IsReel, EarlyCaption \/ EnterCaption PROVE Good
<1>1. PICK n \in {5, 7} : InStep(n) /\ n < ClickStep /\ UNCHANGED <<fb, page, world, job, v>>
                          /\ IF n = 5 THEN EarlyCaption ELSE EnterCaption
  <2>1. 5 < ClickStep /\ 7 < ClickStep
    BY DEF ClickStep
  <2>2. EarlyCaption => InStep(5) /\ UNCHANGED <<fb, page, world, job, v>>
    BY DEF EarlyCaption
  <2>3. EnterCaption => InStep(7) /\ UNCHANGED <<fb, page, world, job, v>>
    BY DEF EnterCaption
  <2>4. CASE EarlyCaption
    <3> WITNESS 5 \in {5, 7}
    <3> QED BY <2>1, <2>2, <2>4
  <2>5. CASE EnterCaption
    <3> WITNESS 7 \in {5, 7}
    <3> QED BY <2>1, <2>3, <2>5
  <2> QED BY <2>4, <2>5
<1> DEFINE enters == EnterReelCaption(n = 5)
<1>2. CASE enters /\ job.caption
  BY <1>1, <1>2, CaptionGoes
<1>3. CASE Continue(task) /\ UNCHANGED draft /\ (n = 7 => CaptionDone(task))
  <2>1. Tidy /\ step' = n + 1 /\ draft' = draft
    BY <1>1, <1>3, Begun DEF Tidy, Continue
  <2>2. n = 7 => draft.caption = Wanted
    <3>1. task.captioned \/ ~job.caption => draft.caption = Wanted
      BY <1>1, Begun, Types DEF IInv, Jobs, Wanted, Drafts, Tasks
    <3> QED BY <1>3, <3>1 DEF CaptionDone
  <2> QED BY <1>1, <1>3, <2>1, <2>2, Begun, WorkGoes
<1> HIDE DEF enters
<1>4. \/ enters /\ job.caption
      \/ Continue(task) /\ UNCHANGED draft /\ (n = 7 => CaptionDone(task))
  <2>1. CASE n = 5
    <3>1. EarlyCaption /\ (n = 5) = TRUE
      BY <1>1, <2>1
    <3>2. \/ job.caption /\ EnterReelCaption(TRUE)
          \/ Continue(task) /\ UNCHANGED draft
      BY <3>1 DEF EarlyCaption
    <3>3. EnterReelCaption(TRUE) => enters
      BY <3>1 DEF enters, EnterReelCaption
    <3>4. n # 7
      BY <2>1
    <3> QED BY <3>2, <3>3, <3>4
  <2>2. CASE n = 7
    <3>1. EnterCaption /\ (n = 5) = FALSE
      BY <1>1, <2>2
    <3>2. \/ job.caption /\ EnterReelCaption(FALSE)
          \/ Continue(task) /\ UNCHANGED draft /\ CaptionDone(task)
      BY <3>1 DEF EnterCaption, CaptionDone
    <3>3. EnterReelCaption(FALSE) => enters
      BY <3>1 DEF enters, EnterReelCaption
    <3> QED BY <3>2, <3>3
  <2> QED BY <2>1, <2>2
<1> QED BY <1>2, <1>3, <1>4

LEMMA NextStep == ASSUME IInv, IsReel, NextSteps \/ WaitPublishReady PROVE Good
<1>1. CASE NextSteps
  <2>1. InStep(6) /\ 6 < ClickStep /\ UNCHANGED <<fb, draft, world, job, v>>
    BY <1>1 DEF NextSteps, ClickStep
  <2>2. /\ (Continue(task) \/ Stop(Fail(task)))
        /\ page' = page \/ page' \in {"edit", "share", "final"}
    BY <1>1 DEF NextSteps, Transition, AfterNext
  <2>3. Tidy
    BY <2>1, <2>2, Begun DEF Tidy, Pages
  <2>4. CASE Stop(Fail(task))
    BY <2>1, <2>3, <2>4, Begun, WorkStops
  <2>5. CASE Continue(task)
    <3>1. step' = 7
      BY <2>1, <2>5 DEF InStep, Continue
    <3> QED BY <2>1, <2>3, <2>5, <3>1, Begun, WorkGoes
  <2> QED BY <2>2, <2>4, <2>5
<1>2. CASE WaitPublishReady
  <2>1. InStep(8) /\ 8 < ClickStep /\ UNCHANGED <<fb, draft, world, job, v>>
    BY <1>2 DEF WaitPublishReady, ClickStep
  <2>2. (Continue(task) \/ Stop(Fail(task))) /\ page' = page
    BY <1>2 DEF WaitPublishReady, WaitForTarget
  <2>3. Tidy
    BY <2>1, <2>2, Begun DEF Tidy
  <2>4. CASE Stop(Fail(task))
    BY <2>1, <2>3, <2>4, Begun, WorkStops
  <2>5. CASE Continue(task)
    <3>1. step' = 9
      BY <2>1, <2>5 DEF InStep, Continue
    <3> QED BY <2>1, <2>3, <2>5, <3>1, Begun, WorkGoes
  <2> QED BY <2>2, <2>4, <2>5
<1> QED BY <1>1, <1>2

-----------------------------------------------------------------------------
(* The steps of a post *)

LEMMA OpenComposerStep == ASSUME IInv, ~IsReel, OpenComposer PROVE Good
<1> DEFINE t == InStage(task, "composing")
<1>1. InStep(2) /\ 2 < ClickStep /\ UNCHANGED <<fb, draft, world, job, v>>
  BY DEF OpenComposer, ClickStep
<1>2. CASE Stop(Fail(t)) /\ UNCHANGED page
  BY <1>1, <1>2, Begun, WorkStops DEF Tidy
<1>3. CASE Continue(t) /\ page' \in {"chooser", "create"}
  <2>1. Tidy /\ step' = 3 /\ at = "publish" /\ step < ClickStep /\ Composed(task) /\ (task.captioned => draft'.caption = "job")
    BY <1>1, <1>3, Begun DEF Tidy, Pages, InStep, Continue
  <2>2. Composed(t) /\ t.captioned = task.captioned
    BY <2>1, ComposedStages
  <2> QED BY <1>3, <2>1, <2>2, WorkGoes
<1> QED BY <1>2, <1>3 DEF OpenComposer

LEMMA AttachPostStep == ASSUME IInv, ~IsReel, AttachPostMedia PROVE Good
<1>1. InStep(3) /\ 3 < ClickStep /\ UNCHANGED <<fb, world, job, v>>
  BY DEF AttachPostMedia, ClickStep
<1>2. /\ at = "publish" /\ step = 3 /\ Composed(task) /\ step < ClickStep /\ (task.captioned => draft.caption = "job")
      /\ draft \in Drafts /\ page \in Pages
      /\ (~job.caption => draft.caption = fb.left) /\ (draft.media => job.kind # "text")
      /\ job.kind \in {"image", "text"} /\ (HasMedia <=> job.kind = "image")
  BY <1>1, Begun, Types DEF IInv, IsReel, Jobs, HasMedia
<1>3. CASE Stop(Fail(task)) /\ page' \in {page, "profile"} /\ UNCHANGED draft
  <2>1. Tidy
    BY <1>1, <1>2, <1>3 DEF Tidy, Pages
  <2> QED BY <1>2, <1>3, <2>1, WorkStops
<1>4. CASE HasMedia /\ Stay(task) /\ page' = "create" /\ draft' = [draft EXCEPT !.media = TRUE]
  <2>1. draft' \in Drafts /\ draft'.caption = draft.caption /\ step' = 3
    BY <1>2, <1>4 DEF Drafts, Stay
  <2>2. Tidy
    BY <1>1, <1>2, <1>4, <2>1 DEF Tidy, Pages
  <2> QED BY <1>2, <1>4, <2>1, <2>2, WorkGoes
<1>5. CASE Continue(task) /\ UNCHANGED <<page, draft>> /\ (HasMedia => draft.media)
  <2>1. Tidy /\ step' = 4
    BY <1>1, <1>2, <1>5 DEF Tidy, Continue
  <2>2. draft.media = (job.kind = "image")
    BY <1>2, <1>5 DEF Drafts
  <2> QED BY <1>2, <1>5, <2>1, <2>2, WorkGoes
<1> QED BY <1>3, <1>4, <1>5 DEF AttachPostMedia, MediaReady

LEMMA PostCaptionStep == ASSUME IInv, ~IsReel, EnterPostCaption PROVE Good
<1>1. InStep(4) /\ 4 < ClickStep /\ UNCHANGED <<fb, page, world, job, v>>
  BY DEF EnterPostCaption, ClickStep
<1>2. /\ at = "publish" /\ step = 4 /\ Composed(task) /\ step < ClickStep /\ (task.captioned => draft.caption = "job")
      /\ draft \in Drafts /\ page \in Pages /\ draft.media = (job.kind = "image") /\ job.caption \in BOOLEAN
      /\ (~job.caption => draft.caption = fb.left) /\ (draft.media => job.kind # "text")
  BY <1>1, Begun, Types DEF IInv, Jobs
<1>3. CASE UNCHANGED draft /\ Stop(Fail(task))
  BY <1>1, <1>2, <1>3, WorkStops DEF Tidy
<1>4. CASE UNCHANGED draft /\ ~job.caption /\ Continue(task)
  <2>1. Tidy /\ step' = 5 /\ draft.caption = Wanted
    BY <1>1, <1>2, <1>4 DEF Wanted, Tidy, Continue, Drafts
  <2> QED BY <1>2, <1>4, <2>1, WorkGoes
<1>5. ASSUME NEW o \in {"entered", "verification_failed"}, job.caption, draft' \in DraftAfter(o),
             IF o # "entered" THEN Stop(NeedsReview(task)) ELSE Continue([task EXCEPT !.captioned = TRUE])
      PROVE  Good
  <2>1. draft' \in Drafts /\ draft'.media = draft.media /\ (o = "entered" => draft'.caption = Wanted)
    BY <1>2, <1>5, EntryLeaves DEF Drafts, Wanted
  <2>2. Tidy
    BY <1>1, <1>2, <1>5, <2>1 DEF Tidy
  <2>3. CASE o = "entered"
    <3> DEFINE t == [task EXCEPT !.captioned = TRUE]
    <3>1. Continue(t) /\ Composed(t)
      BY <1>2, <1>5, <2>3, ComposedStages
    <3> HIDE DEF t
    <3>2. step' = 5
      BY <1>2, <3>1 DEF Continue
    <3> QED BY <1>2, <1>5, <2>1, <2>2, <2>3, <3>1, <3>2, WorkGoes DEF Wanted
  <2>4. CASE o # "entered"
    BY <1>2, <1>5, <2>2, <2>4, WorkStops
  <2> QED BY <2>3, <2>4
<1> QED BY <1>2, <1>3, <1>4, <1>5 DEF EnterPostCaption

LEMMA PostReviewStep == ASSUME IInv, ~IsReel, Review \/ SelectTemplate \/ ReviewNext PROVE Good
<1>1. PICK n \in {5, 6, 7} : InStep(n)
  BY DEF Review, SelectTemplate, ReviewNext
<1>2. n < ClickStep /\ n \in 0..8
  BY DEF ClickStep
<1>3. /\ at = "publish" /\ step = n /\ Composed(task) /\ step < ClickStep /\ (task.captioned => draft.caption = "job")
      /\ draft \in Drafts /\ page \in Pages /\ draft.media = (job.kind = "image") /\ draft.caption = Wanted
      /\ (draft.media => job.kind # "text")
  BY <1>1, <1>2, Begun
<1>4. Tidy /\ draft' = draft
  <2>1. UNCHANGED <<fb, draft, world, job, v>> /\ page' \in {page, "settings"}
    BY DEF Review, SelectTemplate, ReviewNext, fbVars
  <2> QED BY <1>3, <2>1 DEF Tidy, Pages, Wanted
<1>5. ASSUME NEW t, Composed(t), t.captioned = task.captioned, Continue(t) PROVE Good
  BY <1>3, <1>4, <1>5, WorkGoes
<1>6. CASE Stop(Fail(task)) \/ Stop(NeedsReview(task))
  BY <1>3, <1>4, <1>6, WorkStops
<1>7. CASE Continue(task)
  BY <1>3, <1>5, <1>7
<1>8. ASSUME NEW x \in {"none", "t1", "t2", "t3", "p1", "p2"}, Continue([task EXCEPT !.template = x]) PROVE Good
  BY <1>3, <1>5, <1>8, ComposedStages
<1> QED BY <1>6, <1>7, <1>8 DEF Review, SelectTemplate, ReviewNext

-----------------------------------------------------------------------------
(* The gate and the click *)

LEMMA PlainStop ==
  ASSUME IInv, at = "publish", UNCHANGED <<fbVars, job, v>>, NEW t \in Tasks, t.gate = task.gate, t.clicked = task.clicked,
         Stop(Fail(t)) \/ Stop(NeedsReview(t)) \/ Stop(Uncertain(t)) \/ Stop(FailedAfterPublish(t))
  PROVE  Good
<1>1. PICK e : Ending(e) /\ Stop(e)
  BY Endings
<1>2. /\ draft' \in Drafts /\ page' \in Pages /\ v' \in Clocks
      /\ ~job.caption => draft'.caption = fb.left
      /\ draft'.media => job.kind # "text"
      /\ page' = "confirmed" \/ (page' = "closed" /\ ~IsReel) \/ v'.result = "published" => Live
  BY Now DEF fbVars
<1>3. e \in Tasks /\ UNCHANGED <<fb, world, job>>
  BY <1>1 DEF Ending, fbVars
<1> QED BY <1>1, <1>2, <1>3, StopGoes

\* At the gate: before it, or between it and the click.
LEMMA GateGoes ==
  ASSUME IInv, at = "publish", UNCHANGED <<fbVars, job, at, step, ctx, v>>, task' \in Tasks, task'.status = "running",
         task'.captioned = task.captioned, ~Clicked, Composing' \/ Clicking'
  PROVE  IInv'
<1>1. TypeOK'
  BY Types, TypesNext DEF IInv, fbVars
<1>2. PagesFit' /\ DraftFits' /\ CommentFits'
  BY DEF IInv, PagesFit, DraftFits, DraftComplete, ComposedFor, Wanted, CommentFits, fbVars, Live, Clicked, IsReel
<1>3. PlaceFits'
  BY Now DEF PlaceFits
<1>4. StatusesFit'
  BY DEF IInv, StatusesFit, StatusFits, fbVars, Clicked, OursOrRecent, Live, IsReel, PhaseDone
<1> QED BY <1>1, <1>2, <1>3, <1>4 DEF IInv

LEMMA AtTheGate ==
  ASSUME IInv, InStep(ClickStep)
  PROVE  /\ at = "publish" /\ task \in Tasks /\ task.status = "running" /\ ~Clicked /\ world.clicks = 0
         /\ task.stage \in {"preparing", "composing", "ready_to_publish"} => Composing /\ task.gate = FALSE /\ task.clicked = FALSE
         /\ task.stage \in {"publish_authorized", "publish_clicked"} => Clicking /\ task.gate = TRUE
<1>1. at = "publish" /\ step = ClickStep /\ task \in Tasks /\ (Composing \/ Clicking)
  BY Now DEF InStep, IInv, PlaceFits, Verifying, ClickStep
<1>2. task.status = "running" /\ ~Clicked
  BY <1>1 DEF IInv, PlaceFits, StatusesFit, Composing, Clicking
<1> QED BY <1>1, <1>2 DEF Composing, Clicking, Tasks, IInv, PagesFit, Clicked

LEMMA ReadyStep == ASSUME IInv, ReadyToPublish(ClickStep) PROVE Good
<1>1. /\ InStep(ClickStep) /\ task.stage = "composing" /\ task' = InStage(task, "ready_to_publish")
      /\ UNCHANGED <<fbVars, job, at, step, ctx, v>>
  BY DEF ReadyToPublish, Stay
<1>2. Composing /\ task \in Tasks /\ ~Clicked /\ task.status = "running" /\ at = "publish" /\ task.gate = FALSE
  BY <1>1, AtTheGate
<1>3. /\ task' \in Tasks /\ task'.status = "running" /\ task'.captioned = task.captioned /\ task'.stage = "ready_to_publish"
      /\ task'.gate = task.gate /\ task'.clicked = task.clicked
  <2>1. "ready_to_publish" \in Stages
    BY DEF Stages
  <2> QED BY <1>1, <1>2, <2>1 DEF InStage, Tasks
<1>4. Composing'
  BY <1>1, <1>2, <1>3 DEF Composing, ClickStep, IsReel
<1> QED BY <1>1, <1>2, <1>3, <1>4, GateGoes DEF Good, Quiet, fbVars

LEMMA AuthorizeStep == ASSUME IInv, Authorize(ClickStep) PROVE Good
<1>1. InStep(ClickStep) /\ task.stage = "ready_to_publish" /\ UNCHANGED <<fbVars, job, v>>
  BY DEF Authorize
<1>2. Composing /\ task \in Tasks /\ ~Clicked /\ task.status = "running" /\ at = "publish" /\ task.gate = FALSE /\ task.clicked = FALSE
  BY <1>1, AtTheGate
<1>3. CASE Stop(Fail(task))
  BY <1>1, <1>2, <1>3, PlainStop
<1>4. CASE GateOpens /\ Stay([task EXCEPT !.gate = TRUE, !.stage = "publish_authorized"])
  <2>1. task' = [task EXCEPT !.gate = TRUE, !.stage = "publish_authorized"] /\ UNCHANGED <<at, step, ctx>>
    BY <1>4 DEF Stay
  <2>2. /\ task' \in Tasks /\ task'.status = "running" /\ task'.captioned = task.captioned
        /\ task'.stage = "publish_authorized" /\ task'.gate = TRUE /\ task'.clicked = FALSE
    <3>1. "publish_authorized" \in Stages
      BY DEF Stages
    <3> QED BY <1>2, <2>1, <3>1 DEF Tasks
  <2>3. page \in GatePages /\ (IsReel => draft.media)
    BY <1>4 DEF GateOpens, CanPost, ReelPublishGate, PostEnabled, GatePages, IsReel
  <2>4. Clicking'
    BY <1>1, <1>2, <2>1, <2>2, <2>3 DEF Clicking, InStep, ClickStep, GatePages, Clicked, IsReel, fbVars
  <2>5. Announcing
    BY <1>1, <1>2, <2>1, <2>2 DEF Announcing, fbVars
  <2> QED BY <1>1, <1>2, <2>1, <2>2, <2>4, <2>5, GateGoes DEF Good
<1> QED BY <1>3, <1>4 DEF Authorize, Sees

LEMMA AnnounceStep == ASSUME IInv, Announce(ClickStep) PROVE Good
<1>1. /\ InStep(ClickStep) /\ task.stage = "publish_authorized"
      /\ task' = [task EXCEPT !.clicked = TRUE, !.stage = "publish_clicked"]
      /\ UNCHANGED <<fbVars, job, at, step, ctx, v>>
  BY DEF Announce, Stay
<1>2. Clicking /\ task \in Tasks /\ ~Clicked /\ task.status = "running" /\ at = "publish" /\ task.gate = TRUE
  BY <1>1, AtTheGate
<1>3. /\ task' \in Tasks /\ task'.status = "running" /\ task'.captioned = task.captioned /\ task'.gate = task.gate
      /\ task'.stage = "publish_clicked" /\ task'.clicked = TRUE
  <2>1. "publish_clicked" \in Stages
    BY DEF Stages
  <2> QED BY <1>1, <1>2, <2>1 DEF Tasks
<1>4. Clicking'
  BY <1>1, <1>2, <1>3 DEF Clicking, ClickStep, GatePages, Clicked, IsReel, fbVars
<1> QED BY <1>1, <1>2, <1>3, <1>4, GateGoes DEF Good, Quiet, fbVars

\* The draft that goes out is the one of the job.
LEMMA ComposedNow == ASSUME IInv, InStep(ClickStep), Clicking PROVE draft = ComposedFor
<1>1. draft \in Drafts /\ job \in Jobs /\ at = "publish" /\ step = ClickStep
  BY Types DEF IInv, InStep
<1>2. CASE IsReel
  <2>1. draft.caption = Wanted /\ draft.media = TRUE /\ job.kind # "text"
    BY <1>1, <1>2 DEF IInv, DraftFits, ClickStep, Clicking, IsReel, Drafts
  <2> QED BY <1>1, <2>1 DEF ComposedFor, Wanted, Drafts
<1>3. CASE ~IsReel
  <2>1. draft.caption = Wanted /\ draft.media = (job.kind = "image") /\ job.kind \in {"image", "text"}
    BY <1>1, <1>3 DEF IInv, DraftFits, ClickStep, IsReel, Jobs
  <2> QED BY <1>1, <2>1 DEF ComposedFor, Wanted, Drafts
<1> QED BY <1>2, <1>3

LEMMA ClickingStep == ASSUME IInv, Click(ClickStep) PROVE Good
<1>1. /\ InStep(ClickStep) /\ task.stage = "publish_clicked" /\ UNCHANGED <<fb, draft, job, v, task, at, ctx>>
      /\ step' = step + 1
  BY DEF Click, Continue
<1>2. /\ Clicking /\ task \in Tasks /\ ~Clicked /\ world.clicks = 0 /\ task.status = "running" /\ at = "publish"
      /\ task.gate = TRUE /\ draft = ComposedFor /\ world \in Worlds /\ page \in Pages /\ step = ClickStep /\ step' \in 0..11
  <2>1. /\ Clicking /\ task \in Tasks /\ ~Clicked /\ world.clicks = 0 /\ task.status = "running" /\ at = "publish"
        /\ task.gate = TRUE /\ step = ClickStep
    BY <1>1, AtTheGate DEF InStep
  <2>2. draft = ComposedFor
    BY <1>1, <2>1, ComposedNow
  <2>3. step' \in 0..11
    BY <1>1, <2>1 DEF ClickStep
  <2> QED BY <2>1, <2>2, <2>3, Now
<1>5. /\ ClickStep' = ClickStep /\ ClickStep \in {8, 9} /\ step' = ClickStep + 1 /\ IsReel' = IsReel
      /\ task.stage = "publish_clicked" /\ task.gate /\ task.clicked /\ task' = task
  BY <1>1, <1>2 DEF ClickStep, IsReel, Clicking
<1>3. CASE page \in PublishPages
  <2>1. page' = "busy" /\ world' = [world EXCEPT !.post = "sent", !.clicks = 1, !.sent = draft]
    BY <1>2, <1>3 DEF Click
  <2>2. /\ world' \in Worlds /\ world'.post = "sent" /\ world'.clicks = 1 /\ world'.sent = draft
        /\ world'.ours = world.ours /\ world'.others = world.others
    <3>1. draft \in Drafts /\ 1 \in 0..2
      BY Now
    <3> QED BY <1>2, <2>1, <3>1 DEF Worlds
  <2>3. world.post = "none"
    BY <1>2 DEF IInv, PagesFit
  <2>4. TypeOK'
    BY <1>1, <1>2, <2>1, <2>2, Types, TypesNext DEF IInv, Pages
  <2>5. PagesFit'
    BY <1>1, <2>1, <2>2, <2>3 DEF IInv, PagesFit, Live, IsReel
  <2>6. DraftFits'
    <3>1. ClickStep \in {8, 9} /\ (IsReel <=> ClickStep = 9)
      BY DEF ClickStep
    <3> QED BY <1>1, <1>2, <2>2, <3>1 DEF IInv, DraftFits, DraftComplete, ComposedFor, Wanted, IsReel, ClickStep
  <2>7. Verifying'
    <3>1. Clicked' /\ page' \in PagesAfterClick
      BY <2>1, <2>2 DEF Clicked, PagesAfterClick, AfterClick
    <3> QED BY <1>5, <3>1 DEF Verifying, PagesAfterClick, AfterClick
  <2>8. PlaceFits'
    BY <1>1, <1>2, <2>7, Now DEF PlaceFits
  <2>9. StatusesFit'
    <3>1. task.clicked /\ ctx.reported = "none"
      BY <1>1, <1>2, Now DEF Clicking
    <3> QED BY <1>1, <1>2, <2>2, <3>1 DEF StatusesFit, StatusFits, PhaseDone
  <2>10. CommentFits'
    BY <1>1, <1>2, <2>2 DEF IInv, CommentFits
  <2> QED BY <1>1, <1>2, <2>2, <2>4, <2>5, <2>6, <2>8, <2>9, <2>10 DEF Good, IInv, Sending
<1>4. CASE page \notin PublishPages
  <2>1. UNCHANGED <<page, world>>
    BY <1>4 DEF Click
  <2>2. page = "error"
    BY <1>2, <1>4 DEF Clicking, GatePages, PublishPages
  <2>3. TypeOK'
    BY <1>1, <1>2, <2>1, Types, TypesNext DEF IInv
  <2>4. PagesFit' /\ CommentFits'
    BY <1>1, <2>1 DEF IInv, PagesFit, CommentFits, Live, Clicked, IsReel
  <2>5. DraftFits'
    <3>1. ClickStep \in {8, 9} /\ (IsReel <=> ClickStep = 9)
      BY DEF ClickStep
    <3> QED BY <1>1, <1>2, <2>1, <3>1 DEF IInv, DraftFits, DraftComplete, ComposedFor, Wanted, IsReel, ClickStep
  <2>6. Verifying'
    <3>1. ~Clicked' /\ page' = "error"
      BY <1>2, <2>1, <2>2 DEF Clicked
    <3> QED BY <1>5, <3>1 DEF Verifying
  <2>7. PlaceFits' /\ StatusesFit'
    BY <1>1, <1>2, <2>1, <2>6, Now DEF PlaceFits, StatusesFit, StatusFits, Clicked, OursOrRecent, Live, IsReel, PhaseDone
  <2> QED BY <1>1, <1>2, <2>1, <2>3, <2>4, <2>5, <2>7 DEF Good, IInv, Quiet
<1> QED BY <1>3, <1>4

-----------------------------------------------------------------------------
(* After the click *)

LEMMA VerifyingNow ==
  ASSUME IInv, at = "publish", step > ClickStep \/ task.stage = "verifying"
  PROVE  /\ Verifying /\ task \in Tasks /\ task.status = "running" /\ page \in Pages /\ v \in Clocks
         /\ page = "confirmed" \/ (page = "closed" /\ ~IsReel) \/ v.result = "published" => Live
         /\ page # "error" => Clicked /\ page \in PagesAfterClick
         /\ page = "error" => page \in PagesAfterClick
<1>1. Verifying /\ task.status = "running"
  BY Types DEF IInv, PlaceFits, Composing, Clicking, ClickStep
<1> QED BY <1>1, Now DEF Verifying, PagesAfterClick

LEMMA VerifyGoes ==
  ASSUME IInv, at = "publish", Verifying, UNCHANGED <<fb, draft, world, job, at, ctx>>,
         step' \in 0..11, step' = step \/ step' = step + 1,
         step' # step => Clicked /\ (~IsReel => Live),
         task' \in Tasks, task'.stage \in {"publish_clicked", "verifying"}, task'.status = "running",
         task'.gate = task.gate, task'.clicked = task.clicked, task'.captioned = task.captioned,
         page' \in Pages, page' = page \/ (Clicked /\ page' \in PagesAfterClick), v' \in Clocks,
         page' = "confirmed" \/ (page' = "closed" /\ ~IsReel) \/ v'.result = "published" => Live
  PROVE  Good
<1>1. TypeOK'
  BY Types, TypesNext DEF IInv
<1>2. PagesFit' /\ CommentFits'
  BY DEF IInv, PagesFit, CommentFits, Live, Clicked, IsReel
<1>3. ClickStep \in {8, 9} /\ (IsReel <=> ClickStep = 9) /\ step \in 0..11
  BY Types DEF ClickStep, IInv
<1>4. DraftFits'
  BY <1>3 DEF IInv, DraftFits, DraftComplete, ComposedFor, Wanted, Verifying, IsReel
<1>5. Verifying'
  BY <1>3 DEF Verifying, ClickStep, Clicked, Live, IsReel
<1>6. PlaceFits' /\ StatusesFit'
  BY <1>5, Now DEF PlaceFits, IInv, StatusesFit, StatusFits, Clicked, OursOrRecent, Live, IsReel, PhaseDone
<1> QED BY <1>1, <1>2, <1>4, <1>6 DEF Good, IInv, Quiet

\* A poll that only turns a clock, or settles a prompt or a dialog.
LEMMA ClockGoes ==
  ASSUME IInv, at = "publish", task.stage = "verifying", UNCHANGED <<fb, draft, world, job, at, step, ctx>>,
         task' = task \/ task' = [task EXCEPT !.prompt = "dismissed"],
         page' = page \/ (page # "error" /\ page' \in {"busy", "closed"} /\ (page' = "closed" /\ ~IsReel => Live)),
         v' \in Clocks, v'.result = v.result
  PROVE  Good
<1>1. /\ Verifying /\ task \in Tasks /\ task.status = "running" /\ page \in Pages
      /\ page = "confirmed" \/ (page = "closed" /\ ~IsReel) \/ v.result = "published" => Live
      /\ page # "error" => Clicked
      /\ step \in 0..11
  BY VerifyingNow, Types DEF IInv
<1>2. /\ task' \in Tasks /\ task'.stage = "verifying" /\ task'.status = "running"
      /\ task'.gate = task.gate /\ task'.clicked = task.clicked /\ task'.captioned = task.captioned
  BY <1>1 DEF Tasks
<1>3. /\ page' \in Pages /\ (page' = page \/ (Clicked /\ page' \in PagesAfterClick))
      /\ page' = "confirmed" \/ (page' = "closed" /\ ~IsReel) \/ v'.result = "published" => Live
  BY <1>1 DEF Pages, PagesAfterClick, AfterClick
<1> QED BY <1>1, <1>2, <1>3, VerifyGoes

LEMMA ClockSets ==
  ASSUME v \in Clocks
  PROVE  /\ \A b \in BOOLEAN : [v EXCEPT !.late = b] \in Clocks /\ [v EXCEPT !.late = b].result = v.result
         /\ \A x \in {"off", "on", "over"} : [v EXCEPT !.popup = x] \in Clocks /\ [v EXCEPT !.popup = x].result = v.result
         /\ \A x \in {"unchecked", "holding", "over"} :
              [v EXCEPT !.audio = x] \in Clocks /\ [v EXCEPT !.audio = x].result = v.result
         /\ \A x \in 0..1 : [v EXCEPT !.streak = x] \in Clocks /\ [v EXCEPT !.streak = x].result = v.result
         /\ \A x \in {"published", "profile_fallback"} : [v EXCEPT !.result = x] \in Clocks /\ [v EXCEPT !.result = x].result = x
         /\ FreshClocks \in Clocks /\ FreshClocks.result = v.result
BY DEF Clocks, FreshClocks

LEMMA BeginStep == ASSUME IInv, BeginVerify(ClickStep + 1) PROVE Good
<1>1. /\ at = "publish" /\ step = ClickStep + 1 /\ task' = InStage(task, "verifying")
      /\ UNCHANGED <<fb, page, draft, world, job, at, step, ctx, v>>
  BY DEF BeginVerify, InStep, Stay, fbVars
<1>2. /\ Verifying /\ task \in Tasks /\ task.status = "running" /\ page \in Pages /\ v \in Clocks /\ step \in 0..11
      /\ page = "confirmed" \/ (page = "closed" /\ ~IsReel) \/ v.result = "published" => Live
  <2>1. step > ClickStep
    BY <1>1 DEF ClickStep
  <2> QED BY <1>1, <2>1, VerifyingNow, Types DEF IInv
<1>3. /\ task' \in Tasks /\ task'.stage = "verifying" /\ task'.status = "running"
      /\ task'.gate = task.gate /\ task'.clicked = task.clicked /\ task'.captioned = task.captioned
  <2>1. "verifying" \in Stages
    BY DEF Stages
  <2> QED BY <1>1, <1>2, <2>1 DEF InStage, Tasks
<1> QED BY <1>1, <1>2, <1>3, VerifyGoes

\* The deadlines, and the dialog about a Reel's audio.
LEMMA DeadlineStep ==
  ASSUME IInv, UploadDeadline \/ PopupDeadline \/ AudioPolicyHeld \/ AudioPolicyMissed \/ SaveAudioPolicy
  PROVE  Good
<1>1. v \in Clocks
  BY Now
<1>2. at = "publish" /\ task.stage = "verifying" /\ UNCHANGED <<fb, draft, world, job, at, step, ctx, task>>
  BY DEF UploadDeadline, PopupDeadline, Waiting, AudioPolicyHeld, AudioPolicyMissed, SaveAudioPolicy, Polls, InStep, fbVars
<1>3. v' \in Clocks /\ v'.result = v.result
  BY <1>1, ClockSets DEF UploadDeadline, PopupDeadline, AudioPolicyHeld, AudioPolicyMissed, SaveAudioPolicy
<1>4. page' = page \/ (page # "error" /\ page' = "busy")
  BY DEF UploadDeadline, PopupDeadline, AudioPolicyHeld, AudioPolicyMissed, SaveAudioPolicy, DialogUp, fbVars
<1> QED BY <1>2, <1>3, <1>4, ClockGoes

\* The publish module ends with a publication, seen or awaiting its check.
LEMMA FinishGoes ==
  ASSUME IInv, at = "publish", step > ClickStep + 1, UNCHANGED <<fbVars, job, v>>,
         NEW s \in PhaseDone, Stop(Outcome(task, s)), s = "published" => Live
  PROVE  Good
<1> DEFINE t == Outcome(task, s)
<1>1. Verifying /\ task \in Tasks /\ Clicked
  <2>1. step > ClickStep /\ ClickStep \in {8, 9}
    BY Types DEF ClickStep, IInv
  <2> QED BY <2>1, VerifyingNow DEF Verifying
<1>2. t \in Tasks /\ t.gate = task.gate /\ t.clicked = task.clicked /\ t.status = s
  <2>1. s \in Statuses /\ s \in Stages /\ s # "failed_before_publish"
    BY DEF PhaseDone, Statuses, Stages
  <2>2. t = [task EXCEPT !.status = s, !.stage = s]
    BY <2>1 DEF Outcome, Resolved
  <2> QED BY <1>1, <2>1, <2>2 DEF Tasks
<1> HIDE DEF t
<1>3. /\ task' = t /\ step' = step /\ at' = "prompt"
      /\ ctx' = [[ctx EXCEPT !.attempted = t.clicked] EXCEPT !.phase = s]
  BY <1>2, Order DEF Stop, LeavePublish, Leave, t
<1>4. ctx' \in Contexts /\ ctx'.reported = "none"
  <2>1. s \in Statuses /\ t.clicked \in BOOLEAN /\ ctx \in Contexts /\ ctx.reported = "none"
    BY <1>2, Now DEF PhaseDone, Statuses, Tasks
  <2> QED BY <1>3, <2>1 DEF Contexts
<1>5. StatusFits(s) /\ s # "running"
  BY <1>1 DEF StatusFits, OursOrRecent, PhaseDone
<1>6. /\ draft' \in Drafts /\ page' \in Pages /\ v' \in Clocks
      /\ ~job.caption => draft'.caption = fb.left
      /\ draft'.media => job.kind # "text"
      /\ page' = "confirmed" \/ (page' = "closed" /\ ~IsReel) \/ v'.result = "published" => Live
  BY Now DEF fbVars
<1>7. UNCHANGED <<fb, world, job, step>> /\ at # "over" /\ at' \in Places \ {"startup", "publish"}
  BY <1>3, Order DEF fbVars
<1> QED BY <1>2, <1>3, <1>4, <1>5, <1>6, <1>7, Now, LaterGoes

\* The prompt is settled, or could not be.
LEMMA PromptPolls ==
  ASSUME IInv, at = "publish", task.stage = "verifying", UNCHANGED <<fb, draft, world, job>>, page = "prompt",
         \/ /\ page' \in UnderThePrompt(IsReel) /\ v' \in Clocks /\ v'.result = v.result
            /\ Stay([task EXCEPT !.prompt = "dismissed"])
         \/ UNCHANGED <<page, v>> /\ Stop(FailedAfterPublish([task EXCEPT !.prompt = "failed"]))
  PROVE  Good
<1>1. CASE /\ page' \in UnderThePrompt(IsReel) /\ v' \in Clocks /\ v'.result = v.result
           /\ Stay([task EXCEPT !.prompt = "dismissed"])
  <2>1. page' \in {"busy", "closed"} /\ (page' = "closed" /\ ~IsReel => Live)
    BY <1>1 DEF UnderThePrompt, Live
  <2>2. UNCHANGED <<at, step, ctx>> /\ task' = [task EXCEPT !.prompt = "dismissed"]
    BY <1>1 DEF Stay
  <2> QED BY <1>1, <2>1, <2>2, ClockGoes
<1>2. CASE UNCHANGED <<page, v>> /\ Stop(FailedAfterPublish([task EXCEPT !.prompt = "failed"]))
  <2> DEFINE t == [task EXCEPT !.prompt = "failed"]
  <2>1. t \in Tasks /\ t.gate = task.gate /\ t.clicked = task.clicked
    BY Now DEF Tasks
  <2>2. Stop(FailedAfterPublish(t)) /\ UNCHANGED <<fbVars, job, v>>
    BY <1>2 DEF fbVars
  <2> HIDE DEF t
  <2> QED BY <2>1, <2>2, PlainStop
<1> QED BY <1>1, <1>2

\* The publication is verified, in the popup, in the feed, or left to the profile.
LEMMA VerifiedGoes ==
  ASSUME IInv, at = "publish", step = ClickStep + 1, task.stage = "verifying", UNCHANGED <<fb, page, draft, world, job>>,
         Continue(task), page # "error", ~IsReel => Live,
         NEW r \in {"published", "profile_fallback"}, v' = [v EXCEPT !.result = r], r = "published" => Live
  PROVE  Good
<1>1. /\ Verifying /\ task \in Tasks /\ task.status = "running" /\ page \in Pages /\ v \in Clocks
      /\ page = "confirmed" \/ (page = "closed" /\ ~IsReel) => Live
      /\ Clicked
  BY VerifyingNow
<1>2. v' \in Clocks /\ (v'.result = "published" => Live)
  BY <1>1, ClockSets
<1>3. UNCHANGED <<at, ctx>> /\ task' = task /\ step' = step + 1 /\ step' \in 0..11
  BY DEF Continue, ClickStep
<1> QED BY <1>1, <1>2, <1>3, VerifyGoes

LEMMA ReelVerifySteps == ASSUME IInv, IsReel, VerifyReel \/ FinishReel PROVE Good
<1>1. ClickStep = 9 /\ task \in Tasks /\ v \in Clocks
  BY Now DEF ClickStep
<1>2. CASE FinishReel
  <2> DEFINE s == IF v.result = "published" THEN "published" ELSE "pending_profile_verification"
  <2>1. s \in PhaseDone /\ (s = "published" => Live)
    BY Now DEF PhaseDone
  <2>2. at = "publish" /\ step > ClickStep + 1 /\ Stop(Outcome(task, s)) /\ UNCHANGED <<fbVars, job, v>>
    BY <1>1, <1>2 DEF FinishReel, InStep
  <2> HIDE DEF s
  <2> QED BY <2>1, <2>2, FinishGoes
<1>3. CASE VerifyReel
  <2>1. at = "publish" /\ step = ClickStep + 1 /\ task.stage = "verifying" /\ UNCHANGED <<fb, draft, world, job>>
    <3>1. Polls
      BY <1>3 DEF VerifyReel, PollPrompt, PollError, PollConfirmed, PollTimedOut, PollPopupOver, PollPopupWait
    <3>2. step = 10 /\ ClickStep + 1 = 10
      BY <1>1, <3>1 DEF Polls, InStep
    <3> QED BY <3>1, <3>2 DEF Polls, InStep
  <2>2. CASE PollPrompt
    BY <1>1, <2>1, <2>2, PromptPolls, ClockSets DEF PollPrompt, PromptUp
  <2>3. CASE PollError \/ PollTimedOut
    BY <1>1, <2>1, <2>3, PlainStop DEF PollError, PollTimedOut, fbVars
  <2>4. CASE PollConfirmed
    <3>1. page = "confirmed" /\ Live /\ Continue(task) /\ UNCHANGED page /\ v' = [v EXCEPT !.result = "published"]
      BY <2>4, Now DEF PollConfirmed, Confirmed, Verified
    <3> QED BY <2>1, <3>1, VerifiedGoes
  <2>5. CASE PollPopupOver
    <3>1. page # "error" /\ Continue(task) /\ UNCHANGED page /\ v' = [v EXCEPT !.result = "profile_fallback"]
      BY <2>5 DEF PollPopupOver, FeedReady, Verified
    <3> QED BY <2>1, <3>1, VerifiedGoes
  <2>6. CASE PollPopupWait
    <3>1. UNCHANGED <<page, task, at, step, ctx>> /\ v' \in Clocks /\ v'.result = v.result
      BY <1>1, <2>6, ClockSets DEF PollPopupWait
    <3> QED BY <2>1, <3>1, ClockGoes
  <2> QED BY <1>3, <2>2, <2>3, <2>4, <2>5, <2>6 DEF VerifyReel
<1> QED BY <1>2, <1>3

LEMMA PostVerifySteps == ASSUME IInv, ~IsReel, VerifyPost \/ FinishPost PROVE Good
<1>1. ClickStep = 8 /\ task \in Tasks /\ v \in Clocks
  BY Now DEF ClickStep
<1>2. CASE FinishPost
  <2> DEFINE s == IF HasMedia /\ job.comment THEN "pending_profile_verification" ELSE "published"
  <2>1. s \in PhaseDone
    BY DEF PhaseDone
  <2>2. at = "publish" /\ step = 10 /\ Stop(Outcome(task, s)) /\ UNCHANGED <<fbVars, job, v>>
    BY <1>2 DEF FinishPost, InStep
  <2>3. Live
    <3>1. Verifying
      BY <1>1, <2>2, VerifyingNow
    <3> QED BY <1>1, <2>2, <3>1 DEF Verifying
  <2> HIDE DEF s
  <2> QED BY <1>1, <2>1, <2>2, <2>3, FinishGoes
<1>3. CASE VerifyPost
  <2>1. at = "publish" /\ step = ClickStep + 1 /\ task.stage = "verifying" /\ UNCHANGED <<fb, draft, world, job>>
    <3>1. InStep(9) /\ task.stage = "verifying" /\ UNCHANGED <<fb, draft, world, job>>
      BY <1>3 DEF VerifyPost, PollPostPrompt, PollFeed, PollPostOther, PostUnconfirmed, PollsPost, fbVars
    <3>2. step = 9 /\ ClickStep + 1 = 9
      BY <1>1, <3>1 DEF InStep
    <3> QED BY <3>1, <3>2 DEF InStep
  <2>2. CASE PollPostPrompt
    <3>1. IsReel = FALSE
      BY DEF IsReel
    <3> QED BY <1>1, <2>1, <2>2, <3>1, PromptPolls DEF PollPostPrompt, PromptUp
  <2>3. CASE PollFeed
    <3>1. page = "closed" /\ Live
      <4>1. page # "error" /\ page \in {"profile", "closed"}
        BY <2>3 DEF PollFeed, FeedReady
      <4>2. page \in PagesAfterClick
        BY <2>1, <4>1, VerifyingNow
      <4> QED BY <4>1, <4>2, Now DEF PagesAfterClick, AfterClick
    <3>2. CASE Continue(task) /\ v' = [v EXCEPT !.result = "published"]
      BY <2>1, <2>3, <3>1, <3>2, VerifiedGoes DEF PollFeed
    <3>3. CASE Stay(task) /\ v' = [v EXCEPT !.streak = 1]
      <4>1. UNCHANGED <<page, task, at, step, ctx>> /\ v' \in Clocks /\ v'.result = v.result
        BY <1>1, <2>3, <3>3, ClockSets DEF PollFeed, Stay
      <4> QED BY <2>1, <4>1, ClockGoes
    <3> QED BY <2>3, <3>2, <3>3 DEF PollFeed
  <2>4. CASE (Stop(Fail(task)) \/ Stop(Uncertain(task))) /\ UNCHANGED <<page, v>>
    BY <1>1, <2>1, <2>4, PlainStop DEF fbVars
  <2>5. CASE UNCHANGED page /\ Stay(task) /\ v' = [v EXCEPT !.streak = 0]
    <3>1. UNCHANGED <<page, task, at, step, ctx>> /\ v' \in Clocks /\ v'.result = v.result
      BY <1>1, <2>5, ClockSets DEF Stay
    <3> QED BY <2>1, <3>1, ClockGoes
  <2> QED BY <1>3, <2>2, <2>3, <2>4, <2>5 DEF VerifyPost, PollPostOther, PostUnconfirmed, fbVars
<1> QED BY <1>2, <1>3

\* A second Post that is not found, or only proposed.
LEMMA LocateStep == ASSUME IInv, ~IsReel, LocatePost PROVE Good
BY Now, PlainStop DEF LocatePost, InStep

-----------------------------------------------------------------------------
(* The invariant *)

LEMMA InitIInv == Init => IInv
<1> SUFFICES ASSUME Init PROVE IInv
  OBVIOUS
<1>1. /\ fb \in Accounts /\ page = fb.start /\ draft = [media |-> FALSE, caption |-> fb.left]
      /\ world = [post |-> "none", clicks |-> 0, sent |-> draft, ours |-> 0, others |-> 0]
      /\ job \in Jobs /\ at = "startup" /\ step = 0
      /\ task = [stage |-> "preparing", gate |-> FALSE, clicked |-> FALSE, status |-> "running",
                 template |-> "none", captioned |-> FALSE, prompt |-> "not_checked",
                 seen |-> FALSE, record |-> "none"]
      /\ ctx = [attempted |-> FALSE, phase |-> "none", stopped |-> "no", reported |-> "none"]
      /\ v = [late |-> FALSE, popup |-> "off", audio |-> "unchecked", streak |-> 0, tries |-> 0, result |-> "none"]
  BY DEF Init, FacebookInit, TaskInit
<1>2. page \in Pages /\ page \notin {"closed", "confirmed"}
  BY <1>1 DEF Accounts, Pages
<1>3. /\ draft \in Drafts /\ world \in Worlds /\ task \in Tasks /\ ctx \in Contexts /\ v \in Clocks /\ at \in Places
  BY <1>1, Order DEF Drafts, Captions, Worlds, Tasks, Contexts, Clocks, Stages, Statuses, Accounts
<1>4. TypeOK
  BY <1>1, <1>2, <1>3, Types
<1> QED BY <1>1, <1>2, <1>4 DEF IInv, PagesFit, DraftFits, DraftComplete, ComposedFor, Wanted, PlaceFits, StatusesFit, StatusFits, CommentFits, Clicked,
           PhaseDone

\* Every step keeps the invariant, and is quiet, announces the click or sends it.
LEMMA StepGood == IInv /\ [Next]_vars => Good
<1> SUFFICES ASSUME IInv, [Next]_vars PROVE Good
  OBVIOUS
<1>1. CASE UNCHANGED vars
  BY <1>1 DEF vars, Good, Quiet, IInv, TypeOK, FacebookTypeOK, TaskTypeOK, PagesFit, DraftFits, DraftComplete, ComposedFor, Wanted, PlaceFits,
     StatusesFit, StatusFits, CommentFits, Composing, Clicking, Verifying, Clicked, Live, OursOrRecent, IsReel,
     ClickStep, GatePages
<1>2. CASE Startup \/ StartPublish \/ PromptModule \/ VerifierModule \/ CommentModule \/ Linger \/ Finalize \/ Report
  BY <1>2, StartupStep, StartSteps, PromptStep, VerifierStep, CommentStep, LingerStep, FinalizeStep, ReportStep
<1>3. CASE Raises \/ IntentExists \/ Killed \/ Facebooks
  BY <1>3, ExceptionStep, KilledStep, FacebookStep DEF Raises, IntentExists
<1>4. CASE AudioPolicyHeld \/ AudioPolicyMissed \/ SaveAudioPolicy \/ UploadDeadline \/ PopupDeadline
  BY <1>4, DeadlineStep
<1>5. CASE IsReel /\ ReelNext
  <2>1. ClickStep = 9 /\ ClickStep + 1 = 10
    BY <1>5 DEF ClickStep
  <2>2. CASE Preflight \/ OpenReelEntry \/ DetectEntry \/ AttachMedia \/ ReattachMedia \/ ConfirmMedia
    BY <1>5, <2>2, StartSteps, ReelEntryStep, MediaStep
  <2>3. CASE EarlyCaption \/ NextSteps \/ EnterCaption \/ WaitPublishReady
    BY <1>5, <2>3, CaptionSteps, NextStep
  <2>4. CASE PublishReel \/ BeginVerify(10)
    BY <2>1, <2>4, ReadyStep, AuthorizeStep, AnnounceStep, ClickingStep, BeginStep DEF PublishReel
  <2>5. CASE VerifyReel \/ FinishReel
    BY <1>5, <2>5, ReelVerifySteps
  <2> QED BY <1>5, <2>2, <2>3, <2>4, <2>5 DEF ReelNext
<1>6. CASE ~IsReel /\ PostNext
  <2>1. ClickStep = 8 /\ ClickStep + 1 = 9
    BY <1>6 DEF ClickStep
  <2>2. CASE Preflight \/ OpenComposer \/ AttachPostMedia \/ EnterPostCaption \/ Review \/ SelectTemplate \/ ReviewNext
    BY <1>6, <2>2, StartSteps, OpenComposerStep, AttachPostStep, PostCaptionStep, PostReviewStep
  <2>3. CASE PublishPost \/ BeginVerify(9)
    <3>1. CASE LocatePost
      BY <1>6, <3>1, LocateStep
    <3>2. CASE PostLocated \/ Authorize(8) \/ Announce(8) \/ Click(8) \/ BeginVerify(9)
      BY <2>1, <3>2, ReadyStep, AuthorizeStep, AnnounceStep, ClickingStep, BeginStep DEF PostLocated
    <3> QED BY <2>3, <3>1, <3>2 DEF PublishPost
  <2>4. CASE VerifyPost \/ FinishPost
    BY <1>6, <2>4, PostVerifySteps
  <2> QED BY <1>6, <2>2, <2>3, <2>4 DEF PostNext
<1> QED BY <1>1, <1>2, <1>3, <1>4, <1>5, <1>6 DEF Next, Works, Done

-----------------------------------------------------------------------------
(* Theorems *)

\* IInv is inductive.
THEOREM Inductive == Spec => []IInv
<1>1. Init => IInv
  BY InitIInv
<1>2. IInv /\ [Next]_vars => IInv'
  BY StepGood DEF Good
<1> QED BY <1>1, <1>2, PTL DEF Spec, SpecDialogStays

\* What the browser, the task, the context and the clocks hold is always of its type.
THEOREM TypeCorrect == Spec => []TypeOK
<1>1. IInv => TypeOK
  BY DEF IInv
<1> QED BY <1>1, Inductive, PTL

\* The click publishes the media of the job with its caption, whatever text the composer opened
\* with and whatever entries failed; a job without a caption publishes the text that lay there.
THEOREM OnlyWholeDrafts == Spec => []DraftComplete
<1>1. IInv => DraftComplete
  BY DEF IInv, DraftFits, DraftComplete, ComposedFor, Wanted
<1> QED BY <1>1, Inductive, PTL

\* A run reported as published has its post on Facebook (or, for a Reel, a post of the last
\* minutes); one reported as failed before publishing, or skipped, sent no click.
THEOREM TrueReports == Spec => []ReportIsTrue
<1>1. IInv => ReportIsTrue
  <2> SUFFICES ASSUME IInv PROVE ReportIsTrue
    OBVIOUS
  <2>1. StatusFits(ctx.reported) /\ world.clicks \in {0, 1}
    BY DEF IInv, StatusesFit, PagesFit
  <2> QED BY <2>1 DEF StatusFits, ReportIsTrue, OursOrRecent, Live, Clicked
<1> QED BY <1>1, Inductive, PTL

\* The comment is sent at most once, after a publication, and to another post only where the code
\* does not look again.
THEOREM OneComment == Spec => []CommentOnce
<1>1. IInv => CommentOnce
  BY DEF IInv, CommentFits, CommentOnce, Clicked
<1> QED BY <1>1, Inductive, PTL

-----------------------------------------------------------------------------
(* The promise to the queue *)

\* The verdict that PublishOnce sees.
Kept == IF at # "over" THEN "none" ELSE IF Repeatable THEN "repeatable" ELSE "held"

\* A run starts as PublishOnce does.
LEMMA StartsOnce == Init => Once!Init
BY DEF Init, FacebookInit, TaskInit, Once!Init

\* A quiet step leaves the record and the click alone, and may conclude; the others announce or
\* send the one click.
LEMMA StepOnce == IInv /\ [Next]_vars => [Once!Next]_<<task.gate, world.clicks > 0, Kept>>
<1> SUFFICES ASSUME IInv, [Next]_vars PROVE [Once!Next]_<<task.gate, world.clicks > 0, Kept>>
  OBVIOUS
<1>1. Good /\ task.gate \in BOOLEAN /\ task'.gate \in BOOLEAN
  BY StepGood, Now, Types, TypesNext DEF Good, IInv, Tasks
<1>2. Kept \in {"none", "repeatable", "held"} /\ (Kept = "none" <=> at # "over")
  BY DEF Kept
<1>3. Kept' \in {"none", "repeatable", "held"} /\ (Kept' = "none" <=> at' # "over")
  BY DEF Kept
<1>4. Kept' = "repeatable" => task'.gate = FALSE
  BY <1>1 DEF Kept, Repeatable, Evidence
<1>5. CASE Quiet
  <2>1. CASE at = "over"
    <3>1. UNCHANGED <<task, at, ctx>>
      BY <1>5, <2>1 DEF Quiet
    <3>2. Kept' = Kept
      BY <3>1 DEF Kept, Repeatable, Verdict, Evidence
    <3> QED BY <1>5, <3>1, <3>2 DEF Quiet
  <2>2. CASE at # "over" /\ at' # "over"
    BY <1>2, <1>3, <1>5, <2>2 DEF Quiet
  <2>3. CASE at # "over" /\ at' = "over"
    <3>1. Kept = "none" /\ Kept' \in IF task.gate THEN {"held"} ELSE {"repeatable", "held"}
      BY <1>1, <1>2, <1>3, <1>4, <1>5, <2>3 DEF Quiet
    <3>2. Once!Concludes
      BY <1>5, <2>3, <3>1 DEF Once!Concludes, Quiet, Kept
    <3> QED BY <3>2 DEF Once!Next
  <2> QED BY <2>1, <2>2, <2>3
<1>6. CASE Announcing
  <2>1. at # "over" /\ at' # "over" /\ task.gate = FALSE /\ task'.gate = TRUE /\ world'.clicks = world.clicks
    BY <1>1, <1>6 DEF Announcing
  <2> QED BY <2>1 DEF Once!Next, Once!Announces
<1>7. CASE Sending
  <2>1. at # "over" /\ at' # "over" /\ task.gate = TRUE /\ task'.gate = TRUE /\ ~(world.clicks > 0) /\ world'.clicks > 0
    BY <1>1, <1>7 DEF Sending
  <2> QED BY <2>1 DEF Once!Next, Once!Clicks
<1> QED BY <1>1, <1>5, <1>6, <1>7 DEF Good

\* A run keeps the promise of PublishOnce: one click at most, announced before it is sent, and a
\* verdict that lets the queue repeat the execution only if no click was sent.
THEOREM KeepsItsPromise == Spec => ClicksOnce
<1>1. Init => Once!Init
  BY StartsOnce
<1>2. IInv /\ [Next]_vars => [Once!Next]_<<task.gate, world.clicks > 0, Kept>>
  BY StepOnce
<1>3. Spec => Once!Init /\ [][Once!Next]_<<task.gate, world.clicks > 0, Kept>>
  BY <1>1, <1>2, Inductive, PTL DEF Spec, SpecDialogStays
<1> QED BY <1>3 DEF ClicksOnce, Once!Spec, Kept
=============================================================================
