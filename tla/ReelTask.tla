------------------------------- MODULE ReelTask --------------------------------
(***************************************************************************)
(* automation/tasks/facebook_reel.py: the steps of a Reel publication, one *)
(* action each (STEPS, numbered from 1), and the post-click verification   *)
(* of modules/reel_post_click_verifier.py.                                 *)
(*                                                                         *)
(* t1 is the Studio template, t2 the direct final composer (T2A), t3 the   *)
(* direct Next -> Share -> Post flow (T2B).                                *)
(***************************************************************************)
EXTENDS PublishTask

Direct == fb.entry = "chooser"
TemplateEntry(t) == IF t = "t1" THEN "studio" ELSE "chooser"
UsesShareReview(t) == t = "t3"

(* What the locators find, each anchored to its own surface *)

ReelActionShows == page = "profile"       \* inside the profile's composer card
EntryShows == page \in {"chooser", "studio"}
UploadControlShows == page = "studio"
NextShareShows == page = "edit"           \* Create reel with Uploaded media and Edit
FinalComposerShows == page = "final"      \* a description and a final setting
NextActionShows == page = "edit"
DescriptionShows == page \in {"edit", "final"}
MediaAttached == draft.media
\* T2B accepts only Post, on its Share review.
PublishActionShows ==
  CanPost /\ page = (IF UsesShareReview(task.template) THEN "share" ELSE "final")

\* Where the page goes: Next leads a direct composer to its Share review, and
\* Studio's to the final composer.
ComposerPage == IF fb.layout = "final" THEN "final" ELSE "edit"
AfterNext == {"edit", IF Direct THEN "share" ELSE "final"}

-----------------------------------------------------------------------------

OpenReelEntry ==
  /\ InStep(2)
  /\ WaitForTarget(task, ReelActionShows, fb.entry)
  /\ UNCHANGED <<fb, draft, world, job, v>>

\* Auto: Studio has one template, a direct composer is told apart later.  An
\* assigned template must expect the entry that is seen.
EntryRecognised == job.template = "auto" \/ TemplateEntry(job.template) = page
EntryTemplate ==
  IF job.template # "auto" THEN job.template ELSE IF page = "studio" THEN "t1" ELSE "none"
DetectEntry ==
  /\ InStep(3)
  /\ LET t == InStage(task, "composing") IN
       \/ Stop(Fail(t))
       \/ EntryShows /\ EntryRecognised /\ Continue([t EXCEPT !.template = EntryTemplate])
       \/ EntryShows /\ (EntryRecognised => job.template = "auto") /\ Stop(NeedsReview(t))
  /\ UNCHANGED <<fbVars, job, v>>

\* Studio's upload control opens the chooser; the first chooser of a direct
\* entry may only have started the navigation to the composer.
AttachMedia ==
  /\ InStep(4) /\ (Direct => page = "chooser")
  /\ \/ Stop(Fail(task)) /\ UNCHANGED <<page, draft>>
     \/ /\ page = "chooser" \/ UploadControlShows
        /\ draft' = [draft EXCEPT !.media = ~Direct \/ fb.carries]
        /\ page' = IF Direct THEN ComposerPage ELSE "upload"
        /\ IF Direct THEN Stay(task) ELSE Continue(task)
  /\ UNCHANGED <<fb, world, job, v>>

\* One more chooser if the composer asks again, then visible evidence of the media.
ReattachMedia ==
  /\ InStep(4) /\ Direct /\ ~MediaAttached /\ page \in {"edit", "final"}
  /\ draft' = [draft EXCEPT !.media = TRUE] /\ Stay(task)
  /\ UNCHANGED <<fb, page, world, job, v>>

\* The composer names the template, or confirms the assigned one.
ComposerShows(t) == IF UsesShareReview(t) THEN NextShareShows ELSE FinalComposerShows
AssignedOrAuto(t) == job.template \in {"auto", t}
ConfirmMedia ==
  /\ InStep(4) /\ Direct /\ page # "chooser"
  /\ \/ Stop(Fail(task))
     \/ MediaAttached /\ Stop(NeedsReview(task))
     \/ \E t \in {"t2", "t3"} :
          /\ MediaAttached /\ ComposerShows(t) /\ AssignedOrAuto(t)
          /\ Continue([task EXCEPT !.template = t])
  /\ UNCHANGED <<fbVars, job, v>>

\* _enter_reel_caption: only an entry that was read back counts as entered.
EnterReelCaption(fieldNotFound) ==
  \/ UNCHANGED draft /\ (Stop(Fail(task)) \/ (fieldNotFound /\ Continue(task)))
  \/ /\ DescriptionShows
     /\ \E o \in EntryOutcomes :
          /\ draft' \in DraftAfter(o)
          /\ CASE o = "entered" -> Continue([task EXCEPT !.captioned = TRUE])
               [] o = "review_failed" -> Stop(NeedsReview(task))
               [] OTHER -> Stop(Fail(task))

EarlyCaption ==
  /\ InStep(5)
  /\ IF job.caption /\ Direct THEN EnterReelCaption(TRUE)
     ELSE Continue(task) /\ UNCHANGED draft
  /\ UNCHANGED <<fb, page, world, job, v>>

\* _wait_for_reel_post_upload_transition: the final surface, or a Next to click
\* and a second wait; a second Next that is not found is not an error.
AtPublishSurface == page \in {"share", "final"}
Transition ==
  \/ Stop(Fail(task)) /\ UNCHANGED page
  \/ AtPublishSurface /\ Continue(task) /\ UNCHANGED page
  \/ NextActionShows /\ page' \in AfterNext /\ (Continue(task) \/ Stop(Fail(task)))
NextSteps ==
  /\ InStep(6)
  /\ IF task.template = "t2" THEN Continue(task) /\ UNCHANGED page ELSE Transition
  /\ UNCHANGED <<fb, draft, world, job, v>>

CaptionIgnored(t) == TRUE                                          \* mutant
CaptionDone(t) == t.captioned \/ ~job.caption
EnterCaption ==
  /\ InStep(7)
  /\ IF CaptionDone(task) THEN Continue(task) /\ UNCHANGED draft
     ELSE EnterReelCaption(FALSE)
  /\ UNCHANGED <<fb, page, world, job, v>>

WaitPublishReady ==
  /\ InStep(8)
  /\ WaitForTarget(task, PublishActionShows, page)
  /\ UNCHANGED <<fb, draft, world, job, v>>

PublishReel == ReadyToPublish(9) \/ Authorize(9) \/ Announce(9) \/ Click(9)

-----------------------------------------------------------------------------
(* ReelPostClickVerifier.verify: one action per thing a poll can find *)

Verified(result) == Continue(task) /\ v' = [v EXCEPT !.result = result]
Polls == InStep(10) /\ task.stage = "verifying" /\ UNCHANGED <<fb, world, draft, job>>

\* The prompt is handled before anything else, once, and restarts the clocks.
PollPrompt ==
  /\ Polls /\ PromptUp(task)
  /\ \/ /\ page' \in UnderThePrompt(TRUE) /\ v' = FreshClocks
        /\ Stay([task EXCEPT !.prompt = "dismissed"])
     \/ /\ UNCHANGED <<page, v>>
        /\ Stop(FailedAfterPublish([task EXCEPT !.prompt = "failed"]))

\* _fail: the click was sent, so it resolves to uncertain.
PollError == Polls /\ ErrorDialog /\ Stop(Fail(task)) /\ UNCHANGED <<page, v>>

PollConfirmed == Polls /\ Confirmed /\ Verified("published") /\ UNCHANGED page

\* _handle_remix_audio_dialog: Save is clicked once.  While the dialog is read
\* without an enabled Save, the poll repeats and looks at no deadline.
DialogUp == page = "audio" /\ v.audio # "over"
Holds == DialogUp /\ v.audio = "holding"
AudioPolicyHeld ==
  /\ Polls /\ DialogUp /\ ~v.late /\ v.audio = "unchecked"
  /\ v' = [v EXCEPT !.audio = "holding"]
  /\ UNCHANGED <<page, task, at, step, ctx>>
AudioPolicyMissed ==
  /\ Polls /\ DialogUp /\ v' = [v EXCEPT !.audio = "over"]
  /\ UNCHANGED <<page, task, at, step, ctx>>
SaveAudioPolicy ==
  /\ Polls /\ DialogUp /\ (Holds \/ ~v.late)
  /\ page' = "busy" /\ v' = [v EXCEPT !.audio = "over"]
  /\ UNCHANGED <<task, at, step, ctx>>

\* Past the deadline a composer not seen closed ends the wait, at once or when
\* its upload stops moving.
OnlyWhileBusy ==                                                   \* mutant
  Polls /\ v.late /\ page = "busy" /\ Stop(Uncertain(task)) /\ UNCHANGED <<page, v>>
PollTimedOut ==
  /\ Polls /\ v.late /\ ~Holds
  /\ Stop(Uncertain(task)) /\ UNCHANGED <<page, v>>

PollPopupOver ==
  /\ Polls /\ FeedReady /\ v.popup = "over"
  /\ Verified("profile_fallback") /\ UNCHANGED page

\* The popup's wait starts at the feed and is dropped when the composer is not
\* seen closed.
PollPopupWait ==
  /\ Polls /\ UNCHANGED <<page, task, at, step, ctx>>
  /\ \/ FeedReady /\ v.popup = "off" /\ v' = [v EXCEPT !.popup = "on"]
     \/ ~v.late /\ v.popup # "off" /\ v' = [v EXCEPT !.popup = "off"]

VerifyReel == \/ PollPrompt \/ PollError \/ PollConfirmed
              \/ PollTimedOut \/ PollPopupOver \/ PollPopupWait

\* With the comment deferred, only a seen confirmation is reported as published.
FinishReel ==
  /\ InStep(11)
  /\ Stop(Outcome(task, IF v.result = "published" THEN "published"
                        ELSE "pending_profile_verification"))
  /\ UNCHANGED <<fbVars, job, v>>

ReelNext == \/ Preflight \/ OpenReelEntry \/ DetectEntry \/ AttachMedia
            \/ ReattachMedia \/ ConfirmMedia \/ EarlyCaption \/ NextSteps \/ EnterCaption
            \/ WaitPublishReady \/ PublishReel \/ BeginVerify(10) \/ VerifyReel \/ FinishReel
=============================================================================
