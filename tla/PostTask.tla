------------------------------- MODULE PostTask --------------------------------
(***************************************************************************)
(* automation/tasks/facebook_post.py: the steps of an image or text post,  *)
(* one action each (STEPS, numbered from 1), and its own verification.     *)
(*                                                                         *)
(* P1 has Post in the composer; P2 a Next that leads to a review with Post.*)
(***************************************************************************)
EXTENDS PublishTask

HasMedia == job.kind = "image"
UsesReview(t) == t = "p2"

(* What the locators find *)

ComposerPromptShows == page = "profile"
PhotoActionShows == page = "profile"      \* anchored below the composer's prompt
CaptionFieldShows == page = "create"      \* one of the two known composer layouts
NextShows == page = "create" /\ fb.layout = "edit"
PostShows == CanPost /\ page = "create"
ReviewPostShows == page = "settings"

OpenComposer ==
  /\ InStep(2)
  /\ LET t == InStage(task, "composing") IN
       \/ Stop(Fail(t)) /\ UNCHANGED page
       \/ /\ IF HasMedia THEN PhotoActionShows ELSE ComposerPromptShows
          /\ Continue(t)
          /\ page' = IF HasMedia THEN "chooser" ELSE "create"
  /\ UNCHANGED <<fb, draft, world, job, v>>

\* The chooser closes on the composer, or on the feed when the file is rejected.
\* _wait_until_media_ready: an enabled Next or Post, never the closed chooser alone
MediaReady == page = "create" /\ draft.media
AttachPostMedia ==
  /\ InStep(3)
  /\ IF ~HasMedia THEN Continue(task) /\ UNCHANGED <<page, draft>>
     ELSE \/ Stop(Fail(task)) /\ UNCHANGED <<page, draft>>
          \/ page = "chooser" /\ Stay(task) /\ page' = "create" /\ draft' = [draft EXCEPT !.media = TRUE]
          \/ page = "chooser" /\ Stop(Fail(task)) /\ page' = "profile" /\ UNCHANGED draft
          \/ MediaReady /\ Continue(task) /\ UNCHANGED <<page, draft>>
  /\ UNCHANGED <<fb, world, job, v>>

\* An entry that was not read back stops the task before the review.
EnterPostCaption ==
  /\ InStep(4)
  /\ IF ~job.caption THEN Continue(task) /\ UNCHANGED draft
     ELSE \/ Stop(Fail(task)) /\ UNCHANGED draft
          \/ /\ CaptionFieldShows
             /\ \E o \in {"entered", "verification_failed"} :
                  /\ draft' \in DraftAfter(o)
                  /\ IF o # "entered" THEN Stop(NeedsReview(task))
                     ELSE Continue([task EXCEPT !.captioned = TRUE])
  /\ UNCHANGED <<fb, page, world, job, v>>

Review ==
  /\ InStep(5) /\ (Continue(task) \/ Stop(NeedsReview(task)))
  /\ UNCHANGED <<fbVars, job, v>>

\* _select_post_template: Next selects P2; Post without Next selects P1.
SelectTemplate ==
  /\ InStep(6)
  /\ \/ Stop(NeedsReview(task))
     \/ /\ PostShows
        /\ Continue([task EXCEPT !.template = IF NextShows THEN "p2" ELSE "p1"])
  /\ UNCHANGED <<fbVars, job, v>>

ReviewNext ==
  /\ InStep(7)
  /\ IF ~UsesReview(task.template) THEN Continue(task) /\ UNCHANGED page
     ELSE \/ Stop(Fail(task)) /\ UNCHANGED page
          \/ NextShows /\ page' = "settings" /\ (Stop(Fail(task)) \/ Continue(task))
  /\ UNCHANGED <<fb, draft, world, job, v>>

\* P2 looks for Post again; a merely proposed action goes to a person.
LocatePost ==
  /\ InStep(8) /\ task.stage = "composing"
  /\ UsesReview(task.template) /\ (Stop(Fail(task)) \/ Stop(NeedsReview(task)))
  /\ UNCHANGED <<fbVars, job, v>>

PostLocated ==
  (UsesReview(task.template) => ReviewPostShows) /\ ReadyToPublish(8)
PublishPost == LocatePost \/ PostLocated \/ Authorize(8) \/ Announce(8) \/ Click(8)

-----------------------------------------------------------------------------
(* _verify_publication: one action per thing a poll can find *)

PollsPost == /\ InStep(9) /\ task.stage = "verifying" /\ ~v.late
             /\ UNCHANGED <<fb, world, draft, job>>

PollPostPrompt ==
  /\ PollsPost /\ PromptUp(task) /\ UNCHANGED v
  /\ \/ page' \in UnderThePrompt(FALSE) /\ Stay([task EXCEPT !.prompt = "dismissed"])
     \/ UNCHANGED page /\ Stop(FailedAfterPublish([task EXCEPT !.prompt = "failed"]))

\* Two consecutive observations of a changed feed.
FeedIsStable == v.streak = 1
PollFeed ==
  /\ PollsPost /\ FeedReady /\ UNCHANGED page
  /\ IF FeedIsStable THEN Continue(task) /\ v' = [v EXCEPT !.result = "published"]
     ELSE Stay(task) /\ v' = [v EXCEPT !.streak = 1]

PollPostOther ==
  /\ PollsPost /\ UNCHANGED page
  /\ \/ ErrorDialog /\ Stop(Fail(task)) /\ UNCHANGED v
     \/ v.streak = 1 /\ Stay(task) /\ v' = [v EXCEPT !.streak = 0]

PostUnconfirmed ==
  /\ InStep(9) /\ task.stage = "verifying" /\ v.late /\ Stop(Uncertain(task))
  /\ UNCHANGED <<fbVars, job, v>>

VerifyPost == PollPostPrompt \/ PollFeed \/ PollPostOther \/ PostUnconfirmed

FinishPost ==
  /\ InStep(10)
  /\ Stop(Outcome(task, IF HasMedia /\ job.comment THEN "pending_profile_verification"
                        ELSE "published"))
  /\ UNCHANGED <<fbVars, job, v>>

PostNext == \/ Preflight \/ OpenComposer \/ AttachPostMedia \/ EnterPostCaption \/ Review
            \/ SelectTemplate \/ ReviewNext \/ PublishPost \/ BeginVerify(9)
            \/ VerifyPost \/ FinishPost
=============================================================================
