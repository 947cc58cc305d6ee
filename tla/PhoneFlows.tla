------------------------------ MODULE PhoneFlows ------------------------------
(***************************************************************************)
(* The phone runner: phone_runner.py, job.py and the flows of flows.py,    *)
(* step by step.  A runner is a process of its own.  It prints an event    *)
(* before each tap that cannot be taken back, and its result last.         *)
(*                                                                         *)
(* "job" is the runner a backend job reads, "orphan" one that lost its job *)
(* and goes on: its prints are kept in the pipe, or fail when the backend  *)
(* died.                                                                   *)
(***************************************************************************)
EXTENDS PhoneScreen

CONSTANT Looks   \* looks for the post before its comment is skipped
ASSUME FlowAssumption ==
  /\ Looks \in Nat \ {0} /\ MaxPosts \in Nat \ {0}
  /\ Accounts # {} /\ Owner \notin Accounts

VARIABLE rn

Slots == {"job", "orphan"}
Tasks == {"post", "comment", "visit", "ready"}
PostSteps == {"media", "compose", "caption", "publish", "tap", "confirm", "clean"}
CommentSteps == {"look", "write", "send", "shown", "back"}
Steps == {"none", "open", "feed", "browse", "gallery", "exit"} \cup PostSteps \cup CommentSteps
Results == {"none", "published", "failed", "uncertain", "blocked", "posted", "skipped",
            "unseen", "completed", "ready"}

Runners == [task : Tasks, acct : Accounts, at : Steps, pipe : {"read", "kept", "broken"},
            said : BOOLEAN, tapped : BOOLEAN, looks : 0..Looks, result : Results]
FlowTypeOK ==
  /\ PhoneTypeOK
  /\ rn \in [Slots -> Runners]

Runner(task, a) ==
  [task |-> task, acct |-> a, at |-> "open", pipe |-> "read", said |-> FALSE, tapped |-> FALSE,
   looks |-> 0, result |-> "none"]
Idle == [Runner("post", CHOOSE a \in Accounts : TRUE) EXCEPT !.at = "none"]
FlowInit == PhoneInit /\ rn = [s \in Slots |-> Idle]

At(s, task, step) == rn[s].task = task /\ rn[s].at = step
\* With the backend dead the step's own print raises, and the runner gets no further.
Goes(s, r) == rn' = [rn EXCEPT ![s] = IF rn[s].pipe = "broken" THEN Idle ELSE r]
To(s, step) == Goes(s, [rn[s] EXCEPT !.at = step])
Ends(s, result, step) ==
  Goes(s, [rn[s] EXCEPT !.result = result, !.at = step, !.looks = 0])
Screen == UNCHANGED phoneVars

-----------------------------------------------------------------------------
(* What ends a flow early; Home is pressed on the way out of every job *)

\* The except clauses of run_post, run_comment, run_warming and run_get_ready.
Missed(s) ==
  CASE rn[s].task = "post" -> Ends(s, IF rn[s].tapped THEN "uncertain" ELSE "failed", "clean")
    [] rn[s].task = "comment" -> Ends(s, IF rn[s].at = "shown" THEN "unseen" ELSE "skipped", "exit")
    [] OTHER -> Ends(s, "failed", "exit")
\* A broken stream is no step failure: a comment job reports nothing about its comment.
StreamLost(s) == IF rn[s].task = "comment" THEN Ends(s, "failed", "exit") ELSE Missed(s)
AccountBlocked(s) ==
  Ends(s, IF rn[s].task = "post" /\ rn[s].tapped THEN "uncertain" ELSE "blocked",
       IF rn[s].task = "post" THEN "clean" ELSE "exit")

\* wait_for: one of the texts shows, or the step is missed, or the account is stopped.
Awaiting == {"feed", "browse", "gallery", "compose", "caption", "publish", "look", "write", "shown"}
WaitFails(s) ==
  /\ rn[s].at \in Awaiting /\ Screen
  /\ \/ Missed(s)
     \/ StreamLost(s)
     \/ \E screen \in AccountScreen : screen = "stopped" /\ AccountBlocked(s)
InputFails(s) ==
  /\ rn[s].at \in {"media", "confirm"} /\ Screen
  /\ (Missed(s) \/ StreamLost(s))

\* device.open fails before any flow begins: main prints the failure.
ConnectFails(s) == rn[s].at = "open" /\ Ends(s, "failed", "exit") /\ Screen
Open(s) ==
  /\ rn[s].at = "open" /\ WakeIntoUser(rn[s].acct)
  /\ To(s, IF rn[s].task = "post" THEN "media" ELSE "feed") /\ UNCHANGED fb

-----------------------------------------------------------------------------
(* The feed and warming *)

Save(s) == At(s, "post", "media") /\ PutMedia(rn[s].acct) /\ To(s, "feed") /\ UNCHANGED <<user, misplaced>>

\* discard_until_feed: a half-made post that shows is discarded; Facebook may have put it away.
DiscardUntilFeed(a) ==
  \E shows \in BOOLEAN : fb' = IF shows THEN [fb EXCEPT ![a].draft = "none"] ELSE fb
\* A post warms up first and goes on whatever that meets; a comment opens the profile.
AfterFeed(task) ==
  CASE task = "post" -> "compose" [] task = "comment" -> "look"
    [] task = "visit" -> "browse" [] task = "ready" -> "gallery"
OpenFeed(s) ==
  /\ rn[s].at = "feed" /\ user # Owner /\ DiscardUntilFeed(user)
  /\ To(s, AfterFeed(rn[s].task)) /\ UNCHANGED <<user, misplaced>>
\* A visit reads the feed and the account's own page until its time is up or it is told to stop.
Visit(s) == At(s, "visit", "browse") /\ Ends(s, "completed", "exit") /\ Screen

-----------------------------------------------------------------------------
(* Composing and publishing *)

\* Mutant: the flow goes on with what Facebook offers back.
IgnoresOld(draft, seen, own) == IF draft = "none" THEN own ELSE draft
\* Facebook offers an unfinished post back before it takes a new one's media: the flow discards
\* it first; unseen, the prompt keeps the flow from its own composer.
DiscardOld(draft, seen, own) == IF draft = "none" \/ seen THEN own ELSE "none"
\* The newest item of the gallery on screen is taken for this job's media.
PickMedia(s) ==
  /\ user # Owner /\ UNCHANGED <<user, misplaced>>
  /\ \E seen \in OffersDiscard(user) :
       LET own == IF user = rn[s].acct /\ fb[user].media THEN "ours" ELSE "old"
           picked == DiscardOld(fb[user].draft, seen, own) IN
       picked # "none" /\ fb' = [fb EXCEPT ![user].draft = picked]
  /\ To(s, "caption")
\* start_post: a photo by the gallery; a reel by the + menu, the gallery or Create reel.
StartPost(s) == At(s, "post", "compose") /\ PickMedia(s)
\* write_caption: typed or pasted, then read back where it can be read.  That the field of another
\* caption (other scripts, emoji) is still empty is told by its prompt alone, which is known of
\* three of the four fields, and OCR may miss it.
CaptionAccepted(readable, entered) == readable => entered
Captioned(readable, entered) == IF entered THEN "ready" ELSE IF readable THEN "ours" ELSE "bare"
WriteCaption(s) ==
  /\ At(s, "post", "caption") /\ user # Owner /\ fb[user].draft # "none" /\ UNCHANGED <<user, misplaced>>
  /\ \E readable, entered \in BOOLEAN :
       /\ CaptionAccepted(readable, entered)
       /\ fb' = [fb EXCEPT ![user].draft = IF @ = "ours" THEN Captioned(readable, entered) ELSE "wrong"]
  /\ To(s, "publish")
\* Through the settings to an enabled button.  The event is printed before its tap; a broken pipe
\* stops the runner there.
AboutToPublish(s) ==
  /\ At(s, "post", "publish") /\ rn[s].pipe # "broken" /\ Screen
  /\ rn' = [rn EXCEPT ![s].at = "tap", ![s].said = TRUE]
\* publish returns the tap's time only when the tap itself returned.
TapPublish(s) ==
  /\ At(s, "post", "tap") /\ UNCHANGED user
  /\ \E tap \in Taps : \E touched \in Touched(tap) :
       /\ Share(rn[s].acct, touched)
       /\ IF tap = "done" THEN Goes(s, [rn[s] EXCEPT !.at = "confirm", !.tapped = TRUE]) ELSE Missed(s)
\* wait_published: the composer left, and a photo on the feed as "Just now" or a reel's upload bar
\* gone (or never seen).
PostShows(s) == user # Owner /\ fb[user].draft = "none" /\ TRUE \in PostIsListed(user)
WaitPublished(s) == At(s, "post", "confirm") /\ PostShows(s) /\ Ends(s, "published", "clean") /\ Screen
Unconfirmed(s) == At(s, "post", "confirm") /\ Ends(s, "uncertain", "clean") /\ Screen
\* A failed post's composer is left, and its media removed unless an upload may still need it.
CleanUp(s) ==
  LET a == rn[s].acct IN
  /\ At(s, "post", "clean") /\ To(s, "exit") /\ UNCHANGED <<user, misplaced>>
  /\ \E discards \in BOOLEAN :
       LET left == IF rn[s].result # "uncertain" THEN DeleteMedia(a) ELSE fb IN
       fb' = IF rn[s].result = "failed" /\ discards /\ user = a
             THEN [left EXCEPT ![a].draft = "none"] ELSE left

-----------------------------------------------------------------------------
(* The first comment *)

\* find_and_comment: up to Looks looks, the profile refreshed between them.
ScanProfile(s) ==
  /\ At(s, "comment", "look") /\ user # Owner /\ Screen
  /\ \E found \in PostIsListed(user) :
       IF found THEN To(s, "write")
       ELSE IF rn[s].looks + 1 = Looks THEN Ends(s, "skipped", "exit")
       ELSE Goes(s, [rn[s] EXCEPT !.looks = @ + 1])
\* Written and read back; then the event, and the arrow.
WriteComment(s) ==
  /\ At(s, "comment", "write") /\ rn[s].pipe # "broken" /\ Screen
  /\ rn' = [rn EXCEPT ![s].at = "send", ![s].said = TRUE]
TapSend(s) ==
  /\ At(s, "comment", "send") /\ UNCHANGED user
  /\ \E tap \in Taps : \E touched \in Touched(tap) :
       /\ Send(rn[s].acct, touched)
       /\ CASE tap = "done" -> To(s, "shown") [] tap = "refused" -> Missed(s) [] OTHER -> StreamLost(s)
CommentShown(s) == At(s, "comment", "shown") /\ To(s, "back") /\ Screen
\* Back to the profile: the approval screen may refuse these keys as well.
LeaveSheet(s) ==
  /\ At(s, "comment", "back") /\ Screen
  /\ (Ends(s, "posted", "exit") \/ Missed(s) \/ StreamLost(s))

-----------------------------------------------------------------------------
(* First use, and the end of a runner *)

OpenGallery(s) == At(s, "ready", "gallery") /\ user # Owner /\ Ends(s, "ready", "exit") /\ Screen
\* Every print of a runner whose backend died raises.
BrokenPipe(s) == rn[s].pipe = "broken" /\ rn[s].at # "none" /\ rn' = [rn EXCEPT ![s] = Idle] /\ Screen
OrphanExits == rn["orphan"].at = "exit" /\ rn' = [rn EXCEPT !["orphan"] = Idle] /\ Screen

RunnerStep(s) ==
  \/ ConnectFails(s) \/ Open(s) \/ Save(s) \/ OpenFeed(s) \/ Visit(s)
  \/ StartPost(s) \/ WriteCaption(s) \/ AboutToPublish(s)
  \/ TapPublish(s) \/ WaitPublished(s) \/ Unconfirmed(s) \/ CleanUp(s)
  \/ ScanProfile(s) \/ WriteComment(s) \/ TapSend(s)
  \/ CommentShown(s) \/ LeaveSheet(s) \/ OpenGallery(s)
  \/ WaitFails(s) \/ InputFails(s) \/ BrokenPipe(s)
=============================================================================
