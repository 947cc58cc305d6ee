------------------------------ MODULE FacebookLive ------------------------------
(***************************************************************************)
(* The outside of a live session: Facebook's Live Producer, the encoder    *)
(* that sends the video (live_encoder.py) and the browser helper process   *)
(* (tasks/facebook_live.py), which runs one action and may be killed       *)
(* between any two of its steps.                                           *)
(***************************************************************************)
EXTENDS Naturals

VARIABLES
  fl,      \* Live Producer: the broadcast, its setup page, an open dialog; counters
  enc,     \* the encoder process in the profile's container
  cued,    \* its control file exists: playback may begin
  helper   \* the browser helper: action, publication clicks sent, result

Actions == {"prepare", "start", "end", "inspect", "comment", "finish"}
Results == {"none", "ok", "live", "ended", "unconfirmed", "end_sent", "failed", "blocked"}

Producer == [air : {"none", "live", "ended"}, setup : {"home", "panel", "entered", "saved"},
             found : BOOLEAN, dialog : {"none", "game", "end"},
             goLives : 0..2, comments : 0..2]
HelperRecord == [do : Actions \cup {"none"}, clicks : 0..2, ret : Results]

FacebookTypeOK ==
  /\ fl \in Producer
  /\ enc \in {"off", "startup", "playback", "complete", "failed"}
  /\ cued \in BOOLEAN
  /\ helper \in HelperRecord

NoHelper == [do |-> "none", clicks |-> 0, ret |-> "none"]
Helping(action) == [NoHelper EXCEPT !.do = action]

FacebookInit ==
  /\ fl = [air |-> "none", setup |-> "home", found |-> FALSE, dialog |-> "none",
           goLives |-> 0, comments |-> 0]
  /\ enc = "off" /\ cued = FALSE /\ helper = NoHelper

-----------------------------------------------------------------------------
(* Facebook *)

\* The relay's one connection is open from its start to the encoder's end.
Ingest == enc \in {"startup", "playback"}

\* Set to start automatically the broadcast goes live on its bytes alone, so Go Live
\* need not have been asked for; it ends at Facebook's own decision.
GoesLive ==
  /\ fl.air = "none" /\ Ingest /\ fl.dialog # "game"
  /\ fl' = [fl EXCEPT !.air = "live"] /\ UNCHANGED <<enc, cued, helper>>
GoesOff ==
  /\ fl.air = "live" /\ fl' = [fl EXCEPT !.air = "ended"] /\ UNCHANGED <<enc, cued, helper>>

-----------------------------------------------------------------------------
(* The encoder: a startup loop until the control file, then the video from its  *)
(* beginning through the same connection                                        *)

StartPlayback == enc = "startup" /\ cued /\ enc' = "playback" /\ UNCHANGED <<fl, cued, helper>>
PlaybackEnds == enc = "playback" /\ enc' = "complete" /\ UNCHANGED <<fl, cued, helper>>
\* startup timeout, a dead sender or relay
EncoderFails == Ingest /\ enc' = "failed" /\ UNCHANGED <<fl, cued, helper>>
\* expire_session: the encoder's own two minutes, whoever still listens
SessionExpires == Ingest /\ enc' = "failed" /\ UNCHANGED <<fl, cued, helper>>

EncoderStep == StartPlayback \/ PlaybackEnds \/ EncoderFails \/ SessionExpires

-----------------------------------------------------------------------------
(* The browser helper *)

Doing(action) == helper.do = action /\ helper.ret = "none"
Answer(r) == helper' = [helper EXCEPT !.ret = r] /\ UNCHANGED <<fl, enc, cued>>
Press(page) ==
  fl' = page /\ helper' = [helper EXCEPT !.clicks = @ + 1] /\ UNCHANGED <<enc, cued>>

\* Any action may run out of time or fail to recognise the page.
EndHasNoDeadline == helper.do \notin {"none", "end"} /\ helper.ret = "none" /\ Answer("failed")  \* mutant
HelperFails == helper.do # "none" /\ helper.ret = "none" /\ Answer("failed")
\* reject_checkpoint before the first click; a restriction dialog also in mid-setup
\* and on an inspected page.
HelperBlocked ==
  /\ helper.do # "none" /\ helper.ret = "none" /\ helper.clicks = 0
  /\ Answer("blocked")

\* prepare: never over a broadcast that is live or over
CanPrepare == fl.air = "none"
OpenSetup ==
  /\ Doing("prepare") /\ CanPrepare /\ fl.setup = "home"
  /\ fl' = [fl EXCEPT !.setup = "panel"] /\ UNCHANGED <<enc, cued, helper>>
EnterDetails ==
  /\ Doing("prepare") /\ CanPrepare /\ fl.setup = "panel"
  /\ fl' = [fl EXCEPT !.setup = "entered"] /\ UNCHANGED <<enc, cued, helper>>
SaveDetails ==
  /\ Doing("prepare") /\ CanPrepare /\ fl.setup = "entered"
  /\ fl' = [fl EXCEPT !.setup = "saved"] /\ UNCHANGED <<enc, cued, helper>>
\* The stream key is copied twice and must agree.
ReadStreamKey == Doing("prepare") /\ CanPrepare /\ fl.setup = "saved" /\ Answer("ok")
Prepare == OpenSetup \/ EnterDetails \/ SaveDetails \/ ReadStreamKey

\* start: one Go Live click, one confirmation of the game dialog
MayGoLive == Ingest /\ fl.air = "none" /\ helper.clicks = 0
ClickGoLive ==
  /\ Doing("start") /\ MayGoLive
  /\ \/ Press([fl EXCEPT !.goLives = @ + 1])
     \/ Press([fl EXCEPT !.dialog = "game", !.goLives = @ + 1])
ConfirmGoLive ==
  /\ Doing("start") /\ helper.clicks = 1 /\ fl.dialog = "game"
  /\ Press([fl EXCEPT !.dialog = "none"])
SeesLive == Doing("start") /\ fl.air = "live" /\ Answer("ok")
Start == ClickGoLive \/ ConfirmGoLive \/ SeesLive

\* end: the End button, then its dialog; Facebook may not take the click.
ClickEnd ==
  /\ Doing("end") /\ helper.clicks = 0 /\ fl.air = "live" /\ fl.dialog # "end"
  /\ Press([fl EXCEPT !.dialog = "end"])
\* With endsEarly the action is over once the confirmation is sent.
ConfirmEnd(endsEarly) ==
  /\ Doing("end") /\ helper.clicks < 2 /\ fl.dialog = "end"
  /\ \E taken \in BOOLEAN :
       fl' = [fl EXCEPT !.dialog = "none", !.air = IF taken THEN "ended" ELSE @]
  /\ helper' = [helper EXCEPT !.clicks = 2, !.ret = IF endsEarly THEN "end_sent" ELSE "none"]
  /\ UNCHANGED <<enc, cued>>
SeesEnded == Doing("end") /\ fl.air = "ended" /\ Answer("ok")
End(endsEarly) == ClickEnd \/ ConfirmEnd(endsEarly) \/ SeesEnded

\* inspect: looks, never clicks
Inspect ==
  /\ Doing("inspect")
  /\ \E seen \in {fl.air, "unconfirmed"} \ {"none"} : Answer(seen)

\* comment: entered, submitted with one Return, then watched; nothing is sent again.
\* Its field is beside the video, or on the profile's first post, if that is recent
\* and so not older than the video.
FindField ==
  /\ Doing("comment") /\ ~fl.found
  /\ fl' = [fl EXCEPT !.found = TRUE] /\ UNCHANGED <<enc, cued, helper>>
FindOnProfile ==
  /\ Doing("comment") /\ ~fl.found /\ fl.air # "none"
  /\ fl' = [fl EXCEPT !.found = TRUE] /\ UNCHANGED <<enc, cued, helper>>
MaySubmit == helper.clicks = 0 /\ fl.found
SubmitComment ==
  Doing("comment") /\ MaySubmit /\ Press([fl EXCEPT !.comments = IF @ < 2 THEN @ + 1 ELSE @])
SeesComment == Doing("comment") /\ helper.clicks > 0 /\ Answer("ok")
Comment == FindField \/ FindOnProfile \/ SubmitComment \/ SeesComment

\* finish: the feed, optional
Finish == Doing("finish") /\ Answer("ok")

HelperStep(endsEarly) ==
  Prepare \/ Start \/ End(endsEarly) \/ Inspect \/ Comment \/ Finish \/ HelperFails \/ HelperBlocked
=============================================================================
