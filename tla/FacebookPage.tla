----------------------------- MODULE FacebookPage -----------------------------
(***************************************************************************)
(* What a publishing worker has in front of it: the browser's page, the    *)
(* draft in the composer and what Facebook does with it.  Facebook is not  *)
(* part of the repository; it is modelled from how the recognisers in      *)
(* automation/engine and automation/tasks tell its pages apart.            *)
(*                                                                         *)
(* A recogniser reads the page by OCR.  It can miss what is there and does *)
(* not see what is not there: Sees(P) is {TRUE, FALSE} where P holds and   *)
(* {FALSE} elsewhere.                                                      *)
(***************************************************************************)
EXTENDS Naturals

VARIABLES
  fb,     \* the account's layout and history, and the text it kept of an earlier
          \* composer; fixed for the run
  page,   \* what the browser shows
  draft,  \* what the composer holds
  world   \* what Facebook has accepted

fbVars == <<fb, page, draft, world>>

Pages == {"profile", "login", "personal",     \* the session check's answers
          "chooser", "studio", "upload",      \* a Reel's entry and its upload
          "edit", "share", "final",           \* Reel: Next; Share review; direct composer
          "create", "settings",               \* Post: composer; review after Next
          "busy", "prompt", "audio",          \* after the click: uploading, dialogs
          "closed", "confirmed",              \* ... the feed, the success popup
          "error"}

\* The text of a composer: none, the caption of the job, or anything else.
Captions == {"empty", "job", "other"}

Accounts == [
  entry  : {"chooser", "studio"},   \* what the Reel button opens
  layout : {"final", "edit"},       \* Reel: direct composer, or Next and Share; Post: P1, P2
  carries : BOOLEAN,                \* the first chooser's file reaches the composer
  left   : Captions,                \* the text the composer opens with
  recent : BOOLEAN,                 \* the profile already has a post of the last minutes
  start  : {"profile", "login", "personal", "error"}]

PublishPages == {"share", "final", "create", "settings"}
ComposerPages == {"upload", "edit"} \cup PublishPages
AfterClick == {"busy", "prompt", "audio"}

Drafts == [media : BOOLEAN, caption : Captions]   \* media: the file of the job

FacebookTypeOK ==
  /\ fb \in Accounts
  /\ page \in Pages
  /\ draft \in Drafts
  /\ world \in [post : {"none", "sent", "live", "refused"}, clicks : 0..2,
                sent : Drafts, ours : 0..2, others : 0..2]

FacebookInit ==
  /\ fb \in Accounts
  /\ page = fb.start
  /\ draft = [media |-> FALSE, caption |-> fb.left]
  /\ world = [post |-> "none", clicks |-> 0, sent |-> draft, ours |-> 0, others |-> 0]

Sees(P) == IF P THEN BOOLEAN ELSE {FALSE}

-----------------------------------------------------------------------------
(* FacebookStateRecognizer *)

ErrorDialog == page = "error"
\* observe: an enabled Post action of the post composer or of its review
PostEnabled == page = "settings" \/ (page = "create" /\ fb.layout = "final")
\* observe_publication_gate: the marker and an explicit label, or the direct
\* composer with its exact action re-found (_observe_direct_reel_publish_gate)
ReelPublishGate == page \in {"share", "final"}
Confirmed == page = "confirmed"
FeedReady == page \in {"profile", "closed"}
\* composer_has_closed: feed or confirmation evidence and no composer marker
ComposerClosed == FeedReady \/ Confirmed

(* What Facebook does by itself *)

\* An upload is processed: an editing step with Next, or the final composer.
Processed ==
  /\ page = "upload" /\ draft.media
  /\ page' \in {"edit", "final"}
  /\ UNCHANGED <<fb, draft, world>>

ErrorAppears ==
  /\ page \in ComposerPages \cup {"profile", "studio", "busy"}
  /\ page' = "error"
  /\ UNCHANGED <<fb, draft, world>>

Decides ==
  /\ world.post = "sent"
  /\ \E p \in {"live", "refused"} : world' = [world EXCEPT !.post = p]
  /\ UNCHANGED <<fb, page, draft>>

\* The composer of a post closes only on an accepted post; that of a Reel may
\* close without one.  The popup appears only for what is published.
Settles(reel) ==
  /\ page = "busy"
  /\ \/ page' = "prompt"
     \/ reel /\ page' = "audio"
     \/ (reel \/ world.post = "live") /\ page' = "closed"
     \/ world.post = "live" /\ page' = "confirmed"
  /\ UNCHANGED <<fb, draft, world>>

PopupFades ==
  /\ page = "confirmed" /\ page' = "closed"
  /\ UNCHANGED <<fb, draft, world>>

Facebook(reel) == Processed \/ ErrorAppears \/ Decides \/ Settles(reel) \/ PopupFades
=============================================================================
