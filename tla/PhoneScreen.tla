----------------------------- MODULE PhoneScreen ------------------------------
(***************************************************************************)
(* One phone as its runner sees and touches it: the Android user on        *)
(* screen, Facebook in each account's user, and device.py's primitives.    *)
(* The phone and Facebook are the environment; screen.py reads them by     *)
(* OCR, which may miss a text but never reads one that is not there.       *)
(***************************************************************************)
EXTENDS Naturals

CONSTANTS
  Accounts,   \* the phone's account users
  Owner,      \* its control user, who holds no account
  MaxPosts    \* bound: posts and comments counted per account

VARIABLES
  user,       \* the Android user on screen
  fb,         \* Facebook in each account's user
  misplaced   \* history: a share or send tap hit something else than its job's own draft

phoneVars == <<user, fb, misplaced>>

\* draft: "ours" holds this job's media, "ready" its caption too, "bare" none where one could not
\* be read; "old" is an earlier job's, "wrong" an earlier job's media under this job's caption.
\* `own` counts the posts made of a draft that held the account's own media.
Drafts == {"none", "old", "ours", "ready", "bare", "wrong"}
Complete == {"ready", "bare"}
Facebooks == [draft : Drafts, posts : 0..MaxPosts, own : 0..MaxPosts, comments : 0..MaxPosts,
              media : BOOLEAN]
PhoneTypeOK ==
  /\ user \in Accounts \cup {Owner} /\ misplaced \in BOOLEAN
  /\ fb \in [Accounts -> Facebooks]
PhoneInit ==
  /\ user = Owner /\ misplaced = FALSE
  /\ fb = [a \in Accounts |-> [draft |-> "none", posts |-> 0, own |-> 0, comments |-> 0, media |-> FALSE]]

Capped(n) == IF n < MaxPosts THEN n + 1 ELSE n

-----------------------------------------------------------------------------
(* Reading *)

\* match and the helpers on it: a text on the screen, or nothing.
Read(shown) == {shown, FALSE}
\* discard_button: the choice of a prompt about a half-made post.
OffersDiscard(a) == Read(fb[a].draft = "old")
\* Ages only order posts: this job's post is the newest once Facebook shows it.
PostIsListed(a) == Read(fb[a].posts > 0)
\* logged_out and checkpoint can show at any screen.
AccountScreen == {"usable", "stopped"}

-----------------------------------------------------------------------------
(* Touching *)

\* "refused": the login approval screen stayed up, nothing was touched.
\* "cut": the stream broke during or after the touch.
Taps == {"done", "refused", "cut"}
Touched(tap) == IF tap = "done" THEN {TRUE} ELSE IF tap = "cut" THEN BOOLEAN ELSE {FALSE}

\* open: the account's user on screen, awake, past a swipe lock.
WakeIntoUser(a) == user' = a /\ UNCHANGED misplaced
PutMedia(a) == fb' = [fb EXCEPT ![a].media = TRUE]
DeleteMedia(a) == [fb EXCEPT ![a].media = FALSE]

Own == {"ours"} \cup Complete
\* The share button, tapped where it was seen: on whichever user is on screen now.
Share(a, touched) ==
  /\ misplaced' = (misplaced \/ (touched /\ ~(user = a /\ fb[a].draft \in Complete)))
  /\ fb' = IF touched /\ user # Owner /\ fb[user].draft \notin {"none", "old"}
           THEN [fb EXCEPT ![user].posts = Capped(@), ![user].draft = "none",
                           ![user].own = IF fb[user].draft \in Own THEN Capped(@) ELSE @]
           ELSE fb
\* The comment's send arrow, likewise.
Send(a, touched) ==
  /\ misplaced' = (misplaced \/ (touched /\ user # a))
  /\ fb' = IF touched /\ user = a THEN [fb EXCEPT ![a].comments = Capped(@)] ELSE fb
=============================================================================
