------------------------------ MODULE LiveSession -------------------------------
(***************************************************************************)
(* A live broadcast of one profile from claim to record: live_service.py's *)
(* run_live, its session file, the queue execution it may belong to, the   *)
(* operator's stop, retry and review, and a crash or shutdown anywhere.    *)
(*                                                                         *)
(* `sess` is the session file and survives a crash, `mem` the record in    *)
(* memory.  Every update of the record writes the file and the execution.  *)
(***************************************************************************)
EXTENDS FacebookLive

CONSTANTS
  MaxSessions,   \* bound: sessions begun
  MaxFaults      \* bound: crashes and shutdowns

ASSUME LiveAssumption == MaxSessions \in Nat /\ MaxFaults \in Nat

VARIABLES
  pc,        \* where run_live is
  sess, mem,
  controls,  \* the profile has an entry in CONTROLS
  lock,      \* the destination's file lock
  exe,       \* the queue execution
  begun, faults

liveVars == <<pc, sess, mem, controls, lock, exe, begun, faults>>
vars == <<fl, enc, cued, helper, pc, sess, mem, controls, lock, exe, begun, faults>>

Ends == {"end_early", "end_first", "end", "end_late"}
Main == {"container", "prepare", "launch", "starting", "early_inspect", "end_early",
         "end_first", "comment", "extra", "play", "watch", "end"}
Places == Main \cup {"inspect", "end_late", "judge", "encoder", "stop_container", "record",
                     "off", "down"}

SessionRecord ==
  [owner : {"none", "queue", "direct"}, confirmed : BOOLEAN,
   status : {"idle", "running", "stopped", "completed", "failed", "needs_review", "skipped"},
   stage : {"idle", "preparing", "active", "over", "reviewed"},
   comment : {"none", "attempted", "confirmed", "needs_review"},
   final : {"none", "live", "ended", "unconfirmed"}]
Memory == [wants : BOOLEAN, sent : BOOLEAN, inspected : BOOLEAN, endTried : BOOLEAN,
           endSent : BOOLEAN, endFirst : BOOLEAN, blocked : BOOLEAN, cut : BOOLEAN,
           stop : BOOLEAN]
Execution == [status : {"pending", "running", "completed", "skipped", "needs_review",
                        "uncertain", "failed", "published"},
              stage : {"preparing", "active", "over"}, confirmed : BOOLEAN,
              sent : BOOLEAN, cut : BOOLEAN]

TypeOK ==
  /\ FacebookTypeOK
  /\ pc \in Places /\ controls \in BOOLEAN /\ lock \in {"free", "ours"}
  /\ sess \in SessionRecord /\ mem \in Memory /\ exe \in Execution
  /\ begun \in 0..MaxSessions /\ faults \in 0..MaxFaults

NoMemory == [wants |-> FALSE, sent |-> FALSE, inspected |-> FALSE, endTried |-> FALSE,
             endSent |-> FALSE, endFirst |-> FALSE, blocked |-> FALSE, cut |-> FALSE,
             stop |-> FALSE]
NewSession(owner) ==
  [owner |-> owner, status |-> "running", stage |-> "preparing", confirmed |-> FALSE,
   comment |-> "none", final |-> "none"]

Init ==
  /\ FacebookInit
  /\ pc = "off" /\ controls = FALSE /\ lock = "free" /\ mem = NoMemory
  /\ sess = [NewSession("none") EXCEPT !.status = "idle", !.stage = "idle"]
  /\ exe = [status |-> "pending", stage |-> "preparing", confirmed |-> FALSE,
            sent |-> FALSE, cut |-> FALSE]
  /\ begun = 0 /\ faults = 0

-----------------------------------------------------------------------------
(* The session file *)

\* update and sync_queue: the file first, then the execution it belongs to
Update(s) ==
  /\ sess' = s
  /\ exe' = IF s.owner = "queue"
            THEN [exe EXCEPT !.stage = s.stage, !.confirmed = s.confirmed, !.status = "running"]
            ELSE exe

\* get_status: what an interrupted session reads as
Interrupted(s) == IF s.stage = "preparing" /\ ~s.confirmed THEN "failed" ELSE "needs_review"
SavedStatus ==
  IF ~controls /\ sess.stage \in {"preparing", "active"}
  THEN [sess EXCEPT !.status = Interrupted(sess), !.stage = "over"] ELSE sess
OwnReview == SavedStatus.status = "needs_review" /\ SavedStatus.owner = "queue"

-----------------------------------------------------------------------------
(* Beginning a session *)

\* The profile has no active task and its container no owner left to clean up.
ProfileIsFree == pc = "off" /\ ~controls /\ enc = "off"
Enter(owner) ==
  /\ ProfileIsFree /\ begun < MaxSessions /\ begun' = begun + 1
  /\ pc' = "container" /\ controls' = TRUE
  /\ \E wants \in BOOLEAN : mem' = [NoMemory EXCEPT !.wants = wants]
  /\ sess' = NewSession(owner)
  /\ UNCHANGED <<fl, enc, cued, helper, lock, faults>>

\* start_live: the previous outcome is archived, its slot taken.
StartLive == Enter("direct") /\ UNCHANGED exe
\* execute_queue_live does not run an attempt that needs review again; no retry offers
\* it one, as each tests the same.
ExecuteQueueLive ==
  /\ exe.status = "pending" /\ ~OwnReview /\ Enter("queue")
  /\ exe' = [exe EXCEPT !.status = "running", !.stage = "preparing", !.confirmed = FALSE,
                        !.sent = FALSE, !.cut = FALSE]

-----------------------------------------------------------------------------
(* run_live *)

Goto(place, action) ==
  /\ pc' = place /\ helper' = IF action = "none" THEN NoHelper ELSE Helping(action)
Calm == UNCHANGED <<controls, lock, begun, faults>>
Outside == UNCHANGED <<fl, enc, cued>>

\* The except branch reaps the helper, then looks at the page once.
Raise(m) ==
  /\ mem' = m
  /\ IF pc # "container" /\ ~m.inspected THEN Goto("inspect", "inspect") ELSE Goto("judge", "none")

\* end_broadcast
EndBroadcast(place, m) == mem' = [m EXCEPT !.endTried = TRUE] /\ Goto(place, "end")

Blocked(m) == [m EXCEPT !.blocked = @ \/ helper.ret = "blocked"]
HelperLost == helper.ret \in {"failed", "blocked"}

ContainerReady ==
  /\ pc = "container" /\ Calm /\ UNCHANGED <<sess, exe, enc, cued>>
  /\ IF mem.stop THEN mem' = mem /\ Goto("inspect", "inspect") /\ UNCHANGED fl
     ELSE /\ mem' = mem /\ Goto("prepare", "prepare")
          /\ fl' = [fl EXCEPT !.air = IF @ = "ended" THEN "none" ELSE @]

\* Any await of the main flow may raise.
Raises ==
  /\ pc \in Main \ {"extra"} /\ Raise(Blocked(mem)) /\ Calm /\ Outside /\ UNCHANGED <<sess, exe>>

\* The stream intent is durable before the encoder starts.
StreamIntent ==
  /\ pc = "prepare" /\ helper.ret = "ok" /\ ~mem.stop /\ lock = "free" /\ lock' = "ours"
  /\ Update([sess EXCEPT !.stage = "active"])
  /\ mem' = [mem EXCEPT !.sent = TRUE] /\ Goto("launch", "none")
  /\ UNCHANGED <<controls, begun, faults>> /\ Outside
Launch ==
  /\ pc = "launch" /\ enc' = "startup" /\ cued' = FALSE /\ Goto("starting", "start")
  /\ exe' = [exe EXCEPT !.sent = @ \/ sess.owner = "queue"]
  /\ Calm /\ UNCHANGED <<fl, sess, mem>>

\* Go Live was confirmed: with a comment to make the broadcast ends at once.
StartConfirmed ==
  /\ pc = "starting" /\ helper.ret = "ok" /\ Calm /\ Outside
  /\ Update([sess EXCEPT !.confirmed = TRUE])
  /\ IF mem.wants /\ ~mem.stop
     THEN EndBroadcast("end_first", [mem EXCEPT !.endFirst = TRUE])
     ELSE mem' = mem /\ Goto("play", "none")

\* Stopped, or the encoder is gone, before the confirmation: look, and end what is live.
StartInterrupted ==
  /\ pc = "starting" /\ helper.ret = "none" /\ (mem.stop \/ ~Ingest)
  /\ mem' = [mem EXCEPT !.inspected = TRUE] /\ Goto("early_inspect", "inspect")
  /\ Calm /\ Outside /\ UNCHANGED <<sess, exe>>
EarlyInspected ==
  /\ pc = "early_inspect" /\ helper.ret # "none" /\ Calm /\ Outside
  /\ IF helper.ret = "live"
     THEN /\ Update([sess EXCEPT !.final = "live", !.confirmed = TRUE])
          /\ EndBroadcast("end_early", mem)
     ELSE /\ Update(IF HelperLost THEN sess ELSE [sess EXCEPT !.final = helper.ret])
          /\ mem' = Blocked(mem) /\ Goto("judge", "none")

Finished(s, place) == Update([s EXCEPT !.stage = "over"]) /\ Goto(place, "none") /\ mem' = mem
Ended(s) == [s EXCEPT !.final = "ended"]
StoppedOr(status) == IF mem.stop THEN "stopped" ELSE status

EarlyEnded ==
  /\ pc = "end_early" /\ helper.ret = "ok" /\ Calm /\ Outside
  /\ IF mem.stop \/ enc # "failed"
     THEN Finished([Ended(sess) EXCEPT !.status = StoppedOr("completed")], "encoder")
     ELSE Update(Ended(sess)) /\ mem' = mem /\ Goto("judge", "none")

\* The comment follows a stopped encoder; a stop by then leaves it unsent.
FirstEnded ==
  /\ pc = "end_first" /\ helper.ret \in {"ok", "end_sent"}
  /\ LET s == [sess EXCEPT !.final = IF helper.ret = "ok" THEN "ended" ELSE "unconfirmed"]
         m == [mem EXCEPT !.endSent = helper.ret = "end_sent"]
     IN IF mem.stop THEN Update(s) /\ Raise(m)
        ELSE /\ Update([s EXCEPT !.comment = "attempted"])
             /\ mem' = m /\ Goto("comment", "comment")
  /\ enc' = "off" /\ Calm /\ UNCHANGED <<fl, cued>>
CommentConfirmed ==
  /\ pc = "comment" /\ helper.ret = "ok" /\ Update([sess EXCEPT !.comment = "confirmed"])
  /\ mem' = mem /\ Goto("extra", "finish") /\ Calm /\ Outside
CommentLost ==
  /\ pc = "comment" /\ (HelperLost \/ mem.stop)
  /\ Update([sess EXCEPT !.comment = "needs_review"]) /\ Raise(Blocked(mem)) /\ Calm /\ Outside
OptionalFinish ==
  /\ pc = "extra" /\ (helper.ret # "none" \/ mem.stop) /\ Goto("encoder", "none")
  /\ Calm /\ Outside /\ UNCHANGED <<sess, mem, exe>>

\* Without a comment: the video is cued, plays, and the broadcast is ended.
Cue ==
  /\ pc = "play" /\ ~mem.stop /\ ~cued /\ cued' = TRUE
  /\ Calm /\ UNCHANGED <<fl, enc, helper, pc, sess, mem, exe>>
Playing ==
  /\ pc = "play" /\ (mem.stop \/ (cued /\ enc \in {"playback", "complete"}))
  /\ Goto("watch", "none") /\ Calm /\ Outside /\ UNCHANGED <<sess, mem, exe>>
Watched ==
  /\ pc = "watch" /\ (mem.stop \/ enc = "complete") /\ EndBroadcast("end", mem)
  /\ Calm /\ Outside /\ UNCHANGED <<sess, exe>>
BroadcastEnded ==
  /\ pc = "end" /\ helper.ret = "ok" /\ Calm /\ Outside
  /\ Finished([Ended(sess) EXCEPT !.status = StoppedOr("completed")], "encoder")

(* The except branch *)

\* A cancelled task whose broadcast was seen to end is stopped, not in doubt.
NotSeenLive(s) == s.final # "live"                                 \* mutant
SeenOver(s) == s.final = "ended"
Seen(s) ==
  IF mem.cut /\ SeenOver(s) /\ ~mem.endFirst
  THEN Finished([s EXCEPT !.status = "stopped"], "encoder")
  ELSE Update(s) /\ mem' = mem /\ Goto("judge", "none")
Inspected ==
  /\ pc = "inspect" /\ helper.ret # "none" /\ Calm /\ Outside
  /\ IF HelperLost THEN mem' = Blocked(mem) /\ Goto("judge", "none") /\ UNCHANGED <<sess, exe>>
     ELSE LET s == [sess EXCEPT !.final = helper.ret] IN
       IF s.final = "live" /\ ~mem.endTried THEN Update(s) /\ EndBroadcast("end_late", mem)
       ELSE Seen(s)
LateEnded == pc = "end_late" /\ helper.ret = "ok" /\ Calm /\ Outside /\ Seen(Ended(sess))
LateLost ==
  /\ pc = "end_late" /\ HelperLost /\ mem' = Blocked(mem) /\ Goto("judge", "none")
  /\ Calm /\ Outside /\ UNCHANGED <<sess, exe>>

Skipped == mem.blocked /\ (~sess.confirmed \/ mem.endSent \/ sess.final = "ended")
FailsAnyway == IF Skipped THEN "skipped" ELSE StoppedOr("failed")   \* mutant
Verdict ==
  IF Skipped THEN "skipped"
  ELSE IF mem.sent THEN "needs_review" ELSE StoppedOr("failed")
Judge ==
  pc = "judge" /\ Finished([sess EXCEPT !.status = Verdict], "encoder") /\ Calm /\ Outside

(* finally *)

\* stop_encoder may not reach the process inside the container.
StopEncoder ==
  /\ pc = "encoder" /\ enc' \in {enc, "off"} /\ Goto("stop_container", "none")
  /\ Calm /\ UNCHANGED <<fl, cued, sess, mem, exe>>
CleanupIgnored(s) == s                                             \* mutant
CleanupFailed(s) == [s EXCEPT !.status = "needs_review"]
CompletionPending == sess.comment = "confirmed"
StopContainer ==
  /\ pc = "stop_container" /\ Calm /\ UNCHANGED <<fl, cued>>
  /\ \/ /\ enc' = "off"
        /\ Finished(IF CompletionPending THEN [sess EXCEPT !.status = "completed"] ELSE sess,
                    "record")
     \/ enc' = enc /\ Finished(CleanupFailed(sess), "record")

\* sync_queue(finalize)
QueueStatus ==
  IF sess.status \in {"completed", "stopped"} /\ sess.confirmed THEN "completed"
  ELSE IF sess.status \in {"skipped", "needs_review"} THEN sess.status ELSE "failed"
\* The destination lock closes; what was known of the page goes with its browser.
FreshPage ==
  [fl EXCEPT !.setup = "home", !.found = FALSE, !.dialog = "none", !.goLives = 0,
             !.comments = 0, !.air = IF @ = "ended" THEN "none" ELSE @]
Release ==
  /\ pc' = "off" /\ lock' = "free" /\ mem' = NoMemory /\ cued' = FALSE
  /\ fl' = FreshPage /\ UNCHANGED <<helper, begun, faults>>
Record ==
  /\ pc = "record" /\ Release /\ controls' = FALSE
  /\ exe' = IF sess.owner = "queue" THEN [exe EXCEPT !.status = QueueStatus, !.cut = mem.cut] ELSE exe
  /\ UNCHANGED <<enc, sess>>

\* The claim lock is taken by another thread: the last write raises.  The one that
\* completes a commented session lies outside the finally that clears CONTROLS.
RecordRefused ==
  /\ pc = "record" /\ sess.owner = "queue" /\ Release /\ controls' = FALSE
  /\ UNCHANGED <<enc, sess, exe>>
CompletionRefused ==
  /\ pc = "stop_container" /\ CompletionPending /\ sess.owner = "queue" /\ Release
  /\ enc' = "off" /\ sess' = [sess EXCEPT !.status = "completed", !.stage = "over"]
  /\ UNCHANGED <<controls, exe>>

RunLive ==
  \/ ContainerReady \/ StreamIntent \/ Launch \/ StartConfirmed \/ StartInterrupted
  \/ EarlyInspected \/ EarlyEnded \/ FirstEnded \/ CommentConfirmed \/ CommentLost
  \/ OptionalFinish \/ Cue \/ Playing \/ Watched \/ BroadcastEnded \/ Inspected \/ LateEnded
  \/ LateLost \/ Judge \/ StopEncoder \/ StopContainer \/ Record

-----------------------------------------------------------------------------
(* The operator, the clock, faults *)

\* stop_live; the two-minute limit less its reserve
StopLive ==
  /\ controls /\ pc # "off" /\ ~mem.stop /\ mem' = [mem EXCEPT !.stop = TRUE]
  /\ Update([sess EXCEPT !.stage = IF sess.stage = "over" THEN "over" ELSE "active"])
  /\ UNCHANGED <<fl, enc, cued, helper, pc, controls, lock, begun, faults>>
LimitReached ==
  /\ mem.sent /\ ~mem.endFirst /\ pc \in Main \cup {"inspect", "end_late", "judge"}
  /\ ~mem.stop /\ mem' = [mem EXCEPT !.stop = TRUE]
  /\ UNCHANGED <<fl, enc, cued, helper, pc, sess, controls, lock, exe, begun, faults>>

\* Shutdown cancels the task, its container swept or not; End is never interrupted
\* and the optional finish swallows it.  Before the judgement none is passed.
Cancel ==
  /\ faults < MaxFaults /\ faults' = faults + 1 /\ pc \in (Main \cup {"inspect", "end_late"})
  /\ enc' \in {enc, "off"} /\ UNCHANGED <<fl, cued, sess, controls, lock, exe, begun>>
  /\ LET m == [mem EXCEPT !.cut = TRUE] IN
       CASE pc \in Ends -> mem' = [mem EXCEPT !.stop = TRUE] /\ UNCHANGED <<pc, helper>>
         [] pc = "extra" -> mem' = mem /\ Goto("encoder", "none")
         [] pc = "inspect" -> mem' = m /\ Goto("encoder", "none")
         [] OTHER -> Raise(m)

\* The process dies; the encoder in the container does not.  An orphaned helper
\* fails at its next report, which precedes every click.
Crash ==
  /\ faults < MaxFaults /\ faults' = faults + 1 /\ pc # "down" /\ pc' = "down"
  /\ controls' = FALSE /\ lock' = "free"
  /\ mem' = NoMemory /\ helper' = NoHelper /\ Outside /\ UNCHANGED <<sess, exe, begun>>
\* classify_interrupted_execution
Recovered == IF exe.stage = "preparing" THEN "failed" ELSE "uncertain"
Restart ==
  /\ pc = "down" /\ pc' = "off" /\ enc' = "off" /\ fl' = FreshPage /\ cued' = FALSE
  /\ exe' = IF exe.status = "running" THEN [exe EXCEPT !.status = Recovered] ELSE exe
  /\ UNCHANGED <<helper, sess, mem, controls, lock, begun, faults>>
RecoverStale ==
  /\ pc = "off" /\ ~controls /\ exe.status = "running"
  /\ exe' = [exe EXCEPT !.status = Recovered]
  /\ UNCHANGED <<fl, enc, cued, helper, pc, sess, mem, controls, lock, begun, faults>>
\* The lifecycle watchdog stops a container whose stop had failed.
Sweep ==
  /\ pc = "off" /\ enc # "off" /\ enc' = "off"
  /\ UNCHANGED <<fl, cued, helper>> /\ UNCHANGED liveVars

ExeBecomes(status) ==
  /\ exe' = [exe EXCEPT !.status = status, !.stage = "preparing"]
  /\ UNCHANGED <<fl, enc, cued, helper, pc, mem, controls, lock, begun, faults>>
\* Retry of a batch, and of one item
BatchRetry ==
  /\ pc = "off" /\ exe.status = "failed" /\ ~exe.confirmed /\ ~OwnReview
  /\ ExeBecomes("pending") /\ sess' = SavedStatus
RunNow ==
  /\ pc = "off" /\ exe.status \in {"failed", "skipped"} /\ ~OwnReview
  /\ ExeBecomes("pending") /\ sess' = SavedStatus
\* resolve_uncertain: the operator confirms that the broadcast has ended.
Resolve ==
  /\ pc = "off" /\ ~controls /\ enc = "off" /\ exe.status \in {"uncertain", "needs_review"}
  /\ \E status \in {"published", "failed"} :
       exe' = [exe EXCEPT !.status = status, !.sent = FALSE, !.stage = "over"]
  /\ sess' = IF OwnReview THEN [SavedStatus EXCEPT !.status = "stopped", !.stage = "reviewed"]
             ELSE SavedStatus
  /\ UNCHANGED <<fl, enc, cued, helper, pc, mem, controls, lock, begun, faults>>
ClearReview ==
  /\ pc = "off" /\ ~controls /\ enc = "off" /\ SavedStatus.status = "needs_review" /\ ~OwnReview
  /\ sess' = [SavedStatus EXCEPT !.status = "stopped", !.stage = "reviewed"]
  /\ UNCHANGED <<fl, enc, cued, helper, pc, mem, controls, lock, exe, begun, faults>>

Around == UNCHANGED liveVars
HelperRuns ==
  /\ HelperStep(mem.endFirst \/ sess.comment = "confirmed") /\ Around
EncoderRuns == EncoderStep /\ Around
FacebookActs == (GoesLive \/ GoesOff) /\ Around

Next ==
  \/ StartLive \/ ExecuteQueueLive
  \/ RunLive \/ Raises \/ RecordRefused \/ CompletionRefused
  \/ HelperRuns \/ EncoderRuns \/ FacebookActs
  \/ StopLive \/ LimitReached \/ Cancel \/ Crash \/ Restart \/ RecoverStale \/ Sweep
  \/ BatchRetry \/ RunNow \/ Resolve \/ ClearReview

\* Every wait of run_live has a time limit; helper and encoder are bounded too.
Fairness ==
  /\ WF_vars(RunLive) /\ WF_vars(Raises) /\ WF_vars(HelperRuns) /\ WF_vars(EncoderRuns)
  /\ WF_vars(Restart)
Spec == Init /\ [][Next]_vars /\ Fairness

-----------------------------------------------------------------------------
(* Properties *)

\* The destination is locked while this profile sends, cleanup included, and a
\* session that could not silence its encoder says so.
SendingIsExclusive ==
  /\ pc \notin {"off", "down"} /\ Ingest => lock = "ours"
  /\ pc = "off" /\ Ingest => sess.status = "needs_review"

\* A session that sent video is reported stopped or completed only when its
\* broadcast has ended or End was submitted; all else is left for review.
EndIsNotAssumed ==
  mem.sent /\ sess.stage = "over" /\ sess.status \in {"stopped", "completed"}
    => fl.air = "ended" \/ mem.endSent

\* An execution that may be retried with its batch sent no video, crash or not
\* (docs/live-video.md: "A crash or error after that boundary requires review"),
\* unless a shutdown cancelled its task in the middle of the judgement.
FailedMeansNeverSent == exe.status = "failed" /\ ~exe.cut => ~exe.sent

\* Every session ends, whatever was interrupted, and lets go of its profile, but for
\* a completed one that the queue refused: its entry in CONTROLS stays.
Refused == pc = "off" /\ sess.owner = "queue" /\ sess.status = "completed"
SessionEnds == controls ~> ~controls \/ Refused
=============================================================================
