--------------------------- MODULE LiveSessionProofs ----------------------------
(***************************************************************************)
(* Proofs about LiveSession, for any number of sessions and of faults: the *)
(* destination is locked while video is sent, an end is never assumed, and *)
(* what failed and may be retried was never sent.                          *)
(***************************************************************************)
EXTENDS LiveSession, TLAPS

-----------------------------------------------------------------------------
(* The inductive invariant *)

InSession == pc \notin {"off", "down"}

\* The helper does what run_live waits for, and there is none where it waits for none.
HelperOf(place) ==
  CASE place = "prepare" -> "prepare"
    [] place = "starting" -> "start"
    [] place \in Ends -> "end"
    [] place \in {"early_inspect", "inspect"} -> "inspect"
    [] place = "comment" -> "comment"
    [] place = "extra" -> "finish"
    [] OTHER -> "none"
HelperFits ==
  /\ helper.do = HelperOf(pc)
  /\ helper.do = "none" => helper = NoHelper
  /\ helper.do = "inspect" =>
       helper.ret \in {"none", "live", "ended", "unconfirmed", "failed", "blocked"}

\* A broadcast the helper saw end has ended: nothing takes that back within a session.
AnswersAreTrue ==
  /\ helper.do = "end" /\ helper.ret = "ok" => fl.air = "ended"
  /\ helper.ret = "ended" => fl.air = "ended"

\* One helper per session clicks Go Live, once: the bound of its counter.
GoLiveOnce ==
  /\ pc \in {"off", "container", "prepare", "launch"} => fl.goLives = 0
  /\ pc = "starting" /\ helper.clicks = 0 => fl.goLives = 0

\* A session has not been judged by an operator yet, and a dead backend has none.
StageFits ==
  /\ InSession => sess.stage \in {"preparing", "active", "over"}
  /\ pc = "down" => ~controls

TInv == TypeOK /\ HelperFits /\ GoLiveOnce /\ StageFits

\* Video needs the lock, which a session keeps from before its encoder until its
\* cleanup, and a cleanup that fails is written down.
Locked ==
  /\ InSession /\ Ingest => lock = "ours"
  /\ pc = "launch" => lock = "ours"
  /\ pc \in {"record", "off"} /\ Ingest => sess.status = "needs_review" /\ sess.stage = "over"

\* What the session file holds on the way to an outcome.
Course ==
  /\ ~InSession => mem = NoMemory
  /\ InSession => sess.status # "idle"
  /\ pc \in Main \cup {"inspect", "end_late", "judge"} => sess.status = "running"
  /\ pc = "container" => sess.final = "none"
  /\ pc \in {"container", "prepare", "launch", "starting", "end_first"} => sess.comment = "none"
  /\ pc = "comment" => sess.comment # "none"
  /\ pc = "extra" => sess.comment = "confirmed"
  /\ pc \in {"end_early", "end_first", "comment", "extra", "play", "watch", "end"} => sess.confirmed

\* A session that says the broadcast is over has seen it end or sent End, and one
\* that says so with success has seen it live, or was cut.
EndKnown == fl.air = "ended" \/ mem.endSent
Ending ==
  InSession =>
    /\ sess.final = "ended" => fl.air = "ended"
    /\ sess.comment # "none" => EndKnown /\ sess.confirmed
    /\ sess.status \in {"stopped", "completed"} /\ mem.sent =>
         EndKnown /\ (sess.confirmed \/ mem.cut)

\* Once the encoder may have started, the session file, the queue execution and the
\* record in memory all say so, and no later judgement is a plain failure.
Sent ==
  /\ InSession /\ mem.sent => sess.stage # "preparing" /\ sess.status # "failed"
  /\ pc = "launch" => mem.sent
  /\ InSession /\ sess.owner = "queue" =>
       /\ exe.status = "running" /\ (exe.sent => mem.sent)
       /\ mem.sent => exe.stage # "preparing"
  /\ exe.status = "running" /\ exe.sent => exe.stage # "preparing"
  /\ pc \in {"encoder", "stop_container"} /\ sess.status = "running" =>
       mem.cut \/ sess.comment = "confirmed"
  /\ pc = "record" /\ sess.status = "running" => mem.cut
  /\ FailedMeansNeverSent

Safe == AnswersAreTrue /\ Locked /\ Course /\ Ending /\ Sent
IInv == TInv /\ Safe

-----------------------------------------------------------------------------
(* Records *)

USE LiveAssumption

LEMMA MemoryFacts ==
  ASSUME NEW m \in Memory
  PROVE  /\ NoMemory \in Memory
         /\ [m EXCEPT !.sent = TRUE] \in Memory /\ [m EXCEPT !.inspected = TRUE] \in Memory
         /\ [m EXCEPT !.endTried = TRUE] \in Memory /\ [m EXCEPT !.endFirst = TRUE] \in Memory
         /\ [m EXCEPT !.cut = TRUE] \in Memory /\ [m EXCEPT !.stop = TRUE] \in Memory
         /\ \A b \in BOOLEAN : [m EXCEPT !.wants = b] \in Memory
         /\ \A b \in BOOLEAN : [m EXCEPT !.blocked = b] \in Memory
         /\ \A b \in BOOLEAN : [m EXCEPT !.endSent = b] \in Memory
         /\ Blocked(m) \in Memory
<1>1. ASSUME NEW b \in BOOLEAN
      PROVE  /\ [m EXCEPT !.wants = b] \in Memory /\ [m EXCEPT !.blocked = b] \in Memory
             /\ [m EXCEPT !.endSent = b] \in Memory
  BY DEF Memory
<1>2. /\ NoMemory \in Memory
      /\ [m EXCEPT !.sent = TRUE] \in Memory /\ [m EXCEPT !.inspected = TRUE] \in Memory
      /\ [m EXCEPT !.endTried = TRUE] \in Memory /\ [m EXCEPT !.endFirst = TRUE] \in Memory
      /\ [m EXCEPT !.cut = TRUE] \in Memory /\ [m EXCEPT !.stop = TRUE] \in Memory
  BY DEF NoMemory, Memory
<1>3. Blocked(m) \in Memory
  <2> DEFINE b == m.blocked \/ helper.ret = "blocked"
  <2>1. b \in BOOLEAN
    OBVIOUS
  <2>2. Blocked(m) = [m EXCEPT !.blocked = b]
    BY DEF Blocked
  <2> HIDE DEF b
  <2> QED BY <1>1, <2>1, <2>2
<1> QED BY <1>1, <1>2, <1>3

\* The fields a step of blocking leaves alone.
LEMMA BlockedFacts ==
  ASSUME NEW m \in Memory
  PROVE  /\ Blocked(m).sent = m.sent /\ Blocked(m).cut = m.cut /\ Blocked(m).endSent = m.endSent
         /\ Blocked(m).stop = m.stop
BY DEF Blocked, Memory

LEMMA SessionFacts ==
  ASSUME NEW s \in SessionRecord
  PROVE  /\ \A x \in {"stopped", "completed", "needs_review", "skipped", "failed"} :
              [s EXCEPT !.status = x] \in SessionRecord
         /\ \A x \in {"active", "over"} : [s EXCEPT !.stage = x] \in SessionRecord
         /\ [s EXCEPT !.confirmed = TRUE] \in SessionRecord
         /\ \A x \in {"attempted", "confirmed", "needs_review"} :
              [s EXCEPT !.comment = x] \in SessionRecord
         /\ \A x \in {"live", "ended", "unconfirmed"} : [s EXCEPT !.final = x] \in SessionRecord
         /\ Ended(s) \in SessionRecord
BY ZenonT(60) DEF SessionRecord, Ended

\* A write of the session file keeps the execution's type.
LEMMA UpdateFacts ==
  ASSUME exe \in Execution, NEW s \in SessionRecord, Update(s),
         s.stage \in {"preparing", "active", "over"}
  PROVE  /\ sess' = s /\ sess' \in SessionRecord /\ exe' \in Execution
         /\ sess'.stage \in {"preparing", "active", "over"}
<1>1. sess' = s
  BY DEF Update
<1>2. s.confirmed \in BOOLEAN
  BY DEF SessionRecord
<1>3. exe' = exe \/ exe' = [exe EXCEPT !.stage = s.stage, !.confirmed = s.confirmed,
                                      !.status = "running"]
  BY DEF Update
<1> QED BY <1>1, <1>2, <1>3 DEF Execution

-----------------------------------------------------------------------------
(* Types *)

Encoders == {"off", "startup", "playback", "complete", "failed"}

\* Which helper each place has.
LEMMA HelperOfFacts ==
  /\ HelperOf("prepare") = "prepare" /\ HelperOf("starting") = "start"
  /\ \A x \in Ends : HelperOf(x) = "end"
  /\ HelperOf("early_inspect") = "inspect" /\ HelperOf("inspect") = "inspect"
  /\ HelperOf("comment") = "comment" /\ HelperOf("extra") = "finish"
  /\ \A x \in {"container", "launch", "play", "watch", "judge", "encoder", "stop_container",
               "record", "off", "down"} : HelperOf(x) = "none"
  /\ \A x \in Places : HelperOf(x) \in Actions \cup {"none"}
<1>1. /\ HelperOf("prepare") = "prepare" /\ HelperOf("starting") = "start"
      /\ HelperOf("early_inspect") = "inspect" /\ HelperOf("inspect") = "inspect"
      /\ HelperOf("comment") = "comment" /\ HelperOf("extra") = "finish"
  BY DEF HelperOf, Ends
<1>2. \A x \in Ends : HelperOf(x) = "end"
  BY DEF HelperOf, Ends
<1>3. \A x \in {"container", "launch", "play", "watch", "judge", "encoder", "stop_container",
               "record", "off", "down"} : HelperOf(x) = "none"
  BY DEF HelperOf, Ends
<1>4. \A x \in Places : HelperOf(x) \in Actions \cup {"none"}
  BY <1>1, <1>2, <1>3 DEF Places, Main, Ends, Actions
<1> QED BY <1>1, <1>2, <1>3, <1>4

\* run_live goes on to its next place, with the helper of that place.
LEMMA Goes ==
  ASSUME TInv, NEW place \in Places, NEW action, Goto(place, action), action = HelperOf(place),
         place \notin {"off", "down"}, GoLiveOnce',
         UNCHANGED <<controls, begun, faults>>, lock' \in {"free", "ours"},
         fl' \in Producer, enc' \in Encoders, cued' \in BOOLEAN,
         sess' \in SessionRecord, sess'.stage \in {"preparing", "active", "over"},
         mem' \in Memory, exe' \in Execution
  PROVE  TInv'
<1>1. pc' = place /\ helper' = IF action = "none" THEN NoHelper ELSE Helping(action)
  BY DEF Goto
<1>2. action \in Actions \cup {"none"}
  BY HelperOfFacts
<1>3. helper' \in HelperRecord /\ helper'.do = action /\ (action = "none" => helper' = NoHelper)
  BY <1>1, <1>2 DEF HelperRecord, NoHelper, Helping, Results, Actions
<1>4. HelperFits'
  <2>1. action # "none" => helper'.ret = "none"
    BY <1>1 DEF Helping, NoHelper
  <2> QED BY <1>1, <1>3, <2>1 DEF HelperFits
<1>5. TypeOK'
  BY <1>1, <1>3 DEF TInv, TypeOK, FacebookTypeOK, Encoders
<1>6. StageFits'
  BY <1>1 DEF StageFits
<1> QED BY <1>4, <1>5, <1>6 DEF TInv

\* Most steps of it leave the broadcast to Facebook and to the helper.
LEMMA GoesOn ==
  ASSUME TInv, NEW place \in Places, NEW action, Goto(place, action), action = HelperOf(place),
         place \notin {"off", "down", "container", "prepare", "launch", "starting"},
         UNCHANGED <<controls, lock, begun, faults, fl, cued>>, enc' \in Encoders,
         sess' \in SessionRecord, sess'.stage \in {"preparing", "active", "over"},
         mem' \in Memory, exe' \in Execution
  PROVE  TInv'
<1>1. pc' = place
  BY DEF Goto
<1>2. GoLiveOnce'
  BY <1>1 DEF GoLiveOnce
<1>3. /\ lock' \in {"free", "ours"} /\ fl' \in Producer /\ cued' \in BOOLEAN
  BY DEF TInv, TypeOK, FacebookTypeOK
<1> QED BY <1>2, <1>3, Goes

\* Types of a state within a session.
LEMMA Typed ==
  ASSUME TInv
  PROVE  /\ sess \in SessionRecord /\ mem \in Memory /\ exe \in Execution
         /\ fl \in Producer /\ enc \in Encoders /\ cued \in BOOLEAN /\ helper \in HelperRecord
         /\ lock \in {"free", "ours"} /\ controls \in BOOLEAN /\ pc \in Places
         /\ InSession => sess.stage \in {"preparing", "active", "over"}
         /\ HelperFits /\ GoLiveOnce
BY DEF TInv, TypeOK, FacebookTypeOK, StageFits, Encoders

LEMMA RaiseType ==
  ASSUME TInv, InSession, NEW m \in Memory, Raise(m), Calm, UNCHANGED <<fl, cued>>,
         enc' \in Encoders, sess' \in SessionRecord, exe' \in Execution,
         sess'.stage \in {"preparing", "active", "over"}
  PROVE  TInv'
<1> USE DEF Calm
<1>1. mem' \in Memory
  BY DEF Raise
<1>2. CASE Goto("inspect", "inspect")
  BY <1>1, <1>2, GoesOn, HelperOfFacts DEF Places
<1>3. CASE Goto("judge", "none")
  BY <1>1, <1>3, GoesOn, HelperOfFacts DEF Places
<1> QED BY <1>2, <1>3 DEF Raise

LEMMA FinishedType ==
  ASSUME TInv, InSession, NEW s \in SessionRecord, NEW place \in {"encoder", "record"},
         Finished(s, place), Calm, UNCHANGED <<fl, cued>>, enc' \in Encoders
  PROVE  TInv'
<1> USE DEF Calm
<1>1. /\ Update([s EXCEPT !.stage = "over"]) /\ Goto(place, "none") /\ mem' = mem
  BY DEF Finished
<1>2. [s EXCEPT !.stage = "over"] \in SessionRecord /\ [s EXCEPT !.stage = "over"].stage = "over"
  BY SessionFacts DEF SessionRecord
<1>3. /\ sess' \in SessionRecord /\ exe' \in Execution
      /\ sess'.stage \in {"preparing", "active", "over"}
  BY <1>1, <1>2, UpdateFacts, Typed
<1> QED BY <1>1, <1>3, GoesOn, HelperOfFacts, Typed DEF Places

\* Before the encoder: the container, the page, the lock, the start.
LEMMA TStart ==
  ASSUME TInv, ContainerReady \/ StreamIntent \/ Launch
  PROVE  TInv'
<1> USE DEF Calm, Outside
<1>s. InSession
  BY DEF InSession, ContainerReady, StreamIntent, Launch
<1>1. CASE ContainerReady
  <2>1. CASE mem.stop
    BY <1>1, <1>s, <2>1, GoesOn, HelperOfFacts, Typed DEF ContainerReady, Places
  <2>2. CASE ~mem.stop
    <3>1. fl' \in Producer /\ fl'.goLives = fl.goLives
      BY <1>1, <2>2, Typed DEF ContainerReady, Producer
    <3>2. GoLiveOnce'
      BY <1>1, <2>2, <3>1, Typed DEF GoLiveOnce, ContainerReady, Goto
    <3> QED BY <1>1, <1>s, <2>2, <3>1, <3>2, Goes, HelperOfFacts, Typed DEF ContainerReady, Places, Main
  <2> QED BY <2>1, <2>2
<1>2. CASE StreamIntent
  <2>1. /\ sess' \in SessionRecord /\ exe' \in Execution
        /\ sess'.stage \in {"preparing", "active", "over"}
    <3> DEFINE s == [sess EXCEPT !.stage = "active"]
    <3>1. Update(s)
      BY <1>2 DEF StreamIntent
    <3>2. s \in SessionRecord /\ s.stage = "active" /\ exe \in Execution
      BY Typed, SessionFacts DEF SessionRecord
    <3> HIDE DEF s
    <3> QED BY <3>1, <3>2, UpdateFacts
  <2>2. GoLiveOnce'
    BY <1>2, Typed DEF GoLiveOnce, StreamIntent, Goto
  <2> QED BY <1>2, <2>1, <2>2, Goes, HelperOfFacts, MemoryFacts, Typed DEF StreamIntent, Places, Main
<1>3. CASE Launch
  <2>1. exe' \in Execution
    <3> DEFINE b == exe.sent \/ sess.owner = "queue"
    <3>1. b \in BOOLEAN /\ exe \in Execution
      BY Typed DEF Execution
    <3>2. exe' = [exe EXCEPT !.sent = b]
      BY <1>3 DEF Launch
    <3> HIDE DEF b
    <3> QED BY <3>1, <3>2 DEF Execution
  <2>2. GoLiveOnce'
    BY <1>3, Typed DEF GoLiveOnce, Launch, Goto
  <2> QED BY <1>3, <1>s, <2>1, <2>2, Goes, HelperOfFacts, Typed DEF Launch, Places, Main, Encoders
<1> QED BY <1>1, <1>2, <1>3

\* A step that writes the session file and goes on.
LEMMA UpdateType ==
  ASSUME TInv, InSession, NEW s \in SessionRecord, Update(s),
         s.stage \in {"preparing", "active", "over"},
         NEW place \in Places, NEW action, Goto(place, action), action = HelperOf(place),
         place \notin {"off", "down", "container", "prepare", "launch", "starting"},
         Calm, UNCHANGED <<fl, cued>>, enc' \in Encoders, mem' \in Memory
  PROVE  TInv'
<1>1. /\ sess' \in SessionRecord /\ exe' \in Execution
      /\ sess'.stage \in {"preparing", "active", "over"}
  BY UpdateFacts, Typed
<1> QED BY <1>1, GoesOn DEF Calm

\* From the start to the end of the broadcast.
LEMMA TBroadcast ==
  ASSUME TInv,
         \/ StartConfirmed \/ StartInterrupted \/ EarlyInspected \/ EarlyEnded \/ FirstEnded
         \/ CommentConfirmed \/ CommentLost \/ OptionalFinish \/ Playing \/ Watched
         \/ BroadcastEnded \/ Raises
  PROVE  TInv'
<1> USE DEF Outside
<1>s. /\ InSession
      /\ sess.stage \in {"preparing", "active", "over"}
  <2>1. InSession
    BY DEF InSession, Main, StartConfirmed, StartInterrupted, EarlyInspected, EarlyEnded, FirstEnded,
         CommentConfirmed, CommentLost, OptionalFinish, Playing, Watched, BroadcastEnded, Raises
  <2> QED BY <2>1, Typed
<1>t. /\ sess \in SessionRecord /\ mem \in Memory /\ exe \in Execution /\ enc \in Encoders
      /\ helper \in HelperRecord
  BY Typed
<1>i. HelperOf(pc) = "inspect" => helper.ret \in {"none", "live", "ended", "unconfirmed", "failed", "blocked"}
  BY Typed DEF HelperFits
<1>j. pc = "early_inspect" => HelperOf(pc) = "inspect"
  BY HelperOfFacts
<1>1. CASE StartConfirmed
  <2>1. [sess EXCEPT !.confirmed = TRUE] \in SessionRecord
        /\ [sess EXCEPT !.confirmed = TRUE].stage = sess.stage
    BY <1>t DEF SessionRecord
  <2>2. CASE mem.wants /\ ~mem.stop
    <3>1. Goto("end_first", "end")
          /\ mem' = [[mem EXCEPT !.endFirst = TRUE] EXCEPT !.endTried = TRUE]
      BY <1>1, <2>2 DEF StartConfirmed, EndBroadcast
    <3>2. mem' \in Memory
      BY <3>1, <1>t, MemoryFacts
    <3>3. Update([sess EXCEPT !.confirmed = TRUE]) /\ Calm /\ Outside
      BY <1>1 DEF StartConfirmed
    <3>4. HelperOf("end_first") = "end" /\ "end_first" \in Places
      BY HelperOfFacts DEF Ends, Places, Main
    <3> QED BY <1>s, <1>t, <2>1, <3>1, <3>2, <3>3, <3>4, UpdateType
  <2>3. CASE ~(mem.wants /\ ~mem.stop)
    <3>1. Goto("play", "none") /\ mem' = mem
      BY <1>1, <2>3 DEF StartConfirmed
    <3>2. Update([sess EXCEPT !.confirmed = TRUE]) /\ Calm /\ Outside
      BY <1>1 DEF StartConfirmed
    <3> QED BY <1>s, <1>t, <2>1, <3>1, <3>2, HelperOfFacts, UpdateType DEF Places, Main
  <2> QED BY <2>2, <2>3
<1>2. CASE StartInterrupted
  <2>1. mem' \in Memory
    BY <1>2, <1>t, MemoryFacts DEF StartInterrupted
  <2> QED BY <1>2, <1>s, <1>t, <2>1, HelperOfFacts, GoesOn DEF StartInterrupted, Calm, Places, Main
<1>3. CASE EarlyInspected
  <2>0. Calm /\ Outside
    BY <1>3 DEF EarlyInspected
  <2>1. CASE helper.ret = "live"
    <3> DEFINE s == [sess EXCEPT !.final = "live", !.confirmed = TRUE]
    <3>1. s \in SessionRecord /\ s.stage = sess.stage
      BY <1>t DEF SessionRecord
    <3>2. Update(s) /\ Goto("end_early", "end") /\ mem' = [mem EXCEPT !.endTried = TRUE]
      BY <1>3, <2>1 DEF EarlyInspected, EndBroadcast
    <3>3. mem' \in Memory
      BY <3>2, <1>t, MemoryFacts
    <3>4. HelperOf("end_early") = "end" /\ "end_early" \in Places
      BY HelperOfFacts DEF Ends, Places, Main
    <3> HIDE DEF s
    <3> QED BY <1>s, <1>t, <2>0, <3>1, <3>2, <3>3, <3>4, UpdateType
  <2>2. CASE helper.ret # "live"
    <3> DEFINE s == IF HelperLost THEN sess ELSE [sess EXCEPT !.final = helper.ret]
    <3>1. Update(s) /\ Goto("judge", "none") /\ mem' = Blocked(mem)
      BY <1>3, <2>2 DEF EarlyInspected
    <3>2. s \in SessionRecord /\ s.stage = sess.stage
      <4>1. HelperLost \/ helper.ret \in {"ended", "unconfirmed"}
        BY <1>3, <1>i, <1>j, <2>2 DEF EarlyInspected, HelperLost
      <4> QED BY <1>t, <4>1 DEF SessionRecord
    <3>3. mem' \in Memory
      BY <3>1, <1>t, MemoryFacts
    <3> HIDE DEF s
    <3> QED BY <1>s, <1>t, <2>0, <3>1, <3>2, <3>3, HelperOfFacts, UpdateType DEF Places
  <2> QED BY <2>1, <2>2
<1>4. CASE EarlyEnded
  <2>0. Calm /\ Outside
    BY <1>4 DEF EarlyEnded
  <2>1. CASE mem.stop \/ enc # "failed"
    <3> DEFINE s == [Ended(sess) EXCEPT !.status = StoppedOr("completed")]
    <3>1. s \in SessionRecord
      BY <1>t, SessionFacts DEF StoppedOr
    <3>2. Finished(s, "encoder")
      BY <1>4, <2>1 DEF EarlyEnded
    <3> HIDE DEF s
    <3> QED BY <1>s, <1>t, <2>0, <3>1, <3>2, FinishedType
  <2>2. CASE ~(mem.stop \/ enc # "failed")
    <3>1. Update(Ended(sess)) /\ mem' = mem /\ Goto("judge", "none")
      BY <1>4, <2>2 DEF EarlyEnded
    <3>2. Ended(sess) \in SessionRecord /\ Ended(sess).stage = sess.stage
      BY <1>t DEF Ended, SessionRecord
    <3> QED BY <1>s, <1>t, <2>0, <3>1, <3>2, HelperOfFacts, UpdateType DEF Places
  <2> QED BY <2>1, <2>2
<1>5. CASE FirstEnded
  <2> DEFINE x == IF helper.ret = "ok" THEN "ended" ELSE "unconfirmed"
             s == [sess EXCEPT !.final = x]
             b == helper.ret = "end_sent"
             m == [mem EXCEPT !.endSent = b]
  <2>1. s \in SessionRecord /\ s.stage = sess.stage
    BY <1>t, SessionFacts, SMTT(30) DEF SessionRecord
  <2>2. b \in BOOLEAN
    OBVIOUS
  <2> HIDE DEF b
  <2>3. m \in Memory
    BY <1>t, <2>2, MemoryFacts
  <2>4. enc' = "off" /\ Calm /\ UNCHANGED <<fl, cued>>
    BY <1>5 DEF FirstEnded
  <2>5. CASE mem.stop
    <3>1. Update(s) /\ Raise(m)
      BY <1>5, <2>5 DEF FirstEnded, b
    <3> HIDE DEF s, m
    <3> QED BY <1>s, <1>t, <2>1, <2>3, <2>4, <3>1, UpdateFacts, RaiseType DEF Encoders
  <2>6. CASE ~mem.stop
    <3>1. Update([s EXCEPT !.comment = "attempted"]) /\ mem' = m /\ Goto("comment", "comment")
      BY <1>5, <2>6 DEF FirstEnded, b
    <3> HIDE DEF s, m
    <3>2. [s EXCEPT !.comment = "attempted"] \in SessionRecord
          /\ [s EXCEPT !.comment = "attempted"].stage = s.stage
      BY <2>1, SessionFacts DEF SessionRecord
    <3> QED BY <1>s, <1>t, <2>1, <2>3, <2>4, <3>1, <3>2, HelperOfFacts, UpdateType DEF Encoders, Places, Main
  <2> QED BY <2>5, <2>6
<1>6. CASE CommentConfirmed \/ CommentLost
  <2>0. Calm /\ Outside
    BY <1>6 DEF CommentConfirmed, CommentLost
  <2>1. \A x \in {"confirmed", "needs_review"} :
          [sess EXCEPT !.comment = x] \in SessionRecord
          /\ [sess EXCEPT !.comment = x].stage = sess.stage
    BY <1>t, SessionFacts DEF SessionRecord
  <2>2. CASE CommentConfirmed
    <3>1. Update([sess EXCEPT !.comment = "confirmed"]) /\ mem' = mem /\ Goto("extra", "finish")
      BY <2>2 DEF CommentConfirmed
    <3> QED BY <1>s, <1>t, <2>0, <2>1, <3>1, HelperOfFacts, UpdateType DEF Places, Main
  <2>3. CASE CommentLost
    <3>1. Update([sess EXCEPT !.comment = "needs_review"]) /\ Raise(Blocked(mem))
      BY <2>3 DEF CommentLost
    <3>2. Blocked(mem) \in Memory
      BY <1>t, MemoryFacts
    <3> QED BY <1>s, <1>t, <2>0, <2>1, <3>1, <3>2, UpdateFacts, RaiseType
  <2> QED BY <1>6, <2>2, <2>3
<1>7. CASE OptionalFinish \/ Playing
  BY <1>7, <1>s, <1>t, HelperOfFacts, GoesOn DEF OptionalFinish, Playing, Calm, Places, Main
<1>8. CASE Watched
  <2>1. mem' \in Memory /\ Goto("end", "end") /\ Calm /\ Outside /\ UNCHANGED <<sess, exe>>
    BY <1>8, <1>t, MemoryFacts DEF Watched, EndBroadcast
  <2>2. HelperOf("end") = "end" /\ "end" \in Places
    BY HelperOfFacts DEF Ends, Places, Main
  <2> QED BY <1>s, <1>t, <2>1, <2>2, GoesOn DEF Calm
<1>9. CASE BroadcastEnded
  <2> DEFINE s == [Ended(sess) EXCEPT !.status = StoppedOr("completed")]
  <2>1. s \in SessionRecord
    BY <1>t, SessionFacts DEF StoppedOr
  <2>2. Finished(s, "encoder") /\ Calm /\ Outside
    BY <1>9 DEF BroadcastEnded
  <2> HIDE DEF s
  <2> QED BY <1>s, <1>t, <2>1, <2>2, FinishedType
<1>10. CASE Raises
  <2>1. Raise(Blocked(mem)) /\ Calm /\ Outside /\ UNCHANGED <<sess, exe>>
    BY <1>10 DEF Raises
  <2>2. Blocked(mem) \in Memory
    BY <1>t, MemoryFacts
  <2> QED BY <1>s, <1>t, <2>1, <2>2, RaiseType
<1> QED BY <1>1, <1>2, <1>3, <1>4, <1>5, <1>6, <1>7, <1>8, <1>9, <1>10

\* The except branch and the cleanup, up to the record.
LEMMA TCleanup ==
  ASSUME TInv, Inspected \/ LateEnded \/ LateLost \/ Judge \/ StopEncoder \/ StopContainer
  PROVE  TInv'
<1> USE DEF Outside
<1>s. InSession /\ sess.stage \in {"preparing", "active", "over"}
  <2>1. InSession
    BY DEF InSession, Inspected, LateEnded, LateLost, Judge, StopEncoder, StopContainer
  <2> QED BY <2>1, Typed
<1>t. /\ sess \in SessionRecord /\ mem \in Memory /\ exe \in Execution /\ enc \in Encoders
      /\ helper \in HelperRecord
  BY Typed
<1>i. pc = "inspect" => helper.ret \in {"none", "live", "ended", "unconfirmed", "failed", "blocked"}
  BY Typed, HelperOfFacts DEF HelperFits
<1>0. ASSUME NEW s \in SessionRecord, s.stage = sess.stage, Seen(s), Calm, Outside
      PROVE  TInv'
  <2>1. CASE mem.cut /\ SeenOver(s) /\ ~mem.endFirst
    <3>1. Finished([s EXCEPT !.status = "stopped"], "encoder")
      BY <1>0, <2>1 DEF Seen
    <3>2. [s EXCEPT !.status = "stopped"] \in SessionRecord
      BY SessionFacts
    <3> QED BY <1>0, <1>s, <1>t, <3>1, <3>2, FinishedType
  <2>2. CASE ~(mem.cut /\ SeenOver(s) /\ ~mem.endFirst)
    <3>1. Update(s) /\ mem' = mem /\ Goto("judge", "none")
      BY <1>0, <2>2 DEF Seen
    <3> QED BY <1>0, <1>s, <1>t, <3>1, HelperOfFacts, UpdateType DEF Places
  <2> QED BY <2>1, <2>2
<1>1. CASE Inspected
  <2>0. Calm /\ Outside
    BY <1>1 DEF Inspected
  <2>1. CASE HelperLost
    <3>1. mem' = Blocked(mem) /\ Goto("judge", "none") /\ UNCHANGED <<sess, exe>>
      BY <1>1, <2>1 DEF Inspected
    <3>2. mem' \in Memory
      BY <3>1, <1>t, MemoryFacts
    <3> QED BY <1>s, <1>t, <2>0, <3>1, <3>2, HelperOfFacts, GoesOn DEF Calm, Places
  <2>2. CASE ~HelperLost
    <3> DEFINE s == [sess EXCEPT !.final = helper.ret]
    <3>1. s \in SessionRecord /\ s.stage = sess.stage
      BY <1>1, <1>i, <1>t, <2>2 DEF Inspected, HelperLost, SessionRecord
    <3>2. \/ Update(s) /\ EndBroadcast("end_late", mem)
          \/ Seen(s)
      BY <1>1, <2>2 DEF Inspected
    <3> HIDE DEF s
    <3>3. CASE Update(s) /\ EndBroadcast("end_late", mem)
      <4>1. mem' \in Memory /\ Goto("end_late", "end")
        BY <3>3, <1>t, MemoryFacts DEF EndBroadcast
      <4>2. HelperOf("end_late") = "end" /\ "end_late" \in Places
        BY HelperOfFacts DEF Ends, Places
      <4> QED BY <1>s, <1>t, <2>0, <3>1, <3>3, <4>1, <4>2, UpdateType
    <3> QED BY <1>0, <2>0, <3>1, <3>2, <3>3
  <2> QED BY <2>1, <2>2
<1>2. CASE LateEnded
  <2>1. Ended(sess) \in SessionRecord /\ Ended(sess).stage = sess.stage
    BY <1>t DEF Ended, SessionRecord
  <2> QED BY <1>0, <1>2, <2>1 DEF LateEnded
<1>3. CASE LateLost
  <2>1. mem' \in Memory
    BY <1>3, <1>t, MemoryFacts DEF LateLost
  <2> QED BY <1>3, <1>s, <1>t, <2>1, HelperOfFacts, GoesOn DEF LateLost, Calm, Places
<1>4. CASE Judge
  <2>1. [sess EXCEPT !.status = Verdict] \in SessionRecord
    BY <1>t, SessionFacts DEF Verdict, StoppedOr
  <2> QED BY <1>4, <1>s, <1>t, <2>1, FinishedType DEF Judge
<1>5. CASE StopEncoder
  <2>1. enc' \in Encoders
    BY <1>5, <1>t DEF StopEncoder, Encoders
  <2> QED BY <1>5, <1>s, <1>t, <2>1, HelperOfFacts, GoesOn DEF StopEncoder, Calm, Places
<1>6. CASE StopContainer
  <2>0. Calm /\ UNCHANGED <<fl, cued>>
    BY <1>6 DEF StopContainer
  <2>1. \A x \in {"completed", "needs_review"} : [sess EXCEPT !.status = x] \in SessionRecord
    BY <1>t, SessionFacts
  <2>2. CASE enc' = "off" /\ Finished(IF CompletionPending THEN [sess EXCEPT !.status = "completed"]
                                      ELSE sess, "record")
    <3>1. (IF CompletionPending THEN [sess EXCEPT !.status = "completed"] ELSE sess) \in SessionRecord
      BY <1>t, <2>1
    <3> QED BY <1>s, <2>0, <2>2, <3>1, FinishedType DEF Encoders
  <2>3. CASE enc' = enc /\ Finished(CleanupFailed(sess), "record")
    <3>1. CleanupFailed(sess) \in SessionRecord
      BY <2>1 DEF CleanupFailed
    <3> QED BY <1>s, <1>t, <2>0, <2>3, <3>1, FinishedType
  <2> QED BY <1>6, <2>2, <2>3 DEF StopContainer
<1> QED BY <1>1, <1>2, <1>3, <1>4, <1>5, <1>6

\* The page a new session finds.
LEMMA FreshPageFacts ==
  ASSUME fl \in Producer
  PROVE  FreshPage \in Producer /\ FreshPage.goLives = 0
<1> DEFINE x == IF fl.air = "ended" THEN "none" ELSE fl.air
<1>1. x \in {"none", "live", "ended"}
  BY DEF Producer
<1>2. FreshPage = [fl EXCEPT !.setup = "home", !.found = FALSE, !.dialog = "none", !.goLives = 0,
                             !.comments = 0, !.air = x]
  BY DEF FreshPage, Producer
<1> HIDE DEF x
<1> DEFINE zero == 0
<1>3. zero \in 0..2
  OBVIOUS
<1> HIDE DEF zero
<1>4. \A p \in Producer : [p EXCEPT !.setup = "home", !.found = FALSE, !.dialog = "none",
                                   !.goLives = zero, !.comments = zero, !.air = x] \in Producer
  BY <1>1, <1>3 DEF Producer
<1>5. \A p \in Producer : [p EXCEPT !.setup = "home", !.found = FALSE, !.dialog = "none",
                                   !.goLives = zero, !.comments = zero, !.air = x].goLives = zero
  BY DEF Producer
<1> QED BY <1>2, <1>4, <1>5 DEF zero

\* A session that begins finds no counter of an earlier one.
LEMMA TBegin ==
  ASSUME TInv, StartLive \/ ExecuteQueueLive
  PROVE  TInv'
<1>1. PICK owner \in {"direct", "queue"} : Enter(owner)
  BY DEF StartLive, ExecuteQueueLive
<1>2. /\ pc = "off" /\ pc' = "container" /\ controls' = TRUE
      /\ begun < MaxSessions /\ begun' = begun + 1 /\ sess' = NewSession(owner)
      /\ UNCHANGED <<fl, enc, cued, helper, lock, faults>>
  BY <1>1 DEF Enter, ProfileIsFree
<1>3. mem' \in Memory
  <2>1. NoMemory \in Memory
    BY MemoryFacts, Typed
  <2>2. PICK wants \in BOOLEAN : mem' = [NoMemory EXCEPT !.wants = wants]
    BY <1>1 DEF Enter
  <2> QED BY <2>1, <2>2, MemoryFacts
<1>4. sess' \in SessionRecord /\ sess'.stage = "preparing"
  BY <1>2 DEF SessionRecord, NewSession
<1>5. exe' \in Execution
  BY Typed DEF StartLive, ExecuteQueueLive, Execution
<1>6. begun' \in 0..MaxSessions
  <2>1. begun \in 0..MaxSessions
    BY DEF TInv, TypeOK
  <2> QED BY <1>2, <2>1
<1>7. TypeOK'
  BY <1>2, <1>3, <1>4, <1>5, <1>6 DEF TInv, TypeOK, FacebookTypeOK, Places, Main
<1>8. HelperFits'
  BY <1>2, Typed, HelperOfFacts DEF HelperFits
<1> QED BY <1>2, <1>4, <1>7, <1>8, Typed DEF TInv, GoLiveOnce, StageFits

\* The session lets go of the profile.
LEMMA TRelease ==
  ASSUME TInv, Record \/ RecordRefused \/ CompletionRefused
  PROVE  TInv'
<1>1. /\ pc \in {"record", "stop_container"} /\ pc' = "off" /\ lock' = "free"
      /\ mem' = NoMemory /\ cued' = FALSE
      /\ fl' = FreshPage /\ UNCHANGED <<helper, begun, faults>> /\ enc' \in {enc, "off"}
      /\ controls' \in {FALSE, controls}
  BY DEF Record, RecordRefused, CompletionRefused, Release
<1>2. sess' \in SessionRecord
  <2>1. sess' = sess \/ sess' = [sess EXCEPT !.status = "completed", !.stage = "over"]
    BY DEF Record, RecordRefused, CompletionRefused
  <2> QED BY <2>1, Typed DEF SessionRecord
<1>3. exe' \in Execution
  <2>1. QueueStatus \in {"completed", "skipped", "needs_review", "failed"} /\ mem.cut \in BOOLEAN
    BY Typed DEF QueueStatus, Memory
  <2>2. exe' = exe \/ exe' = [exe EXCEPT !.status = QueueStatus, !.cut = mem.cut]
    BY DEF Record, RecordRefused, CompletionRefused
  <2> HIDE DEF QueueStatus
  <2> QED BY <2>1, <2>2, Typed DEF Execution
<1>4. mem' \in Memory /\ fl' \in Producer /\ fl'.goLives = 0
  BY <1>1, MemoryFacts, FreshPageFacts, Typed
<1>5. TypeOK'
  BY <1>1, <1>2, <1>3, <1>4 DEF TInv, TypeOK, FacebookTypeOK, Places
<1>6. HelperOf(pc) = "none" /\ HelperOf(pc') = "none"
  BY <1>1, HelperOfFacts
<1>7. HelperFits'
  BY <1>1, <1>6, Typed DEF HelperFits
<1> QED BY <1>1, <1>4, <1>5, <1>7 DEF TInv, GoLiveOnce, StageFits, InSession

\* A helper's step keeps its task, and clicks Go Live once.
LEMMA THelper ==
  ASSUME TInv, HelperRuns
  PROVE  TInv'
<1> USE DEF Around, liveVars
<1>1. UNCHANGED <<enc, cued, pc, sess, mem, controls, lock, exe, begun, faults>>
  BY DEF HelperRuns, HelperStep, Prepare, OpenSetup, EnterDetails, SaveDetails, ReadStreamKey, Start,
       ClickGoLive, ConfirmGoLive, SeesLive, End, ClickEnd, ConfirmEnd, SeesEnded, Inspect, Comment,
       FindField, FindOnProfile, SubmitComment, SeesComment, Finish, HelperFails, HelperBlocked,
       Answer, Press
<1>2. helper \in HelperRecord /\ fl \in Producer /\ HelperFits /\ GoLiveOnce /\ pc \in Places
  BY Typed
<1>3. helper.do # "none"
  BY DEF HelperRuns, HelperStep, Prepare, OpenSetup, EnterDetails, SaveDetails, ReadStreamKey, Start,
       ClickGoLive, ConfirmGoLive, SeesLive, End, ClickEnd, ConfirmEnd, SeesEnded, Inspect, Comment,
       FindField, FindOnProfile, SubmitComment, SeesComment, Finish, HelperFails, HelperBlocked, Doing
<1>4. \A r \in Results : Answer(r) => /\ helper' \in HelperRecord /\ helper'.do = helper.do
                                      /\ helper'.ret = r /\ helper'.clicks = helper.clicks
                                      /\ fl' = fl
  BY <1>2 DEF Answer, HelperRecord
<1>5. ASSUME NEW page \in Producer, Press(page), helper.clicks < 2
      PROVE  /\ helper' \in HelperRecord /\ helper'.do = helper.do /\ helper'.ret = helper.ret
             /\ helper'.clicks > 0 /\ fl' = page
  <2> DEFINE n == helper.clicks + 1
  <2>1. helper.clicks \in 0..2 /\ helper' = [helper EXCEPT !.clicks = n] /\ fl' = page
    BY <1>2, <1>5 DEF Press, HelperRecord
  <2>2. n \in 0..2 /\ n > 0
    BY <1>5, <2>1
  <2> HIDE DEF n
  <2> QED BY <1>2, <2>1, <2>2 DEF HelperRecord
<1>6. /\ helper' \in HelperRecord /\ helper'.do = helper.do /\ fl' \in Producer
      /\ helper.do = "inspect" => helper'.ret \in {"none", "live", "ended", "unconfirmed", "failed", "blocked"}
      /\ \/ fl'.goLives = fl.goLives /\ (helper'.clicks = 0 => helper.clicks = 0)
         \/ helper.do = "start" /\ helper'.clicks > 0
  <2>1. CASE HelperFails \/ HelperBlocked
    BY <1>2, <1>4, <2>1 DEF HelperFails, HelperBlocked, Results
  <2>2. CASE OpenSetup \/ EnterDetails \/ SaveDetails
    BY <1>2, <2>2 DEF OpenSetup, EnterDetails, SaveDetails, Doing, Producer
  <2>3. CASE ReadStreamKey \/ SeesLive \/ SeesEnded \/ SeesComment \/ Finish
    BY <1>2, <1>4, <2>3 DEF ReadStreamKey, SeesLive, SeesEnded, SeesComment, Finish, Doing, Results
  <2>4. CASE ClickGoLive
    <3>1. helper.do = "start" /\ helper.clicks = 0 /\ helper.ret = "none"
      BY <2>4 DEF ClickGoLive, MayGoLive, Doing
    <3>2. pc = "starting"
      BY <1>2, <3>1, HelperOfFacts, ZenonT(60) DEF HelperFits, Places, Main, Ends
    <3>3. fl.goLives = 0
      BY <1>2, <3>1, <3>2 DEF GoLiveOnce
    <3> DEFINE n == fl.goLives + 1
               plain == [fl EXCEPT !.goLives = n]
               asked == [fl EXCEPT !.dialog = "game", !.goLives = n]
    <3>4. n \in 0..2
      BY <3>3
    <3>5. Press(plain) \/ Press(asked)
      BY <2>4 DEF ClickGoLive
    <3> HIDE DEF n
    <3>6. plain \in Producer /\ asked \in Producer
      BY <1>2, <3>4 DEF Producer
    <3> HIDE DEF plain, asked
    <3> QED BY <1>5, <3>1, <3>5, <3>6
  <2>5. CASE ConfirmGoLive
    BY <1>2, <1>5, <2>5 DEF ConfirmGoLive, Doing, Producer
  <2>6. CASE ClickEnd
    <3> DEFINE page == [fl EXCEPT !.dialog = "end"]
    <3>1. page \in Producer /\ page.goLives = fl.goLives
      BY <1>2 DEF Producer
    <3>2. Press(page) /\ helper.do = "end" /\ helper.clicks = 0
      BY <2>6 DEF ClickEnd, Doing
    <3> HIDE DEF page
    <3> QED BY <1>5, <3>1, <3>2
  <2>7. CASE ConfirmEnd(mem.endFirst \/ sess.comment = "confirmed")
    <3>1. /\ helper.do = "end"
          /\ \E r \in Results : helper' = [helper EXCEPT !.clicks = 2, !.ret = r]
          /\ \E air \in {"none", "live", "ended"} : fl' = [fl EXCEPT !.dialog = "none", !.air = air]
      BY <1>2, <2>7 DEF ConfirmEnd, Doing, Results, Producer
    <3>2. PICK r \in Results : helper' = [helper EXCEPT !.clicks = 2, !.ret = r]
      BY <3>1
    <3>3. helper' \in HelperRecord /\ helper'.do = helper.do /\ helper'.clicks = 2
      <4>1. 2 \in 0..2
        OBVIOUS
      <4> QED BY <1>2, <3>2, <4>1 DEF HelperRecord
    <3>4. fl' \in Producer /\ fl'.goLives = fl.goLives
      BY <1>2, <3>1 DEF Producer
    <3> QED BY <3>1, <3>3, <3>4
  <2>8. CASE Inspect
    <3>1. fl.air \in {"none", "live", "ended"}
      BY <1>2 DEF Producer
    <3>2. \E r \in {"live", "ended", "unconfirmed"} : Answer(r)
      BY <2>8, <3>1 DEF Inspect
    <3> QED BY <1>2, <1>4, <3>2 DEF Results
  <2>9. CASE FindField \/ FindOnProfile
    BY <1>2, <2>9 DEF FindField, FindOnProfile, Doing, Producer
  <2>10. CASE SubmitComment
    <3> DEFINE n == IF fl.comments < 2 THEN fl.comments + 1 ELSE fl.comments
               page == [fl EXCEPT !.comments = n]
    <3>1. n \in 0..2
      BY <1>2 DEF Producer
    <3>2. Press(page) /\ helper.do = "comment" /\ helper.clicks = 0
      BY <2>10 DEF SubmitComment, MaySubmit, Doing
    <3> HIDE DEF n
    <3>3. page \in Producer /\ page.goLives = fl.goLives
      BY <1>2, <3>1 DEF Producer
    <3> HIDE DEF page
    <3> QED BY <1>5, <3>2, <3>3
  <2> QED BY <2>1, <2>2, <2>3, <2>4, <2>5, <2>6, <2>7, <2>8, <2>9, <2>10
       DEF HelperRuns, HelperStep, Prepare, Start, End, Comment
<1>7. TypeOK'
  BY <1>1, <1>6 DEF TInv, TypeOK, FacebookTypeOK
<1>8. HelperFits'
  BY <1>1, <1>2, <1>3, <1>6 DEF HelperFits
<1>9. GoLiveOnce'
  <2>1. pc = "starting" \/ helper.do # "start"
    BY <1>2, HelperOfFacts DEF HelperFits, Places, Main, Ends
  <2>2. helper'.clicks \in 0..2
    BY <1>6 DEF HelperRecord
  <2> QED BY <1>1, <1>2, <1>6, <2>1, <2>2 DEF GoLiveOnce
<1>10. StageFits'
  BY <1>1 DEF StageFits, TInv, InSession
<1> QED BY <1>7, <1>8, <1>9, <1>10 DEF TInv

\* The operator, the clock and Facebook leave run_live where it is.
LEMMA TAround ==
  ASSUME TInv,
         \/ Cue \/ EncoderRuns \/ FacebookActs \/ StopLive \/ LimitReached \/ RecoverStale \/ Sweep
         \/ UNCHANGED vars
  PROVE  TInv'
<1> USE DEF Around, liveVars, Calm
<1>1. UNCHANGED <<pc, helper, controls, lock, begun, faults>> /\ fl'.goLives = fl.goLives
  BY Typed DEF Cue, EncoderRuns, EncoderStep, StartPlayback, PlaybackEnds, EncoderFails, SessionExpires,
       FacebookActs, GoesLive, GoesOff, StopLive, LimitReached, RecoverStale, Sweep, vars, Producer
<1>2. fl' \in Producer /\ enc' \in Encoders /\ cued' \in BOOLEAN
  BY Typed DEF Cue, EncoderRuns, EncoderStep, StartPlayback, PlaybackEnds, EncoderFails, SessionExpires,
       FacebookActs, GoesLive, GoesOff, StopLive, LimitReached, RecoverStale, Sweep, vars, Producer, Encoders
<1>3. mem' \in Memory
  <2>1. mem' = mem \/ mem' = [mem EXCEPT !.stop = TRUE]
    BY DEF Cue, EncoderRuns, FacebookActs, StopLive, LimitReached, RecoverStale, Sweep, vars
  <2> QED BY <2>1, MemoryFacts, Typed
<1>4. /\ sess' \in SessionRecord /\ exe' \in Execution
      /\ InSession => sess'.stage \in {"preparing", "active", "over"}
  <2>1. CASE StopLive
    <3> DEFINE x == IF sess.stage = "over" THEN "over" ELSE "active"
               s == [sess EXCEPT !.stage = x]
    <3>1. x \in {"active", "over"} /\ Update(s)
      BY <2>1 DEF StopLive
    <3> HIDE DEF x
    <3>2. s \in SessionRecord /\ s.stage = x
      BY <3>1, Typed DEF SessionRecord
    <3> HIDE DEF s
    <3> QED BY <3>1, <3>2, UpdateFacts, Typed
  <2>2. CASE RecoverStale
    <3>1. Recovered \in {"failed", "uncertain"}
      BY DEF Recovered
    <3>2. exe' = [exe EXCEPT !.status = Recovered] /\ sess' = sess
      BY <2>2 DEF RecoverStale
    <3> QED BY <3>1, <3>2, Typed DEF Execution
  <2>3. CASE ~(StopLive \/ RecoverStale)
    <3>1. UNCHANGED <<sess, exe>>
      BY <2>3 DEF Cue, EncoderRuns, FacebookActs, LimitReached, Sweep, vars
    <3> QED BY <3>1, Typed
  <2> QED BY <2>1, <2>2, <2>3
<1>5. TypeOK'
  BY <1>1, <1>2, <1>3, <1>4 DEF TInv, TypeOK, FacebookTypeOK, Encoders
<1>6. HelperFits' /\ GoLiveOnce'
  BY <1>1, Typed DEF HelperFits, GoLiveOnce
<1>7. StageFits'
  BY <1>1, <1>4 DEF TInv, StageFits, InSession
<1> QED BY <1>5, <1>6, <1>7 DEF TInv

\* A shutdown cancels the task where it is.
LEMMA TCancel ==
  ASSUME TInv, Cancel
  PROVE  TInv'
<1>1. /\ faults < MaxFaults /\ faults' = faults + 1 /\ enc' \in {enc, "off"}
      /\ pc \in (Main \cup {"inspect", "end_late"})
      /\ UNCHANGED <<fl, cued, sess, controls, lock, exe, begun>>
  BY DEF Cancel
<1>2. faults \in 0..MaxFaults
  BY DEF TInv, TypeOK
<1>3. faults' \in 0..MaxFaults
  BY <1>1, <1>2
<1>4. /\ mem' \in Memory
      /\ \/ UNCHANGED <<pc, helper>>
         \/ Goto("encoder", "none") \/ Goto("inspect", "inspect") \/ Goto("judge", "none")
  <2> DEFINE m == [mem EXCEPT !.cut = TRUE]
  <2>1. m \in Memory /\ [mem EXCEPT !.stop = TRUE] \in Memory /\ mem \in Memory
    BY MemoryFacts, Typed
  <2>2. \/ mem' = [mem EXCEPT !.stop = TRUE] /\ UNCHANGED <<pc, helper>>
        \/ mem' = mem /\ Goto("encoder", "none")
        \/ mem' = m /\ Goto("encoder", "none")
        \/ Raise(m)
    BY DEF Cancel
  <2> HIDE DEF m
  <2> QED BY <2>1, <2>2 DEF Raise
<1>5. pc' \in {pc, "encoder", "inspect", "judge"} /\ helper' \in HelperRecord /\ HelperFits'
  <2>1. CASE UNCHANGED <<pc, helper>>
    BY <2>1, Typed DEF HelperFits
  <2>2. CASE Goto("encoder", "none") \/ Goto("judge", "none")
    <3>1. NoHelper \in HelperRecord /\ NoHelper.do = "none"
      BY DEF NoHelper, HelperRecord, Results
    <3> QED BY <2>2, <3>1, HelperOfFacts DEF Goto, HelperFits
  <2>3. CASE Goto("inspect", "inspect")
    <3>1. /\ Helping("inspect") \in HelperRecord /\ Helping("inspect").do = "inspect"
          /\ Helping("inspect").ret = "none"
      BY DEF Helping, NoHelper, HelperRecord, Results, Actions
    <3> QED BY <2>3, <3>1, HelperOfFacts DEF Goto, HelperFits
  <2> QED BY <1>4, <2>1, <2>2, <2>3
<1>6. pc' \in Places /\ InSession /\ InSession'
  BY <1>1, <1>5 DEF Places, InSession, Main, Ends
<1>7. TypeOK'
  BY <1>1, <1>3, <1>4, <1>5, <1>6 DEF TInv, TypeOK, FacebookTypeOK
<1>8. GoLiveOnce'
  BY <1>1, <1>4, <1>5, Typed DEF GoLiveOnce, Goto
<1> QED BY <1>1, <1>5, <1>6, <1>7, <1>8, Typed DEF TInv, StageFits

\* A crash, and what happens while there is no session.
LEMMA TFaults ==
  ASSUME TInv, Crash \/ Restart \/ BatchRetry \/ RunNow \/ Resolve \/ ClearReview
  PROVE  TInv'
<1> USE DEF Outside, ExeBecomes
<1>1. faults' \in 0..MaxFaults
  <2>1. faults \in 0..MaxFaults
    BY DEF TInv, TypeOK
  <2>2. faults' = faults \/ (faults < MaxFaults /\ faults' = faults + 1)
    BY DEF Crash, Restart, BatchRetry, RunNow, Resolve, ClearReview
  <2> QED BY <2>1, <2>2
<1>2. /\ begun' = begun /\ enc' \in {enc, "off"} /\ cued' \in BOOLEAN /\ lock' \in {"free", "ours"}
      /\ mem' \in {mem, NoMemory} /\ fl' \in {fl, FreshPage} /\ helper' \in {helper, NoHelper}
      /\ ~InSession' /\ pc' \in {"off", "down"} /\ controls' \in BOOLEAN
      /\ pc' = "down" => controls' = FALSE /\ helper' = NoHelper
  BY Typed DEF Crash, Restart, BatchRetry, RunNow, Resolve, ClearReview, InSession
<1>3. exe' \in Execution
  <2>1. Recovered \in {"failed", "uncertain"}
    BY DEF Recovered
  <2>2. \/ exe' = exe \/ exe' = [exe EXCEPT !.status = Recovered]
        \/ exe' = [exe EXCEPT !.status = "pending", !.stage = "preparing"]
        \/ \E x \in {"published", "failed"} :
             exe' = [exe EXCEPT !.status = x, !.sent = FALSE, !.stage = "over"]
    BY DEF Crash, Restart, BatchRetry, RunNow, Resolve, ClearReview
  <2> HIDE DEF Recovered
  <2> QED BY <2>1, <2>2, Typed DEF Execution
<1>4. sess' \in SessionRecord
  <2>1. Interrupted(sess) \in {"failed", "needs_review"}
    BY DEF Interrupted
  <2>2. SavedStatus \in SessionRecord
    <3>1. \A x \in {"failed", "needs_review"} :
            [sess EXCEPT !.status = x, !.stage = "over"] \in SessionRecord
      BY Typed DEF SessionRecord
    <3> QED BY <2>1, <3>1, Typed DEF SavedStatus
  <2>3. [SavedStatus EXCEPT !.status = "stopped", !.stage = "reviewed"] \in SessionRecord
    BY <2>2 DEF SessionRecord
  <2>4. sess' \in {sess, SavedStatus, [SavedStatus EXCEPT !.status = "stopped", !.stage = "reviewed"]}
    BY DEF Crash, Restart, BatchRetry, RunNow, Resolve, ClearReview
  <2> QED BY <2>2, <2>3, <2>4, Typed
<1>5. NoHelper \in HelperRecord /\ NoHelper.do = "none"
  BY DEF NoHelper, HelperRecord, Results
<1>6. FreshPage \in Producer /\ FreshPage.goLives = 0
  BY FreshPageFacts, Typed
<1>7. TypeOK'
  BY <1>1, <1>2, <1>3, <1>4, <1>5, <1>6, MemoryFacts, Typed
     DEF TInv, TypeOK, FacebookTypeOK, Places, Encoders
<1>8. HelperFits'
  <2>1. pc \in {"off", "down"} => helper = NoHelper
    BY Typed, HelperOfFacts DEF HelperFits
  <2>2. helper' = NoHelper
    BY <1>2, <2>1 DEF Crash, Restart, BatchRetry, RunNow, Resolve, ClearReview
  <2> QED BY <1>2, <1>5, <2>2, HelperOfFacts DEF HelperFits
<1>9. GoLiveOnce'
  <2>1. pc' = "off" => fl'.goLives = 0
    BY <1>6, Typed DEF GoLiveOnce, Crash, Restart, BatchRetry, RunNow, Resolve, ClearReview
  <2> QED BY <1>2, <2>1 DEF GoLiveOnce
<1> QED BY <1>2, <1>7, <1>8, <1>9 DEF TInv, StageFits

LEMMA InitT == Init => TInv
<1> SUFFICES ASSUME Init PROVE TInv
  OBVIOUS
<1>1. /\ sess = [owner |-> "none", status |-> "idle", stage |-> "idle", confirmed |-> FALSE,
                 comment |-> "none", final |-> "none"]
      /\ pc = "off" /\ helper = NoHelper
  BY DEF Init, FacebookInit, NewSession
<1>2. sess \in SessionRecord /\ exe \in Execution
  <2>1. sess \in SessionRecord
    BY <1>1 DEF SessionRecord
  <2>2. exe = [status |-> "pending", stage |-> "preparing", confirmed |-> FALSE,
               sent |-> FALSE, cut |-> FALSE]
    BY DEF Init
  <2> QED BY <2>1, <2>2 DEF Execution
<1>3. mem \in Memory
  BY DEF Init, Memory, NoMemory
<1>4. fl \in Producer /\ fl.goLives = 0
  <2> DEFINE zero == 0
  <2>1. zero \in 0..2
    OBVIOUS
  <2>2. fl = [air |-> "none", setup |-> "home", found |-> FALSE, dialog |-> "none",
              goLives |-> zero, comments |-> zero]
    BY DEF Init, FacebookInit
  <2> HIDE DEF zero
  <2>3. fl \in Producer /\ fl.goLives = zero
    BY <2>1, <2>2 DEF Producer
  <2> QED BY <2>3 DEF zero
<1>5. helper \in HelperRecord /\ helper.do = "none"
  BY <1>1 DEF NoHelper, HelperRecord, Results
<1>6. TypeOK
  <2>1. FacebookTypeOK
    BY <1>4, <1>5 DEF Init, FacebookInit, FacebookTypeOK
  <2>2. begun \in 0..MaxSessions /\ faults \in 0..MaxFaults
    BY DEF Init
  <2> QED BY <1>1, <1>2, <1>3, <2>1, <2>2 DEF Init, TypeOK, Places
<1> QED BY <1>1, <1>4, <1>5, <1>6, HelperOfFacts DEF TInv, HelperFits, GoLiveOnce, StageFits, InSession

LEMMA NextT == TInv /\ [Next]_vars => TInv'
BY TStart, TBroadcast, TCleanup, TBegin, TRelease, THelper, TAround, TCancel, TFaults DEF Next, RunLive

\* The page, the encoder, the helper, the session file, the record in memory and the
\* queue execution keep their types, for any number of sessions and faults.
THEOREM TypeCorrect == Spec => []TypeOK
<1>1. TInv => TypeOK
  BY DEF TInv
<1> QED BY <1>1, InitT, NextT, PTL DEF Spec

-----------------------------------------------------------------------------
(* Steps of run_live *)

\* The frame of a step that goes on within a session.
Onward ==
  /\ InSession /\ InSession' /\ pc' # "launch"
  /\ helper'.ret = "none" /\ lock' = lock /\ enc' \in {enc, "off"}
  /\ sess'.owner = sess.owner /\ (sess.stage # "preparing" => sess'.stage # "preparing")
  /\ mem'.sent = mem.sent
  /\ exe'.sent = exe.sent /\ exe'.cut = exe.cut
  /\ \/ exe'.status = exe.status /\ exe'.stage = exe.stage
     \/ exe'.status = "running" /\ exe'.stage = sess'.stage /\ sess.owner = "queue"

\* What such a step says of the outcome.
Outcome ==
  /\ sess'.status = "failed" => ~mem.sent
  /\ pc' \in {"encoder", "stop_container"} /\ sess'.status = "running" =>
       mem'.cut \/ sess'.comment = "confirmed"
  /\ pc' = "record" /\ sess'.status = "running" => mem'.cut
  /\ pc' = "record" /\ enc' # "off" => sess'.status = "needs_review" /\ sess'.stage = "over"

LEMMA OnwardIsSafe ==
  ASSUME IInv, Onward, Outcome, Course', Ending'
  PROVE  Safe'
<1>1. AnswersAreTrue'
  BY DEF Onward, AnswersAreTrue
<1>2. Locked'
  BY DEF Onward, Outcome, IInv, Safe, Locked, Ingest, InSession
<1>3. Sent'
  <2>1. /\ mem.sent => sess.stage # "preparing"
        /\ sess.owner = "queue" =>
             exe.status = "running" /\ (exe.sent => mem.sent) /\ (mem.sent => exe.stage # "preparing")
        /\ exe.status = "running" /\ exe.sent => exe.stage # "preparing"
        /\ exe.status = "failed" /\ ~exe.cut => ~exe.sent
    BY DEF Onward, IInv, Safe, Sent, FailedMeansNeverSent
  <2>2. InSession' /\ mem'.sent => sess'.stage # "preparing" /\ sess'.status # "failed"
    BY <2>1 DEF Onward, Outcome
  <2>3. InSession' /\ sess'.owner = "queue" =>
          /\ exe'.status = "running" /\ (exe'.sent => mem'.sent)
          /\ mem'.sent => exe'.stage # "preparing"
    BY <2>1, <2>2 DEF Onward
  <2>4. exe'.status = "running" /\ exe'.sent => exe'.stage # "preparing"
    BY <2>1, <2>2 DEF Onward
  <2>5. FailedMeansNeverSent'
    BY <2>1 DEF Onward, FailedMeansNeverSent
  <2> QED BY <2>2, <2>3, <2>4, <2>5 DEF Onward, Outcome, Sent
<1> QED BY <1>1, <1>2, <1>3 DEF Safe

LEMMA GotoFacts ==
  ASSUME NEW place, NEW action, Goto(place, action)
  PROVE  pc' = place /\ helper'.ret = "none"
BY DEF Goto, NoHelper, Helping

\* A write of the session file, field by field.
LEMMA Written ==
  ASSUME exe \in Execution, NEW s \in SessionRecord, Update(s)
  PROVE  /\ sess' = s /\ exe'.sent = exe.sent /\ exe'.cut = exe.cut
         /\ \/ exe'.status = exe.status /\ exe'.stage = exe.stage
            \/ exe'.status = "running" /\ exe'.stage = s.stage /\ s.owner = "queue"
BY DEF Update, Execution

\* What holds of a session on its way.
LEMMA OnTheWay ==
  ASSUME IInv
  PROVE  /\ Course /\ Ending /\ sess \in SessionRecord /\ mem \in Memory /\ exe \in Execution
         /\ helper \in HelperRecord /\ enc \in Encoders
         /\ helper.do = HelperOf(pc) /\ AnswersAreTrue
BY Typed DEF IInv, Safe, HelperFits

\* The except branch keeps what the session file says.
LEMMA RaiseIsSafe ==
  ASSUME IInv, pc \in Main, NEW m \in Memory, Raise(m), lock' = lock,
         fl'.air = fl.air, enc' \in {enc, "off"}, NEW s \in SessionRecord,
         (UNCHANGED <<sess, exe>> /\ s = sess) \/ Update(s),
         s.owner = sess.owner, s.stage = sess.stage, s.status = sess.status,
         m.sent = mem.sent,
         s.final = "ended" => fl.air = "ended",
         s.comment # "none" => (fl.air = "ended" \/ m.endSent) /\ s.confirmed
  PROVE  Safe'
<1>1. mem' = m /\ pc' \in {"inspect", "judge"} /\ helper'.ret = "none"
  BY GotoFacts DEF Raise
<1>2. /\ sess' = s /\ exe'.sent = exe.sent /\ exe'.cut = exe.cut
      /\ \/ exe'.status = exe.status /\ exe'.stage = exe.stage
         \/ exe'.status = "running" /\ exe'.stage = s.stage /\ s.owner = "queue"
  BY Written, OnTheWay
<1>3. InSession /\ sess.status = "running"
  BY OnTheWay DEF Course, InSession, Main, Ends
<1>4. Onward /\ Outcome
  BY <1>1, <1>2, <1>3 DEF Onward, Outcome, InSession
<1>5. Course'
  BY <1>1, <1>2, <1>3, <1>4 DEF Course, Onward, Main, Ends
<1>6. Ending'
  BY <1>1, <1>2, <1>3, <1>4 DEF Ending, EndKnown, Onward
<1> QED BY <1>4, <1>5, <1>6, OnwardIsSafe


\* A step of run_live to a place with a record and a session file that may stand there.
Moves(s, m, place) ==
  /\ s.owner = sess.owner /\ (sess.stage # "preparing" => s.stage # "preparing")
  /\ m.sent = mem.sent /\ s.status # "idle" /\ (s.status = "failed" => ~mem.sent)
  /\ place \in Main \cup {"inspect", "end_late", "judge"} => s.status = "running"
  /\ place = "end_first" => s.comment = "none"
  /\ place = "comment" => s.comment # "none"
  /\ place = "extra" => s.comment = "confirmed"
  /\ place \in {"end_early", "end_first", "comment", "extra", "play", "watch", "end"} => s.confirmed
  /\ place \in {"encoder", "stop_container"} /\ s.status = "running" =>
       m.cut \/ s.comment = "confirmed"
  /\ place = "record" /\ s.status = "running" => m.cut
  /\ s.final = "ended" => fl.air = "ended"
  /\ s.comment # "none" => (fl.air = "ended" \/ m.endSent) /\ s.confirmed
  /\ s.status \in {"stopped", "completed"} /\ m.sent =>
       (fl.air = "ended" \/ m.endSent) /\ (s.confirmed \/ m.cut)

LEMMA MoveIsSafe ==
  ASSUME IInv, InSession, NEW s \in SessionRecord, NEW m \in Memory,
         NEW place \in Places \ {"container", "prepare", "launch", "starting", "off", "down"},
         NEW action, Goto(place, action), mem' = m,
         (UNCHANGED <<sess, exe>> /\ s = sess) \/ Update(s),
         lock' = lock, fl'.air = fl.air, enc' \in {enc, "off"},
         place = "record" /\ enc' # "off" => s.status = "needs_review" /\ s.stage = "over",
         Moves(s, m, place)
  PROVE  Safe'
<1>1. pc' = place /\ helper'.ret = "none"
  BY GotoFacts
<1>2. /\ sess' = s /\ exe'.sent = exe.sent /\ exe'.cut = exe.cut
      /\ \/ exe'.status = exe.status /\ exe'.stage = exe.stage
         \/ exe'.status = "running" /\ exe'.stage = s.stage /\ s.owner = "queue"
  BY Written, OnTheWay
<1>3. InSession'
  BY <1>1 DEF InSession
<1>4. Onward
  BY <1>1, <1>2, <1>3 DEF Onward, Moves
<1>5. Outcome
  BY <1>1, <1>2 DEF Outcome, Moves
<1>6. Course'
  BY <1>1, <1>2, <1>3 DEF Course, Moves
<1>7. Ending'
  BY <1>1, <1>2, <1>3 DEF Ending, EndKnown, Moves
<1> QED BY <1>4, <1>5, <1>6, <1>7, OnwardIsSafe

\* What a write of one field leaves alone.
LEMMA WithStatus ==
  ASSUME NEW s \in SessionRecord, NEW x \in {"stopped", "completed", "needs_review", "skipped", "failed"}
  PROVE  /\ [s EXCEPT !.status = x] \in SessionRecord /\ [s EXCEPT !.status = x].status = x
         /\ [s EXCEPT !.status = x].owner = s.owner
         /\ [s EXCEPT !.status = x].confirmed = s.confirmed
         /\ [s EXCEPT !.status = x].stage = s.stage
         /\ [s EXCEPT !.status = x].comment = s.comment
         /\ [s EXCEPT !.status = x].final = s.final
BY DEF SessionRecord
LEMMA WithStage ==
  ASSUME NEW s \in SessionRecord, NEW x \in {"active", "over"}
  PROVE  /\ [s EXCEPT !.stage = x] \in SessionRecord /\ [s EXCEPT !.stage = x].stage = x
         /\ [s EXCEPT !.stage = x].owner = s.owner
         /\ [s EXCEPT !.stage = x].confirmed = s.confirmed
         /\ [s EXCEPT !.stage = x].status = s.status
         /\ [s EXCEPT !.stage = x].comment = s.comment
         /\ [s EXCEPT !.stage = x].final = s.final
BY DEF SessionRecord
LEMMA WithConfirmed ==
  ASSUME NEW s \in SessionRecord, NEW x \in BOOLEAN
  PROVE  /\ [s EXCEPT !.confirmed = x] \in SessionRecord /\ [s EXCEPT !.confirmed = x].confirmed = x
         /\ [s EXCEPT !.confirmed = x].owner = s.owner
         /\ [s EXCEPT !.confirmed = x].status = s.status
         /\ [s EXCEPT !.confirmed = x].stage = s.stage
         /\ [s EXCEPT !.confirmed = x].comment = s.comment
         /\ [s EXCEPT !.confirmed = x].final = s.final
BY DEF SessionRecord
LEMMA WithComment ==
  ASSUME NEW s \in SessionRecord, NEW x \in {"attempted", "confirmed", "needs_review"}
  PROVE  /\ [s EXCEPT !.comment = x] \in SessionRecord /\ [s EXCEPT !.comment = x].comment = x
         /\ [s EXCEPT !.comment = x].owner = s.owner
         /\ [s EXCEPT !.comment = x].confirmed = s.confirmed
         /\ [s EXCEPT !.comment = x].status = s.status
         /\ [s EXCEPT !.comment = x].stage = s.stage
         /\ [s EXCEPT !.comment = x].final = s.final
BY DEF SessionRecord
LEMMA WithFinal ==
  ASSUME NEW s \in SessionRecord, NEW x \in {"live", "ended", "unconfirmed"}
  PROVE  /\ [s EXCEPT !.final = x] \in SessionRecord /\ [s EXCEPT !.final = x].final = x
         /\ [s EXCEPT !.final = x].owner = s.owner
         /\ [s EXCEPT !.final = x].confirmed = s.confirmed
         /\ [s EXCEPT !.final = x].status = s.status
         /\ [s EXCEPT !.final = x].stage = s.stage
         /\ [s EXCEPT !.final = x].comment = s.comment
BY DEF SessionRecord
LEMMA MemInspected ==
  ASSUME NEW m \in Memory, NEW b \in BOOLEAN
  PROVE  /\ [m EXCEPT !.inspected = b] \in Memory /\ [m EXCEPT !.inspected = b].inspected = b
         /\ [m EXCEPT !.inspected = b].sent = m.sent
         /\ [m EXCEPT !.inspected = b].cut = m.cut
         /\ [m EXCEPT !.inspected = b].endSent = m.endSent
BY DEF Memory
LEMMA MemTried ==
  ASSUME NEW m \in Memory, NEW b \in BOOLEAN
  PROVE  /\ [m EXCEPT !.endTried = b] \in Memory /\ [m EXCEPT !.endTried = b].endTried = b
         /\ [m EXCEPT !.endTried = b].sent = m.sent
         /\ [m EXCEPT !.endTried = b].cut = m.cut
         /\ [m EXCEPT !.endTried = b].endSent = m.endSent
BY DEF Memory
LEMMA MemFirst ==
  ASSUME NEW m \in Memory, NEW b \in BOOLEAN
  PROVE  /\ [m EXCEPT !.endFirst = b] \in Memory /\ [m EXCEPT !.endFirst = b].endFirst = b
         /\ [m EXCEPT !.endFirst = b].sent = m.sent
         /\ [m EXCEPT !.endFirst = b].cut = m.cut
         /\ [m EXCEPT !.endFirst = b].endSent = m.endSent
BY DEF Memory
LEMMA MemSent ==
  ASSUME NEW m \in Memory, NEW b \in BOOLEAN
  PROVE  /\ [m EXCEPT !.endSent = b] \in Memory /\ [m EXCEPT !.endSent = b].endSent = b
         /\ [m EXCEPT !.endSent = b].sent = m.sent
         /\ [m EXCEPT !.endSent = b].cut = m.cut
BY DEF Memory
LEMMA MemCut ==
  ASSUME NEW m \in Memory, NEW b \in BOOLEAN
  PROVE  /\ [m EXCEPT !.cut = b] \in Memory /\ [m EXCEPT !.cut = b].cut = b
         /\ [m EXCEPT !.cut = b].sent = m.sent
         /\ [m EXCEPT !.cut = b].endSent = m.endSent
BY DEF Memory
LEMMA MemStop ==
  ASSUME NEW m \in Memory, NEW b \in BOOLEAN
  PROVE  /\ [m EXCEPT !.stop = b] \in Memory /\ [m EXCEPT !.stop = b].stop = b
         /\ [m EXCEPT !.stop = b].sent = m.sent
         /\ [m EXCEPT !.stop = b].cut = m.cut
         /\ [m EXCEPT !.stop = b].endSent = m.endSent
BY DEF Memory

LEMMA FinishIsSafe ==
  ASSUME IInv, InSession, NEW s \in SessionRecord, NEW place \in {"encoder", "record"},
         Finished(s, place), lock' = lock, fl'.air = fl.air, enc' \in {enc, "off"},
         place = "record" /\ enc' # "off" => s.status = "needs_review",
         Moves([s EXCEPT !.stage = "over"], mem, place)
  PROVE  Safe'
<1> DEFINE t == [s EXCEPT !.stage = "over"]
<1>1. t \in SessionRecord /\ t.status = s.status /\ t.stage = "over"
  BY WithStage
<1>2. Update(t) /\ Goto(place, "none") /\ mem' = mem
  BY DEF Finished
<1>3. Moves(t, mem, place)
  OBVIOUS
<1> HIDE DEF t
<1> QED BY <1>1, <1>2, <1>3, MoveIsSafe, OnTheWay DEF Places

\* A step that leaves the session file alone.
LEMMA StayIsSafe ==
  ASSUME IInv, InSession, NEW m \in Memory,
         NEW place \in Places \ {"container", "prepare", "launch", "starting", "off", "down"},
         NEW action, Goto(place, action), mem' = m, UNCHANGED <<sess, exe, lock>>,
         fl'.air = fl.air, enc' \in {enc, "off"}, place # "record",
         Moves(sess, m, place)
  PROVE  Safe'
BY MoveIsSafe, OnTheWay

\* Raising where a task may, with what the session file says.
LEMMA SRaises ==
  ASSUME IInv, Raises
  PROVE  Safe'
<1> USE DEF Calm, Outside
<1> DEFINE m == Blocked(mem)
<1>1. m \in Memory /\ m.sent = mem.sent /\ m.endSent = mem.endSent
  BY MemoryFacts, BlockedFacts, OnTheWay
<1>2. pc \in Main /\ Raise(m) /\ lock' = lock /\ UNCHANGED <<sess, exe>> /\ fl' = fl /\ enc' = enc
  BY DEF Raises
<1>3. /\ sess.final = "ended" => fl.air = "ended"
      /\ sess.comment # "none" => (fl.air = "ended" \/ m.endSent) /\ sess.confirmed
  BY <1>1, <1>2, OnTheWay DEF Ending, EndKnown, InSession, Main, Ends
<1> HIDE DEF m
<1> QED BY <1>1, <1>2, <1>3, RaiseIsSafe, OnTheWay

LEMMA SConfirmed ==
  ASSUME IInv, StartConfirmed
  PROVE  Safe'
<1> USE DEF Calm, Outside
<1> DEFINE s == [sess EXCEPT !.confirmed = TRUE]
<1>1. /\ s \in SessionRecord /\ s.confirmed /\ s.owner = sess.owner /\ s.stage = sess.stage
      /\ s.status = sess.status /\ s.comment = sess.comment /\ s.final = sess.final
  BY WithConfirmed, OnTheWay
<1>2. /\ InSession /\ sess.status = "running" /\ sess.comment = "none"
      /\ sess.final = "ended" => fl.air = "ended"
  BY OnTheWay DEF StartConfirmed, Course, Ending, InSession, Main
<1>3. Update(s) /\ lock' = lock /\ fl' = fl /\ enc' = enc
  BY DEF StartConfirmed
<1>4. CASE mem.wants /\ ~mem.stop
  <2> DEFINE first == [mem EXCEPT !.endFirst = TRUE]
             m == [first EXCEPT !.endTried = TRUE]
  <2>f. first \in Memory /\ first.sent = mem.sent
    BY MemFirst, OnTheWay
  <2>2. mem' = m /\ Goto("end_first", "end")
    BY <1>4 DEF StartConfirmed, EndBroadcast
  <2> HIDE DEF first
  <2>1. m \in Memory /\ m.sent = mem.sent
    BY MemTried, <2>f
  <2> HIDE DEF m, s
  <2>3. Moves(s, m, "end_first")
    BY <1>1, <1>2, <2>1 DEF Moves
  <2> QED BY <1>1, <1>2, <1>3, <2>1, <2>2, <2>3, MoveIsSafe DEF Places, Main, Ends
<1>5. CASE ~(mem.wants /\ ~mem.stop)
  <2>1. mem' = mem /\ Goto("play", "none")
    BY <1>5 DEF StartConfirmed
  <2> HIDE DEF s
  <2>2. Moves(s, mem, "play")
    BY <1>1, <1>2 DEF Moves
  <2> QED BY <1>1, <1>2, <1>3, <2>1, <2>2, MoveIsSafe, OnTheWay DEF Places, Main, Ends
<1> QED BY <1>4, <1>5

LEMMA SInterrupted ==
  ASSUME IInv, StartInterrupted
  PROVE  Safe'
<1> USE DEF Calm, Outside
<1> DEFINE m == [mem EXCEPT !.inspected = TRUE]
<1>1. m \in Memory /\ m.sent = mem.sent /\ m.endSent = mem.endSent /\ m.cut = mem.cut
  BY MemInspected, OnTheWay
<1>2. /\ InSession /\ sess.status = "running" /\ sess.comment = "none"
      /\ sess.final = "ended" => fl.air = "ended"
  BY OnTheWay DEF StartInterrupted, Course, Ending, InSession, Main
<1> HIDE DEF m
<1>3. Moves(sess, m, "early_inspect")
  BY <1>1, <1>2 DEF Moves
<1>4. Goto("early_inspect", "inspect") /\ mem' = m /\ UNCHANGED <<sess, exe, lock, fl, enc>>
  BY DEF StartInterrupted, m
<1> QED BY <1>1, <1>2, <1>3, <1>4, StayIsSafe DEF Places, Main

\* Before the judgement the session is running, and what its file says is so.
LEMMA Underway ==
  ASSUME IInv, pc \in Main \cup {"inspect", "end_late", "judge"}
  PROVE  /\ InSession /\ sess.status = "running"
         /\ sess.final = "ended" => fl.air = "ended"
         /\ sess.comment # "none" => (fl.air = "ended" \/ mem.endSent) /\ sess.confirmed
<1>1. InSession
  BY DEF InSession, Main, Ends
<1> QED BY <1>1, OnTheWay DEF Course, Ending, EndKnown

\* The answers of an ended broadcast.
LEMMA EndSeen ==
  ASSUME IInv
  PROVE  /\ pc \in Ends /\ helper.ret = "ok" => fl.air = "ended"
         /\ helper.ret = "ended" => fl.air = "ended"
BY OnTheWay, HelperOfFacts DEF AnswersAreTrue

LEMMA SEarlyInspected ==
  ASSUME IInv, EarlyInspected
  PROVE  Safe'
<1> USE DEF Calm, Outside
<1>1. pc = "early_inspect" /\ UNCHANGED <<fl, enc, lock>> /\ pc \in Main
  BY DEF EarlyInspected, Main
<1>2. CASE helper.ret = "live"
  <2> DEFINE s1 == [sess EXCEPT !.final = "live"]
             s == [s1 EXCEPT !.confirmed = TRUE]
             m == [mem EXCEPT !.endTried = TRUE]
  <2>1. Update(s) /\ mem' = m /\ Goto("end_early", "end")
    BY <1>2 DEF EarlyInspected, EndBroadcast
  <2>2. m \in Memory /\ m.sent = mem.sent /\ m.endSent = mem.endSent /\ m.cut = mem.cut
    BY MemTried, OnTheWay
  <2>3. /\ s1 \in SessionRecord /\ s1.owner = sess.owner /\ s1.stage = sess.stage
        /\ s1.status = sess.status /\ s1.comment = sess.comment /\ s1.final = "live"
    BY WithFinal, OnTheWay
  <2> HIDE DEF m, s1
  <2>4. /\ s \in SessionRecord /\ s.owner = sess.owner /\ s.stage = sess.stage
        /\ s.status = sess.status /\ s.comment = sess.comment /\ s.final = "live" /\ s.confirmed
    BY <2>3, WithConfirmed
  <2> HIDE DEF s
  <2>5. Moves(s, m, "end_early")
    BY <1>1, <2>2, <2>4, Underway DEF Moves
  <2> QED BY <1>1, <2>1, <2>2, <2>4, <2>5, Underway, MoveIsSafe DEF Places, Main, Ends
<1>3. CASE helper.ret # "live"
  <2> DEFINE m == Blocked(mem)
             s == IF HelperLost THEN sess ELSE [sess EXCEPT !.final = helper.ret]
  <2>1. Update(s) /\ mem' = m /\ Goto("judge", "none")
    BY <1>3 DEF EarlyInspected
  <2>2. m \in Memory /\ m.sent = mem.sent /\ m.endSent = mem.endSent /\ m.cut = mem.cut
    BY MemoryFacts, BlockedFacts, OnTheWay
  <2> HIDE DEF m
  <2>3. ~HelperLost => helper.ret \in {"ended", "unconfirmed"}
    BY <1>1, <1>3, OnTheWay, HelperOfFacts, Typed DEF EarlyInspected, HelperFits, HelperLost, IInv
  <2>4. /\ s \in SessionRecord /\ s.owner = sess.owner /\ s.stage = sess.stage
        /\ s.status = sess.status /\ s.comment = sess.comment /\ s.confirmed = sess.confirmed
        /\ s.final = sess.final \/ s.final = helper.ret
    <3>1. CASE HelperLost
      BY <3>1, OnTheWay
    <3>2. CASE ~HelperLost
      <4>1. sess \in SessionRecord /\ helper.ret \in {"live", "ended", "unconfirmed"}
        BY <2>3, <3>2, OnTheWay
      <4>2. s = [sess EXCEPT !.final = helper.ret]
        BY <3>2
      <4> HIDE DEF s
      <4> QED BY <4>1, <4>2, WithFinal
    <3> QED BY <3>1, <3>2
  <2> HIDE DEF s
  <2>5. Moves(s, m, "judge")
    BY <1>1, <2>2, <2>4, Underway, EndSeen DEF Moves
  <2> QED BY <1>1, <2>1, <2>2, <2>4, <2>5, Underway, MoveIsSafe DEF Places, Main, Ends
<1> QED BY <1>2, <1>3

\* The record of a broadcast seen to end.
LEMMA EndedFacts ==
  ASSUME NEW s \in SessionRecord
  PROVE  /\ Ended(s) \in SessionRecord /\ Ended(s).owner = s.owner /\ Ended(s).stage = s.stage
         /\ Ended(s).status = s.status /\ Ended(s).comment = s.comment
         /\ Ended(s).confirmed = s.confirmed /\ Ended(s).final = "ended"
BY WithFinal DEF Ended

\* A session whose broadcast was seen to end is over, and was confirmed or is cut.
LEMMA EndIsSafe ==
  ASSUME IInv, pc \in Main \cup {"inspect", "end_late", "judge"}, fl.air = "ended",
         sess.confirmed \/ mem.cut, NEW x \in {"stopped", "completed"},
         Finished([Ended(sess) EXCEPT !.status = x], "encoder"), Calm, Outside
  PROVE  Safe'
<1> DEFINE e == Ended(sess)
           s == [e EXCEPT !.status = x]
           t == [s EXCEPT !.stage = "over"]
<1>1. /\ e \in SessionRecord /\ e.owner = sess.owner
      /\ e.comment = sess.comment /\ e.confirmed = sess.confirmed /\ e.final = "ended"
  BY EndedFacts, OnTheWay
<1>2. Finished(s, "encoder")
  OBVIOUS
<1> HIDE DEF e
<1>3. /\ s \in SessionRecord /\ s.owner = sess.owner /\ s.status = x
      /\ s.comment = sess.comment /\ s.confirmed = sess.confirmed /\ s.final = "ended"
  <2>1. x \in {"stopped", "completed", "needs_review", "skipped", "failed"} /\ e \in SessionRecord
    BY <1>1
  <2>2. /\ s \in SessionRecord /\ s.owner = e.owner /\ s.status = x
        /\ s.comment = e.comment /\ s.confirmed = e.confirmed /\ s.final = e.final
    BY <2>1, WithStatus, ZenonT(60)
  <2> HIDE DEF s
  <2> QED BY <1>1, <2>2
<1> HIDE DEF s
<1>4. /\ t \in SessionRecord /\ t.owner = sess.owner /\ t.status = x /\ t.stage = "over"
      /\ t.comment = sess.comment /\ t.confirmed = sess.confirmed /\ t.final = "ended"
  BY <1>3, WithStage
<1>5. Moves(t, mem, "encoder")
  <2> HIDE DEF t
  <2> QED BY <1>4, Underway DEF Moves, Main, Ends
<1>6. lock' = lock /\ fl' = fl /\ enc' = enc
  BY DEF Calm, Outside
<1> QED BY <1>2, <1>3, <1>5, <1>6, Underway, FinishIsSafe

LEMMA SEarlyEnded ==
  ASSUME IInv, EarlyEnded
  PROVE  Safe'
<1>1. /\ pc = "end_early" /\ pc \in Ends /\ pc \in Main /\ Calm /\ Outside /\ helper.ret = "ok"
  BY DEF EarlyEnded, Main, Ends
<1>2. fl.air = "ended" /\ sess.confirmed
  BY <1>1, EndSeen, OnTheWay DEF Course
<1>3. CASE mem.stop \/ enc # "failed"
  <2>1. StoppedOr("completed") \in {"stopped", "completed"}
    BY DEF StoppedOr
  <2>2. Finished([Ended(sess) EXCEPT !.status = StoppedOr("completed")], "encoder")
    BY <1>3 DEF EarlyEnded
  <2> QED BY <1>1, <1>2, <2>1, <2>2, EndIsSafe
<1>4. CASE ~(mem.stop \/ enc # "failed")
  <2> DEFINE s == Ended(sess)
  <2>1. Update(s) /\ mem' = mem /\ Goto("judge", "none")
    BY <1>4 DEF EarlyEnded
  <2>2. /\ s \in SessionRecord /\ s.owner = sess.owner /\ s.stage = sess.stage
        /\ s.status = sess.status /\ s.comment = sess.comment /\ s.confirmed = sess.confirmed
    BY EndedFacts, OnTheWay
  <2> HIDE DEF s
  <2>3. Moves(s, mem, "judge")
    BY <1>1, <1>2, <2>2, Underway DEF Moves
  <2> QED BY <1>1, <2>1, <2>2, <2>3, Underway, OnTheWay, MoveIsSafe DEF Places, Calm, Outside, Main, Ends
<1> QED BY <1>3, <1>4

LEMMA SBroadcastEnded ==
  ASSUME IInv, BroadcastEnded
  PROVE  Safe'
<1>1. pc \in Ends /\ pc \in Main /\ Calm /\ Outside /\ helper.ret = "ok"
  BY DEF BroadcastEnded, Main, Ends
<1>2. fl.air = "ended" /\ sess.confirmed
  BY <1>1, EndSeen, OnTheWay DEF Course, BroadcastEnded
<1>3. StoppedOr("completed") \in {"stopped", "completed"}
  BY DEF StoppedOr
<1>4. Finished([Ended(sess) EXCEPT !.status = StoppedOr("completed")], "encoder")
  BY DEF BroadcastEnded
<1> QED BY <1>1, <1>2, <1>3, <1>4, EndIsSafe

LEMMA SFirstEnded ==
  ASSUME IInv, FirstEnded
  PROVE  Safe'
<1> USE DEF Calm
<1>1. /\ pc = "end_first" /\ pc \in Ends /\ pc \in Main /\ helper.ret \in {"ok", "end_sent"}
      /\ enc' = "off" /\ lock' = lock /\ fl' = fl
  BY DEF FirstEnded, Main, Ends
<1>2. sess.confirmed /\ sess.comment = "none" /\ (helper.ret = "ok" => fl.air = "ended")
  BY <1>1, EndSeen, OnTheWay DEF Course
<1> DEFINE f == IF helper.ret = "ok" THEN "ended" ELSE "unconfirmed"
           b == helper.ret = "end_sent"
           s == [sess EXCEPT !.final = f]
           m == [mem EXCEPT !.endSent = b]
<1>3. IF mem.stop THEN Update(s) /\ Raise(m)
      ELSE /\ Update([s EXCEPT !.comment = "attempted"])
           /\ mem' = m /\ Goto("comment", "comment")
  BY DEF FirstEnded
<1>4. f \in {"live", "ended", "unconfirmed"} /\ b \in BOOLEAN /\ (f = "ended" => fl.air = "ended")
      /\ (fl.air = "ended" \/ b)
  BY <1>1, <1>2
<1> HIDE DEF f, b
<1>5. /\ s \in SessionRecord /\ s.owner = sess.owner /\ s.stage = sess.stage
      /\ s.status = sess.status /\ s.comment = "none" /\ s.confirmed /\ s.final = f
  <2>1. sess \in SessionRecord /\ f \in {"live", "ended", "unconfirmed"}
    BY <1>4, OnTheWay
  <2>2. /\ s \in SessionRecord /\ s.owner = sess.owner /\ s.stage = sess.stage /\ s.final = f
        /\ s.status = sess.status /\ s.comment = sess.comment /\ s.confirmed = sess.confirmed
    BY <2>1, WithFinal
  <2> HIDE DEF s
  <2> QED BY <1>2, <2>2
<1>6. m \in Memory /\ m.sent = mem.sent /\ m.endSent = b /\ m.cut = mem.cut
  BY <1>4, MemSent, OnTheWay
<1> HIDE DEF s, m
<1>7. CASE mem.stop
  <2>1. Update(s) /\ Raise(m)
    BY <1>3, <1>7
  <2> QED BY <1>1, <1>4, <1>5, <1>6, <2>1, RaiseIsSafe
<1>8. CASE ~mem.stop
  <2> DEFINE t == [s EXCEPT !.comment = "attempted"]
  <2>1. Update(t) /\ mem' = m /\ Goto("comment", "comment")
    BY <1>3, <1>8
  <2>2. /\ t \in SessionRecord /\ t.owner = s.owner /\ t.stage = s.stage
        /\ t.status = s.status /\ t.comment = "attempted" /\ t.confirmed = s.confirmed
        /\ t.final = s.final
    BY <1>5, WithComment
  <2> HIDE DEF t
  <2>3. Moves(t, m, "comment")
    BY <1>1, <1>4, <1>5, <1>6, <2>2, Underway DEF Moves
  <2> QED BY <1>1, <1>6, <2>1, <2>2, <2>3, Underway, MoveIsSafe DEF Places, Main
<1> QED BY <1>7, <1>8

LEMMA SCommented ==
  ASSUME IInv, CommentConfirmed \/ CommentLost \/ OptionalFinish
  PROVE  Safe'
<1> USE DEF Calm, Outside
<1>1. /\ pc \in {"comment", "extra"} /\ pc \in Main /\ UNCHANGED <<lock, fl, enc>>
  BY DEF CommentConfirmed, CommentLost, OptionalFinish, Main
<1>2. /\ pc = "comment" => sess.comment # "none"
      /\ pc = "extra" => sess.comment = "confirmed"
  BY OnTheWay DEF Course
<1>3. ASSUME NEW x \in {"confirmed", "needs_review"}
      PROVE  /\ [sess EXCEPT !.comment = x] \in SessionRecord
             /\ [sess EXCEPT !.comment = x].owner = sess.owner
             /\ [sess EXCEPT !.comment = x].stage = sess.stage
             /\ [sess EXCEPT !.comment = x].status = sess.status
             /\ [sess EXCEPT !.comment = x].comment = x
             /\ [sess EXCEPT !.comment = x].final = sess.final
             /\ [sess EXCEPT !.comment = x].confirmed = sess.confirmed
  <2>1. sess \in SessionRecord /\ x \in {"attempted", "confirmed", "needs_review"}
    BY <1>3, OnTheWay
  <2> QED BY <2>1, WithComment
<1>4. CASE CommentConfirmed
  <2> DEFINE s == [sess EXCEPT !.comment = "confirmed"]
  <2>1. Update(s) /\ mem' = mem /\ Goto("extra", "finish") /\ pc = "comment"
    BY <1>4 DEF CommentConfirmed
  <2>2. /\ s \in SessionRecord /\ s.owner = sess.owner /\ s.stage = sess.stage
        /\ s.status = sess.status /\ s.comment = "confirmed" /\ s.final = sess.final
        /\ s.confirmed = sess.confirmed
    BY <1>3
  <2> HIDE DEF s
  <2>3. Moves(s, mem, "extra")
    BY <1>1, <1>2, <2>1, <2>2, Underway DEF Moves
  <2> QED BY <1>1, <2>1, <2>2, <2>3, Underway, OnTheWay, MoveIsSafe DEF Places, Main
<1>5. CASE CommentLost
  <2> DEFINE s == [sess EXCEPT !.comment = "needs_review"]
             m == Blocked(mem)
  <2>1. Update(s) /\ Raise(m) /\ pc = "comment"
    BY <1>5 DEF CommentLost
  <2>2. /\ s \in SessionRecord /\ s.owner = sess.owner /\ s.stage = sess.stage
        /\ s.status = sess.status /\ s.final = sess.final /\ s.confirmed = sess.confirmed
    BY <1>3
  <2>3. m \in Memory /\ m.sent = mem.sent /\ m.endSent = mem.endSent
    BY MemoryFacts, BlockedFacts, OnTheWay
  <2> HIDE DEF s, m
  <2> QED BY <1>1, <1>2, <2>1, <2>2, <2>3, Underway, RaiseIsSafe
<1>6. CASE OptionalFinish
  <2>1. Goto("encoder", "none") /\ UNCHANGED <<sess, mem, exe>> /\ pc = "extra"
    BY <1>6 DEF OptionalFinish
  <2>2. Moves(sess, mem, "encoder")
    BY <1>1, <1>2, <2>1, Underway DEF Moves, Main, Ends
  <2> QED BY <1>1, <2>1, <2>2, Underway, OnTheWay, StayIsSafe DEF Places
<1> QED BY <1>4, <1>5, <1>6

LEMMA SPlayed ==
  ASSUME IInv, Playing \/ Watched
  PROVE  Safe'
<1> USE DEF Calm, Outside
<1>1. /\ pc \in {"play", "watch"} /\ pc \in Main /\ UNCHANGED <<lock, fl, enc, sess, exe>>
  BY DEF Playing, Watched, Main
<1>2. sess.confirmed
  BY <1>1, OnTheWay DEF Course
<1>3. CASE Playing
  <2>1. Goto("watch", "none") /\ mem' = mem
    BY <1>3 DEF Playing
  <2>2. Moves(sess, mem, "watch")
    BY <1>1, <1>2, Underway DEF Moves
  <2> QED BY <1>1, <2>1, <2>2, Underway, OnTheWay, StayIsSafe DEF Places, Main
<1>4. CASE Watched
  <2> DEFINE m == [mem EXCEPT !.endTried = TRUE]
  <2>1. Goto("end", "end") /\ mem' = m
    BY <1>4 DEF Watched, EndBroadcast
  <2>2. m \in Memory /\ m.sent = mem.sent /\ m.endSent = mem.endSent /\ m.cut = mem.cut
    BY MemTried, OnTheWay
  <2> HIDE DEF m
  <2>3. Moves(sess, m, "end")
    BY <1>1, <1>2, <2>2, Underway DEF Moves
  <2> QED BY <1>1, <2>1, <2>2, <2>3, Underway, StayIsSafe DEF Places, Main, Ends
<1> QED BY <1>3, <1>4

\* What the except branch makes of a look at the page.
LEMMA SeenIsSafe ==
  ASSUME IInv, pc \in {"inspect", "end_late"}, NEW f \in {"live", "ended", "unconfirmed"},
         f = "ended" => fl.air = "ended", Seen([sess EXCEPT !.final = f]), Calm, Outside
  PROVE  Safe'
<1> DEFINE s == [sess EXCEPT !.final = f]
<1>1. /\ s \in SessionRecord /\ s.owner = sess.owner /\ s.stage = sess.stage /\ s.final = f
      /\ s.status = sess.status /\ s.comment = sess.comment /\ s.confirmed = sess.confirmed
  BY WithFinal, OnTheWay
<1>2. lock' = lock /\ fl' = fl /\ enc' = enc
  BY DEF Calm, Outside
<1>3. CASE mem.cut /\ SeenOver(s) /\ ~mem.endFirst
  <2>1. f = "ended" /\ s = Ended(sess) /\ fl.air = "ended"
    BY <1>1, <1>3 DEF SeenOver, Ended
  <2>2. Finished([s EXCEPT !.status = "stopped"], "encoder")
    BY <1>3 DEF Seen
  <2>3. Finished([Ended(sess) EXCEPT !.status = "stopped"], "encoder")
    <3> HIDE DEF s
    <3> QED BY <2>1, <2>2
  <2> QED BY <1>3, <2>1, <2>3, EndIsSafe
<1>4. CASE ~(mem.cut /\ SeenOver(s) /\ ~mem.endFirst)
  <2>1. Update(s) /\ mem' = mem /\ Goto("judge", "none")
    BY <1>4 DEF Seen
  <2> HIDE DEF s
  <2>2. Moves(s, mem, "judge")
    BY <1>1, Underway DEF Moves
  <2> QED BY <1>1, <1>2, <2>1, <2>2, Underway, OnTheWay, MoveIsSafe DEF Places
<1> QED BY <1>3, <1>4

LEMMA SInspected ==
  ASSUME IInv, Inspected
  PROVE  Safe'
<1>1. pc = "inspect" /\ helper.ret # "none" /\ Calm /\ Outside /\ lock' = lock /\ fl' = fl /\ enc' = enc
  BY DEF Inspected, Calm, Outside
<1>2. CASE HelperLost
  <2> DEFINE m == Blocked(mem)
  <2>1. mem' = m /\ Goto("judge", "none") /\ UNCHANGED <<sess, exe>>
    BY <1>2 DEF Inspected
  <2>2. m \in Memory /\ m.sent = mem.sent /\ m.endSent = mem.endSent
    BY MemoryFacts, BlockedFacts, OnTheWay
  <2> HIDE DEF m
  <2>3. Moves(sess, m, "judge")
    BY <1>1, <2>2, Underway DEF Moves
  <2> QED BY <1>1, <2>1, <2>2, <2>3, Underway, StayIsSafe DEF Places
<1>3. CASE ~HelperLost
  <2>1. helper.ret \in {"live", "ended", "unconfirmed"}
    BY <1>1, <1>3, OnTheWay, HelperOfFacts, Typed DEF HelperFits, HelperLost, IInv
  <2> DEFINE f == helper.ret
             s == [sess EXCEPT !.final = f]
  <2>2. /\ s \in SessionRecord /\ s.owner = sess.owner /\ s.stage = sess.stage /\ s.final = f
        /\ s.status = sess.status /\ s.comment = sess.comment /\ s.confirmed = sess.confirmed
    BY <2>1, WithFinal, OnTheWay
  <2>3. IF s.final = "live" /\ ~mem.endTried THEN Update(s) /\ EndBroadcast("end_late", mem)
        ELSE Seen(s)
    BY <1>3 DEF Inspected
  <2>4. CASE s.final = "live" /\ ~mem.endTried
    <3> DEFINE m == [mem EXCEPT !.endTried = TRUE]
    <3>1. Update(s) /\ mem' = m /\ Goto("end_late", "end")
      BY <2>3, <2>4 DEF EndBroadcast
    <3>2. m \in Memory /\ m.sent = mem.sent /\ m.endSent = mem.endSent /\ m.cut = mem.cut
      BY MemTried, OnTheWay
    <3> HIDE DEF m, s
    <3>3. Moves(s, m, "end_late")
      BY <1>1, <2>2, <2>4, <3>2, Underway DEF Moves
    <3> QED BY <1>1, <2>2, <3>1, <3>2, <3>3, Underway, MoveIsSafe DEF Places
  <2>5. CASE ~(s.final = "live" /\ ~mem.endTried)
    <3>1. Seen([sess EXCEPT !.final = f])
      BY <2>3, <2>5
    <3>2. f = "ended" => fl.air = "ended"
      BY EndSeen
    <3> HIDE DEF f
    <3> QED BY <1>1, <2>1, <3>1, <3>2, SeenIsSafe DEF f
  <2> QED BY <2>4, <2>5
<1> QED BY <1>2, <1>3

LEMMA SLate ==
  ASSUME IInv, LateEnded \/ LateLost
  PROVE  Safe'
<1>1. pc = "end_late" /\ Calm /\ Outside /\ lock' = lock /\ fl' = fl /\ enc' = enc
  BY DEF LateEnded, LateLost, Calm, Outside
<1>2. CASE LateEnded
  <2>1. fl.air = "ended" /\ Seen([sess EXCEPT !.final = "ended"])
    BY <1>1, <1>2, EndSeen DEF LateEnded, Ended, Ends
  <2> QED BY <1>1, <2>1, SeenIsSafe
<1>3. CASE LateLost
  <2> DEFINE m == Blocked(mem)
  <2>1. mem' = m /\ Goto("judge", "none") /\ UNCHANGED <<sess, exe>>
    BY <1>3 DEF LateLost
  <2>2. m \in Memory /\ m.sent = mem.sent /\ m.endSent = mem.endSent
    BY MemoryFacts, BlockedFacts, OnTheWay
  <2> HIDE DEF m
  <2>3. Moves(sess, m, "judge")
    BY <1>1, <2>2, Underway DEF Moves
  <2> QED BY <1>1, <2>1, <2>2, <2>3, Underway, StayIsSafe DEF Places
<1> QED BY <1>2, <1>3

LEMMA SJudge ==
  ASSUME IInv, Judge
  PROVE  Safe'
<1> DEFINE x == Verdict
           s == [sess EXCEPT !.status = x]
           t == [s EXCEPT !.stage = "over"]
<1>1. pc = "judge" /\ Finished(s, "encoder") /\ lock' = lock /\ fl' = fl /\ enc' = enc
  BY DEF Judge, Calm, Outside
<1>2. /\ x \in {"stopped", "completed", "needs_review", "skipped", "failed"}
      /\ x \in {"stopped", "completed", "failed"} => ~mem.sent
  BY DEF Verdict, StoppedOr
<1> HIDE DEF x
<1>3. /\ s \in SessionRecord /\ s.owner = sess.owner /\ s.status = x
      /\ s.comment = sess.comment /\ s.confirmed = sess.confirmed /\ s.final = sess.final
  BY <1>2, WithStatus, OnTheWay, ZenonT(60)
<1> HIDE DEF s
<1>4. /\ t \in SessionRecord /\ t.owner = sess.owner /\ t.status = x /\ t.stage = "over"
      /\ t.comment = sess.comment /\ t.confirmed = sess.confirmed /\ t.final = sess.final
  BY <1>3, WithStage
<1>5. Moves(t, mem, "encoder")
  <2> HIDE DEF t
  <2> QED BY <1>1, <1>2, <1>4, Underway DEF Moves, Main, Ends
<1> QED BY <1>1, <1>3, <1>5, Underway, FinishIsSafe

\* Cleaning up: what is settled stays settled.
LEMMA CleaningUp ==
  ASSUME IInv, pc \in {"encoder", "stop_container", "record"}
  PROVE  /\ InSession /\ sess.status # "idle" /\ (sess.status = "failed" => ~mem.sent)
         /\ sess.final = "ended" => fl.air = "ended"
         /\ sess.comment # "none" => (fl.air = "ended" \/ mem.endSent) /\ sess.confirmed
         /\ sess.status \in {"stopped", "completed"} /\ mem.sent =>
              (fl.air = "ended" \/ mem.endSent) /\ (sess.confirmed \/ mem.cut)
         /\ pc # "record" /\ sess.status = "running" => mem.cut \/ sess.comment = "confirmed"
         /\ sess.owner = "queue" => exe.status = "running" /\ (exe.sent => mem.sent)
<1>1. InSession
  BY DEF InSession
<1> QED BY <1>1, OnTheWay DEF Course, Ending, EndKnown, IInv, Safe, Sent

LEMMA SCleanup ==
  ASSUME IInv, StopEncoder \/ StopContainer
  PROVE  Safe'
<1>1. pc \in {"encoder", "stop_container"} /\ UNCHANGED <<lock, fl>>
  BY DEF StopEncoder, StopContainer, Calm
<1>2. CASE StopEncoder
  <2>1. Goto("stop_container", "none") /\ UNCHANGED <<sess, mem, exe>> /\ enc' \in {enc, "off"}
    BY <1>2 DEF StopEncoder
  <2>2. Moves(sess, mem, "stop_container")
    BY <1>1, CleaningUp, <1>2 DEF Moves, StopEncoder, Main, Ends
  <2> QED BY <1>1, <2>1, <2>2, CleaningUp, OnTheWay, StayIsSafe DEF Places
<1>3. CASE StopContainer
  <2>1. ASSUME NEW s \in SessionRecord, Finished(s, "record"), enc' \in {enc, "off"},
               enc' # "off" => s.status = "needs_review",
               s.owner = sess.owner, s.final = sess.final, s.comment = sess.comment,
               s.confirmed = sess.confirmed,
               \/ s.status = sess.status /\ sess.comment # "confirmed"
               \/ s.status = "completed" /\ sess.comment = "confirmed"
               \/ s.status = "needs_review"
        PROVE  Safe'
    <3> DEFINE t == [s EXCEPT !.stage = "over"]
    <3>1. /\ t \in SessionRecord /\ t.owner = sess.owner /\ t.status = s.status
          /\ t.stage = "over" /\ t.comment = sess.comment /\ t.confirmed = sess.confirmed
          /\ t.final = sess.final
      BY <2>1, WithStage
    <3>2. Moves(t, mem, "record")
      <4> HIDE DEF t
      <4> QED BY <1>1, <1>3, <2>1, <3>1, CleaningUp DEF Moves, StopContainer, Main, Ends
    <3> QED BY <1>1, <2>1, <3>2, CleaningUp, FinishIsSafe
  <2>2. CASE enc' = "off" /\ CompletionPending /\ Finished([sess EXCEPT !.status = "completed"], "record")
    <3> DEFINE s == [sess EXCEPT !.status = "completed"]
    <3>1. /\ s \in SessionRecord /\ s.owner = sess.owner /\ s.final = sess.final
          /\ s.comment = sess.comment /\ s.confirmed = sess.confirmed /\ s.status = "completed"
      BY WithStatus, OnTheWay
    <3>2. Finished(s, "record")
      BY <2>2
    <3> HIDE DEF s
    <3> QED BY <2>1, <2>2, <3>1, <3>2 DEF CompletionPending
  <2>3. CASE enc' = "off" /\ ~CompletionPending /\ Finished(sess, "record")
    BY <2>1, <2>3, OnTheWay DEF CompletionPending
  <2>4. CASE enc' = enc /\ Finished(CleanupFailed(sess), "record")
    <3> DEFINE s == CleanupFailed(sess)
    <3>1. /\ s \in SessionRecord /\ s.owner = sess.owner /\ s.final = sess.final
          /\ s.comment = sess.comment /\ s.confirmed = sess.confirmed /\ s.status = "needs_review"
      BY WithStatus, OnTheWay DEF CleanupFailed
    <3>2. Finished(s, "record")
      BY <2>4
    <3> HIDE DEF s
    <3> QED BY <2>1, <2>4, <3>1, <3>2
  <2> QED BY <1>3, <2>2, <2>3, <2>4 DEF StopContainer
<1> QED BY <1>2, <1>3

\* Before the encoder is started.
LEMMA SContainerReady ==
  ASSUME IInv, ContainerReady
  PROVE  Safe'
<1> USE DEF Calm
<1>1. pc = "container" /\ pc \in Main /\ UNCHANGED <<sess, exe, enc, lock, mem>>
  BY DEF ContainerReady, Main
<1>2. CASE mem.stop
  <2>1. Goto("inspect", "inspect") /\ fl' = fl
    BY <1>2 DEF ContainerReady
  <2>2. Moves(sess, mem, "inspect")
    BY <1>1, Underway DEF Moves
  <2> QED BY <1>1, <2>1, <2>2, Underway, OnTheWay, StayIsSafe DEF Places
<1>3. CASE ~mem.stop
  <2>1. pc' = "prepare" /\ helper'.ret = "none"
    BY <1>3, GotoFacts DEF ContainerReady
  <2>2. sess.comment = "none" /\ sess.final = "none" /\ sess.status = "running" /\ InSession
    BY <1>1, OnTheWay, Underway DEF Course
  <2>3. Onward /\ Outcome
    BY <1>1, <2>1, <2>2 DEF Onward, Outcome, InSession
  <2>4. Course'
    BY <1>1, <2>1, <2>2 DEF Course, InSession
  <2>5. Ending'
    BY <1>1, <2>1, <2>2 DEF Ending
  <2> QED BY <2>3, <2>4, <2>5, OnwardIsSafe
<1> QED BY <1>2, <1>3

LEMMA SStreamIntent ==
  ASSUME IInv, StreamIntent
  PROVE  Safe'
<1> USE DEF Outside
<1> DEFINE s == [sess EXCEPT !.stage = "active"]
           m == [mem EXCEPT !.sent = TRUE]
<1>1. pc = "prepare" /\ pc \in Main /\ lock' = "ours" /\ UNCHANGED <<fl, enc>>
  BY DEF StreamIntent, Main
<1>2. Update(s) /\ mem' = m /\ Goto("launch", "none")
  BY DEF StreamIntent
<1>3. /\ s \in SessionRecord /\ s.owner = sess.owner /\ s.stage = "active" /\ s.final = sess.final
      /\ s.status = sess.status /\ s.comment = sess.comment /\ s.confirmed = sess.confirmed
  BY WithStage, OnTheWay
<1>4. m \in Memory /\ m.sent /\ m.endSent = mem.endSent /\ m.cut = mem.cut
  BY OnTheWay DEF Memory
<1> HIDE DEF s, m
<1>5. pc' = "launch" /\ helper'.ret = "none" /\ mem' = m
  BY <1>2, GotoFacts
<1>6. /\ sess' = s /\ exe'.sent = exe.sent /\ exe'.cut = exe.cut
      /\ \/ exe'.status = exe.status /\ exe'.stage = exe.stage
         \/ exe'.status = "running" /\ exe'.stage = "active" /\ s.owner = "queue"
      /\ s.owner = "queue" => exe'.status = "running" /\ exe'.stage = "active"
  <2>1. sess' = s /\ exe \in Execution
    BY <1>2, OnTheWay DEF Update
  <2>2. CASE s.owner = "queue"
    <3>1. exe' = [exe EXCEPT !.stage = s.stage, !.confirmed = s.confirmed, !.status = "running"]
      BY <1>2, <2>2 DEF Update
    <3> QED BY <1>3, <2>1, <2>2, <3>1 DEF Execution
  <2>3. CASE s.owner # "queue"
    BY <1>2, <2>1, <2>3 DEF Update
  <2> QED BY <2>2, <2>3
<1>7. /\ InSession /\ InSession' /\ sess.status = "running" /\ sess.comment = "none"
      /\ sess.final = "ended" => fl.air = "ended"
  BY <1>1, <1>5, Underway, OnTheWay DEF Course, InSession
<1>8. AnswersAreTrue'
  BY <1>5 DEF AnswersAreTrue
<1>9. Locked'
  BY <1>1, <1>5 DEF Locked
<1>10. Course'
  BY <1>3, <1>5, <1>6, <1>7 DEF Course, Main, Ends
<1>11. Ending'
  BY <1>1, <1>3, <1>5, <1>6, <1>7 DEF Ending
<1>12. Sent'
  BY <1>3, <1>4, <1>5, <1>6, <1>7 DEF IInv, Safe, Sent, FailedMeansNeverSent
<1> QED BY <1>8, <1>9, <1>10, <1>11, <1>12 DEF Safe

LEMMA SLaunch ==
  ASSUME IInv, Launch
  PROVE  Safe'
<1>1. pc = "launch" /\ pc \in Main /\ UNCHANGED <<fl, sess, mem, lock>>
  BY DEF Launch, Calm, Main
<1>2. pc' = "starting" /\ helper'.ret = "none"
  BY GotoFacts DEF Launch
<1>3. /\ exe'.status = exe.status /\ exe'.stage = exe.stage /\ exe'.cut = exe.cut
      /\ exe'.sent => exe.sent \/ sess.owner = "queue"
      /\ sess.owner # "queue" => exe'.sent = exe.sent
  <2> DEFINE b == exe.sent \/ sess.owner = "queue"
  <2>1. b \in BOOLEAN /\ exe \in Execution /\ (sess.owner # "queue" => b = exe.sent)
    BY OnTheWay DEF Execution
  <2>2. exe' = [exe EXCEPT !.sent = b]
    BY DEF Launch
  <2>3. b => exe.sent \/ sess.owner = "queue"
    OBVIOUS
  <2> HIDE DEF b
  <2> QED BY <2>1, <2>2, <2>3 DEF Execution
<1>4. /\ InSession /\ InSession' /\ sess.status = "running" /\ sess.comment = "none"
      /\ mem.sent /\ lock = "ours" /\ (sess.final = "ended" => fl.air = "ended")
  BY <1>1, <1>2, Underway, OnTheWay DEF Course, InSession, IInv, Safe, Sent, Locked
<1>5. AnswersAreTrue'
  BY <1>2 DEF AnswersAreTrue
<1>6. Locked'
  BY <1>1, <1>2, <1>4 DEF Locked
<1>7. Course'
  BY <1>1, <1>2, <1>4 DEF Course, Main, Ends
<1>8. Ending'
  BY <1>1, <1>2, <1>4 DEF Ending
<1>9. Sent'
  BY <1>1, <1>2, <1>3, <1>4 DEF IInv, Safe, Sent, FailedMeansNeverSent
<1> QED BY <1>5, <1>6, <1>7, <1>8, <1>9 DEF Safe

LEMMA SRunLive == IInv /\ RunLive /\ ~Cue /\ ~Record => Safe'
BY SContainerReady, SStreamIntent, SLaunch, SConfirmed, SInterrupted, SEarlyInspected,
   SEarlyEnded, SFirstEnded, SCommented, SPlayed, SBroadcastEnded, SInspected, SLate, SJudge,
   SCleanup DEF RunLive

-----------------------------------------------------------------------------
(* Steps around run_live *)

\* The frame of a step that leaves the session where it is: the broadcast may end, and
\* the encoder fall silent.
Aside ==
  /\ UNCHANGED <<pc, sess, lock, exe>>
  /\ mem'.sent = mem.sent /\ mem'.cut = mem.cut /\ mem'.endSent = mem.endSent
  /\ ~InSession => mem' = mem
  /\ fl.air = "ended" => fl'.air = "ended"
  /\ enc' \in {"startup", "playback"} => Ingest

LEMMA AsideIsSafe ==
  ASSUME IInv, Aside, AnswersAreTrue'
  PROVE  Safe'
<1>1. Locked'
  BY DEF Aside, IInv, Safe, Locked, Ingest, InSession
<1>2. Course'
  BY OnTheWay DEF Aside, Course, InSession
<1>3. Ending'
  BY OnTheWay DEF Aside, Ending, EndKnown, InSession
<1>4. Sent'
  BY DEF Aside, IInv, Safe, Sent, InSession, FailedMeansNeverSent
<1> QED BY <1>1, <1>2, <1>3, <1>4 DEF Safe

LEMMA SCue == IInv /\ Cue => Safe'
<1> SUFFICES ASSUME IInv, Cue PROVE Safe'
  OBVIOUS
<1>1. Aside
  BY DEF Cue, Calm, Aside, Ingest
<1>2. AnswersAreTrue'
  BY OnTheWay DEF Cue, Calm, AnswersAreTrue
<1> QED BY <1>1, <1>2, AsideIsSafe

LEMMA SEncoderRuns == IInv /\ EncoderRuns => Safe'
<1> SUFFICES ASSUME IInv, EncoderRuns PROVE Safe'
  OBVIOUS
<1>1. UNCHANGED <<fl, helper>> /\ UNCHANGED liveVars
  BY DEF EncoderRuns, Around, EncoderStep, StartPlayback, PlaybackEnds, EncoderFails, SessionExpires
<1>2. enc' \in {"startup", "playback"} => Ingest
  BY DEF EncoderRuns, EncoderStep, StartPlayback, PlaybackEnds, EncoderFails, SessionExpires, Ingest
<1>3. Aside
  BY <1>1, <1>2 DEF Aside, liveVars
<1>4. AnswersAreTrue'
  BY <1>1, OnTheWay DEF AnswersAreTrue
<1> QED BY <1>3, <1>4, AsideIsSafe

LEMMA SFacebookActs == IInv /\ FacebookActs => Safe'
<1> SUFFICES ASSUME IInv, FacebookActs PROVE Safe'
  OBVIOUS
<1>1. UNCHANGED <<enc, helper>> /\ UNCHANGED liveVars /\ fl.air # "ended"
  BY DEF FacebookActs, Around, GoesLive, GoesOff
<1>2. Aside
  BY <1>1 DEF Aside, liveVars, Ingest
<1>3. AnswersAreTrue'
  BY <1>1, OnTheWay DEF AnswersAreTrue
<1> QED BY <1>2, <1>3, AsideIsSafe

\* A helper's step leaves the encoder alone and takes back no end; it answers that the
\* broadcast is over only when it is.
LEMMA HelperIsTrue ==
  ASSUME IInv, NEW early, HelperStep(early)
  PROVE  /\ enc' = enc /\ (fl.air = "ended" => fl'.air = "ended")
         /\ AnswersAreTrue'
<1>f. fl \in Producer /\ helper \in HelperRecord
  BY Typed DEF IInv
<1> USE <1>f DEF Producer, HelperRecord
<1>a. ASSUME NEW r \in Results, Answer(r), helper.ret = "none",
             r = "ended" => fl.air = "ended",
             r = "ok" /\ helper.do = "end" => fl.air = "ended"
      PROVE  enc' = enc /\ (fl.air = "ended" => fl'.air = "ended") /\ AnswersAreTrue'
  BY <1>a DEF Answer, AnswersAreTrue
<1>p. ASSUME NEW page, Press(page), helper.ret = "none", page.air = fl.air
      PROVE  enc' = enc /\ (fl.air = "ended" => fl'.air = "ended") /\ AnswersAreTrue'
  BY <1>p DEF Press, AnswersAreTrue
<1>1. CASE Prepare
  <2>1. CASE OpenSetup \/ EnterDetails \/ SaveDetails
    BY <2>1, OnTheWay DEF OpenSetup, EnterDetails, SaveDetails, AnswersAreTrue
  <2>2. CASE ReadStreamKey
    BY <2>2, <1>a DEF ReadStreamKey, Doing, Results
  <2> QED BY <1>1, <2>1, <2>2 DEF Prepare
<1>2. CASE Start
  <2>1. CASE ClickGoLive
    <3>1. Doing("start")
      BY <2>1 DEF ClickGoLive
    <3>2. CASE Press([fl EXCEPT !.goLives = @ + 1])
      BY <3>1, <3>2, <1>p DEF Doing
    <3>3. CASE Press([fl EXCEPT !.dialog = "game", !.goLives = @ + 1])
      BY <3>1, <3>3, <1>p DEF Doing
    <3> QED BY <2>1, <3>2, <3>3 DEF ClickGoLive
  <2>2. CASE ConfirmGoLive
    BY <2>2, <1>p DEF ConfirmGoLive, Doing
  <2>3. CASE SeesLive
    BY <2>3, <1>a DEF SeesLive, Doing, Results
  <2> QED BY <1>2, <2>1, <2>2, <2>3 DEF Start
<1>3. CASE End(early)
  <2>1. CASE ClickEnd
    BY <2>1, <1>p DEF ClickEnd, Doing
  <2>2. CASE ConfirmEnd(early)
    BY <2>2 DEF ConfirmEnd, AnswersAreTrue
  <2>3. CASE SeesEnded
    BY <2>3, <1>a DEF SeesEnded, Doing, Results
  <2> QED BY <1>3, <2>1, <2>2, <2>3 DEF End
<1>4. CASE Inspect
  <2>1. PICK seen \in {fl.air, "unconfirmed"} \ {"none"} : Answer(seen)
    BY <1>4 DEF Inspect
  <2>2. helper.ret = "none" /\ helper.do = "inspect" /\ seen \in Results
    BY <1>4, <2>1 DEF Inspect, Doing, Results
  <2> QED BY <2>1, <2>2, <1>a
<1>5. CASE Comment
  <2>1. CASE FindField \/ FindOnProfile
    BY <2>1, OnTheWay DEF FindField, FindOnProfile, AnswersAreTrue
  <2>2. CASE SubmitComment
    BY <2>2, <1>p DEF SubmitComment, Doing
  <2>3. CASE SeesComment
    BY <2>3, <1>a DEF SeesComment, Doing, Results
  <2> QED BY <1>5, <2>1, <2>2, <2>3 DEF Comment
<1>6. CASE Finish \/ HelperFails \/ HelperBlocked
  BY <1>6, <1>a DEF Finish, HelperFails, HelperBlocked, Doing, Results
<1> QED BY <1>1, <1>2, <1>3, <1>4, <1>5, <1>6 DEF HelperStep

LEMMA SHelperRuns == IInv /\ HelperRuns => Safe'
<1> SUFFICES ASSUME IInv, HelperRuns PROVE Safe'
  OBVIOUS
<1>1. /\ enc' = enc /\ (fl.air = "ended" => fl'.air = "ended") /\ AnswersAreTrue'
  BY HelperIsTrue DEF HelperRuns
<1>2. Aside
  BY <1>1 DEF HelperRuns, Around, Aside, liveVars, Ingest
<1> QED BY <1>1, <1>2, AsideIsSafe

\* A session that is asked to stop says so in memory, and goes on.
LEMMA SStopping ==
  ASSUME IInv, StopLive \/ LimitReached
  PROVE  Safe'
<1> DEFINE m == [mem EXCEPT !.stop = TRUE]
<1>1. m.sent = mem.sent /\ m.cut = mem.cut /\ m.endSent = mem.endSent
  BY MemStop, OnTheWay
<1>2. /\ mem' = m /\ UNCHANGED <<pc, helper, fl, enc, lock>> /\ InSession
  <2>1. pc \in Main \cup {"inspect", "end_late", "judge"} => InSession
    BY DEF InSession, Main, Ends
  <2>2. StopLive => InSession
    BY DEF StopLive, InSession, IInv, TInv, StageFits
  <2> QED BY <2>1, <2>2 DEF StopLive, LimitReached
<1> HIDE DEF m
<1>3. AnswersAreTrue'
  BY <1>2, OnTheWay DEF AnswersAreTrue
<1>4. CASE LimitReached
  <2>1. UNCHANGED <<sess, exe>>
    BY <1>4 DEF LimitReached
  <2>2. Aside
    BY <1>1, <1>2, <2>1 DEF Aside, Ingest
  <2> QED BY <1>3, <2>2, AsideIsSafe
<1>5. CASE StopLive
  <2> DEFINE x == IF sess.stage = "over" THEN "over" ELSE "active"
             s == [sess EXCEPT !.stage = x]
  <2>1. Update(s)
    BY <1>5 DEF StopLive
  <2>2. x \in {"active", "over"} /\ (sess.stage = "over" => x = "over")
    OBVIOUS
  <2> HIDE DEF x
  <2>3. /\ s \in SessionRecord /\ s.owner = sess.owner /\ s.stage = x /\ s.final = sess.final
        /\ s.status = sess.status /\ s.comment = sess.comment /\ s.confirmed = sess.confirmed
    BY <2>2, WithStage, OnTheWay
  <2> HIDE DEF s
  <2>4. /\ sess' = s /\ exe'.sent = exe.sent /\ exe'.cut = exe.cut
        /\ \/ exe'.status = exe.status /\ exe'.stage = exe.stage
           \/ exe'.status = "running" /\ exe'.stage = x /\ s.owner = "queue"
    BY <2>1, <2>3, Written, OnTheWay
  <2>5. Locked'
    BY <1>2, <2>2, <2>3, <2>4 DEF IInv, Safe, Locked, Ingest, InSession
  <2>6. Course'
    BY <1>2, <2>3, <2>4, OnTheWay DEF Course, InSession
  <2>7. Ending'
    BY <1>1, <1>2, <2>3, <2>4, OnTheWay DEF Ending, EndKnown, InSession
  <2>8. Sent'
    <3>1. /\ mem.sent => sess.status # "failed"
          /\ pc = "launch" => mem.sent
          /\ sess.owner = "queue" => exe.status = "running" /\ (exe.sent => mem.sent)
                                     /\ (mem.sent => exe.stage # "preparing")
          /\ exe.status = "running" /\ exe.sent => exe.stage # "preparing"
          /\ pc \in {"encoder", "stop_container"} /\ sess.status = "running" =>
               mem.cut \/ sess.comment = "confirmed"
          /\ pc = "record" /\ sess.status = "running" => mem.cut
          /\ FailedMeansNeverSent
      BY <1>2 DEF IInv, Safe, Sent
    <3>2. /\ exe'.status = "running" /\ exe'.sent => exe'.stage # "preparing"
          /\ sess.owner = "queue" =>
               exe'.status = "running" /\ (mem.sent => exe'.stage # "preparing")
      BY <2>2, <2>3, <2>4, <3>1
    <3>3. FailedMeansNeverSent'
      BY <2>4, <3>1 DEF FailedMeansNeverSent
    <3> QED BY <1>1, <1>2, <2>2, <2>3, <2>4, <3>1, <3>2, <3>3 DEF Sent, InSession
  <2> QED BY <1>3, <2>5, <2>6, <2>7, <2>8 DEF Safe
<1> QED BY <1>4, <1>5

\* Shutdown: wherever the task was, what it has sent stays on record.
LEMMA SCancel ==
  ASSUME IInv, Cancel
  PROVE  Safe'
<1>1. /\ pc \in Main \cup {"inspect", "end_late"} /\ enc' \in {enc, "off"}
      /\ UNCHANGED <<fl, sess, lock, exe>>
  BY DEF Cancel
<1> DEFINE m == [mem EXCEPT !.cut = TRUE]
<1>2. m \in Memory /\ m.sent = mem.sent /\ m.endSent = mem.endSent /\ m.cut
  BY MemCut, OnTheWay
<1>3. CASE pc \in Ends
  <2> DEFINE n == [mem EXCEPT !.stop = TRUE]
  <2>1. mem' = n /\ UNCHANGED <<pc, helper>>
    BY <1>3 DEF Cancel, Ends
  <2>2. n.sent = mem.sent /\ n.cut = mem.cut /\ n.endSent = mem.endSent
    BY MemStop, OnTheWay
  <2> HIDE DEF n, m
  <2>3. Aside
    BY <1>1, <2>1, <2>2, Underway DEF Aside, Ingest
  <2>4. AnswersAreTrue'
    BY <1>1, <2>1, OnTheWay DEF AnswersAreTrue
  <2> QED BY <2>3, <2>4, AsideIsSafe
<1>4. CASE pc = "extra"
  <2>1. mem' = mem /\ Goto("encoder", "none")
    BY <1>4 DEF Cancel, Ends
  <2> HIDE DEF m
  <2>2. sess.comment = "confirmed"
    BY <1>4, OnTheWay DEF Course
  <2>3. Moves(sess, mem, "encoder")
    BY <1>1, <2>2, Underway DEF Moves, Main, Ends
  <2> QED BY <1>1, <2>1, <2>3, Underway, OnTheWay, StayIsSafe DEF Places
<1>5. CASE pc = "inspect"
  <2>1. mem' = m /\ Goto("encoder", "none")
    BY <1>5 DEF Cancel, Ends
  <2> HIDE DEF m
  <2>2. Moves(sess, m, "encoder")
    BY <1>1, <1>2, <1>5, Underway DEF Moves, Main, Ends
  <2> QED BY <1>1, <1>2, <2>1, <2>2, Underway, StayIsSafe DEF Places
<1>6. CASE pc \notin Ends \cup {"extra", "inspect"}
  <2>1. Raise(m) /\ pc \in Main
    BY <1>1, <1>6 DEF Cancel, Ends
  <2> HIDE DEF m
  <2> QED BY <1>1, <1>2, <2>1, Underway, OnTheWay, RaiseIsSafe
<1> QED BY <1>3, <1>4, <1>5, <1>6

\* Where run_live waits for no helper there is none.
LEMMA NoAnswer ==
  ASSUME IInv, ~InSession
  PROVE  helper.ret = "none" /\ mem = NoMemory /\ mem.sent = FALSE
BY OnTheWay, HelperOfFacts, Typed DEF IInv, HelperFits, InSession, NoHelper, Course, NoMemory

\* A new session has said, sent and seen nothing.
LEMMA SEnter ==
  ASSUME IInv, NEW owner \in {"queue", "direct"}, Enter(owner),
         owner = "direct" => exe' = exe,
         owner = "queue" => exe'.status = "running" /\ exe'.sent = FALSE
  PROVE  Safe'
<1>1. /\ pc = "off" /\ pc' = "container" /\ enc' = "off" /\ sess' = NewSession(owner)
      /\ helper' = helper
  BY DEF Enter, ProfileIsFree
<1>2. PICK wants \in BOOLEAN : mem' = [NoMemory EXCEPT !.wants = wants]
  BY DEF Enter
<1>3. mem'.sent = FALSE /\ mem'.cut = FALSE /\ mem'.endSent = FALSE
  BY <1>2 DEF NoMemory
<1>4. /\ sess'.owner = owner /\ sess'.status = "running" /\ sess'.stage = "preparing"
      /\ sess'.comment = "none" /\ sess'.final = "none"
  BY <1>1 DEF NewSession
<1>5. AnswersAreTrue'
  BY <1>1, NoAnswer DEF AnswersAreTrue, InSession
<1>6. Locked'
  BY <1>1 DEF Locked, Ingest
<1>7. Course'
  BY <1>1, <1>4 DEF Course, InSession
<1>8. Ending'
  BY <1>3, <1>4 DEF Ending
<1>9. Sent'
  <2>1. /\ exe.status = "running" /\ exe.sent => exe.stage # "preparing"
        /\ FailedMeansNeverSent
    BY DEF IInv, Safe, Sent
  <2>2. /\ exe'.status = "running" /\ exe'.sent => exe'.stage # "preparing"
        /\ FailedMeansNeverSent'
    BY <2>1 DEF FailedMeansNeverSent
  <2>3. owner = "queue" => exe'.status = "running" /\ exe'.sent = FALSE
    OBVIOUS
  <2> QED BY <1>1, <1>3, <1>4, <2>2, <2>3 DEF Sent
<1> QED BY <1>5, <1>6, <1>7, <1>8, <1>9 DEF Safe

LEMMA SBegin == IInv /\ (StartLive \/ ExecuteQueueLive) => Safe'
<1> SUFFICES ASSUME IInv, StartLive \/ ExecuteQueueLive PROVE Safe'
  OBVIOUS
<1>1. CASE StartLive
  <2>1. Enter("direct") /\ exe' = exe
    BY <1>1 DEF StartLive
  <2> QED BY <2>1, SEnter
<1>2. CASE ExecuteQueueLive
  <2>1. Enter("queue")
    BY <1>2 DEF ExecuteQueueLive
  <2>2. exe'.status = "running" /\ exe'.sent = FALSE
    BY <1>2, OnTheWay DEF ExecuteQueueLive, Execution
  <2> QED BY <2>1, <2>2, SEnter
<1> QED BY <1>1, <1>2

\* Outside a session only the file, the execution and the encoder's silence matter.
LEMMA RestIsSafe ==
  ASSUME IInv, ~InSession', mem' = NoMemory, helper'.ret = "none",
         pc' = "off" /\ enc' \in {"startup", "playback"} =>
           sess'.status = "needs_review" /\ sess'.stage = "over",
         exe'.status = "running" /\ exe'.sent => exe'.stage # "preparing",
         exe'.status = "failed" /\ ~exe'.cut => ~exe'.sent
  PROVE  Safe'
<1>1. AnswersAreTrue'
  BY DEF AnswersAreTrue
<1>2. Locked'
  BY DEF Locked, Ingest, InSession
<1>3. Course'
  BY DEF Course, InSession, Main, Ends
<1>4. Ending'
  BY DEF Ending
<1>5. Sent'
  BY DEF Sent, InSession, FailedMeansNeverSent
<1> QED BY <1>1, <1>2, <1>3, <1>4, <1>5 DEF Safe

\* The last writes of a session.
LEMMA SRecord ==
  ASSUME IInv, Record \/ RecordRefused \/ CompletionRefused
  PROVE  Safe'
<1>1. pc \in {"record", "stop_container"} /\ Release /\ pc' = "off" /\ mem' = NoMemory /\ helper' = helper
  BY DEF Record, RecordRefused, CompletionRefused, Release
<1>2. helper'.ret = "none"
  BY <1>1, Typed, HelperOfFacts DEF IInv, HelperFits, NoHelper
<1>3. /\ sess.owner = "queue" => exe.status = "running" /\ (exe.sent => mem.sent)
      /\ sess.status = "failed" => ~mem.sent
      /\ sess.status \in {"stopped", "completed"} /\ mem.sent => sess.confirmed \/ mem.cut
      /\ exe.status = "running" /\ exe.sent => exe.stage # "preparing"
      /\ exe.status = "failed" /\ ~exe.cut => ~exe.sent
      /\ pc = "record" /\ sess.status = "running" => mem.cut
      /\ sess.status # "idle" /\ sess.status \in {"idle", "running", "stopped", "completed", "failed", "needs_review", "skipped"}
  BY <1>1, CleaningUp, OnTheWay DEF IInv, Safe, Sent, FailedMeansNeverSent, SessionRecord
<1>4. pc = "record" /\ Ingest => sess.status = "needs_review" /\ sess.stage = "over"
  BY DEF IInv, Safe, Locked
<1>5. ~InSession'
  BY <1>1 DEF InSession
<1>6. CASE RecordRefused
  BY <1>1, <1>2, <1>3, <1>4, <1>5, <1>6, RestIsSafe DEF RecordRefused, Ingest
<1>7. CASE CompletionRefused
  BY <1>1, <1>2, <1>3, <1>5, <1>7, RestIsSafe DEF CompletionRefused
<1>8. CASE Record
  <2>1. UNCHANGED <<enc, sess>> /\ pc = "record"
    BY <1>8 DEF Record
  <2>2. /\ exe'.status = "running" /\ exe'.sent => exe'.stage # "preparing"
        /\ exe'.status = "failed" /\ ~exe'.cut => ~exe'.sent
    <3>1. CASE sess.owner # "queue"
      BY <1>3, <1>8, <3>1 DEF Record
    <3>2. CASE sess.owner = "queue"
      <4> DEFINE q == QueueStatus
                 c == mem.cut
      <4>1. exe' = [exe EXCEPT !.status = q, !.cut = c] /\ exe \in Execution
        BY <1>8, <3>2, OnTheWay DEF Record
      <4>2. q \in {"completed", "skipped", "needs_review", "failed"}
        BY DEF QueueStatus
      <4>3. q = "failed" /\ ~c => ~exe.sent
        BY <1>3, <2>1, <3>2 DEF QueueStatus
      <4>4. c \in BOOLEAN
        BY OnTheWay DEF Memory
      <4> HIDE DEF q, c
      <4>5. exe'.status = q /\ exe'.cut = c /\ exe'.sent = exe.sent
        BY <4>1 DEF Execution
      <4> QED BY <4>2, <4>3, <4>5
    <3> QED BY <3>1, <3>2
  <2> QED BY <1>1, <1>2, <1>4, <1>5, <2>1, <2>2, RestIsSafe DEF Ingest
<1> QED BY <1>6, <1>7, <1>8

\* What a recovered execution becomes.
LEMMA RecoveredFacts ==
  ASSUME IInv, NEW e, e = IF exe.status = "running" THEN [exe EXCEPT !.status = Recovered] ELSE exe
  PROVE  /\ e.status = "running" /\ e.sent => e.stage # "preparing"
         /\ e.status = "failed" /\ ~e.cut => ~e.sent
<1>1. /\ exe.status = "running" /\ exe.sent => exe.stage # "preparing"
      /\ exe.status = "failed" /\ ~exe.cut => ~exe.sent
      /\ exe \in Execution
  BY OnTheWay DEF IInv, Safe, Sent, FailedMeansNeverSent
<1>2. CASE exe.status # "running"
  BY <1>1, <1>2
<1>3. CASE exe.status = "running"
  <2> DEFINE r == Recovered
  <2>1. r \in {"failed", "uncertain"} /\ (r = "failed" => exe.stage = "preparing")
    BY DEF Recovered
  <2> HIDE DEF r
  <2>2. e = [exe EXCEPT !.status = r]
    BY <1>3 DEF r
  <2>3. e.status = r /\ e.sent = exe.sent
    BY <1>1, <2>2 DEF Execution
  <2> QED BY <1>1, <1>3, <2>1, <2>3
<1> QED BY <1>2, <1>3

\* The process dies, and starts again.
LEMMA SFaults ==
  ASSUME IInv, Crash \/ Restart \/ RecoverStale \/ Sweep
  PROVE  Safe'
<1>1. /\ exe.status = "running" /\ exe.sent => exe.stage # "preparing"
      /\ exe.status = "failed" /\ ~exe.cut => ~exe.sent
      /\ pc = "off" /\ Ingest => sess.status = "needs_review" /\ sess.stage = "over"
  BY DEF IInv, Safe, Sent, FailedMeansNeverSent, Locked
<1>2. CASE Crash
  <2>1. ~InSession' /\ mem' = NoMemory /\ helper'.ret = "none" /\ exe' = exe /\ pc' = "down"
    BY <1>2 DEF Crash, InSession, NoHelper
  <2> QED BY <1>1, <2>1, RestIsSafe
<1>3. CASE Restart
  <2>1. /\ ~InSession /\ ~InSession' /\ mem' = mem /\ helper' = helper /\ enc' = "off"
        /\ exe' = IF exe.status = "running" THEN [exe EXCEPT !.status = Recovered] ELSE exe
    BY <1>3 DEF Restart, InSession
  <2> QED BY <2>1, NoAnswer, RecoveredFacts, RestIsSafe
<1>4. CASE RecoverStale
  <2>1. /\ ~InSession /\ ~InSession' /\ pc = "off" /\ UNCHANGED <<mem, helper, enc, sess>>
        /\ exe' = IF exe.status = "running" THEN [exe EXCEPT !.status = Recovered] ELSE exe
    BY <1>4 DEF RecoverStale, InSession
  <2> QED BY <1>1, <2>1, NoAnswer, RecoveredFacts, RestIsSafe DEF Ingest
<1>5. CASE Sweep
  <2>1. ~InSession /\ ~InSession' /\ UNCHANGED <<mem, helper, sess, exe>> /\ enc' = "off"
    BY <1>5 DEF Sweep, InSession, liveVars
  <2> QED BY <1>1, <2>1, NoAnswer, RestIsSafe
<1> QED BY <1>2, <1>3, <1>4, <1>5

\* The operator's retry and judgement, of a profile without a session.
LEMMA SAround ==
  ASSUME IInv, BatchRetry \/ RunNow \/ Resolve \/ ClearReview
  PROVE  Safe'
<1>1. /\ exe.status = "running" /\ exe.sent => exe.stage # "preparing"
      /\ exe.status = "failed" /\ ~exe.cut => ~exe.sent
      /\ pc = "off" /\ Ingest => sess.status = "needs_review" /\ sess.stage = "over"
      /\ exe \in Execution
  BY OnTheWay DEF IInv, Safe, Sent, FailedMeansNeverSent, Locked
<1>2. /\ pc = "off" /\ pc' = "off" /\ ~InSession /\ ~InSession' /\ UNCHANGED <<mem, helper, enc>>
  BY DEF BatchRetry, RunNow, Resolve, ClearReview, ExeBecomes, InSession
<1>3. CASE BatchRetry \/ RunNow
  <2>1. sess' = SavedStatus /\ exe' = [exe EXCEPT !.status = "pending", !.stage = "preparing"]
    BY <1>3 DEF BatchRetry, RunNow, ExeBecomes
  <2>2. exe'.status = "pending"
    BY <1>1, <2>1 DEF Execution
  <2>3. sess.stage = "over" => sess' = sess
    BY <2>1 DEF SavedStatus
  <2> QED BY <1>1, <1>2, <2>2, <2>3, NoAnswer, RestIsSafe DEF Ingest
<1>4. CASE Resolve
  <2>1. PICK status \in {"published", "failed"} :
          exe' = [exe EXCEPT !.status = status, !.sent = FALSE, !.stage = "over"]
    BY <1>4 DEF Resolve
  <2>2. exe'.status # "running" /\ exe'.sent = FALSE
    BY <1>1, <2>1 DEF Execution
  <2>3. enc = "off"
    BY <1>4 DEF Resolve
  <2> QED BY <1>2, <2>2, <2>3, NoAnswer, RestIsSafe
<1>5. CASE ClearReview
  BY <1>1, <1>2, <1>5, NoAnswer, RestIsSafe DEF ClearReview
<1> QED BY <1>3, <1>4, <1>5

-----------------------------------------------------------------------------
(* The invariant and what follows from it *)

LEMMA InitSafe == Init => Safe
<1> SUFFICES ASSUME Init PROVE Safe
  OBVIOUS
<1>1. /\ pc = "off" /\ mem = NoMemory /\ helper = NoHelper /\ enc = "off" /\ exe.status = "pending"
  BY DEF Init, FacebookInit
<1>2. AnswersAreTrue /\ Locked /\ Course /\ Ending /\ Sent
  BY <1>1 DEF AnswersAreTrue, Locked, Course, Ending, Sent, FailedMeansNeverSent, InSession,
              Ingest, NoHelper, Main, Ends
<1> QED BY <1>2 DEF Safe

LEMMA StutterSafe == IInv /\ UNCHANGED vars => Safe'
<1> SUFFICES ASSUME IInv, UNCHANGED vars PROVE Safe'
  OBVIOUS
<1>1. Aside
  BY DEF vars, Aside, Ingest
<1>2. AnswersAreTrue'
  BY OnTheWay DEF vars, AnswersAreTrue
<1> QED BY <1>1, <1>2, AsideIsSafe

LEMMA NextSafe == IInv /\ [Next]_vars => Safe'
BY SBegin, SRunLive, SCue, SRecord, SRaises, SHelperRuns, SEncoderRuns, SFacebookActs, SStopping,
   SCancel, SFaults, SAround, StutterSafe DEF Next, RunLive

\* The inductive invariant: types, the helper's place, the lock, the course of the
\* session file, what is known of the end, and what was sent.
THEOREM Inductive == Spec => []IInv
<1>1. Init => IInv
  BY InitT, InitSafe DEF IInv
<1>2. IInv /\ [Next]_vars => IInv'
  BY NextT, NextSafe DEF IInv
<1> QED BY <1>1, <1>2, PTL DEF Spec

\* Nobody else streams to the destination while a session's encoder sends, cleanup
\* included, and one whose encoder could not be silenced is left for review.
THEOREM SendingExclusive == Spec => []SendingIsExclusive
<1>1. IInv => SendingIsExclusive
  BY DEF IInv, Safe, Locked, SendingIsExclusive, InSession
<1> QED BY <1>1, Inductive, PTL

\* A session that sent video says it stopped or completed only when Facebook ended the
\* broadcast or End was submitted.
THEOREM EndNotAssumed == Spec => []EndIsNotAssumed
<1>1. IInv => EndIsNotAssumed
  <2> SUFFICES ASSUME IInv PROVE EndIsNotAssumed
    OBVIOUS
  <2>1. ~InSession => mem.sent = FALSE
    BY OnTheWay DEF Course, NoMemory
  <2> QED BY <2>1, OnTheWay DEF Ending, EndKnown, EndIsNotAssumed
<1> QED BY <1>1, Inductive, PTL

\* What failed and may be retried with its batch sent no video, whatever crashed.
THEOREM FailedNeverSent == Spec => []FailedMeansNeverSent
<1>1. IInv => FailedMeansNeverSent
  BY DEF IInv, Safe, Sent
<1> QED BY <1>1, Inductive, PTL

=============================================================================
