------------------------------ MODULE AutoWarming ------------------------------
(***************************************************************************)
(* Automatic warming, accounts on hold and the restart after a proxy       *)
(* change, as the dispatcher meets them.                                   *)
(*                                                                         *)
(* Once a minute `tick` plans at most one visit and dispatches.  A pass of *)
(* the dispatcher works through the list of due items it made when it      *)
(* began, posts before visits, and lets everything else run in between.    *)
(* Visits and posts share the scheduler's slots; a post that finds none    *)
(* asks a visit to end.  The operator holds and releases accounts, changes *)
(* proxies, switches Auto warming and starts items by hand.                *)
(***************************************************************************)
EXTENDS Naturals, FiniteSets

CONSTANTS
  Accounts,   \* each has one post
  Slots,      \* max_total_automation_tasks
  MaxOps,     \* bound on what the operator does
  MaxFaults   \* bound on crashes and visits that raise

ASSUME WarmingAssumption == Slots \in Nat \ {0} /\ {MaxOps, MaxFaults} \subseteq Nat

VARIABLES
  post,       \* account -> its queue item: "later", "waiting", "ready", "running", "over"
  visit,      \* account -> its Auto warming item: "none", "waiting", "running"
  asked,      \* yield.json: account -> "no", "yes", "handoff"
  hold,       \* accounts on hold
  restart,    \* account -> "none", "pending" (changed on hold), "travel", "window"
  ended,      \* accounts whose visit completed since the restart began: in the queue
  visited,    \*  ... and in the account history
  auto,       \* the switch
  pass,       \* the dispatcher's pass
  changed,    \* accounts the operator changed since the pass began
  ops, faults
warmingVars == <<post, visit, asked, hold, restart, ended, visited, auto, pass, changed, ops, faults>>
items == <<post, visit, asked>>
account == <<hold, restart, ended, visited, auto, changed>>

NoPass == [on |-> FALSE, posts |-> {}, visits |-> {}, waiting |-> FALSE]
WarmingInit ==
  /\ post = [a \in Accounts |-> "later"] /\ visit = [a \in Accounts |-> "none"]
  /\ asked = [a \in Accounts |-> "no"] /\ hold = {} /\ restart = [a \in Accounts |-> "none"]
  /\ ended = {} /\ visited = {} /\ auto = TRUE /\ pass = NoPass /\ changed = {}
  /\ ops = 0 /\ faults = 0

Posts == {"later", "waiting", "ready", "running", "over"}
Visits == {"none", "waiting", "running"}
Requests == {"no", "yes", "handoff"}
Restarts == {"none", "pending", "travel", "window"}
Passes == [on : BOOLEAN, posts : SUBSET Accounts, visits : SUBSET Accounts, waiting : BOOLEAN]
WarmingTypeOK ==
  /\ post \in [Accounts -> Posts] /\ visit \in [Accounts -> Visits]
  /\ asked \in [Accounts -> Requests] /\ restart \in [Accounts -> Restarts]
  /\ {hold, ended, visited, changed} \subseteq SUBSET Accounts
  /\ auto \in BOOLEAN /\ pass \in Passes
  /\ ops \in 0..MaxOps /\ faults \in 0..MaxFaults

Operator == ops < MaxOps /\ ops' = ops + 1 /\ UNCHANGED faults
Fault == faults < MaxFaults /\ faults' = faults + 1 /\ UNCHANGED ops
Unbounded == UNCHANGED <<ops, faults>>
Due(a) == post[a] \in {"waiting", "ready"}
Running == {a \in Accounts : post[a] = "running"} \cup {a \in Accounts : visit[a] = "running"}
Occupied(a) == a \in Running
SlotFree == Cardinality(Running) < Slots

-----------------------------------------------------------------------------
(* Accounts: hold and restart *)

Travelling(a) == restart[a] = "travel"
Paused(a) == a \in hold \/ Travelling(a)
WaitingForVisit(a) == restart[a] = "window" /\ a \notin visited
\* admits: a post on an account that restarts waits for a visit while visits come.
Admits(a) == ~Paused(a) /\ ~(auto /\ WaitingForVisit(a))

\* The trip counts from when the account was last on Facebook: some of it may be left, or none.
AfterTheTrip == {"travel", "window"}
StartRestart(a) ==
  /\ \E r \in AfterTheTrip : restart' = [restart EXCEPT ![a] = r]
  /\ ended' = ended \ {a} /\ visited' = visited \ {a}
ChangeProxy(a) ==
  /\ Operator /\ changed' = changed \cup {a} /\ UNCHANGED <<items, hold, auto, pass>>
  /\ \/ a \in hold /\ restart' = [restart EXCEPT ![a] = "pending"] /\ UNCHANGED <<ended, visited>>
     \/ a \notin hold /\ StartRestart(a)
\* hold_profile: a running visit is asked to end.
Hold(a) ==
  /\ a \notin hold /\ Operator /\ hold' = hold \cup {a} /\ changed' = changed \cup {a}
  /\ asked' = IF visit[a] = "running" THEN [asked EXCEPT ![a] = "yes"] ELSE asked
  /\ UNCHANGED <<post, visit, restart, ended, visited, auto, pass>>
Release(a) ==
  /\ a \in hold /\ hold' = hold \ {a} /\ UNCHANGED <<items, auto, pass, changed>> /\ Unbounded
  /\ IF restart[a] = "pending" THEN StartRestart(a) ELSE UNCHANGED <<restart, ended, visited>>
Travelled(a) ==
  /\ restart[a] = "travel" /\ restart' = [restart EXCEPT ![a] = "window"]
  /\ UNCHANGED <<items, hold, ended, visited, auto, pass, changed>> /\ Unbounded
\* Mutant: the window stays open until the visit has come.
StaysOpen(a) ==
  /\ restart[a] = "window" /\ a \in visited /\ restart' = [restart EXCEPT ![a] = "none"]
  /\ UNCHANGED <<items, hold, ended, visited, auto, pass, changed>> /\ Unbounded
WindowEnds(a) ==
  /\ restart[a] = "window" /\ restart' = [restart EXCEPT ![a] = "none"]
  /\ UNCHANGED <<items, hold, ended, visited, auto, pass, changed>> /\ Unbounded
Switch ==
  /\ Operator /\ auto' = ~auto /\ changed' = Accounts
  /\ UNCHANGED <<items, hold, restart, ended, visited, pass>>

-----------------------------------------------------------------------------
(* tick: one visit at a time *)

WaitingVisits == {a \in Accounts : visit[a] = "waiting"}
\* expire_unstarted: with the switch off every waiting visit, else those that waited too long.
Kept == IF auto THEN SUBSET WaitingVisits ELSE {{}}
Expired(kept) == [a \in Accounts |-> IF visit[a] = "waiting" /\ a \notin kept THEN "none" ELSE visit[a]]
\* A slot stays for every post due soon, unless it waits for a visit itself.
SpareCapacity ==
  Cardinality(Running) + Cardinality({a \in Accounts : Due(a) /\ ~WaitingForVisit(a)}) < Slots
\* The account's stage leaves out those on hold and, like its hours, rest days and gaps, maybe others.
HasStage(a) == a \notin hold
Candidates ==
  {a \in Accounts :
     HasStage(a) /\ ~Travelling(a) /\ ~Occupied(a) /\ visit[a] = "none" /\ (Due(a) => WaitingForVisit(a))}
SyncHistory == visited' = visited \cup ended
Plan ==
  /\ SyncHistory /\ UNCHANGED <<post, asked, hold, restart, ended, auto, pass, changed>> /\ Unbounded
  /\ \E kept \in Kept :
       \/ visit' = Expired(kept)
       \/ \E a \in Candidates :
            /\ auto /\ kept = {} /\ SpareCapacity /\ visit' = [Expired(kept) EXCEPT ![a] = "waiting"]

-----------------------------------------------------------------------------
(* dispatch_pending_queue *)

PostDue(a) ==
  /\ post[a] = "later" /\ post' = [post EXCEPT ![a] = "waiting"]
  /\ UNCHANGED <<visit, asked, pass>> /\ UNCHANGED account /\ Unbounded
BeginPass ==
  /\ ~pass.on /\ (\E a \in Accounts : Due(a) \/ visit[a] = "waiting")
  /\ pass' = [on |-> TRUE, waiting |-> FALSE,
              posts |-> {a \in Accounts : Due(a) /\ Admits(a)},
              visits |-> {a \in Accounts : visit[a] = "waiting" /\ ~Paused(a)}]
  /\ changed' = {} /\ UNCHANGED <<items, hold, restart, ended, visited, auto>> /\ Unbounded
EndPass ==
  /\ pass.on /\ pass.posts = {} /\ pass.visits = {} /\ pass' = NoPass
  /\ UNCHANGED items /\ UNCHANGED account /\ Unbounded

\* yield_for_post: its own account's visit hands its browser over, else one visit gives its slot up.
RunningVisits == {b \in Accounts : visit[b] = "running"}
YieldForPost(a) ==
  IF a \in RunningVisits
  THEN asked' = [asked EXCEPT ![a] = IF @ = "no" THEN "handoff" ELSE @]
  ELSE \/ (\A b \in RunningVisits : asked[b] = "no") /\ \E b \in RunningVisits : asked' = [asked EXCEPT ![b] = "yes"]
       \/ (RunningVisits = {} \/ \E b \in RunningVisits : asked[b] # "no") /\ UNCHANGED asked
\* claim_queue_execution looks at the account again.  Mutant: the list was enough.
ListWasEnough(a) == TRUE
Claimable(a) == ~Paused(a)
StartPost(a) ==
  /\ a \in pass.posts /\ Due(a) /\ ~Occupied(a) /\ SlotFree /\ Claimable(a)
  /\ post' = [post EXCEPT ![a] = "running"] /\ pass' = [pass EXCEPT !.posts = @ \ {a}]
  /\ UNCHANGED <<visit, asked>> /\ UNCHANGED account /\ Unbounded
\* make_room: its account is busy, no slot is free, or the machine runs as many containers as it may.
MakeRoom(a) ==
  /\ a \in pass.posts /\ Due(a) /\ YieldForPost(a)
  /\ pass' = [pass EXCEPT !.posts = @ \ {a}, !.waiting = TRUE]
  /\ UNCHANGED <<post, visit>> /\ UNCHANGED account /\ Unbounded
\* The item waits for the next pass: it may not be claimed any more, its batch rests between
\* iterations, its proxy is being measured, or another container was started a moment ago.
SkipPost(a) ==
  /\ a \in pass.posts /\ pass' = [pass EXCEPT !.posts = @ \ {a}]
  /\ UNCHANGED items /\ UNCHANGED account /\ Unbounded
TryPost(a) == StartPost(a) \/ MakeRoom(a) \/ SkipPost(a)
TryVisit(a) ==
  /\ pass.posts = {} /\ a \in pass.visits /\ pass' = [pass EXCEPT !.visits = @ \ {a}]
  /\ UNCHANGED <<post, asked>> /\ UNCHANGED account /\ Unbounded
  /\ \/ /\ visit[a] = "waiting" /\ ~pass.waiting /\ auto /\ ~Occupied(a) /\ SlotFree /\ Claimable(a)
        /\ visit' = [visit EXCEPT ![a] = "running"]
     \/ UNCHANGED visit
\* run_execution_now: the operator's word stands in for the visit, not for the hold.
RunNow(a) ==
  /\ Operator /\ post[a] \in {"later", "waiting", "ready"} /\ ~Occupied(a) /\ SlotFree /\ Claimable(a)
  /\ post' = [post EXCEPT ![a] = "running"] /\ UNCHANGED <<visit, asked, pass>> /\ UNCHANGED account

PostEnds(a) ==
  /\ post[a] = "running" /\ post' = [post EXCEPT ![a] = "over"]
  /\ UNCHANGED <<visit, asked, pass>> /\ UNCHANGED account /\ Unbounded
\* _hand_auto_visit_to_post: the request is cleared, and a post that is still waiting counts as prepared.
HandOver(a, completed) ==
  /\ asked' = [asked EXCEPT ![a] = "no"]
  /\ post' = IF completed /\ asked[a] = "handoff" /\ post[a] = "waiting"
             THEN [post EXCEPT ![a] = "ready"] ELSE post
VisitEnds(a) ==
  /\ visit[a] = "running" /\ visit' = [visit EXCEPT ![a] = "none"]
  /\ \E completed \in BOOLEAN :
       HandOver(a, completed) /\ ended' = IF completed THEN ended \cup {a} ELSE ended
  /\ UNCHANGED <<hold, restart, visited, auto, pass, changed>> /\ Unbounded
\* The task raised or was cancelled: the request stays in the file.
VisitRaises(a) ==
  /\ visit[a] = "running" /\ Fault /\ visit' = [visit EXCEPT ![a] = "none"]
  /\ UNCHANGED <<post, asked, pass>> /\ UNCHANGED account
\* Interrupted posts go to review, interrupted visits end.
WarmingCrash ==
  /\ Fault /\ pass' = NoPass /\ UNCHANGED asked /\ UNCHANGED account
  /\ post' = [a \in Accounts |-> IF post[a] = "running" THEN "over" ELSE post[a]]
  /\ visit' = [a \in Accounts |-> IF visit[a] = "running" THEN "none" ELSE visit[a]]

Dispatcher == BeginPass \/ EndPass \/ \E a \in Accounts : TryPost(a) \/ TryVisit(a)
Ends(a) == PostEnds(a) \/ VisitEnds(a)
WarmingNext ==
  \/ Plan \/ Dispatcher \/ Switch \/ WarmingCrash
  \/ \E a \in Accounts :
       \/ PostDue(a) \/ Ends(a) \/ VisitRaises(a) \/ Travelled(a) \/ WindowEnds(a)
       \/ ChangeProxy(a) \/ Hold(a) \/ Release(a) \/ RunNow(a)

\* The backend's timer runs the dispatcher, runs have time limits, and time passes.
WarmingFairness ==
  /\ WF_warmingVars(Dispatcher)
  /\ \A a \in Accounts :
       WF_warmingVars(Ends(a)) /\ WF_warmingVars(Travelled(a)) /\ WF_warmingVars(WindowEnds(a))
\* The assumption about everything around the dispatcher: a post that finds its account and a slot
\* free in pass after pass is not refused, or passed over, in all of them.
NotRefusedForEver == \A a \in Accounts : SF_warmingVars(StartPost(a))
WarmingSpec == WarmingInit /\ [][WarmingNext]_warmingVars /\ WarmingFairness /\ NotRefusedForEver

-----------------------------------------------------------------------------
(* Properties *)

\* account_hold.py: nothing automatic starts on an account on hold or travelling, however old the
\* dispatcher's list is; and a post on a restarting account starts only after a visit, by hand, or
\* when the operator changed the account after the list was made.
StartsPost(a) == post[a] # "running" /\ post'[a] = "running"
StartsVisit(a) == visit[a] # "running" /\ visit'[a] = "running"
RestartsGently ==
  [][\A a \in Accounts :
       /\ StartsPost(a) \/ StartsVisit(a) => ~Paused(a)
       /\ StartsPost(a) /\ auto /\ WaitingForVisit(a) => RunNow(a) \/ a \in changed]_warmingVars

\* A post that is due starts in the end, unless its account is on hold or the machine refuses it for
\* ever: visits give way, the slot they leave is not given to the next one each time, and the wait
\* for one lasts no longer than the restart window.
HeldPostStarts == \A a \in Accounts : Due(a) ~> ~Due(a) \/ a \in hold
=============================================================================
