---------------------------- MODULE PhoneJobsProofs -----------------------------
(***************************************************************************)
(* Proofs about PhoneJobs, for any accounts of the phone, any number of    *)
(* crashes, cancellations, requests and saves of older copies: nothing is  *)
(* shared or commented twice unasked, but once more for each such save,    *)
(* and while no job was lost each shares its own draft and a failed one    *)
(* that no such save touched shared nothing.                               *)
(***************************************************************************)
EXTENDS PhoneJobs, TLAPS

-----------------------------------------------------------------------------
(* What is still to come *)

Count(b) == IF b THEN 1 ELSE 0

\* An item may yet lead to one more draft of its account's own: it waits, it was claimed and
\* no runner has it, a runner has not come to its composer, or the draft is there.
Starting(j) == j.task # "comment" /\ j.at \in {"cooldown", "hold", "opening"}
Composing(s, a) ==
  rn[s].task = "post" /\ rn[s].acct = a /\ rn[s].at \in {"open", "media", "feed", "compose"}
Composed(a) == fb[a].draft \in Own
Shares(a) ==
  Count(exe[a].status = "pending") + Count(Starting(job[a])) + Count(Composing("job", a))
    + Count(Composing("orphan", a)) + Count(Composed(a)) + fb[a].own

\* And to one more comment: the post is to be published first, the comment is due, its job has
\* no runner yet, or a runner has not sent it.
Commenting(j) ==
  /\ j.task = "comment"
  /\ j.at = "opening" \/ (j.at \in {"release", "record"} /\ j.got = "not_started")
Sending(s, a) ==
  rn[s].task = "comment" /\ rn[s].acct = a /\ rn[s].at \in {"open", "feed", "look", "write", "send"}
Due(e) == e.status # "published" \/ e.comment = "pending"
Comments(a) ==
  Count(Due(exe[a])) + Count(Commenting(job[a])) + Count(Sending("job", a))
    + Count(Sending("orphan", a)) + fb[a].comments

Budget == \A a \in Accounts : Shares(a) <= Allowed(a) /\ Comments(a) <= Allowed(a)

\* Only the attempt that runs holds its record's lease; only a comment's job records after it,
\* and it holds the phone from the start.
Leased ==
  \A a \in Accounts : /\ exe[a].lease => exe[a].status = "running"
                      /\ \A copy \in copies : copy[a].lease => copy[a].status = "running"

Filed ==
  \A a \in Accounts : /\ job[a].at = "record" => job[a].task = "comment"
                      /\ job[a].at \in {"cooldown", "hold"} => job[a].task # "comment"

TInv ==
  /\ TypeOK /\ Leased /\ Filed
  /\ \A s \in Slots : rn[s].looks < Looks

-----------------------------------------------------------------------------
(* While no job was lost *)

\* The phone is held by one job at a time, and it has the runner.
Held ==
  /\ \A a \in Accounts : holder = a <=> job[a].at \in {"opening", "running", "release"}
  /\ rn["orphan"].at = "none" /\ rn["job"].pipe = "read"
  /\ rn["job"].at # "none" =>
       \/ holder = Setup /\ rn["job"].task = "ready"
       \/ /\ holder = rn["job"].acct /\ job[holder].at = "running"
          /\ rn["job"].task = job[holder].task
  /\ \A a \in Accounts : job[a].at = "running" => rn["job"].acct = a /\ rn["job"].at # "none"

\* Past its opening the runner has its own account on screen, and its composer its own draft.
OnScreen ==
  /\ rn["job"].at \notin {"none", "open", "exit"} => user = rn["job"].acct
  /\ rn["job"].task = "post" =>
       LET f == fb[rn["job"].acct]
           at == rn["job"].at IN
       /\ at \in {"open", "media", "feed", "compose"} => f.draft \in {"none", "old"}
       /\ at \in {"feed", "compose"} => f.media
       /\ at = "caption" => f.draft = "ours"
       /\ at \in {"publish", "tap"} => f.draft \in Complete
  /\ ~misplaced

\* A record runs while its attempt does, and until the runner announced its tap the account
\* has shared nothing.
Quiet(a) ==
  \/ exe[a].status \in {"pending", "failed", "cancelled"}
  \/ exe[a].status = "running" /\ ~job[a].tapped /\ (job[a].at = "running" => ~rn["job"].said)
Attempts ==
  \A a \in Accounts : lost[a] = 0 =>
    /\ job[a].at # "none" /\ job[a].task # "comment" <=> exe[a].status = "running"
    /\ exe[a].status = "running" => exe[a].lease
    /\ job[a].at # "none" /\ job[a].task = "comment" => exe[a].status = "published"
    /\ job[a].at \in {"cooldown", "hold", "opening"} => ~job[a].tapped
    /\ Quiet(a) => fb[a].posts = 0
Announced == rn["job"].at = "tap" => rn["job"].said

Undisturbed == faults = 0 => Held /\ OnScreen /\ Announced /\ (~Cooldown => Attempts)

IInv == TInv /\ Budget /\ Undisturbed

-----------------------------------------------------------------------------
(* Runners *)

USE FlowAssumption, JobAssumption

Fresh(r, task, a) ==
  /\ r \in Runners /\ r.at = "open" /\ r.task = task /\ r.acct = a /\ r.pipe = "read"
  /\ r.looks < Looks /\ r.said = FALSE

LEMMA RunnerFacts ==
  ASSUME NEW task \in Tasks, NEW a \in Accounts
  PROVE  Fresh(Runner(task, a), task, a)
<1> DEFINE zero == 0
<1>1. zero \in 0..Looks /\ zero < Looks
  BY FlowAssumption
<1>2. Runner(task, a) = [task |-> task, acct |-> a, at |-> "open", pipe |-> "read",
                         said |-> FALSE, tapped |-> FALSE, looks |-> zero, result |-> "none"]
  BY DEF Runner
<1> HIDE DEF zero
<1>3. Runner(task, a) \in Runners
  BY <1>1, <1>2 DEF Runners, Steps, Results
<1> QED BY <1>1, <1>2, <1>3 DEF Fresh

LEMMA IdleFacts ==
  /\ Idle \in Runners /\ Idle.at = "none" /\ Idle.task = "post" /\ Idle.pipe = "read"
  /\ Idle.looks = 0 /\ Idle.said = FALSE
<1> DEFINE c == CHOOSE a \in Accounts : TRUE
           zero == 0
           r == Runner("post", c)
<1>1. c \in Accounts /\ zero \in 0..Looks
  BY FlowAssumption
<1>2. Idle = [r EXCEPT !.at = "none"]
  BY DEF Idle
<1> HIDE DEF c
<1>3. r = [task |-> "post", acct |-> c, at |-> "open", pipe |-> "read", said |-> FALSE,
           tapped |-> FALSE, looks |-> zero, result |-> "none"]
  BY DEF Runner
<1> HIDE DEF r, zero
<1>4. Idle = [task |-> "post", acct |-> c, at |-> "none", pipe |-> "read", said |-> FALSE,
              tapped |-> FALSE, looks |-> zero, result |-> "none"]
  BY <1>2, <1>3
<1>5. Idle \in Runners /\ Idle.looks = zero
  BY <1>1, <1>4 DEF Runners, Tasks, Steps, Results
<1> QED BY <1>4, <1>5 DEF zero

\* The runner in a slot goes on to a step with what it announced, or dies of its pipe.
Went(s, step, said) ==
  /\ rn' \in [Slots -> Runners] /\ \A t \in Slots : rn'[t].looks < Looks
  /\ \A t \in Slots \ {s} : rn'[t] = rn[t]
  /\ \/ rn[s].pipe = "broken" /\ rn'[s].at = "none"
     \/ /\ rn'[s].task = rn[s].task /\ rn'[s].acct = rn[s].acct /\ rn'[s].pipe = rn[s].pipe
        /\ rn'[s].at = step /\ rn'[s].said = said

LEMMA GoesFacts ==
  ASSUME TInv, NEW s \in Slots, NEW r \in Runners, r.looks < Looks, Goes(s, r),
         r.task = rn[s].task, r.acct = rn[s].acct, r.pipe = rn[s].pipe
  PROVE  Went(s, r.at, r.said)
<1>1. rn \in [Slots -> Runners] /\ \A t \in Slots : rn[t].looks < Looks
  BY DEF TInv, TypeOK, FlowTypeOK
<1>2. CASE rn[s].pipe = "broken"
  <2>1. rn' = [rn EXCEPT ![s] = Idle]
    BY <1>2 DEF Goes
  <2>2. /\ rn' \in [Slots -> Runners] /\ rn'[s].at = "none" /\ rn'[s].looks = 0
        /\ \A t \in Slots \ {s} : rn'[t] = rn[t]
    BY <1>1, <2>1, IdleFacts
  <2>3. 0 < Looks
    BY FlowAssumption
  <2> QED BY <1>1, <1>2, <2>2, <2>3 DEF Went
<1>3. CASE rn[s].pipe # "broken"
  <2>1. rn' = [rn EXCEPT ![s] = r]
    BY <1>3 DEF Goes
  <2>2. /\ rn' \in [Slots -> Runners] /\ rn'[s] = r
        /\ \A t \in Slots \ {s} : rn'[t] = rn[t]
    BY <1>1, <2>1
  <2> QED BY <1>1, <1>3, <2>2 DEF Went
<1> QED BY <1>2, <1>3

LEMMA SlotFacts ==
  ASSUME TInv, NEW s \in Slots
  PROVE  /\ rn \in [Slots -> Runners] /\ rn[s] \in Runners /\ rn[s].looks < Looks
         /\ rn[s].task \in Tasks /\ rn[s].acct \in Accounts /\ rn[s].at \in Steps
         /\ rn[s].said \in BOOLEAN
BY DEF TInv, TypeOK, FlowTypeOK, Runners

LEMMA ToWent ==
  ASSUME TInv, NEW s \in Slots, NEW step \in Steps, To(s, step)
  PROVE  Went(s, step, rn[s].said)
<1> DEFINE r == [rn[s] EXCEPT !.at = step]
<1>1. Goes(s, r)
  BY DEF To
<1>2. /\ r \in Runners /\ r.looks < Looks /\ r.task = rn[s].task /\ r.acct = rn[s].acct
      /\ r.pipe = rn[s].pipe /\ r.at = step /\ r.said = rn[s].said
  BY SlotFacts DEF Runners
<1> HIDE DEF r
<1> QED BY <1>1, <1>2, GoesFacts

LEMMA EndsWent ==
  ASSUME TInv, NEW s \in Slots, NEW result \in Results, NEW step \in Steps,
         Ends(s, result, step)
  PROVE  Went(s, step, rn[s].said)
<1> DEFINE zero == 0
           r == [rn[s] EXCEPT !.result = result, !.at = step, !.looks = zero]
<1>1. Goes(s, r)
  BY DEF Ends
<1>2. zero \in 0..Looks /\ zero < Looks
  BY FlowAssumption
<1> HIDE DEF zero
<1>3. /\ r \in Runners /\ r.looks < Looks /\ r.task = rn[s].task /\ r.acct = rn[s].acct
      /\ r.pipe = rn[s].pipe /\ r.at = step /\ r.said = rn[s].said
  BY <1>2, SlotFacts DEF Runners
<1> HIDE DEF r
<1> QED BY <1>1, <1>3, GoesFacts

\* What ends a flow early leaves it at its end.
LEMMA LostWent ==
  ASSUME TInv, NEW s \in Slots, Missed(s) \/ StreamLost(s) \/ AccountBlocked(s)
  PROVE  \E step \in {"clean", "exit"} :
           Went(s, step, rn[s].said) /\ (step = "clean" => rn[s].task = "post")
<1>1. \E result \in Results, step \in {"clean", "exit"} :
        Ends(s, result, step) /\ (step = "clean" => rn[s].task = "post")
  <2>1. CASE Missed(s)
    <3>1. CASE rn[s].task = "post"
      BY <2>1, <3>1 DEF Missed, Results
    <3>2. CASE rn[s].task = "comment"
      BY <2>1, <3>2 DEF Missed, Results
    <3>3. CASE rn[s].task \notin {"post", "comment"}
      BY <2>1, <3>3 DEF Missed, Results
    <3> QED BY <3>1, <3>2, <3>3
  <2>2. CASE StreamLost(s)
    <3>1. CASE rn[s].task = "post"
      BY <2>2, <3>1 DEF StreamLost, Missed, Results
    <3>2. CASE rn[s].task = "comment"
      BY <2>2, <3>2 DEF StreamLost, Results
    <3>3. CASE rn[s].task \notin {"post", "comment"}
      BY <2>2, <3>3 DEF StreamLost, Missed, Results
    <3> QED BY <3>1, <3>2, <3>3
  <2>3. CASE AccountBlocked(s)
    BY <2>3 DEF AccountBlocked, Results
  <2> QED BY <2>1, <2>2, <2>3
<1>2. PICK result \in Results, step \in {"clean", "exit"} :
        Ends(s, result, step) /\ (step = "clean" => rn[s].task = "post")
  BY <1>1
<1>3. Went(s, step, rn[s].said)
  BY <1>2, EndsWent DEF Steps, PostSteps
<1> QED BY <1>2, <1>3

-----------------------------------------------------------------------------
(* What a runner's step keeps *)

LEMMA CountFacts == ASSUME NEW b PROVE Count(b) \in {0, 1}
BY DEF Count

\* A step of the runner adds nothing to what is still to come.
Spends(s) ==
  \A a \in Accounts :
    /\ Count(Composing(s, a))' + Count(Composed(a))' + fb'[a].own
         <= Count(Composing(s, a)) + Count(Composed(a)) + fb[a].own
    /\ Count(Sending(s, a))' + fb'[a].comments <= Count(Sending(s, a)) + fb[a].comments

LEMMA AllowedFacts ==
  ASSUME TInv, NEW a \in Accounts
  PROVE  asks \in Nat /\ lost[a] \in Nat /\ Allowed(a) = 1 + asks + lost[a] /\ Allowed(a) \in Nat
BY JobAssumption DEF TInv, TypeOK, Allowed

LEMMA SpendsKeepsBudget ==
  ASSUME TInv, Budget, lost' = lost, NEW s \in Slots, Backend, Spends(s),
         \A t \in Slots \ {s} : rn'[t] = rn[t], fb' \in [Accounts -> Facebooks]
  PROVE  Budget'
<1> SUFFICES ASSUME NEW a \in Accounts
             PROVE  Shares(a)' <= Allowed(a) /\ Comments(a)' <= Allowed(a)
  BY DEF Budget, Backend, Allowed
<1>1. Shares(a) <= Allowed(a) /\ Comments(a) <= Allowed(a) /\ Allowed(a) \in Nat
  BY AllowedFacts DEF Budget
<1>2. PICK t \in Slots : t # s /\ Slots = {s, t}
  BY DEF Slots
<1>3. rn'[t] = rn[t]
  BY <1>2
<1>4. /\ Count(Composing(t, a))' = Count(Composing(t, a))
      /\ Count(Sending(t, a))' = Count(Sending(t, a))
  BY <1>3 DEF Count, Composing, Sending
<1>5. /\ Count(exe[a].status = "pending")' = Count(exe[a].status = "pending")
      /\ Count(Starting(job[a]))' = Count(Starting(job[a]))
      /\ Count(Due(exe[a]))' = Count(Due(exe[a]))
      /\ Count(Commenting(job[a]))' = Count(Commenting(job[a]))
  BY DEF Backend, Count, Starting, Commenting
<1>6. /\ fb[a].own \in Nat /\ fb'[a].own \in Nat
      /\ fb[a].comments \in Nat /\ fb'[a].comments \in Nat
  BY FlowAssumption DEF TInv, TypeOK, FlowTypeOK, PhoneTypeOK, Facebooks
<1>7. /\ Count(Composing(s, a))' + Count(Composed(a))' + fb'[a].own
           <= Count(Composing(s, a)) + Count(Composed(a)) + fb[a].own
      /\ Count(Sending(s, a))' + fb'[a].comments <= Count(Sending(s, a)) + fb[a].comments
  BY DEF Spends
<1>8. /\ Count(Composing(s, a)) \in {0, 1} /\ Count(Composing(s, a))' \in {0, 1}
      /\ Count(Composing(t, a)) \in {0, 1}
      /\ Count(Sending(s, a)) \in {0, 1} /\ Count(Sending(s, a))' \in {0, 1}
      /\ Count(Sending(t, a)) \in {0, 1}
      /\ Count(Composed(a)) \in {0, 1} /\ Count(Composed(a))' \in {0, 1}
      /\ Count(exe[a].status = "pending") \in {0, 1} /\ Count(Starting(job[a])) \in {0, 1}
      /\ Count(Due(exe[a])) \in {0, 1} /\ Count(Commenting(job[a])) \in {0, 1}
  BY DEF Count
<1>9. /\ Shares(a) = Count(exe[a].status = "pending") + Count(Starting(job[a]))
                     + Count(Composing(s, a)) + Count(Composing(t, a)) + Count(Composed(a))
                     + fb[a].own
      /\ Shares(a)' = Count(exe[a].status = "pending")' + Count(Starting(job[a]))'
                      + Count(Composing(s, a))' + Count(Composing(t, a))' + Count(Composed(a))'
                      + fb'[a].own
      /\ Comments(a) = Count(Due(exe[a])) 
                       + Count(Commenting(job[a])) + Count(Sending(s, a)) + Count(Sending(t, a))
                       + fb[a].comments
      /\ Comments(a)' = Count(Due(exe[a]))' 
                        + Count(Commenting(job[a]))' + Count(Sending(s, a))' + Count(Sending(t, a))'
                        + fb'[a].comments
  <2>1. CASE s = "job" /\ t = "orphan"
    BY <1>4, <1>5, <1>6, <1>8, <2>1 DEF Shares, Comments
  <2>2. CASE s = "orphan" /\ t = "job"
    BY <1>4, <1>5, <1>6, <1>8, <2>2 DEF Shares, Comments
  <2> QED BY <1>2, <2>1, <2>2 DEF Slots
<1> QED BY <1>1, <1>4, <1>5, <1>6, <1>7, <1>8, <1>9

\* What is left to see for each step of a runner.
Kept(s, step, said) ==
  /\ Went(s, step, said) /\ Backend /\ rn[s].at # "none" /\ step # "none"
  /\ rn[s].said => said
  /\ user' \in Accounts \cup {Owner} /\ misplaced' \in BOOLEAN
  /\ fb' \in [Accounts -> Facebooks] /\ Spends(s)
  /\ s = "job" /\ faults = 0 /\ rn[s].pipe = "read" =>
       /\ OnScreen' /\ (step = "tap" => said)
       /\ ~Cooldown => \A a \in Accounts : lost[a] = 0 /\ Quiet(a) => fb'[a].posts = 0

LEMMA WentKeeps ==
  ASSUME IInv, copies' = copies, lost' = lost,
         NEW s \in Slots, NEW step \in Steps, NEW said \in BOOLEAN, Kept(s, step, said)
  PROVE  IInv'
<1>1. TInv'
  BY DEF IInv, TInv, TypeOK, FlowTypeOK, PhoneTypeOK, Leased, Filed, Kept, Went, Backend
<1>2. Budget'
  BY SpendsKeepsBudget DEF IInv, Kept, Went
<1>3. ASSUME faults' = 0
      PROVE  Held' /\ OnScreen' /\ Announced' /\ (~Cooldown => Attempts')
  <2>1. faults = 0 /\ Held /\ OnScreen /\ Announced /\ (~Cooldown => Attempts)
    BY <1>3 DEF IInv, Undisturbed, Kept, Backend
  <2>2. s = "job" /\ rn[s].pipe = "read"
    BY <2>1 DEF Slots, Held, Kept
  <2>3. /\ rn'["job"].task = rn["job"].task /\ rn'["job"].acct = rn["job"].acct
        /\ rn'["job"].pipe = "read" /\ rn'["job"].at = step /\ rn'["job"].said = said
        /\ rn'["orphan"] = rn["orphan"] /\ step # "none" /\ rn["job"].at # "none"
        /\ rn["job"].said => said
    BY <2>2 DEF Kept, Went, Slots
  <2>4. Held'
    BY <2>1, <2>3 DEF Held, Kept, Backend
  <2>5. OnScreen' /\ Announced'
    BY <2>1, <2>2, <2>3 DEF Kept, Announced
  <2>6. ASSUME ~Cooldown PROVE Attempts'
    <3>1. \A a \in Accounts : Quiet(a)' => Quiet(a)
      BY <2>3 DEF Quiet, Kept, Backend
    <3>2. \A a \in Accounts : lost[a] = 0 /\ Quiet(a) => fb'[a].posts = 0
      BY <2>1, <2>2, <2>6 DEF Kept
    <3> QED BY <2>1, <2>6, <3>1, <3>2 DEF Attempts, Kept, Backend
  <2> QED BY <2>4, <2>5, <2>6
<1> QED BY <1>1, <1>2, <1>3 DEF IInv, Undisturbed

-----------------------------------------------------------------------------
(* Steps that touch nothing *)

\* Where a step that leaves the screen alone takes the runner.
Leads(s, step, said) ==
  \/ step = "exit" /\ said = rn[s].said
  \/ rn[s].task = "post" /\ rn[s].at \notin {"open", "exit"} /\ step = "clean" /\ said = rn[s].said
  \/ rn[s].task = "post" /\ rn[s].at = "publish" /\ step = "tap" /\ said
  \/ rn[s].task = "comment" /\ rn[s].at = "shown" /\ step = "back" /\ said = rn[s].said
  \/ /\ rn[s].task = "comment" /\ rn[s].at \in {"look", "write"}
     /\ step \in {"look", "write", "send"} /\ (rn[s].said => said)

LEMMA LeadsKeeps ==
  ASSUME IInv, copies' = copies, lost' = lost,
         NEW s \in Slots, NEW step \in Steps, NEW said \in BOOLEAN, Went(s, step, said),
         Leads(s, step, said), Screen, Backend, rn[s].at # "none"
  PROVE  IInv'
<1>1. step # "none" /\ (rn[s].said => said)
  BY DEF Leads
<1>2. /\ user' = user /\ misplaced' = misplaced /\ fb' = fb
      /\ user' \in Accounts \cup {Owner} /\ misplaced' \in BOOLEAN
      /\ fb' \in [Accounts -> Facebooks]
  BY DEF Screen, phoneVars, IInv, TInv, TypeOK, FlowTypeOK, PhoneTypeOK
<1>3. Spends(s)
  <2> SUFFICES ASSUME NEW a \in Accounts
               PROVE  /\ Count(Composing(s, a))' + Count(Composed(a))' + fb'[a].own
                           <= Count(Composing(s, a)) + Count(Composed(a)) + fb[a].own
                      /\ Count(Sending(s, a))' + fb'[a].comments
                           <= Count(Sending(s, a)) + fb[a].comments
    BY DEF Spends
  <2>1. Composing(s, a)' => Composing(s, a)
    BY DEF Went, Leads, Composing
  <2>2. Sending(s, a)' => Sending(s, a)
    BY DEF Went, Leads, Sending
  <2>3. fb[a].own \in Nat /\ fb[a].comments \in Nat
    BY FlowAssumption DEF IInv, TInv, TypeOK, FlowTypeOK, PhoneTypeOK, Facebooks
  <2>4. Count(Composing(s, a))' <= Count(Composing(s, a)) /\ Count(Composing(s, a))' \in {0, 1}
    BY <2>1 DEF Count
  <2>5. Count(Sending(s, a))' <= Count(Sending(s, a)) /\ Count(Sending(s, a))' \in {0, 1}
    BY <2>2 DEF Count
  <2>6. Count(Composed(a))' = Count(Composed(a)) /\ Count(Composed(a)) \in {0, 1}
    BY <1>2 DEF Count, Composed
  <2>7. Count(Composing(s, a)) \in {0, 1} /\ Count(Sending(s, a)) \in {0, 1}
    BY DEF Count
  <2> QED BY <1>2, <2>3, <2>4, <2>5, <2>6, <2>7
<1>4. ASSUME s = "job", faults = 0, rn[s].pipe = "read"
      PROVE  /\ OnScreen' /\ (step = "tap" => said)
             /\ ~Cooldown => \A a \in Accounts : lost[a] = 0 /\ Quiet(a) => fb'[a].posts = 0
  <2>1. Held /\ OnScreen /\ (~Cooldown => Attempts)
    BY <1>4 DEF IInv, Undisturbed
  <2>2. /\ rn'["job"].task = rn["job"].task /\ rn'["job"].acct = rn["job"].acct
        /\ rn'["job"].at = step
    BY <1>4 DEF Went
  <2>3. step \notin {"none", "open", "exit"} => user' = rn'["job"].acct
    BY <1>2, <1>4, <2>1, <2>2 DEF OnScreen, Leads
  <2>4. rn'["job"].task = "post" => step \in {"exit", "clean", "tap"} /\ (step = "tap" => rn["job"].at = "publish")
    BY <1>4, <2>2 DEF Leads
  <2>5. OnScreen'
    BY <1>2, <2>1, <2>2, <2>3, <2>4 DEF OnScreen
  <2>6. step = "tap" => said
    BY DEF Leads
  <2> QED BY <1>2, <2>1, <2>5, <2>6 DEF Attempts
<1>5. Kept(s, step, said)
  BY <1>1, <1>2, <1>3, <1>4 DEF Kept
<1> QED BY <1>5, WentKeeps

\* The steps of a runner that only look at the screen, and what ends a flow early.
LEMMA LooksKeep ==
  ASSUME IInv, copies' = copies, lost' = lost, NEW s \in Slots, Backend,
         \/ ConnectFails(s) \/ Visit(s) \/ AboutToPublish(s) \/ WaitPublished(s)
         \/ Unconfirmed(s) \/ ScanProfile(s) \/ WriteComment(s) \/ CommentShown(s)
         \/ LeaveSheet(s) \/ OpenGallery(s) \/ WaitFails(s) \/ InputFails(s) \/ BrokenPipe(s)
  PROVE  IInv'
<1> SUFFICES /\ Screen /\ rn[s].at # "none"
             /\ \E step \in Steps, said \in BOOLEAN : Went(s, step, said) /\ Leads(s, step, said)
  BY LeadsKeeps
<1>0. TInv /\ rn \in [Slots -> Runners] /\ rn[s] \in Runners /\ rn[s].said \in BOOLEAN /\ rn[s].looks < Looks
  BY SlotFacts DEF IInv
<1>1. ASSUME NEW result \in Results, NEW step \in {"exit", "clean"}, Ends(s, result, step),
             rn[s].at \notin {"none", "open", "exit"} \/ step = "exit", step = "clean" => rn[s].task = "post"
      PROVE  \E st \in Steps, said \in BOOLEAN : Went(s, st, said) /\ Leads(s, st, said)
  <2>1. step \in Steps
    BY DEF Steps, PostSteps
  <2>2. Went(s, step, rn[s].said)
    BY <1>0, <1>1, <2>1, EndsWent
  <2>3. Leads(s, step, rn[s].said)
    BY <1>1 DEF Leads
  <2> QED BY <1>0, <2>1, <2>2, <2>3
<1>2. ASSUME Missed(s) \/ StreamLost(s) \/ AccountBlocked(s), rn[s].at \notin {"none", "open", "exit"}
      PROVE  \E step \in Steps, said \in BOOLEAN : Went(s, step, said) /\ Leads(s, step, said)
  <2>1. PICK step \in {"clean", "exit"} :
               Went(s, step, rn[s].said) /\ (step = "clean" => rn[s].task = "post")
    BY <1>0, <1>2, LostWent
  <2>2. step \in Steps
    BY DEF Steps, PostSteps
  <2>3. Leads(s, step, rn[s].said)
    BY <1>2, <2>1 DEF Leads
  <2> QED BY <1>0, <2>1, <2>2, <2>3
<1>3. ASSUME NEW step \in {"look", "write", "back"}, To(s, step), rn[s].task = "comment",
             \/ rn[s].at \in {"look", "write"} /\ step # "back"
             \/ rn[s].at = "shown" /\ step = "back"
      PROVE  \E st \in Steps, said \in BOOLEAN : Went(s, st, said) /\ Leads(s, st, said)
  <2>1. step \in Steps
    BY DEF Steps, CommentSteps
  <2>2. Went(s, step, rn[s].said)
    BY <1>0, <1>3, <2>1, ToWent
  <2>3. Leads(s, step, rn[s].said)
    BY <1>3 DEF Leads
  <2> QED BY <1>0, <2>1, <2>2, <2>3
<1>4. CASE ConnectFails(s)
  BY <1>1, <1>4 DEF ConnectFails, Results
<1>5. CASE Visit(s)
  BY <1>1, <1>5 DEF Visit, At, Results
<1>6. CASE WaitPublished(s) \/ Unconfirmed(s)
  BY <1>1, <1>6 DEF WaitPublished, Unconfirmed, At, Results
<1>7. CASE OpenGallery(s)
  BY <1>1, <1>7 DEF OpenGallery, At, Results
<1>8. CASE LeaveSheet(s)
  BY <1>1, <1>2, <1>8 DEF LeaveSheet, At, Results
<1>9. CASE WaitFails(s)
  BY <1>2, <1>9 DEF WaitFails, Awaiting
<1>10. CASE InputFails(s)
  BY <1>2, <1>10 DEF InputFails
<1>11. CASE CommentShown(s)
  BY <1>3, <1>11 DEF CommentShown, At
<1>12. CASE AboutToPublish(s)
  <2>1. rn' = [rn EXCEPT ![s].at = "tap", ![s].said = TRUE] /\ Screen /\ At(s, "post", "publish")
    BY <1>12 DEF AboutToPublish
  <2>2. "tap" \in Steps /\ TRUE \in BOOLEAN
    BY DEF Steps, PostSteps
  <2>3. Went(s, "tap", TRUE)
    BY <1>0, <2>1, <2>2 DEF Went, Runners, TInv
  <2>4. Leads(s, "tap", TRUE)
    BY <2>1 DEF Leads, At
  <2> QED BY <2>1, <2>2, <2>3, <2>4 DEF At
<1>13. CASE WriteComment(s)
  <2>1. rn' = [rn EXCEPT ![s].at = "send", ![s].said = TRUE] /\ Screen /\ At(s, "comment", "write")
    BY <1>13 DEF WriteComment
  <2>2. "send" \in Steps /\ TRUE \in BOOLEAN
    BY DEF Steps, CommentSteps
  <2>3. Went(s, "send", TRUE)
    BY <1>0, <2>1, <2>2 DEF Went, Runners, TInv
  <2>4. Leads(s, "send", TRUE)
    BY <2>1 DEF Leads, At
  <2> QED BY <2>1, <2>2, <2>3, <2>4 DEF At
<1>14. CASE ScanProfile(s)
  <2>1. Screen /\ At(s, "comment", "look")
    BY <1>14 DEF ScanProfile
  <2>2. CASE To(s, "write")
    BY <1>3, <2>1, <2>2 DEF At
  <2>3. CASE Ends(s, "skipped", "exit")
    BY <1>1, <2>1, <2>3 DEF At, Results
  <2>4. CASE rn[s].looks + 1 # Looks /\ Goes(s, [rn[s] EXCEPT !.looks = @ + 1])
    <3> DEFINE more == rn[s].looks + 1
               r == [rn[s] EXCEPT !.looks = more]
    <3>1. more \in 0..Looks /\ more < Looks
      BY <1>0, <2>4, FlowAssumption DEF Runners
    <3>2. Goes(s, r)
      BY <2>4
    <3> HIDE DEF more
    <3>3. /\ r \in Runners /\ r.looks < Looks /\ r.task = rn[s].task /\ r.acct = rn[s].acct
          /\ r.pipe = rn[s].pipe /\ r.at = rn[s].at /\ r.said = rn[s].said
      BY <1>0, <3>1 DEF Runners
    <3> HIDE DEF r
    <3>4. Went(s, rn[s].at, rn[s].said)
      BY <1>0, <3>2, <3>3, GoesFacts
    <3>5. Leads(s, rn[s].at, rn[s].said) /\ rn[s].at \in Steps
      BY <1>0, <2>1 DEF Leads, At, Runners
    <3> QED BY <1>0, <2>1, <3>4, <3>5 DEF At
  <2>5. \/ To(s, "write") \/ Ends(s, "skipped", "exit")
        \/ rn[s].looks + 1 # Looks /\ Goes(s, [rn[s] EXCEPT !.looks = @ + 1])
    BY <1>14 DEF ScanProfile
  <2> QED BY <2>2, <2>3, <2>4, <2>5
<1>15. CASE BrokenPipe(s)
  <2>1. rn' = [rn EXCEPT ![s] = Idle] /\ Screen /\ rn[s].pipe = "broken" /\ rn[s].at # "none"
    BY <1>15 DEF BrokenPipe
  <2>2. Went(s, "exit", rn[s].said) /\ "exit" \in Steps /\ Leads(s, "exit", rn[s].said)
    BY <1>0, <2>1, IdleFacts, FlowAssumption DEF Went, TInv, Steps, Leads
  <2> QED BY <1>0, <2>1, <2>2
<1> QED BY <1>4, <1>5, <1>6, <1>7, <1>8, <1>9, <1>10, <1>11, <1>12, <1>13, <1>14, <1>15

-----------------------------------------------------------------------------
(* Steps that touch Facebook *)

LEMMA ScreenFacts ==
  ASSUME TInv
  PROVE  /\ fb \in [Accounts -> Facebooks] /\ user \in Accounts \cup {Owner}
         /\ misplaced \in BOOLEAN /\ rn \in [Slots -> Runners]
         /\ \A a \in Accounts : /\ fb[a] \in Facebooks /\ fb[a].own \in Nat /\ fb[a].comments \in Nat
                                /\ fb[a].draft \in Drafts
BY FlowAssumption DEF TInv, TypeOK, FlowTypeOK, PhoneTypeOK, Facebooks

LEMMA DraftFacts ==
  ASSUME TInv, NEW a \in Accounts, NEW d \in Drafts, fb' = [fb EXCEPT ![a].draft = d]
  PROVE  /\ fb' \in [Accounts -> Facebooks]
         /\ fb'[a].draft = d /\ fb'[a].media = fb[a].media
         /\ \A b \in Accounts \ {a} : fb'[b] = fb[b]
         /\ \A b \in Accounts : /\ fb'[b].own = fb[b].own /\ fb'[b].comments = fb[b].comments
                                /\ fb'[b].posts = fb[b].posts
<1>1. fb \in [Accounts -> Facebooks] /\ \A b \in Accounts : fb[b] \in Facebooks
  BY ScreenFacts
<1> DEFINE f == [fb[a] EXCEPT !.draft = d]
<1>2. f \in Facebooks
  BY <1>1 DEF Facebooks
<1>3. /\ f.draft = d /\ f.media = fb[a].media /\ f.own = fb[a].own
      /\ f.comments = fb[a].comments /\ f.posts = fb[a].posts
  BY <1>1 DEF Facebooks
<1>4. fb' = [fb EXCEPT ![a] = f]
  BY <1>1
<1> HIDE DEF f
<1> QED BY <1>1, <1>2, <1>3, <1>4

LEMMA MediaFacts ==
  ASSUME TInv, NEW a \in Accounts, NEW m \in BOOLEAN, fb' = [fb EXCEPT ![a].media = m]
  PROVE  /\ fb' \in [Accounts -> Facebooks] /\ fb'[a].media = m
         /\ \A b \in Accounts \ {a} : fb'[b] = fb[b]
         /\ \A b \in Accounts : /\ fb'[b].own = fb[b].own /\ fb'[b].comments = fb[b].comments
                                /\ fb'[b].posts = fb[b].posts /\ fb'[b].draft = fb[b].draft
<1>1. fb \in [Accounts -> Facebooks] /\ \A b \in Accounts : fb[b] \in Facebooks
  BY ScreenFacts
<1> DEFINE f == [fb[a] EXCEPT !.media = m]
<1>2. f \in Facebooks
  BY <1>1 DEF Facebooks
<1>3. /\ f.draft = fb[a].draft /\ f.media = m /\ f.own = fb[a].own
      /\ f.comments = fb[a].comments /\ f.posts = fb[a].posts
  BY <1>1 DEF Facebooks
<1>4. fb' = [fb EXCEPT ![a] = f]
  BY <1>1
<1> HIDE DEF f
<1> QED BY <1>1, <1>2, <1>3, <1>4

\* A step that shares and sends nothing, and comes no closer to either.
Nearer(s, a) ==
  /\ Composing(s, a)' => Composing(s, a)
  /\ Sending(s, a)' => Sending(s, a)
  /\ Composed(a)' => Composed(a) \/ (Composing(s, a) /\ ~Composing(s, a)')
  /\ fb'[a].own = fb[a].own /\ fb'[a].comments = fb[a].comments
LEMMA NothingSpent ==
  ASSUME TInv, NEW s \in Slots,
         \A a \in Accounts : Nearer(s, a)
  PROVE  Spends(s)
<1> SUFFICES ASSUME NEW a \in Accounts
             PROVE  /\ Count(Composing(s, a))' + Count(Composed(a))' + fb'[a].own
                         <= Count(Composing(s, a)) + Count(Composed(a)) + fb[a].own
                    /\ Count(Sending(s, a))' + fb'[a].comments
                         <= Count(Sending(s, a)) + fb[a].comments
  BY DEF Spends
<1>1. fb[a].own \in Nat /\ fb[a].comments \in Nat
  BY ScreenFacts
<1>2. /\ Count(Sending(s, a))' <= Count(Sending(s, a))
      /\ Count(Sending(s, a)) \in {0, 1} /\ Count(Sending(s, a))' \in {0, 1}
  BY DEF Count, Nearer
<1>3. /\ Count(Composing(s, a))' + Count(Composed(a))' <= Count(Composing(s, a)) + Count(Composed(a))
      /\ Count(Composing(s, a)) \in {0, 1} /\ Count(Composing(s, a))' \in {0, 1}
      /\ Count(Composed(a)) \in {0, 1} /\ Count(Composed(a))' \in {0, 1}
  BY DEF Count, Nearer
<1>4. fb'[a].own = fb[a].own /\ fb'[a].comments = fb[a].comments
  BY DEF Nearer
<1> QED BY <1>1, <1>2, <1>3, <1>4

LEMMA OpenKeeps ==
  ASSUME IInv, copies' = copies, lost' = lost, NEW s \in Slots, Open(s), Backend
  PROVE  IInv'
<1> DEFINE step == IF rn[s].task = "post" THEN "media" ELSE "feed"
<1>1. TInv /\ rn[s].at = "open" /\ user' = rn[s].acct /\ fb' = fb /\ misplaced' = misplaced
  BY DEF IInv, Open, WakeIntoUser
<1>2. /\ step \in Steps /\ step \notin {"none", "tap", "compose", "caption", "publish"}
      /\ rn[s].task = "post" => step = "media"
  BY DEF Steps, PostSteps
<1>3. To(s, step)
  BY DEF Open
<1> HIDE DEF step
<1>4. Went(s, step, rn[s].said)
  BY <1>1, <1>2, <1>3, ToWent
<1>5. Spends(s)
  <2>1. \A a \in Accounts : /\ Composing(s, a)' => Composing(s, a)
                            /\ Sending(s, a)' => Sending(s, a)
    BY <1>1, <1>4 DEF Went, Composing, Sending
  <2>2. \A a \in Accounts : Composed(a)' => Composed(a)
    BY <1>1 DEF Composed
  <2> QED BY <1>1, <2>1, <2>2, NothingSpent DEF Nearer
<1>6. ASSUME s = "job", faults = 0, rn[s].pipe = "read"
      PROVE  /\ OnScreen'
             /\ ~Cooldown => \A a \in Accounts : lost[a] = 0 /\ Quiet(a) => fb'[a].posts = 0
  <2>1. Held /\ OnScreen /\ (~Cooldown => Attempts)
    BY <1>6 DEF IInv, Undisturbed
  <2>2. /\ rn'["job"].task = rn["job"].task /\ rn'["job"].acct = rn["job"].acct
        /\ rn'["job"].at = step
    BY <1>4, <1>6 DEF Went
  <2>3. OnScreen'
    BY <1>1, <1>2, <1>6, <2>1, <2>2 DEF OnScreen
  <2> QED BY <1>1, <2>1, <2>3 DEF Attempts
<1>7. Kept(s, step, rn[s].said)
  <2>1. rn[s].acct \in Accounts /\ rn[s].said \in BOOLEAN
    BY <1>1, SlotFacts
  <2> QED BY <1>1, <1>2, <1>4, <1>5, <1>6, <2>1, ScreenFacts DEF Kept
<1>8. rn[s].said \in BOOLEAN
  BY <1>1, SlotFacts
<1> QED BY <1>2, <1>7, <1>8, WentKeeps

LEMMA SaveKeeps ==
  ASSUME IInv, copies' = copies, lost' = lost, NEW s \in Slots, Save(s), Backend
  PROVE  IInv'
<1> DEFINE c == rn[s].acct
<1>1. /\ TInv /\ rn[s].task = "post" /\ rn[s].at = "media" /\ user' = user
      /\ misplaced' = misplaced /\ fb' = [fb EXCEPT ![c].media = TRUE] /\ To(s, "feed")
  BY DEF IInv, Save, At, PutMedia
<1>2. c \in Accounts /\ rn[s].said \in BOOLEAN /\ "feed" \in Steps
  BY <1>1, SlotFacts DEF Steps
<1>3. Went(s, "feed", rn[s].said)
  BY <1>1, <1>2, ToWent
<1>4. /\ fb' \in [Accounts -> Facebooks] /\ fb'[c].media = TRUE
      /\ \A b \in Accounts : /\ fb'[b].own = fb[b].own /\ fb'[b].comments = fb[b].comments
                             /\ fb'[b].posts = fb[b].posts /\ fb'[b].draft = fb[b].draft
  BY <1>1, <1>2, MediaFacts
<1>5. Spends(s)
  <2>1. \A a \in Accounts : /\ Composing(s, a)' => Composing(s, a)
                            /\ Sending(s, a)' => Sending(s, a)
    BY <1>1, <1>3 DEF Went, Composing, Sending
  <2>2. \A a \in Accounts : Composed(a)' => Composed(a)
    BY <1>4 DEF Composed
  <2> QED BY <1>1, <1>4, <2>1, <2>2, NothingSpent DEF Nearer
<1>6. ASSUME s = "job", faults = 0, rn[s].pipe = "read"
      PROVE  /\ OnScreen'
             /\ ~Cooldown => \A a \in Accounts : lost[a] = 0 /\ Quiet(a) => fb'[a].posts = 0
  <2>1. Held /\ OnScreen /\ (~Cooldown => Attempts)
    BY <1>6 DEF IInv, Undisturbed
  <2>2. /\ rn'["job"].task = rn["job"].task /\ rn'["job"].acct = c
        /\ rn'["job"].at = "feed"
    BY <1>3, <1>6 DEF Went
  <2>3. user = c /\ fb[c].draft \in {"none", "old"} /\ ~misplaced
    BY <1>1, <1>6, <2>1 DEF OnScreen
  <2> HIDE DEF c
  <2>4. OnScreen'
    BY <1>1, <1>2, <1>4, <2>2, <2>3 DEF OnScreen
  <2> QED BY <1>4, <2>1, <2>4 DEF Attempts
<1>7. Kept(s, "feed", rn[s].said)
  BY <1>1, <1>2, <1>3, <1>4, <1>5, <1>6, ScreenFacts DEF Kept
<1> QED BY <1>2, <1>7, WentKeeps

LEMMA OpenFeedKeeps ==
  ASSUME IInv, copies' = copies, lost' = lost, NEW s \in Slots, OpenFeed(s), Backend
  PROVE  IInv'
<1> DEFINE step == AfterFeed(rn[s].task)
<1>1. /\ TInv /\ rn[s].at = "feed" /\ user # Owner /\ user' = user /\ misplaced' = misplaced
      /\ To(s, step)
  BY DEF IInv, OpenFeed
<1>2. /\ rn[s].said \in BOOLEAN /\ rn[s].acct \in Accounts /\ step \in Steps
      /\ rn[s].task = "post" => step = "compose"
      /\ rn[s].task = "comment" => step = "look"
      /\ step \notin {"none", "tap"}
  <2>1. rn[s].task \in Tasks
    BY <1>1, SlotFacts
  <2> QED BY <1>1, <2>1, SlotFacts DEF AfterFeed, Tasks, Steps, PostSteps, CommentSteps
<1> HIDE DEF step
<1>3. Went(s, step, rn[s].said)
  BY <1>1, <1>2, ToWent
<1>4. user \in Accounts
  BY <1>1, ScreenFacts
<1>5. /\ fb' \in [Accounts -> Facebooks]
      /\ \A b \in Accounts :
           /\ fb'[b].own = fb[b].own /\ fb'[b].comments = fb[b].comments
           /\ fb'[b].posts = fb[b].posts /\ fb'[b].media = fb[b].media
           /\ fb'[b].draft = fb[b].draft \/ fb'[b].draft = "none"
  <2>1. CASE fb' = fb
    BY <1>1, <2>1, ScreenFacts
  <2>2. CASE fb' = [fb EXCEPT ![user].draft = "none"]
    <3>1. "none" \in Drafts
      BY DEF Drafts
    <3>2. TInv
      BY <1>1
    <3> QED BY <1>4, <2>2, <3>1, <3>2, DraftFacts, ZenonT(60)
  <2> QED BY <2>1, <2>2 DEF OpenFeed, DiscardUntilFeed
<1>6. Spends(s)
  <2>1. \A a \in Accounts : /\ Composing(s, a)' => Composing(s, a)
                            /\ Sending(s, a)' => Sending(s, a)
    BY <1>1, <1>3 DEF Went, Composing, Sending
  <2>2. \A a \in Accounts : Composed(a)' => Composed(a)
    BY <1>5 DEF Composed, Own, Complete
  <2> QED BY <1>1, <1>5, <2>1, <2>2, NothingSpent DEF Nearer
<1>7. ASSUME s = "job", faults = 0, rn[s].pipe = "read"
      PROVE  /\ OnScreen'
             /\ ~Cooldown => \A a \in Accounts : lost[a] = 0 /\ Quiet(a) => fb'[a].posts = 0
  <2>1. Held /\ OnScreen /\ (~Cooldown => Attempts)
    BY <1>7 DEF IInv, Undisturbed
  <2>2. /\ rn'["job"].task = rn["job"].task /\ rn'["job"].acct = rn["job"].acct
        /\ rn'["job"].at = step
    BY <1>3, <1>7 DEF Went
  <2>3. OnScreen'
    BY <1>1, <1>2, <1>5, <1>7, <2>1, <2>2 DEF OnScreen
  <2> QED BY <1>5, <2>1, <2>3 DEF Attempts
<1>8. Kept(s, step, rn[s].said)
  BY <1>1, <1>2, <1>3, <1>5, <1>6, <1>7, ScreenFacts DEF Kept
<1> QED BY <1>2, <1>8, WentKeeps

LEMMA StartPostKeeps ==
  ASSUME IInv, copies' = copies, lost' = lost, NEW s \in Slots, StartPost(s), Backend
  PROVE  IInv'
<1> DEFINE own == IF user = rn[s].acct /\ fb[user].media THEN "ours" ELSE "old"
<1>1. /\ TInv /\ rn[s].task = "post" /\ rn[s].at = "compose" /\ user # Owner /\ user' = user
      /\ misplaced' = misplaced /\ To(s, "caption")
  BY DEF IInv, StartPost, At, PickMedia
<1>2. /\ user \in Accounts /\ rn[s].acct \in Accounts /\ rn[s].said \in BOOLEAN
      /\ "caption" \in Steps /\ own \in Drafts
  BY <1>1, SlotFacts, ScreenFacts DEF Steps, PostSteps, Drafts
<1>3. fb' = [fb EXCEPT ![user].draft = own]
  <2>1. PICK seen \in OffersDiscard(user) :
          /\ DiscardOld(fb[user].draft, seen, own) # "none"
          /\ fb' = [fb EXCEPT ![user].draft = DiscardOld(fb[user].draft, seen, own)]
    BY DEF StartPost, PickMedia
  <2>2. DiscardOld(fb[user].draft, seen, own) = own
    BY <2>1 DEF DiscardOld
  <2> QED BY <2>1, <2>2
<1>4. Went(s, "caption", rn[s].said)
  BY <1>1, <1>2, ToWent
<1>5. own \in Own => user = rn[s].acct
  BY DEF Own, Complete
<1>6. user = rn[s].acct /\ fb[user].media => own = "ours"
  OBVIOUS
<1> HIDE DEF own
<1>7. /\ fb' \in [Accounts -> Facebooks] /\ fb'[user].draft = own
      /\ \A b \in Accounts \ {user} : fb'[b] = fb[b]
      /\ \A b \in Accounts : /\ fb'[b].own = fb[b].own /\ fb'[b].comments = fb[b].comments
                             /\ fb'[b].posts = fb[b].posts
  BY <1>1, <1>2, <1>3, DraftFacts
<1>8. Spends(s)
  <2>1. \A a \in Accounts : /\ ~Composing(s, a)'
                            /\ Sending(s, a)' => Sending(s, a)
    BY <1>1, <1>4 DEF Went, Composing, Sending
  <2>2. \A a \in Accounts : Composed(a)' => Composed(a) \/ Composing(s, a)
    <3> SUFFICES ASSUME NEW a \in Accounts, Composed(a)' PROVE Composed(a) \/ Composing(s, a)
      OBVIOUS
    <3>1. CASE a = user
      BY <1>1, <1>5, <1>7, <3>1 DEF Composed, Composing
    <3>2. CASE a # user
      BY <1>7, <3>2 DEF Composed
    <3> QED BY <3>1, <3>2
  <2> QED BY <1>1, <1>7, <2>1, <2>2, NothingSpent DEF Nearer
<1>9. ASSUME s = "job", faults = 0, rn[s].pipe = "read"
      PROVE  /\ OnScreen'
             /\ ~Cooldown => \A a \in Accounts : lost[a] = 0 /\ Quiet(a) => fb'[a].posts = 0
  <2>1. Held /\ OnScreen /\ (~Cooldown => Attempts)
    BY <1>9 DEF IInv, Undisturbed
  <2>2. /\ rn'["job"].task = rn["job"].task /\ rn'["job"].acct = rn["job"].acct
        /\ rn'["job"].at = "caption"
    BY <1>4, <1>9 DEF Went
  <2>3. user = rn["job"].acct /\ fb[user].media /\ ~misplaced
    BY <1>1, <1>9, <2>1 DEF OnScreen
  <2>4. own = "ours"
    BY <1>6, <1>9, <2>3
  <2>5. OnScreen'
    BY <1>1, <1>7, <2>2, <2>3, <2>4 DEF OnScreen
  <2> QED BY <1>7, <2>1, <2>5 DEF Attempts
<1>10. Kept(s, "caption", rn[s].said)
  BY <1>1, <1>2, <1>4, <1>7, <1>8, <1>9, ScreenFacts DEF Kept
<1> QED BY <1>2, <1>10, WentKeeps

LEMMA WriteCaptionKeeps ==
  ASSUME IInv, copies' = copies, lost' = lost, NEW s \in Slots, WriteCaption(s), Backend
  PROVE  IInv'
<1>1. /\ TInv /\ rn[s].task = "post" /\ rn[s].at = "caption" /\ user # Owner /\ user' = user
      /\ misplaced' = misplaced /\ To(s, "publish")
  BY DEF IInv, WriteCaption, At
<1>2. /\ user \in Accounts /\ rn[s].acct \in Accounts /\ rn[s].said \in BOOLEAN
      /\ "publish" \in Steps
  BY <1>1, SlotFacts, ScreenFacts DEF Steps, PostSteps
<1>3. PICK d \in Drafts :
        /\ fb' = [fb EXCEPT ![user].draft = d]
        /\ d \in Own => fb[user].draft = "ours"
        /\ fb[user].draft = "ours" => d \in Complete
  <2>1. PICK readable, entered \in BOOLEAN :
          /\ CaptionAccepted(readable, entered)
          /\ fb' = [fb EXCEPT ![user].draft = IF @ = "ours" THEN Captioned(readable, entered)
                                              ELSE "wrong"]
    BY DEF WriteCaption
  <2> DEFINE d == IF fb[user].draft = "ours" THEN Captioned(readable, entered) ELSE "wrong"
  <2>2. fb' = [fb EXCEPT ![user].draft = d]
    BY <1>1, <1>2, <2>1, ScreenFacts
  <2>3. /\ d \in Drafts /\ (d \in Own => fb[user].draft = "ours")
        /\ fb[user].draft = "ours" => d \in Complete
    BY <2>1 DEF CaptionAccepted, Captioned, Drafts, Own, Complete
  <2> QED BY <2>2, <2>3
<1>4. Went(s, "publish", rn[s].said)
  BY <1>1, <1>2, ToWent
<1>5. d \in Own => fb[user].draft \in Own
  BY <1>3 DEF Own, Complete
<1>6. /\ fb' \in [Accounts -> Facebooks] /\ fb'[user].draft = d
      /\ \A b \in Accounts \ {user} : fb'[b] = fb[b]
      /\ \A b \in Accounts : /\ fb'[b].own = fb[b].own /\ fb'[b].comments = fb[b].comments
                             /\ fb'[b].posts = fb[b].posts
  BY <1>1, <1>2, <1>3, DraftFacts
<1>7. Spends(s)
  <2>1. \A a \in Accounts : /\ Composing(s, a)' => Composing(s, a)
                            /\ Sending(s, a)' => Sending(s, a)
    BY <1>1, <1>4 DEF Went, Composing, Sending
  <2>2. \A a \in Accounts : Composed(a)' => Composed(a)
    BY <1>2, <1>5, <1>6 DEF Composed
  <2> QED BY <1>1, <1>6, <2>1, <2>2, NothingSpent DEF Nearer
<1>8. ASSUME s = "job", faults = 0, rn[s].pipe = "read"
      PROVE  /\ OnScreen'
             /\ ~Cooldown => \A a \in Accounts : lost[a] = 0 /\ Quiet(a) => fb'[a].posts = 0
  <2>1. Held /\ OnScreen /\ (~Cooldown => Attempts)
    BY <1>8 DEF IInv, Undisturbed
  <2>2. /\ rn'["job"].task = rn["job"].task /\ rn'["job"].acct = rn["job"].acct
        /\ rn'["job"].at = "publish"
    BY <1>4, <1>8 DEF Went
  <2>3. user = rn["job"].acct /\ fb[user].draft = "ours" /\ ~misplaced
    BY <1>1, <1>8, <2>1 DEF OnScreen
  <2>4. OnScreen'
    BY <1>1, <1>3, <1>6, <2>2, <2>3 DEF OnScreen
  <2> QED BY <1>6, <2>1, <2>4 DEF Attempts
<1>9. Kept(s, "publish", rn[s].said)
  BY <1>1, <1>2, <1>4, <1>6, <1>7, <1>8, ScreenFacts DEF Kept
<1> QED BY <1>2, <1>9, WentKeeps

LEMMA CleanUpKeeps ==
  ASSUME IInv, copies' = copies, lost' = lost, NEW s \in Slots, CleanUp(s), Backend
  PROVE  IInv'
<1> DEFINE c == rn[s].acct
           left == IF rn[s].result # "uncertain" THEN DeleteMedia(c) ELSE fb
<1>1. /\ TInv /\ rn[s].task = "post" /\ rn[s].at = "clean" /\ user' = user
      /\ misplaced' = misplaced /\ To(s, "exit")
  BY DEF IInv, CleanUp, At
<1>2. c \in Accounts /\ rn[s].said \in BOOLEAN /\ "exit" \in Steps /\ "none" \in Drafts
  BY <1>1, SlotFacts DEF Steps, Drafts
<1>3. fb' = left \/ fb' = [left EXCEPT ![c].draft = "none"]
  BY DEF CleanUp
<1>4. Went(s, "exit", rn[s].said)
  BY <1>1, <1>2, ToWent
<1>5. fb \in [Accounts -> Facebooks]
  BY <1>1, ScreenFacts
<1>6. /\ left \in [Accounts -> Facebooks]
      /\ \A b \in Accounts : /\ left[b].own = fb[b].own /\ left[b].comments = fb[b].comments
                             /\ left[b].posts = fb[b].posts /\ left[b].draft = fb[b].draft
  <2> HIDE DEF c
  <2>1. CASE left = fb
    BY <1>5, <2>1
  <2>2. CASE left = [fb EXCEPT ![c].media = FALSE]
    <3> DEFINE f == [fb[c] EXCEPT !.media = FALSE]
    <3>1. fb[c] \in Facebooks
      BY <1>2, <1>5
    <3>2. /\ f \in Facebooks /\ f.own = fb[c].own /\ f.comments = fb[c].comments
          /\ f.posts = fb[c].posts /\ f.draft = fb[c].draft
      BY <3>1 DEF Facebooks
    <3>3. left = [fb EXCEPT ![c] = f]
      BY <1>5, <2>2
    <3> HIDE DEF f
    <3> QED BY <1>2, <1>5, <3>2, <3>3
  <2> QED BY <2>1, <2>2 DEF DeleteMedia
<1> HIDE DEF left
<1>7. /\ fb' \in [Accounts -> Facebooks]
      /\ \A b \in Accounts : /\ fb'[b].own = fb[b].own /\ fb'[b].comments = fb[b].comments
                             /\ fb'[b].posts = fb[b].posts
                             /\ fb'[b].draft = fb[b].draft \/ fb'[b].draft = "none"
  <2> HIDE DEF c
  <2>1. CASE fb' = left
    BY <1>6, <2>1
  <2>2. CASE fb' = [left EXCEPT ![c].draft = "none"]
    <3> DEFINE f == [left[c] EXCEPT !.draft = "none"]
    <3>1. left[c] \in Facebooks
      BY <1>2, <1>6
    <3>2. /\ f \in Facebooks /\ f.own = left[c].own /\ f.comments = left[c].comments
          /\ f.posts = left[c].posts /\ f.draft = "none"
      BY <1>2, <3>1 DEF Facebooks
    <3>3. fb' = [left EXCEPT ![c] = f]
      BY <1>6, <2>2
    <3> HIDE DEF f
    <3> QED BY <1>2, <1>6, <3>2, <3>3
  <2> QED BY <1>3, <2>1, <2>2
<1>8. Spends(s)
  <2>1. \A a \in Accounts : /\ Composing(s, a)' => Composing(s, a)
                            /\ Sending(s, a)' => Sending(s, a)
    BY <1>1, <1>4 DEF Went, Composing, Sending
  <2>2. \A a \in Accounts : Composed(a)' => Composed(a)
    BY <1>7 DEF Composed, Own, Complete
  <2> QED BY <1>1, <1>7, <2>1, <2>2, NothingSpent DEF Nearer
<1>9. ASSUME s = "job", faults = 0, rn[s].pipe = "read"
      PROVE  /\ OnScreen'
             /\ ~Cooldown => \A a \in Accounts : lost[a] = 0 /\ Quiet(a) => fb'[a].posts = 0
  <2>1. Held /\ OnScreen /\ (~Cooldown => Attempts)
    BY <1>9 DEF IInv, Undisturbed
  <2>2. /\ rn'["job"].task = rn["job"].task /\ rn'["job"].acct = rn["job"].acct
        /\ rn'["job"].at = "exit"
    BY <1>4, <1>9 DEF Went
  <2>3. OnScreen'
    BY <1>1, <2>1, <2>2 DEF OnScreen
  <2> QED BY <1>7, <2>1, <2>3 DEF Attempts
<1>10. Kept(s, "exit", rn[s].said)
  BY <1>1, <1>2, <1>4, <1>7, <1>8, <1>9, ScreenFacts DEF Kept
<1> QED BY <1>2, <1>10, WentKeeps

\* What the share button and the send arrow do.
LEMMA ShareFacts ==
  ASSUME TInv, NEW c \in Accounts, NEW touched \in BOOLEAN, Share(c, touched)
  PROVE  /\ fb' \in [Accounts -> Facebooks] /\ misplaced' \in BOOLEAN
         /\ user = c /\ fb[c].draft \in Complete /\ ~misplaced => ~misplaced'
         /\ \A a \in Accounts :
              /\ a # user => fb'[a] = fb[a]
              /\ fb'[a].comments = fb[a].comments
              /\ \/ fb'[a].own = fb[a].own /\ (Composed(a)' => Composed(a))
                 \/ fb'[a].own \in {fb[a].own, fb[a].own + 1} /\ Composed(a) /\ ~Composed(a)'
<1>1. misplaced' \in BOOLEAN /\ (user = c /\ fb[c].draft \in Complete /\ ~misplaced => ~misplaced')
  BY ScreenFacts DEF Share
<1>2. fb \in [Accounts -> Facebooks] /\ \A b \in Accounts : fb[b] \in Facebooks
  BY ScreenFacts
<1>3. CASE fb' = fb
  BY <1>1, <1>2, <1>3 DEF Composed
<1>4. CASE fb' # fb
  <2> DEFINE posts == Capped(fb[user].posts)
             own == IF fb[user].draft \in Own THEN Capped(fb[user].own) ELSE fb[user].own
             f == [fb[user] EXCEPT !.posts = posts, !.draft = "none", !.own = own]
  <2>1. user \in Accounts /\ fb[user] \in Facebooks
    BY <1>2, <1>4, ScreenFacts DEF Share
  <2>2. fb' = [fb EXCEPT ![user] = f]
    BY <1>2, <1>4, <2>1 DEF Share
  <2>3. /\ posts \in 0..MaxPosts /\ own \in 0..MaxPosts /\ "none" \in Drafts
        /\ fb[user].draft \in Own => own \in {fb[user].own, fb[user].own + 1}
        /\ fb[user].draft \notin Own => own = fb[user].own
    BY <2>1, FlowAssumption DEF Capped, Facebooks, Drafts
  <2> HIDE DEF posts, own
  <2>4. /\ f \in Facebooks /\ f.own = own /\ f.draft = "none" /\ f.comments = fb[user].comments
    BY <2>1, <2>3 DEF Facebooks
  <2> HIDE DEF f
  <2>5. /\ fb' \in [Accounts -> Facebooks] /\ fb'[user] = f
        /\ \A a \in Accounts \ {user} : fb'[a] = fb[a]
    BY <1>2, <2>1, <2>2, <2>4
  <2> QED BY <1>1, <2>1, <2>3, <2>4, <2>5 DEF Composed, Own, Complete
<1> QED BY <1>3, <1>4

LEMMA SendFacts ==
  ASSUME TInv, NEW c \in Accounts, NEW touched \in BOOLEAN, Send(c, touched)
  PROVE  /\ fb' \in [Accounts -> Facebooks] /\ misplaced' \in BOOLEAN
         /\ user = c /\ ~misplaced => ~misplaced'
         /\ \A a \in Accounts :
              /\ fb'[a].own = fb[a].own /\ fb'[a].draft = fb[a].draft
              /\ fb'[a].posts = fb[a].posts /\ fb'[a].media = fb[a].media
              /\ \/ fb'[a].comments = fb[a].comments
                 \/ a = c /\ fb'[a].comments = fb[a].comments + 1
<1>1. misplaced' \in BOOLEAN /\ (user = c /\ ~misplaced => ~misplaced')
  BY ScreenFacts DEF Send
<1>2. fb \in [Accounts -> Facebooks] /\ \A b \in Accounts : fb[b] \in Facebooks
  BY ScreenFacts
<1>3. CASE fb' = fb
  BY <1>1, <1>2, <1>3
<1>4. CASE fb' # fb
  <2> DEFINE comments == Capped(fb[c].comments)
             f == [fb[c] EXCEPT !.comments = comments]
  <2>1. fb[c] \in Facebooks
    BY <1>2
  <2>2. fb' = [fb EXCEPT ![c] = f]
    BY <1>2, <1>4, <2>1 DEF Send
  <2>3. comments \in 0..MaxPosts /\ comments \in {fb[c].comments, fb[c].comments + 1}
    BY <2>1, FlowAssumption DEF Capped, Facebooks
  <2> HIDE DEF comments
  <2>4. /\ f \in Facebooks /\ f.own = fb[c].own /\ f.draft = fb[c].draft /\ f.posts = fb[c].posts
        /\ f.media = fb[c].media /\ f.comments = comments
    BY <2>1, <2>3 DEF Facebooks
  <2> HIDE DEF f
  <2>5. /\ fb' \in [Accounts -> Facebooks] /\ fb'[c] = f
        /\ \A a \in Accounts \ {c} : fb'[a] = fb[a]
    BY <1>2, <2>1, <2>2, <2>4
  <2> QED BY <1>1, <2>1, <2>3, <2>4, <2>5
<1> QED BY <1>3, <1>4

LEMMA TapPublishKeeps ==
  ASSUME IInv, copies' = copies, lost' = lost, NEW s \in Slots, TapPublish(s), Backend
  PROVE  IInv'
<1>1. /\ TInv /\ rn[s].task = "post" /\ rn[s].at = "tap" /\ user' = user
  BY DEF IInv, TapPublish, At
<1>2. /\ rn[s].acct \in Accounts /\ rn[s].said \in BOOLEAN /\ rn[s] \in Runners
      /\ rn[s].looks < Looks
  BY <1>1, SlotFacts
<1>3. PICK tap \in Taps, touched \in BOOLEAN :
        /\ Share(rn[s].acct, touched)
        /\ IF tap = "done" THEN Goes(s, [rn[s] EXCEPT !.at = "confirm", !.tapped = TRUE])
           ELSE Missed(s)
  BY DEF TapPublish, Touched
<1>4. PICK step \in {"confirm", "clean", "exit"} : Went(s, step, rn[s].said)
  <2>1. CASE tap = "done"
    <3> DEFINE r == [rn[s] EXCEPT !.at = "confirm", !.tapped = TRUE]
    <3>1. Goes(s, r)
      BY <1>3, <2>1
    <3>2. /\ r \in Runners /\ r.looks < Looks /\ r.task = rn[s].task /\ r.acct = rn[s].acct
          /\ r.pipe = rn[s].pipe /\ r.at = "confirm" /\ r.said = rn[s].said
      BY <1>2 DEF Runners, Steps, PostSteps
    <3> HIDE DEF r
    <3>3. Went(s, "confirm", rn[s].said)
      BY <1>1, <3>1, <3>2, GoesFacts
    <3> QED BY <3>3
  <2>2. CASE tap # "done"
    <3>1. Missed(s)
      BY <1>3, <2>2
    <3> QED BY <1>1, <3>1, LostWent
  <2> QED BY <2>1, <2>2
<1>5. step \in Steps /\ step \notin {"none", "tap"}
  BY DEF Steps, PostSteps
<1>6. /\ fb' \in [Accounts -> Facebooks] /\ misplaced' \in BOOLEAN
      /\ user = rn[s].acct /\ fb[rn[s].acct].draft \in Complete /\ ~misplaced => ~misplaced'
      /\ \A a \in Accounts :
           /\ a # user => fb'[a] = fb[a]
           /\ fb'[a].comments = fb[a].comments
           /\ \/ fb'[a].own = fb[a].own /\ (Composed(a)' => Composed(a))
              \/ fb'[a].own \in {fb[a].own, fb[a].own + 1} /\ Composed(a) /\ ~Composed(a)'
  BY <1>1, <1>2, <1>3, ShareFacts
<1>7. Spends(s)
  <2> SUFFICES ASSUME NEW a \in Accounts
               PROVE  /\ Count(Composing(s, a))' + Count(Composed(a))' + fb'[a].own
                           <= Count(Composing(s, a)) + Count(Composed(a)) + fb[a].own
                      /\ Count(Sending(s, a))' + fb'[a].comments
                           <= Count(Sending(s, a)) + fb[a].comments
    BY DEF Spends
  <2>1. Count(Composing(s, a))' = 0 /\ Count(Sending(s, a))' = 0
    BY <1>1, <1>4 DEF Count, Composing, Sending, Went
  <2>2. Count(Composing(s, a)) \in {0, 1} /\ Count(Sending(s, a)) \in {0, 1}
    BY DEF Count
  <2>3. Count(Composed(a))' + fb'[a].own <= Count(Composed(a)) + fb[a].own
    <3>1. fb[a].own \in Nat
      BY <1>1, ScreenFacts
    <3>2. CASE fb'[a].own = fb[a].own /\ (Composed(a)' => Composed(a))
      BY <3>1, <3>2 DEF Count
    <3>3. CASE fb'[a].own \in {fb[a].own, fb[a].own + 1} /\ Composed(a) /\ ~Composed(a)'
      BY <3>1, <3>3 DEF Count
    <3> QED BY <1>6, <3>2, <3>3
  <2>4. /\ fb[a].own \in Nat /\ fb[a].comments \in Nat /\ fb'[a].own \in Nat
        /\ fb'[a].comments = fb[a].comments
    BY <1>1, <1>6, ScreenFacts, FlowAssumption DEF Facebooks
  <2>5. Count(Composed(a)) \in {0, 1} /\ Count(Composed(a))' \in {0, 1}
    BY DEF Count
  <2> QED BY <2>1, <2>2, <2>3, <2>4, <2>5
<1>8. ASSUME s = "job", faults = 0, rn[s].pipe = "read"
      PROVE  /\ OnScreen'
             /\ ~Cooldown => \A a \in Accounts : lost[a] = 0 /\ Quiet(a) => fb'[a].posts = 0
  <2>1. Held /\ OnScreen /\ Announced /\ (~Cooldown => Attempts)
    BY <1>8 DEF IInv, Undisturbed
  <2>2. /\ rn'["job"].task = rn["job"].task /\ rn'["job"].acct = rn["job"].acct
        /\ rn'["job"].at = step
    BY <1>4, <1>8 DEF Went
  <2>3. user = rn["job"].acct /\ fb[user].draft \in Complete /\ ~misplaced
    BY <1>1, <1>8, <2>1 DEF OnScreen
  <2>4. OnScreen'
    BY <1>1, <1>6, <1>8, <2>2, <2>3 DEF OnScreen
  <2>5. rn["job"].said /\ job[user].at = "running" /\ job[user].task = "post" /\ user \in Accounts
    BY <1>1, <1>2, <1>8, <2>1, <2>3 DEF Announced, Held
  <2>6. ASSUME ~Cooldown, NEW a \in Accounts, lost[a] = 0, Quiet(a)
        PROVE  fb'[a].posts = 0
    <3>1. CASE a = user
      BY <2>1, <2>5, <2>6, <3>1 DEF Attempts, Quiet
    <3>2. CASE a # user
      BY <1>6, <2>1, <2>6, <3>2 DEF Attempts
    <3> QED BY <3>1, <3>2
  <2> QED BY <2>4, <2>6
<1>9. Kept(s, step, rn[s].said)
  BY <1>1, <1>2, <1>4, <1>5, <1>6, <1>7, <1>8, ScreenFacts DEF Kept
<1> QED BY <1>2, <1>5, <1>9, WentKeeps

LEMMA TapSendKeeps ==
  ASSUME IInv, copies' = copies, lost' = lost, NEW s \in Slots, TapSend(s), Backend
  PROVE  IInv'
<1>1. /\ TInv /\ rn[s].task = "comment" /\ rn[s].at = "send" /\ user' = user
  BY DEF IInv, TapSend, At
<1>2. rn[s].acct \in Accounts /\ rn[s].said \in BOOLEAN
  BY <1>1, SlotFacts
<1>3. PICK tap \in Taps, touched \in BOOLEAN :
        /\ Send(rn[s].acct, touched)
        /\ CASE tap = "done" -> To(s, "shown") [] tap = "refused" -> Missed(s)
             [] OTHER -> StreamLost(s)
  BY DEF TapSend, Touched
<1>4. PICK step \in {"shown", "clean", "exit"} : Went(s, step, rn[s].said)
  <2>1. "shown" \in Steps
    BY DEF Steps, CommentSteps
  <2>2. CASE To(s, "shown")
    BY <1>1, <2>1, <2>2, ToWent
  <2>3. CASE Missed(s) \/ StreamLost(s)
    BY <1>1, <2>3, LostWent
  <2>4. To(s, "shown") \/ Missed(s) \/ StreamLost(s)
    BY <1>3
  <2> QED BY <2>2, <2>3, <2>4
<1>5. step \in Steps /\ step \notin {"none", "tap"}
  BY DEF Steps, PostSteps, CommentSteps
<1>6. /\ fb' \in [Accounts -> Facebooks] /\ misplaced' \in BOOLEAN
      /\ user = rn[s].acct /\ ~misplaced => ~misplaced'
      /\ \A a \in Accounts :
           /\ fb'[a].own = fb[a].own /\ fb'[a].draft = fb[a].draft
           /\ fb'[a].posts = fb[a].posts /\ fb'[a].media = fb[a].media
           /\ \/ fb'[a].comments = fb[a].comments
              \/ a = rn[s].acct /\ fb'[a].comments = fb[a].comments + 1
  BY <1>1, <1>2, <1>3, SendFacts
<1>7. Spends(s)
  <2> SUFFICES ASSUME NEW a \in Accounts
               PROVE  /\ Count(Composing(s, a))' + Count(Composed(a))' + fb'[a].own
                           <= Count(Composing(s, a)) + Count(Composed(a)) + fb[a].own
                      /\ Count(Sending(s, a))' + fb'[a].comments
                           <= Count(Sending(s, a)) + fb[a].comments
    BY DEF Spends
  <2>1. Count(Composing(s, a))' = 0 /\ Count(Sending(s, a))' = 0
    BY <1>1, <1>4 DEF Count, Composing, Sending, Went
  <2>2. /\ Count(Composing(s, a)) \in {0, 1} /\ Count(Sending(s, a)) \in {0, 1}
        /\ a = rn[s].acct => Count(Sending(s, a)) = 1
    BY <1>1 DEF Count, Sending
  <2>3. Count(Composed(a))' = Count(Composed(a)) /\ Count(Composed(a)) \in {0, 1}
    BY <1>6 DEF Count, Composed
  <2>4. fb[a].own \in Nat /\ fb[a].comments \in Nat
    BY <1>1, ScreenFacts
  <2>5. /\ fb'[a].own = fb[a].own
        /\ \/ fb'[a].comments = fb[a].comments
           \/ a = rn[s].acct /\ fb'[a].comments = fb[a].comments + 1
    BY <1>6
  <2> QED BY <2>1, <2>2, <2>3, <2>4, <2>5
<1>8. ASSUME s = "job", faults = 0, rn[s].pipe = "read"
      PROVE  /\ OnScreen'
             /\ ~Cooldown => \A a \in Accounts : lost[a] = 0 /\ Quiet(a) => fb'[a].posts = 0
  <2>1. Held /\ OnScreen /\ (~Cooldown => Attempts)
    BY <1>8 DEF IInv, Undisturbed
  <2>2. /\ rn'["job"].task = rn["job"].task /\ rn'["job"].acct = rn["job"].acct
        /\ rn'["job"].at = step
    BY <1>4, <1>8 DEF Went
  <2>3. user = rn["job"].acct /\ ~misplaced
    BY <1>1, <1>8, <2>1 DEF OnScreen
  <2>4. OnScreen'
    BY <1>1, <1>6, <1>8, <2>2, <2>3 DEF OnScreen
  <2> QED BY <1>6, <2>1, <2>4 DEF Attempts
<1>9. Kept(s, step, rn[s].said)
  BY <1>1, <1>2, <1>4, <1>5, <1>6, <1>7, <1>8, ScreenFacts DEF Kept
<1> QED BY <1>2, <1>5, <1>9, WentKeeps

LEMMA RunnerKeeps ==
  ASSUME IInv, copies' = copies, lost' = lost, NEW s \in Slots, RunnerStep(s), Backend
  PROVE  IInv'
<1>1. CASE Open(s)
  BY <1>1, OpenKeeps
<1>2. CASE Save(s)
  BY <1>2, SaveKeeps
<1>3. CASE OpenFeed(s)
  BY <1>3, OpenFeedKeeps
<1>4. CASE StartPost(s)
  BY <1>4, StartPostKeeps
<1>5. CASE WriteCaption(s)
  BY <1>5, WriteCaptionKeeps
<1>6. CASE TapPublish(s)
  BY <1>6, TapPublishKeeps
<1>7. CASE CleanUp(s)
  BY <1>7, CleanUpKeeps
<1>8. CASE TapSend(s)
  BY <1>8, TapSendKeeps
<1> QED BY <1>1, <1>2, <1>3, <1>4, <1>5, <1>6, <1>7, <1>8, LooksKeep DEF RunnerStep

-----------------------------------------------------------------------------
(* What a step of the backend keeps *)

\* One account's job and record change.
Moves(a) ==
  /\ job' \in [Accounts -> Jobs] /\ exe' \in [Accounts -> Records]
  /\ \A b \in Accounts \ {a} : job'[b] = job[b] /\ exe'[b] = exe[b]

LEMMA MovesFacts ==
  ASSUME TInv, NEW a \in Accounts, NEW j \in Jobs, NEW e \in Records,
         job' = [job EXCEPT ![a] = j], exe' = [exe EXCEPT ![a] = e]
  PROVE  Moves(a) /\ job'[a] = j /\ exe'[a] = e
BY DEF Moves, TInv, TypeOK

LEMMA JobFacts ==
  ASSUME TInv, NEW a \in Accounts
  PROVE  /\ job \in [Accounts -> Jobs] /\ exe \in [Accounts -> Records]
         /\ job[a] \in Jobs /\ exe[a] \in Records
         /\ holder \in Accounts \cup {Nobody, Setup} /\ lock \in Accounts \cup {Nobody, Viewer, Setup}
         /\ asks \in 0..MaxAsks /\ faults \in 0..MaxFaults /\ asks \in Nat /\ faults \in Nat
         /\ exe[a].lease => exe[a].status = "running"
         /\ job[a].at = "record" => job[a].task = "comment"
         /\ job[a].at \in {"cooldown", "hold"} => job[a].task # "comment"
BY JobAssumption DEF TInv, TypeOK, Leased, Filed

\* What is still to come of an account grows by no more than what somebody asked for.
Owed(a) ==
  /\ Count(exe[a].status = "pending")' + Count(Starting(job[a]))' + Count(Composing("job", a))'
       + Count(Composing("orphan", a))'
     <= Count(exe[a].status = "pending") + Count(Starting(job[a])) + Count(Composing("job", a))
          + Count(Composing("orphan", a)) + (asks' - asks)
  /\ Count(Due(exe[a]))' 
       + Count(Commenting(job[a]))' + Count(Sending("job", a))' + Count(Sending("orphan", a))'
     <= Count(Due(exe[a])) 
          + Count(Commenting(job[a])) + Count(Sending("job", a)) + Count(Sending("orphan", a))
          + (asks' - asks)

\* Facebook keeps its counts and gains no draft of an account's own.
Untouched ==
  \A a \in Accounts : /\ fb'[a].own = fb[a].own /\ fb'[a].comments = fb[a].comments
                      /\ Composed(a)' => Composed(a)

LEMMA OwedKeepsBudget ==
  ASSUME TInv, Budget, lost' = lost, asks' \in Nat, Untouched, \A a \in Accounts : Owed(a)
  PROVE  Budget'
<1> SUFFICES ASSUME NEW a \in Accounts
             PROVE  Shares(a)' <= Allowed(a)' /\ Comments(a)' <= Allowed(a)'
  BY DEF Budget
<1>1. /\ Shares(a) <= Allowed(a) /\ Comments(a) <= Allowed(a)
      /\ asks \in Nat /\ Allowed(a) \in Nat /\ Allowed(a)' = Allowed(a) + (asks' - asks)
  BY AllowedFacts DEF Budget, Allowed
<1>2. /\ fb[a].own \in Nat /\ fb[a].comments \in Nat
      /\ fb'[a].own = fb[a].own /\ fb'[a].comments = fb[a].comments
  BY ScreenFacts DEF Untouched
<1>3. Count(Composed(a))' <= Count(Composed(a))
  BY DEF Untouched, Count
<1>4. Owed(a)
  OBVIOUS
<1>5. /\ Count(exe[a].status = "pending") \in Nat /\ Count(exe[a].status = "pending")' \in Nat
      /\ Count(Starting(job[a])) \in Nat /\ Count(Starting(job[a]))' \in Nat
      /\ Count(Composing("job", a)) \in Nat /\ Count(Composing("job", a))' \in Nat
      /\ Count(Composing("orphan", a)) \in Nat /\ Count(Composing("orphan", a))' \in Nat
      /\ Count(Composed(a)) \in Nat /\ Count(Composed(a))' \in Nat
      /\ Count(Due(exe[a])) \in Nat /\ Count(Due(exe[a]))' \in Nat
      /\ Count(Commenting(job[a])) \in Nat /\ Count(Commenting(job[a]))' \in Nat
      /\ Count(Sending("job", a)) \in Nat /\ Count(Sending("job", a))' \in Nat
      /\ Count(Sending("orphan", a)) \in Nat /\ Count(Sending("orphan", a))' \in Nat
  BY DEF Count
<1>6. Shares(a)' <= Allowed(a)'
  BY <1>1, <1>2, <1>3, <1>4, <1>5 DEF Owed, Shares
<1>7. Comments(a)' <= Allowed(a)'
  BY <1>1, <1>2, <1>4, <1>5 DEF Owed, Comments
<1> QED BY <1>6, <1>7

\* An account whose job and record stay, and for which no runner starts over, is owed no more.
LEMMA OthersOwed ==
  ASSUME TInv, NEW a \in Accounts, job'[a] = job[a], exe'[a] = exe[a], asks' \in Nat, asks <= asks',
         \A s \in Slots : (Composing(s, a)' => Composing(s, a)) /\ (Sending(s, a)' => Sending(s, a))
  PROVE  Owed(a)
<1>1. /\ Count(exe[a].status = "pending")' = Count(exe[a].status = "pending")
      /\ Count(Starting(job[a]))' = Count(Starting(job[a]))
      /\ Count(Due(exe[a]))' = Count(Due(exe[a]))
      /\ Count(Commenting(job[a]))' = Count(Commenting(job[a]))
  BY DEF Count
<1>2. /\ Count(Composing("job", a))' <= Count(Composing("job", a))
      /\ Count(Composing("orphan", a))' <= Count(Composing("orphan", a))
      /\ Count(Sending("job", a))' <= Count(Sending("job", a))
      /\ Count(Sending("orphan", a))' <= Count(Sending("orphan", a))
  BY DEF Slots, Count
<1>3. /\ Count(exe[a].status = "pending") \in Nat /\ Count(Starting(job[a])) \in Nat
      /\ Count(Composing("job", a)) \in Nat /\ Count(Composing("job", a))' \in Nat
      /\ Count(Composing("orphan", a)) \in Nat /\ Count(Composing("orphan", a))' \in Nat
      /\ Count(Due(exe[a])) \in Nat
      /\ Count(Commenting(job[a])) \in Nat
      /\ Count(Sending("job", a)) \in Nat /\ Count(Sending("job", a))' \in Nat
      /\ Count(Sending("orphan", a)) \in Nat /\ Count(Sending("orphan", a))' \in Nat
  BY DEF Count
<1>4. asks \in Nat
  BY JobFacts
<1> QED BY <1>1, <1>2, <1>3, <1>4 DEF Owed

\* The record and the job of the account in a step that leaves phone and runners alone.
Owes(a) ==
  /\ Count(exe[a].status = "pending")' + Count(Starting(job[a]))'
       <= Count(exe[a].status = "pending") + Count(Starting(job[a])) + (asks' - asks)
  /\ Count(Due(exe[a]))' 
       + Count(Commenting(job[a]))'
     <= Count(Due(exe[a])) 
          + Count(Commenting(job[a])) + (asks' - asks)
Fits(a) ==
  /\ exe'[a].lease => exe'[a].status = "running"
  /\ job'[a].at = "record" => job'[a].task = "comment"
  /\ job'[a].at \in {"cooldown", "hold"} => job'[a].task # "comment"
Sound(a) ==
  /\ job'[a].at # "none" /\ job'[a].task # "comment" <=> exe'[a].status = "running"
  /\ exe'[a].status = "running" => exe'[a].lease
  /\ job'[a].at # "none" /\ job'[a].task = "comment" => exe'[a].status = "published"
  /\ job'[a].at \in {"cooldown", "hold", "opening"} => ~job'[a].tapped
  /\ Quiet(a)' => Quiet(a)
Rest ==
  /\ holder' \in Accounts \cup {Nobody, Setup} /\ lock' \in Accounts \cup {Nobody, Viewer, Setup}
  /\ asks' \in 0..MaxAsks /\ asks <= asks' /\ faults' = faults

LEMMA MovesKeep ==
  ASSUME IInv, copies' = copies, lost' = lost,
         NEW a \in Accounts, Moves(a), UNCHANGED <<phoneVars, rn>>, Rest, Owes(a), Fits(a),
         Held => Held', ~Cooldown /\ Held /\ Attempts /\ lost[a] = 0 => Sound(a)
  PROVE  IInv'
<1>1. TInv /\ Budget /\ Undisturbed /\ asks' \in Nat
  BY DEF IInv, Rest
<1>2. user' = user /\ fb' = fb /\ misplaced' = misplaced /\ rn' = rn
  BY DEF phoneVars
<1>3. TInv'
  BY <1>1, <1>2 DEF TInv, TypeOK, FlowTypeOK, PhoneTypeOK, Leased, Filed, Moves, Rest, Fits
<1>4. Untouched
  BY <1>2 DEF Untouched, Composed
<1>5. ASSUME NEW b \in Accounts PROVE Owed(b)
  <2>1. \A s \in Slots : (Composing(s, b)' => Composing(s, b)) /\ (Sending(s, b)' => Sending(s, b))
    BY <1>2 DEF Composing, Sending
  <2>2. CASE b # a
    BY <1>1, <2>1, <2>2, OthersOwed DEF Moves, Rest
  <2>3. CASE b = a
    <3>1. /\ Count(Composing("job", a))' = Count(Composing("job", a))
          /\ Count(Composing("orphan", a))' = Count(Composing("orphan", a))
          /\ Count(Sending("job", a))' = Count(Sending("job", a))
          /\ Count(Sending("orphan", a))' = Count(Sending("orphan", a))
      BY <1>2 DEF Count, Composing, Sending
    <3>2. /\ Count(exe[a].status = "pending") \in Nat /\ Count(exe[a].status = "pending")' \in Nat
          /\ Count(Starting(job[a])) \in Nat /\ Count(Starting(job[a]))' \in Nat
          /\ Count(Composing("job", a)) \in Nat /\ Count(Composing("orphan", a)) \in Nat
          /\ Count(Due(exe[a])) \in Nat /\ Count(Due(exe[a]))' \in Nat
          /\ Count(Commenting(job[a])) \in Nat /\ Count(Commenting(job[a]))' \in Nat
          /\ Count(Sending("job", a)) \in Nat /\ Count(Sending("orphan", a)) \in Nat
      BY DEF Count
    <3>3. asks \in Nat
      BY <1>1, JobFacts
    <3>4. Owed(a)
      BY <1>1, <3>1, <3>2, <3>3 DEF Owed, Owes
    <3> QED BY <2>3, <3>4
  <2> QED BY <2>2, <2>3
<1>6. Budget'
  BY <1>1, <1>4, <1>5, OwedKeepsBudget
<1>7. ASSUME faults' = 0
      PROVE  Held' /\ OnScreen' /\ Announced' /\ (~Cooldown => Attempts')
  <2>1. faults = 0 /\ Held /\ OnScreen /\ Announced /\ (~Cooldown => Attempts)
    BY <1>1, <1>7 DEF Undisturbed, Rest
  <2>2. OnScreen' /\ Announced'
    BY <1>2, <2>1 DEF OnScreen, Announced
  <2>3. ASSUME ~Cooldown, Attempts PROVE Attempts'
    <3> SUFFICES ASSUME NEW b \in Accounts, lost[b] = 0
                 PROVE  /\ job'[b].at # "none" /\ job'[b].task # "comment" <=> exe'[b].status = "running"
                        /\ exe'[b].status = "running" => exe'[b].lease
                        /\ job'[b].at # "none" /\ job'[b].task = "comment" => exe'[b].status = "published"
                        /\ job'[b].at \in {"cooldown", "hold", "opening"} => ~job'[b].tapped
                        /\ Quiet(b)' => fb'[b].posts = 0
      BY DEF Attempts
    <3>1. CASE b = a
      BY <1>2, <2>1, <2>3, <3>1 DEF Sound, Attempts
    <3>2. CASE b # a
      <4>1. job'[b] = job[b] /\ exe'[b] = exe[b]
        BY <3>2 DEF Moves
      <4>2. Quiet(b)' => Quiet(b)
        BY <1>2, <4>1 DEF Quiet
      <4> QED BY <1>2, <2>3, <4>1, <4>2 DEF Attempts
    <3> QED BY <3>1, <3>2
  <2> QED BY <2>1, <2>2, <2>3
<1> QED BY <1>3, <1>6, <1>7 DEF IInv, Undisturbed

\* The phone changes hands only through its own account's job.
LEMMA HeldMoves ==
  ASSUME TInv, Held, NEW a \in Accounts, Moves(a), rn' = rn,
         holder' = a <=> job'[a].at \in {"opening", "running", "release"},
         \A b \in Accounts \ {a} : holder' = b <=> holder = b,
         holder = Setup => holder' = Setup,
         job'[a].at = "running" <=> job[a].at = "running",
         job'[a].at = "running" => job'[a].task = job[a].task
  PROVE  Held'
<1>1. \A b \in Accounts \ {a} : job'[b] = job[b]
  BY DEF Moves
<1>2. \A b \in Accounts : holder' = b <=> job'[b].at \in {"opening", "running", "release"}
  BY <1>1 DEF Held
<1>3. rn["job"].at # "none" =>
        \/ holder' = Setup /\ rn["job"].task = "ready"
        \/ /\ holder' = rn["job"].acct /\ job'[holder'].at = "running"
           /\ rn["job"].task = job'[holder'].task
  <2> SUFFICES ASSUME rn["job"].at # "none", ~(holder = Setup /\ rn["job"].task = "ready")
               PROVE  /\ holder' = rn["job"].acct /\ job'[holder'].at = "running"
                      /\ rn["job"].task = job'[holder'].task
    OBVIOUS
  <2> DEFINE b == rn["job"].acct
  <2>1. holder = b /\ job[b].at = "running" /\ rn["job"].task = job[b].task
    BY DEF Held
  <2>2. b \in Accounts
    BY SlotFacts DEF Slots
  <2> HIDE DEF b
  <2>3. CASE b = a
    BY <2>1, <2>3 DEF b
  <2>4. CASE b # a
    BY <1>1, <2>1, <2>2, <2>4 DEF b
  <2> QED BY <2>3, <2>4
<1>4. \A b \in Accounts : job'[b].at = "running" => rn["job"].acct = b /\ rn["job"].at # "none"
  BY <1>1 DEF Held
<1> QED BY <1>2, <1>3, <1>4 DEF Held

-----------------------------------------------------------------------------
(* Steps of a job *)

LEMMA ClaimKeeps ==
  ASSUME IInv, copies' = copies, lost' = lost, NEW a \in Accounts, Claim(a)
  PROVE  IInv'
<1> DEFINE j == [NoJob EXCEPT !.task = Task(a), !.at = IF a \in Posters THEN "cooldown" ELSE "hold"]
           e == [exe[a] EXCEPT !.status = "running", !.lease = TRUE, !.clicked = FALSE]
<1>1. /\ TInv /\ exe[a].status = "pending" /\ job[a].at = "none" /\ holder = Nobody
      /\ holder' = holder /\ lock' = lock /\ asks' = asks /\ faults' = faults
      /\ UNCHANGED <<phoneVars, rn>> /\ job' = [job EXCEPT ![a] = j]
  BY DEF IInv, Claim, Counts, PhoneIsFree
<1>2. exe' = [exe EXCEPT ![a] = e]
  BY <1>1, JobFacts DEF Claim
<1>3. /\ j \in Jobs /\ j.task \in {"post", "visit"} /\ j.at \in {"cooldown", "hold"} /\ j.tapped = FALSE
  BY DEF Jobs, NoJob, Task, Tasks, JobPlaces, Results
<1>4. e \in Records /\ e.status = "running" /\ e.lease /\ e.comment = exe[a].comment
  BY <1>1, JobFacts DEF Records, Statuses
<1> HIDE DEF j, e
<1>5. Moves(a) /\ job'[a] = j /\ exe'[a] = e
  <2>1. TInv /\ job' = [job EXCEPT ![a] = j] /\ e \in Records /\ j \in Jobs
    BY <1>1, <1>3, <1>4
  <2> QED BY <1>2, <2>1, MovesFacts
<1>6. Owes(a) /\ Fits(a) /\ Rest
  BY <1>1, <1>3, <1>4, <1>5, JobFacts DEF Owes, Fits, Rest, Due, Count, Starting, Commenting
<1>7. ASSUME Held PROVE Held'
  <2>1. rn' = rn
    BY <1>1
  <2> QED BY <1>1, <1>3, <1>5, <1>7, <2>1, HeldMoves, JobAssumption DEF Nobody, Setup
<1>8. Sound(a)
  BY <1>1, <1>3, <1>4, <1>5 DEF Sound, Quiet
<1> QED BY <1>1, <1>5, <1>6, <1>7, <1>8, MovesKeep

LEMMA CooldownEndsKeeps ==
  ASSUME IInv, copies' = copies, lost' = lost, NEW a \in Accounts, CooldownEnds(a)
  PROVE  IInv'
<1> DEFINE j == [job[a] EXCEPT !.at = "hold"]
<1>1. /\ TInv /\ job[a].at = "cooldown"
      /\ holder' = holder /\ lock' = lock /\ asks' = asks /\ faults' = faults
      /\ UNCHANGED <<phoneVars, rn>> /\ exe' = exe
  BY DEF IInv, CooldownEnds, Counts
<1>2. job' = [job EXCEPT ![a] = j] /\ exe' = [exe EXCEPT ![a] = exe[a]]
  BY <1>1, JobFacts DEF CooldownEnds, JobAt
<1>3. j \in Jobs /\ j.task = job[a].task /\ j.at = "hold" /\ j.tapped = job[a].tapped
  BY <1>1, JobFacts DEF Jobs, JobPlaces
<1> HIDE DEF j
<1>4. Moves(a) /\ job'[a] = j /\ exe'[a] = exe[a]
  BY <1>1, <1>2, <1>3, MovesFacts, JobFacts
<1>5. Owes(a) /\ Fits(a) /\ Rest
  BY <1>1, <1>3, <1>4, JobFacts DEF Owes, Fits, Rest, Due, Count, Starting, Commenting
<1>6. ASSUME Held PROVE Held'
  <2>1. rn' = rn /\ holder # a
    BY <1>1, <1>6 DEF Held
  <2> QED BY <1>1, <1>3, <1>4, <1>6, <2>1, HeldMoves
<1>7. ASSUME Attempts, lost[a] = 0 PROVE Sound(a)
  BY <1>1, <1>3, <1>4, <1>7 DEF Sound, Quiet, Attempts
<1> QED BY <1>1, <1>4, <1>5, <1>6, <1>7, MovesKeep

LEMMA HoldKeeps ==
  ASSUME IInv, copies' = copies, lost' = lost, NEW a \in Accounts, Hold(a)
  PROVE  IInv'
<1> DEFINE j == [job[a] EXCEPT !.at = "opening"]
<1>1. /\ TInv /\ job[a].at = "hold" /\ holder = Nobody /\ holder' = a
      /\ lock' = lock /\ asks' = asks /\ faults' = faults
      /\ UNCHANGED <<phoneVars, rn>> /\ exe' = exe
  BY DEF IInv, Hold, Counts, HoldForJob, PhoneIsFree
<1>2. job' = [job EXCEPT ![a] = j] /\ exe' = [exe EXCEPT ![a] = exe[a]]
  BY <1>1, JobFacts DEF Hold, JobAt
<1>3. /\ j \in Jobs /\ j.task = job[a].task /\ j.at = "opening" /\ j.tapped = job[a].tapped
  BY <1>1, JobFacts DEF Jobs, JobPlaces
<1> HIDE DEF j
<1>4. Moves(a) /\ job'[a] = j /\ exe'[a] = exe[a]
  BY <1>1, <1>2, <1>3, MovesFacts, JobFacts
<1>5. Owes(a) /\ Fits(a) /\ Rest
  BY <1>1, <1>3, <1>4, JobFacts DEF Owes, Fits, Rest, Due, Count, Starting, Commenting
<1>6. ASSUME Held PROVE Held'
  <2>1. rn' = rn
    BY <1>1
  <2> QED BY <1>1, <1>3, <1>4, <1>6, <2>1, HeldMoves, JobAssumption DEF Nobody, Setup
<1>7. ASSUME Attempts, lost[a] = 0 PROVE Sound(a)
  BY <1>1, <1>3, <1>4, <1>7 DEF Sound, Quiet, Attempts
<1> QED BY <1>1, <1>4, <1>5, <1>6, <1>7, MovesKeep

\* What an attempt writes while it still holds its lease.
LEMMA FencedFacts ==
  ASSUME TInv, NEW a \in Accounts, NEW record \in Records, Fenced(a, record)
  PROVE  \E e \in Records :
           /\ exe' = [exe EXCEPT ![a] = e]
           /\ \/ e = exe[a] /\ (lost[a] = 0 => ~exe[a].lease)
              \/ e = record /\ exe[a].lease
<1>1. PICK writes \in Writes(a) : exe' = IF writes THEN [exe EXCEPT ![a] = record] ELSE exe
  BY DEF Fenced
<1>2. CASE writes
  BY <1>1, <1>2 DEF Writes
<1>3. CASE ~writes
  <2>1. exe' = [exe EXCEPT ![a] = exe[a]] /\ exe[a] \in Records
    BY <1>1, <1>3, JobFacts
  <2>2. lost[a] = 0 => ~exe[a].lease
    BY <1>1, <1>3 DEF Writes
  <2> QED BY <2>1, <2>2
<1> QED BY <1>2, <1>3

LEMMA BackToPendingKeeps ==
  ASSUME IInv, copies' = copies, lost' = lost, NEW a \in Accounts, BackToPending(a)
  PROVE  IInv'
<1> DEFINE j == [job[a] EXCEPT !.at = "none"]
           record == [exe[a] EXCEPT !.status = "pending", !.lease = FALSE]
<1>1. /\ TInv /\ job[a].at = "hold"
      /\ holder' = holder /\ lock' = lock /\ asks' = asks /\ faults' = faults
      /\ UNCHANGED <<phoneVars, rn>> /\ Fenced(a, record)
  BY DEF IInv, BackToPending, Counts
<1>2. job' = [job EXCEPT ![a] = j]
  BY <1>1, JobFacts DEF BackToPending, JobAt
<1>3. j \in Jobs /\ j.task = job[a].task /\ j.at = "none" /\ j.tapped = job[a].tapped
  BY <1>1, JobFacts DEF Jobs, JobPlaces
<1>4. /\ record \in Records /\ record.status = "pending" /\ record.lease = FALSE
      /\ record.comment = exe[a].comment
  BY <1>1, JobFacts DEF Records, Statuses
<1> HIDE DEF j, record
<1>5. PICK e \in Records :
        /\ exe' = [exe EXCEPT ![a] = e]
        /\ \/ e = exe[a] /\ (lost[a] = 0 => ~exe[a].lease)
           \/ e = record /\ exe[a].lease
  BY <1>1, <1>4, FencedFacts
<1>6. Moves(a) /\ job'[a] = j /\ exe'[a] = e
  <2>1. TInv /\ exe[a] \in Records /\ j \in Jobs
    BY <1>1, <1>3, JobFacts
  <2> QED BY <2>1, <1>2, <1>5, MovesFacts
<1>7. Owes(a) /\ Fits(a) /\ Rest
  BY <1>1, <1>3, <1>4, <1>5, <1>6, JobFacts DEF Owes, Fits, Rest, Due, Count, Starting, Commenting
<1>8. ASSUME Held PROVE Held'
  <2>1. rn' = rn /\ holder # a
    BY <1>1, <1>8 DEF Held
  <2> QED BY <1>1, <1>3, <1>6, <1>8, <2>1, HeldMoves
<1>9. ASSUME Attempts, lost[a] = 0 PROVE Sound(a)
  BY <1>1, <1>3, <1>4, <1>5, <1>6, <1>9, JobFacts DEF Sound, Quiet, Attempts
<1> QED BY <1>1, <1>6, <1>7, <1>8, <1>9, MovesKeep

\* The job of an account that did not open goes to its end.
LEMMA NotStartedKeeps ==
  ASSUME IInv, copies' = copies, lost' = lost, NEW a \in Accounts, job[a].at = "opening",
         job' = [job EXCEPT ![a].at = "release", ![a].got = "not_started"],
         UNCHANGED <<phoneVars, rn>>, exe' = exe, holder' = holder,
         lock' \in Accounts \cup {Nobody, Viewer, Setup}, Counts
  PROVE  IInv'
<1> DEFINE j == [job[a] EXCEPT !.at = "release", !.got = "not_started"]
<1>1. TInv /\ asks' = asks /\ faults' = faults
  BY DEF IInv, Counts
<1>2. job' = [job EXCEPT ![a] = j] /\ exe' = [exe EXCEPT ![a] = exe[a]]
  BY <1>1, JobFacts
<1>3. /\ j \in Jobs /\ j.task = job[a].task /\ j.at = "release" /\ j.tapped = job[a].tapped
      /\ j.got = "not_started"
  BY <1>1, JobFacts DEF Jobs, JobPlaces
<1> HIDE DEF j
<1>4. Moves(a) /\ job'[a] = j /\ exe'[a] = exe[a]
  <2>1. TInv /\ exe[a] \in Records /\ j \in Jobs
    BY <1>1, <1>3, JobFacts
  <2> QED BY <2>1, <1>2, MovesFacts
<1>5. Owes(a) /\ Fits(a) /\ Rest
  BY <1>1, <1>3, <1>4, JobFacts DEF Owes, Fits, Rest, Due, Count, Starting, Commenting
<1>6. ASSUME Held PROVE Held'
  <2>1. rn' = rn /\ holder = a
    BY <1>6 DEF Held
  <2> QED BY <1>1, <1>3, <1>4, <1>6, <2>1, HeldMoves
<1>7. ASSUME Attempts, lost[a] = 0 PROVE Sound(a)
  BY <1>3, <1>4, <1>7 DEF Sound, Quiet, Attempts
<1> QED BY <1>1, <1>4, <1>5, <1>6, <1>7, MovesKeep

LEMMA ReadEventKeeps ==
  ASSUME IInv, copies' = copies, lost' = lost, NEW a \in Accounts, ReadEvent(a)
  PROVE  IInv'
<1> DEFINE j == [job[a] EXCEPT !.tapped = TRUE]
           record == [exe[a] EXCEPT !.clicked = TRUE]
<1>1. /\ TInv /\ job[a].at = "running"
      /\ holder' = holder /\ lock' = lock /\ asks' = asks /\ faults' = faults
      /\ UNCHANGED <<phoneVars, rn>> /\ (Fenced(a, record) \/ exe' = exe)
  BY DEF IInv, ReadEvent, Counts, Persisted
<1>2. job' = [job EXCEPT ![a] = j]
  BY <1>1, JobFacts DEF ReadEvent
<1>3. j \in Jobs /\ j.task = job[a].task /\ j.at = "running" /\ j.tapped = TRUE
  BY <1>1, JobFacts DEF Jobs
<1>4. /\ record \in Records /\ record.status = exe[a].status /\ record.lease = exe[a].lease
      /\ record.comment = exe[a].comment
  BY <1>1, JobFacts DEF Records
<1> HIDE DEF j, record
<1>5. PICK e \in Records : /\ exe' = [exe EXCEPT ![a] = e]
                           /\ e.status = exe[a].status /\ e.lease = exe[a].lease
                           /\ e.comment = exe[a].comment
  <2>1. CASE exe' = exe
    <3>1. exe' = [exe EXCEPT ![a] = exe[a]] /\ exe[a] \in Records
      BY <1>1, <2>1, JobFacts
    <3> QED BY <3>1
  <2>2. CASE Fenced(a, record)
    BY <1>1, <1>4, <2>2, FencedFacts
  <2> QED BY <1>1, <2>1, <2>2
<1>6. Moves(a) /\ job'[a] = j /\ exe'[a] = e
  BY <1>1, <1>2, <1>3, <1>5, MovesFacts
<1>7. Owes(a) /\ Fits(a) /\ Rest
  BY <1>1, <1>3, <1>5, <1>6, JobFacts DEF Owes, Fits, Rest, Due, Count, Starting, Commenting
<1>8. ASSUME Held PROVE Held'
  <2>1. rn' = rn /\ holder = a
    BY <1>1, <1>8 DEF Held
  <2> QED BY <1>1, <1>3, <1>6, <1>8, <2>1, HeldMoves
<1>9. ASSUME Attempts, lost[a] = 0 PROVE Sound(a)
  BY <1>1, <1>3, <1>5, <1>6, <1>9 DEF Sound, Quiet, Attempts
<1> QED BY <1>1, <1>6, <1>7, <1>8, <1>9, MovesKeep

LEMMA FinishKeeps ==
  ASSUME IInv, copies' = copies, lost' = lost, NEW a \in Accounts, Finish(a)
  PROVE  IInv'
<1> DEFINE j == [job[a] EXCEPT !.at = "none"]
           record == [exe[a] EXCEPT !.status = Outcome(a), !.lease = FALSE, !.comment = FollowUp(a)]
<1>1. /\ TInv /\ job[a].at = "release" /\ job[a].task \in {"post", "visit"}
      /\ holder' = Nobody /\ lock' = lock /\ asks' = asks /\ faults' = faults
      /\ UNCHANGED <<phoneVars, rn>> /\ Fenced(a, record)
  BY DEF IInv, Finish, Counts, ReleaseJob
<1>2. job' = [job EXCEPT ![a] = j]
  BY <1>1, JobFacts DEF Finish, JobAt
<1>3. j \in Jobs /\ j.task = job[a].task /\ j.at = "none" /\ j.tapped = job[a].tapped
  BY <1>1, JobFacts DEF Jobs, JobPlaces
<1>4. /\ Outcome(a) \in {"published", "completed", "needs_review", "uncertain", "failed"}
      /\ Outcome(a) = "failed" => ~job[a].tapped
      /\ FollowUp(a) \in CommentStates
      /\ Outcome(a) # "published" => FollowUp(a) = exe[a].comment
  <2>1. exe[a].comment \in CommentStates
    BY <1>1, JobFacts DEF Records
  <2> QED BY <2>1 DEF Outcome, FollowUp, CommentStates
<1>5. /\ record \in Records /\ record.status = Outcome(a) /\ record.lease = FALSE
      /\ record.comment = FollowUp(a)
  BY <1>1, <1>4, JobFacts DEF Records, Statuses
<1> HIDE DEF j, record
<1>6. PICK e \in Records :
        /\ exe' = [exe EXCEPT ![a] = e]
        /\ \/ e = exe[a] /\ (lost[a] = 0 => ~exe[a].lease)
           \/ e = record /\ exe[a].lease
  BY <1>1, <1>5, FencedFacts
<1>7. Moves(a) /\ job'[a] = j /\ exe'[a] = e
  <2>1. TInv /\ exe[a] \in Records /\ j \in Jobs
    BY <1>1, <1>3, JobFacts
  <2> QED BY <2>1, <1>2, <1>6, MovesFacts
<1>8. Owes(a) /\ Fits(a) /\ Rest
  <2>1. Fits(a) /\ Rest
    BY <1>1, <1>3, <1>5, <1>6, <1>7, JobFacts DEF Fits, Rest
  <2>2. CASE e = record /\ exe[a].lease
    BY <1>1, <1>3, <1>4, <1>5, <1>6, <1>7, <2>1, <2>2, JobFacts DEF Owes, Due, Count, Starting, Commenting
  <2>3. CASE e = exe[a]
    BY <1>1, <1>3, <1>6, <1>7, <2>1, <2>3, JobFacts DEF Owes, Due, Count, Starting, Commenting
  <2> QED BY <1>6, <2>2, <2>3
<1>9. ASSUME Held PROVE Held'
  <2>1. rn' = rn /\ holder = a
    BY <1>1, <1>9 DEF Held
  <2> QED BY <1>1, <1>3, <1>7, <1>9, <2>1, HeldMoves, JobAssumption DEF Nobody, Setup
<1>10. ASSUME Attempts, lost[a] = 0 PROVE Sound(a)
  BY <1>1, <1>3, <1>4, <1>5, <1>6, <1>7, <1>10 DEF Sound, Quiet, Attempts
<1> QED BY <1>1, <1>7, <1>8, <1>9, <1>10, MovesKeep

LEMMA StartCommentKeeps ==
  ASSUME IInv, copies' = copies, lost' = lost, NEW a \in Accounts, StartComment(a)
  PROVE  IInv'
<1> DEFINE j == [NoJob EXCEPT !.task = "comment", !.at = "opening"]
           e == [exe[a] EXCEPT !.comment = "running"]
<1>1. /\ TInv /\ exe[a].comment = "pending" /\ exe[a].status = "published" /\ job[a].at = "none"
      /\ holder = Nobody /\ holder' = a /\ lock' = lock /\ asks' = asks /\ faults' = faults
      /\ UNCHANGED <<phoneVars, rn>> /\ job' = [job EXCEPT ![a] = j]
  BY DEF IInv, StartComment, Counts, HoldForJob, PhoneIsFree
<1>2. exe' = [exe EXCEPT ![a] = e]
  BY <1>1, JobFacts DEF StartComment
<1>3. j \in Jobs /\ j.task = "comment" /\ j.at = "opening" /\ j.tapped = FALSE
  BY DEF Jobs, NoJob, Tasks, JobPlaces, Results
<1>4. /\ e \in Records /\ e.status = exe[a].status /\ e.lease = exe[a].lease
      /\ e.comment = "running"
  BY <1>1, JobFacts DEF Records, CommentStates
<1> HIDE DEF j, e
<1>5. Moves(a) /\ job'[a] = j /\ exe'[a] = e
  <2>1. TInv /\ job' = [job EXCEPT ![a] = j] /\ e \in Records /\ j \in Jobs
    BY <1>1, <1>3, <1>4
  <2> QED BY <1>2, <2>1, MovesFacts
<1>6. Owes(a) /\ Fits(a) /\ Rest
  BY <1>1, <1>3, <1>4, <1>5, JobFacts DEF Owes, Fits, Rest, Due, Count, Starting, Commenting
<1>7. ASSUME Held PROVE Held'
  <2>1. rn' = rn
    BY <1>1
  <2> QED BY <1>1, <1>3, <1>5, <1>7, <2>1, HeldMoves, JobAssumption DEF Nobody, Setup
<1>8. Sound(a)
  BY <1>1, <1>3, <1>4, <1>5 DEF Sound, Quiet
<1> QED BY <1>1, <1>5, <1>6, <1>7, <1>8, MovesKeep

LEMMA FreeCommentKeeps ==
  ASSUME IInv, copies' = copies, lost' = lost, NEW a \in Accounts, FreeComment(a)
  PROVE  IInv'
<1> DEFINE j == [job[a] EXCEPT !.at = "record"]
<1>1. /\ TInv /\ job[a].at = "release" /\ job[a].task = "comment"
      /\ holder' = Nobody /\ lock' = lock /\ asks' = asks /\ faults' = faults
      /\ UNCHANGED <<phoneVars, rn>> /\ exe' = exe
  BY DEF IInv, FreeComment, Counts, ReleaseJob
<1>2. job' = [job EXCEPT ![a] = j] /\ exe' = [exe EXCEPT ![a] = exe[a]]
  BY <1>1, JobFacts DEF FreeComment, JobAt
<1>3. /\ j \in Jobs /\ j.task = job[a].task /\ j.at = "record" /\ j.tapped = job[a].tapped
      /\ j.got = job[a].got
  BY <1>1, JobFacts DEF Jobs, JobPlaces
<1> HIDE DEF j
<1>4. Moves(a) /\ job'[a] = j /\ exe'[a] = exe[a]
  BY <1>1, <1>2, <1>3, MovesFacts, JobFacts
<1>5. Owes(a) /\ Fits(a) /\ Rest
  BY <1>1, <1>3, <1>4, JobFacts DEF Owes, Fits, Rest, Due, Count, Starting, Commenting
<1>6. ASSUME Held PROVE Held'
  <2>1. rn' = rn /\ holder = a
    BY <1>1, <1>6 DEF Held
  <2> QED BY <1>1, <1>3, <1>4, <1>6, <2>1, HeldMoves, JobAssumption DEF Nobody, Setup
<1>7. ASSUME Attempts, lost[a] = 0 PROVE Sound(a)
  BY <1>1, <1>3, <1>4, <1>7 DEF Sound, Quiet, Attempts
<1> QED BY <1>1, <1>4, <1>5, <1>6, <1>7, MovesKeep

LEMMA RecordCommentKeeps ==
  ASSUME IInv, copies' = copies, lost' = lost, NEW a \in Accounts, RecordComment(a)
  PROVE  IInv'
<1> DEFINE j == [job[a] EXCEPT !.at = "none"]
           starts == IF job[a].got = "not_started" /\ exe[a].starts < MaxStarts THEN exe[a].starts + 1
                     ELSE exe[a].starts
           e == [exe[a] EXCEPT !.comment = CommentStatus(a), !.starts = starts]
<1>1. /\ TInv /\ job[a].at = "record" /\ job[a].task = "comment"
      /\ holder' = holder /\ lock' = lock /\ asks' = asks /\ faults' = faults
      /\ UNCHANGED <<phoneVars, rn>>
  BY JobFacts DEF IInv, RecordComment, Counts
<1>2. job' = [job EXCEPT ![a] = j] /\ exe' = [exe EXCEPT ![a] = e]
  BY <1>1, JobFacts DEF RecordComment, JobAt
<1>3. j \in Jobs /\ j.task = job[a].task /\ j.at = "none" /\ j.tapped = job[a].tapped
  BY <1>1, JobFacts DEF Jobs, JobPlaces
<1>4. starts \in 0..MaxStarts
  BY <1>1, JobFacts, JobAssumption DEF Records
<1>5. /\ CommentStatus(a) \in CommentStates
      /\ CommentStatus(a) = "pending" => job[a].got = "not_started"
  BY DEF CommentStatus, CommentStates
<1> HIDE DEF starts
<1>6. /\ e \in Records /\ e.status = exe[a].status /\ e.lease = exe[a].lease
      /\ e.comment = CommentStatus(a)
  BY <1>1, <1>4, <1>5, JobFacts DEF Records
<1> HIDE DEF j, e
<1>7. Moves(a) /\ job'[a] = j /\ exe'[a] = e
  <2>1. TInv /\ e \in Records /\ j \in Jobs
    BY <1>1, <1>3, <1>6
  <2> QED BY <1>2, <2>1, MovesFacts
<1>8. Owes(a) /\ Fits(a) /\ Rest
  BY <1>1, <1>3, <1>5, <1>6, <1>7, JobFacts DEF Owes, Fits, Rest, Due, Count, Starting, Commenting
<1>9. ASSUME Held PROVE Held'
  <2>1. rn' = rn /\ holder # a
    BY <1>1, <1>9 DEF Held
  <2> QED BY <1>1, <1>3, <1>7, <1>9, <2>1, HeldMoves
<1>10. ASSUME Attempts, lost[a] = 0 PROVE Sound(a)
  BY <1>1, <1>3, <1>6, <1>7, <1>10 DEF Sound, Quiet, Attempts
<1> QED BY <1>1, <1>7, <1>8, <1>9, <1>10, MovesKeep

\* Steps that change an account's record only.
LEMMA RecordKeeps ==
  ASSUME IInv, copies' = copies, lost' = lost,
         NEW a \in Accounts, NEW e \in Records, exe' = [exe EXCEPT ![a] = e],
         UNCHANGED <<phoneVars, rn, job, holder, lock, faults>>,
         asks' \in 0..MaxAsks, asks <= asks', e.lease => e.status = "running",
         \/ /\ e.status = exe[a].status /\ e.lease = exe[a].lease
            /\ e.comment = "pending" => exe[a].comment = "pending" \/ asks' = asks + 1
         \/ /\ exe[a].status \in {"failed", "cancelled"} /\ e.status = "pending"
            /\ e.comment = exe[a].comment /\ asks' = asks + 1
         \/ /\ exe[a].status = "running" /\ e.status \in {"failed", "uncertain"}
            /\ e.comment = exe[a].comment
            /\ ~Cooldown /\ lost[a] = 0 => job[a].at = "none"
  PROVE  IInv'
<1>1. /\ TInv /\ job' = job /\ holder' = holder /\ lock' = lock /\ faults' = faults
      /\ UNCHANGED <<phoneVars, rn>> /\ rn' = rn
  BY DEF IInv
<1>2. exe' = [exe EXCEPT ![a] = e]
  OBVIOUS
<1>3. Moves(a) /\ job'[a] = job[a] /\ exe'[a] = e
  <2>1. job \in [Accounts -> Jobs] /\ exe \in [Accounts -> Records] /\ job' = job
    BY <1>1, JobFacts
  <2> QED BY <1>2, <2>1 DEF Moves
<1>4. Fits(a) /\ Rest
  BY <1>1, <1>3, JobFacts DEF Fits, Rest
<1>5. Owes(a)
  BY <1>1, <1>3, JobFacts DEF Owes, Due, Count, Starting, Commenting
<1>6. ASSUME Held PROVE Held'
  BY <1>1, <1>6 DEF Held
<1>7. ASSUME ~Cooldown, Attempts, lost[a] = 0 PROVE Sound(a)
  BY <1>1, <1>3, <1>7 DEF Sound, Quiet, Attempts
<1> QED BY <1>1, <1>3, <1>4, <1>5, <1>6, <1>7, MovesKeep

LEMMA SettleKeeps ==
  ASSUME IInv, copies' = copies, lost' = lost, NEW a \in Accounts, SettleInterrupted(a)
  PROVE  IInv'
<1> DEFINE e == [exe[a] EXCEPT !.comment = "interrupted"]
<1>1. TInv /\ UNCHANGED <<phoneVars, rn, job, holder, lock, faults>> /\ asks' = asks
  BY DEF IInv, SettleInterrupted, Counts
<1>2. exe' = [exe EXCEPT ![a] = e]
  BY <1>1, JobFacts DEF SettleInterrupted
<1>3. /\ e \in Records /\ e.status = exe[a].status /\ e.lease = exe[a].lease
      /\ e.comment # "pending"
  BY <1>1, JobFacts DEF Records, CommentStates
<1> HIDE DEF e
<1>4. asks' \in 0..MaxAsks /\ asks <= asks' /\ (e.lease => e.status = "running")
  BY <1>1, <1>3, JobFacts
<1> QED BY <1>1, <1>2, <1>3, <1>4, RecordKeeps

LEMMA LeaseExpiresKeeps ==
  ASSUME IInv, copies' = copies, lost' = lost, NEW a \in Accounts, LeaseExpires(a)
  PROVE  IInv'
<1> DEFINE e == Recovered(exe[a])
<1>1. /\ TInv /\ UNCHANGED <<phoneVars, rn, job, holder, lock, faults>> /\ asks' = asks
      /\ exe[a].status = "running" /\ (~Cooldown /\ lost[a] = 0 => job[a].at = "none")
  BY AllowedFacts DEF IInv, LeaseExpires, Expired, Counts
<1>2. exe' = [exe EXCEPT ![a] = e]
  BY <1>1, JobFacts DEF LeaseExpires
<1>3. /\ e \in Records /\ e.status \in {"failed", "uncertain"} /\ e.lease = FALSE
      /\ e.comment = exe[a].comment
  BY <1>1, JobFacts DEF Records, Statuses, Recovered
<1> HIDE DEF e
<1>4. asks' \in 0..MaxAsks /\ asks <= asks'
  BY <1>1, JobFacts
<1> QED BY <1>1, <1>2, <1>3, <1>4, RecordKeeps

LEMMA RunAgainKeeps ==
  ASSUME IInv, copies' = copies, lost' = lost, NEW a \in Accounts, RunAgain(a)
  PROVE  IInv'
<1> DEFINE e == [exe[a] EXCEPT !.status = "pending"]
<1>1. /\ TInv /\ UNCHANGED <<phoneVars, rn, job, holder, lock, faults>> /\ asks' = asks + 1
      /\ asks < MaxAsks /\ exe[a].status \in {"failed", "cancelled"}
  BY DEF IInv, RunAgain
<1>2. exe' = [exe EXCEPT ![a] = e]
  BY <1>1, JobFacts DEF RunAgain
<1>3. /\ e \in Records /\ e.status = "pending" /\ e.lease = exe[a].lease
      /\ e.comment = exe[a].comment
  BY <1>1, JobFacts DEF Records, Statuses
<1> HIDE DEF e
<1>4. asks' \in 0..MaxAsks /\ asks <= asks' /\ ~exe[a].lease
  BY <1>1, JobFacts, JobAssumption
<1> QED BY <1>1, <1>2, <1>3, <1>4, RecordKeeps

LEMMA RetryKeeps ==
  ASSUME IInv, copies' = copies, lost' = lost, NEW a \in Accounts, RequestCommentRetry(a)
  PROVE  IInv'
<1> DEFINE e == [exe[a] EXCEPT !.comment = "pending"]
<1>1. /\ TInv /\ UNCHANGED <<phoneVars, rn, job, holder, lock, faults>> /\ asks' = asks + 1
      /\ asks < MaxAsks
  BY DEF IInv, RequestCommentRetry
<1>2. exe' = [exe EXCEPT ![a] = e]
  BY <1>1, JobFacts DEF RequestCommentRetry
<1>3. /\ e \in Records /\ e.status = exe[a].status /\ e.lease = exe[a].lease
  BY <1>1, JobFacts DEF Records, CommentStates
<1> HIDE DEF e
<1>4. asks' \in 0..MaxAsks /\ asks <= asks' /\ (e.lease => e.status = "running")
  BY <1>1, <1>3, JobFacts, JobAssumption
<1> QED BY <1>1, <1>2, <1>3, <1>4, RecordKeeps

-----------------------------------------------------------------------------
(* Steps that start, end or leave behind a runner *)

RunnersOwed(a) ==
  /\ Count(Composing("job", a))' + Count(Composing("orphan", a))'
       <= Count(Composing("job", a)) + Count(Composing("orphan", a))
  /\ Count(Sending("job", a))' + Count(Sending("orphan", a))'
       <= Count(Sending("job", a)) + Count(Sending("orphan", a))

LEMMA RunnersOwedFacts ==
  ASSUME TInv, NEW a \in Accounts, RunnersOwed(a), Owes(a), asks' \in Nat
  PROVE  Owed(a)
<1>1. /\ Count(exe[a].status = "pending") \in Nat /\ Count(exe[a].status = "pending")' \in Nat
      /\ Count(Starting(job[a])) \in Nat /\ Count(Starting(job[a]))' \in Nat
      /\ Count(Composing("job", a)) \in Nat /\ Count(Composing("job", a))' \in Nat
      /\ Count(Composing("orphan", a)) \in Nat /\ Count(Composing("orphan", a))' \in Nat
      /\ Count(Due(exe[a])) \in Nat /\ Count(Due(exe[a]))' \in Nat
      /\ Count(Commenting(job[a])) \in Nat /\ Count(Commenting(job[a]))' \in Nat
      /\ Count(Sending("job", a)) \in Nat /\ Count(Sending("job", a))' \in Nat
      /\ Count(Sending("orphan", a)) \in Nat /\ Count(Sending("orphan", a))' \in Nat
  BY DEF Count
<1>2. asks \in Nat
  BY JobFacts
<1> QED BY <1>1, <1>2 DEF RunnersOwed, Owes, Owed

LEMMA SameOwes ==
  ASSUME TInv, NEW a \in Accounts, job'[a] = job[a], exe'[a] = exe[a], asks' = asks
  PROVE  Owes(a)
<1>1. /\ Count(exe[a].status = "pending")' = Count(exe[a].status = "pending")
      /\ Count(Starting(job[a]))' = Count(Starting(job[a]))
      /\ Count(Due(exe[a]))' = Count(Due(exe[a]))
      /\ Count(Commenting(job[a]))' = Count(Commenting(job[a]))
  BY DEF Count
<1>2. /\ Count(exe[a].status = "pending") \in Nat /\ Count(Starting(job[a])) \in Nat
      /\ Count(Due(exe[a])) \in Nat
      /\ Count(Commenting(job[a])) \in Nat
  BY DEF Count
<1>3. asks \in Nat
  BY JobFacts
<1> QED BY <1>1, <1>2, <1>3 DEF Owes

\* A runner that ends, or goes on without its job, is owed no more than before.
LEMMA LeftOwed ==
  ASSUME NEW a \in Accounts, rn'["job"].at = "none",
         \/ rn'["orphan"] = rn["orphan"] \/ rn'["orphan"].at = "none"
         \/ /\ rn["orphan"].at = "none" /\ rn'["orphan"].at = rn["job"].at
            /\ rn'["orphan"].task = rn["job"].task /\ rn'["orphan"].acct = rn["job"].acct
  PROVE  RunnersOwed(a)
<1>1. CASE rn'["orphan"] = rn["orphan"] \/ rn'["orphan"].at = "none"
  BY <1>1 DEF RunnersOwed, Count, Composing, Sending
<1>2. CASE /\ rn["orphan"].at = "none" /\ rn'["orphan"].at = rn["job"].at
           /\ rn'["orphan"].task = rn["job"].task /\ rn'["orphan"].acct = rn["job"].acct
  <2>1. Composing("orphan", a)' = Composing("job", a) /\ Sending("orphan", a)' = Sending("job", a)
    BY <1>2 DEF Composing, Sending
  <2>2. /\ ~Composing("job", a)' /\ ~Sending("job", a)'
        /\ ~Composing("orphan", a) /\ ~Sending("orphan", a)
    BY <1>2 DEF Composing, Sending
  <2> QED BY <2>1, <2>2 DEF RunnersOwed, Count
<1> QED BY <1>1, <1>2

\* The user on screen and the lock change, with no runner to see it.
LEMMA SwitchKeeps ==
  ASSUME IInv, copies' = copies, lost' = lost,
         UNCHANGED <<fb, misplaced, rn, job, exe, holder, asks, faults>>,
         user' \in Accounts \cup {Owner}, lock' \in Accounts \cup {Nobody, Viewer, Setup},
         user' = user \/ (Held => rn["job"].at = "none")
  PROVE  IInv'
<1>1. TInv /\ Budget /\ Undisturbed
  BY DEF IInv
<1>2. /\ fb' = fb /\ misplaced' = misplaced /\ rn' = rn /\ job' = job /\ exe' = exe
      /\ holder' = holder /\ asks' = asks /\ faults' = faults
  OBVIOUS
<1>3. TInv'
  BY <1>1, <1>2 DEF TInv, TypeOK, FlowTypeOK, PhoneTypeOK, Leased, Filed
<1>4. Budget'
  BY <1>1, <1>2 DEF Budget, Allowed, Shares, Comments, Composing, Sending, Composed
<1>5. ASSUME faults' = 0 PROVE Held' /\ OnScreen' /\ Announced' /\ (~Cooldown => Attempts')
  <2>1. faults = 0 /\ Held /\ OnScreen /\ Announced /\ (~Cooldown => Attempts)
    BY <1>1, <1>2, <1>5 DEF Undisturbed
  <2>2. Held' /\ Announced' /\ (~Cooldown => Attempts')
    BY <1>2, <2>1 DEF Held, Announced, Attempts, Quiet
  <2>3. OnScreen'
    BY <1>2, <2>1 DEF OnScreen
  <2> QED BY <2>2, <2>3
<1> QED BY <1>3, <1>4, <1>5 DEF IInv, Undisturbed

LEMMA OpenAccountKeeps ==
  ASSUME IInv, copies' = copies, lost' = lost, NEW a \in Accounts, OpenAccount(a)
  PROVE  IInv'
<1>1. /\ job[a].at = "opening" /\ user' = a /\ lock' = a
      /\ UNCHANGED <<fb, misplaced, rn, job, exe, holder, asks, faults>>
  BY DEF OpenAccount, Counts
<1>2. ASSUME Held PROVE rn["job"].at = "none"
  BY <1>1, <1>2, JobAssumption DEF Held, Setup
<1> QED BY <1>1, <1>2, SwitchKeeps

LEMMA SwitchUserKeeps ==
  ASSUME IInv, copies' = copies, lost' = lost, NEW u \in Accounts \cup {Owner}, SwitchUser(u)
  PROVE  IInv'
<1>1. /\ holder = Nobody /\ user' = u /\ lock' = Viewer
      /\ UNCHANGED <<fb, misplaced, rn, job, exe, holder, asks, faults>>
  BY DEF SwitchUser, Counts, MayLock, PhoneIsFree
<1>2. ASSUME Held PROVE rn["job"].at = "none"
  <2>1. TInv
    BY DEF IInv
  <2>2. rn["job"].acct \in Accounts
    BY <2>1, SlotFacts DEF Slots
  <2> QED BY <1>1, <1>2, <2>2, JobAssumption DEF Held, Setup, Nobody
<1> QED BY <1>1, <1>2, SwitchKeeps

LEMMA SwitchEndsKeeps ==
  ASSUME IInv, copies' = copies, lost' = lost, SwitchEnds
  PROVE  IInv'
<1>1. /\ user' = user /\ lock' = Nobody
      /\ UNCHANGED <<fb, misplaced, rn, job, exe, holder, asks, faults>>
  BY DEF SwitchEnds, Counts, phoneVars
<1>2. user' \in Accounts \cup {Owner}
  BY <1>1, ScreenFacts DEF IInv
<1> QED BY <1>1, <1>2, SwitchKeeps

\* A step that changes runners, from its parts.
LEMMA RunnersKeep ==
  ASSUME IInv, TInv', lost' = lost, Untouched, \A a \in Accounts : Owed(a),
         faults' = 0 /\ faults = 0 /\ Held /\ OnScreen /\ Announced =>
            Held' /\ OnScreen' /\ Announced' /\ (~Cooldown /\ Attempts => Attempts'),
         faults' = 0 => faults = 0
  PROVE  IInv'
<1>1. TInv /\ Budget /\ Undisturbed
  BY DEF IInv
<1>2. asks' \in Nat
  BY JobAssumption DEF TInv, TypeOK
<1>3. Budget'
  BY <1>1, <1>2, OwedKeepsBudget
<1> QED BY <1>1, <1>3 DEF IInv, Undisturbed

LEMMA SameUntouched == ASSUME fb' = fb PROVE Untouched
BY DEF Untouched, Composed

\* A slot of its own gets another runner.
LEMMA SlotChange ==
  ASSUME TInv, NEW s \in Slots, NEW r \in Runners, r.looks < Looks, rn' = [rn EXCEPT ![s] = r]
  PROVE  /\ rn' \in [Slots -> Runners] /\ rn'[s] = r /\ \A t \in Slots \ {s} : rn'[t] = rn[t]
         /\ \A t \in Slots : rn'[t].looks < Looks
BY SlotFacts DEF TInv, TypeOK, FlowTypeOK

LEMMA SlotEmptied ==
  ASSUME TInv, NEW s \in Slots, rn' = [rn EXCEPT ![s] = Idle]
  PROVE  /\ rn' \in [Slots -> Runners] /\ \A t \in Slots \ {s} : rn'[t] = rn[t]
         /\ \A t \in Slots : rn'[t].looks < Looks
         /\ rn'[s].at = "none" /\ rn'[s].task = "post" /\ rn'[s].pipe = "read" /\ rn'[s].said = FALSE
<1>1. Idle.looks < Looks
  BY IdleFacts, FlowAssumption
<1> QED BY <1>1, IdleFacts, SlotChange

LEMMA ResultReadKeeps ==
  ASSUME IInv, copies' = copies, lost' = lost,
         NEW a \in Accounts, NEW result \in Results, ResultRead(a, result)
  PROVE  IInv'
<1> DEFINE j == [job[a] EXCEPT !.at = "release", !.got = result]
<1>1. /\ TInv /\ job[a].at = "running" /\ rn["job"].said = job[a].tapped
      /\ user' = user /\ fb' = fb /\ misplaced' = misplaced /\ exe' = exe /\ holder' = holder
      /\ lock' = lock /\ asks' = asks /\ faults' = faults
      /\ rn' = [rn EXCEPT !["job"] = Idle]
  BY DEF IInv, ResultRead, Counts, phoneVars
<1>2. job' = [job EXCEPT ![a] = j] /\ exe' = [exe EXCEPT ![a] = exe[a]]
  BY <1>1, JobFacts DEF ResultRead
<1>3. /\ j \in Jobs /\ j.task = job[a].task /\ j.at = "release" /\ j.tapped = job[a].tapped
      /\ j.got # "not_started"
  BY <1>1, JobFacts DEF Jobs, JobPlaces, Results
<1> HIDE DEF j
<1>4. Moves(a) /\ job'[a] = j /\ exe'[a] = exe[a]
  BY <1>1, <1>2, <1>3, MovesFacts, JobFacts
<1>5. /\ rn' \in [Slots -> Runners] /\ rn'["orphan"] = rn["orphan"]
      /\ \A t \in Slots : rn'[t].looks < Looks
      /\ rn'["job"].at = "none" /\ rn'["job"].task = "post" /\ rn'["job"].pipe = "read"
      /\ rn'["job"].said = FALSE
  BY <1>1, SlotEmptied DEF Slots
<1>6. TInv'
  BY <1>1, <1>3, <1>4, <1>5 DEF TInv, TypeOK, FlowTypeOK, PhoneTypeOK, Leased, Filed, Moves
<1>7. ASSUME NEW b \in Accounts PROVE Owed(b)
  <2>1. RunnersOwed(b) /\ asks' \in Nat
    BY <1>1, <1>5, LeftOwed, JobFacts
  <2>2. Owes(b)
    <3>1. CASE b = a
      BY <1>1, <1>3, <1>4, <3>1, JobFacts DEF Owes, Due, Count, Starting, Commenting
    <3>2. CASE b # a
      <4>1. job'[b] = job[b] /\ exe'[b] = exe[b]
        BY <1>4, <3>2 DEF Moves
      <4> QED BY <1>1, <4>1, SameOwes
    <3> QED BY <3>1, <3>2
  <2> QED BY <1>1, <2>1, <2>2, RunnersOwedFacts
<1>8. ASSUME Held, OnScreen, Announced
      PROVE  Held' /\ OnScreen' /\ Announced' /\ (~Cooldown /\ Attempts => Attempts')
  <2>1. holder = a /\ \A b \in Accounts \ {a} : job'[b] = job[b] /\ job[b].at # "running"
    BY <1>1, <1>4, <1>8 DEF Held, Moves
  <2>2. Held'
    BY <1>1, <1>3, <1>4, <1>5, <1>8, <2>1 DEF Held
  <2>3. OnScreen' /\ Announced'
    BY <1>1, <1>5, <1>8 DEF OnScreen, Announced
  <2>4. ASSUME Attempts PROVE Attempts'
    <3>1. \A b \in Accounts : Quiet(b)' => Quiet(b)
      BY <1>1, <1>3, <1>4, <2>1 DEF Quiet
    <3> QED BY <1>1, <1>3, <1>4, <2>1, <2>4, <3>1 DEF Attempts
  <2> QED BY <2>2, <2>3, <2>4
<1>9. Untouched
  BY <1>1, SameUntouched
<1> QED BY <1>1, <1>6, <1>7, <1>8, <1>9, RunnersKeep

\* The account is open: its runner starts, with what an earlier one left of a draft.
RunnerStarts(a) ==
  /\ JobAt(a, "running") /\ rn' = [rn EXCEPT !["job"] = Runner(job[a].task, a)]
  /\ fb' = [fb EXCEPT ![a].draft = IF @ = "none" THEN @ ELSE "old", ![a].media = FALSE]

LEMMA RunnerStartsKeeps ==
  ASSUME IInv, copies' = copies, lost' = lost,
         NEW a \in Accounts, job[a].at = "opening", RunnerStarts(a), lock' = Nobody,
         UNCHANGED <<user, misplaced, exe, holder, asks, faults>>
  PROVE  IInv'
<1> DEFINE j == [job[a] EXCEPT !.at = "running"]
           d == IF fb[a].draft = "none" THEN "none" ELSE "old"
           f == [fb[a] EXCEPT !.draft = d, !.media = FALSE]
           r == Runner(job[a].task, a)
<1>1. /\ TInv /\ user' = user /\ misplaced' = misplaced /\ exe' = exe /\ holder' = holder
      /\ asks' = asks /\ faults' = faults
  BY DEF IInv
<1>2. job' = [job EXCEPT ![a] = j] /\ exe' = [exe EXCEPT ![a] = exe[a]]
  BY <1>1, JobFacts DEF RunnerStarts, JobAt
<1>3. /\ j \in Jobs /\ j.task = job[a].task /\ j.at = "running" /\ j.tapped = job[a].tapped
      /\ job[a].task \in Tasks
  BY <1>1, JobFacts DEF Jobs, JobPlaces
<1>4. Moves(a) /\ job'[a] = j /\ exe'[a] = exe[a]
  <2>1. exe[a] \in Records /\ j \in Jobs
    BY <1>1, <1>3, JobFacts
  <2> HIDE DEF j
  <2> QED BY <1>1, <1>2, <2>1, MovesFacts
<1>5. d \in {"none", "old"} /\ d \in Drafts
  BY DEF Drafts
<1>6. fb' = [fb EXCEPT ![a] = f]
  BY <1>1, ScreenFacts DEF RunnerStarts
<1> HIDE DEF d, j
<1>7. /\ f \in Facebooks /\ f.draft = d /\ f.own = fb[a].own /\ f.comments = fb[a].comments
      /\ f.posts = fb[a].posts
  BY <1>1, <1>5, ScreenFacts DEF Facebooks
<1> HIDE DEF f
<1>8. /\ fb' \in [Accounts -> Facebooks] /\ fb'[a].draft \in {"none", "old"}
      /\ \A b \in Accounts : /\ fb'[b].own = fb[b].own /\ fb'[b].comments = fb[b].comments
                             /\ fb'[b].posts = fb[b].posts
                             /\ b # a => fb'[b].draft = fb[b].draft
  BY <1>1, <1>5, <1>6, <1>7, ScreenFacts
<1>9. /\ r \in Runners /\ r.at = "open" /\ r.task = job[a].task /\ r.acct = a /\ r.pipe = "read"
      /\ r.looks < Looks /\ r.said = FALSE
  <2>1. Fresh(r, job[a].task, a)
    BY <1>3, RunnerFacts
  <2> QED BY <2>1 DEF Fresh
<1>10. rn' = [rn EXCEPT !["job"] = r]
  BY DEF RunnerStarts
<1> HIDE DEF r
<1>11. /\ rn' \in [Slots -> Runners] /\ rn'["job"] = r /\ rn'["orphan"] = rn["orphan"]
       /\ \A t \in Slots : rn'[t].looks < Looks
  <2>1. "job" \in Slots /\ "orphan" \in Slots
    BY DEF Slots
  <2> QED BY <1>1, <1>9, <1>10, <2>1, SlotChange
<1>12. TInv'
  <2>1. Leased' /\ Filed'
    BY <1>1, <1>3, <1>4 DEF TInv, Leased, Filed, Moves
  <2>2. TypeOK'
    BY <1>1, <1>4, <1>8, <1>11 DEF TInv, TypeOK, FlowTypeOK, PhoneTypeOK, Moves
  <2> QED BY <1>11, <2>1, <2>2 DEF TInv
<1>13. Untouched
  BY <1>8 DEF Untouched, Composed, Own, Complete
<1>14. ASSUME NEW b \in Accounts PROVE Owed(b)
  <2>1. asks \in Nat /\ asks' = asks
    BY <1>1, JobFacts
  <2>2. CASE b = a
    <3>1. /\ Count(Composing("orphan", a))' = Count(Composing("orphan", a))
          /\ Count(Sending("orphan", a))' = Count(Sending("orphan", a))
          /\ Count(exe[a].status = "pending")' = Count(exe[a].status = "pending")
          /\ Count(Due(exe[a]))' = Count(Due(exe[a]))
      BY <1>4, <1>11 DEF Count, Composing, Sending
    <3>2. /\ Count(Starting(job[a]))' = 0 /\ Count(Commenting(job[a]))' = 0
      BY <1>3, <1>4 DEF Count, Starting, Commenting
    <3>3. /\ Count(Composing("job", a))' <= Count(Starting(job[a]))
          /\ Count(Sending("job", a))' <= Count(Commenting(job[a]))
      BY <1>9, <1>11 DEF Count, Composing, Sending, Starting, Commenting
    <3>4. /\ Count(exe[a].status = "pending") \in Nat /\ Count(Starting(job[a])) \in Nat
          /\ Count(Composing("job", a)) \in Nat /\ Count(Composing("job", a))' \in Nat
          /\ Count(Composing("orphan", a)) \in Nat
          /\ Count(Due(exe[a])) \in Nat
          /\ Count(Commenting(job[a])) \in Nat
          /\ Count(Sending("job", a)) \in Nat /\ Count(Sending("job", a))' \in Nat
          /\ Count(Sending("orphan", a)) \in Nat
      BY DEF Count
    <3>5. Owed(a)
      BY <2>1, <3>1, <3>2, <3>3, <3>4 DEF Owed
    <3> QED BY <2>2, <3>5
  <2>3. CASE b # a
    <3>1. job'[b] = job[b] /\ exe'[b] = exe[b]
      BY <1>4, <2>3 DEF Moves
    <3>2. \A s \in Slots : (Composing(s, b)' => Composing(s, b)) /\ (Sending(s, b)' => Sending(s, b))
      BY <1>9, <1>11, <2>3 DEF Slots, Composing, Sending
    <3> QED BY <1>1, <2>1, <3>1, <3>2, OthersOwed
  <2> QED BY <2>2, <2>3
<1>15. ASSUME Held, OnScreen, Announced
       PROVE  Held' /\ OnScreen' /\ Announced' /\ (~Cooldown /\ Attempts => Attempts')
  <2>1. holder = a /\ \A b \in Accounts \ {a} : job'[b] = job[b] /\ job[b].at # "running"
    BY <1>4, <1>15 DEF Held, Moves
  <2>2. Held'
    BY <1>1, <1>3, <1>4, <1>9, <1>11, <1>15, <2>1 DEF Held
  <2>3. OnScreen' /\ Announced'
    BY <1>1, <1>8, <1>9, <1>11, <1>15 DEF OnScreen, Announced
  <2>4. ASSUME Attempts PROVE Attempts'
    <3>1. \A b \in Accounts : Quiet(b)' => Quiet(b)
      BY <1>3, <1>4, <1>1, <2>1 DEF Quiet
    <3> QED BY <1>1, <1>3, <1>4, <1>8, <2>1, <2>4, <3>1 DEF Attempts
  <2> QED BY <2>2, <2>3, <2>4
<1> QED BY <1>1, <1>12, <1>13, <1>14, <1>15, RunnersKeep

LEMMA OpenedKeeps ==
  ASSUME IInv, copies' = copies, lost' = lost, NEW a \in Accounts, Opened(a)
  PROVE  IInv'
<1>1. /\ lock' = Nobody /\ user' = user /\ misplaced' = misplaced /\ exe' = exe /\ holder' = holder
      /\ asks' = asks /\ faults' = faults
  BY DEF Opened, Counts
<1>2. CASE job[a].at # "opening"
  <2>1. UNCHANGED <<fb, misplaced, rn, job, exe, holder, asks, faults>>
    BY <1>1, <1>2 DEF Opened
  <2>2. user' \in Accounts \cup {Owner}
    BY <1>1, ScreenFacts DEF IInv
  <2> QED BY <1>1, <2>1, <2>2, SwitchKeeps
<1>3. CASE job[a].at = "opening" /\ RunnerStarts(a)
  BY <1>1, <1>3, RunnerStartsKeeps
<1>4. CASE /\ job[a].at = "opening" /\ UNCHANGED <<rn, fb>>
           /\ job' = [job EXCEPT ![a].at = "release", ![a].got = "not_started"]
  <2>1. UNCHANGED <<phoneVars, rn>> /\ Counts /\ lock' \in Accounts \cup {Nobody, Viewer, Setup}
    BY <1>1, <1>4 DEF phoneVars, Counts
  <2> QED BY <1>1, <1>4, <2>1, NotStartedKeeps
<1> QED BY <1>2, <1>3, <1>4 DEF Opened, RunnerStarts

LEMMA OpenRefusedKeeps ==
  ASSUME IInv, copies' = copies, lost' = lost, NEW a \in Accounts, OpenRefused(a)
  PROVE  IInv'
<1>1. lock' \in Accounts \cup {Nobody, Viewer, Setup}
  BY JobFacts DEF OpenRefused, IInv
<1> QED BY <1>1, NotStartedKeeps DEF OpenRefused

LEMMA GetReadyKeeps ==
  ASSUME IInv, copies' = copies, lost' = lost, NEW a \in Accounts, GetReady(a)
  PROVE  IInv'
<1> DEFINE r == Runner("ready", a)
<1>1. /\ TInv /\ holder = Nobody /\ holder' = Setup /\ rn["job"].at = "none" /\ user' = a
      /\ fb' = fb /\ misplaced' = misplaced /\ job' = job /\ exe' = exe /\ lock' = lock
      /\ asks' = asks /\ faults' = faults /\ rn' = [rn EXCEPT !["job"] = r]
  BY DEF IInv, GetReady, HoldForJob, PhoneIsFree, Counts
<1>2. Fresh(r, "ready", a)
  <2>1. "ready" \in Tasks
    BY DEF Tasks
  <2> QED BY <2>1, RunnerFacts
<1> HIDE DEF r
<1>3. /\ rn' \in [Slots -> Runners] /\ rn'["job"] = r /\ rn'["orphan"] = rn["orphan"]
      /\ \A t \in Slots : rn'[t].looks < Looks
  <2>1. "job" \in Slots /\ "orphan" \in Slots
    BY DEF Slots
  <2> QED BY <1>1, <1>2, <2>1, SlotChange DEF Fresh
<1>4. TInv'
  BY <1>1, <1>3 DEF TInv, TypeOK, FlowTypeOK, PhoneTypeOK, Leased, Filed
<1>5. Untouched
  BY <1>1, SameUntouched
<1>6. ASSUME NEW b \in Accounts PROVE Owed(b)
  <2>1. asks' \in Nat /\ asks <= asks'
    BY <1>1, JobFacts
  <2>2. \A s \in Slots : (Composing(s, b)' => Composing(s, b)) /\ (Sending(s, b)' => Sending(s, b))
    BY <1>2, <1>3 DEF Slots, Composing, Sending, Fresh
  <2> QED BY <1>1, <2>1, <2>2, OthersOwed
<1>7. ASSUME Held, OnScreen, Announced
      PROVE  Held' /\ OnScreen' /\ Announced' /\ (~Cooldown /\ Attempts => Attempts')
  <2>1. \A b \in Accounts : job[b].at \notin {"opening", "running", "release"}
    BY <1>1, <1>7, JobAssumption DEF Held, Nobody
  <2>2. Held'
    BY <1>1, <1>2, <1>3, <1>7, <2>1, JobAssumption DEF Held, Fresh, Setup
  <2>3. OnScreen' /\ Announced'
    BY <1>1, <1>2, <1>3, <1>7 DEF OnScreen, Announced, Fresh
  <2>4. ASSUME Attempts PROVE Attempts'
    <3>1. \A b \in Accounts : Quiet(b)' => Quiet(b)
      BY <1>1, <2>1 DEF Quiet
    <3> QED BY <1>1, <2>4, <3>1 DEF Attempts
  <2> QED BY <2>2, <2>3, <2>4
<1> QED BY <1>1, <1>4, <1>5, <1>6, <1>7, RunnersKeep

LEMMA GetReadyEndsKeeps ==
  ASSUME IInv, copies' = copies, lost' = lost, GetReadyEnds
  PROVE  IInv'
<1>1. /\ TInv /\ holder = Setup /\ holder' = Nobody /\ user' = user
      /\ fb' = fb /\ misplaced' = misplaced /\ job' = job /\ exe' = exe /\ lock' = lock
      /\ asks' = asks /\ faults' = faults /\ rn' = [rn EXCEPT !["job"] = Idle]
  BY DEF IInv, GetReadyEnds, ReleaseJob, Counts, phoneVars
<1>2. /\ rn' \in [Slots -> Runners] /\ rn'["orphan"] = rn["orphan"]
      /\ \A t \in Slots : rn'[t].looks < Looks
      /\ rn'["job"].at = "none" /\ rn'["job"].task = "post" /\ rn'["job"].pipe = "read"
  BY <1>1, SlotEmptied DEF Slots
<1>3. TInv'
  BY <1>1, <1>2 DEF TInv, TypeOK, FlowTypeOK, PhoneTypeOK, Leased, Filed
<1>4. Untouched
  BY <1>1, SameUntouched
<1>5. ASSUME NEW b \in Accounts PROVE Owed(b)
  <2>1. RunnersOwed(b) /\ asks' \in Nat
    BY <1>1, <1>2, LeftOwed, JobFacts
  <2>2. Owes(b)
    BY <1>1, SameOwes
  <2> QED BY <1>1, <2>1, <2>2, RunnersOwedFacts
<1>6. ASSUME Held, OnScreen, Announced
      PROVE  Held' /\ OnScreen' /\ Announced' /\ (~Cooldown /\ Attempts => Attempts')
  <2>1. \A b \in Accounts : job[b].at \notin {"opening", "running", "release"}
    BY <1>1, <1>6, JobAssumption DEF Held, Setup
  <2>2. Held'
    BY <1>1, <1>2, <1>6, <2>1, JobAssumption DEF Held, Nobody
  <2>3. OnScreen' /\ Announced'
    BY <1>1, <1>2, <1>6 DEF OnScreen, Announced
  <2>4. ASSUME Attempts PROVE Attempts'
    <3>1. \A b \in Accounts : Quiet(b)' => Quiet(b)
      BY <1>1, <2>1 DEF Quiet
    <3> QED BY <1>1, <2>4, <3>1 DEF Attempts
  <2> QED BY <2>2, <2>3, <2>4
<1> QED BY <1>1, <1>3, <1>4, <1>5, <1>6, RunnersKeep

LEMMA OrphanExitsKeeps ==
  ASSUME IInv, copies' = copies, lost' = lost, OrphanExits, Backend
  PROVE  IInv'
<1>1. /\ TInv /\ rn["orphan"].at = "exit" /\ rn' = [rn EXCEPT !["orphan"] = Idle] /\ Screen
  BY DEF IInv, OrphanExits
<1>2. "orphan" \in Slots /\ "exit" \in Steps /\ rn["orphan"].said \in BOOLEAN
  BY <1>1, SlotFacts DEF Slots, Steps
<1>3. /\ rn' \in [Slots -> Runners] /\ rn'["job"] = rn["job"]
      /\ \A t \in Slots : rn'[t].looks < Looks /\ rn'["orphan"].at = "none"
  BY <1>1, SlotEmptied DEF Slots
<1>4. user' = user /\ fb' = fb /\ misplaced' = misplaced /\ asks' = asks /\ faults' = faults
  BY <1>1 DEF Screen, phoneVars, Backend
<1>5. TInv'
  BY <1>1, <1>3, <1>4 DEF TInv, TypeOK, FlowTypeOK, PhoneTypeOK, Leased, Filed, Backend
<1>6. Untouched
  BY <1>4, SameUntouched
<1>7. ASSUME NEW b \in Accounts PROVE Owed(b)
  <2>1. asks' \in Nat /\ asks <= asks'
    BY <1>1, <1>4, JobFacts
  <2>2. \A s \in Slots : (Composing(s, b)' => Composing(s, b)) /\ (Sending(s, b)' => Sending(s, b))
    BY <1>3 DEF Slots, Composing, Sending
  <2>3. job'[b] = job[b] /\ exe'[b] = exe[b]
    BY DEF Backend
  <2> QED BY <1>1, <2>1, <2>2, <2>3, OthersOwed
<1>8. ASSUME Held PROVE FALSE
  BY <1>1, <1>8 DEF Held
<1> QED BY <1>4, <1>5, <1>6, <1>7, <1>8, RunnersKeep

-----------------------------------------------------------------------------
(* Cancellation and crash *)

\* A job that was lost takes its guarantees with it, but owes no more.
LEMMA FaultKeeps ==
  ASSUME IInv, TInv', lost' = lost, fb' = fb, faults' = faults + 1,
         \A a \in Accounts : Owed(a)
  PROVE  IInv'
<1>1. faults' # 0
  BY JobFacts DEF IInv
<1>2. Untouched
  BY SameUntouched
<1> QED BY <1>1, <1>2, RunnersKeep

\* The runner of the slot "job" goes on without its job.
LEMMA OrphanedFacts ==
  ASSUME TInv, NEW pipe \in {"kept", "broken"}, rn["orphan"].at = "none",
         rn' = [rn EXCEPT !["job"] = Idle, !["orphan"] = [rn["job"] EXCEPT !.pipe = pipe]]
  PROVE  /\ rn' \in [Slots -> Runners] /\ \A t \in Slots : rn'[t].looks < Looks
         /\ \A a \in Accounts : RunnersOwed(a)
<1> DEFINE r == [rn["job"] EXCEPT !.pipe = pipe]
<1>1. /\ r \in Runners /\ r.looks < Looks /\ r.at = rn["job"].at /\ r.task = rn["job"].task
      /\ r.acct = rn["job"].acct
  BY SlotFacts DEF Slots, Runners
<1>2. rn' = [rn EXCEPT !["job"] = Idle, !["orphan"] = r]
  OBVIOUS
<1> HIDE DEF r
<1>3. Idle \in Runners /\ Idle.looks < Looks /\ Idle.at = "none"
  BY IdleFacts, FlowAssumption
<1>4. rn \in [Slots -> Runners]
  BY SlotFacts DEF Slots
<1>5. rn' \in [Slots -> Runners] /\ rn'["job"] = Idle /\ rn'["orphan"] = r
  BY <1>1, <1>2, <1>3, <1>4 DEF Slots
<1>6. \A a \in Accounts : RunnersOwed(a)
  BY <1>1, <1>3, <1>5, LeftOwed
<1> QED BY <1>1, <1>3, <1>5, <1>6 DEF Slots

LEMMA CancelKeeps ==
  ASSUME IInv, copies' = copies, lost' = lost, NEW a \in Accounts, Cancel(a)
  PROVE  IInv'
<1> DEFINE e == Cancelled(exe[a])
<1>1. /\ TInv /\ exe[a].status = "running" /\ rn["orphan"].at = "none" /\ faults < MaxFaults
      /\ user' = user /\ fb' = fb /\ misplaced' = misplaced /\ lock' = lock /\ asks' = asks
      /\ faults' = faults + 1 /\ holder' = (IF holder = a THEN Nobody ELSE holder)
      /\ job' = [job EXCEPT ![a] = NoJob] /\ Orphaned(a, "kept")
  BY DEF IInv, Cancel, phoneVars
<1>2. exe' = [exe EXCEPT ![a] = e]
  BY <1>1, JobFacts DEF Cancel
<1>3. /\ e \in Records /\ e.status \in {"cancelled", "uncertain"} /\ e.lease = FALSE
      /\ e.comment = exe[a].comment
  <2> DEFINE c == Recovered(exe[a])
  <2>1. /\ c \in Records /\ c.status \in {"failed", "uncertain"} /\ c.lease = FALSE
        /\ c.comment = exe[a].comment
    BY <1>1, JobFacts DEF Records, Statuses, Recovered
  <2>2. e = [c EXCEPT !.status = IF c.status = "failed" THEN "cancelled" ELSE c.status]
    BY <2>1 DEF Cancelled, Records
  <2> HIDE DEF c
  <2> QED BY <2>1, <2>2 DEF Records, Statuses
<1>4. NoJob \in Jobs /\ NoJob.at = "none"
  BY DEF NoJob, Jobs, JobPlaces, Tasks, Results
<1> HIDE DEF e
<1>5. Moves(a) /\ job'[a] = NoJob /\ exe'[a] = e
  <2>1. TInv /\ job' = [job EXCEPT ![a] = NoJob] /\ e \in Records /\ NoJob \in Jobs
    BY <1>1, <1>3, <1>4
  <2> QED BY <1>2, <2>1, MovesFacts
<1>6. /\ rn' \in [Slots -> Runners] /\ \A t \in Slots : rn'[t].looks < Looks
      /\ \A b \in Accounts : RunnersOwed(b)
  <2>1. CASE rn' = [rn EXCEPT !["job"] = Idle, !["orphan"] = [rn["job"] EXCEPT !.pipe = "kept"]]
    BY <1>1, <2>1, OrphanedFacts
  <2>2. CASE rn' = rn
    <3>1. rn \in [Slots -> Runners] /\ \A t \in Slots : rn[t].looks < Looks
      BY <1>1, SlotFacts DEF Slots
    <3>2. \A b \in Accounts : RunnersOwed(b)
      BY <2>2 DEF RunnersOwed, Count, Composing, Sending
    <3> QED BY <2>2, <3>1, <3>2
  <2> QED BY <1>1, <2>1, <2>2 DEF Orphaned
<1>7. TInv'
  <2>1. faults' \in 0..MaxFaults /\ holder' \in Accounts \cup {Nobody, Setup}
    BY <1>1, JobFacts, JobAssumption
  <2> QED BY <1>1, <1>3, <1>4, <1>5, <1>6, <2>1
          DEF TInv, TypeOK, FlowTypeOK, PhoneTypeOK, Leased, Filed, Moves
<1>8. ASSUME NEW b \in Accounts PROVE Owed(b)
  <2>1. Owes(b)
    <3>1. CASE b = a
      BY <1>1, <1>3, <1>4, <1>5, <3>1, JobFacts DEF Owes, Due, Count, Starting, Commenting
    <3>2. CASE b # a
      <4>1. job'[b] = job[b] /\ exe'[b] = exe[b]
        BY <1>5, <3>2 DEF Moves
      <4> QED BY <1>1, <4>1, SameOwes
    <3> QED BY <3>1, <3>2
  <2>2. asks' \in Nat
    BY <1>1, JobFacts
  <2> QED BY <1>1, <1>6, <2>1, <2>2, RunnersOwedFacts
<1> QED BY <1>1, <1>7, <1>8, FaultKeeps

LEMMA CrashKeeps ==
  ASSUME IInv, copies' = {}, lost' = lost, Crash
  PROVE  IInv'
<1>1. /\ TInv /\ rn["orphan"].at = "none" /\ faults < MaxFaults
      /\ user' = user /\ fb' = fb /\ misplaced' = misplaced /\ exe' = exe /\ asks' = asks
      /\ faults' = faults + 1 /\ holder' = Nobody /\ lock' = Nobody
      /\ job' = [b \in Accounts |-> NoJob]
  BY DEF IInv, Crash, phoneVars
<1>2. NoJob \in Jobs /\ NoJob.at = "none"
  BY DEF NoJob, Jobs, JobPlaces, Tasks, Results
<1>3. /\ rn' \in [Slots -> Runners] /\ \A t \in Slots : rn'[t].looks < Looks
      /\ \A b \in Accounts : RunnersOwed(b)
  <2>1. CASE rn' = [rn EXCEPT !["job"] = Idle, !["orphan"] = [rn["job"] EXCEPT !.pipe = "broken"]]
    BY <1>1, <2>1, OrphanedFacts
  <2>2. CASE rn' = [rn EXCEPT !["job"] = Idle, !["orphan"] = Idle]
    <3>1. Idle \in Runners /\ Idle.looks < Looks /\ Idle.at = "none"
      BY IdleFacts, FlowAssumption
    <3>2. rn \in [Slots -> Runners]
      BY <1>1, SlotFacts DEF Slots
    <3>3. rn' \in [Slots -> Runners] /\ rn'["job"] = Idle /\ rn'["orphan"] = Idle
      BY <2>2, <3>1, <3>2 DEF Slots
    <3>4. \A b \in Accounts : RunnersOwed(b)
      BY <3>1, <3>3, LeftOwed
    <3> QED BY <3>1, <3>3, <3>4 DEF Slots
  <2> QED BY <2>1, <2>2 DEF Crash
<1>4. TInv'
  <2>1. faults' \in 0..MaxFaults
    BY <1>1, JobFacts, JobAssumption
  <2> QED BY <1>1, <1>2, <1>3, <2>1 DEF TInv, TypeOK, FlowTypeOK, PhoneTypeOK, Leased, Filed
<1>5. ASSUME NEW b \in Accounts PROVE Owed(b)
  <2>1. Owes(b)
    BY <1>1, <1>2, JobFacts DEF Owes, Due, Count, Starting, Commenting
  <2>2. asks' \in Nat
    BY <1>1, JobFacts
  <2> QED BY <1>1, <1>3, <2>1, <2>2, RunnersOwedFacts
<1> QED BY <1>1, <1>4, <1>5, FaultKeeps

-----------------------------------------------------------------------------
(* Threads that save an older copy of the queue file *)

LEMMA ReadsKeeps ==
  ASSUME IInv, ThreadReads \/ NothingSaved
  PROVE  IInv'
<1>1. /\ user' = user /\ fb' = fb /\ misplaced' = misplaced /\ rn' = rn /\ job' = job /\ exe' = exe
      /\ holder' = holder /\ lock' = lock /\ asks' = asks /\ faults' = faults /\ lost' = lost
      /\ copies' = {exe} \/ copies' = {}
  BY DEF ThreadReads, NothingSaved, Else, Counts, phoneVars
<1>2. TInv'
  BY <1>1 DEF IInv, TInv, TypeOK, FlowTypeOK, PhoneTypeOK, Leased, Filed
<1>3. Budget'
  BY <1>1 DEF IInv, Budget, Allowed, Shares, Comments, Composing, Sending, Composed
<1>4. Undisturbed'
  BY <1>1 DEF IInv, Undisturbed, Held, OnScreen, Announced, Attempts, Quiet
<1> QED BY <1>2, <1>3, <1>4 DEF IInv

\* An account whose record was set back may start over once more; the others keep theirs, but for
\* a lease that really expired.
LEMMA SavesKeeps ==
  ASSUME IInv, ThreadSaves
  PROVE  IInv'
<1>1. /\ user' = user /\ fb' = fb /\ misplaced' = misplaced /\ rn' = rn /\ job' = job
      /\ holder' = holder /\ lock' = lock /\ asks' = asks /\ faults' = faults /\ copies' = {}
      /\ TInv /\ Budget /\ Undisturbed
  BY DEF IInv, ThreadSaves, Else, Counts, phoneVars
<1>2. PICK copy \in copies : \E found \in SUBSET Accounts :
        /\ \A a \in found : Expired(a, copy[a])
        /\ \A a \in Accounts : copy[a] # exe[a] => lost[a] < MaxLost
        /\ exe' = [a \in Accounts |-> IF a \in found THEN Recovered(copy[a]) ELSE copy[a]]
        /\ lost' = [a \in Accounts |-> IF copy[a] # exe[a] THEN lost[a] + 1 ELSE lost[a]]
  BY DEF ThreadSaves
<1>3. PICK found \in SUBSET Accounts :
        /\ \A a \in found : Expired(a, copy[a])
        /\ \A a \in Accounts : copy[a] # exe[a] => lost[a] < MaxLost
        /\ exe' = [a \in Accounts |-> IF a \in found THEN Recovered(copy[a]) ELSE copy[a]]
        /\ lost' = [a \in Accounts |-> IF copy[a] # exe[a] THEN lost[a] + 1 ELSE lost[a]]
  BY <1>2
<1>4. /\ lost \in [Accounts -> 0..MaxLost] /\ exe \in [Accounts -> Records]
      /\ copy \in [Accounts -> Records]
      /\ \A a \in Accounts : copy[a].lease => copy[a].status = "running"
  BY <1>1 DEF TInv, TypeOK, Leased
<1>5. ASSUME NEW a \in Accounts
      PROVE  /\ exe'[a] \in Records /\ lost'[a] \in 0..MaxLost
             /\ exe'[a].lease => exe'[a].status = "running"
             /\ \/ exe'[a] = exe[a] /\ lost'[a] = lost[a]
                \/ /\ Expired(a, exe[a]) /\ exe'[a] = Recovered(exe[a]) /\ lost'[a] = lost[a]
                   /\ exe'[a].status \in {"failed", "uncertain"}
                   /\ exe'[a].comment = exe[a].comment
                \/ lost'[a] = lost[a] + 1
  <2>1. lost[a] \in 0..MaxLost /\ MaxLost \in Nat
    BY <1>4, JobAssumption
  <2>2. lost'[a] = IF copy[a] # exe[a] THEN lost[a] + 1 ELSE lost[a]
    BY <1>3
  <2>3. lost'[a] \in 0..MaxLost
    BY <1>3, <2>1, <2>2
  <2>4. CASE a \in found
    <3>1. Expired(a, copy[a]) /\ exe'[a] = Recovered(copy[a])
      BY <1>3, <2>4
    <3>2. /\ exe'[a] \in Records /\ ~exe'[a].lease /\ exe'[a].comment = copy[a].comment
          /\ exe'[a].status \in {"failed", "uncertain"}
      <4>1. copy[a] \in Records
        BY <1>4
      <4> QED BY <3>1, <4>1 DEF Recovered, Records, Statuses
    <3> QED BY <2>2, <2>3, <3>1, <3>2
  <2>5. CASE a \notin found
    <3>1. exe'[a] = copy[a] /\ copy[a] \in Records
      BY <1>3, <1>4, <2>5
    <3> QED BY <1>4, <2>2, <2>3, <3>1
  <2> QED BY <2>4, <2>5
<1>6. TInv'
  <2>1. exe' \in [Accounts -> Records] /\ lost' \in [Accounts -> 0..MaxLost]
    BY <1>3, <1>5
  <2> QED BY <1>1, <1>5, <2>1 DEF TInv, TypeOK, FlowTypeOK, PhoneTypeOK, Leased, Filed
<1>7. Budget'
  <2> SUFFICES ASSUME NEW a \in Accounts
               PROVE  Shares(a)' <= Allowed(a)' /\ Comments(a)' <= Allowed(a)'
    BY DEF Budget
  <2>1. /\ Shares(a) <= Allowed(a) /\ Comments(a) <= Allowed(a) /\ lost[a] \in Nat
        /\ asks \in Nat /\ Allowed(a) = 1 + asks + lost[a] /\ Allowed(a)' = 1 + asks + lost'[a]
    BY <1>1, AllowedFacts DEF Budget, Allowed
  <2>2. /\ Count(Starting(job[a]))' = Count(Starting(job[a]))
        /\ Count(Commenting(job[a]))' = Count(Commenting(job[a]))
        /\ Count(Composing("job", a))' = Count(Composing("job", a))
        /\ Count(Composing("orphan", a))' = Count(Composing("orphan", a))
        /\ Count(Sending("job", a))' = Count(Sending("job", a))
        /\ Count(Sending("orphan", a))' = Count(Sending("orphan", a))
        /\ Count(Composed(a))' = Count(Composed(a))
        /\ fb'[a].own = fb[a].own /\ fb'[a].comments = fb[a].comments
    BY <1>1 DEF Count, Starting, Commenting, Composing, Sending, Composed
  <2>3. /\ Count(exe[a].status = "pending")' - Count(exe[a].status = "pending") <= lost'[a] - lost[a]
        /\ Count(Due(exe[a]))' - Count(Due(exe[a])) <= lost'[a] - lost[a]
    BY <1>5, <2>1 DEF Count, Due, Expired
  <2>4. /\ Count(exe[a].status = "pending") \in Nat /\ Count(exe[a].status = "pending")' \in Nat
        /\ Count(Due(exe[a])) \in Nat /\ Count(Due(exe[a]))' \in Nat
        /\ Count(Starting(job[a])) \in Nat /\ Count(Commenting(job[a])) \in Nat
        /\ Count(Composing("job", a)) \in Nat /\ Count(Composing("orphan", a)) \in Nat
        /\ Count(Sending("job", a)) \in Nat /\ Count(Sending("orphan", a)) \in Nat
        /\ Count(Composed(a)) \in Nat /\ fb[a].own \in Nat /\ fb[a].comments \in Nat
        /\ lost'[a] \in Nat
    BY <1>1, <1>5, ScreenFacts DEF Count
  <2> QED BY <2>1, <2>2, <2>3, <2>4 DEF Shares, Comments
<1>8. ASSUME faults' = 0 PROVE Held' /\ OnScreen' /\ Announced' /\ (~Cooldown => Attempts')
  <2>1. faults = 0 /\ Held /\ OnScreen /\ Announced /\ (~Cooldown => Attempts)
    BY <1>1, <1>8 DEF Undisturbed
  <2>2. Held' /\ OnScreen' /\ Announced'
    BY <1>1, <2>1 DEF Held, OnScreen, Announced
  <2>3. ASSUME ~Cooldown PROVE Attempts'
    <3>1. \A a \in Accounts : lost'[a] = 0 => lost[a] = 0 /\ exe'[a] = exe[a]
      <4> SUFFICES ASSUME NEW a \in Accounts, lost'[a] = 0
                   PROVE  lost[a] = 0 /\ exe'[a] = exe[a]
        OBVIOUS
      <4>1. lost[a] = 0 /\ (exe'[a] = exe[a] \/ Expired(a, exe[a]))
        BY <1>1, <1>5, AllowedFacts
      <4>2. ~Expired(a, exe[a])
        BY <2>1, <2>3, <4>1 DEF Attempts, Expired
      <4> QED BY <4>1, <4>2
    <3> QED BY <1>1, <2>1, <2>3, <3>1 DEF Attempts, Quiet
  <2> QED BY <2>1, <2>2, <2>3
<1> QED BY <1>6, <1>7, <1>8 DEF IInv, Undisturbed

-----------------------------------------------------------------------------
(* The theorems *)

LEMMA InitIInv == Init => IInv
<1> SUFFICES ASSUME Init PROVE IInv
  OBVIOUS
<1> DEFINE zero == 0
<1>1. zero \in 0..MaxPosts /\ zero \in 0..MaxStarts /\ zero \in 0..MaxAsks /\ zero \in 0..MaxFaults
      /\ zero \in 0..MaxLost
  BY FlowAssumption, JobAssumption
<1>2. /\ user = Owner /\ misplaced = FALSE /\ holder = Nobody /\ lock = Nobody /\ asks = zero
      /\ faults = zero /\ rn = [s \in Slots |-> Idle] /\ job = [a \in Accounts |-> NoJob]
      /\ fb = [a \in Accounts |-> [draft |-> "none", posts |-> zero, own |-> zero,
                                   comments |-> zero, media |-> FALSE]]
      /\ exe = [a \in Accounts |-> [status |-> "pending", clicked |-> FALSE, lease |-> FALSE,
                                    comment |-> "none", starts |-> zero]]
      /\ copies = {} /\ lost = [a \in Accounts |-> zero]
  BY DEF Init, FlowInit, PhoneInit
<1>3. NoJob \in Jobs /\ NoJob.at = "none" /\ NoJob.task = "post"
  BY DEF NoJob, Jobs, JobPlaces, Tasks, Results
<1>4. /\ Idle \in Runners /\ Idle.at = "none" /\ Idle.task = "post" /\ Idle.pipe = "read"
      /\ Idle.looks < Looks
  BY IdleFacts, FlowAssumption
<1>5. \A a \in Accounts : fb[a].own = 0 /\ fb[a].comments = 0 /\ fb[a].posts = 0 /\ fb[a].draft = "none"
  BY <1>2
<1>6. asks = 0 /\ \A a \in Accounts : lost[a] = 0
  BY <1>2
<1> HIDE DEF zero
<1>7. TInv
  BY <1>1, <1>2, <1>3, <1>4 DEF TInv, TypeOK, FlowTypeOK, PhoneTypeOK, Leased, Filed, Facebooks,
     Drafts, Records, Statuses, CommentStates
<1>8. Budget
  <2> SUFFICES ASSUME NEW a \in Accounts PROVE Shares(a) <= Allowed(a) /\ Comments(a) <= Allowed(a)
    BY DEF Budget
  <2>1. /\ Count(exe[a].status = "pending") = 1 /\ Count(Due(exe[a])) = 1
    BY <1>2 DEF Count, Due
  <2>2. Count(Starting(job[a])) = 0 /\ Count(Commenting(job[a])) = 0
    BY <1>2, <1>3 DEF Count, Starting, Commenting
  <2>3. /\ Count(Composing("job", a)) = 0 /\ Count(Composing("orphan", a)) = 0
        /\ Count(Sending("job", a)) = 0 /\ Count(Sending("orphan", a)) = 0
    BY <1>2, <1>4 DEF Count, Composing, Sending, Slots
  <2>4. Count(Composed(a)) = 0
    BY <1>5 DEF Count, Composed, Own, Complete
  <2> QED BY <1>5, <1>6, <2>1, <2>2, <2>3, <2>4 DEF Shares, Comments, Allowed
<1>9. Held
  BY <1>2, <1>3, <1>4, JobAssumption DEF Held, Slots, Nobody
<1>10. OnScreen /\ Announced
  BY <1>2, <1>4 DEF OnScreen, Announced, Slots
<1>11. Attempts
  BY <1>2, <1>3, <1>5 DEF Attempts
<1> QED BY <1>7, <1>8, <1>9, <1>10, <1>11 DEF IInv, Undisturbed

LEMMA StepIInv == IInv /\ [Next]_vars => IInv'
<1> SUFFICES ASSUME IInv, [Next]_vars PROVE IInv'
  OBVIOUS
<1>1. CASE UNCHANGED vars
  BY <1>1 DEF vars, threadVars, Allowed, IInv, TInv, TypeOK, FlowTypeOK, PhoneTypeOK, Leased, Filed,
     Budget, Shares, Comments, Composing, Sending, Composed, Undisturbed, Held, OnScreen, Announced, Attempts, Quiet
<1>2. ASSUME NEW a \in Accounts, JobStep(a), copies' = copies, lost' = lost PROVE IInv'
  <2>1. CASE ReadResult(a)
    <3>1. TInv
      BY DEF IInv
    <3>2. rn["job"].result \in Results
      BY <3>1, SlotFacts DEF Slots, Runners
    <3> QED BY <1>2, <2>1, <3>2, ResultReadKeeps DEF ReadResult
  <2> QED BY <1>2, <2>1, ClaimKeeps, CooldownEndsKeeps, HoldKeeps, BackToPendingKeeps,
       OpenAccountKeeps, OpenedKeeps, OpenRefusedKeeps, ReadEventKeeps, FinishKeeps, SettleKeeps,
       StartCommentKeeps, FreeCommentKeeps, RecordCommentKeeps, LeaseExpiresKeeps
       DEF JobStep, HolderStep
<1>3. ASSUME NEW a \in Accounts, RunnerDies(a), copies' = copies, lost' = lost
      PROVE  IInv'
  <2>1. "none" \in Results
    BY DEF Results
  <2> QED BY <1>3, <2>1, ResultReadKeeps DEF RunnerDies
<1>4. ASSUME People, copies' = copies, lost' = lost PROVE IInv'
  <2>1. \A a \in Posters : a \in Accounts
    BY JobAssumption
  <2> QED BY <1>4, <2>1, GetReadyKeeps, RunAgainKeeps, RetryKeeps, CancelKeeps, GetReadyEndsKeeps,
       SwitchEndsKeeps, SwitchUserKeeps DEF People
<1>5. CASE Works /\ UNCHANGED threadVars
  <2>1. copies' = copies /\ lost' = lost
    BY <1>5 DEF threadVars
  <2> QED BY <1>2, <1>3, <1>4, <1>5, <2>1, RunnerKeeps, OrphanExitsKeeps DEF Works
<1>6. CASE Crash /\ copies' = {} /\ UNCHANGED lost
  BY <1>6, CrashKeeps
<1>7. CASE Threads
  BY <1>7, ReadsKeeps, SavesKeeps DEF Threads
<1> QED BY <1>1, <1>5, <1>6, <1>7 DEF Next

\* The inductive invariant.
THEOREM Inductive == Spec => []IInv
BY InitIInv, StepIInv, PTL DEF Spec

\* Every variable keeps its type, whatever crashes, is cancelled or asked for again.
THEOREM TypeCorrect == Spec => []TypeOK
<1>1. IInv => TypeOK
  BY DEF IInv, TInv
<1> QED BY <1>1, Inductive, PTL

\* However often the backend dies or a job is cancelled, whoever switches users, and even when
\* the queue's lease runs out before the post: an account's own draft is shared, and its comment
\* sent, at most once, and once more for each time somebody asked or a thread set its record back
\* (android_jobs.py, job.py, heartbeat_scheduler_leases).
THEOREM NothingTwice == Spec => []NothingTwiceUnasked
<1>1. IInv => NothingTwiceUnasked
  <2> SUFFICES ASSUME IInv, NEW a \in Accounts
               PROVE  fb[a].own <= Allowed(a) /\ fb[a].comments <= Allowed(a)
    BY DEF NothingTwiceUnasked
  <2>1. Shares(a) <= Allowed(a) /\ Comments(a) <= Allowed(a) /\ TInv
    BY DEF IInv, Budget
  <2>2. fb[a].own \in Nat /\ fb[a].comments \in Nat /\ Allowed(a) \in Nat
    BY <2>1, ScreenFacts, AllowedFacts
  <2>3. /\ Count(exe[a].status = "pending") \in Nat /\ Count(Starting(job[a])) \in Nat
        /\ Count(Composing("job", a)) \in Nat /\ Count(Composing("orphan", a)) \in Nat
        /\ Count(Composed(a)) \in Nat
        /\ Count(Due(exe[a])) \in Nat
        /\ Count(Commenting(job[a])) \in Nat
        /\ Count(Sending("job", a)) \in Nat /\ Count(Sending("orphan", a)) \in Nat
    BY DEF Count
  <2> QED BY <2>1, <2>2, <2>3 DEF Shares, Comments
<1> QED BY <1>1, Inductive, PTL

\* While no job was lost, no share or send lands anywhere but on the job's own account, over its
\* own media and, where the screen can show it, its own caption (phone_lock, the hold and the
\* runner's own order of steps).
THEOREM OwnPosts == Spec => []SharesOwnPost
<1>1. IInv => SharesOwnPost
  BY DEF IInv, Undisturbed, OnScreen, SharesOwnPost
<1> QED BY <1>1, Inductive, PTL

\* As long as no account waits past its lease before its post, "failed" means nothing was shared
\* unless a thread set the record back: the tap's event reaches the record before the tap
\* (on_event, finish).
THEOREM FailedNotShared == ASSUME ~Cooldown PROVE Spec => []FailedWasNotShared
<1>1. IInv => FailedWasNotShared
  BY DEF IInv, Undisturbed, Attempts, Quiet, FailedWasNotShared
<1> QED BY <1>1, Inductive, PTL
=============================================================================
