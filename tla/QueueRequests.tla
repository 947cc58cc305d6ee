----------------------------- MODULE QueueRequests -----------------------------
(***************************************************************************)
(* Requests that create, extend, claim and remove queue work, as they      *)
(* cross the idempotency middleware and the claim lock.                    *)
(*                                                                         *)
(* Every one of them is a read-modify-write of the whole queue file: load, *)
(* change the copy, save.  Async handlers, the dispatcher and the tasks    *)
(* run on the event loop and never interleave with each other between load *)
(* and save; plain handlers run in threads and interleave with everybody.  *)
(* Some take the claim lock, a file that ages and may then be taken over.  *)
(***************************************************************************)
EXTENDS Naturals

CONSTANTS
  Keys,         \* idempotency keys
  MaxCalls,     \* bound on requests
  MaxLapses,    \* bound, per key, on answers cut short, takeovers and forgotten rows
  MaxCrashes,   \* bound on backend crashes
  None

ASSUME RequestAssumption ==
  MaxCalls \in Nat \ {0} /\ {MaxLapses, MaxCrashes} \subseteq Nat /\ None \notin Keys \cup Nat

Calls == 1..MaxCalls
Backend == 0                         \* the dispatcher and the running tasks
Processes == Calls \cup {Backend}
Prepared == MaxCalls + 1             \* the batch a Read more preparation gives its ID to
Items == Calls \cup {Prepared}
Forms == {None, Prepared}            \* a new batch gets an ID of its own

VARIABLES queue, lock, row, call, made, lapses, crossed, shaken, crashes
vars == <<queue, lock, row, call, made, lapses, crossed, shaken, crashes>>
history == <<made, lapses, crashes>>

OnTheLoop == {"create", "append", "claim", "finish"}
UnderLock == {"append", "delete", "archive", "claim"}
Empty == [i \in Items |-> "none"]
Unused == [kind |-> "none", on |-> None, key |-> None, at |-> "idle", snap |-> Empty]
Refused == [Unused EXCEPT !.at = "over"]
NoLock == [by |-> None, old |-> FALSE]
NoRow == [state |-> "none", form |-> None]

Statuses == {"none", "pending", "running", "over"}
Kinds == OnTheLoop \cup UnderLock \cup {"drop", "none"}
Places == {"idle", "in", "taking", "read", "answer", "over"}
Records == [kind : Kinds, on : Items \cup {None}, key : Keys \cup {None}, at : Places,
            snap : [Items -> Statuses]]
TypeOK ==
  /\ queue \in [Items -> Statuses] /\ lock \in [by : Processes \cup {None}, old : BOOLEAN]
  /\ row \in [Keys -> [state : {"none", "pending", "complete"}, form : Forms]]
  /\ call \in [Processes -> Records] /\ made \in [Keys -> Nat] /\ lapses \in [Keys -> 0..MaxLapses]
  /\ crossed \subseteq Processes /\ shaken \in BOOLEAN /\ crashes \in 0..MaxCrashes

Init ==
  /\ queue = Empty /\ lock = NoLock /\ row = [k \in Keys |-> NoRow]
  /\ call = [p \in Processes |-> Unused]
  /\ made = [k \in Keys |-> 0] /\ lapses = [k \in Keys |-> 0]
  /\ crossed = {} /\ shaken = FALSE /\ crashes = 0

Inside(p) == call[p].at = "read" /\ call[p].kind \in UnderLock
Busy(p) == call[p].at \in {"taking", "read"}
LoopFree == ~\E p \in Processes : call[p].kind \in OnTheLoop /\ Busy(p)
GoTo(p, place) == call' = [call EXCEPT ![p].at = place]
Settled(p) ==
  IF p = Backend THEN Unused
  ELSE IF call[p].kind = "append" THEN [call[p] EXCEPT !.at = "over", !.snap = Empty] ELSE Refused
Done(p) == call' = [call EXCEPT ![p] = Settled(p)]
Asked(kind, on, key) == [Unused EXCEPT !.kind = kind, !.on = on, !.key = key, !.at = "in"]
NextCall(c) == call[c] = Unused /\ \A d \in Calls : d < c => call[d] # Unused
Lapse(k) == lapses[k] < MaxLapses /\ lapses' = [lapses EXCEPT ![k] = @ + 1]

Home(i) == IF i \in Calls /\ call[i].kind = "append" THEN call[i].on ELSE i
Batch(b, q) == {i \in Items : Home(i) = b /\ q[i] # "none"}
IdOf(c) == IF call[c].on = Prepared THEN Prepared ELSE c

-----------------------------------------------------------------------------
(* The idempotency store *)

\* claim: a row a day old is forgotten, and one of the same request that has been pending for ten
\* minutes is taken over.  Ages are not kept: any row may turn out to be that old.
\* Mutant: a pending row is not looked at.
IgnoresPending(k, form) ==
  IF row[k] = NoRow \/ row[k] = [state |-> "pending", form |-> form] THEN UNCHANGED lapses ELSE Lapse(k)
Claimed(k, form) ==
  IF row[k] = NoRow THEN UNCHANGED lapses ELSE Lapse(k)
Post(c, k, form) ==
  /\ NextCall(c) /\ LoopFree /\ Claimed(k, form)
  /\ row' = [row EXCEPT ![k] = [state |-> "pending", form |-> form]]
  /\ call' = [call EXCEPT ![c] = Asked("create", form, k)]
  /\ UNCHANGED <<queue, lock, made, crossed, shaken, crashes>>
\* The key was used for another request, its request is still running, or its answer is replayed.
PostAnswered(c, k, form) ==
  /\ NextCall(c) /\ LoopFree /\ row[k] # NoRow
  /\ call' = [call EXCEPT ![c] = Refused]
  /\ UNCHANGED <<queue, lock, row, history, crossed, shaken>>
PostWithoutKey(c) ==
  /\ NextCall(c) /\ LoopFree /\ call' = [call EXCEPT ![c] = Asked("create", None, None)]
  /\ UNCHANGED <<queue, lock, row, history, crossed, shaken>>

\* complete, and abandon: each finds its row by the key and the request, not by the attempt.
Mine(r, c) == r # NoRow /\ r.form = call[c].on
Complete(c) ==
  LET k == call[c].key IN
  IF k = None THEN UNCHANGED row
  ELSE row' = [row EXCEPT ![k] = IF Mine(@, c) THEN [@ EXCEPT !.state = "complete"] ELSE @]
Abandon(c) ==
  LET k == call[c].key IN
  IF k = None THEN UNCHANGED row
  ELSE row' = [row EXCEPT ![k] = IF Mine(@, c) /\ @.state # "complete" THEN NoRow ELSE @]
Answer(c) ==
  /\ call[c].at = "answer" /\ LoopFree /\ Complete(c) /\ Done(c)
  /\ UNCHANGED <<queue, lock, history, crossed, shaken>>
\* create_batch refuses what it validates; the refusal is stored like any answer below 500.
Refuse(c) ==
  /\ call[c].at = "in" /\ LoopFree /\ Complete(c) /\ Done(c)
  /\ UNCHANGED <<queue, lock, history, crossed, shaken>>
\* The work is saved and the response is not delivered: the row goes.
CutShort(c) ==
  /\ call[c].at = "answer" /\ call[c].key # None /\ LoopFree /\ Lapse(call[c].key)
  /\ Abandon(c) /\ Done(c) /\ UNCHANGED <<queue, lock, made, crossed, shaken, crashes>>

-----------------------------------------------------------------------------
(* with_queue_claim_lock *)

Read(p, asked) ==
  /\ call' = [call EXCEPT ![p] = [asked EXCEPT !.at = "read", !.snap = queue]] /\ crossed' = crossed \ {p}
  /\ UNCHANGED <<queue, row, history>>
Create(p, asked) == lock' = [by |-> p, old |-> FALSE] /\ Read(p, asked)
\* The file is created and the callback loads the queue; or the file there is old and will be
\* removed; or the request ends with queue_claim_in_progress.
\* Mutants: an old lock is never taken over; the file need not be new.
NotExclusive(p, asked) == Create(p, asked) /\ UNCHANGED shaken
TakeFree(p, asked) == lock = NoLock /\ Create(p, asked) /\ UNCHANGED shaken
Take(p, asked) ==
  /\ UNCHANGED shaken
  /\ \/ lock = NoLock /\ Create(p, asked)
     \/ /\ lock # NoLock /\ UNCHANGED <<queue, lock, row, history, crossed>>
        /\ call' = [call EXCEPT ![p] = IF lock.old THEN [asked EXCEPT !.at = "taking"] ELSE Settled(p)]
\* The age was read before: the file removed now may be a new holder's.
TakeOver(p) ==
  /\ call[p].at = "taking" /\ Create(p, call[p])
  /\ shaken' = (shaken \/ (lock # NoLock /\ Inside(lock.by)))
\* finally: whichever file is there is removed.
Unlock(p) == lock' = NoLock /\ Done(p) /\ shaken' = (shaken /\ \E q \in Processes \ {p} : Inside(q))
Age ==
  /\ lock # NoLock /\ ~lock.old /\ lock' = [lock EXCEPT !.old = TRUE]
  /\ UNCHANGED <<queue, row, call, history, crossed, shaken>>

-----------------------------------------------------------------------------
(* The handlers *)

With(q, S, status) == [i \in Items |-> IF i \in S THEN status ELSE q[i]]
\* What a request makes of the copy it read; the copy unchanged when it is refused.
Created(p, q) == IF q[IdOf(p)] = "none" THEN With(q, {IdOf(p)}, "pending") ELSE q
Appended(p, b, q) == IF \E i \in Batch(b, q) : q[i] \in {"pending", "running"} THEN With(q, {p}, "pending") ELSE q
Removed(b, q) == With(q, Batch(b, q), "none")
Dropped(i, q) == IF q[i] = "running" THEN q ELSE With(q, {i}, "none")
Archived(q) == With(q, {i \in Items : \A j \in Batch(Home(i), q) : q[j] = "over"}, "none")
Started(i, q) == IF q[i] = "pending" THEN With(q, {i}, "running") ELSE q
Finished(i, q) == IF q[i] = "running" THEN With(q, {i}, "over") ELSE q
Changed(p) ==
  LET q == call[p].snap
      on == call[p].on
      kind == call[p].kind
  IN CASE kind = "create" -> Created(p, q)
       [] kind = "append" -> Appended(p, on, q)
       [] kind = "delete" -> Removed(on, q)
       [] kind = "drop" -> Dropped(on, q)
       [] kind = "archive" -> Archived(q)
       [] kind = "claim" -> Started(on, q)
       [] OTHER -> Finished(on, q)

Load(p, asked) == Read(p, asked) /\ UNCHANGED <<lock, shaken>>
Enter(p, kind, on) ==
  /\ kind \in OnTheLoop => LoopFree
  /\ IF kind \in UnderLock THEN Take(p, Asked(kind, on, None)) ELSE Load(p, Asked(kind, on, None))
\* Requests for an item or a batch there is; the monthly archive; the dispatcher and the tasks.
AppendTo(c, b) == NextCall(c) /\ Batch(b, queue) # {} /\ Enter(c, "append", b)
Delete(c, b) == NextCall(c) /\ Batch(b, queue) # {} /\ Enter(c, "delete", b)
DeleteExecution(c, i) == NextCall(c) /\ queue[i] # "none" /\ Enter(c, "drop", i)
Archive(c) == NextCall(c) /\ queue # Empty /\ Enter(c, "archive", None)
Claim(i) == call[Backend] = Unused /\ queue[i] = "pending" /\ Enter(Backend, "claim", i)
Finish(i) == call[Backend] = Unused /\ queue[i] = "running" /\ Enter(Backend, "finish", i)
CreateBatch(c) == call[c].at = "in" /\ LoopFree /\ Load(c, call[c])

After(p) == CASE call[p].kind \in UnderLock -> Unlock(p)
              [] call[p].kind = "create" -> GoTo(p, "answer") /\ UNCHANGED <<lock, shaken>>
              [] OTHER -> Done(p) /\ UNCHANGED <<lock, shaken>>
Save(p) ==
  /\ call[p].at = "read" /\ After(p) /\ UNCHANGED <<row, lapses, crashes>>
  /\ \/ Changed(p) = call[p].snap /\ UNCHANGED <<queue, made, crossed>>
     \/ /\ Changed(p) # call[p].snap /\ queue' = Changed(p)
        /\ made' = IF call[p].key = None THEN made ELSE [made EXCEPT ![call[p].key] = @ + 1]
        /\ crossed' = IF call[p].kind \in UnderLock THEN crossed ELSE {q \in Processes : Inside(q)}
\* The file cannot be written: HTTP 500, the claim is dropped and the lock released.
SaveFails(p) ==
  /\ call[p].at = "read" /\ p \in Calls /\ Changed(p) # call[p].snap
  /\ Abandon(p) /\ IF call[p].kind \in UnderLock THEN Unlock(p) ELSE Done(p) /\ UNCHANGED <<lock, shaken>>
  /\ UNCHANGED <<queue, history, crossed>>

Crash ==
  /\ crashes < MaxCrashes /\ crashes' = crashes + 1
  /\ call' = [p \in Processes |-> IF call[p] = Unused THEN Unused ELSE Settled(p)]
  /\ crossed' = {} /\ shaken' = FALSE /\ UNCHANGED <<queue, lock, row, made, lapses>>

HandlerStep(p) == TakeOver(p) \/ Save(p)
Progress ==
  \/ \E i \in Items : Claim(i) \/ Finish(i)
  \/ \E p \in Processes : HandlerStep(p)
  \/ \E c \in Calls : CreateBatch(c) \/ Answer(c)
Request(c) ==
  \/ PostWithoutKey(c)
  \/ \E form \in Forms, k \in Keys : Post(c, k, form) \/ PostAnswered(c, k, form)
  \/ \E b \in Items : AppendTo(c, b) \/ Delete(c, b) \/ DeleteExecution(c, b)
  \/ Archive(c) \/ Refuse(c) \/ CutShort(c) \/ SaveFails(c)
Next == Progress \/ (\E c \in Calls : Request(c)) \/ Age \/ Crash

\* Handlers are straight code, the dispatcher runs on a timer and files grow older.
Fairness == WF_vars(Progress) /\ WF_vars(Age)
Spec == Init /\ [][Next]_vars /\ Fairness

-----------------------------------------------------------------------------
(* Properties *)

\* idempotency.py: a key gives its work once, and once more only for each time its answer was cut
\* short after the save, its pending row was ten minutes old, or its row a day.
WorkOncePerKey == \A k \in Keys : made[k] <= 1 + lapses[k]

\* with_queue_claim_lock: between the load and the save of a holder nobody else changed the queue,
\* unless a writer without the lock did or a living holder's file was taken over.
LockProtects ==
  \A p \in Processes :
    call[p].at = "read" /\ call[p].kind \in UnderLock /\ p \notin crossed /\ ~shaken => call[p].snap = queue

\* A lock file whose holder is gone does not keep pending work waiting for ever.
LeftBehind == lock # NoLock /\ ~Inside(lock.by)
LockIsRecovered ==
  LeftBehind /\ (\E i \in Items : queue[i] = "pending") ~> ~LeftBehind \/ \A i \in Items : queue[i] # "pending"
=============================================================================
