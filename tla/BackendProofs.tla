----------------------------- MODULE BackendProofs -----------------------------
(***************************************************************************)
(* Proofs about three parts of the backend that share no state: the        *)
(* requests to the queue (QueueRequests), automatic warming (AutoWarming)  *)
(* and the reel renderer (ReelCreator), each for any values of its         *)
(* constants.  Names without a prefix (Spec, IInv, Inductive, ...) are     *)
(* those of the requests.                                                  *)
(***************************************************************************)
EXTENDS QueueRequests, AutoWarming, ReelCreator, FiniteSetTheorems, TLAPS

-----------------------------------------------------------------------------
(* Requests to the queue: the inductive invariant *)

\* Only creations come in with a key, and they never wait for the lock.
Fits(p, r) ==
  /\ r.at \in {"in", "answer"} => r.kind = "create"
  /\ r.key # None => p \in Calls /\ r.kind = "create" /\ r.at # "taking"
CallsFit == \A p \in Processes : Fits(p, call[p])

\* Unless a living holder's file was taken over, the file names whoever is inside, and what that
\* process read is still the queue unless a writer without the lock saved since.
HoldersHoldTheLock == shaken \/ \A p \in Processes : Inside(p) => lock.by = p
CopiesAreCurrent == shaken \/ \A p \in Processes : Inside(p) /\ p \notin crossed => call[p].snap = queue

\* Work made with a key, and requests that may still make some, are paid for by the row and by the
\* times the row was given up.
Carries(r, k) == r.key = k /\ r.at \in {"in", "read"}
InFlight(k) == {c \in Calls : Carries(call[c], k)}
Paid(k) == lapses[k] + (IF row[k] = NoRow THEN 0 ELSE 1)
WorkIsPaid == \A k \in Keys : made[k] + Cardinality(InFlight(k)) <= Paid(k)

LockInv == CallsFit /\ HoldersHoldTheLock /\ CopiesAreCurrent
IInv == TypeOK /\ LockInv /\ WorkIsPaid

USE RequestAssumption DEF Processes, Backend, Prepared, Items, Calls, history

-----------------------------------------------------------------------------
(* Steps of one process *)

\* Most steps give one process a new record.
Moves(p, r) == call' = [call EXCEPT ![p] = r]

LEMMA Moved ==
  ASSUME TypeOK, CallsFit, NEW p \in Processes, NEW r \in Records, Fits(p, r), Moves(p, r)
  PROVE  /\ call' \in [Processes -> Records] /\ call'[p] = r
         /\ \A q \in Processes \ {p} : call'[q] = call[q]
         /\ CallsFit'
<1>1. call' \in [Processes -> Records] /\ call'[p] = r /\ \A q \in Processes \ {p} : call'[q] = call[q]
  BY DEF TypeOK, Moves
<1>2. \A q \in Processes : Fits(q, call'[q])
  BY <1>1 DEF CallsFit
<1> QED BY <1>1, <1>2 DEF CallsFit, Fits

\* A process that is not inside afterwards, and saves nothing, disturbs nobody who is.
LEMMA StaysOutside ==
  ASSUME TypeOK, LockInv, NEW p \in Processes, NEW r \in Records, Fits(p, r), Moves(p, r),
         ~(r.at = "read" /\ r.kind \in UnderLock), UNCHANGED <<queue, lock, shaken>>, crossed \ {p} \subseteq crossed'
  PROVE  LockInv'
<1>1. /\ call'[p] = r /\ \A q \in Processes \ {p} : call'[q] = call[q]
      /\ CallsFit'
  BY Moved DEF LockInv
<1>2. \A q \in Processes : Inside(q)' => q # p /\ Inside(q)
  BY <1>1 DEF Inside
<1> QED BY <1>1, <1>2 DEF LockInv, HoldersHoldTheLock, CopiesAreCurrent

LEMMA FlightCount ==
  ASSUME NEW k
  PROVE  IsFiniteSet(InFlight(k)) /\ Cardinality(InFlight(k)) \in Nat
<1>1. IsFiniteSet(Calls)
  BY FS_Interval
<1>2. IsFiniteSet(InFlight(k))
  BY <1>1, FS_Subset DEF InFlight
<1> QED BY <1>2, FS_CardinalityType

\* The requests in flight with a key, when one process moves.
LEMMA Flights ==
  ASSUME TypeOK, CallsFit, NEW p \in Processes, NEW r \in Records, Fits(p, r), Moves(p, r), NEW k \in Keys
  PROVE  /\ Cardinality(InFlight(k)) \in Nat /\ Cardinality(InFlight(k)') \in Nat
         /\ (Carries(r, k) <=> Carries(call[p], k)) => Cardinality(InFlight(k)') = Cardinality(InFlight(k))
         /\ Carries(call[p], k) /\ ~Carries(r, k) => Cardinality(InFlight(k)') = Cardinality(InFlight(k)) - 1
         /\ Carries(r, k) /\ ~Carries(call[p], k) => Cardinality(InFlight(k)') = Cardinality(InFlight(k)) + 1
<1>1. IsFiniteSet(InFlight(k))
  BY FlightCount
<1>2. Cardinality(InFlight(k)) \in Nat
  BY FlightCount
<1>3. /\ call'[p] = r /\ \A q \in Processes \ {p} : call'[q] = call[q]
      /\ call[p] \in Records /\ Fits(p, call[p])
  BY Moved DEF TypeOK, CallsFit
<1>4. \A q \in Processes \ {p} : q \in InFlight(k)' <=> q \in InFlight(k)
  BY <1>3 DEF InFlight, Carries
<1>5. /\ p \in InFlight(k)' <=> Carries(r, k)
      /\ p \in InFlight(k) <=> Carries(call[p], k)
  BY <1>3 DEF InFlight, Carries, Fits
<1>6. InFlight(k) \subseteq Processes /\ InFlight(k)' \subseteq Processes
  BY DEF InFlight
<1>7. CASE Carries(r, k) /\ ~Carries(call[p], k)
  <2>1. InFlight(k)' = InFlight(k) \cup {p} /\ p \notin InFlight(k)
    BY <1>4, <1>5, <1>6, <1>7
  <2> QED BY <1>1, <1>2, <1>7, <2>1, FS_AddElement, SMTT(30)
<1>8. CASE ~Carries(r, k) /\ Carries(call[p], k)
  <2>1. InFlight(k)' = InFlight(k) \ {p} /\ p \in InFlight(k)
    BY <1>4, <1>5, <1>6, <1>8
  <2>2. Cardinality(InFlight(k) \ {p}) = Cardinality(InFlight(k)) - 1 /\ Cardinality(InFlight(k) \ {p}) \in Nat
    BY <1>1, <2>1, FS_RemoveElement, FS_CardinalityType
  <2> QED BY <1>2, <1>8, <2>1, <2>2
<1>9. CASE Carries(r, k) <=> Carries(call[p], k)
  <2>1. InFlight(k)' = InFlight(k)
    BY <1>4, <1>5, <1>6, <1>9
  <2> QED BY <1>2, <1>9, <2>1
<1> QED BY <1>7, <1>8, <1>9

\* A move that puts nothing new in flight, makes nothing and gives no row up costs nothing.
LEMMA CostsNothing ==
  ASSUME TypeOK, CallsFit, WorkIsPaid, NEW p \in Processes, NEW r \in Records, Fits(p, r), Moves(p, r),
         \A k \in Keys : Carries(r, k) => Carries(call[p], k),
         \A k \in Keys : made'[k] = made[k] /\ Paid(k)' = Paid(k)
  PROVE  WorkIsPaid'
<1> SUFFICES ASSUME NEW k \in Keys PROVE (made[k] + Cardinality(InFlight(k)) <= Paid(k))'
  BY DEF WorkIsPaid
<1>1. made[k] \in Nat /\ made[k] + Cardinality(InFlight(k)) <= Paid(k) /\ Paid(k) \in Nat
  BY DEF WorkIsPaid, TypeOK, Paid
<1>2. Cardinality(InFlight(k)') \in Nat /\ Cardinality(InFlight(k)) \in Nat /\ Cardinality(InFlight(k)') <= Cardinality(InFlight(k))
  BY Flights
<1> QED BY <1>1, <1>2
-----------------------------------------------------------------------------
(* What is asked, and what is over *)

LEMMA AskedFits ==
  ASSUME NEW p \in Processes, NEW kind \in Kinds, NEW on \in Items \cup {None}, NEW key \in Keys \cup {None},
         key = None \/ (kind = "create" /\ p \in Calls)
  PROVE  LET r == Asked(kind, on, key) IN
         /\ r \in Records /\ r.kind = kind /\ r.key = key /\ r.at = "in"
         /\ kind = "create" => Fits(p, r)
BY DEF Asked, Unused, Records, Empty, Statuses, Kinds, Places, Fits

LEMMA SettledFits ==
  ASSUME TypeOK, CallsFit, NEW p \in Processes
  PROVE  Settled(p) \in Records /\ Settled(p).at \in {"idle", "over"} /\ Fits(p, Settled(p))
<1>1. call[p] \in Records /\ Fits(p, call[p])
  BY DEF TypeOK, CallsFit
<1>2. Unused \in Records /\ Unused.at = "idle" /\ Fits(p, Unused)
  BY DEF Unused, Records, Empty, Statuses, Kinds, Places, Fits
<1>3. Refused \in Records /\ Refused.at = "over" /\ Fits(p, Refused)
  BY <1>2 DEF Refused, Unused, Records, Places, Fits
<1>4. CASE call[p].kind = "append"
  <2> DEFINE r == [call[p] EXCEPT !.at = "over", !.snap = Empty]
  <2>1. r \in Records /\ r.at = "over" /\ r.key = call[p].key /\ r.kind = "append"
    BY <1>1, <1>4 DEF Records, Empty, Statuses, Places
  <2>2. Fits(p, r)
    BY <1>1, <1>4, <2>1 DEF Fits
  <2> HIDE DEF r
  <2>3. Settled(p) \in {Unused, r}
    BY <1>4 DEF Settled, r
  <2> QED BY <1>2, <2>1, <2>2, <2>3
<1>5. CASE call[p].kind # "append"
  BY <1>2, <1>3, <1>5 DEF Settled
<1> QED BY <1>4, <1>5

\* The process is done, and left neither the lock nor the queue behind.
LEMMA DoneStep ==
  ASSUME IInv, NEW p \in Processes, Done(p), UNCHANGED <<queue, lock, crossed, shaken>>
  PROVE  /\ call' \in [Processes -> Records] /\ LockInv'
         /\ \A k \in Keys : /\ Cardinality(InFlight(k)) \in Nat /\ Cardinality(InFlight(k)') \in Nat
                            /\ Cardinality(InFlight(k)') =
                                 Cardinality(InFlight(k)) - (IF Carries(call[p], k) THEN 1 ELSE 0)
<1> DEFINE r == Settled(p)
<1>1. r \in Records /\ Fits(p, r) /\ r.at \in {"idle", "over"} /\ Moves(p, r)
  BY SettledFits DEF Done, Moves, IInv, LockInv
<1> HIDE DEF r
<1>2. call' \in [Processes -> Records]
  BY <1>1, Moved DEF IInv, LockInv
<1>3. LockInv'
  BY <1>1, StaysOutside DEF IInv
<1>4. \A k \in Keys : ~Carries(r, k)
  BY <1>1 DEF Carries
<1>5. ASSUME NEW k \in Keys
      PROVE  /\ Cardinality(InFlight(k)) \in Nat /\ Cardinality(InFlight(k)') \in Nat
             /\ Cardinality(InFlight(k)') =
                  Cardinality(InFlight(k)) - (IF Carries(call[p], k) THEN 1 ELSE 0)
  BY <1>1, <1>4, Flights DEF IInv, LockInv
<1> QED BY <1>2, <1>3, <1>5

-----------------------------------------------------------------------------
(* The idempotency store *)

LEMMA PostStep ==
  ASSUME IInv, NEW c \in Calls, NEW k \in Keys, NEW form \in Forms, Post(c, k, form)
  PROVE  IInv'
<1> USE DEF IInv, LockInv
<1> DEFINE r == Asked("create", form, k)
<1>1. r \in Records /\ Fits(c, r) /\ r.at = "in" /\ r.key = k /\ Moves(c, r) /\ c \in Processes
  <2>1. "create" \in Kinds /\ form \in Items \cup {None} /\ k \in Keys \cup {None} /\ k # None /\ c \in Processes
    BY DEF Kinds, OnTheLoop, Forms
  <2>2. r \in Records /\ Fits(c, r) /\ r.at = "in" /\ r.key = k
    BY <2>1, AskedFits
  <2>3. Moves(c, r)
    BY DEF Post, Moves
  <2> QED BY <2>1, <2>2, <2>3
<1> HIDE DEF r
<1>2. row'[k] # NoRow /\ row' \in [Keys -> [state : {"none", "pending", "complete"}, form : Forms]]
      /\ \A l \in Keys \ {k} : row'[l] = row[l]
  BY DEF Post, TypeOK, NoRow
<1>3. lapses' \in [Keys -> 0..MaxLapses] /\ (\A l \in Keys \ {k} : lapses'[l] = lapses[l])
      /\ lapses'[k] = lapses[k] + (IF row[k] = NoRow THEN 0 ELSE 1)
  <2>1. lapses \in [Keys -> 0..MaxLapses] /\ Claimed(k, form)
    BY DEF Post, TypeOK
  <2>2. CASE row[k] = NoRow
    BY <2>1, <2>2 DEF Claimed
  <2>3. CASE row[k] # NoRow
    BY <2>1, <2>3 DEF Claimed, Lapse
  <2> QED BY <2>2, <2>3
<1>4. TypeOK'
  BY <1>1, <1>2, <1>3, Moved DEF Post, TypeOK
<1>5. LockInv'
  BY <1>1, StaysOutside DEF Post
<1>6. (\A l \in Keys : ~Carries(call[c], l)) /\ \A l \in Keys : Carries(r, l) <=> l = k
  <2>1. call[c].at = "idle"
    BY DEF Post, NextCall, Unused
  <2> QED BY <1>1, <2>1 DEF Carries
<1>7. ASSUME NEW l \in Keys PROVE (made[l] + Cardinality(InFlight(l)) <= Paid(l))'
  <2>1. /\ made[l] \in Nat /\ made'[l] = made[l] /\ lapses[l] \in Nat
        /\ made[l] + Cardinality(InFlight(l)) <= Paid(l)
    BY DEF Post, TypeOK, WorkIsPaid
  <2>2. CASE l = k
    <3>1. Cardinality(InFlight(k)') = Cardinality(InFlight(k)) + 1 /\ Cardinality(InFlight(k)) \in Nat
      BY <1>1, <1>6, Flights
    <3>2. Paid(k)' = Paid(k) + 1 /\ Paid(k) \in Nat
      BY <1>2, <1>3, <2>1, <2>2 DEF Paid
    <3> QED BY <2>1, <2>2, <3>1, <3>2
  <2>3. CASE l # k
    <3>1. /\ Cardinality(InFlight(l)') \in Nat /\ Cardinality(InFlight(l)) \in Nat
          /\ Cardinality(InFlight(l)') = Cardinality(InFlight(l))
      <4>1. Carries(r, l) <=> Carries(call[c], l)
        BY <1>6, <2>3
      <4> QED BY <1>1, <4>1, Flights
    <3>2. Paid(l)' = Paid(l)
      BY <1>2, <1>3, <2>3 DEF Paid
    <3> QED BY <2>1, <3>1, <3>2
  <2> QED BY <2>2, <2>3
<1> QED BY <1>4, <1>5, <1>7 DEF WorkIsPaid

\* Answers that leave the rows as they were, and creations without a key.
LEMMA UnkeyedStep ==
  ASSUME IInv, NEW c \in Calls,
         PostWithoutKey(c) \/ \E k \in Keys, form \in Forms : PostAnswered(c, k, form)
  PROVE  IInv'
<1> USE DEF IInv, LockInv
<1> DEFINE a == Asked("create", None, None)
<1>1. PICK r \in {Refused, a} : Moves(c, r)
  BY DEF PostWithoutKey, PostAnswered, Moves
<1>2. /\ Refused \in Records /\ Fits(c, Refused) /\ Refused.key = None
      /\ Refused.at # "read"
  BY DEF Refused, Unused, Records, Empty, Statuses, Kinds, Places, Fits
<1>3. a \in Records /\ Fits(c, a) /\ a.key = None /\ a.at # "read"
  BY DEF Asked, Unused, Records, Empty, Statuses, Kinds, OnTheLoop, Places, Fits
<1>4. r \in Records /\ Fits(c, r) /\ r.key = None /\ r.at # "read" /\ c \in Processes
  BY <1>1, <1>2, <1>3
<1>5. UNCHANGED <<queue, lock, row, history, crossed, shaken>>
  BY DEF PostWithoutKey, PostAnswered
<1>6. TypeOK'
  BY <1>1, <1>4, <1>5, Moved DEF TypeOK
<1>7. LockInv'
  BY <1>1, <1>4, <1>5, StaysOutside
<1>8. WorkIsPaid'
  <2>1. \A k \in Keys : ~Carries(r, k) /\ made'[k] = made[k] /\ Paid(k)' = Paid(k)
    BY <1>4, <1>5 DEF Carries, Paid
  <2> QED BY <1>1, <1>4, <2>1, CostsNothing
<1> QED BY <1>6, <1>7, <1>8

\* Completing keeps the row there is; abandoning may remove it.
LEMMA RowsAfter ==
  ASSUME TypeOK, NEW c \in Calls
  PROVE  /\ Complete(c) \/ Abandon(c) => row' \in [Keys -> [state : {"none", "pending", "complete"}, form : Forms]]
         /\ Complete(c) => \A k \in Keys : row'[k] = NoRow <=> row[k] = NoRow
         /\ Abandon(c) => \A k \in Keys : row'[k] = row[k] \/ (k = call[c].key /\ row[k] # NoRow)
<1>1. row \in [Keys -> [state : {"none", "pending", "complete"}, form : Forms]] /\ call[c].key \in Keys \cup {None}
  BY DEF TypeOK, Records
<1>2. NoRow \in [state : {"none", "pending", "complete"}, form : Forms] /\ NoRow.state # "complete"
  BY DEF NoRow, Forms
<1>3. \A x \in [state : {"none", "pending", "complete"}, form : Forms] :
        LET y == [x EXCEPT !.state = "complete"] IN
        y \in [state : {"none", "pending", "complete"}, form : Forms] /\ y.state = "complete" /\ y # NoRow
  BY DEF NoRow
<1>4. ASSUME Complete(c)
      PROVE  /\ row' \in [Keys -> [state : {"none", "pending", "complete"}, form : Forms]]
             /\ \A k \in Keys : row'[k] = NoRow <=> row[k] = NoRow
  <2> DEFINE k == call[c].key
             y == [row[k] EXCEPT !.state = "complete"]
  <2>1. k = None => row' = row
    BY <1>4 DEF Complete
  <2>2. CASE k \in Keys /\ Mine(row[k], c)
    <3>1. row' = [row EXCEPT ![k] = y]
      BY <1>1, <1>4, <2>2 DEF Complete
    <3>2. y \in [state : {"none", "pending", "complete"}, form : Forms] /\ y # NoRow /\ row[k] # NoRow
      BY <1>1, <1>3, <2>2 DEF Mine
    <3> HIDE DEF y
    <3> QED BY <1>1, <2>2, <3>1, <3>2
  <2>3. CASE k \in Keys /\ ~Mine(row[k], c)
    <3>1. row' = [row EXCEPT ![k] = row[k]]
      BY <1>1, <1>4, <2>3 DEF Complete
    <3> QED BY <1>1, <2>3, <3>1
  <2> QED BY <1>1, <2>1, <2>2, <2>3
<1>5. ASSUME Abandon(c)
      PROVE  /\ row' \in [Keys -> [state : {"none", "pending", "complete"}, form : Forms]]
             /\ \A k \in Keys : row'[k] = row[k] \/ (k = call[c].key /\ row[k] # NoRow)
  <2> DEFINE k == call[c].key
  <2> HIDE DEF k
  <2>1. k \in Keys \cup {None} /\ (k = None => row' = row)
    BY <1>1, <1>5 DEF Abandon, k
  <2>2. CASE k \in Keys /\ Mine(row[k], c) /\ row[k].state # "complete"
    <3>1. row' = [row EXCEPT ![k] = NoRow] /\ row[k] # NoRow
      <4>1. k # None
        BY <2>2
      <4> QED BY <1>5, <2>2, <4>1 DEF Abandon, Mine, k
    <3> QED BY <1>1, <1>2, <2>2, <3>1 DEF k
  <2>3. CASE k \in Keys /\ ~(Mine(row[k], c) /\ row[k].state # "complete")
    <3>1. row' = [row EXCEPT ![k] = row[k]]
      <4>1. k # None
        BY <2>3
      <4> QED BY <1>5, <2>3, <4>1 DEF Abandon, k
    <3> QED BY <1>1, <2>3, <3>1
  <2> QED BY <1>1, <2>1, <2>2, <2>3
<1> QED BY <1>4, <1>5

LEMMA AnswerStep ==
  ASSUME IInv, NEW c \in Calls, Answer(c) \/ Refuse(c) \/ CutShort(c)
  PROVE  IInv'
<1> USE DEF IInv
<1>1. Done(c) /\ UNCHANGED <<queue, lock, made, crossed, shaken, crashes>> /\ c \in Processes
  BY DEF Answer, Refuse, CutShort
<1>2. /\ call' \in [Processes -> Records] /\ LockInv'
      /\ \A k \in Keys : Cardinality(InFlight(k)) \in Nat /\ Cardinality(InFlight(k)') \in Nat
                         /\ Cardinality(InFlight(k)') <= Cardinality(InFlight(k))
  BY <1>1, DoneStep
<1>3. CASE Complete(c) /\ UNCHANGED lapses
  <2>1. TypeOK'
    BY <1>1, <1>2, <1>3, RowsAfter DEF TypeOK
  <2>2. ASSUME NEW k \in Keys PROVE (made[k] + Cardinality(InFlight(k)) <= Paid(k))'
    <3>1. Paid(k)' = Paid(k) /\ made'[k] = made[k] /\ made[k] \in Nat /\ Paid(k) \in Nat
      BY <1>1, <1>3, RowsAfter DEF Paid, TypeOK
    <3>2. made[k] + Cardinality(InFlight(k)) <= Paid(k)
      BY DEF WorkIsPaid
    <3> QED BY <1>2, <3>1, <3>2
  <2> QED BY <1>2, <2>1, <2>2 DEF WorkIsPaid
<1>4. CASE CutShort(c)
  <2>1. call[c].key \in Keys /\ Lapse(call[c].key) /\ Abandon(c)
    BY <1>4 DEF CutShort, TypeOK, Records
  <2>2. lapses' \in [Keys -> 0..MaxLapses] /\ lapses'[call[c].key] = lapses[call[c].key] + 1
        /\ \A l \in Keys \ {call[c].key} : lapses'[l] = lapses[l]
    BY <2>1 DEF Lapse, TypeOK
  <2>3. TypeOK'
    BY <1>1, <1>2, <2>1, <2>2, RowsAfter DEF TypeOK
  <2>4. ASSUME NEW k \in Keys PROVE (made[k] + Cardinality(InFlight(k)) <= Paid(k))'
    <3>1. row'[k] = row[k] \/ (k = call[c].key /\ row[k] # NoRow)
      BY <2>1, RowsAfter
    <3>2. lapses[k] \in Nat /\ made[k] \in Nat /\ made'[k] = made[k]
      BY <1>1 DEF TypeOK
    <3>3. Paid(k)' \in Nat /\ Paid(k) \in Nat /\ Paid(k)' >= Paid(k)
      BY <2>2, <3>1, <3>2 DEF Paid
    <3>4. made[k] + Cardinality(InFlight(k)) <= Paid(k)
      BY DEF WorkIsPaid
    <3> QED BY <1>2, <3>2, <3>3, <3>4
  <2> QED BY <1>2, <2>3, <2>4 DEF WorkIsPaid
<1> QED BY <1>3, <1>4 DEF Answer, Refuse, history

-----------------------------------------------------------------------------
(* The lock *)

\* The process has loaded the queue.
LEMMA ReadFits ==
  ASSUME TypeOK, NEW p \in Processes, NEW r \in Records, r.key = None \/ Fits(p, r)
  PROVE  LET s == [r EXCEPT !.at = "read", !.snap = queue] IN
         /\ s \in Records /\ s.kind = r.kind /\ s.key = r.key /\ s.at = "read" /\ s.snap = queue
         /\ Fits(p, s)
<1>1. queue \in [Items -> Statuses]
  BY DEF TypeOK
<1> QED BY <1>1 DEF Records, Places, Fits

\* Loading without the lock.
LEMMA LoadStep ==
  ASSUME IInv, NEW p \in Processes, NEW r \in Records, r.key = None \/ Fits(p, r),
         r.kind \notin UnderLock, r.key = None \/ (r = call[p] /\ r.at = "in"), Load(p, r)
  PROVE  IInv'
<1> USE DEF IInv
<1> DEFINE s == [r EXCEPT !.at = "read", !.snap = queue]
<1>1. /\ s \in Records /\ s.kind = r.kind /\ s.key = r.key /\ s.at = "read"
      /\ Fits(p, s)
  BY ReadFits
<1>2. Moves(p, s) /\ crossed' = crossed \ {p} /\ UNCHANGED <<queue, row, history, lock, shaken>>
  BY DEF Load, Read, Moves
<1> HIDE DEF s
<1>3. TypeOK'
  BY <1>1, <1>2, Moved DEF TypeOK, LockInv
<1>4. LockInv'
  BY <1>1, <1>2, StaysOutside
<1>5. WorkIsPaid'
  <2>1. \A k \in Keys : Carries(s, k) => Carries(call[p], k)
    BY <1>1 DEF Carries
  <2>2. \A k \in Keys : made'[k] = made[k] /\ Paid(k)' = Paid(k)
    BY <1>2 DEF Paid
  <2> QED BY <1>1, <1>2, <2>1, <2>2, CostsNothing DEF LockInv
<1> QED BY <1>3, <1>4, <1>5

\* Taking the lock when nobody is inside, or not caring.
LEMMA CreateStep ==
  ASSUME IInv, NEW p \in Processes, NEW r \in Records, r.key = None, Create(p, r), shaken' \in BOOLEAN,
         shaken' \/ \A q \in Processes : ~Inside(q)
  PROVE  IInv'
<1> USE DEF IInv
<1> DEFINE s == [r EXCEPT !.at = "read", !.snap = queue]
<1>1. /\ s \in Records /\ s.kind = r.kind /\ s.key = r.key /\ s.at = "read" /\ s.snap = queue
      /\ Fits(p, s)
  BY ReadFits
<1>2. Moves(p, s) /\ crossed' = crossed \ {p} /\ UNCHANGED <<queue, row, history>> /\ lock' = [by |-> p, old |-> FALSE]
  BY DEF Create, Read, Moves
<1> HIDE DEF s
<1>3. /\ call' \in [Processes -> Records] /\ call'[p] = s /\ \A q \in Processes \ {p} : call'[q] = call[q]
      /\ CallsFit'
  BY <1>1, <1>2, Moved DEF LockInv
<1>4. TypeOK'
  BY <1>2, <1>3 DEF TypeOK
<1>5. shaken' \/ \A q \in Processes : Inside(q)' => q = p
  BY <1>3 DEF Inside
<1>6. LockInv'
  BY <1>1, <1>2, <1>3, <1>5 DEF LockInv, HoldersHoldTheLock, CopiesAreCurrent
<1>7. WorkIsPaid'
  <2>1. \A k \in Keys : ~Carries(s, k)
    BY <1>1 DEF Carries
  <2>2. \A k \in Keys : made'[k] = made[k] /\ Paid(k)' = Paid(k)
    BY <1>2 DEF Paid
  <2> QED BY <1>1, <1>2, <2>1, <2>2, CostsNothing DEF LockInv
<1> QED BY <1>4, <1>6, <1>7

LEMMA EnterStep ==
  ASSUME IInv, NEW p \in Processes, NEW kind \in Kinds \ {"create"}, NEW on \in Items \cup {None}, Enter(p, kind, on)
  PROVE  IInv'
<1> USE DEF IInv
<1> DEFINE r == Asked(kind, on, None)
<1>1. r \in Records /\ r.kind = kind /\ r.key = None /\ r.at = "in"
  BY AskedFits
<1>2. IF kind \in UnderLock THEN Take(p, r) ELSE Load(p, r)
  BY DEF Enter
<1> HIDE DEF r
<1>3. CASE kind \notin UnderLock
  BY <1>1, <1>2, <1>3, LoadStep
<1>4. CASE kind \in UnderLock /\ lock = NoLock
  <2>1. Create(p, r) /\ UNCHANGED shaken
    BY <1>2, <1>4 DEF Take
  <2>2. shaken \/ \A q \in Processes : ~Inside(q)
    BY <1>4 DEF LockInv, HoldersHoldTheLock, NoLock
  <2> QED BY <1>1, <2>1, <2>2, CreateStep DEF TypeOK
<1>5. CASE kind \in UnderLock /\ lock # NoLock
  <2> DEFINE t == [r EXCEPT !.at = "taking"]
  <2>1. t \in Records /\ t.at = "taking" /\ Fits(p, t)
    BY <1>1 DEF Records, Places, Fits
  <2> HIDE DEF t
  <2>2. Settled(p) \in Records /\ Settled(p).at # "read" /\ Fits(p, Settled(p)) /\ Settled(p).at # "in"
    BY SettledFits DEF LockInv
  <2>3. UNCHANGED <<queue, lock, row, history, crossed, shaken>> /\ (Moves(p, t) \/ Moves(p, Settled(p)))
    BY <1>2, <1>5 DEF Take, Moves, t
  <2>4. PICK u \in Records : Moves(p, u) /\ Fits(p, u) /\ u.at \notin {"read", "in"}
    BY <2>1, <2>2, <2>3
  <2>5. TypeOK'
    BY <2>3, <2>4, Moved DEF TypeOK, LockInv
  <2>6. LockInv'
    BY <2>3, <2>4, StaysOutside
  <2>7. WorkIsPaid'
    <3>1. \A k \in Keys : ~Carries(u, k) /\ made'[k] = made[k] /\ Paid(k)' = Paid(k)
      BY <2>3, <2>4 DEF Carries, Paid
    <3> QED BY <2>4, <3>1, CostsNothing DEF LockInv
  <2> QED BY <2>5, <2>6, <2>7
<1> QED BY <1>3, <1>4, <1>5

LEMMA CreateBatchStep ==
  ASSUME IInv, NEW c \in Calls, CreateBatch(c)
  PROVE  IInv'
<1>1. c \in Processes /\ call[c] \in Records /\ Fits(c, call[c]) /\ call[c].at = "in" /\ Load(c, call[c])
  BY DEF IInv, LockInv, CallsFit, TypeOK, CreateBatch
<1>2. call[c].kind \notin UnderLock
  BY <1>1 DEF Fits, UnderLock
<1> QED BY <1>1, <1>2, LoadStep

\* A takeover that finds nobody inside is as good as taking a free lock; any other shakes it.
LEMMA TakeOverStep ==
  ASSUME IInv, NEW p \in Processes, TakeOver(p)
  PROVE  IInv'
<1>1. call[p] \in Records /\ Fits(p, call[p]) /\ call[p].at = "taking" /\ Create(p, call[p])
  BY DEF IInv, LockInv, CallsFit, TypeOK, TakeOver
<1>2. call[p].key = None
  BY <1>1 DEF Fits
<1>3. shaken' \in BOOLEAN
  BY DEF TakeOver
<1>4. shaken' \/ \A q \in Processes : ~Inside(q)
  <2>1. CASE shaken
    BY <2>1 DEF TakeOver
  <2>2. CASE ~shaken
    <3>1. \A q \in Processes : Inside(q) => lock.by = q
      BY <2>2 DEF IInv, LockInv, HoldersHoldTheLock
    <3>2. \A q \in Processes : Inside(q) => lock # NoLock /\ Inside(lock.by)
      BY <3>1 DEF NoLock
    <3> QED BY <3>2 DEF TakeOver
  <2> QED BY <2>1, <2>2
<1> QED BY <1>1, <1>2, <1>3, <1>4, CreateStep

LEMMA AgeStep ==
  ASSUME IInv, Age
  PROVE  IInv'
<1> USE DEF IInv
<1>1. UNCHANGED <<queue, row, call, history, crossed, shaken>> /\ lock' = [lock EXCEPT !.old = TRUE]
  BY DEF Age
<1>2. lock'.by = lock.by /\ lock' \in [by : Processes \cup {None}, old : BOOLEAN]
  BY <1>1 DEF TypeOK
<1>3. TypeOK'
  BY <1>1, <1>2 DEF TypeOK
<1>4. LockInv'
  BY <1>1, <1>2 DEF LockInv, CallsFit, HoldersHoldTheLock, CopiesAreCurrent, Inside
<1>5. WorkIsPaid'
  BY <1>1 DEF WorkIsPaid, Paid, InFlight
<1> QED BY <1>3, <1>4, <1>5

-----------------------------------------------------------------------------
(* The handlers *)

LEMMA ChangedType ==
  ASSUME TypeOK, NEW p \in Processes
  PROVE  Changed(p) \in [Items -> Statuses]
<1>1. call[p].snap \in [Items -> Statuses]
  BY DEF TypeOK, Records
<1>2. \A q \in [Items -> Statuses] : \A status \in Statuses : \A S : With(q, S, status) \in [Items -> Statuses]
  BY DEF With
<1>3. \A q \in [Items -> Statuses] : \A x :
        /\ Created(p, q) \in [Items -> Statuses] /\ Appended(p, x, q) \in [Items -> Statuses]
        /\ Removed(x, q) \in [Items -> Statuses] /\ Dropped(x, q) \in [Items -> Statuses]
        /\ Archived(q) \in [Items -> Statuses] /\ Started(x, q) \in [Items -> Statuses]
        /\ Finished(x, q) \in [Items -> Statuses]
  BY <1>2 DEF Created, Appended, Removed, Dropped, Archived, Started, Finished, Statuses
<1> QED BY <1>1, <1>3 DEF Changed

\* Saving without the lock marks everyone who is inside.
LEMMA SavesOutside ==
  ASSUME TypeOK, LockInv, NEW p \in Processes, NEW r \in Records, Fits(p, r), Moves(p, r),
         ~(r.at = "read" /\ r.kind \in UnderLock), UNCHANGED <<lock, shaken>>,
         UNCHANGED <<queue, crossed>> \/ crossed' = {q \in Processes : Inside(q)}
  PROVE  LockInv'
<1>1. /\ call'[p] = r /\ \A q \in Processes \ {p} : call'[q] = call[q]
      /\ CallsFit'
  BY Moved DEF LockInv
<1>2. \A q \in Processes : Inside(q)' => q # p /\ Inside(q)
  BY <1>1 DEF Inside
<1> QED BY <1>1, <1>2 DEF LockInv, HoldersHoldTheLock, CopiesAreCurrent

\* The lock was this process's own, or it was shaken already.
LEMMA UnlockStep ==
  ASSUME IInv, NEW p \in Processes, Inside(p), Unlock(p)
  PROVE  /\ call' \in [Processes -> Records] /\ lock' \in [by : Processes \cup {None}, old : BOOLEAN]
         /\ shaken' \in BOOLEAN /\ LockInv'
         /\ \A k \in Keys : ~Carries(call[p], k) /\ Cardinality(InFlight(k)') = Cardinality(InFlight(k))
<1> DEFINE r == Settled(p)
<1>1. r \in Records /\ Fits(p, r) /\ r.at \in {"idle", "over"} /\ Moves(p, r)
  BY SettledFits DEF Unlock, Done, Moves, IInv, LockInv
<1> HIDE DEF r
<1>2. /\ call' \in [Processes -> Records] /\ call'[p] = r /\ \A q \in Processes \ {p} : call'[q] = call[q]
      /\ CallsFit'
  BY <1>1, Moved DEF IInv, LockInv
<1>3. \A q \in Processes : Inside(q)' => q # p /\ Inside(q)
  BY <1>1, <1>2 DEF Inside
<1>4. shaken' \/ \A q \in Processes : ~Inside(q)'
  <2>1. (\E q \in Processes \ {p} : Inside(q)) => shaken
    BY DEF IInv, LockInv, HoldersHoldTheLock
  <2>2. (\E q \in Processes \ {p} : Inside(q)) => shaken'
    BY <2>1 DEF Unlock
  <2> QED BY <1>3, <2>2
<1>5. LockInv'
  BY <1>2, <1>4 DEF LockInv, HoldersHoldTheLock, CopiesAreCurrent
<1>6. lock' \in [by : Processes \cup {None}, old : BOOLEAN]
  BY DEF Unlock, NoLock
<1>7. shaken' \in BOOLEAN
  BY DEF Unlock
<1>8. ASSUME NEW k \in Keys PROVE ~Carries(call[p], k) /\ Cardinality(InFlight(k)') = Cardinality(InFlight(k))
  <2>1. ~Carries(call[p], k) /\ ~Carries(r, k)
    BY <1>1 DEF Carries, Inside, UnderLock, IInv, LockInv, CallsFit, Fits
  <2> QED BY <1>1, <2>1, Flights DEF IInv, LockInv
<1> QED BY <1>2, <1>5, <1>6, <1>7, <1>8

LEMMA SaveStep ==
  ASSUME IInv, NEW p \in Processes, Save(p)
  PROVE  IInv'
<1> USE DEF IInv
<1>1. /\ call[p] \in Records /\ Fits(p, call[p]) /\ call[p].at = "read"
      /\ UNCHANGED <<row, lapses, crashes>>
  BY DEF LockInv, CallsFit, TypeOK, Save
<1>2. queue' \in [Items -> Statuses]
  BY ChangedType DEF Save, TypeOK
<1>3. crossed' \subseteq Processes
  BY DEF Save, TypeOK
<1>4. /\ made' \in [Keys -> Nat]
      /\ \A k \in Keys : made'[k] = made[k] \/ (made'[k] = made[k] + 1 /\ call[p].key = k)
  BY DEF Save, TypeOK
<1>5. \A k \in Keys : Paid(k)' = Paid(k) /\ Paid(k) \in Nat /\ made[k] \in Nat /\ made[k] + Cardinality(InFlight(k)) <= Paid(k)
  BY <1>1 DEF Paid, TypeOK, WorkIsPaid
<1>6. CASE call[p].kind \in UnderLock
  <2>1. Unlock(p) /\ Inside(p)
    BY <1>1, <1>6 DEF Save, After, Inside, UnderLock
  <2>2. \A k \in Keys : made'[k] = made[k]
    BY <1>1, <1>4, <1>6 DEF Fits, UnderLock
  <2>3. TypeOK'
    BY <1>1, <1>2, <1>3, <1>4, <2>1, UnlockStep DEF TypeOK
  <2>4. WorkIsPaid'
    BY <1>5, <2>1, <2>2, UnlockStep DEF WorkIsPaid
  <2> QED BY <2>1, <2>3, <2>4, UnlockStep
<1>7. CASE call[p].kind \notin UnderLock
  <2> DEFINE answered == [call[p] EXCEPT !.at = "answer"]
  <2>1. /\ IF call[p].kind = "create" THEN Moves(p, answered) ELSE Moves(p, Settled(p))
        /\ UNCHANGED <<lock, shaken>>
    BY <1>7 DEF Save, After, GoTo, Done, Moves, UnderLock
  <2>2. /\ answered \in Records /\ answered.at = "answer" /\ answered.kind = call[p].kind
        /\ answered.key = call[p].key
    BY <1>1 DEF Records, Places
  <2> HIDE DEF answered
  <2>3. call[p].kind = "create" => Fits(p, answered)
    BY <1>1, <2>2 DEF Fits
  <2>4. Settled(p) \in Records /\ Settled(p).at \in {"idle", "over"} /\ Fits(p, Settled(p))
    BY SettledFits DEF LockInv
  <2>5. PICK r \in Records : Moves(p, r) /\ Fits(p, r) /\ r.at \in {"answer", "idle", "over"}
    <3>1. CASE call[p].kind = "create"
      BY <2>1, <2>2, <2>3, <3>1
    <3>2. CASE call[p].kind # "create"
      BY <2>1, <2>4, <3>2
    <3> QED BY <3>1, <3>2
  <2>6. TypeOK'
    BY <1>1, <1>2, <1>3, <1>4, <2>1, <2>5, Moved DEF TypeOK, LockInv
  <2>7. UNCHANGED <<queue, crossed>> \/ crossed' = {q \in Processes : Inside(q)}
    BY <1>7 DEF Save
  <2>8. LockInv'
    BY <2>1, <2>5, <2>7, SavesOutside
  <2>9. ASSUME NEW k \in Keys PROVE (made[k] + Cardinality(InFlight(k)) <= Paid(k))'
    <3>1. ~Carries(r, k) /\ (call[p].key = k <=> Carries(call[p], k))
      BY <1>1, <2>5 DEF Carries
    <3>2. /\ Cardinality(InFlight(k)) \in Nat /\ Cardinality(InFlight(k)') \in Nat
          /\ Carries(call[p], k) => Cardinality(InFlight(k)') = Cardinality(InFlight(k)) - 1
          /\ ~Carries(call[p], k) => Cardinality(InFlight(k)') = Cardinality(InFlight(k))
      BY <2>5, <3>1, Flights DEF LockInv
    <3>3. made'[k] = made[k] \/ (made'[k] = made[k] + 1 /\ Carries(call[p], k))
      BY <1>4, <3>1
    <3> QED BY <1>5, <3>2, <3>3
  <2> QED BY <2>6, <2>8, <2>9 DEF WorkIsPaid
<1> QED BY <1>6, <1>7

\* A request whose save fails gives its row up, and with it what it might have made.
LEMMA SaveFailsStep ==
  ASSUME IInv, NEW p \in Calls, SaveFails(p)
  PROVE  IInv'
<1> USE DEF IInv
<1>1. /\ p \in Processes /\ call[p] \in Records /\ Fits(p, call[p]) /\ call[p].at = "read"
      /\ Abandon(p) /\ UNCHANGED <<queue, history, crossed>>
  BY DEF LockInv, CallsFit, TypeOK, SaveFails
<1>2. /\ row' \in [Keys -> [state : {"none", "pending", "complete"}, form : Forms]]
      /\ \A k \in Keys : row'[k] = row[k] \/ (Carries(call[p], k) /\ row[k] # NoRow)
  BY <1>1, RowsAfter DEF Carries
<1>3. ASSUME NEW k \in Keys
      PROVE  /\ made'[k] = made[k] /\ made[k] \in Nat /\ Paid(k) \in Nat /\ Paid(k)' \in Nat
             /\ made[k] + Cardinality(InFlight(k)) <= Paid(k)
             /\ Paid(k)' = Paid(k) \/ (Paid(k)' >= Paid(k) - 1 /\ Carries(call[p], k))
  BY <1>1, <1>2 DEF Paid, TypeOK, WorkIsPaid
<1>4. CASE call[p].kind \in UnderLock
  <2>1. Unlock(p) /\ Inside(p)
    BY <1>1, <1>4 DEF SaveFails, Inside
  <2>2. TypeOK'
    BY <1>1, <1>2, <2>1, UnlockStep DEF TypeOK
  <2>3. WorkIsPaid'
    BY <1>3, <2>1, UnlockStep DEF WorkIsPaid
  <2> QED BY <2>1, <2>2, <2>3, UnlockStep
<1>5. CASE call[p].kind \notin UnderLock
  <2>1. Done(p) /\ UNCHANGED <<lock, shaken>>
    BY <1>5 DEF SaveFails
  <2>2. /\ call' \in [Processes -> Records] /\ LockInv'
        /\ \A k \in Keys : /\ Cardinality(InFlight(k)) \in Nat /\ Cardinality(InFlight(k)') \in Nat
                           /\ Cardinality(InFlight(k)') =
                                Cardinality(InFlight(k)) - (IF Carries(call[p], k) THEN 1 ELSE 0)
    BY <1>1, <2>1, DoneStep
  <2>3. TypeOK'
    BY <1>1, <1>2, <2>1, <2>2 DEF TypeOK
  <2>4. WorkIsPaid'
    BY <1>3, <2>2 DEF WorkIsPaid
  <2> QED BY <2>2, <2>3, <2>4
<1> QED BY <1>4, <1>5

-----------------------------------------------------------------------------
(* Crashes and the theorems *)

\* Nothing is in flight and nobody inside after a crash.
LEMMA CrashStep ==
  ASSUME IInv, Crash
  PROVE  IInv'
<1> USE DEF IInv
<1>1. \A p \in Processes :
        Settled(p) \in Records /\ Settled(p).at \in {"idle", "over"} /\ Fits(p, Settled(p))
  BY SettledFits DEF LockInv
<1>2. Unused \in Records /\ Unused.at = "idle" /\ \A p \in Processes : Fits(p, Unused)
  BY DEF Unused, Records, Empty, Statuses, Kinds, Places, Fits
<1>3. /\ call' \in [Processes -> Records]
      /\ \A p \in Processes : call'[p].at \in {"idle", "over"} /\ Fits(p, call'[p])
  BY <1>1, <1>2 DEF Crash
<1>4. UNCHANGED <<queue, lock, row, made, lapses>> /\ crossed' = {} /\ shaken' = FALSE /\ crashes' \in 0..MaxCrashes
  BY DEF Crash, TypeOK
<1>5. TypeOK'
  BY <1>3, <1>4 DEF TypeOK
<1>6. LockInv'
  BY <1>3, <1>4 DEF LockInv, CallsFit, Fits, HoldersHoldTheLock, CopiesAreCurrent, Inside
<1>7. WorkIsPaid'
  <2>1. ASSUME NEW k \in Keys PROVE (made[k] + Cardinality(InFlight(k)) <= Paid(k))'
    <3>1. InFlight(k)' = {} /\ Cardinality({}) = 0
      BY <1>3, FS_EmptySet DEF InFlight, Carries
    <3>2. made'[k] = made[k] /\ made[k] \in Nat /\ Paid(k)' = Paid(k) /\ Paid(k) \in Nat
      BY <1>4 DEF TypeOK, Paid
    <3>3. Cardinality(InFlight(k)) \in Nat
      BY FlightCount
    <3>4. made[k] + Cardinality(InFlight(k)) <= Paid(k)
      BY DEF WorkIsPaid
    <3> QED BY <3>1, <3>2, <3>3, <3>4
  <2> QED BY <2>1 DEF WorkIsPaid
<1> QED BY <1>5, <1>6, <1>7

LEMMA InitInv == Init => IInv
<1> SUFFICES ASSUME Init PROVE IInv
  OBVIOUS
<1>1. /\ Unused \in Records /\ Unused.at = "idle" /\ Unused.key = None
      /\ \A p \in Processes : Fits(p, Unused)
  BY DEF Unused, Records, Empty, Statuses, Kinds, Places, Fits
<1>2. TypeOK
  <2>1. queue \in [Items -> Statuses] /\ row \in [Keys -> [state : {"none", "pending", "complete"}, form : Forms]]
    BY DEF Init, Empty, Statuses, NoRow, Forms
  <2>2. lock \in [by : Processes \cup {None}, old : BOOLEAN] /\ shaken \in BOOLEAN
    BY DEF Init, NoLock
  <2>3. call \in [Processes -> Records] /\ made \in [Keys -> Nat] /\ lapses \in [Keys -> 0..MaxLapses]
    BY <1>1 DEF Init
  <2> QED BY <2>1, <2>2, <2>3 DEF Init, TypeOK
<1>3. LockInv
  BY <1>1 DEF Init, LockInv, CallsFit, HoldersHoldTheLock, CopiesAreCurrent, Inside
<1>4. ASSUME NEW k \in Keys PROVE made[k] + Cardinality(InFlight(k)) <= Paid(k)
  <2>1. InFlight(k) = {}
    BY <1>1 DEF Init, InFlight, Carries
  <2>2. Paid(k) = 0 /\ made[k] = 0 /\ Cardinality(InFlight(k)) = 0
    BY <2>1, FS_EmptySet DEF Init, Paid
  <2> QED BY <2>2
<1> QED BY <1>2, <1>3, <1>4 DEF IInv, WorkIsPaid

LEMMA Step ==
  ASSUME IInv, [Next]_vars
  PROVE  IInv'
<1>1. ASSUME NEW i \in Items, Claim(i) \/ Finish(i) PROVE IInv'
  <2>1. {"claim", "finish"} \subseteq Kinds \ {"create"} /\ Backend \in Processes
    BY DEF Kinds, OnTheLoop
  <2> QED BY <1>1, <2>1, EnterStep DEF Claim, Finish
<1>2. CASE \E p \in Processes : HandlerStep(p)
  BY <1>2, TakeOverStep, SaveStep DEF HandlerStep
<1>3. CASE \E c \in Calls : CreateBatch(c) \/ Answer(c)
  BY <1>3, CreateBatchStep, AnswerStep
<1>4. ASSUME NEW c \in Calls, Request(c) PROVE IInv'
  <2>0. {"append", "delete", "drop", "archive"} \subseteq Kinds \ {"create"} /\ c \in Processes
    BY DEF Kinds, OnTheLoop, UnderLock
  <2>1. ASSUME NEW b \in Items, AppendTo(c, b) \/ Delete(c, b) \/ DeleteExecution(c, b) PROVE IInv'
    BY <2>0, <2>1, EnterStep DEF AppendTo, Delete, DeleteExecution
  <2>2. CASE Archive(c)
    BY <2>0, <2>2, EnterStep DEF Archive
  <2>3. CASE PostWithoutKey(c) \/ \E form \in Forms, k \in Keys : PostAnswered(c, k, form)
    BY <2>3, UnkeyedStep
  <2>4. CASE \E form \in Forms, k \in Keys : Post(c, k, form)
    BY <2>4, PostStep
  <2>5. CASE Refuse(c) \/ CutShort(c) \/ SaveFails(c)
    BY <2>5, AnswerStep, SaveFailsStep
  <2> QED BY <1>4, <2>1, <2>2, <2>3, <2>4, <2>5 DEF Request
<1>5. CASE UNCHANGED vars
  BY <1>5 DEF IInv, TypeOK, LockInv, CallsFit, HoldersHoldTheLock, CopiesAreCurrent, WorkIsPaid,
              InFlight, Paid, Inside, vars
<1> QED BY <1>1, <1>2, <1>3, <1>4, <1>5, AgeStep, CrashStep DEF Next, Progress

\* The invariant holds in every state.
THEOREM Inductive == Spec => []IInv
<1>1. IInv /\ [Next]_vars => IInv'
  BY Step
<1> QED BY <1>1, InitInv, PTL DEF Spec

\* QueueRequests' variables keep their types.
THEOREM TypeCorrect == Spec => []TypeOK
BY Inductive, PTL DEF IInv

\* LockProtects: what a holder of the claim lock has read is still the queue when it saves, but for
\* writers without the lock and takeovers from a living holder.
THEOREM LockHolds == Spec => []LockProtects
<1>1. IInv => LockProtects
  BY DEF IInv, LockInv, CopiesAreCurrent, LockProtects, Inside
<1> QED BY <1>1, Inductive, PTL

\* WorkOncePerKey: an idempotency key gives its work once, and once more only for each time its row
\* was given up although the work was saved or a request was still running.
THEOREM KeysWorkOnce == Spec => []WorkOncePerKey
<1>1. ASSUME IInv, NEW k \in Keys PROVE made[k] <= 1 + lapses[k]
  <2>1. Cardinality(InFlight(k)) \in Nat
    BY FlightCount
  <2>2. made[k] \in Nat /\ lapses[k] \in Nat /\ made[k] + Cardinality(InFlight(k)) <= Paid(k)
    BY <1>1 DEF IInv, TypeOK, WorkIsPaid
  <2> QED BY <2>1, <2>2 DEF Paid
<1>2. IInv => WorkOncePerKey
  BY <1>1 DEF WorkOncePerKey
<1> QED BY <1>2, Inductive, PTL

HIDE RequestAssumption DEF Processes, Backend, Prepared, Items, Calls, history

-----------------------------------------------------------------------------
(* Automatic warming: the inductive invariant *)

\* The dispatcher's list may be old, but only the operator makes it wrong: a post on
\* it whose account was left alone since is still admitted, although time has passed,
\* visits have ended and accounts were released.
ListIsCurrent == \A a \in pass.posts : a \in changed \/ Admits(a)

WarmingInv == WarmingTypeOK /\ ListIsCurrent

-----------------------------------------------------------------------------
(* Automatic warming: type correctness *)

USE WarmingAssumption DEF Operator, Fault, Unbounded, items, account
USE DEF Posts, Visits, Requests, Restarts, Passes, NoPass

LEMMA WarmingInitType == WarmingInit => WarmingTypeOK
BY DEF WarmingInit, WarmingTypeOK

\* A restart begins with the trip or, if none of it is left, with the window.
LEMMA RestartType ==
  ASSUME WarmingTypeOK, NEW a \in Accounts, StartRestart(a)
  PROVE  /\ restart' \in [Accounts -> Restarts]
         /\ ended' \subseteq Accounts /\ visited' \subseteq Accounts
BY DEF WarmingTypeOK, StartRestart, AfterTheTrip

\* Every step keeps the types.
LEMMA WarmingStepType ==
  ASSUME WarmingTypeOK, [WarmingNext]_warmingVars
  PROVE  WarmingTypeOK'
<1> USE DEF WarmingTypeOK
<1>1. CASE Plan
  <2>1. \A kept : Expired(kept) \in [Accounts -> Visits]
    BY DEF Expired
  <2>2. visit' \in [Accounts -> Visits]
    BY <1>1, <2>1 DEF Plan
  <2> QED BY <1>1, <2>2 DEF Plan, SyncHistory
<1>2. CASE BeginPass
  <2>1. pass' \in Passes
    BY <1>2 DEF BeginPass
  <2> QED BY <1>2, <2>1 DEF BeginPass
<1>3. CASE EndPass
  BY <1>3 DEF EndPass
<1>4. CASE Switch
  BY <1>4 DEF Switch
<1>5. CASE WarmingCrash
  <2>1. post' \in [Accounts -> Posts] /\ visit' \in [Accounts -> Visits]
    BY <1>5 DEF WarmingCrash
  <2>2. faults' \in 0..MaxFaults
    BY <1>5 DEF WarmingCrash
  <2> QED BY <1>5, <2>1, <2>2 DEF WarmingCrash
<1>6. ASSUME NEW a \in Accounts, TryPost(a) PROVE WarmingTypeOK'
  <2>1. asked' \in [Accounts -> Requests]
    BY <1>6 DEF TryPost, StartPost, MakeRoom, SkipPost, YieldForPost, RunningVisits
  <2>2. pass' \in Passes
    <3> DEFINE posts == pass.posts \ {a}
               rest == [pass EXCEPT !.posts = posts]
    <3>1. pass \in Passes /\ posts \subseteq Accounts
      BY DEF Passes
    <3>2. pass' = rest \/ pass' = [rest EXCEPT !.waiting = TRUE]
      BY <1>6 DEF TryPost, StartPost, MakeRoom, SkipPost
    <3> HIDE DEF posts
    <3>3. rest \in Passes
      BY <3>1 DEF Passes
    <3> HIDE DEF rest
    <3> QED BY <3>2, <3>3 DEF Passes
  <2>3. post' \in [Accounts -> Posts]
    BY <1>6 DEF TryPost, StartPost, MakeRoom, SkipPost
  <2> QED BY <1>6, <2>1, <2>2, <2>3 DEF TryPost, StartPost, MakeRoom, SkipPost
<1>7. ASSUME NEW a \in Accounts, TryVisit(a) \/ RunNow(a) PROVE WarmingTypeOK'
  BY <1>7 DEF TryVisit, RunNow
<1>8. ASSUME NEW a \in Accounts, PostDue(a) \/ PostEnds(a) \/ VisitRaises(a) PROVE WarmingTypeOK'
  BY <1>8 DEF PostDue, PostEnds, VisitRaises
<1>9. ASSUME NEW a \in Accounts, VisitEnds(a) PROVE WarmingTypeOK'
  BY <1>9 DEF VisitEnds, HandOver
<1>10. ASSUME NEW a \in Accounts, Travelled(a) \/ WindowEnds(a) \/ Hold(a) PROVE WarmingTypeOK'
  BY <1>10 DEF Travelled, WindowEnds, Hold
<1>11. ASSUME NEW a \in Accounts, ChangeProxy(a) \/ Release(a) PROVE WarmingTypeOK'
  BY <1>11, RestartType DEF ChangeProxy, Release
<1>12. CASE UNCHANGED warmingVars
  BY <1>12 DEF warmingVars
<1> QED BY <1>1, <1>2, <1>3, <1>4, <1>5, <1>6, <1>7, <1>8, <1>9, <1>10, <1>11, <1>12 DEF WarmingNext, Dispatcher, Ends

-----------------------------------------------------------------------------
(* The list of a pass *)

\* A step that neither lengthens the list nor forgets a change, and leaves the account
\* of each listed post alone unless it marks it changed, keeps the list current.
LEMMA ListKept ==
  ASSUME ListIsCurrent, pass'.posts \subseteq pass.posts, changed \subseteq changed',
         \A a \in pass.posts : a \in changed' \/ (Admits(a) => Admits(a)')
  PROVE  ListIsCurrent'
BY DEF ListIsCurrent

\* Steps of items alone do not touch any account.
LEMMA AccountsAlone ==
  ASSUME UNCHANGED account
  PROVE  \A a \in Accounts : Admits(a) => Admits(a)'
BY DEF Admits, Paused, Travelling, WaitingForVisit

LEMMA StepList ==
  ASSUME WarmingInv, [WarmingNext]_warmingVars
  PROVE  ListIsCurrent'
<1> USE DEF WarmingInv, WarmingTypeOK
<1>1. CASE Plan
  BY <1>1, ListKept DEF Plan, SyncHistory, Admits, Paused, Travelling, WaitingForVisit
<1>2. CASE BeginPass
  BY <1>2, AccountsAlone DEF BeginPass, ListIsCurrent, Admits, Paused, Travelling, WaitingForVisit
<1>3. CASE EndPass \/ WarmingCrash
  BY <1>3 DEF EndPass, WarmingCrash, ListIsCurrent
<1>4. CASE Switch
  BY <1>4, ListKept DEF Switch
<1>5. ASSUME NEW a \in Accounts, TryPost(a) \/ TryVisit(a) PROVE ListIsCurrent'
  BY <1>5, ListKept, AccountsAlone, ZenonT(60) DEF TryPost, StartPost, MakeRoom, SkipPost, TryVisit
<1>6. ASSUME NEW a \in Accounts, PostDue(a) \/ PostEnds(a) \/ VisitRaises(a) \/ RunNow(a)
      PROVE  ListIsCurrent'
  BY <1>6, ListKept, AccountsAlone DEF PostDue, PostEnds, VisitRaises, RunNow
<1>7. ASSUME NEW a \in Accounts, VisitEnds(a) PROVE ListIsCurrent'
  BY <1>7, ListKept DEF VisitEnds, Admits, Paused, Travelling, WaitingForVisit
<1>8. ASSUME NEW a \in Accounts, Travelled(a) \/ WindowEnds(a) PROVE ListIsCurrent'
  BY <1>8, ListKept DEF Travelled, WindowEnds, Admits, Paused, Travelling, WaitingForVisit
<1>9. ASSUME NEW a \in Accounts, Hold(a) \/ ChangeProxy(a) PROVE ListIsCurrent'
  BY <1>9, ListKept DEF Hold, ChangeProxy, StartRestart, Admits, Paused, Travelling, WaitingForVisit
<1>10. ASSUME NEW a \in Accounts, Release(a) PROVE ListIsCurrent'
  BY <1>10, ListKept DEF Release, StartRestart, Admits, Paused, Travelling, WaitingForVisit
<1>11. CASE UNCHANGED warmingVars
  BY <1>11, ListKept, AccountsAlone DEF warmingVars
<1> QED BY <1>1, <1>2, <1>3, <1>4, <1>5, <1>6, <1>7, <1>8, <1>9, <1>10, <1>11 DEF WarmingNext, Dispatcher, Ends

\* The invariant holds in every state.
THEOREM WarmingInductive == WarmingSpec => []WarmingInv
<1>1. WarmingInit => WarmingInv
  BY WarmingInitType DEF WarmingInit, WarmingInv, ListIsCurrent
<1>2. WarmingInv /\ [WarmingNext]_warmingVars => WarmingInv'
  BY WarmingStepType, StepList DEF WarmingInv
<1> QED BY <1>1, <1>2, PTL DEF WarmingSpec

\* AutoWarming's variables keep their types.
THEOREM WarmingTypeCorrect == WarmingSpec => []WarmingTypeOK
BY WarmingInductive, PTL DEF WarmingInv

-----------------------------------------------------------------------------
(* Restarts are gentle *)

\* The posts and visits a step starts, and by which action.
LEMMA PostStarts ==
  ASSUME WarmingInv, WarmingNext, NEW a \in Accounts, StartsPost(a)
  PROVE  TryPost(a) \/ RunNow(a)
<1> USE DEF WarmingInv, WarmingTypeOK, StartsPost
<1>1. ~(Plan \/ BeginPass \/ EndPass \/ Switch)
  BY DEF Plan, BeginPass, EndPass, Switch
<1>2. ~WarmingCrash
  BY DEF WarmingCrash
<1>3. \A b \in Accounts : ~(VisitEnds(b) \/ VisitRaises(b) \/ Travelled(b) \/ WindowEnds(b))
  BY DEF VisitEnds, VisitRaises, HandOver, Travelled, WindowEnds
<1>4. \A b \in Accounts : ~(TryVisit(b) \/ PostDue(b) \/ PostEnds(b))
  BY DEF TryVisit, PostDue, PostEnds
<1>5. \A b \in Accounts : ~(ChangeProxy(b) \/ Hold(b) \/ Release(b))
  BY DEF ChangeProxy, Hold, Release
<1>6. \A b \in Accounts : TryPost(b) \/ RunNow(b) => b = a
  BY DEF TryPost, StartPost, MakeRoom, SkipPost, RunNow
<1> QED BY <1>1, <1>2, <1>3, <1>4, <1>5, <1>6 DEF WarmingNext, Dispatcher, Ends

LEMMA VisitStarts ==
  ASSUME WarmingInv, WarmingNext, NEW a \in Accounts, StartsVisit(a)
  PROVE  TryVisit(a)
<1> USE DEF WarmingInv, WarmingTypeOK, StartsVisit
<1>1. ~Plan
  BY ZenonT(60) DEF Plan, Expired
<1>2. ~(BeginPass \/ EndPass \/ Switch \/ WarmingCrash)
  BY DEF BeginPass, EndPass, Switch, WarmingCrash
<1>3. \A b \in Accounts : ~(VisitEnds(b) \/ VisitRaises(b) \/ Travelled(b) \/ WindowEnds(b))
  BY DEF VisitEnds, VisitRaises, Travelled, WindowEnds
<1>4. \A b \in Accounts : ~(TryPost(b) \/ RunNow(b) \/ PostDue(b) \/ PostEnds(b))
  BY DEF TryPost, StartPost, MakeRoom, SkipPost, RunNow, PostDue, PostEnds
<1>5. \A b \in Accounts : ~(ChangeProxy(b) \/ Hold(b) \/ Release(b))
  BY DEF ChangeProxy, Hold, Release
<1>6. \A b \in Accounts : TryVisit(b) => b = a
  BY DEF TryVisit
<1> QED BY <1>1, <1>2, <1>3, <1>4, <1>5, <1>6 DEF WarmingNext, Dispatcher, Ends

\* RestartsGently: nothing automatic starts on a paused account, and a post on a
\* restarting account starts only after a visit, by hand, or on a list the operator
\* has overtaken.
THEOREM GentleRestarts == WarmingSpec => RestartsGently
<1> DEFINE Gentle(a) ==
      /\ StartsPost(a) \/ StartsVisit(a) => ~Paused(a)
      /\ StartsPost(a) /\ auto /\ WaitingForVisit(a) => RunNow(a) \/ a \in changed
<1>1. ASSUME WarmingInv, WarmingNext, NEW a \in Accounts
      PROVE  Gentle(a)
  <2>1. StartsPost(a) => ~Paused(a)
    BY <1>1, PostStarts DEF TryPost, StartPost, MakeRoom, SkipPost, RunNow, Claimable, StartsPost
  <2>2. StartsVisit(a) => ~Paused(a)
    BY <1>1, VisitStarts DEF TryVisit, Claimable, StartsVisit
  <2>3. TryPost(a) => a \in changed \/ Admits(a)
    BY <1>1 DEF TryPost, StartPost, MakeRoom, SkipPost, WarmingInv, ListIsCurrent
  <2> QED BY <1>1, <2>1, <2>2, <2>3, PostStarts DEF Admits
<1>2. WarmingInv /\ [WarmingNext]_warmingVars => [\A a \in Accounts : Gentle(a)]_warmingVars
  BY <1>1
<1> QED BY <1>2, WarmingInductive, PTL DEF WarmingSpec, RestartsGently

HIDE WarmingAssumption DEF Operator, Fault, Unbounded, items, account
HIDE DEF Posts, Visits, Requests, Restarts, Passes, NoPass

-----------------------------------------------------------------------------
(* The reel renderer: the inductive invariant *)

\* The worker's steps belong to a job that is being rendered, and from the second one on the
\* attempt has the directory its processes can be recognised by.
CurrentIsMarked ==
  at \in Steps => /\ cur \in Jobs /\ job[cur].state \in Active
                  /\ at # "prepare" => job[cur].marked

\* A process of this backend is that of the current job, between its start and its end.
ProcessIsSupervised == proc # NoJob => proc = cur /\ at \in {"record", "encode", "check"}

\* A process of an earlier backend is that of a job whose recovery is still to come, and that
\* recovery will recognise it.
OrphanWillBeFound ==
  orphan # NoJob => /\ at \in {"down", "recover"}
                    /\ orphan \in Jobs /\ job[orphan].state \in Active /\ job[orphan].marked

Safe == CurrentIsMarked /\ ProcessIsSupervised /\ OrphanWillBeFound
RenderInv == RenderTypeOK /\ Safe

USE ReelAssumption DEF Failure, Ask, Env, journal, worker, Active, Steps

-----------------------------------------------------------------------------
(* The journal *)

\* An update concerns one job.
LEMMA Updated ==
  ASSUME job \in [Jobs -> JobRecords], NEW j \in Jobs, NEW r \in JobRecords, Update(j, r)
  PROVE  /\ job' \in [Jobs -> JobRecords] /\ job'[j] = r
         /\ \A k \in Jobs \ {j} : job'[k] = job[k]
BY DEF Update

\* The changes that steps make to the record of a job, and what each leaves.
LEMMA StateSet ==
  ASSUME job \in [Jobs -> JobRecords], NEW j \in Jobs, NEW s \in States, SetState(j, s)
  PROVE  /\ job' \in [Jobs -> JobRecords] /\ \A k \in Jobs \ {j} : job'[k] = job[k]
         /\ job'[j].state = s /\ job'[j].marked = job[j].marked
<1> DEFINE r == [job[j] EXCEPT !.state = s, !.pid = FALSE]
<1>1. r \in JobRecords /\ r.state = s /\ r.marked = job[j].marked
  BY DEF JobRecords
<1>2. Update(j, r)
  BY DEF SetState
<1> HIDE DEF r
<1> QED BY <1>1, <1>2, Updated

LEMMA PidSet ==
  ASSUME job \in [Jobs -> JobRecords], NEW j \in Jobs,
         Update(j, [job[j] EXCEPT !.pid = TRUE]) \/ Update(j, [job[j] EXCEPT !.pid = FALSE])
  PROVE  /\ job' \in [Jobs -> JobRecords] /\ \A k \in Jobs \ {j} : job'[k] = job[k]
         /\ job'[j].state = job[j].state /\ job'[j].marked = job[j].marked
<1>1. PICK b \in BOOLEAN : Update(j, [job[j] EXCEPT !.pid = b])
  OBVIOUS
<1> DEFINE r == [job[j] EXCEPT !.pid = b]
<1>2. r \in JobRecords /\ r.state = job[j].state /\ r.marked = job[j].marked
  BY DEF JobRecords
<1>3. Update(j, r)
  BY <1>1
<1> HIDE DEF r
<1> QED BY <1>2, <1>3, Updated

LEMMA MarkSet ==
  ASSUME job \in [Jobs -> JobRecords], NEW j \in Jobs, Update(j, [job[j] EXCEPT !.marked = TRUE])
  PROVE  /\ job' \in [Jobs -> JobRecords] /\ \A k \in Jobs \ {j} : job'[k] = job[k]
         /\ job'[j].state = job[j].state /\ job'[j].marked
<1> DEFINE r == [job[j] EXCEPT !.marked = TRUE]
<1>1. r \in JobRecords /\ r.state = job[j].state /\ r.marked
  BY DEF JobRecords
<1>2. Update(j, r)
  OBVIOUS
<1> HIDE DEF r
<1> QED BY <1>1, <1>2, Updated

LEMMA KnownStates == Stopped \cup Active \cup {"none", "queued", "completed"} \subseteq States
BY DEF States, Stopped

\* Steps of the worker that change the record of its job do it while it renders it.
Rendering ==
  \/ Prepare \/ Spawn \/ RecordProcess \/ FallBack \/ Encoded \/ Verified \/ Copy \/ Pressured
Leaving ==
  \/ Export \/ ExportRefused \/ ExportFails \/ Interrupted \/ RenderFails \/ Requeue \/ PromotedOnly

LEMMA WorkerHasAJob ==
  ASSUME RenderTypeOK, CurrentIsMarked, Rendering \/ Leaving
  PROVE  at \in Steps /\ cur \in Jobs /\ job[cur] \in JobRecords
BY DEF RenderTypeOK, CurrentIsMarked, Rendering, Leaving, Prepare, Spawn, RecordProcess, FallBack, Encoded,
       Verified, Copy, Export, ExportRefused, Interrupted, Requeue, Pressured, RenderFails,
       PromotedOnly, ExportFails

LEMMA RenderingJournal ==
  ASSUME RenderTypeOK, CurrentIsMarked, Rendering
  PROVE  /\ job' \in [Jobs -> JobRecords] /\ \A k \in Jobs \ {cur} : job'[k] = job[k]
         /\ job'[cur].state \in Active
         /\ Prepare \/ job[cur].marked => job'[cur].marked
<1>1. cur \in Jobs /\ job \in [Jobs -> JobRecords] /\ job[cur] \in JobRecords /\ job[cur].state \in Active
  BY WorkerHasAJob DEF RenderTypeOK, CurrentIsMarked
<1>2. CASE Prepare
  BY <1>1, <1>2, MarkSet DEF Prepare
<1>3. Prepare => at = "prepare"
  BY DEF Prepare
<1>4. CASE Spawn \/ Copy
  BY <1>1, <1>4, <1>3 DEF Spawn, Copy
<1>5. CASE RecordProcess \/ FallBack \/ Verified \/ Pressured
  <2>1. Update(cur, [job[cur] EXCEPT !.pid = TRUE]) \/ Update(cur, [job[cur] EXCEPT !.pid = FALSE])
    BY <1>5 DEF RecordProcess, FallBack, Verified, Pressured
  <2>2. ~Prepare
    BY <1>5, <1>3 DEF RecordProcess, FallBack, Verified, Pressured
  <2> QED BY <1>1, <2>1, <2>2, PidSet
<1>6. CASE Encoded
  <2>1. SetState(cur, "verifying") /\ ~Prepare
    BY <1>6, <1>3 DEF Encoded
  <2> QED BY <1>1, <2>1, StateSet, KnownStates
<1> QED BY <1>2, <1>4, <1>5, <1>6 DEF Rendering

LEMMA LeavingJournal ==
  ASSUME RenderTypeOK, CurrentIsMarked, Leaving
  PROVE  job' \in [Jobs -> JobRecords]
<1>1. cur \in Jobs /\ job \in [Jobs -> JobRecords] /\ job[cur] \in JobRecords
  BY WorkerHasAJob DEF RenderTypeOK
<1>2. ASSUME NEW s \in States, Leaves(s) PROVE job' \in [Jobs -> JobRecords]
  <2>1. Update(cur, [job[cur] EXCEPT !.state = s, !.pid = FALSE, !.marked = FALSE])
    BY <1>2 DEF Leaves
  <2>2. [job[cur] EXCEPT !.state = s, !.pid = FALSE, !.marked = FALSE] \in JobRecords
    BY <1>1 DEF JobRecords
  <2> QED BY <1>1, <2>1, <2>2, Updated
<1>3. CASE Export \/ ExportRefused \/ Interrupted \/ RenderFails \/ ExportFails
  BY <1>2, <1>3, KnownStates DEF Export, ExportRefused, Interrupted, RenderFails, ExportFails, Stopped
<1>4. CASE Requeue
  <2>1. [job[cur] EXCEPT !.state = "cancelled", !.marked = FALSE] \in JobRecords
    BY <1>1 DEF JobRecords, States, Stopped
  <2>2. [job[cur] EXCEPT !.state = "interrupted", !.marked = FALSE] \in JobRecords
    BY <1>1 DEF JobRecords, States, Stopped
  <2>3. [job[cur] EXCEPT !.state = "queued", !.marked = FALSE, !.requeues = @ + 1] \in JobRecords
    <3>1. job[cur].requeues + 1 \in Nat
      BY <1>1 DEF JobRecords
    <3>2. \A n \in Nat : [job[cur] EXCEPT !.state = "queued", !.marked = FALSE, !.requeues = n] \in JobRecords
      BY <1>1 DEF JobRecords, States
    <3> QED BY <3>1, <3>2
  <2>4. PICK r \in JobRecords : Update(cur, r)
    BY <1>4, <2>1, <2>2, <2>3 DEF Requeue
  <2> QED BY <1>1, <2>4, Updated
<1>5. CASE PromotedOnly
  BY <1>1, <1>5 DEF PromotedOnly
<1> QED BY <1>3, <1>4, <1>5 DEF Leaving

\* Requests and housekeeping; a job that is being rendered keeps its place.
LEMMA OtherJournal ==
  ASSUME RenderTypeOK, NEW j \in Jobs,
         Enqueue(j) \/ Cancel(j) \/ Retry(j) \/ ExpireFile(j) \/ ExpireJob(j)
  PROVE  /\ job' \in [Jobs -> JobRecords] /\ \A k \in Jobs \ {j} : job'[k] = job[k]
         /\ job[j].state \in Active =>
              job'[j].state = job[j].state /\ job'[j].marked = job[j].marked
<1>1. job \in [Jobs -> JobRecords] /\ job[j] \in JobRecords
  BY DEF RenderTypeOK
<1>2. ASSUME NEW s \in States, SetState(j, s)
      PROVE  job' \in [Jobs -> JobRecords] /\ \A k \in Jobs \ {j} : job'[k] = job[k]
  BY <1>1, <1>2, StateSet
<1>3. Enqueue(j) \/ Retry(j) => job[j].state \notin Active
  BY DEF Enqueue, Retry, Stopped
<1>4. CASE Enqueue(j)
  BY <1>2, <1>3, <1>4, KnownStates DEF Enqueue
<1>5. CASE Cancel(j)
  <2> DEFINE r == [job[j] EXCEPT !.cancel = TRUE, !.state = IF @ = "queued" THEN "cancelled" ELSE @]
  <2>1. r \in JobRecords /\ r.marked = job[j].marked /\ (job[j].state \in Active => r.state = job[j].state)
    BY <1>1 DEF JobRecords, States, Stopped
  <2>2. Update(j, r)
    BY <1>5 DEF Cancel
  <2> HIDE DEF r
  <2> QED BY <1>1, <2>1, <2>2, Updated
<1>6. CASE Retry(j)
  <2>1. [NewJob EXCEPT !.state = "queued", !.marked = job[j].marked] \in JobRecords
    BY <1>1 DEF JobRecords, States, NewJob
  <2> QED BY <1>1, <1>3, <1>6, <2>1, Updated DEF Retry
<1>7. CASE ExpireFile(j) \/ ExpireJob(j)
  <2>1. job[j].state \notin Active
    BY <1>7 DEF ExpireFile, ExpireJob
  <2>2. UNCHANGED job \/ SetState(j, "failed")
    BY <1>7 DEF ExpireFile, ExpireJob
  <2> QED BY <1>1, <1>2, <2>1, <2>2, KnownStates DEF Stopped
<1> QED BY <1>4, <1>5, <1>6, <1>7

LEMMA RecoverJournal ==
  ASSUME RenderTypeOK, NEW j \in Jobs, Recover(j)
  PROVE  job' \in [Jobs -> JobRecords] /\ \A k \in Jobs \ {j} : job'[k] = job[k]
BY StateSet, KnownStates DEF RenderTypeOK, Recover, Stopped

-----------------------------------------------------------------------------
(* The reel renderer: type correctness *)

LEMMA RenderInitType == RenderInit => RenderTypeOK
<1>1. NewJob \in JobRecords
  BY DEF NewJob, JobRecords, States
<1>2. RenderInit => Flags
  BY DEF RenderInit, Flags
<1> QED BY <1>1, <1>2 DEF RenderInit, RenderTypeOK

LEMMA StepFlags ==
  ASSUME Flags, [RenderNext]_renderVars
  PROVE  Flags'
BY DEF Flags, RenderNext, renderVars, Work, Start, Recover, Recovered, ClaimJob, Prepare, Spawn, RecordProcess, FallBack,
       Encoded, Verified, Copy, Export, Interrupted, ExportRefused, Requeue, Pressured, RenderFails, Stop,
       WorkerEnds, PromotedOnly, ExportFails, RenderCrash, OrphanExits, Enqueue, Cancel, Retry, ExpireFile, ExpireJob, StepTo, Leaves

\* Every step keeps the types.
LEMMA RenderStepType ==
  ASSUME RenderTypeOK, CurrentIsMarked, [RenderNext]_renderVars
  PROVE  RenderTypeOK'
<1> Flags'
  BY StepFlags DEF RenderTypeOK
<1> USE DEF RenderTypeOK
<1>1. CASE Rendering
  <2>1. job' \in [Jobs -> JobRecords] /\ cur \in Jobs
    BY <1>1, RenderingJournal, WorkerHasAJob
  <2>2. /\ UNCHANGED <<order, file, orphan, cur, seen, asks>> /\ at' \in Steps
        /\ proc' \in {proc, cur, NoJob}
    BY <1>1 DEF Rendering, Prepare, Spawn, RecordProcess, FallBack, Encoded, Verified, Copy, Pressured, StepTo
  <2>3. failures' \in 0..MaxFailures
    BY <1>1 DEF Rendering, Prepare, Spawn, RecordProcess, FallBack, Encoded, Verified, Copy, Pressured
  <2> QED BY <2>1, <2>2, <2>3
<1>2. CASE Leaving
  <2>1. job' \in [Jobs -> JobRecords] /\ cur \in Jobs
    BY <1>2, LeavingJournal, WorkerHasAJob
  <2>2. /\ UNCHANGED <<order, orphan, seen, asks>> /\ at' \in {"idle", "down"} /\ cur' = NoJob
        /\ proc' \in {proc, NoJob} /\ file' \in {file, [file EXCEPT ![cur] = "whole"]}
    BY <1>2 DEF Leaving, Export, ExportRefused, Interrupted, RenderFails, Requeue, PromotedOnly, ExportFails, Leaves
  <2>3. failures' \in 0..MaxFailures
    BY <1>2 DEF Leaving, Export, ExportRefused, Interrupted, RenderFails, Requeue, PromotedOnly, ExportFails
  <2> QED BY <2>1, <2>2, <2>3
<1>3. CASE Start \/ Recovered \/ Stop \/ WorkerEnds \/ OrphanExits
  <2>1. /\ UNCHANGED <<journal, cur, proc>> /\ orphan' \in {orphan, NoJob} /\ asks' = asks
        /\ at' \in {at, "recover", "idle", "down"} /\ failures' \in 0..MaxFailures
    BY <1>3 DEF Start, Recovered, Stop, WorkerEnds, OrphanExits
  <2>2. seen' \in [Jobs -> BOOLEAN]
    BY <1>3 DEF Start, Recovered, Stop, WorkerEnds, OrphanExits, JobRecords
  <2> QED BY <2>1, <2>2
<1>4. CASE RenderCrash
  <2>1. orphan' \in Jobs \cup {NoJob}
    BY <1>4 DEF RenderCrash
  <2> QED BY <1>4, <2>1 DEF RenderCrash
<1>5. CASE ClaimJob
  <2>1. PICK i \in Queued : cur' = order[i] /\ SetState(order[i], "rendering")
    BY <1>5 DEF ClaimJob
  <2>2. cur' \in Jobs
    BY <2>1 DEF Queued
  <2>3. job' \in [Jobs -> JobRecords]
    BY <2>1, <2>2, StateSet, KnownStates
  <2> QED BY <1>5, <2>2, <2>3 DEF ClaimJob
<1>6. ASSUME NEW j \in Jobs, Enqueue(j) \/ Cancel(j) \/ Retry(j) PROVE RenderTypeOK'
  <2>1. job' \in [Jobs -> JobRecords]
    BY <1>6, OtherJournal
  <2>2. order' \in Seq(Jobs)
    BY <1>6 DEF Enqueue, Cancel, Retry
  <2>3. asks' \in 0..MaxAsks
    BY <1>6 DEF Enqueue, Cancel, Retry
  <2>4. UNCHANGED <<file, orphan, worker, failures>>
    BY <1>6 DEF Enqueue, Cancel, Retry
  <2> QED BY <2>1, <2>2, <2>3, <2>4
<1>7. ASSUME NEW j \in Jobs, Recover(j) PROVE RenderTypeOK'
  <2>1. job' \in [Jobs -> JobRecords]
    BY <1>7, RecoverJournal
  <2>2. orphan' \in Jobs \cup {NoJob}
    BY <1>7 DEF Recover, Killed
  <2> QED BY <1>7, <2>1, <2>2 DEF Recover
<1>8. ASSUME NEW j \in Jobs, ExpireFile(j) \/ ExpireJob(j) PROVE RenderTypeOK'
  <2>1. job' \in [Jobs -> JobRecords]
    BY <1>8, OtherJournal
  <2>2. file' \in [Jobs -> {"none", "whole"}] /\ failures' \in 0..MaxFailures
    BY <1>8 DEF ExpireFile, ExpireJob
  <2>3. UNCHANGED <<order, orphan, cur, proc, seen, asks>> /\ at' \in {"idle", "expire"}
    BY <1>8 DEF ExpireFile, ExpireJob
  <2> QED BY <2>1, <2>2, <2>3
<1>9. CASE UNCHANGED renderVars
  BY <1>9 DEF renderVars
<1> QED
  BY <1>1, <1>2, <1>3, <1>4, <1>5, <1>6, <1>7, <1>8, <1>9 DEF RenderNext, Work, Rendering, Leaving

-----------------------------------------------------------------------------
(* One encoder *)

LEMMA StepSafe ==
  ASSUME RenderInv, [RenderNext]_renderVars
  PROVE  Safe'
<1> USE DEF RenderInv, Safe

<1>1. CASE Rendering
  <2>1. /\ at \in Steps /\ at' \in Steps /\ at' # "prepare" /\ UNCHANGED <<cur, orphan>>
        /\ cur \in Jobs /\ orphan = NoJob
    BY <1>1, WorkerHasAJob
    DEF Rendering, Prepare, Spawn, RecordProcess, FallBack, Encoded, Verified, Copy, Pressured, StepTo,
        OrphanWillBeFound
  <2>2. Prepare \/ job[cur].marked
    BY <1>1, <2>1 DEF CurrentIsMarked, Rendering, Spawn, RecordProcess, FallBack, Encoded, Verified, Copy, Pressured
  <2>3. job'[cur].state \in Active /\ job'[cur].marked
    BY <1>1, <2>2, RenderingJournal
  <2>4. proc' # NoJob => proc' = cur /\ at' \in {"record", "encode", "check"}
    BY <1>1 DEF Rendering, Prepare, Spawn, RecordProcess, FallBack, Encoded, Verified, Copy, Pressured, StepTo,
        ProcessIsSupervised
  <2> QED BY <2>1, <2>3, <2>4 DEF CurrentIsMarked, ProcessIsSupervised, OrphanWillBeFound
<1>2. CASE Leaving
  <2>1. orphan = NoJob /\ orphan' = orphan /\ at' \in {"idle", "down"}
    BY <1>2, WorkerHasAJob
    DEF Leaving, Export, ExportRefused, Interrupted, RenderFails, Requeue, PromotedOnly, ExportFails,
        Leaves, OrphanWillBeFound
  <2>2. proc' = NoJob
    BY <1>2
    DEF Leaving, Export, ExportRefused, Interrupted, RenderFails, Requeue, PromotedOnly, ExportFails,
        Leaves, ProcessIsSupervised
  <2> QED BY <2>1, <2>2 DEF CurrentIsMarked, ProcessIsSupervised, OrphanWillBeFound
<1>3. CASE Start \/ WorkerEnds \/ Stop
  BY <1>3 DEF Start, WorkerEnds, Stop, CurrentIsMarked, ProcessIsSupervised, OrphanWillBeFound
<1>4. CASE OrphanExits
  BY <1>4 DEF OrphanExits, CurrentIsMarked, ProcessIsSupervised, OrphanWillBeFound
<1>5. CASE Recovered
  BY <1>5 DEF Recovered, CurrentIsMarked, ProcessIsSupervised, OrphanWillBeFound
<1>6. CASE RenderCrash
  <2>1. orphan' # NoJob => \/ orphan' = orphan
                           \/ orphan' = cur /\ proc = cur /\ at \in {"record", "encode", "check"}
    BY <1>6 DEF RenderCrash, ProcessIsSupervised, CurrentIsMarked
  <2> QED BY <1>6, <2>1 DEF RenderCrash, CurrentIsMarked, ProcessIsSupervised, OrphanWillBeFound
<1>7. CASE ClaimJob
  <2>1. PICK i \in Queued : cur' = order[i] /\ SetState(order[i], "rendering")
    BY <1>7 DEF ClaimJob
  <2>2. cur' \in Jobs /\ job \in [Jobs -> JobRecords]
    BY <2>1 DEF Queued, RenderTypeOK
  <2>3. job'[cur'].state \in Active
    BY <2>1, <2>2, StateSet, KnownStates
  <2> QED BY <1>7, <2>2, <2>3 DEF ClaimJob, CurrentIsMarked, ProcessIsSupervised, OrphanWillBeFound
<1>8. ASSUME NEW j \in Jobs, Enqueue(j) \/ Cancel(j) \/ Retry(j) PROVE Safe'
  <2>1. UNCHANGED <<at, cur, proc, orphan>>
    BY <1>8 DEF Enqueue, Cancel, Retry
  <2>2. \A k \in Jobs : job[k].state \in Active =>
          job'[k].state = job[k].state /\ job'[k].marked = job[k].marked
    BY <1>8, OtherJournal
  <2> QED BY <2>1, <2>2 DEF CurrentIsMarked, ProcessIsSupervised, OrphanWillBeFound
<1>9. ASSUME NEW j \in Jobs, Recover(j) PROVE Safe'
  <2>1. orphan' # NoJob => orphan' = orphan /\ orphan # j
    BY <1>9 DEF Recover, Killed, OrphanWillBeFound
  <2>2. \A k \in Jobs \ {j} : job'[k] = job[k]
    BY <1>9, RecoverJournal
  <2>3. at = "recover" /\ UNCHANGED <<at, proc>>
    BY <1>9 DEF Recover
  <2> QED BY <2>1, <2>2, <2>3 DEF CurrentIsMarked, ProcessIsSupervised, OrphanWillBeFound
<1>10. ASSUME NEW j \in Jobs, ExpireFile(j) \/ ExpireJob(j) PROVE Safe'
  <2>1. at \in {"idle", "expire"} /\ at' \in {"idle", "expire"} /\ UNCHANGED <<proc, orphan>>
    BY <1>10 DEF ExpireFile, ExpireJob
  <2> QED BY <2>1 DEF CurrentIsMarked, ProcessIsSupervised, OrphanWillBeFound
<1>11. CASE UNCHANGED renderVars
  BY <1>11 DEF renderVars, CurrentIsMarked, ProcessIsSupervised, OrphanWillBeFound
<1> QED
  BY <1>1, <1>2, <1>3, <1>4, <1>5, <1>6, <1>7, <1>8, <1>9, <1>10, <1>11 DEF RenderNext, Work, Rendering, Leaving

\* The invariant holds in every state.
THEOREM RenderInductive == RenderSpec => []RenderInv
<1>1. RenderInit => RenderInv
  BY RenderInitType DEF RenderInit, RenderInv, Safe, CurrentIsMarked, ProcessIsSupervised, OrphanWillBeFound
<1>2. RenderInv /\ [RenderNext]_renderVars => RenderInv'
  BY RenderStepType, StepSafe DEF RenderInv, Safe
<1> QED BY <1>1, <1>2, PTL DEF RenderSpec

\* ReelCreator's variables keep their types.
THEOREM RenderTypeCorrect == RenderSpec => []RenderTypeOK
BY RenderInductive, PTL DEF RenderInv

\* OneEncoder: an encoder of this backend runs only in steps that come after recovery, and recovery
\* leaves no process of an earlier one.
THEOREM OneEncoderRuns == RenderSpec => []OneEncoder
<1>1. RenderInv => OneEncoder
  BY SMTT(30) DEF RenderInv, Safe, ProcessIsSupervised, OrphanWillBeFound, OneEncoder
<1> QED BY <1>1, RenderInductive, PTL

-----------------------------------------------------------------------------
(* Cancellations *)

\* CancelStopsTheExport: only the export's transaction promotes a file, and it looks at the
\* cancellation itself.
THEOREM CancelledStaysOut == RenderSpec => CancelStopsTheExport
<1> DEFINE Promotes(j) == file'[j] = "whole" /\ file[j] = "none"
<1>1. ASSUME RenderInv, RenderNext, NEW j \in Jobs, Promotes(j)
      PROVE  ~job[j].cancel
  <2> USE DEF RenderInv, RenderTypeOK
  <2>1. CASE Export \/ PromotedOnly \/ ExportFails
    BY <1>1, <2>1 DEF Export, PromotedOnly, ExportFails
  <2>2. ~UNCHANGED file
    BY <1>1
  <2>3. \A k \in Jobs : ~ExpireFile(k)
    BY <1>1 DEF ExpireFile
  <2> QED
    BY <1>1, <2>1, <2>2, <2>3
    DEF RenderNext, Work, Start, Recover, Recovered, ClaimJob, Prepare, Spawn, RecordProcess, FallBack, Encoded,
        Verified, Copy, ExportRefused, Interrupted, Requeue, Pressured, RenderFails, Stop, WorkerEnds,
        RenderCrash, OrphanExits, Enqueue, Cancel, Retry, ExpireJob
<1>2. RenderInv /\ [RenderNext]_renderVars => [\A j \in Jobs : Promotes(j) => ~job[j].cancel]_renderVars
  BY <1>1
<1> QED BY <1>2, RenderInductive, PTL DEF RenderSpec, CancelStopsTheExport
================================================================================
