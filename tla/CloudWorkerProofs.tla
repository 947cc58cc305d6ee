--------------------------- MODULE CloudWorkerProofs ---------------------------
(***************************************************************************)
(* Proofs about CloudWorker, for any attempts, any limit on accepted jobs  *)
(* and any number of crashes.  The types hold with both races that         *)
(* Overlaps names; what the cloud is told is proved without them.          *)
(***************************************************************************)
EXTENDS CloudWorker, TLAPS

-----------------------------------------------------------------------------
(* The inductive invariants *)

\* tick() is in the middle of an attempt of the journal.
TickKnown == tick # None => Known(tick.attempt)
TInv == TypeOK /\ TickKnown

\* Before its submission an attempt has no execution and no marker.
Early(a) == State(a) \in {"none", "accepted", "authorized"}

\* What the queue file says of an attempt agrees with its marker and its click.
QueueFits(a) ==
  /\ Early(a) => queue[a] = "absent" /\ a \notin intent
  /\ queue[a] \in {"pending", "cancelled"} => a \notin intent
  /\ queue[a] = "published" => a \in clicked
  /\ a \in clicked => a \in intent

\* An attempt is downloaded while it is authorized, unless a cancellation was
\* applied meanwhile: then its grant is gone for good.  Nothing interrupts it
\* between the check of the grant and the record of its submission.
TickFits(a) ==
  /\ tick = [attempt |-> a, step |-> "download"] =>
       \/ State(a) = "authorized"
       \/ State(a) = "terminal" /\ Cancel(a) \in sent /\ a \notin grants
  /\ tick = [attempt |-> a, step |-> "submit"] =>
       State(a) = "submitting" /\ queue[a] = "absent" /\ a \notin intent
  /\ tick = [attempt |-> a, step |-> "record"] => State(a) = "submitting"

\* The status an attempt was closed with is true, and stays so: nothing of it is
\* left that could still be published.
NotSent == {"cancelled", "failed_before_publish"}
EndFits(a) ==
  State(a) = "terminal" =>
    /\ journal[a].fingerprint \in NotSent =>
         a \notin clicked /\ queue[a] \in {"absent", "failed", "cancelled"}
    /\ journal[a].fingerprint = "published" => a \in clicked

\* A message about an execution repeats what the journal has recorded, and the
\* result is the last of them.
MessageFits(m) ==
  LET j == journal[m.attempt] IN
  /\ m.kind = "execution_event" =>
       /\ Known(m.attempt) /\ m.sequence <= j.sequence
       /\ j.state = "terminal" => m.sequence < j.sequence
  /\ m.kind = "execution_result" =>
       /\ Known(m.attempt) /\ j.state = "terminal"
       /\ m.status = j.fingerprint /\ m.sequence = j.sequence

CancelFits(a) ==
  applied[Cancel(a)] = "cancelled" =>
    State(a) = "terminal" /\ journal[a].fingerprint = "cancelled"

IInv ==
  /\ TInv
  /\ \A a \in Attempts : QueueFits(a) /\ TickFits(a) /\ EndFits(a) /\ CancelFits(a)
  /\ \A m \in outbox \cup saved : MessageFits(m)

-----------------------------------------------------------------------------
(* The types, whatever Overlaps allows *)

USE WorkerAssumption, NoneAssumption

LEMMA EntryFacts ==
  ASSUME TypeOK, NEW a \in Attempts
  PROVE  /\ Known(a) => /\ journal[a] \in Entry /\ State(a) = journal[a].state
                        /\ journal[a].sequence \in Nat /\ State(a) \in JournalStates
         /\ ~Known(a) => journal[a] = None /\ State(a) = "none"
         /\ Open(a) => Known(a) /\ State(a) # "terminal"
<1>1. journal[a] \in Entry \cup {None}
  BY DEF TypeOK
<1>2. Known(a) => /\ journal[a] \in Entry /\ State(a) = journal[a].state
                  /\ journal[a].sequence \in Nat /\ State(a) \in JournalStates
  BY <1>1 DEF Known, State, Entry
<1> QED BY <1>1, <1>2 DEF Known, State, Open

\* A message about an attempt, and what an observation adds to the journal.
LEMMA MessageFacts ==
  ASSUME TypeOK, NEW a \in Attempts, Known(a), NEW status \in Statuses
  PROVE  /\ MessageOf(a, status) = {Message(IF status \in Outcomes THEN "execution_result"
                                            ELSE "execution_event",
                                            a, status, journal[a].sequence + 1)}
         /\ \A m \in MessageOf(a, status) :
              /\ m \in Messages /\ m.attempt = a /\ m.status = status
              /\ m.sequence = journal[a].sequence + 1
              /\ m.kind = IF status \in Outcomes THEN "execution_result" ELSE "execution_event"
<1> DEFINE n == journal[a].sequence + 1
<1>1. journal[a].sequence \in Nat
  BY EntryFacts
<1>2. n \in Nat
  BY <1>1
<1> HIDE DEF n
<1>3. CASE status \in Outcomes
  <2>1. MessageOf(a, status) = {Message("execution_result", a, status, n)}
    BY <1>3 DEF MessageOf, n
  <2>2. Message("execution_result", a, status, n) \in Messages
    BY <1>2, <1>3 DEF Message, Messages
  <2> QED BY <1>3, <2>1, <2>2 DEF Message, n
<1>4. CASE status \notin Outcomes
  <2>1. MessageOf(a, status) = {Message("execution_event", a, status, n)}
    BY <1>4 DEF MessageOf, n
  <2>2. Message("execution_event", a, status, n) \in Messages
    BY <1>2, <1>4 DEF Message, Messages
  <2> QED BY <1>4, <2>1, <2>2 DEF Message, n
<1> QED BY <1>3, <1>4

\* An attempt that is not closed is observed: the journal and the outbox change
\* together, or neither does.
LEMMA ObserveFacts ==
  ASSUME TypeOK, NEW a \in Attempts, Known(a), NEW status \in Statuses, Observe(a, status)
  PROVE  \/ UNCHANGED <<journal, outbox>> /\ ObservedAlready(a, status)
         \/ /\ State(a) # "terminal" /\ outbox' = outbox \cup MessageOf(a, status)
            /\ \E j \in Entry :
                 /\ journal' = [journal EXCEPT ![a] = j]
                 /\ j.state = IF status \in Outcomes THEN "terminal" ELSE State(a)
                 /\ j.fingerprint = status /\ j.sequence = journal[a].sequence + 1
<1> SUFFICES ASSUME ~ObservedAlready(a, status)
             PROVE  /\ State(a) # "terminal" /\ outbox' = outbox \cup MessageOf(a, status)
                    /\ \E j \in Entry :
                         /\ journal' = [journal EXCEPT ![a] = j]
                         /\ j.state = IF status \in Outcomes THEN "terminal" ELSE State(a)
                         /\ j.fingerprint = status /\ j.sequence = journal[a].sequence + 1
  BY DEF Observe
<1>1. journal[a].sequence + 1 \in Nat /\ State(a) \in JournalStates
      /\ State(a) = journal[a].state
  BY EntryFacts
<1>2. State(a) # "terminal"
  BY <1>1 DEF ObservedAlready
<1> DEFINE s == IF status \in Outcomes THEN "terminal" ELSE State(a)
           j == [state |-> s, fingerprint |-> status, sequence |-> journal[a].sequence + 1]
<1>3. s \in JournalStates
  BY <1>1 DEF JournalStates
<1>4. journal' = [journal EXCEPT ![a] = j] /\ outbox' = outbox \cup MessageOf(a, status)
  BY <1>1 DEF Observe
<1>5. j \in Entry
  BY <1>1, <1>3 DEF Entry
<1>6. j.state = s /\ j.fingerprint = status /\ j.sequence = journal[a].sequence + 1
  OBVIOUS
<1> HIDE DEF j
<1> QED BY <1>2, <1>4, <1>5, <1>6

\* A renewal changes the state of accepted attempts, and nothing else.
LEMMA RenewedFacts ==
  ASSUME TypeOK, NEW leases, journal' = Renewed(journal, leases)
  PROVE  /\ journal' \in [Attempts -> Entry \cup {None}]
         /\ \A a \in Attempts :
              \/ journal'[a] = journal[a]
              \/ /\ State(a) = "accepted" /\ State(a)' = "authorized"
                 /\ Known(a) /\ Known(a)' /\ journal'[a].sequence = journal[a].sequence
<1>1. ASSUME NEW a \in Attempts
      PROVE  /\ journal'[a] \in Entry \cup {None}
             /\ \/ journal'[a] = journal[a]
                \/ /\ State(a) = "accepted" /\ State(a)' = "authorized"
                   /\ Known(a) /\ Known(a)' /\ journal'[a].sequence = journal[a].sequence
  <2>1. CASE journal'[a] = journal[a]
    BY <2>1 DEF TypeOK
  <2>2. CASE journal'[a] # journal[a]
    <3> DEFINE j == [journal[a] EXCEPT !.state = "authorized"]
    <3>1. journal'[a] = j /\ Known(a) /\ journal[a].state = "accepted"
      BY <2>2 DEF Renewed, Known
    <3>2. journal[a] \in Entry /\ State(a) = "accepted"
      BY <3>1, EntryFacts
    <3>3. j \in Entry /\ j.state = "authorized" /\ j.sequence = journal[a].sequence
      BY <3>2 DEF Entry, JournalStates
    <3>4. j # None
      BY <3>3
    <3> HIDE DEF j
    <3> QED BY <3>1, <3>2, <3>3, <3>4 DEF Known, State
  <2> QED BY <2>1, <2>2
<1>2. journal' = [a \in Attempts |-> journal'[a]]
  BY DEF Renewed
<1> QED BY <1>1, <1>2

\* What a step has to show of the types.
LEMMA TStep ==
  ASSUME TInv,
         online' \in BOOLEAN /\ paused' \in BOOLEAN,
         tick' \in Ticks \cup {None}, grants' \subseteq Attempts,
         ~online' => tick' = None /\ grants' = {},
         journal' \in [Attempts -> Entry \cup {None}],
         \A a \in Attempts : Known(a) => Known(a)',
         tick' \in {tick, None} \/ Known(tick'.attempt),
         \A m \in outbox' \cup saved' : m \in Messages,
         applied' \in [Commands -> CommandResults \cup {None}],
         queue' \in [Attempts -> Local],
         intent' \subseteq Attempts /\ clicked' \subseteq Attempts,
         sent' \subseteq Commands, crashes' \in 0..MaxCrashes
  PROVE  TInv'
<1>1. TypeOK'
  BY DEF TypeOK
<1>2. ASSUME tick' # None
      PROVE  journal'[tick'.attempt] # None
  <2>1. tick'.attempt \in Attempts
    BY <1>2 DEF Ticks
  <2>2. Known(tick'.attempt)
    BY <1>2 DEF TInv, TickKnown
  <2> QED BY <2>1, <2>2 DEF Known
<1> QED BY <1>1, <1>2 DEF TInv, TickKnown, Known

LEMMA TSession ==
  ASSUME TInv, \/ Connect \/ Disconnect \/ HeartbeatAck
               \/ \E a \in Attempts : GrantExpires(a) \/ Offer(a) \/ Start(a)
  PROVE  TInv'
<1> USE DEF cloud, local
<1>1. CASE Connect
  <2>1. journal' \in [Attempts -> Entry \cup {None}] /\ \A a \in Attempts : Known(a) => Known(a)'
    BY <1>1, RenewedFacts DEF Connect, TInv, Known
  <2> QED BY <1>1, <2>1, TStep DEF Connect, TInv, TypeOK
<1>2. CASE HeartbeatAck
  <2>1. journal' \in [Attempts -> Entry \cup {None}] /\ \A a \in Attempts : Known(a) => Known(a)'
    BY <1>2, RenewedFacts DEF HeartbeatAck, TInv, Known
  <2> QED BY <1>2, <2>1, TStep DEF HeartbeatAck, TInv, TypeOK
<1>3. CASE Disconnect
  <2>1. /\ online' = FALSE /\ tick' = None /\ grants' = {}
        /\ UNCHANGED <<journal, outbox, applied, paused, local, cloud, crashes>>
    BY <1>3 DEF Disconnect, AfterSession
  <2> QED BY <2>1, TStep DEF TInv, TypeOK, Known
<1>4. ASSUME NEW a \in Attempts, GrantExpires(a)
      PROVE  TInv'
  BY <1>4, TStep DEF GrantExpires, TInv, TypeOK, Known
<1>5. ASSUME NEW a \in Attempts, Start(a)
      PROVE  TInv'
  <2>1. journal' \in [Attempts -> Entry \cup {None}] /\ \A b \in Attempts : Known(b) => Known(b)'
    BY <1>5, RenewedFacts DEF Start, TInv, Known
  <2> QED BY <1>5, <2>1, TStep DEF Start, TInv, TypeOK
<1>6. ASSUME NEW a \in Attempts, Offer(a)
      PROVE  TInv'
  <2> DEFINE j == [state |-> "accepted", fingerprint |-> None, sequence |-> 0]
  <2>1. j \in Entry
    BY DEF Entry, JournalStates
  <2>2. j # None
    BY <2>1
  <2>3. journal' = journal \/ journal' = [journal EXCEPT ![a] = j]
    BY <1>6 DEF Offer
  <2> HIDE DEF j
  <2>4. journal' \in [Attempts -> Entry \cup {None}] /\ \A b \in Attempts : Known(b) => Known(b)'
    BY <2>1, <2>2, <2>3 DEF TInv, TypeOK, Known
  <2>5. \A m \in outbox' \cup saved' : m \in Messages
    BY <1>6 DEF Offer, TInv, TypeOK, Acceptance, Rejection, Message, Messages
  <2> QED BY <1>6, <2>4, <2>5, TStep DEF Offer, TInv, TypeOK
<1> QED BY <1>1, <1>2, <1>3, <1>4, <1>5, <1>6

LEMMA TMessages ==
  ASSUME TInv, NEW m \in outbox, Deliver(m) \/ Acknowledge(m)
  PROVE  TInv'
BY TStep DEF Deliver, Acknowledge, TInv, TypeOK, Known, cloud, local

LEMMA TCommand ==
  ASSUME TInv, CommandStep
  PROVE  TInv'
<1> USE DEF cloud, local
<1>1. ASSUME NEW c \in Commands, PauseOrResume(c)
      PROVE  TInv'
  BY <1>1, TStep DEF PauseOrResume, Respond, TInv, TypeOK, Known, CommandResults
<1>2. \A a \in Attempts : Cancel(a) \in Commands
  BY DEF Commands, Cancel
<1>3. ASSUME NEW a \in Attempts, CancelTooLate(a)
      PROVE  TInv'
  BY <1>2, <1>3, TStep DEF CancelTooLate, Respond, TInv, TypeOK, Known, CommandResults
<1>4. ASSUME NEW a \in Attempts, CancelApplies(a)
      PROVE  TInv'
  <2> DEFINE j == [state |-> "terminal", fingerprint |-> "cancelled",
                   sequence |-> journal[a].sequence + 1]
  <2>1. Known(a) /\ journal[a].sequence + 1 \in Nat
    BY <1>4, EntryFacts DEF CancelApplies, TInv
  <2>2. j \in Entry
    BY <2>1 DEF Entry, JournalStates, Statuses, Outcomes
  <2>3. j # None
    BY <2>2
  <2>4. journal' = [journal EXCEPT ![a] = j]
    BY <1>4 DEF CancelApplies
  <2> HIDE DEF j
  <2>5. journal' \in [Attempts -> Entry \cup {None}] /\ \A b \in Attempts : Known(b) => Known(b)'
    BY <2>2, <2>3, <2>4 DEF TInv, TypeOK, Known
  <2>6. \A m \in MessageOf(a, "cancelled") : m \in Messages
    BY <2>1, MessageFacts DEF TInv, Statuses, Outcomes
  <2>7. queue' \in [Attempts -> Local]
    BY <1>4 DEF CancelApplies, TInv, TypeOK, Local
  <2>8. /\ applied' \in [Commands -> CommandResults \cup {None}] /\ sent' \subseteq Commands
        /\ grants' \subseteq Attempts
    BY <1>2, <1>4 DEF CancelApplies, Respond, CommandResults, TInv, TypeOK
  <2> QED BY <1>4, <2>5, <2>6, <2>7, <2>8, TStep DEF CancelApplies, TInv, TypeOK
<1> QED BY <1>1, <1>3, <1>4 DEF CommandStep

\* An observation keeps the types.
LEMMA TObserve ==
  ASSUME TInv, NEW a \in Attempts, Known(a), NEW status \in Statuses, Observe(a, status),
         tick' \in {tick, None},
         UNCHANGED <<online, grants, applied, paused, local, cloud, crashes>>
  PROVE  TInv'
<1> USE DEF cloud, local
<1>1. CASE UNCHANGED <<journal, outbox>>
  <2>1. journal' \in [Attempts -> Entry \cup {None}] /\ \A b \in Attempts : Known(b) => Known(b)'
    BY <1>1 DEF TInv, TypeOK, Known
  <2>2. \A m \in outbox' \cup saved' : m \in Messages
    BY <1>1 DEF TInv, TypeOK
  <2> QED BY <2>1, <2>2, TStep DEF TInv, TypeOK
<1>2. CASE ~UNCHANGED <<journal, outbox>>
  <2>1. PICK j \in Entry : journal' = [journal EXCEPT ![a] = j]
    BY <1>2, ObserveFacts DEF TInv
  <2>2. \A m \in outbox' : m \in Messages
    BY <1>2, ObserveFacts, MessageFacts DEF TInv, TypeOK
  <2>3. journal' \in [Attempts -> Entry \cup {None}] /\ \A b \in Attempts : Known(b) => Known(b)'
    BY <2>1 DEF TInv, TypeOK, Known
  <2> QED BY <2>2, <2>3, TStep DEF TInv, TypeOK
<1> QED BY <1>1, <1>2

\* A snapshot is reported with a status of the protocol.
LEMMA ReportedFacts ==
  ASSUME TypeOK, NEW a \in Attempts, InQueue(a)
  PROVE  /\ Reported(a) \in Statuses
         /\ Reported(a) = "cancelled" => queue[a] = "cancelled"
         /\ Reported(a) = "failed_before_publish" => queue[a] = "failed" /\ a \notin intent
         /\ Reported(a) = "published" => queue[a] = "published"
<1>1. queue[a] \in {"pending", "running", "published", "failed", "uncertain", "cancelled"}
  BY DEF TypeOK, InQueue, Local
<1>2. CASE queue[a] = "failed" /\ a \notin intent
  BY <1>2 DEF Reported, Statuses, Outcomes
<1>3. CASE queue[a] = "uncertain" \/ (queue[a] = "failed" /\ a \in intent)
  BY <1>3 DEF Reported, Statuses, Outcomes
<1>4. CASE queue[a] \notin {"failed", "uncertain"}
  BY <1>1, <1>4 DEF Reported, Statuses, Outcomes
<1> QED BY <1>2, <1>3, <1>4

LEMMA TTick ==
  ASSUME TInv, NEW a \in Attempts, TickStep(a)
  PROVE  TInv'
<1> USE DEF cloud, local
<1>1. CASE DownloadBegins(a)
  <2>1. tick' \in Ticks /\ tick'.attempt = a
    BY <1>1 DEF DownloadBegins, Ticks
  <2>2. Known(a)
    BY <1>1, EntryFacts DEF DownloadBegins, TInv
  <2>3. UNCHANGED <<online, grants, journal, outbox, applied, paused, local, cloud, crashes>>
        /\ online
    BY <1>1 DEF DownloadBegins
  <2> QED BY <2>1, <2>2, <2>3, TStep DEF TInv, TypeOK, Known
<1>2. ASSUME NEW s \in {"download", "submit", "record"}, tick = [attempt |-> a, step |-> s]
      PROVE  tick # None /\ Known(a) /\ online
  <2>1. tick \in Ticks
    BY <1>2 DEF Ticks
  <2>2. tick # None /\ tick.attempt = a
    BY <1>2, <2>1
  <2> QED BY <2>2 DEF TInv, TypeOK, TickKnown
<1>3. CASE DownloadFails(a) \/ SubmitFails(a)
  BY <1>2, <1>3, TObserve DEF DownloadFails, SubmitFails, Statuses, Outcomes
<1>4. CASE DownloadEnds(a)
  <2>1. tick = [attempt |-> a, step |-> "download"] /\ Known(a) /\ online
    BY <1>2, <1>4 DEF DownloadEnds
  <2>2. tick' = None \/ tick' = [attempt |-> a, step |-> "submit"]
    BY <1>4, <2>1 DEF DownloadEnds
  <2>3. tick' \in Ticks \cup {None} /\ (tick' = None \/ tick'.attempt = a)
    BY <2>2 DEF Ticks
  <2>4. journal' \in [Attempts -> Entry \cup {None}] /\ \A b \in Attempts : Known(b) => Known(b)'
    <3> DEFINE j == [journal[a] EXCEPT !.state = "submitting"]
    <3>1. journal[a] \in Entry
      BY <2>1, EntryFacts DEF TInv
    <3>2. j \in Entry
      BY <3>1 DEF Entry, JournalStates
    <3>3. j # None
      BY <3>2
    <3>4. journal' = journal \/ journal' = [journal EXCEPT ![a] = j]
      BY <1>4 DEF DownloadEnds, Goes
    <3> HIDE DEF j
    <3> QED BY <3>2, <3>3, <3>4 DEF TInv, TypeOK, Known
  <2>5. UNCHANGED <<online, grants, outbox, applied, paused, local, cloud, crashes>>
    BY <1>4 DEF DownloadEnds
  <2> QED BY <2>1, <2>3, <2>4, <2>5, TStep DEF TInv, TypeOK
<1>5. CASE Submit(a)
  <2>1. tick = [attempt |-> a, step |-> "submit"] /\ Known(a) /\ online
    BY <1>2, <1>5 DEF Submit
  <2>2. tick' = [attempt |-> a, step |-> "record"]
    BY <1>5, <2>1 DEF Submit
  <2>3. tick' \in Ticks /\ tick'.attempt = a
    BY <2>2 DEF Ticks
  <2>4. queue' \in [Attempts -> Local]
    BY <1>5 DEF Submit, TInv, TypeOK, Local
  <2>5. UNCHANGED <<online, grants, journal, outbox, applied, paused, intent, clicked, cloud, crashes>>
    BY <1>5 DEF Submit
  <2> QED BY <2>1, <2>3, <2>4, <2>5, TStep DEF TInv, TypeOK, Known
<1>6. CASE Record(a)
  <2> DEFINE j == [state |-> "submitted", fingerprint |-> "pending",
                   sequence |-> journal[a].sequence + 1]
  <2>1. Known(a) /\ journal[a].sequence + 1 \in Nat
    BY <1>2, <1>6, EntryFacts DEF Record, TInv
  <2>2. j \in Entry
    BY <2>1 DEF Entry, JournalStates, Statuses, Outcomes
  <2>3. j # None
    BY <2>2
  <2>4. journal' = [journal EXCEPT ![a] = j]
    BY <1>6 DEF Record
  <2> HIDE DEF j
  <2>5. journal' \in [Attempts -> Entry \cup {None}] /\ \A b \in Attempts : Known(b) => Known(b)'
    BY <2>2, <2>3, <2>4 DEF TInv, TypeOK, Known
  <2>6. \A m \in MessageOf(a, "pending") : m \in Messages
    BY <2>1, MessageFacts DEF TInv, Statuses, Outcomes
  <2>7. /\ tick' = None /\ outbox' = outbox \cup MessageOf(a, "pending")
        /\ UNCHANGED <<online, grants, applied, paused, local, cloud, crashes>>
    BY <1>6 DEF Record
  <2> QED BY <2>5, <2>6, <2>7, TStep DEF TInv, TypeOK
<1>7. CASE TickObserves(a)
  <2>1. Known(a) /\ tick' = tick
        /\ UNCHANGED <<online, grants, applied, paused, local, cloud, crashes>>
    BY <1>7, EntryFacts DEF TickObserves, TInv
  <2>2. \E status \in Statuses : Observe(a, status)
    BY <1>7, ReportedFacts DEF TickObserves, TInv, Statuses, Outcomes
  <2> QED BY <2>1, <2>2, TObserve
<1> QED BY <1>1, <1>3, <1>4, <1>5, <1>6, <1>7 DEF TickStep

LEMMA TExecution ==
  ASSUME TInv, NEW a \in Attempts, Execution(a)
  PROVE  TInv'
<1> USE DEF cloud, local
<1>1. /\ UNCHANGED <<online, tick, grants, journal, outbox, applied, paused, cloud, crashes>>
      /\ intent' \subseteq Attempts /\ clicked' \subseteq Attempts
  BY DEF Execution, Claim, RecordIntent, Click, ExecutionEnds, Resolve, Delete, TInv, TypeOK
<1>2. queue' \in [Attempts -> Local]
  <2>1. \/ queue' = queue
        \/ \E status \in {"running", "failed", "uncertain", "published", "absent", "detached"} :
             queue' = [queue EXCEPT ![a] = status]
    BY DEF Execution, Claim, RecordIntent, Click, ExecutionEnds, Resolve, Delete, Endings
  <2> QED BY <2>1 DEF TInv, TypeOK, Local
<1> QED BY <1>1, <1>2, TStep DEF TInv, TypeOK, Known

LEMMA TCrash ==
  ASSUME TInv, Crash
  PROVE  TInv'
<1>1. /\ online' = FALSE /\ tick' = None /\ grants' = {}
      /\ UNCHANGED <<journal, outbox, applied, paused, intent, saved>>
  BY DEF Crash
<1>2. clicked' \subseteq Attempts
  BY DEF Crash, TInv, TypeOK
<1>3. queue' \in [Attempts -> Local]
  BY DEF Crash, TInv, TypeOK, Local
<1>4. sent' \subseteq Commands
  <2>1. \A a \in Attempts : Cancel(a) \in Commands
    BY DEF Commands, Cancel
  <2>2. sent' = sent \/ \E a \in Attempts : sent' = sent \cup {Cancel(a)}
    BY DEF Crash, Torn
  <2> QED BY <2>1, <2>2 DEF TInv, TypeOK
<1>5. crashes' \in 0..MaxCrashes
  <2>1. crashes \in 0..MaxCrashes
    BY DEF TInv, TypeOK
  <2>2. crashes < MaxCrashes /\ crashes' = crashes + 1
    BY DEF Crash
  <2> QED BY <2>1, <2>2
<1>6. journal' \in [Attempts -> Entry \cup {None}] /\ \A a \in Attempts : Known(a) => Known(a)'
  BY <1>1 DEF TInv, TypeOK, Known
<1>7. /\ \A m \in outbox' \cup saved' : m \in Messages
      /\ paused' \in BOOLEAN /\ intent' \subseteq Attempts
      /\ applied' \in [Commands -> CommandResults \cup {None}]
  BY <1>1 DEF TInv, TypeOK
<1>8. tick' \in Ticks \cup {None} /\ grants' \subseteq Attempts /\ online' \in BOOLEAN
  BY <1>1

<1> QED BY <1>1, <1>2, <1>3, <1>4, <1>5, <1>6, <1>7, <1>8, TStep

LEMMA InitT == Init => TInv
<1> SUFFICES ASSUME Init PROVE TInv
  OBVIOUS
<1>1. queue \in [Attempts -> Local] /\ crashes \in 0..MaxCrashes
  BY DEF Init, Local
<1>2. applied \in [Commands -> CommandResults \cup {None}]
  BY DEF Init
<1>3. journal \in [Attempts -> Entry \cup {None}]
  BY DEF Init
<1> QED BY <1>1, <1>2, <1>3 DEF Init, TInv, TypeOK, TickKnown

LEMMA NextT == TInv /\ [Next]_vars => TInv'
<1>1. CASE UNCHANGED vars
  BY <1>1 DEF TInv, TypeOK, TickKnown, Known, vars, cloud, local
<1> QED BY <1>1, TSession, TMessages, TCommand, TTick, TExecution, TCrash DEF Next

\* The journal, the outbox, the queue file and the session always have their
\* types, with both races of Overlaps too.
THEOREM TypeCorrect == Spec => []TypeOK
<1>1. TInv => TypeOK
  BY DEF TInv
<1> QED BY <1>1, InitT, NextT, PTL DEF Spec

-----------------------------------------------------------------------------
(* The kinds of step *)

\* No step of tick() is under way.
LEMMA TickAtRest ==
  ASSUME tick' = None
  PROVE  \A a \in Attempts : TickFits(a)'
<1>1. ASSUME NEW a \in Attempts, NEW s \in {"download", "submit", "record"}
      PROVE  tick' # [attempt |-> a, step |-> s]
  <2>1. [attempt |-> a, step |-> s] \in Ticks
    BY DEF Ticks
  <2> QED BY <2>1
<1> QED BY <1>1 DEF TickFits

\* A step that leaves the execution alone, closes no attempt and tells the cloud
\* nothing new of one.
LEMMA Moves ==
  ASSUME IInv, TInv', UNCHANGED <<queue, intent, clicked>>,
         \A a \in Attempts :
           \/ journal'[a] = journal[a]
           \/ /\ State(a) # "terminal" /\ Known(a)' /\ State(a)' # "terminal"
              /\ Known(a) => journal'[a].sequence = journal[a].sequence
              /\ Early(a)' => Early(a),
         \A m \in outbox' \cup saved' :
           m \in outbox \cup saved \/ m.kind \in {"job_accept", "job_reject"},
         \A a \in Attempts : applied'[Cancel(a)] = "cancelled" => applied[Cancel(a)] = "cancelled",
         \A a \in Attempts : TickFits(a)'
  PROVE  IInv'
<1>1. ASSUME NEW a \in Attempts
      PROVE  QueueFits(a)' /\ EndFits(a)' /\ CancelFits(a)'
  <2>1. QueueFits(a) /\ EndFits(a) /\ CancelFits(a)
    BY DEF IInv
  <2>2. CASE journal'[a] = journal[a]
    <3>1. State(a)' = State(a)
      BY <2>2 DEF State, Known
    <3>2. (Early(a)' <=> Early(a)) /\ journal'[a] = journal[a]
      BY <2>2, <3>1 DEF Early
    <3> QED BY <2>1, <3>1, <3>2 DEF QueueFits, EndFits, CancelFits
  <2>3. CASE journal'[a] # journal[a]
    <3>1. State(a) # "terminal" /\ State(a)' # "terminal" /\ (Early(a)' => Early(a))
      BY <2>3
    <3> QED BY <2>1, <3>1 DEF QueueFits, EndFits, CancelFits
  <2> QED BY <2>2, <2>3
<1>2. ASSUME NEW m \in outbox' \cup saved'
      PROVE  MessageFits(m)'
  <2>1. m \in Messages
    BY DEF TInv, TypeOK
  <2>2. m.attempt \in Attempts /\ m.sequence \in Nat
    BY <2>1 DEF Messages
  <2>3. CASE m.kind \in {"job_accept", "job_reject"}
    BY <2>3 DEF MessageFits
  <2>4. CASE m.kind \notin {"job_accept", "job_reject"}
    <3>1. MessageFits(m)
      BY <2>4 DEF IInv
    <3>2. CASE journal'[m.attempt] = journal[m.attempt]
      BY <3>1, <3>2 DEF MessageFits, Known
    <3>3. CASE journal'[m.attempt] # journal[m.attempt]
      <4>1. State(m.attempt) # "terminal" /\ Known(m.attempt)' /\ State(m.attempt)' # "terminal"
        BY <2>2, <3>3
      <4>2. Known(m.attempt) => journal'[m.attempt].sequence = journal[m.attempt].sequence
        BY <2>2, <3>3
      <4>3. journal'[m.attempt].state # "terminal"
        BY <4>1 DEF State
      <4>4. Known(m.attempt) => journal[m.attempt].state # "terminal"
        BY <4>1 DEF State
      <4> QED BY <3>1, <4>1, <4>2, <4>3, <4>4 DEF MessageFits
    <3> QED BY <3>2, <3>3
  <2> QED BY <2>3, <2>4
<1> QED BY <1>1, <1>2 DEF IInv

\* The journal records a status of an attempt, and the outbox the message about it.
Records(a, status, j) ==
  /\ journal' = [journal EXCEPT ![a] = j]
  /\ j.fingerprint = status /\ j.sequence = journal[a].sequence + 1
  /\ status \in Outcomes <=> j.state = "terminal"
  /\ j.state \in {"accepted", "authorized"} => Early(a)
  /\ outbox' = outbox \cup MessageOf(a, status) /\ saved' = saved

\* Such a step keeps the invariant when the status is true of the attempt.
LEMMA Told ==
  ASSUME IInv, TInv', NEW a \in Attempts, NEW status \in Statuses, Open(a),
         NEW j \in Entry, Records(a, status, j), UNCHANGED <<intent, clicked>>,
         \A b \in Attempts : b # a => queue'[b] = queue[b],
         queue'[a] = queue[a] \/ (queue'[a] = "cancelled" /\ a \notin intent /\ ~Early(a)'),
         status \in NotSent =>
           a \notin clicked /\ queue'[a] \in {"absent", "failed", "cancelled"},
         status = "published" => a \in clicked,
         \A b \in Attempts : applied'[Cancel(b)] = "cancelled" =>
           applied[Cancel(b)] = "cancelled" \/ (b = a /\ status = "cancelled"),
         \A b \in Attempts : TickFits(b)'
  PROVE  IInv'
<1> USE DEF Records
<1>1. /\ Known(a) /\ State(a) # "terminal" /\ journal[a].sequence \in Nat
      /\ State(a) = journal[a].state
  BY EntryFacts DEF IInv, TInv
<1>2. journal'[a] = j /\ j # None /\ \A b \in Attempts : b # a => journal'[b] = journal[b]
  BY DEF IInv, TInv, TypeOK
<1>3. Known(a)' /\ State(a)' = j.state
  BY <1>2 DEF Known, State
<1>4. ASSUME NEW b \in Attempts, b # a
      PROVE  QueueFits(b)' /\ EndFits(b)' /\ CancelFits(b)'
  <2>1. QueueFits(b) /\ EndFits(b) /\ CancelFits(b)
    BY DEF IInv
  <2>2. journal'[b] = journal[b] /\ queue'[b] = queue[b]
    BY <1>2, <1>4
  <2>3. State(b)' = State(b)
    BY <2>2 DEF State, Known
  <2>4. Early(b)' <=> Early(b)
    BY <2>3 DEF Early
  <2>5. applied'[Cancel(b)] = "cancelled" => applied[Cancel(b)] = "cancelled"
    BY <1>4
  <2> QED BY <2>1, <2>2, <2>3, <2>4, <2>5 DEF QueueFits, EndFits, CancelFits
<1>5. QueueFits(a)'
  <2>1. j.state # "none"
    BY DEF Entry, JournalStates
  <2>2. Early(a)' => Early(a)
    BY <1>3, <2>1 DEF Early
  <2>3. QueueFits(a)
    BY DEF IInv
  <2> QED BY <2>2, <2>3 DEF QueueFits
<1>6. EndFits(a)'
  BY <1>2, <1>3 DEF EndFits
<1>7. CancelFits(a)'
  <2>1. applied[Cancel(a)] # "cancelled"
    BY <1>1 DEF IInv, CancelFits
  <2>2. applied'[Cancel(a)] = "cancelled" => status = "cancelled"
    BY <2>1
  <2>3. status = "cancelled" => j.state = "terminal" /\ j.fingerprint = "cancelled"
    BY DEF Outcomes
  <2> QED BY <1>2, <1>3, <2>2, <2>3 DEF CancelFits
<1>8. ASSUME NEW m \in outbox \cup saved
      PROVE  MessageFits(m)'
  <2>1. m \in Messages /\ MessageFits(m)
    BY DEF IInv, TInv, TypeOK
  <2>2. m.attempt \in Attempts /\ m.sequence \in Nat
    BY <2>1 DEF Messages
  <2>3. CASE m.attempt # a
    <3>1. journal'[m.attempt] = journal[m.attempt]
      BY <1>2, <2>2, <2>3
    <3> QED BY <2>1, <3>1 DEF MessageFits, Known
  <2>4. CASE m.attempt = a
    <3>1. m.kind # "execution_result"
      BY <1>1, <2>1, <2>4 DEF MessageFits
    <3>2. m.kind = "execution_event" => m.sequence < j.sequence /\ m.sequence <= j.sequence
      <4>1. m.kind = "execution_event" => m.sequence <= journal[a].sequence
        BY <2>1, <2>4 DEF MessageFits
      <4> QED BY <1>1, <2>2, <4>1
    <3> QED BY <1>2, <1>3, <2>4, <3>1, <3>2 DEF MessageFits
  <2> QED BY <2>3, <2>4
<1>9. ASSUME NEW m \in MessageOf(a, status)
      PROVE  MessageFits(m)'
  <2>1. /\ m.attempt = a /\ m.status = status /\ m.sequence = j.sequence
        /\ m.kind = IF status \in Outcomes THEN "execution_result" ELSE "execution_event"
    BY <1>1, MessageFacts DEF IInv, TInv
  <2>2. j.sequence \in Nat
    BY <1>1
  <2> QED BY <1>2, <1>3, <2>1, <2>2 DEF MessageFits
<1> QED BY <1>4, <1>5, <1>6, <1>7, <1>8, <1>9 DEF IInv

\* A step of the posting queue or of the browser worker.
LEMMA LocalMoves ==
  ASSUME IInv, TInv', UNCHANGED <<journal, outbox, saved, applied>>,
         \A a \in Attempts : QueueFits(a)' /\ EndFits(a)' /\ TickFits(a)'
  PROVE  IInv'
<1>1. \A a \in Attempts : CancelFits(a)'
  BY DEF IInv, CancelFits, State, Known
<1>2. \A m \in outbox' \cup saved' : MessageFits(m)'
  BY DEF IInv, MessageFits, Known
<1> QED BY <1>1, <1>2 DEF IInv

-----------------------------------------------------------------------------
(* Every step, without the two races *)

\* What an invariant state says of one attempt.
LEMMA AttemptFacts ==
  ASSUME IInv, NEW a \in Attempts
  PROVE  /\ QueueFits(a) /\ TickFits(a) /\ EndFits(a) /\ CancelFits(a)
         /\ queue[a] \in Local
         /\ State(a) = "terminal" => ~Open(a)
         /\ Open(a) => Known(a)
BY EntryFacts DEF IInv, TInv, TypeOK, Open

\* Grants are given and journal entries renewed while tick() is in a download at most.
LEMMA Leases ==
  ASSUME IInv, TInv', NEW leases, journal' = Renewed(journal, leases),
         UNCHANGED <<queue, intent, clicked, applied, saved, sent>>, outbox' \subseteq outbox,
         tick' \in {tick, None}, tick' # None => AtAwait,
         \A a \in Attempts : a \in grants' => a \in grants \/ Cancel(a) \notin sent
  PROVE  IInv'
<1>1. \A a \in Attempts :
        \/ journal'[a] = journal[a]
        \/ /\ State(a) = "accepted" /\ State(a)' = "authorized"
           /\ Known(a) /\ Known(a)' /\ journal'[a].sequence = journal[a].sequence
  BY RenewedFacts DEF IInv, TInv
<1>2. ASSUME NEW a \in Attempts
      PROVE  TickFits(a)'
  <2>1. CASE tick' = None
    BY <2>1, TickAtRest
  <2>2. CASE tick' # None
    <3>1. tick' = tick /\ tick.step = "download"
      BY <2>2 DEF AtAwait
    <3>2. CASE tick = [attempt |-> a, step |-> "download"]
      <4>1. \/ State(a) = "authorized"
            \/ State(a) = "terminal" /\ Cancel(a) \in sent /\ a \notin grants
        BY <3>2, AttemptFacts DEF TickFits
      <4>2. State(a) = State(a)'
        BY <1>1, <4>1 DEF State, Known
      <4> QED BY <3>1, <3>2, <4>1, <4>2 DEF TickFits
    <3>3. CASE tick # [attempt |-> a, step |-> "download"]
      BY <3>1, <3>3 DEF TickFits
    <3> QED BY <3>2, <3>3
  <2> QED BY <2>1, <2>2
<1>3. \A a \in Attempts :
        \/ journal'[a] = journal[a]
        \/ /\ State(a) # "terminal" /\ Known(a)' /\ State(a)' # "terminal"
           /\ Known(a) => journal'[a].sequence = journal[a].sequence
           /\ Early(a)' => Early(a)
  BY <1>1 DEF Early
<1> QED BY <1>2, <1>3, Moves

\* A step in which neither tick(), the journal nor the grants move.
LEMMA Quiet ==
  ASSUME IInv, TInv', UNCHANGED <<tick, journal, queue, intent, clicked>>,
         grants' \subseteq grants, sent \subseteq sent',
         \A m \in outbox' \cup saved' : m \in outbox \cup saved,
         \A a \in Attempts : applied'[Cancel(a)] = "cancelled" => applied[Cancel(a)] = "cancelled"
  PROVE  IInv'
<1>1. ASSUME NEW a \in Attempts
      PROVE  TickFits(a)'
  BY AttemptFacts DEF TickFits, State, Known
<1> QED BY <1>1, Moves

LEMMA SessionKeeps ==
  ASSUME IInv, Next, Overlaps = {},
         \/ Connect \/ Disconnect \/ HeartbeatAck
         \/ \E a \in Attempts : GrantExpires(a) \/ Start(a)
         \/ \E m \in outbox : Deliver(m) \/ Acknowledge(m)
  PROVE  IInv'
<1> USE DEF cloud, local
<1>0. TInv'
  BY NextT DEF IInv
<1>e. \A a \in Attempts : Eligible(a) => Cancel(a) \notin sent
  BY DEF Eligible
<1>1. CASE Connect
  <2>1. tick = None /\ tick' = None
    BY <1>1 DEF Connect, IInv, TInv, TypeOK
  <2> QED BY <1>0, <1>1, <1>e, <2>1, Leases DEF Connect
<1>2. CASE HeartbeatAck
  BY <1>0, <1>2, <1>e, Leases DEF HeartbeatAck
<1>3. CASE Disconnect
  BY <1>0, <1>3, TickAtRest, Moves DEF Disconnect
<1>4. ASSUME NEW a \in Attempts, GrantExpires(a)
      PROVE  IInv'
  BY <1>0, <1>4, Quiet DEF GrantExpires
<1>5. ASSUME NEW a \in Attempts, Start(a)
      PROVE  IInv'
  BY <1>0, <1>5, <1>e, Leases DEF Start
<1>6. ASSUME NEW m \in outbox, Deliver(m) \/ Acknowledge(m)
      PROVE  IInv'
  BY <1>0, <1>6, Quiet DEF Deliver, Acknowledge
<1> QED BY <1>1, <1>2, <1>3, <1>4, <1>5, <1>6

LEMMA OfferKeeps ==
  ASSUME IInv, Next, NEW a \in Attempts, Offer(a)
  PROVE  IInv'
<1> USE DEF cloud, local
<1>0. TInv'
  BY NextT DEF IInv
<1> DEFINE j == [state |-> "accepted", fingerprint |-> None, sequence |-> 0]
<1>1. j \in Entry /\ j.state = "accepted"
  BY DEF Entry, JournalStates
<1>2. j # None
  BY <1>1
<1>3. /\ journal' = journal \/ (~Known(a) /\ journal' = [journal EXCEPT ![a] = j])
      /\ outbox' = outbox \cup {Acceptance(a)} \/ outbox' = outbox \cup {Rejection(a)}
      /\ UNCHANGED <<online, tick, grants, applied, paused, local, cloud, crashes>>
  BY DEF Offer
<1> HIDE DEF j
<1>4. \A b \in Attempts : journal'[b] = journal[b]
                          \/ (b = a /\ ~Known(a) /\ journal'[a] = j)
  BY <1>3 DEF IInv, TInv, TypeOK
<1>5. \A b \in Attempts :
        \/ journal'[b] = journal[b]
        \/ /\ State(b) # "terminal" /\ Known(b)' /\ State(b)' # "terminal"
           /\ Known(b) => journal'[b].sequence = journal[b].sequence
           /\ Early(b)' => Early(b)
  BY <1>1, <1>2, <1>4 DEF State, Known, Early
<1>6. ASSUME NEW b \in Attempts
      PROVE  TickFits(b)'
  <2>1. journal'[b] = journal[b] \/ State(b) = "none"
    BY <1>4 DEF State
  <2> QED BY <1>3, <2>1, AttemptFacts DEF TickFits, State, Known
<1>7. \A m \in outbox' \cup saved' :
        m \in outbox \cup saved \/ m.kind \in {"job_accept", "job_reject"}
  BY <1>3 DEF Acceptance, Rejection, Message
<1> QED BY <1>0, <1>3, <1>5, <1>6, <1>7, Moves

LEMMA CommandKeeps ==
  ASSUME IInv, Next, Overlaps = {}, CommandStep
  PROVE  IInv'
<1> USE DEF cloud, local
<1>0. TInv'
  BY NextT DEF IInv
<1>c. \A b \in Attempts : Cancel(b) \in Commands
  BY DEF Commands, Cancel
<1>1. ASSUME NEW c \in Commands, PauseOrResume(c)
      PROVE  IInv'
  <2>1. \A b \in Attempts : applied'[Cancel(b)] = "cancelled" => applied[Cancel(b)] = "cancelled"
    BY <1>1, <1>c DEF PauseOrResume, Respond, IInv, TInv, TypeOK
  <2> QED BY <1>0, <1>1, <2>1, Quiet DEF PauseOrResume, Respond
<1>2. ASSUME NEW a \in Attempts, CancelTooLate(a)
      PROVE  IInv'
  <2>1. \A b \in Attempts : applied'[Cancel(b)] = "cancelled" => applied[Cancel(b)] = "cancelled"
    BY <1>2, <1>c DEF CancelTooLate, Respond, IInv, TInv, TypeOK
  <2> QED BY <1>0, <1>2, <2>1, Quiet DEF CancelTooLate, Respond
<1>3. ASSUME NEW a \in Attempts, CancelApplies(a)
      PROVE  IInv'
  <2> DEFINE j == [state |-> "terminal", fingerprint |-> "cancelled",
                   sequence |-> journal[a].sequence + 1]
  <2>1. Known(a) /\ journal[a].sequence + 1 \in Nat /\ Open(a)
    BY <1>3, EntryFacts DEF CancelApplies, IInv, TInv
  <2>2. j \in Entry /\ j.state = "terminal" /\ j.fingerprint = "cancelled"
        /\ j.sequence = journal[a].sequence + 1
    BY <2>1 DEF Entry, JournalStates, Statuses, Outcomes
  <2>3. journal' = [journal EXCEPT ![a] = j]
    BY <1>3 DEF CancelApplies
  <2>4. /\ outbox' = outbox \cup MessageOf(a, "cancelled") /\ saved' = saved
        /\ UNCHANGED <<intent, clicked, tick>> /\ grants' = grants \ {a}
        /\ sent' = sent \cup {Cancel(a)} /\ applied' = [applied EXCEPT ![Cancel(a)] = "cancelled"]
        /\ queue' = IF InQueue(a) THEN [queue EXCEPT ![a] = "cancelled"] ELSE queue
    BY <1>3 DEF CancelApplies, Respond
  <2> HIDE DEF j
  <2>5. \A b \in Attempts : b # a => queue'[b] = queue[b]
    BY <2>4 DEF IInv, TInv, TypeOK
  <2>6. State(a)' = "terminal"
    BY <2>2, <2>3, <1>0 DEF State, Known, IInv, TInv, TypeOK
  <2>7. a \notin intent /\ queue'[a] \in {"absent", "cancelled"}
        /\ queue'[a] \in {queue[a], "cancelled"}
    <3>1. CASE ~InQueue(a)
      <4>1. Early(a)
        BY <1>3, <2>1, <3>1, EntryFacts DEF CancelApplies, Early, IInv, TInv, JournalStates, Open
      <4> QED BY <2>4, <3>1, <4>1, AttemptFacts DEF QueueFits
    <3>2. CASE InQueue(a)
      <4>1. queue[a] \in {"pending", "cancelled"}
        BY <1>3, <3>2 DEF CancelApplies, CancelsLocally
      <4>2. queue'[a] = "cancelled"
        BY <2>4, <3>2 DEF IInv, TInv, TypeOK
      <4> QED BY <4>1, <4>2, AttemptFacts DEF QueueFits
    <3> QED BY <3>1, <3>2
  <2>8. a \notin clicked
    BY <2>7, AttemptFacts DEF QueueFits
  <2>9. ~Early(a)'
    BY <2>6 DEF Early
  <2>10. \A b \in Attempts : applied'[Cancel(b)] = "cancelled" =>
           applied[Cancel(b)] = "cancelled" \/ b = a
    <3>1. \A b \in Attempts : Cancel(b) = Cancel(a) => b = a
      BY DEF Cancel
    <3> QED BY <1>c, <2>4, <3>1 DEF IInv, TInv, TypeOK
  <2>11. ASSUME NEW b \in Attempts
         PROVE  TickFits(b)'
    <3>1. CASE b = a
      <4>1. tick = None \/ tick.step = "download"
        BY <1>3 DEF CancelApplies, AtAwait
      <4> QED BY <2>4, <2>6, <3>1, <4>1, TickAtRest DEF TickFits
    <3>2. CASE b # a
      <4>1. journal'[b] = journal[b] /\ queue'[b] = queue[b]
        BY <2>3, <2>5, <3>2 DEF IInv, TInv, TypeOK
      <4>2. State(b)' = State(b)
        BY <4>1 DEF State, Known
      <4> QED BY <2>4, <3>2, <4>1, <4>2, AttemptFacts DEF TickFits
    <3> QED BY <3>1, <3>2
  <2>12. "cancelled" \in Statuses /\ "cancelled" \in Outcomes /\ "cancelled" \in NotSent
    BY DEF Statuses, Outcomes, NotSent
  <2>13. /\ UNCHANGED <<intent, clicked>> /\ Records(a, "cancelled", j)
         /\ queue'[a] = queue[a] \/ (queue'[a] = "cancelled" /\ a \notin intent /\ ~Early(a)')
         /\ queue'[a] \in {"absent", "failed", "cancelled"}
    BY <2>2, <2>3, <2>4, <2>7, <2>9 DEF Records, Outcomes
  <2> QED BY <1>0, <2>1, <2>2, <2>5, <2>8, <2>10, <2>11, <2>12, <2>13, Told
<1> QED BY <1>1, <1>2, <1>3 DEF CommandStep

\* An observation in tick(): of the snapshot, or of a failure before the submission.
LEMMA Observed ==
  ASSUME IInv, TInv', NEW a \in Attempts, Known(a), NEW status \in Statuses, Observe(a, status),
         status \in NotSent => a \notin clicked /\ queue[a] \in {"absent", "failed", "cancelled"},
         status = "published" => a \in clicked,
         tick' = None, UNCHANGED <<queue, intent, clicked, applied, saved>>
  PROVE  IInv'
<1>1. \A b \in Attempts : TickFits(b)'
  BY TickAtRest
<1>2. CASE UNCHANGED <<journal, outbox>>
  <2>1. \A b \in Attempts : journal'[b] = journal[b]
    BY <1>2
  <2>2. \A m \in outbox' \cup saved' : m \in outbox \cup saved
    BY <1>2
  <2> QED BY <1>1, <2>1, <2>2, Moves
<1>3. CASE ~UNCHANGED <<journal, outbox>>
  <2>1. State(a) # "terminal" /\ outbox' = outbox \cup MessageOf(a, status)
    BY <1>3, ObserveFacts DEF IInv, TInv
  <2>2. PICK j \in Entry :
          /\ journal' = [journal EXCEPT ![a] = j]
          /\ j.state = IF status \in Outcomes THEN "terminal" ELSE State(a)
          /\ j.fingerprint = status /\ j.sequence = journal[a].sequence + 1
    BY <1>3, ObserveFacts DEF IInv, TInv
  <2>3. Records(a, status, j)
    BY <2>1, <2>2 DEF Records, Early
  <2>4. Open(a)
    BY <2>1, EntryFacts DEF Open, IInv, TInv, JournalStates
  <2> QED BY <1>1, <2>3, <2>4, Told
<1> QED BY <1>2, <1>3

LEMMA TickKeeps ==
  ASSUME IInv, Next, Overlaps = {}, NEW a \in Attempts, TickStep(a)
  PROVE  IInv'
<1> USE DEF cloud, local
<1>0. TInv'
  BY NextT DEF IInv
<1>1. ASSUME NEW s \in {"download", "submit", "record"}, tick = [attempt |-> a, step |-> s]
      PROVE  /\ Known(a) /\ online /\ tick.attempt = a /\ tick.step = s
             /\ \A b \in Attempts : b # a => tick.attempt # b
  <2>1. tick \in Ticks /\ tick.attempt = a /\ tick.step = s
    BY <1>1 DEF Ticks
  <2>2. tick # None
    BY <2>1
  <2> QED BY <2>1, <2>2 DEF IInv, TInv, TypeOK, TickKnown
<1>2. CASE DownloadBegins(a)
  <2>1. /\ State(a) = "authorized" /\ tick' = [attempt |-> a, step |-> "download"]
        /\ UNCHANGED <<online, grants, journal, outbox, applied, paused, local, cloud, crashes>>
    BY <1>2 DEF DownloadBegins
  <2>2. State(a)' = "authorized"
    BY <2>1 DEF State, Known
  <2>3. ASSUME NEW b \in Attempts
        PROVE  TickFits(b)'
    <3>1. b # a => tick' # [attempt |-> b, step |-> "download"]
      BY <2>1
    <3>2. tick' # [attempt |-> b, step |-> "submit"] /\ tick' # [attempt |-> b, step |-> "record"]
      BY <2>1
    <3> QED BY <2>2, <3>1, <3>2 DEF TickFits
  <2> QED BY <1>0, <2>1, <2>3, Moves
<1>3. CASE DownloadFails(a) \/ SubmitFails(a)
  <2>1. tick' = None /\ Observe(a, "failed_before_publish")
        /\ UNCHANGED <<online, grants, applied, paused, local, cloud, crashes>>
    BY <1>3 DEF DownloadFails, SubmitFails
  <2>2. Known(a) /\ "failed_before_publish" \in Statuses
    BY <1>1, <1>3 DEF DownloadFails, SubmitFails, Statuses, Outcomes
  <2>3. CASE State(a) = "terminal"
    <3>1. UNCHANGED <<journal, outbox>>
      BY <2>1, <2>2, <2>3 DEF Observe, ObservedAlready, State
    <3> QED BY <1>0, <2>1, <3>1, TickAtRest, Moves
  <2>4. CASE State(a) # "terminal"
    <3>1. queue[a] = "absent" /\ a \notin intent
      BY <1>3, <2>4, AttemptFacts DEF DownloadFails, SubmitFails, TickFits, QueueFits, Early
    <3>2. a \notin clicked
      BY <3>1, AttemptFacts DEF QueueFits
    <3> QED BY <1>0, <2>1, <2>2, <3>1, <3>2, Observed
  <2> QED BY <2>3, <2>4
<1>4. CASE DownloadEnds(a)
  <2>1. UNCHANGED <<online, grants, outbox, applied, paused, local, cloud, crashes>>
        /\ tick = [attempt |-> a, step |-> "download"]
    BY <1>4 DEF DownloadEnds
  <2>2. CASE ~StillAuthorized(a)
    <3>1. tick' = None /\ UNCHANGED journal
      BY <1>4, <2>2 DEF DownloadEnds
    <3> QED BY <1>0, <2>1, <3>1, TickAtRest, Moves
  <2>3. CASE StillAuthorized(a)
    <3>1. State(a) = "authorized"
      BY <2>1, <2>3, AttemptFacts DEF StillAuthorized, Authorized, TickFits
    <3> DEFINE j == [journal[a] EXCEPT !.state = "submitting"]
    <3>2. journal' = [journal EXCEPT ![a] = j] /\ tick' = [tick EXCEPT !.step = "submit"]
      BY <1>4, <2>3 DEF DownloadEnds, Goes
    <3>3. Known(a) /\ journal[a] \in Entry
      BY <3>1, EntryFacts DEF IInv, TInv
    <3>4. j \in Entry /\ j.state = "submitting" /\ j.sequence = journal[a].sequence
      BY <3>3 DEF Entry, JournalStates
    <3>5. j # None
      BY <3>4
    <3> HIDE DEF j
    <3>6. \A b \in Attempts : b # a => journal'[b] = journal[b]
      BY <3>2 DEF IInv, TInv, TypeOK
    <3>7. journal'[a] = j /\ Known(a)' /\ State(a)' = "submitting"
      BY <3>2, <3>4, <3>5 DEF IInv, TInv, TypeOK, Known, State
    <3>8. ~Early(a)'
      BY <3>7 DEF Early
    <3>9. tick' = [attempt |-> a, step |-> "submit"]
      BY <2>1, <3>2
    <3>10. queue[a] = "absent" /\ a \notin intent
      BY <3>1, AttemptFacts DEF QueueFits, Early
    <3>11. ASSUME NEW b \in Attempts
           PROVE  TickFits(b)'
      <4>1. b # a => tick' # [attempt |-> b, step |-> "submit"]
        BY <3>9
      <4>2. tick' # [attempt |-> b, step |-> "download"] /\ tick' # [attempt |-> b, step |-> "record"]
        BY <3>9
      <4> QED BY <2>1, <3>7, <3>10, <4>1, <4>2 DEF TickFits
    <3>12. \A b \in Attempts :
             \/ journal'[b] = journal[b]
             \/ /\ State(b) # "terminal" /\ Known(b)' /\ State(b)' # "terminal"
                /\ Known(b) => journal'[b].sequence = journal[b].sequence
                /\ Early(b)' => Early(b)
      <4>1. ASSUME NEW b \in Attempts, b = a
            PROVE  /\ State(b) # "terminal" /\ Known(b)' /\ State(b)' # "terminal"
                   /\ Known(b) => journal'[b].sequence = journal[b].sequence
                   /\ Early(b)' => Early(b)
        BY <3>1, <3>4, <3>7, <3>8, <4>1
      <4> QED BY <3>6, <4>1
    <3> QED BY <1>0, <2>1, <3>11, <3>12, Moves
  <2> QED BY <2>2, <2>3
<1>5. CASE Submit(a)
  <2>1. /\ tick = [attempt |-> a, step |-> "submit"]
        /\ UNCHANGED <<online, grants, journal, outbox, applied, paused, intent, clicked, cloud, crashes>>
    BY <1>5 DEF Submit
  <2>2. State(a) = "submitting" /\ queue[a] = "absent" /\ a \notin intent
    BY <2>1, AttemptFacts DEF TickFits
  <2>3. queue' = [queue EXCEPT ![a] = "pending"] /\ tick' = [tick EXCEPT !.step = "record"]
    BY <1>5, <2>2 DEF Submit, InQueue
  <2>4. tick' = [attempt |-> a, step |-> "record"]
    BY <2>1, <2>3
  <2>5. queue'[a] = "pending" /\ \A b \in Attempts : b # a => queue'[b] = queue[b]
    BY <2>3 DEF IInv, TInv, TypeOK
  <2>6. \A b \in Attempts : State(b)' = State(b) /\ (Early(b)' <=> Early(b))
    BY <2>1 DEF Early, State, Known
  <2>7. ASSUME NEW b \in Attempts
        PROVE  TickFits(b)'
    <3>1. b # a => tick' # [attempt |-> b, step |-> "record"]
      BY <2>4
    <3>2. tick' # [attempt |-> b, step |-> "download"] /\ tick' # [attempt |-> b, step |-> "submit"]
      BY <2>4
    <3> QED BY <2>2, <2>6, <3>1, <3>2 DEF TickFits
  <2>8. ASSUME NEW b \in Attempts
        PROVE  QueueFits(b)' /\ EndFits(b)'
    <3>1. CASE b = a
      <4>1. ~Early(a)' /\ a \notin clicked /\ State(a)' # "terminal"
        BY <2>2, <2>6, AttemptFacts DEF Early, QueueFits
      <4> QED BY <2>1, <2>2, <2>5, <3>1, <4>1 DEF QueueFits, EndFits
    <3>2. CASE b # a
      BY <2>1, <2>5, <2>6, <3>2, AttemptFacts DEF QueueFits, EndFits
    <3> QED BY <3>1, <3>2
  <2> QED BY <1>0, <2>1, <2>7, <2>8, LocalMoves
<1>6. CASE Record(a)
  <2> DEFINE j == [state |-> "submitted", fingerprint |-> "pending",
                   sequence |-> journal[a].sequence + 1]
  <2>1. tick = [attempt |-> a, step |-> "record"]
        /\ journal' = [journal EXCEPT ![a] = j] /\ outbox' = outbox \cup MessageOf(a, "pending")
        /\ tick' = None
        /\ UNCHANGED <<online, grants, applied, paused, local, cloud, crashes>>
    BY <1>6 DEF Record
  <2>2. State(a) = "submitting"
    BY <2>1, AttemptFacts DEF TickFits
  <2>3. Open(a) /\ Known(a) /\ journal[a].sequence + 1 \in Nat
    BY <2>2, EntryFacts DEF Open, IInv, TInv
  <2>4. j \in Entry /\ j.state = "submitted" /\ j.fingerprint = "pending"
        /\ j.sequence = journal[a].sequence + 1
    BY <2>3 DEF Entry, JournalStates, Statuses, Outcomes
  <2> HIDE DEF j
  <2>5. Records(a, "pending", j)
    BY <2>1, <2>4 DEF Records, Outcomes
  <2>6. "pending" \in Statuses /\ "pending" \notin NotSent
    BY DEF Statuses, NotSent
  <2>7. \A b \in Attempts : TickFits(b)'
    BY <2>1, TickAtRest
  <2>8. UNCHANGED <<queue, intent, clicked, applied>>
    BY <2>1
  <2> QED BY <1>0, <2>3, <2>4, <2>5, <2>6, <2>7, <2>8, Told
<1>7. CASE TickObserves(a)
  <2>1. tick' = None /\ Open(a)
        /\ UNCHANGED <<online, grants, applied, paused, local, cloud, crashes>>
    BY <1>7 DEF TickObserves
  <2>2. Known(a)
    BY <2>1, EntryFacts DEF IInv, TInv
  <2>3. CASE InQueue(a) /\ Observe(a, Reported(a))
    <3>1. /\ Reported(a) \in Statuses
          /\ Reported(a) = "cancelled" => queue[a] = "cancelled"
          /\ Reported(a) = "failed_before_publish" => queue[a] = "failed" /\ a \notin intent
          /\ Reported(a) = "published" => queue[a] = "published"
      BY <2>3, ReportedFacts DEF IInv, TInv
    <3>2. Reported(a) \in NotSent =>
            a \notin clicked /\ queue[a] \in {"absent", "failed", "cancelled"}
      BY <3>1, AttemptFacts DEF NotSent, QueueFits
    <3>3. Reported(a) = "published" => a \in clicked
      BY <3>1, AttemptFacts DEF QueueFits
    <3> QED BY <1>0, <2>1, <2>2, <2>3, <3>1, <3>2, <3>3, Observed
  <2>4. CASE Observe(a, "needs_review")
    <3>1. "needs_review" \in Statuses /\ "needs_review" \notin NotSent
      BY DEF Statuses, Outcomes, NotSent
    <3> QED BY <1>0, <2>1, <2>2, <2>4, <3>1, Observed
  <2> QED BY <1>7, <2>3, <2>4 DEF TickObserves
<1> QED BY <1>2, <1>3, <1>4, <1>5, <1>6, <1>7 DEF TickStep

\* A step of one execution, while tick() is not submitting it.
LEMMA LocalStep ==
  ASSUME IInv, TInv', NEW a \in Attempts,
         UNCHANGED <<tick, grants, journal, outbox, saved, applied, sent>>,
         \A b \in Attempts : b # a =>
           queue'[b] = queue[b] /\ (b \in intent' <=> b \in intent)
             /\ (b \in clicked' <=> b \in clicked),
         ~Early(a), tick # [attempt |-> a, step |-> "submit"],
         queue'[a] \in {"pending", "cancelled"} => a \notin intent',
         queue'[a] = "published" => a \in clicked',
         a \in clicked' => a \in intent',
         a \in clicked => a \in clicked',
         State(a) = "terminal" /\ journal[a].fingerprint \in NotSent =>
           a \notin clicked' /\ queue'[a] \in {"absent", "failed", "cancelled"}
  PROVE  IInv'
<1>1. \A b \in Attempts : State(b)' = State(b) /\ (Early(b)' <=> Early(b))
  BY DEF State, Known, Early
<1>2. ASSUME NEW b \in Attempts
      PROVE  QueueFits(b)' /\ EndFits(b)' /\ TickFits(b)'
  <2>1. QueueFits(b) /\ EndFits(b) /\ TickFits(b)
    BY DEF IInv
  <2>2. CASE b = a
    BY <1>1, <2>1, <2>2 DEF QueueFits, EndFits, TickFits
  <2>3. CASE b # a
    <3>1. queue'[b] = queue[b] /\ (b \in intent' <=> b \in intent)
          /\ (b \in clicked' <=> b \in clicked)
      BY <2>3
    <3> QED BY <1>1, <2>1, <3>1 DEF QueueFits, EndFits, TickFits
  <2> QED BY <2>2, <2>3
<1> QED BY <1>2, LocalMoves

LEMMA ExecutionKeeps ==
  ASSUME IInv, Next, NEW a \in Attempts, Execution(a)
  PROVE  IInv'
<1> USE DEF cloud, local
<1>0. TInv'
  BY NextT DEF IInv
<1>1. /\ UNCHANGED <<online, tick, grants, journal, outbox, applied, paused, cloud, crashes>>
      /\ \A b \in Attempts : b # a =>
           queue'[b] = queue[b] /\ (b \in intent' <=> b \in intent)
             /\ (b \in clicked' <=> b \in clicked)
  BY DEF Execution, Claim, RecordIntent, Click, ExecutionEnds, Resolve, Delete, IInv, TInv, TypeOK
<1>2. queue[a] # "absent" /\ ~Early(a) /\ tick # [attempt |-> a, step |-> "submit"]
  <2>1. queue[a] # "absent"
    BY DEF Execution, Claim, RecordIntent, Click, ExecutionEnds, Resolve, Delete, Running, InQueue
  <2> QED BY <2>1, AttemptFacts DEF QueueFits, TickFits
<1>3. /\ QueueFits(a) /\ EndFits(a) /\ queue[a] \in Local
      /\ State(a) = "terminal" => ~Open(a)
  BY AttemptFacts
<1>4. State(a) = "terminal" /\ journal[a].fingerprint \in NotSent =>
        a \notin clicked /\ queue[a] \in {"absent", "failed", "cancelled"}
  BY <1>3 DEF EndFits
<1>5. /\ queue'[a] \in {"pending", "cancelled"} => a \notin intent'
      /\ queue'[a] = "published" => a \in clicked'
      /\ a \in clicked' => a \in intent'
      /\ a \in clicked => a \in clicked'
      /\ State(a) = "terminal" /\ journal[a].fingerprint \in NotSent =>
           a \notin clicked' /\ queue'[a] \in {"absent", "failed", "cancelled"}
  <2>1. CASE Claim(a)
    <3>1. queue'[a] = "running" /\ Open(a) /\ UNCHANGED <<intent, clicked>>
      BY <2>1 DEF Claim, CloudExecutionAllowed, IInv, TInv, TypeOK
    <3> QED BY <1>3, <3>1 DEF QueueFits
  <2>2. CASE RecordIntent(a)
    <3>1. queue'[a] = queue[a] /\ intent' = intent \cup {a} /\ clicked' = clicked /\ Running(a)
      BY <2>2 DEF RecordIntent
    <3> QED BY <1>3, <1>4, <3>1 DEF QueueFits, Running
  <2>3. CASE Click(a)
    <3>1. queue'[a] = queue[a] /\ intent' = intent /\ clicked' = clicked \cup {a} /\ Running(a)
          /\ a \in intent
      BY <2>3 DEF Click, IntentRecorded
    <3> QED BY <1>3, <1>4, <3>1 DEF QueueFits, Running
  <2>4. CASE ExecutionEnds(a)
    <3>1. queue'[a] \in Endings(a) \cup {"absent"} /\ UNCHANGED <<intent, clicked>> /\ Running(a)
      BY <2>4 DEF ExecutionEnds, IInv, TInv, TypeOK
    <3> QED BY <1>3, <1>4, <3>1 DEF QueueFits, Running, Endings
  <2>5. CASE Resolve(a)
    <3>1. queue'[a] = (IF a \in clicked THEN "published" ELSE "failed")
          /\ UNCHANGED <<intent, clicked>> /\ queue[a] = "uncertain"
      BY <2>5 DEF Resolve, IInv, TInv, TypeOK
    <3> QED BY <1>3, <1>4, <3>1 DEF QueueFits
  <2>6. CASE Delete(a)
    <3>1. queue'[a] = (IF queue[a] = "running" THEN "detached" ELSE "absent")
          /\ UNCHANGED <<intent, clicked>>
      BY <2>6 DEF Delete, IInv, TInv, TypeOK
    <3> QED BY <1>3, <1>4, <3>1 DEF QueueFits
  <2> QED BY <2>1, <2>2, <2>3, <2>4, <2>5, <2>6 DEF Execution
<1> QED BY <1>0, <1>1, <1>2, <1>5, LocalStep

LEMMA CrashKeeps ==
  ASSUME IInv, Crash
  PROVE  IInv'
<1>0. TInv'
  BY NextT DEF IInv, Next
<1>1. tick' = None /\ UNCHANGED <<journal, outbox, applied, intent, saved>>
  BY DEF Crash
<1>2. \A a \in Attempts : State(a)' = State(a) /\ (Early(a)' <=> Early(a))
  BY <1>1 DEF State, Known, Early
<1>3. ASSUME NEW a \in Attempts
      PROVE  /\ a \in clicked => a \in clicked'
             /\ a \in clicked' => a \in clicked \/ (a \in intent /\ Running(a))
  BY DEF Crash
<1>4. ASSUME NEW a \in Attempts
      PROVE  \/ queue'[a] \in Recovered(a, clicked')
             \/ queue'[a] \in {queue[a], "cancelled"} /\ ~Running(a)
                /\ (queue'[a] = "cancelled" => queue[a] \in {"pending", "cancelled"} /\ ~Early(a)
                                               /\ (queue[a] = "cancelled" \/ Open(a)))
  <2>1. CASE \E status \in [Attempts -> Local] :
               (\A b \in Attempts : status[b] \in Recovered(b, clicked')) /\ queue' = status
    BY <2>1
  <2>2. CASE \E c \in Torn : (\A b \in Attempts : ~Running(b))
                             /\ queue' = [queue EXCEPT ![c] = "cancelled"]
    <3>1. PICK c \in Torn : (\A b \in Attempts : ~Running(b))
                            /\ queue' = [queue EXCEPT ![c] = "cancelled"]
      BY <2>2
    <3>2. c \in Attempts /\ queue[c] = "pending" /\ Open(c) /\ queue \in [Attempts -> Local]
      BY DEF Torn, IInv, TInv, TypeOK
    <3>3. ~Early(a) \/ queue[a] = "absent"
      BY AttemptFacts DEF QueueFits
    <3>4. CASE a = c
      BY <3>1, <3>2, <3>3, <3>4
    <3>5. CASE a # c
      BY <3>1, <3>2, <3>3, <3>5
    <3> QED BY <3>4, <3>5
  <2> QED BY <2>1, <2>2 DEF Crash
<1>5. ASSUME NEW a \in Attempts
      PROVE  QueueFits(a)' /\ EndFits(a)'
  <2>1. /\ QueueFits(a) /\ EndFits(a) /\ queue[a] \in Local
        /\ State(a) = "terminal" => ~Open(a)
    BY AttemptFacts
  <2>2. State(a) = "terminal" /\ journal[a].fingerprint \in NotSent =>
          a \notin clicked /\ queue[a] \in {"absent", "failed", "cancelled"}
    BY <2>1 DEF EndFits
  <2>3. CASE Running(a)
    <3>1. queue'[a] \in {"absent", "failed", "uncertain", "published"}
          /\ (queue'[a] = "published" => a \in clicked')
      BY <1>4, <2>3 DEF Recovered, Running
    <3>2. ~Early(a)
      BY <2>1, <2>3 DEF QueueFits, Running
    <3>3. ~(State(a) = "terminal" /\ journal[a].fingerprint \in NotSent)
      BY <2>2, <2>3 DEF Running
    <3> QED BY <1>1, <1>2, <1>3, <2>1, <3>1, <3>2, <3>3 DEF QueueFits, EndFits
  <2>4. CASE ~Running(a)
    <3>1. a \in clicked' <=> a \in clicked
      BY <1>3, <2>4
    <3>2. \/ queue'[a] = queue[a]
          \/ queue'[a] = "cancelled" /\ queue[a] = "pending" /\ ~Early(a) /\ Open(a)
      BY <1>4, <2>4 DEF Recovered, Running
    <3> QED BY <1>1, <1>2, <2>1, <2>2, <3>1, <3>2 DEF QueueFits, EndFits
  <2> QED BY <2>3, <2>4
<1>6. \A a \in Attempts : TickFits(a)'
  BY <1>1, TickAtRest
<1> QED BY <1>0, <1>1, <1>5, <1>6, LocalMoves

-----------------------------------------------------------------------------
(* The theorems *)

LEMMA InitKeeps == Init => IInv
<1> SUFFICES ASSUME Init PROVE IInv
  OBVIOUS
<1>1. TInv
  BY InitT
<1>2. ASSUME NEW a \in Attempts
      PROVE  QueueFits(a) /\ TickFits(a) /\ EndFits(a) /\ CancelFits(a)
  <2>1. State(a) = "none" /\ queue[a] = "absent" /\ tick = None /\ Cancel(a) \in Commands
    BY DEF Init, State, Known, Commands, Cancel
  <2>2. applied[Cancel(a)] = None
    BY <2>1 DEF Init
  <2>3. tick # [attempt |-> a, step |-> "download"] /\ tick # [attempt |-> a, step |-> "submit"]
        /\ tick # [attempt |-> a, step |-> "record"]
    BY <2>1 DEF Ticks
  <2>4. applied[Cancel(a)] # "cancelled"
    BY <2>2 DEF CommandResults
  <2> QED BY <2>1, <2>3, <2>4 DEF Init, QueueFits, TickFits, EndFits, CancelFits
<1>3. outbox \cup saved = {}
  BY DEF Init
<1> QED BY <1>1, <1>2, <1>3 DEF IInv

LEMMA NextKeeps ==
  ASSUME IInv, [Next]_vars, Overlaps = {}
  PROVE  IInv'
<1>1. CASE UNCHANGED vars
  <2>1. TInv'
    BY <1>1, NextT DEF IInv
  <2> QED BY <1>1, <2>1, Quiet DEF vars, cloud, local
<1>2. CASE Next
  BY <1>2, SessionKeeps, OfferKeeps, CommandKeeps, TickKeeps, ExecutionKeeps, CrashKeeps DEF Next
<1> QED BY <1>1, <1>2

\* While the cloud leases no attempt it asked to cancel, and no operator deletes the
\* execution of one: the journal, the outbox, tick() and the queue file agree.
THEOREM Inductive == ASSUME Overlaps = {} PROVE Spec => []IInv
<1>1. IInv /\ [Next]_vars => IInv'
  BY NextKeeps
<1> QED BY <1>1, InitKeeps, PTL DEF Spec

\* A cancellation that was confirmed to the cloud stands: the attempt neither runs
\* nor was published, through crashes and between the writes of a command.
THEOREM CancelsStand == ASSUME Overlaps = {} PROVE Spec => []ConfirmedCancelStands
<1>1. IInv => ConfirmedCancelStands
  <2> SUFFICES ASSUME IInv, NEW a \in Attempts, applied[Cancel(a)] = "cancelled"
               PROVE  ~Running(a) /\ a \notin clicked
    BY DEF ConfirmedCancelStands
  <2>1. State(a) = "terminal" /\ journal[a].fingerprint = "cancelled"
    BY AttemptFacts DEF CancelFits
  <2> QED BY <2>1, AttemptFacts DEF EndFits, NotSent, Running
<1> QED BY <1>1, Inductive, PTL

\* What the cloud is told of an attempt is true, and its one result is the last word.
THEOREM ResultsTrue == ASSUME Overlaps = {} PROVE Spec => []ResultIsTrue
<1>1. IInv => ResultIsTrue
  <2> SUFFICES ASSUME IInv, NEW a \in Attempts, NEW m \in Results(a)
               PROVE  /\ m.status \in {"cancelled", "failed_before_publish"} => a \notin clicked
                      /\ m.status = "published" => a \in clicked
                      /\ \A n \in outbox \cup saved :
                           n.kind \in {"execution_event", "execution_result"} /\ n.attempt = a
                             => n = m \/ n.sequence < m.sequence
    BY DEF ResultIsTrue
  <2>1. /\ m \in Messages /\ m.kind = "execution_result" /\ m.attempt = a
        /\ m \in outbox \cup saved
    BY DEF Results, IInv, TInv, TypeOK
  <2>2. /\ Known(a) /\ State(a) = "terminal" /\ journal[a].state = "terminal"
        /\ m.status = journal[a].fingerprint /\ m.sequence = journal[a].sequence
    BY <2>1 DEF IInv, MessageFits, State, Known
  <2>3. /\ m.status \in {"cancelled", "failed_before_publish"} => a \notin clicked
        /\ m.status = "published" => a \in clicked
    BY <2>2, AttemptFacts DEF EndFits, NotSent
  <2>4. ASSUME NEW n \in outbox \cup saved, n.attempt = a,
               n.kind \in {"execution_event", "execution_result"}
        PROVE  n = m \/ n.sequence < m.sequence
    <3>1. n \in Messages /\ MessageFits(n)
      BY DEF IInv, TInv, TypeOK
    <3>2. CASE n.kind = "execution_event"
      BY <2>2, <2>4, <3>1, <3>2 DEF MessageFits
    <3>3. CASE n.kind = "execution_result"
      <4>1. n.status = m.status /\ n.sequence = m.sequence /\ n.attempt = m.attempt
            /\ n.kind = m.kind
        BY <2>1, <2>2, <2>4, <3>1, <3>3 DEF MessageFits
      <4> QED BY <2>1, <3>1, <3>3, <4>1 DEF Messages
    <3> QED BY <2>4, <3>2, <3>3
  <2> QED BY <2>3, <2>4
<1> QED BY <1>1, Inductive, PTL

=============================================================================
