------------------------- MODULE ContainerLifecycle -------------------------
(***************************************************************************)
(* backend/services/container_lifecycle.py: the persisted registry of who  *)
(* owns the browser container of a profile, with everything that calls it: *)
(* the tasks that run posts, preparations, manual runs and broadcasts, the *)
(* sweeps that reclaim what a dead or silent task left, cancellation, the  *)
(* update-maintenance switch, shutdown, crash and restart of the backend.  *)
(*                                                                         *)
(* Registry operations are atomic: each reads and rewrites the owners file *)
(* under one process lock.  What is not atomic is everything that awaits:  *)
(* starting a container, stopping it, ending a worker; each is a step of   *)
(* its own here, so that other callers run in between.                     *)
(***************************************************************************)
EXTENDS FiniteSets, Integers

CONSTANTS
  Profiles,     \* browser profiles, one container each
  Executions,   \* queue executions, manual runs and broadcasts
  Tokens,       \* uuid tokens, one per attempt
  NoOwner,      \* the profile is not in the owners file
  Overlaps,     \* overlaps the clock permits: "stop", "start" (see README)
  MaxRestarts   \* bound on backend restarts

Sweepers == {"lifespan", "startup", "watchdog"}
Callers  == Tokens \cup Sweepers \cup {"api"}

VARIABLES
  owners,       \* owners file: profile -> ownership record
  container,    \* profile -> what docker says of its container
  job,          \* token -> the task that holds it
  stops,        \* stop commands in flight, each with who awaits it
  seen,         \* sweeper -> the part of its snapshot it has not finished
  at,           \* sweeper -> the profile between terminate and release
  phase,        \* life of the backend process
  maintenance,  \* UPDATE_MAINTENANCE
  generation    \* MANAGER_INSTANCE_ID, counted

vars == <<owners, container, job, stops, seen, at, phase, maintenance, generation>>

States == {"active", "handoff", "stopping", "cleanup_failed"}
Lateness == {"no", "heartbeat", "deadline"}
Owner == [token : Tokens, execution : Executions, manager : 0..MaxRestarts,
          state : States, used : BOOLEAN, late : Lateness]
JobPcs == {"new", "claimed", "starting", "working", "ending", "closing", "over"}
Jobs == [pc : {"new"}] \cup [pc : JobPcs \ {"new"}, profile : Profiles]
Stop == [profile : Profiles, token : Tokens, by : Callers]
Nothing == [p \in Profiles |-> NoOwner]

ASSUME LifecycleAssumption ==
  /\ NoOwner \notin Profiles \cup Owner
  /\ Tokens \cap (Sweepers \cup {"api"}) = {}
  /\ Overlaps \subseteq {"stop", "start"}
  /\ MaxRestarts \in Nat

TypeOK ==
  /\ owners \in [Profiles -> Owner \cup {NoOwner}]
  /\ container \in [Profiles -> {"running", "stopped"}]
  /\ job \in [Tokens -> Jobs]
  /\ stops \subseteq Stop
  /\ seen \in [Sweepers -> [Profiles -> Owner \cup {NoOwner}]]
  /\ at \in [Sweepers -> Profiles \cup {NoOwner}]
  /\ phase \in {"down", "booting", "serving", "closing"}
  /\ maintenance \in BOOLEAN
  /\ generation \in 0..MaxRestarts

-----------------------------------------------------------------------------
(* Reading the registry *)

Owned(p) == owners[p] # NoOwner
HasToken(p, t) == Owned(p) /\ owners[p].token = t
AnyHolder(p, t) == Owned(p) /\ owners[p].state = "active"         \* mutant
Holds(p, t) == HasToken(p, t) /\ owners[p].state = "active"
Up == phase # "down"
Running(t) == job[t].pc \notin {"new", "over"}
Awaits(c) == \E s \in stops : s.by = c
StopInFlight(p, t) == \E s \in stops : s.profile = p /\ s.token = t
Idle(w) == seen[w] = Nothing

Set(p, field) == [owners EXCEPT ![p] = field]
GoTo(t, pc) == [job EXCEPT ![t].pc = pc]

Init ==
  /\ owners = Nothing
  /\ container = [p \in Profiles |-> "stopped"]
  /\ job = [t \in Tokens |-> [pc |-> "new"]]
  /\ stops = {}
  /\ seen = [w \in Sweepers |-> Nothing]
  /\ at = [w \in Sweepers |-> NoOwner]
  /\ phase = "serving"
  /\ maintenance = FALSE
  /\ generation = 0

-----------------------------------------------------------------------------
(* Operations of the registry *)

\* A profile is free, or offered to exactly this execution.
OfferedToAnyone(p, e) == Owned(p) => owners[p].state = "handoff"  \* mutant
Available(p, e) ==
  Owned(p) => owners[p].state = "handoff" /\ owners[p].execution = e

\* The next owner takes over a container that may already run.
ForgottenUse(p) == FALSE                                          \* mutant
RawUse(p) == IF Owned(p) THEN owners[p].used ELSE NoOwner         \* mutant
InheritedUse(p) == Owned(p) /\ owners[p].used

Acquire(p, t, e) ==
  /\ phase = "serving" /\ ~maintenance
  /\ job[t].pc = "new"
  /\ Available(p, e)
  /\ owners' = Set(p, [token |-> t, execution |-> e, manager |-> generation,
                       state |-> "active", used |-> InheritedUse(p),
                       late |-> "no"])
  /\ job' = [job EXCEPT ![t] = [pc |-> "claimed", profile |-> p]]
  /\ UNCHANGED <<container, stops, seen, at, phase, maintenance, generation>>

\* `release` of token t on profile p of registry o: it returns at once, or it
\* marks the owner stopping and awaits a stop command.
SecondStopAllowed(o, p, t) ==                                     \* mutant
  o[p] = NoOwner \/ o[p].token # t \/ ~o[p].used
ReleaseReturns(o, p, t) ==
  \/ o[p] = NoOwner \/ o[p].token # t
  \/ o[p].state = "stopping"
  \/ ~o[p].used

Release(o, p, t, c) ==
  IF ReleaseReturns(o, p, t)
  THEN /\ owners' = IF o[p] # NoOwner /\ o[p].token = t /\ o[p].state # "stopping"
                    THEN [o EXCEPT ![p] = NoOwner]     \* container_not_used
                    ELSE o
       /\ UNCHANGED stops
  ELSE /\ owners' = [o EXCEPT ![p].state = "stopping"]
       /\ stops' = stops \cup {[profile |-> p, token |-> t, by |-> c]}

\* Who awaited a release goes on: a task to its next release or to its end,
\* a sweep to the next profile.
AfterRelease(p, c) ==
  /\ job' = IF c \in Tokens
            THEN GoTo(c, IF job[c].pc = "ending" THEN "closing" ELSE "over")
            ELSE job
  /\ seen' = IF c \in Sweepers THEN [seen EXCEPT ![c][p] = NoOwner] ELSE seen
  /\ at' = IF c \in Sweepers THEN [at EXCEPT ![c] = NoOwner] ELSE at

\* `await stop(profile_id)` has stopped the container, whoever runs in it.
StopSucceeds(s) ==
  /\ s \in stops
  /\ stops' = stops \ {s}
  /\ container' = [container EXCEPT ![s.profile] = "stopped"]
  /\ owners' = IF HasToken(s.profile, s.token) THEN Set(s.profile, NoOwner) ELSE owners
  /\ AfterRelease(s.profile, s.by)
  /\ UNCHANGED <<phase, maintenance, generation>>

\* `stop` raised, or the task awaiting it was cancelled.
StopFails(s) ==
  /\ s \in stops
  /\ stops' = stops \ {s}
  /\ owners' = IF HasToken(s.profile, s.token)
               THEN Set(s.profile, [owners[s.profile] EXCEPT !.state = "cleanup_failed"])
               ELSE owners
  /\ AfterRelease(s.profile, s.by)
  /\ UNCHANGED <<container, phase, maintenance, generation>>

-----------------------------------------------------------------------------
(* A task that owns a container *)

MarkUsed(t) ==
  /\ Up /\ job[t].pc = "claimed"
  /\ LET p == job[t].profile IN
       IF Holds(p, t)
       THEN /\ owners' = Set(p, [owners[p] EXCEPT !.used = TRUE])
            /\ job' = GoTo(t, "starting")
       ELSE /\ job' = GoTo(t, "ending")
            /\ UNCHANGED owners
  /\ UNCHANGED <<container, stops, seen, at, phase, maintenance, generation>>

\* The start command of ensure_profile_container_ready and the wait for Chrome.
ContainerReady(t) ==
  /\ Up /\ job[t].pc = "starting"
  /\ container' = [container EXCEPT ![job[t].profile] = "running"]
  /\ \E pc \in {"working", "ending"} : job' = GoTo(t, pc)
  /\ UNCHANGED <<owners, stops, seen, at, phase, maintenance, generation>>

WorkEnds(t) ==
  /\ Up /\ job[t].pc = "working"
  /\ job' = GoTo(t, "ending")
  /\ UNCHANGED <<owners, container, stops, seen, at, phase, maintenance, generation>>

\* A finished preparation keeps the browser for its own post, a finished
\* warming visit for the post of its account.
Handoff(t, e) ==
  /\ Up /\ job[t].pc = "working"
  /\ LET p == job[t].profile IN
       IF Holds(p, t)
       THEN /\ owners' = Set(p, [owners[p] EXCEPT !.state = "handoff", !.execution = e,
                                                  !.late = IF @ = "deadline" THEN @ ELSE "no"])
            /\ job' = GoTo(t, "over")
       ELSE /\ job' = GoTo(t, "closing")
            /\ UNCHANGED owners
  /\ UNCHANGED <<container, stops, seen, at, phase, maintenance, generation>>

\* release of the task's own token: in its last report and again, whatever
\* the first one returned, in the finally of its wrapper.
ReleaseOwn(t) ==
  /\ Up /\ job[t].pc \in {"ending", "closing"} /\ ~Awaits(t)
  /\ LET p == job[t].profile IN
       /\ Release(owners, p, t, t)
       /\ IF ReleaseReturns(owners, p, t) THEN AfterRelease(p, t)
          ELSE UNCHANGED <<job, seen, at>>
  /\ UNCHANGED <<container, phase, maintenance, generation>>

\* cancel_all_local_posts cancels the task: its finally block runs.
CancelTask(t) ==
  /\ phase = "serving" /\ job[t].pc \in {"claimed", "starting", "working"}
  /\ job' = GoTo(t, "closing")
  /\ \/ UNCHANGED container
     \/ /\ job[t].pc = "starting"      \* docker had begun
        /\ container' = [container EXCEPT ![job[t].profile] = "running"]
  /\ UNCHANGED <<owners, stops, seen, at, phase, maintenance, generation>>

\* ... and releases what a finished preparation of a cancelled post retains.
CancelPrepared(p) ==
  /\ phase = "serving" /\ ~Awaits("api")
  /\ Owned(p) /\ owners[p].state \in {"handoff", "cleanup_failed"}
  /\ Release(owners, p, owners[p].token, "api")
  /\ UNCHANGED <<container, job, seen, at, phase, maintenance, generation>>

-----------------------------------------------------------------------------
(* Time: heartbeats and their absence *)

\* heartbeat_scheduler_leases, for one record with a live process.  A refused
\* heartbeat terminates the worker.
Heartbeat(t) ==
  /\ phase = "serving" /\ job[t].pc \in {"starting", "working"}
  /\ LET p == job[t].profile IN
       IF Holds(p, t) /\ owners[p].late # "deadline"
       THEN /\ owners' = Set(p, [owners[p] EXCEPT !.late = "no"])
            /\ UNCHANGED job
       ELSE /\ job' = IF job[t].pc = "working" THEN GoTo(t, "ending") ELSE job
            /\ UNCHANGED owners
  /\ UNCHANGED <<container, stops, seen, at, phase, maintenance, generation>>

\* heartbeat_expires_at passes, or the time a handoff is offered for.
HeartbeatLapses(p) ==
  /\ Owned(p) /\ owners[p].late = "no"
  /\ owners' = Set(p, [owners[p] EXCEPT !.late = "heartbeat"])
  /\ UNCHANGED <<container, job, stops, seen, at, phase, maintenance, generation>>

\* hard_deadline_at passes: no heartbeat undoes it.
DeadlinePasses(p) ==
  /\ Owned(p) /\ owners[p].late # "deadline"
  /\ owners' = Set(p, [owners[p] EXCEPT !.late = "deadline"])
  /\ UNCHANGED <<container, job, stops, seen, at, phase, maintenance, generation>>

-----------------------------------------------------------------------------
(* recover: one sweep over a snapshot of the registry *)

Forced(w) == w = "lifespan" /\ phase = "closing"

\* Scheduler job, every 15 s, one instance at a time.
SweepBegins ==
  /\ phase = "serving" /\ Idle("watchdog")
  /\ seen' = [seen EXCEPT !["watchdog"] = owners]
  /\ UNCHANGED <<owners, container, job, stops, at, phase, maintenance, generation>>

FailuresForgotten(w, p) ==                                        \* mutant
  /\ Forced(w) \/ seen[w][p].manager # generation \/ seen[w][p].late # "no"
  /\ seen[w][p].state \in {"stopping", "cleanup_failed"} => Forced(w)
Due(w, p) ==
  LET o == seen[w][p]  orphan == o.manager # generation IN
    /\ Forced(w) \/ orphan \/ o.late # "no" \/ o.state = "cleanup_failed"
    /\ o.state = "stopping" => Forced(w) \/ orphan   \* a stop ends within 300 s

SweepSkips(w, p) ==
  /\ Up /\ at[w] = NoOwner /\ seen[w][p] # NoOwner /\ ~Due(w, p)
  /\ seen' = [seen EXCEPT ![w][p] = NoOwner]
  /\ UNCHANGED <<owners, container, job, stops, at, phase, maintenance, generation>>

\* A cleanup its process did not finish is marked failed: release resumes it.
Resumed(w, p) ==
  IF seen[w][p].state = "stopping" /\ HasToken(p, seen[w][p].token)
  THEN [owners EXCEPT ![p].state = "cleanup_failed"] ELSE owners

Reaches(w, p) ==
  /\ Up /\ at[w] = NoOwner /\ seen[w][p] # NoOwner /\ Due(w, p)
  /\ seen[w][p].state = "stopping" /\ StopInFlight(p, seen[w][p].token)
       => Forced(w) \/ "stop" \in Overlaps
  /\ job[seen[w][p].token].pc = "starting" => "start" \in Overlaps

\* A live worker of the snapshot's token is terminated and awaited ...
SweepTerminates(w, p) ==
  LET t == seen[w][p].token IN
  /\ Reaches(w, p) /\ job[t].pc = "working"
  /\ owners' = Resumed(w, p)
  /\ job' = GoTo(t, "ending")
  /\ at' = [at EXCEPT ![w] = p]
  /\ UNCHANGED <<container, stops, seen, phase, maintenance, generation>>

\* ... and then, or at once when there is none, the token is released.
SweepReleases(w, p) ==
  LET t == seen[w][p].token
      o == IF at[w] = p THEN owners ELSE Resumed(w, p)
  IN
  /\ ~Awaits(w)
  /\ \/ Up /\ at[w] = p
     \/ Reaches(w, p) /\ job[t].pc # "working"
  /\ Release(o, p, t, w)
  /\ IF ReleaseReturns(o, p, t) THEN AfterRelease(p, w)
     ELSE at' = [at EXCEPT ![w] = p] /\ UNCHANGED <<job, seen>>
  /\ UNCHANGED <<container, phase, maintenance, generation>>

-----------------------------------------------------------------------------
(* The backend process *)

TasksIdle ==                                                      \* mutant
  \A t \in Tokens : job[t].pc \notin {"claimed", "starting", "working"}
AutomationIdle ==
  /\ \A t \in Tokens : job[t].pc \notin {"claimed", "starting", "working"}
  /\ owners = Nothing

\* set_update_maintenance: refused while a task is active or a profile owned.
MaintenanceOn ==
  /\ phase = "serving" /\ ~maintenance
  /\ AutomationIdle
  /\ maintenance' = TRUE
  /\ UNCHANGED <<owners, container, job, stops, seen, at, phase, generation>>

MaintenanceOff ==
  /\ phase = "serving" /\ maintenance
  /\ maintenance' = FALSE
  /\ UNCHANGED <<owners, container, job, stops, seen, at, phase, generation>>

\* Tasks, sweeps and awaited stops end with the process; a start command in
\* flight may or may not have reached docker.
ProcessGone ==
  /\ phase' = "down"
  /\ stops' = {} /\ maintenance' = FALSE
  /\ seen' = [w \in Sweepers |-> Nothing]
  /\ at' = [w \in Sweepers |-> NoOwner]
  /\ job' = [t \in Tokens |-> IF Running(t) THEN [job[t] EXCEPT !.pc = "over"] ELSE job[t]]
  /\ \E started \in SUBSET {t \in Tokens : job[t].pc = "starting"} :
       container' = [p \in Profiles |->
         IF \E t \in started : job[t].profile = p THEN "running" ELSE container[p]]
  /\ UNCHANGED <<owners, generation>>

Crash == Up /\ generation < MaxRestarts /\ ProcessGone

\* A new instance id, then the awaited sweep before anything is served.
Restart ==
  /\ phase = "down" /\ generation < MaxRestarts
  /\ phase' = "booting"
  /\ generation' = generation + 1
  /\ seen' = [seen EXCEPT !["lifespan"] = owners]
  /\ UNCHANGED <<owners, container, job, stops, at, maintenance>>

\* setup_background_tasks: one more sweep is started without being awaited.
BootEnds ==
  /\ phase = "booting" /\ Idle("lifespan")
  /\ phase' = "serving"
  /\ seen' = [seen EXCEPT !["startup"] = owners]
  /\ UNCHANGED <<owners, container, job, stops, at, maintenance, generation>>

\* SHUTTING_DOWN, the scheduler's jobs are cancelled, and a forced sweep.
BeginShutdown ==
  /\ phase = "serving" /\ generation < MaxRestarts
  /\ phase' = "closing"
  /\ LET cut == {s \in stops : s.by = "watchdog"}
         after == [p \in Profiles |->
           IF \E s \in cut : s.profile = p /\ HasToken(p, s.token)
           THEN [owners[p] EXCEPT !.state = "cleanup_failed"] ELSE owners[p]]
     IN /\ stops' = stops \ cut
        /\ owners' = after
        /\ seen' = [seen EXCEPT !["watchdog"] = Nothing, !["lifespan"] = after]
  /\ at' = [at EXCEPT !["watchdog"] = NoOwner]
  /\ UNCHANGED <<container, job, maintenance, generation>>

ShutdownEnds == phase = "closing" /\ Idle("lifespan") /\ ProcessGone

-----------------------------------------------------------------------------
SweepStep(w) ==
  \E p \in Profiles : SweepSkips(w, p) \/ SweepTerminates(w, p) \/ SweepReleases(w, p)

StopEnds(s) == StopSucceeds(s) \/ StopFails(s)
JobStep(t) == MarkUsed(t) \/ ContainerReady(t) \/ ReleaseOwn(t)

Next ==
  \/ \E p \in Profiles, t \in Tokens, e \in Executions : Acquire(p, t, e)
  \/ \E t \in Tokens : JobStep(t)
  \/ \E t \in Tokens : WorkEnds(t) \/ CancelTask(t) \/ Heartbeat(t)
  \/ \E t \in Tokens, e \in Executions : Handoff(t, e)
  \/ \E s \in stops : StopEnds(s)
  \/ \E p \in Profiles : CancelPrepared(p) \/ HeartbeatLapses(p) \/ DeadlinePasses(p)
  \/ SweepBegins
  \/ \E w \in Sweepers : SweepStep(w)
  \/ MaintenanceOn \/ MaintenanceOff
  \/ Crash \/ Restart \/ BootEnds \/ BeginShutdown \/ ShutdownEnds

Spec == Init /\ [][Next]_vars

\* What the process and the clock guarantee: tasks run on, deadlines pass, the
\* sweeps are scheduled, a stopped backend is started again, and a stop that is
\* retried for ever succeeds in the end (docker is not broken for good).
Fairness ==
  /\ \A t \in Tokens : WF_vars(JobStep(t))
  /\ \A p \in Profiles : WF_vars(DeadlinePasses(p))
  /\ \A w \in Sweepers : WF_vars(SweepStep(w))
  /\ WF_vars(SweepBegins)
  /\ WF_vars(Restart \/ BootEnds \/ ShutdownEnds)
  /\ \A p \in Profiles : SF_vars(\E s \in stops : s.profile = p /\ StopSucceeds(s))

FairSpec == Spec /\ Fairness

-----------------------------------------------------------------------------
(* Correctness *)

\* A stop command never reaches the container of another owner: whatever a
\* sweep, a cancellation or a task still has in flight, the profile is free
\* or belongs to the token the stop was started for.
StopsHitTheirOwner ==
  \A s \in stops : Owned(s.profile) => owners[s.profile].token = s.token

\* A container that automation started is never without an owner who has it
\* marked used, across handoffs, crashes and restarts: some sweep will find it.
RunningIsOwned ==
  \A p \in Profiles : container[p] = "running" => Owned(p) /\ owners[p].used

\* At most one task at a time drives the browser of a profile, and it is the
\* owner: a task that lost its ownership was ended first.
DriverIsOwner ==
  \A t \in Tokens : job[t].pc = "working" => HasToken(job[t].profile, t)

\* The maintenance switch only stands while nothing runs and nothing is owned.
MaintenanceIsQuiet ==
  maintenance => owners = Nothing /\ \A p \in Profiles : container[p] = "stopped"

\* No attempt keeps a profile for ever: every token that owns a container is
\* given up, though tasks hang, stops fail and the backend restarts.
EveryOwnerLetsGo ==
  \A p \in Profiles, t \in Tokens : HasToken(p, t) ~> ~HasToken(p, t)

\* Refinement of the registry's promise.
AbstractPhase(s) ==
  CASE s = "active" -> "held" [] s = "handoff" -> "offered" [] OTHER -> "closing"
AbstractHolder(o) ==
  IF o = NoOwner THEN NoOwner
  ELSE [token |-> o.token, execution |-> o.execution,
        phase |-> AbstractPhase(o.state), used |-> o.used]
Holding == [p \in Profiles |-> AbstractHolder(owners[p])]
Given == {t \in Tokens : job[t].pc # "new"}
Ownership == INSTANCE ContainerOwnership WITH
  NoHolder <- NoOwner, holder <- Holding, issued <- Given
ImplementsOwnership == Ownership!Spec

ASSUME HolderAssumption == NoOwner \notin Ownership!Holders

=============================================================================
