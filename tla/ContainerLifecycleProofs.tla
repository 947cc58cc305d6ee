----------------------- MODULE ContainerLifecycleProofs -----------------------
(***************************************************************************)
(* Proofs about ContainerLifecycle, for any number of profiles, executions *)
(* and tokens and any bound on restarts, under the assumption that neither *)
(* overlap of Overlaps occurs.                                             *)
(***************************************************************************)
EXTENDS ContainerLifecycle, TLAPS

-----------------------------------------------------------------------------
(* The inductive invariant *)

\* Whoever is named anywhere by a token is the job of that token.
Issued(t, p) == t \in Tokens /\ job[t].pc # "new" /\ job[t].profile = p

OwnersIssued == \A p \in Profiles : Owned(p) => Issued(owners[p].token, p)
StopsIssued ==
  \A s \in stops : Issued(s.token, s.profile) /\ (s.by \in Tokens => s.by = s.token)
SeenIssued ==
  \A w \in Sweepers, p \in Profiles :
    seen[w][p] # NoOwner => Issued(seen[w][p].token, p)

\* A job that starts or drives a browser holds its container, marked used.
BusyHolds ==
  \A t \in Tokens : job[t].pc \in {"starting", "working"} =>
     Holds(job[t].profile, t) /\ owners[job[t].profile].used

\* An owner whose stop is in flight waits for it, and there is one such stop.
\* Only the forced sweep of a shutdown starts another one; by then nobody can
\* acquire the profile any more.
StopOwned(s) ==
  IF phase = "closing"
  THEN Owned(s.profile) => /\ owners[s.profile].token = s.token
                           /\ owners[s.profile].state # "active"
                           /\ owners[s.profile].state # "handoff"
  ELSE HasToken(s.profile, s.token) /\ owners[s.profile].state = "stopping"
StopsOwned == \A s \in stops : StopOwned(s)
OneStop ==
  phase # "closing" => \A r, s \in stops : r.profile = s.profile => r = s

\* The job of an owner that a sweep is about to release no longer works, and
\* will not start to.
Passive(t, p) ==
  \/ job[t].pc \in {"ending", "closing", "over"}
  \/ job[t].pc = "claimed" /\ ~Holds(p, t)
SweepsArePassive ==
  \A w \in Sweepers : at[w] # NoOwner =>
    seen[w][at[w]] # NoOwner /\ Passive(seen[w][at[w]].token, at[w])

\* Which sweeps can be under way in which phase.
PhasesSweep ==
  /\ phase = "down" => stops = {} /\ \A w \in Sweepers : Idle(w)
  /\ phase = "down" => \A t \in Tokens : ~Running(t)
  /\ phase = "booting" => Idle("startup") /\ Idle("watchdog")
  /\ phase = "serving" => Idle("lifespan")

MaintenanceOwnsNothing == maintenance => owners = Nothing

IInv ==
  /\ TypeOK
  /\ OwnersIssued /\ StopsIssued /\ SeenIssued
  /\ BusyHolds /\ RunningIsOwned
  /\ StopsOwned /\ OneStop
  /\ SweepsArePassive /\ PhasesSweep
  /\ MaintenanceOwnsNothing

-----------------------------------------------------------------------------
(* Ingredients *)

USE LifecycleAssumption
USE DEF Set, GoTo, Up, Owned, HasToken, Holds, Issued, Idle, Nothing, Running
USE DEF Owner, Jobs, JobPcs, States, Lateness, Stop, Callers, Sweepers

\* A task takes a step: its profile stays, the other tasks are untouched.
LEMMA JobMoves ==
  ASSUME TypeOK, NEW t \in Tokens, job[t].pc # "new", NEW pc \in JobPcs \ {"new"},
         job' = GoTo(t, pc)
  PROVE  /\ job' \in [Tokens -> Jobs]
         /\ job'[t].pc = pc /\ job'[t].profile = job[t].profile
         /\ \A u \in Tokens \ {t} : job'[u] = job[u]
BY DEF TypeOK

\* An owner changes state: token and use stay, other profiles are untouched.
LEMMA StateMoves ==
  ASSUME TypeOK, NEW p \in Profiles, Owned(p), NEW st \in States,
         owners' = [owners EXCEPT ![p].state = st]
  PROVE  /\ owners' \in [Profiles -> Owner \cup {NoOwner}]
         /\ Owned(p)' /\ owners'[p].token = owners[p].token /\ owners'[p].state = st
         /\ \A q \in Profiles \ {p} : owners'[q] = owners[q]
         /\ owners'[p].used = owners[p].used
BY DEF TypeOK

\* What every release does to the registry and to the tasks: the token it is
\* for may lose its container or see it closing, and tasks come nearer to
\* their end.
Busy(t) == job[t].pc \in {"starting", "working"}
Yields(p, t) ==
  /\ \A q \in Profiles \ {p} : owners'[q] = owners[q]
  /\ \/ owners'[p] = owners[p]
     \/ HasToken(p, t) /\ owners'[p] = NoOwner
     \/ /\ HasToken(p, t) /\ HasToken(p, t)'
        /\ owners'[p].state \in {"stopping", "cleanup_failed"}
        /\ owners'[p].used = owners[p].used
Settles(u) ==
  \/ job'[u] = job[u]
  \/ /\ job[u].pc # "new" /\ job'[u].profile = job[u].profile
     /\ job'[u].pc \in {"ending", "closing", "over"}

\* When a token yields and no task comes to drive a browser, whoever drives one
\* still holds it, and whoever was passive still is.
LEMMA YieldStep ==
  ASSUME IInv, NEW p \in Profiles, NEW t \in Tokens, Yields(p, t),
         ~Busy(t)', \A u \in Tokens : Settles(u)
  PROVE  /\ OwnersIssued' /\ BusyHolds'
         /\ \A u \in Tokens, q \in Profiles :
              Issued(u, q) => Issued(u, q)' /\ (Passive(u, q) => Passive(u, q)')
<1>1. \A u \in Tokens, q \in Profiles : Issued(u, q) => Issued(u, q)'
  BY DEF Settles
<1>2. OwnersIssued'
  BY <1>1 DEF IInv, TypeOK, OwnersIssued, Yields
<1>3. ASSUME NEW u \in Tokens, Busy(u)'
      PROVE  Holds(job[u].profile, u)' /\ owners'[job'[u].profile].used
  <2>1. job'[u] = job[u] /\ u # t
    BY <1>3 DEF Settles, Busy
  <2>2. Holds(job[u].profile, u) /\ owners[job[u].profile].used /\ job[u].profile \in Profiles
    BY <1>3, <2>1 DEF IInv, TypeOK, BusyHolds, Busy
  <2>3. owners'[job[u].profile] = owners[job[u].profile]
    BY <2>1, <2>2 DEF Yields
  <2> QED BY <2>1, <2>2, <2>3
<1>4. BusyHolds'
  BY <1>3 DEF BusyHolds, Busy
<1>5. ASSUME NEW u \in Tokens, NEW q \in Profiles, Issued(u, q), Passive(u, q)
      PROVE  Passive(u, q)'
  BY <1>5 DEF Settles, Passive, Yields
<1> QED BY <1>1, <1>2, <1>4, <1>5

\* Where the caller of a release goes on.
LEMMA AfterReleaseStep ==
  ASSUME TypeOK, NEW p \in Profiles, NEW c \in Callers,
         c \in Tokens => job[c].pc # "new", AfterRelease(p, c)
  PROVE  /\ job' \in [Tokens -> Jobs]
         /\ seen' \in [Sweepers -> [Profiles -> Owner \cup {NoOwner}]]
         /\ at' \in [Sweepers -> Profiles \cup {NoOwner}]
         /\ \A u \in Tokens : Settles(u) /\ (u # c => job'[u] = job[u])
         /\ c \in Tokens => ~Busy(c)'
         /\ \A w \in Sweepers, q \in Profiles :
              seen'[w][q] = seen[w][q] \/ seen'[w][q] = NoOwner
         /\ \A w \in Sweepers :
              at'[w] = NoOwner \/ (at'[w] = at[w] /\ seen'[w] = seen[w])
<1>1. CASE c \in Tokens
  <2>1. UNCHANGED <<seen, at>>
    BY <1>1 DEF AfterRelease
  <2>2. /\ job' = GoTo(c, IF job[c].pc = "ending" THEN "closing" ELSE "over")
        /\ job[c].pc # "new"
    BY <1>1 DEF AfterRelease
  <2> QED BY <1>1, <2>1, <2>2 DEF TypeOK, Settles, Busy
<1>2. CASE c \in Sweepers
  <2>1. /\ job' = job /\ seen' = [seen EXCEPT ![c][p] = NoOwner]
        /\ at' = [at EXCEPT ![c] = NoOwner]
    BY <1>2 DEF AfterRelease
  <2>2. /\ seen' \in [Sweepers -> [Profiles -> Owner \cup {NoOwner}]]
        /\ \A w \in Sweepers, q \in Profiles :
             seen'[w][q] = seen[w][q] \/ seen'[w][q] = NoOwner
        /\ \A w \in Sweepers : w # c => seen'[w] = seen[w]
    BY <1>2, <2>1 DEF TypeOK
  <2>3. /\ at' \in [Sweepers -> Profiles \cup {NoOwner}] /\ at'[c] = NoOwner
        /\ \A w \in Sweepers : w # c => at'[w] = at[w]
    BY <1>2, <2>1 DEF TypeOK
  <2>4. c \notin Tokens
    BY <1>2
  <2>5. job' \in [Tokens -> Jobs] /\ \A u \in Tokens : Settles(u) /\ job'[u] = job[u]
    BY <2>1 DEF TypeOK, Settles
  <2>6. \A w \in Sweepers :
          at'[w] = NoOwner \/ (at'[w] = at[w] /\ seen'[w] = seen[w])
    BY <2>2, <2>3
  <2> QED BY <2>2, <2>3, <2>4, <2>5, <2>6
<1>3. CASE c = "api"
  BY <1>3 DEF AfterRelease, TypeOK, Settles
<1> QED BY <1>1, <1>2, <1>3

\* The stop command s ends: whoever awaited it goes on.
LEMMA AwaitEnds ==
  ASSUME IInv, NEW s \in stops, AfterRelease(s.profile, s.by)
  PROVE  /\ s \in Stop /\ Issued(s.token, s.profile)
         /\ ~Busy(s.token)' /\ \A u \in Tokens : Settles(u)
<1>1. s \in Stop /\ Issued(s.token, s.profile) /\ (s.by \in Tokens => s.by = s.token)
  BY DEF IInv, TypeOK, StopsIssued
<1>2. ~Holds(s.profile, s.token)
  BY DEF IInv, StopsOwned, StopOwned
<1>3. ~Busy(s.token)
  BY <1>1, <1>2 DEF IInv, BusyHolds, Busy
<1>4. \A u \in Tokens : Settles(u) /\ (u # s.by => job'[u] = job[u])
  BY <1>1, AfterReleaseStep DEF IInv
<1>5. s.by \in Tokens => ~Busy(s.by)'
  BY <1>1, AfterReleaseStep DEF IInv
<1>6. ~Busy(s.token)'
  BY <1>1, <1>3, <1>4, <1>5 DEF Busy
<1> QED BY <1>1, <1>4, <1>6

\* Sweeps stay passive when their callers go on or finish a profile.
LEMMA SweepsGoOn ==
  ASSUME IInv,
         \A u \in Tokens, q \in Profiles :
            Issued(u, q) => Issued(u, q)' /\ (Passive(u, q) => Passive(u, q)'),
         \A w \in Sweepers, q \in Profiles :
            seen'[w][q] = seen[w][q] \/ seen'[w][q] = NoOwner,
         \A w \in Sweepers :
            at'[w] = NoOwner \/ (at'[w] = at[w] /\ seen'[w] = seen[w])
  PROVE  SeenIssued' /\ SweepsArePassive'
<1>1. SeenIssued'
  BY DEF IInv, SeenIssued
<1>2. ASSUME NEW w \in Sweepers, at'[w] # NoOwner
      PROVE  (seen[w][at[w]] # NoOwner /\ Passive(seen[w][at[w]].token, at[w]))'
  <2>1. at'[w] = at[w] /\ seen'[w] = seen[w] /\ at[w] \in Profiles
    BY <1>2 DEF IInv, TypeOK
  <2>2. seen[w][at[w]] # NoOwner /\ Passive(seen[w][at[w]].token, at[w])
    BY <1>2, <2>1 DEF IInv, SweepsArePassive
  <2>3. PICK u \in Tokens, q \in Profiles :
           u = seen[w][at[w]].token /\ q = at[w] /\ Issued(u, q)
    BY <2>1, <2>2 DEF IInv, SeenIssued
  <2>4. Passive(u, q)'
    BY <2>2, <2>3
  <2> QED BY <2>1, <2>2, <2>3, <2>4
<1>3. SweepsArePassive'
  BY <1>2 DEF SweepsArePassive
<1> QED BY <1>1, <1>3

\* Ending stops, and owners that yield, leave the other stops their owners.
LEMMA StopsStand ==
  ASSUME IInv, NEW p \in Profiles, NEW t \in Tokens, Yields(p, t),
         stops' \subseteq stops, phase' = phase,
         \A r \in stops' : phase # "closing" => r.profile # p
  PROVE  StopsOwned' /\ OneStop'
<1>1. ASSUME NEW r \in stops', phase # "closing"
      PROVE  StopOwned(r)'
  BY <1>1 DEF IInv, TypeOK, StopsOwned, StopOwned, Yields
<1>2. ASSUME NEW r \in stops', phase = "closing"
      PROVE  StopOwned(r)'
  <2>1. r \in stops /\ r.profile \in Profiles
    BY DEF IInv, TypeOK
  <2>2. CASE owners'[r.profile] = owners[r.profile]
    BY <1>2, <2>1, <2>2 DEF IInv, StopsOwned, StopOwned
  <2>3. CASE owners'[r.profile] # owners[r.profile]
    BY <1>2, <2>1, <2>3 DEF IInv, StopsOwned, StopOwned, Yields
  <2> QED BY <2>2, <2>3
<1> QED BY <1>1, <1>2 DEF IInv, StopsOwned, OneStop

\* `release` itself, as every caller uses it.
LEMMA ReleaseStep ==
  ASSUME IInv, NEW p \in Profiles, NEW t \in Tokens, NEW c \in Callers,
         Issued(t, p), c \in Tokens => c = t, ~Busy(t)', \A u \in Tokens : Settles(u),
         NEW o,
         \/ o = owners
         \/ /\ HasToken(p, t) /\ o = [owners EXCEPT ![p].state = "cleanup_failed"]
            /\ phase # "closing" => ~StopInFlight(p, t),
         Release(o, p, t, c), UNCHANGED <<container, phase, maintenance>>
  PROVE  /\ owners' \in [Profiles -> Owner \cup {NoOwner}] /\ stops' \subseteq Stop
         /\ Yields(p, t) /\ OwnersIssued' /\ BusyHolds' /\ StopsIssued'
         /\ RunningIsOwned' /\ StopsOwned' /\ OneStop' /\ MaintenanceOwnsNothing'
         /\ \A u \in Tokens, q \in Profiles :
              Issued(u, q) => Issued(u, q)' /\ (Passive(u, q) => Passive(u, q)')
         /\ ~ReleaseReturns(o, p, t) => owners'[p].state = "stopping"
<1>1. /\ \A q \in Profiles \ {p} : o[q] = owners[q]
      /\ o \in [Profiles -> Owner \cup {NoOwner}]
      /\ o[p] # NoOwner <=> Owned(p)
      /\ Owned(p) => o[p].token = owners[p].token /\ o[p].used = owners[p].used
  <2>1. CASE o = owners
    BY <2>1 DEF IInv, TypeOK
  <2>2. CASE HasToken(p, t) /\ o = [owners EXCEPT ![p].state = "cleanup_failed"]
    BY <2>2 DEF IInv, TypeOK
  <2> QED BY <2>1, <2>2
<1>2. ASSUME phase # "closing", NEW r \in stops, r.profile = p, HasToken(p, t)
      PROVE  o = owners /\ o[p].state = "stopping"
  <2>1. HasToken(p, r.token) /\ owners[p].state = "stopping"
    BY <1>2 DEF IInv, StopsOwned, StopOwned
  <2>2. StopInFlight(p, t)
    BY <1>2, <2>1 DEF StopInFlight
  <2> QED BY <1>2, <2>1, <2>2
<1>3. CASE ReleaseReturns(o, p, t)
  <2>1. stops' = stops
    BY <1>3 DEF Release
  <2>2. \/ owners' = owners
        \/ /\ HasToken(p, t) /\ ~owners[p].used /\ o[p].state # "stopping"
           /\ owners' = [owners EXCEPT ![p] = NoOwner]
    BY <1>1, <1>3 DEF Release, ReleaseReturns, IInv, TypeOK
  <2>3. owners' \in [Profiles -> Owner \cup {NoOwner}] /\ Yields(p, t)
    BY <2>2 DEF IInv, TypeOK, Yields
  <2>4. StopsOwned' /\ OneStop'
    <3>1. CASE owners' = owners
      BY <2>1, <3>1 DEF IInv, StopsOwned, StopOwned, OneStop
    <3>2. CASE owners' # owners
      BY <1>2, <2>1, <2>2, <2>3, <3>2, StopsStand DEF Yields
    <3> QED BY <3>1, <3>2
  <2>5. RunningIsOwned' /\ MaintenanceOwnsNothing'
    BY <2>2 DEF IInv, TypeOK, RunningIsOwned, MaintenanceOwnsNothing
  <2> QED BY <1>3, <2>1, <2>3, <2>4, <2>5, YieldStep DEF Yields, IInv, TypeOK,
     StopsIssued
<1>4. CASE ~ReleaseReturns(o, p, t)
  <2> DEFINE s == [profile |-> p, token |-> t, by |-> c]
  <2>1. HasToken(p, t) /\ stops' = stops \cup {s} /\ s \in Stop
    BY <1>1, <1>4 DEF Release, ReleaseReturns
  <2>2. owners' = [owners EXCEPT ![p].state = "stopping"]
    BY <1>1, <1>4 DEF Release, ReleaseReturns, IInv, TypeOK
  <2>3. /\ owners' \in [Profiles -> Owner \cup {NoOwner}] /\ Yields(p, t)
        /\ HasToken(p, t)' /\ owners'[p].state = "stopping"
    <3>1. TypeOK /\ Owned(p) /\ "stopping" \in States
      BY <2>1 DEF IInv
    <3>2. /\ owners' \in [Profiles -> Owner \cup {NoOwner}]
          /\ Owned(p)' /\ owners'[p].token = owners[p].token
          /\ owners'[p].state = "stopping"
          /\ \A q \in Profiles \ {p} : owners'[q] = owners[q]
          /\ owners'[p].used = owners[p].used
      BY <2>2, <3>1, StateMoves
    <3> QED BY <2>1, <3>2 DEF Yields
  <2>4. \A r \in stops : phase # "closing" => r.profile # p
    BY <1>2, <1>4, <2>1 DEF ReleaseReturns
  <2>5. ASSUME NEW r \in stops'
        PROVE  StopOwned(r)'
    <3>1. CASE r = s
      BY <2>3, <3>1 DEF StopOwned
    <3>2. CASE r # s /\ r.profile # p
      BY <2>1, <2>3, <3>2 DEF IInv, TypeOK, StopsOwned, StopOwned, Yields
    <3>3. CASE r # s /\ r.profile = p
      BY <2>1, <2>3, <2>4, <3>3 DEF IInv, StopsOwned, StopOwned
    <3> QED BY <3>1, <3>2, <3>3
  <2>6. OneStop'
    BY <2>1, <2>4 DEF IInv, OneStop
  <2>7. RunningIsOwned' /\ MaintenanceOwnsNothing'
    BY <2>1, <2>3 DEF IInv, RunningIsOwned, MaintenanceOwnsNothing, Yields
  <2>8. StopsIssued' /\ stops' \subseteq Stop
    BY <2>1 DEF IInv, TypeOK, StopsIssued, Settles
  <2> QED BY <2>3, <2>5, <2>6, <2>7, <2>8, YieldStep DEF Yields, StopsOwned
<1> QED BY <1>3, <1>4

-----------------------------------------------------------------------------
(* Each step preserves the invariant *)

\* A profile is taken over: nobody stops it, since its owner was free or offered.
LEMMA AcquireStep ==
  ASSUME IInv, NEW p \in Profiles, NEW t \in Tokens, NEW e \in Executions,
     Acquire(p, t, e)
  PROVE  IInv'
<1>1. TypeOK'
  BY DEF IInv, TypeOK, Acquire, Available, InheritedUse
<1>2. OwnersIssued' /\ StopsIssued' /\ SeenIssued'
  BY DEF IInv, TypeOK, OwnersIssued, StopsIssued, SeenIssued, Acquire, Available,
     InheritedUse
<1>3. BusyHolds'
  BY DEF IInv, TypeOK, BusyHolds, OwnersIssued, Acquire, Available, InheritedUse
<1>4. RunningIsOwned'
  BY DEF IInv, TypeOK, RunningIsOwned, Acquire, Available, InheritedUse
<1>5. StopsOwned'
  BY DEF IInv, TypeOK, StopsOwned, StopOwned, Acquire, Available, InheritedUse
<1>6. OneStop'
  BY DEF IInv, TypeOK, OneStop, StopsOwned, StopOwned, Acquire, Available,
     InheritedUse
<1>7. SweepsArePassive'
  BY DEF IInv, TypeOK, SweepsArePassive, Passive, PhasesSweep, SeenIssued,
     Acquire, Available, InheritedUse
<1>8. PhasesSweep' /\ MaintenanceOwnsNothing'
  BY DEF IInv, TypeOK, PhasesSweep, SweepsArePassive, MaintenanceOwnsNothing,
     Acquire, Available, InheritedUse
<1> QED BY <1>1, <1>2, <1>3, <1>4, <1>5, <1>6, <1>7, <1>8 DEF IInv

\* mark_used keeps every owner; a task whose ownership is gone turns to its end.
LEMMA MarkUsedStep ==
  ASSUME IInv, NEW t \in Tokens, MarkUsed(t)
  PROVE  IInv'
<1>1. PICK p \in Profiles :
      /\ p = job[t].profile /\ job[t].pc = "claimed"
      /\ UNCHANGED <<container, stops, seen, at, phase, maintenance, generation>>
  BY DEF IInv, TypeOK, MarkUsed
<1>2. CASE Holds(p, t)
  <2> DEFINE r == [owners[p] EXCEPT !.used = TRUE]
  <2>1. /\ owners' = [owners EXCEPT ![p] = r]
        /\ job' = [job EXCEPT ![t].pc = "starting"]
    BY <1>1, <1>2 DEF MarkUsed
  <2>2. owners[p] \in Owner
    BY <1>1, <1>2 DEF IInv, TypeOK
  <2>3. r \in Owner /\ r.token = t /\ r.state = "active"
    BY <1>2, <2>2
  <2>4. r.used
    BY <2>2, Zenon
  <2> HIDE DEF r
  <2>5. /\ owners' \in [Profiles -> Owner \cup {NoOwner}]
        /\ \A q \in Profiles \ {p} : owners'[q] = owners[q]
        /\ Holds(p, t)' /\ owners'[p].used
    BY <1>1, <2>1, <2>3, <2>4 DEF IInv, TypeOK
  <2>6. /\ job' \in [Tokens -> Jobs] /\ job'[t].pc = "starting" /\ job'[t].profile = p
        /\ \A u \in Tokens \ {t} : job'[u] = job[u]
    BY <1>1, <2>1 DEF IInv, TypeOK
  <2>7. TypeOK'
    BY <1>1, <2>5, <2>6 DEF IInv, TypeOK
  <2>8. OwnersIssued' /\ StopsIssued' /\ SeenIssued'
    <3>1. \A u \in Tokens, q \in Profiles : Issued(u, q) => Issued(u, q)'
      BY <1>1, <2>6
    <3>2. OwnersIssued'
      BY <1>1, <2>5, <2>6, <3>1 DEF IInv, TypeOK, OwnersIssued
    <3> QED BY <1>1, <3>1, <3>2 DEF IInv, TypeOK, StopsIssued, SeenIssued
  <2>9. BusyHolds'
    <3>1. ASSUME NEW u \in Tokens, u # t, job'[u].pc \in {"starting", "working"}
          PROVE  Holds(job[u].profile, u)' /\ owners'[job'[u].profile].used
      <4>1. job'[u] = job[u] /\ job[u].profile \in Profiles
        BY <2>6, <3>1 DEF IInv, TypeOK
      <4>2. Holds(job[u].profile, u) /\ owners[job[u].profile].used
        BY <3>1, <4>1 DEF IInv, BusyHolds
      <4> QED BY <1>2, <2>5, <3>1, <4>1, <4>2
    <3> QED BY <2>5, <2>6, <3>1 DEF BusyHolds
  <2>10. RunningIsOwned'
    <3> SUFFICES ASSUME NEW q \in Profiles, container'[q] = "running"
                 PROVE  Owned(q)' /\ owners'[q].used
      BY DEF RunningIsOwned
    <3>1. CASE q = p
      BY <2>5, <3>1
    <3>2. CASE q # p
      BY <1>1, <2>5, <3>2 DEF IInv, RunningIsOwned
    <3> QED BY <3>1, <3>2
  <2>11. StopsOwned' /\ OneStop'
    BY <1>1, <1>2, <2>5 DEF IInv, TypeOK, StopsOwned, StopOwned, OneStop
  <2>12. SweepsArePassive'
    BY <1>1, <1>2, <2>5, <2>6, SMTT(30) DEF IInv, TypeOK, SweepsArePassive, Passive,
       SeenIssued
  <2>13. PhasesSweep' /\ MaintenanceOwnsNothing'
    BY <1>1, <1>2, <2>6 DEF IInv, PhasesSweep, MaintenanceOwnsNothing, MarkUsed
  <2> QED BY <2>7, <2>8, <2>9, <2>10, <2>11, <2>12, <2>13 DEF IInv
<1>3. CASE ~Holds(p, t)
  <2>1. job' = [job EXCEPT ![t].pc = "ending"] /\ owners' = owners
    BY <1>1, <1>3 DEF MarkUsed
  <2>2. TypeOK' /\ OwnersIssued' /\ StopsIssued' /\ SeenIssued'
    BY <1>1, <2>1 DEF IInv, TypeOK, OwnersIssued, StopsIssued, SeenIssued
  <2>3. BusyHolds' /\ RunningIsOwned' /\ StopsOwned' /\ OneStop'
    BY <1>1, <2>1 DEF IInv, TypeOK, BusyHolds, RunningIsOwned, StopsOwned,
       StopOwned, OneStop
  <2>4. SweepsArePassive'
    BY <1>1, <2>1 DEF IInv, TypeOK, SweepsArePassive, Passive
  <2>5. PhasesSweep' /\ MaintenanceOwnsNothing'
    BY <1>1, <2>1 DEF IInv, PhasesSweep, MaintenanceOwnsNothing, MarkUsed
  <2> QED BY <2>2, <2>3, <2>4, <2>5 DEF IInv
<1> QED BY <1>2, <1>3

\* A started container belongs to the job that started it.
LEMMA ContainerReadyStep ==
  ASSUME IInv, NEW t \in Tokens, ContainerReady(t)
  PROVE  IInv'
<1>1. TypeOK'
  BY DEF IInv, TypeOK, ContainerReady
<1>2. OwnersIssued' /\ StopsIssued' /\ SeenIssued'
  BY DEF IInv, TypeOK, OwnersIssued, StopsIssued, SeenIssued, ContainerReady
<1>3. BusyHolds' /\ RunningIsOwned'
  BY DEF IInv, TypeOK, BusyHolds, RunningIsOwned, ContainerReady
<1>4. StopsOwned' /\ OneStop'
  BY DEF IInv, TypeOK, StopsOwned, StopOwned, OneStop, ContainerReady
<1>5. SweepsArePassive'
  BY DEF IInv, TypeOK, SweepsArePassive, Passive, PhasesSweep, ContainerReady
<1>6. PhasesSweep' /\ MaintenanceOwnsNothing'
  BY DEF IInv, TypeOK, PhasesSweep, SweepsArePassive, MaintenanceOwnsNothing,
     ContainerReady
<1> QED BY <1>1, <1>2, <1>3, <1>4, <1>5, <1>6 DEF IInv

\* Finished work leaves the container to its owner.
LEMMA WorkEndsStep ==
  ASSUME IInv, NEW t \in Tokens, WorkEnds(t)
  PROVE  IInv'
<1>1. TypeOK'
  BY DEF IInv, TypeOK, WorkEnds
<1>2. OwnersIssued' /\ StopsIssued' /\ SeenIssued'
  BY DEF IInv, TypeOK, OwnersIssued, StopsIssued, SeenIssued, WorkEnds
<1>3. BusyHolds' /\ RunningIsOwned'
  BY DEF IInv, TypeOK, BusyHolds, RunningIsOwned, WorkEnds
<1>4. StopsOwned' /\ OneStop'
  BY DEF IInv, TypeOK, StopsOwned, StopOwned, OneStop, WorkEnds
<1>5. SweepsArePassive'
  BY DEF IInv, TypeOK, SweepsArePassive, Passive, PhasesSweep, WorkEnds
<1>6. PhasesSweep' /\ MaintenanceOwnsNothing'
  BY DEF IInv, TypeOK, PhasesSweep, SweepsArePassive, MaintenanceOwnsNothing,
     WorkEnds
<1> QED BY <1>1, <1>2, <1>3, <1>4, <1>5, <1>6 DEF IInv

\* handoff offers a container whose owner was driving it, hence nobody stops it.
LEMMA HandoffStep ==
  ASSUME IInv, NEW t \in Tokens, NEW e \in Executions, Handoff(t, e)
  PROVE  IInv'
<1>1. PICK p \in Profiles :
      /\ p = job[t].profile /\ job[t].pc = "working" /\ Holds(p, t)
      /\ owners[p] \in Owner /\ owners[p].used = TRUE
      /\ UNCHANGED <<container, stops, seen, at, phase, maintenance, generation>>
  BY DEF IInv, TypeOK, Handoff, BusyHolds
<1> DEFINE r == [owners[p] EXCEPT !.state = "handoff", !.execution = e,
                  !.late = IF owners[p].late = "deadline" THEN owners[p].late ELSE "no"]
<1>2. owners' = [owners EXCEPT ![p] = r] /\ job' = [job EXCEPT ![t].pc = "over"]
  BY <1>1 DEF Handoff
<1>3. r \in Owner /\ r.token = t /\ r.state = "handoff"
  BY <1>1
<1>4. r.used = TRUE
  BY <1>1
<1> HIDE DEF r
<1>5. /\ owners' \in [Profiles -> Owner \cup {NoOwner}]
      /\ \A q \in Profiles \ {p} : owners'[q] = owners[q]
      /\ HasToken(p, t)' /\ owners'[p].state = "handoff" /\ owners'[p].used = TRUE
  BY <1>1, <1>2, <1>3, <1>4 DEF IInv, TypeOK
<1>6. TypeOK'
  BY <1>1, <1>2, <1>5 DEF IInv, TypeOK
<1>7. OwnersIssued' /\ StopsIssued' /\ SeenIssued'
  BY <1>1, <1>2, <1>5 DEF IInv, TypeOK, OwnersIssued, StopsIssued, SeenIssued
<1>8. BusyHolds'
  BY <1>1, <1>2, <1>5 DEF IInv, TypeOK, BusyHolds
<1>9. RunningIsOwned'
  <2> SUFFICES ASSUME NEW q \in Profiles, container'[q] = "running"
               PROVE  Owned(q)' /\ owners'[q].used
    BY DEF RunningIsOwned
  <2>1. CASE q = p
    BY <1>5, <2>1
  <2>2. CASE q # p
    BY <1>1, <1>5, <2>2 DEF IInv, RunningIsOwned
  <2> QED BY <2>1, <2>2
<1>10. StopsOwned' /\ OneStop'
  BY <1>1, <1>5 DEF IInv, TypeOK, StopsOwned, StopOwned, OneStop
<1>11. SweepsArePassive'
  BY <1>1, <1>2, <1>5 DEF IInv, TypeOK, SweepsArePassive, Passive, SeenIssued
<1>12. PhasesSweep' /\ MaintenanceOwnsNothing'
  BY <1>1, <1>2, <1>5 DEF IInv, TypeOK, PhasesSweep, MaintenanceOwnsNothing
<1> QED BY <1>6, <1>7, <1>8, <1>9, <1>10, <1>11, <1>12 DEF IInv

\* release of the own token, the first time or again.
LEMMA ReleaseOwnStep ==
  ASSUME IInv, NEW t \in Tokens, ReleaseOwn(t)
  PROVE  IInv'
<1> DEFINE p == job[t].profile
<1>1. /\ p \in Profiles /\ Issued(t, p) /\ t \in Callers /\ ~Busy(t) /\ phase # "down"
      /\ UNCHANGED <<container, phase, maintenance, generation>>
      /\ Release(owners, p, t, t)
      /\ AfterRelease(p, t) \/ UNCHANGED <<job, seen, at>>
  BY DEF IInv, TypeOK, ReleaseOwn, Busy
<1>2. /\ job' \in [Tokens -> Jobs] /\ ~Busy(t)' /\ \A u \in Tokens : Settles(u)
      /\ seen' = seen /\ at' = at
  <2>1. CASE AfterRelease(p, t)
    <3>1. seen' = seen /\ at' = at
      BY <2>1 DEF AfterRelease
    <3> QED BY <1>1, <2>1, <3>1, AfterReleaseStep DEF IInv
  <2>2. CASE UNCHANGED <<job, seen, at>>
    BY <1>1, <2>2 DEF IInv, TypeOK, Settles, Busy
  <2> QED BY <1>1, <2>1, <2>2
<1>3. /\ owners' \in [Profiles -> Owner \cup {NoOwner}] /\ stops' \subseteq Stop
      /\ OwnersIssued' /\ BusyHolds' /\ StopsIssued'
      /\ RunningIsOwned' /\ StopsOwned' /\ OneStop' /\ MaintenanceOwnsNothing'
      /\ \A u \in Tokens, q \in Profiles :
           Issued(u, q) => Issued(u, q)' /\ (Passive(u, q) => Passive(u, q)')
  BY <1>1, <1>2, ReleaseStep
<1>4. TypeOK'
  BY <1>1, <1>2, <1>3 DEF IInv, TypeOK
<1>5. SeenIssued' /\ SweepsArePassive'
  BY <1>2, <1>3, SweepsGoOn
<1>6. PhasesSweep'
  BY <1>1, <1>2 DEF IInv, PhasesSweep
<1> QED BY <1>3, <1>4, <1>5, <1>6 DEF IInv

\* A cancelled task still holds its container until its finally block.
LEMMA CancelTaskStep ==
  ASSUME IInv, NEW t \in Tokens, CancelTask(t)
  PROVE  IInv'
<1>1. TypeOK'
  BY DEF IInv, TypeOK, CancelTask
<1>2. OwnersIssued' /\ StopsIssued' /\ SeenIssued'
  BY DEF IInv, TypeOK, OwnersIssued, StopsIssued, SeenIssued, CancelTask
<1>3. BusyHolds' /\ RunningIsOwned'
  BY DEF IInv, TypeOK, BusyHolds, RunningIsOwned, CancelTask
<1>4. StopsOwned' /\ OneStop'
  BY DEF IInv, TypeOK, StopsOwned, StopOwned, OneStop, CancelTask
<1>5. SweepsArePassive'
  BY DEF IInv, TypeOK, SweepsArePassive, Passive, PhasesSweep, CancelTask
<1>6. PhasesSweep' /\ MaintenanceOwnsNothing'
  BY DEF IInv, TypeOK, PhasesSweep, SweepsArePassive, MaintenanceOwnsNothing,
     CancelTask
<1> QED BY <1>1, <1>2, <1>3, <1>4, <1>5, <1>6 DEF IInv

\* A cancellation releases only what no task drives.
LEMMA CancelPreparedStep ==
  ASSUME IInv, NEW p \in Profiles, CancelPrepared(p)
  PROVE  IInv'
<1>1. PICK t \in Tokens : t = owners[p].token /\ Issued(t, p)
  BY DEF IInv, TypeOK, OwnersIssued, CancelPrepared
<1>2. /\ "api" \in Callers /\ "api" \notin Tokens /\ phase # "down"
      /\ UNCHANGED <<container, job, seen, at, phase, maintenance, generation>>
      /\ Release(owners, p, t, "api") /\ ~Holds(p, t)
  BY <1>1 DEF CancelPrepared
<1>3. ~Busy(t)' /\ \A u \in Tokens : Settles(u)
  BY <1>1, <1>2 DEF IInv, BusyHolds, Busy, Settles
<1>4. /\ owners' \in [Profiles -> Owner \cup {NoOwner}] /\ stops' \subseteq Stop
      /\ OwnersIssued' /\ BusyHolds' /\ StopsIssued'
      /\ RunningIsOwned' /\ StopsOwned' /\ OneStop' /\ MaintenanceOwnsNothing'
      /\ \A u \in Tokens, q \in Profiles :
           Issued(u, q) => Issued(u, q)' /\ (Passive(u, q) => Passive(u, q)')
  BY <1>1, <1>2, <1>3, ReleaseStep
<1>5. TypeOK'
  BY <1>2, <1>4 DEF IInv, TypeOK
<1>6. SeenIssued' /\ SweepsArePassive'
  BY <1>2, <1>4, SweepsGoOn
<1>7. PhasesSweep'
  BY <1>2 DEF IInv, PhasesSweep
<1> QED BY <1>4, <1>5, <1>6, <1>7 DEF IInv

\* A stop that ends, well or badly, was awaited by the owner it was started for.
LEMMA StopEndsStep ==
  ASSUME IInv, NEW s \in stops, StopEnds(s)
  PROVE  IInv'
<1> DEFINE p == s.profile
<1>1. /\ s \in Stop /\ stops' = stops \ {s} /\ AfterRelease(p, s.by)
      /\ UNCHANGED <<phase, maintenance, generation>>
  BY DEF IInv, TypeOK, StopEnds, StopSucceeds, StopFails
<1>2. /\ s.token \in Tokens /\ p \in Profiles /\ s.by \in Callers
      /\ ~Busy(s.token)' /\ \A u \in Tokens : Settles(u)
      /\ s.by \in Tokens => job[s.by].pc # "new"
  BY <1>1, AwaitEnds DEF IInv, StopsIssued
<1>3. /\ owners' \in [Profiles -> Owner \cup {NoOwner}]
      /\ Yields(p, s.token)
      /\ owners'[p] = NoOwner => owners' = owners \/ container'[p] = "stopped"
  <2>1. CASE HasToken(p, s.token) /\ StopFails(s)
    <3>1. owners' = [owners EXCEPT ![p].state = "cleanup_failed"]
      BY <2>1, <1>2 DEF StopFails, IInv, TypeOK
    <3> QED BY <2>1, <3>1, <1>2, StateMoves DEF IInv, Yields
  <2>2. CASE HasToken(p, s.token) /\ StopSucceeds(s)
    BY <2>2, <1>2 DEF StopSucceeds, IInv, TypeOK, Yields
  <2>3. CASE ~HasToken(p, s.token)
    BY <2>3, <1>2 DEF StopEnds, StopSucceeds, StopFails, IInv, TypeOK, Yields
  <2> QED BY <2>1, <2>2, <2>3 DEF StopEnds
<1>c. /\ container' \in [Profiles -> {"running", "stopped"}]
      /\ \A q \in Profiles : container'[q] = "running" => container[q] = "running"
  BY <1>2 DEF StopEnds, StopSucceeds, StopFails, IInv, TypeOK
<1>4. /\ OwnersIssued' /\ BusyHolds'
      /\ \A u \in Tokens, q \in Profiles :
           Issued(u, q) => Issued(u, q)' /\ (Passive(u, q) => Passive(u, q)')
  BY <1>2, <1>3, YieldStep DEF Yields
<1>5. TypeOK'
  BY <1>1, <1>2, <1>3, <1>c, AfterReleaseStep DEF IInv, TypeOK
<1>6. SeenIssued' /\ SweepsArePassive'
  BY <1>1, <1>2, <1>4, AfterReleaseStep, SweepsGoOn DEF IInv
<1>7. StopsIssued'
  BY <1>1, <1>4 DEF IInv, TypeOK, StopsIssued
<1>8. RunningIsOwned'
  BY <1>2, <1>3, <1>c DEF IInv, RunningIsOwned, Yields
<1>9. StopsOwned' /\ OneStop'
  <2>1. \A r \in stops' : phase # "closing" => r.profile # p
    BY <1>1 DEF IInv, OneStop
  <2>2. stops' \subseteq stops /\ phase' = phase
    BY <1>1
  <2> QED BY <1>2, <1>3, <2>1, <2>2, StopsStand DEF Yields
<1>10. PhasesSweep'
  <2>1. phase # "down"
    BY DEF IInv, PhasesSweep
  <2>2. ASSUME NEW w \in Sweepers, Idle(w)
        PROVE  Idle(w)'
    BY <1>1, <1>2, <1>5, <2>2, AfterReleaseStep DEF IInv, TypeOK
  <2> QED BY <1>1, <2>1, <2>2 DEF IInv, PhasesSweep
<1>11. MaintenanceOwnsNothing'
  BY <1>1, <1>2, <1>3 DEF IInv, MaintenanceOwnsNothing, Yields
<1> QED BY <1>4, <1>5, <1>6, <1>7, <1>8, <1>9, <1>10, <1>11 DEF IInv

\* Heartbeats keep or end a task, and never move an owner.
LEMMA HeartbeatStep ==
  ASSUME IInv, NEW t \in Tokens, Heartbeat(t)
  PROVE  IInv'
<1>1. TypeOK'
  BY SMTT(30) DEF IInv, TypeOK, Heartbeat
<1>2. OwnersIssued'
  BY DEF IInv, TypeOK, OwnersIssued, Heartbeat
<1>3. StopsIssued'
  BY DEF IInv, TypeOK, StopsIssued, Heartbeat
<1>4. SeenIssued'
  BY DEF IInv, TypeOK, SeenIssued, OwnersIssued, Heartbeat
<1>5. BusyHolds'
  BY DEF IInv, TypeOK, BusyHolds, Heartbeat
<1>6. RunningIsOwned'
  BY SMTT(30) DEF IInv, TypeOK, RunningIsOwned, Heartbeat
<1>7. StopsOwned'
  BY DEF IInv, TypeOK, StopsOwned, StopOwned, Heartbeat
<1>8. OneStop'
  BY DEF IInv, TypeOK, OneStop, StopsOwned, StopOwned, Heartbeat
<1>9. SweepsArePassive'
  BY DEF IInv, TypeOK, SweepsArePassive, Passive, PhasesSweep, Heartbeat
<1>10. PhasesSweep' /\ MaintenanceOwnsNothing'
  BY DEF IInv, TypeOK, PhasesSweep, SweepsArePassive, MaintenanceOwnsNothing,
     Heartbeat
<1> QED BY <1>1, <1>2, <1>3, <1>4, <1>5, <1>6, <1>7, <1>8, <1>9, <1>10 DEF IInv

\* The passing of time touches no token.
LEMMA HeartbeatLapsesStep ==
  ASSUME IInv, NEW p \in Profiles, HeartbeatLapses(p)
  PROVE  IInv'
<1>1. TypeOK'
  BY SMTT(30) DEF IInv, TypeOK, HeartbeatLapses
<1>2. OwnersIssued' /\ StopsIssued' /\ SeenIssued'
  BY DEF IInv, TypeOK, OwnersIssued, StopsIssued, SeenIssued, HeartbeatLapses
<1>3. BusyHolds' /\ RunningIsOwned'
  BY DEF IInv, TypeOK, BusyHolds, RunningIsOwned, HeartbeatLapses
<1>4. StopsOwned' /\ OneStop'
  BY DEF IInv, TypeOK, StopsOwned, StopOwned, OneStop, HeartbeatLapses
<1>5. SweepsArePassive' /\ PhasesSweep' /\ MaintenanceOwnsNothing'
  BY DEF IInv, TypeOK, SweepsArePassive, Passive, PhasesSweep,
     MaintenanceOwnsNothing, HeartbeatLapses
<1> QED BY <1>1, <1>2, <1>3, <1>4, <1>5 DEF IInv

\* The passing of a deadline touches no token.
LEMMA DeadlinePassesStep ==
  ASSUME IInv, NEW p \in Profiles, DeadlinePasses(p)
  PROVE  IInv'
<1>1. TypeOK'
  BY DEF IInv, TypeOK, DeadlinePasses
<1>2. OwnersIssued' /\ StopsIssued' /\ SeenIssued'
  BY DEF IInv, TypeOK, OwnersIssued, StopsIssued, SeenIssued, DeadlinePasses
<1>3. BusyHolds' /\ RunningIsOwned'
  BY DEF IInv, TypeOK, BusyHolds, RunningIsOwned, DeadlinePasses
<1>4. StopsOwned' /\ OneStop'
  BY DEF IInv, TypeOK, StopsOwned, StopOwned, OneStop, DeadlinePasses
<1>5. SweepsArePassive' /\ PhasesSweep' /\ MaintenanceOwnsNothing'
  BY DEF IInv, TypeOK, SweepsArePassive, Passive, PhasesSweep,
     MaintenanceOwnsNothing, DeadlinePasses
<1> QED BY <1>1, <1>2, <1>3, <1>4, <1>5 DEF IInv

\* A sweep starts from owners that are there.
LEMMA SweepBeginsStep ==
  ASSUME IInv, SweepBegins
  PROVE  IInv'
<1>1. TypeOK'
  BY DEF IInv, TypeOK, SweepBegins
<1>2. OwnersIssued' /\ StopsIssued' /\ SeenIssued'
  BY DEF IInv, TypeOK, OwnersIssued, StopsIssued, SeenIssued, SweepBegins
<1>3. BusyHolds' /\ RunningIsOwned'
  BY DEF IInv, TypeOK, BusyHolds, RunningIsOwned, SweepBegins
<1>4. StopsOwned' /\ OneStop'
  BY DEF IInv, TypeOK, StopsOwned, StopOwned, OneStop, SweepBegins
<1>5. SweepsArePassive'
  BY DEF IInv, TypeOK, SweepsArePassive, Passive, PhasesSweep, SweepBegins
<1>6. PhasesSweep' /\ MaintenanceOwnsNothing'
  BY DEF IInv, TypeOK, PhasesSweep, SweepsArePassive, MaintenanceOwnsNothing,
     SweepBegins
<1> QED BY <1>1, <1>2, <1>3, <1>4, <1>5, <1>6 DEF IInv

\* A record that is not due is dropped from the sweep.
LEMMA SweepSkipsStep ==
  ASSUME IInv, NEW w \in Sweepers, NEW p \in Profiles, SweepSkips(w, p)
  PROVE  IInv'
<1>1. TypeOK'
  BY DEF IInv, TypeOK, SweepSkips
<1>2. OwnersIssued' /\ StopsIssued' /\ SeenIssued'
  BY DEF IInv, TypeOK, OwnersIssued, StopsIssued, SeenIssued, SweepSkips
<1>3. BusyHolds' /\ RunningIsOwned'
  BY DEF IInv, TypeOK, BusyHolds, RunningIsOwned, SweepSkips
<1>4. StopsOwned' /\ OneStop'
  BY DEF IInv, TypeOK, StopsOwned, StopOwned, OneStop, SweepSkips
<1>5. SweepsArePassive'
  BY DEF IInv, TypeOK, SweepsArePassive, Passive, PhasesSweep, SweepSkips
<1>6. PhasesSweep' /\ MaintenanceOwnsNothing'
  BY DEF IInv, TypeOK, PhasesSweep, SweepsArePassive, MaintenanceOwnsNothing,
     SweepSkips
<1> QED BY <1>1, <1>2, <1>3, <1>4, <1>5, <1>6 DEF IInv

\* A sweep has reached a profile whose job will not work again.
LEMMA SweepArrives ==
  ASSUME IInv, NEW w \in Sweepers, NEW p \in Profiles, NEW t \in Tokens,
         seen[w][p] # NoOwner, t = seen[w][p].token, Passive(t, p)',
         at' = [at EXCEPT ![w] = p], seen' = seen,
         \A u \in Tokens, q \in Profiles :
            Issued(u, q) => Issued(u, q)' /\ (Passive(u, q) => Passive(u, q)')
  PROVE  SweepsArePassive'
<1>1. (seen[w][at[w]] # NoOwner /\ Passive(seen[w][at[w]].token, at[w]))'
  BY DEF IInv, TypeOK, Passive
<1>2. ASSUME NEW v \in Sweepers, v # w, at[v] # NoOwner
      PROVE  (seen[v][at[v]] # NoOwner /\ Passive(seen[v][at[v]].token, at[v]))'
  <2>1. at'[v] = at[v] /\ seen'[v] = seen[v] /\ at[v] \in Profiles
    BY <1>2 DEF IInv, TypeOK
  <2>2. seen[v][at[v]] # NoOwner /\ Passive(seen[v][at[v]].token, at[v])
    BY <1>2 DEF IInv, SweepsArePassive
  <2>3. PICK u \in Tokens, q \in Profiles :
           u = seen[v][at[v]].token /\ q = at[v] /\ Issued(u, q)
    BY <2>1, <2>2 DEF IInv, SeenIssued
  <2>4. Passive(u, q)'
    BY <2>2, <2>3
  <2> QED BY <2>1, <2>2, <2>3, <2>4
<1>3. \A v \in Sweepers : v # w => at'[v] = at[v]
  BY DEF IInv, TypeOK
<1> QED BY <1>1, <1>2, <1>3 DEF SweepsArePassive

\* A terminated worker was driving its container, so nobody was stopping it.
LEMMA SweepTerminatesStep ==
  ASSUME IInv, NEW w \in Sweepers, NEW p \in Profiles, SweepTerminates(w, p)
  PROVE  IInv'
<1>1. PICK t \in Tokens : t = seen[w][p].token /\ Issued(t, p)
  BY DEF IInv, TypeOK, SeenIssued, SweepTerminates, Reaches
<1>2. /\ seen[w][p] # NoOwner /\ job[t].pc = "working" /\ job' = GoTo(t, "ending")
      /\ at' = [at EXCEPT ![w] = p] /\ phase # "down"
      /\ UNCHANGED <<container, stops, seen, phase, maintenance, generation>>
  BY <1>1 DEF SweepTerminates, Reaches
<1>3. Holds(p, t)
  BY <1>1, <1>2 DEF IInv, BusyHolds
<1>4. /\ job' \in [Tokens -> Jobs] /\ job'[t].pc = "ending"
      /\ ~Busy(t)' /\ \A u \in Tokens : Settles(u)
  <2>1. TypeOK /\ job[t].pc # "new" /\ "ending" \in JobPcs \ {"new"}
    BY <1>2 DEF IInv
  <2>2. /\ job' \in [Tokens -> Jobs]
        /\ job'[t].pc = "ending" /\ job'[t].profile = job[t].profile
        /\ \A u \in Tokens \ {t} : job'[u] = job[u]
    BY <1>2, <2>1, JobMoves
  <2> QED BY <2>1, <2>2 DEF Busy, Settles
<1>5. owners' \in [Profiles -> Owner \cup {NoOwner}] /\ Yields(p, t) /\ owners'[p] # NoOwner
  <2>1. CASE owners' = owners
    BY <1>3, <2>1 DEF IInv, TypeOK, Yields
  <2>2. CASE owners' = [owners EXCEPT ![p].state = "cleanup_failed"]
    <3>1. TypeOK /\ Owned(p) /\ "cleanup_failed" \in States
      BY <1>3 DEF IInv
    <3> QED BY <1>3, <2>2, <3>1, StateMoves DEF Yields
  <2> QED BY <2>1, <2>2 DEF SweepTerminates, Resumed
<1>6. /\ OwnersIssued' /\ BusyHolds'
      /\ \A u \in Tokens, q \in Profiles :
           Issued(u, q) => Issued(u, q)' /\ (Passive(u, q) => Passive(u, q)')
  BY <1>4, <1>5, YieldStep DEF Yields
<1>7. TypeOK'
  BY <1>2, <1>4, <1>5 DEF IInv, TypeOK
<1>8. SeenIssued' /\ StopsIssued'
  BY <1>2, <1>6 DEF IInv, TypeOK, SeenIssued, StopsIssued
<1>9. SweepsArePassive'
  <2>1. Passive(t, p)'
    BY <1>4 DEF Passive
  <2> QED BY <1>1, <1>2, <1>6, <2>1, SweepArrives
<1>10. StopsOwned' /\ OneStop'
  <2>1. \A r \in stops' : phase # "closing" => r.profile # p
    BY <1>2, <1>3 DEF IInv, StopsOwned, StopOwned
  <2>2. stops' \subseteq stops /\ phase' = phase
    BY <1>2
  <2> QED BY <1>5, <2>1, <2>2, StopsStand DEF Yields
<1>11. RunningIsOwned'
  BY <1>2, <1>5 DEF IInv, RunningIsOwned, Yields
<1>12. PhasesSweep' /\ MaintenanceOwnsNothing'
  BY <1>2, <1>3 DEF IInv, PhasesSweep, MaintenanceOwnsNothing
<1> QED BY <1>6, <1>7, <1>8, <1>9, <1>10, <1>11, <1>12 DEF IInv

\* A sweep releases the token of a job that no longer drives a browser.
LEMMA SweepReleasesStep ==
  ASSUME Overlaps = {}, IInv, NEW w \in Sweepers, NEW p \in Profiles,
     SweepReleases(w, p)
  PROVE  IInv'
<1> DEFINE o == IF at[w] = p THEN owners ELSE Resumed(w, p)
<1>1. /\ seen[w][p] # NoOwner /\ phase # "down" /\ w \in Callers /\ w \notin Tokens
      /\ UNCHANGED <<container, phase, maintenance, generation>>
      /\ at[w] # p => Reaches(w, p) /\ job[seen[w][p].token].pc # "working"
  BY DEF IInv, SweepsArePassive, SweepReleases, Reaches
<1>2. PICK t \in Tokens : t = seen[w][p].token /\ Issued(t, p)
  BY <1>1 DEF IInv, TypeOK, SeenIssued
<1>3. Release(o, p, t, w)
  BY <1>2 DEF SweepReleases
<1>4. IF ReleaseReturns(o, p, t) THEN AfterRelease(p, w)
      ELSE at' = [at EXCEPT ![w] = p] /\ UNCHANGED <<job, seen>>
  BY <1>2 DEF SweepReleases
<1>5. ~Busy(t)
  <2>1. CASE at[w] = p
    BY <1>2, <2>1 DEF IInv, SweepsArePassive, Passive, Busy
  <2>2. CASE at[w] # p
    BY <1>1, <1>2, <2>2 DEF Reaches, Busy
  <2> QED BY <2>1, <2>2
<1>6. \/ o = owners
      \/ /\ HasToken(p, t) /\ o = [owners EXCEPT ![p].state = "cleanup_failed"]
         /\ phase # "closing" => ~StopInFlight(p, t)
  BY <1>1, <1>2 DEF Reaches, Resumed, Forced
<1> HIDE DEF o
<1>7. job' = job
  BY <1>1, <1>4 DEF AfterRelease
<1>8. ~Busy(t)' /\ \A u \in Tokens : Settles(u)
  BY <1>5, <1>7 DEF Busy, Settles
<1>9. /\ owners' \in [Profiles -> Owner \cup {NoOwner}] /\ stops' \subseteq Stop
      /\ Yields(p, t) /\ OwnersIssued' /\ BusyHolds' /\ StopsIssued'
      /\ RunningIsOwned' /\ StopsOwned' /\ OneStop' /\ MaintenanceOwnsNothing'
      /\ \A u \in Tokens, q \in Profiles :
           Issued(u, q) => Issued(u, q)' /\ (Passive(u, q) => Passive(u, q)')
      /\ ~ReleaseReturns(o, p, t) => owners'[p].state = "stopping"
  BY <1>1, <1>2, <1>3, <1>6, <1>8, ReleaseStep
<1>10. CASE ReleaseReturns(o, p, t)
  <2>1. AfterRelease(p, w)
    BY <1>4, <1>10
  <2>2. TypeOK'
    BY <1>1, <1>9, <2>1, AfterReleaseStep DEF IInv, TypeOK
  <2>3. SeenIssued' /\ SweepsArePassive'
    BY <1>1, <1>9, <2>1, AfterReleaseStep, SweepsGoOn DEF IInv
  <2>4. PhasesSweep'
    <3>1. ASSUME NEW v \in Sweepers, Idle(v)
          PROVE  Idle(v)'
      BY <1>1, <2>1, <2>2, <3>1, AfterReleaseStep DEF IInv, TypeOK
    <3> QED BY <1>1, <3>1 DEF IInv, PhasesSweep
  <2> QED BY <1>9, <2>2, <2>3, <2>4 DEF IInv
<1>11. CASE ~ReleaseReturns(o, p, t)
  <2>1. at' = [at EXCEPT ![w] = p] /\ seen' = seen
    BY <1>4, <1>11
  <2>2. TypeOK'
    BY <1>1, <1>7, <1>9, <2>1 DEF IInv, TypeOK
  <2>3. SeenIssued'
    BY <1>9, <2>1 DEF IInv, SeenIssued
  <2>4. PhasesSweep'
    BY <1>1, <2>1 DEF IInv, PhasesSweep
  <2>5. Passive(t, p)'
    BY <1>2, <1>5, <1>7, <1>9, <1>11 DEF IInv, TypeOK, Passive, Busy
  <2>6. SweepsArePassive'
    BY <1>1, <1>2, <1>9, <2>1, <2>5, SweepArrives
  <2> QED BY <1>9, <2>2, <2>3, <2>4, <2>6 DEF IInv
<1> QED BY <1>10, <1>11

\* Maintenance starts with an empty owners file.
LEMMA MaintenanceOnStep ==
  ASSUME IInv, MaintenanceOn
  PROVE  IInv'
<1>1. TypeOK'
  BY DEF IInv, TypeOK, MaintenanceOn, AutomationIdle
<1>2. OwnersIssued' /\ StopsIssued' /\ SeenIssued'
  BY DEF IInv, TypeOK, OwnersIssued, StopsIssued, SeenIssued, MaintenanceOn,
     AutomationIdle
<1>3. BusyHolds' /\ RunningIsOwned'
  BY DEF IInv, TypeOK, BusyHolds, RunningIsOwned, MaintenanceOn, AutomationIdle
<1>4. StopsOwned' /\ OneStop'
  BY DEF IInv, TypeOK, StopsOwned, StopOwned, OneStop, MaintenanceOn, AutomationIdle
<1>5. SweepsArePassive' /\ PhasesSweep' /\ MaintenanceOwnsNothing'
  BY DEF IInv, TypeOK, SweepsArePassive, Passive, PhasesSweep,
     MaintenanceOwnsNothing, MaintenanceOn, AutomationIdle
<1> QED BY <1>1, <1>2, <1>3, <1>4, <1>5 DEF IInv

\* Maintenance ends.
LEMMA MaintenanceOffStep ==
  ASSUME IInv, MaintenanceOff
  PROVE  IInv'
<1>1. TypeOK'
  BY DEF IInv, TypeOK, MaintenanceOff
<1>2. OwnersIssued' /\ StopsIssued' /\ SeenIssued'
  BY DEF IInv, TypeOK, OwnersIssued, StopsIssued, SeenIssued, MaintenanceOff
<1>3. BusyHolds' /\ RunningIsOwned'
  BY DEF IInv, TypeOK, BusyHolds, RunningIsOwned, MaintenanceOff
<1>4. StopsOwned' /\ OneStop'
  BY DEF IInv, TypeOK, StopsOwned, StopOwned, OneStop, MaintenanceOff
<1>5. SweepsArePassive' /\ PhasesSweep' /\ MaintenanceOwnsNothing'
  BY DEF IInv, TypeOK, SweepsArePassive, Passive, PhasesSweep,
     MaintenanceOwnsNothing, MaintenanceOff
<1> QED BY <1>1, <1>2, <1>3, <1>4, <1>5 DEF IInv

\* The process is gone: every task is over, no stop and no sweep is left.
LEMMA ProcessGoneStep ==
  ASSUME IInv, ProcessGone
  PROVE  IInv'
<1>1. /\ phase' = "down" /\ stops' = {} /\ maintenance' = FALSE
      /\ seen' = [w \in Sweepers |-> Nothing] /\ at' = [w \in Sweepers |-> NoOwner]
      /\ UNCHANGED <<owners, generation>>
  BY DEF ProcessGone
<1>2. /\ job' \in [Tokens -> Jobs]
      /\ \A t \in Tokens : /\ job'[t].pc \in {"new", "over"}
                           /\ job[t].pc # "new" => job'[t].pc = "over"
                                                   /\ job'[t].profile = job[t].profile
  <2>1. job' = [t \in Tokens |-> IF Running(t) THEN [job[t] EXCEPT !.pc = "over"] ELSE job[t]]
    BY DEF ProcessGone
  <2> QED BY <2>1 DEF IInv, TypeOK
<1>3. /\ container' \in [Profiles -> {"running", "stopped"}]
      /\ \A p \in Profiles : container'[p] = "running" =>
           \/ container[p] = "running"
           \/ \E t \in Tokens : job[t].pc = "starting" /\ job[t].profile = p
  BY DEF ProcessGone, IInv, TypeOK
<1>4. TypeOK'
  BY <1>1, <1>2, <1>3 DEF IInv, TypeOK
<1>5. OwnersIssued' /\ StopsIssued' /\ SeenIssued'
  BY <1>1, <1>2 DEF IInv, TypeOK, OwnersIssued, StopsIssued, SeenIssued
<1>6. BusyHolds' /\ StopsOwned' /\ OneStop' /\ MaintenanceOwnsNothing'
  BY <1>1, <1>2 DEF BusyHolds, StopsOwned, OneStop, MaintenanceOwnsNothing
<1>7. RunningIsOwned'
  BY <1>1, <1>3 DEF IInv, RunningIsOwned, BusyHolds
<1>8. SweepsArePassive' /\ PhasesSweep'
  BY <1>1, <1>2 DEF SweepsArePassive, PhasesSweep
<1> QED BY <1>4, <1>5, <1>6, <1>7, <1>8 DEF IInv

\* The first sweep of a new process starts from the owners it found.
LEMMA RestartStep ==
  ASSUME IInv, Restart
  PROVE  IInv'
<1>1. TypeOK'
  BY DEF IInv, TypeOK, Restart
<1>2. OwnersIssued' /\ StopsIssued' /\ SeenIssued'
  BY DEF IInv, TypeOK, OwnersIssued, StopsIssued, SeenIssued, Restart
<1>3. BusyHolds' /\ RunningIsOwned'
  BY DEF IInv, TypeOK, BusyHolds, RunningIsOwned, Restart
<1>4. StopsOwned' /\ OneStop'
  BY DEF IInv, TypeOK, StopsOwned, StopOwned, OneStop, Restart
<1>5. SweepsArePassive'
  BY DEF IInv, TypeOK, SweepsArePassive, Passive, PhasesSweep, Restart
<1>6. PhasesSweep' /\ MaintenanceOwnsNothing'
  BY DEF IInv, TypeOK, PhasesSweep, SweepsArePassive, MaintenanceOwnsNothing,
     Restart
<1> QED BY <1>1, <1>2, <1>3, <1>4, <1>5, <1>6 DEF IInv

\* The second one starts when the first is through.
LEMMA BootEndsStep ==
  ASSUME IInv, BootEnds
  PROVE  IInv'
<1>1. TypeOK'
  BY DEF IInv, TypeOK, BootEnds
<1>2. OwnersIssued' /\ StopsIssued' /\ SeenIssued'
  BY DEF IInv, TypeOK, OwnersIssued, StopsIssued, SeenIssued, BootEnds
<1>3. BusyHolds' /\ RunningIsOwned'
  BY DEF IInv, TypeOK, BusyHolds, RunningIsOwned, BootEnds
<1>4. StopsOwned' /\ OneStop'
  BY DEF IInv, TypeOK, StopsOwned, StopOwned, OneStop, BootEnds
<1>5. SweepsArePassive'
  BY DEF IInv, TypeOK, SweepsArePassive, Passive, PhasesSweep, BootEnds
<1>6. PhasesSweep' /\ MaintenanceOwnsNothing'
  BY DEF IInv, TypeOK, PhasesSweep, SweepsArePassive, MaintenanceOwnsNothing,
     BootEnds
<1> QED BY <1>1, <1>2, <1>3, <1>4, <1>5, <1>6 DEF IInv

\* Shutdown cancels the stops of the watchdog, and sweeps every owner.
LEMMA BeginShutdownStep ==
  ASSUME IInv, BeginShutdown
  PROVE  IInv'
<1>1. /\ phase = "serving" /\ phase' = "closing" /\ stops' \subseteq stops
      /\ UNCHANGED <<container, job, maintenance, generation>>
  BY DEF BeginShutdown
<1>2. \A s \in stops : HasToken(s.profile, s.token) /\ owners[s.profile].state = "stopping"
  BY <1>1 DEF IInv, StopsOwned, StopOwned
<1>3. /\ owners' \in [Profiles -> Owner \cup {NoOwner}]
      /\ \A p \in Profiles :
           \/ owners'[p] = owners[p]
           \/ /\ Owned(p) /\ Owned(p)' /\ owners'[p].token = owners[p].token
              /\ owners'[p].used = owners[p].used
              /\ owners[p].state = "stopping" /\ owners'[p].state = "cleanup_failed"
  <2> DEFINE cut == {s \in stops : s.by = "watchdog"}
             Cut(p) == \E s \in cut : s.profile = p /\ HasToken(p, s.token)
  <2>1. owners' = [p \in Profiles |-> IF Cut(p)
                      THEN [owners[p] EXCEPT !.state = "cleanup_failed"] ELSE owners[p]]
    BY DEF BeginShutdown
  <2>2. \A p \in Profiles : Cut(p) => Owned(p) /\ owners[p].state = "stopping"
    BY <1>2
  <2> HIDE DEF Cut
  <2>3. ASSUME NEW p \in Profiles, Cut(p)
        PROVE  /\ owners'[p] \in Owner /\ owners'[p].token = owners[p].token
               /\ owners'[p].used = owners[p].used /\ owners'[p].state = "cleanup_failed"
    BY <2>1, <2>2, <2>3 DEF IInv, TypeOK
  <2>4. \A p \in Profiles : ~Cut(p) => owners'[p] = owners[p]
    BY <2>1
  <2>5. owners' \in [Profiles -> Owner \cup {NoOwner}]
    BY <2>1, <2>3, <2>4 DEF IInv, TypeOK
  <2> QED BY <2>2, <2>3, <2>4, <2>5
<1>4. /\ seen' \in [Sweepers -> [Profiles -> Owner \cup {NoOwner}]]
      /\ seen'["lifespan"] = owners'
      /\ seen'["watchdog"] = Nothing /\ seen'["startup"] = seen["startup"]
  BY <1>3 DEF BeginShutdown, IInv, TypeOK
<1>5. /\ at' \in [Sweepers -> Profiles \cup {NoOwner}]
      /\ at'["watchdog"] = NoOwner /\ at'["startup"] = at["startup"]
      /\ at'["lifespan"] = at["lifespan"]
  BY DEF BeginShutdown, IInv, TypeOK
<1>6. TypeOK'
  BY <1>1, <1>3, <1>4, <1>5 DEF IInv, TypeOK
<1>7. OwnersIssued' /\ StopsIssued'
  BY <1>1, <1>3 DEF IInv, TypeOK, OwnersIssued, StopsIssued
<1>8. SeenIssued'
  BY <1>1, <1>4, <1>7 DEF IInv, SeenIssued, OwnersIssued
<1>9. BusyHolds'
  BY <1>1, <1>3 DEF IInv, TypeOK, BusyHolds
<1>10. RunningIsOwned'
  BY <1>1, <1>3 DEF IInv, RunningIsOwned
<1>11. StopsOwned' /\ OneStop'
  BY <1>1, <1>2, <1>3 DEF IInv, TypeOK, StopsOwned, StopOwned, OneStop
<1>12. SweepsArePassive'
  <2>1. at["lifespan"] = NoOwner
    BY <1>1 DEF IInv, TypeOK, SweepsArePassive, PhasesSweep
  <2>2. ASSUME at'["startup"] # NoOwner
        PROVE  (seen["startup"][at["startup"]] # NoOwner
                /\ Passive(seen["startup"][at["startup"]].token, at["startup"]))'
    <3>1. PICK t \in Tokens, p \in Profiles :
             /\ p = at["startup"] /\ t = seen["startup"][p].token
             /\ seen["startup"][p] # NoOwner /\ Passive(t, p)
      BY <1>5, <2>2 DEF IInv, TypeOK, SweepsArePassive
    <3>2. Passive(t, p)'
      BY <1>1, <1>3, <3>1 DEF Passive
    <3> QED BY <1>4, <1>5, <3>1, <3>2
  <2> QED BY <1>5, <2>1, <2>2 DEF SweepsArePassive
<1>13. PhasesSweep' /\ MaintenanceOwnsNothing'
  BY <1>1, <1>3 DEF IInv, TypeOK, PhasesSweep, MaintenanceOwnsNothing
<1> QED BY <1>6, <1>7, <1>8, <1>9, <1>10, <1>11, <1>12, <1>13 DEF IInv

-----------------------------------------------------------------------------
(* The theorems *)

\* The empty owners file of a first start satisfies the invariant.
LEMMA InitInv ==
  ASSUME Init
  PROVE  IInv
<1>1. TypeOK
  <2>1. /\ owners \in [Profiles -> Owner \cup {NoOwner}]
        /\ container \in [Profiles -> {"running", "stopped"}]
        /\ seen \in [Sweepers -> [Profiles -> Owner \cup {NoOwner}]]
        /\ at \in [Sweepers -> Profiles \cup {NoOwner}]
    BY DEF Init
  <2>2. job \in [Tokens -> Jobs]
    BY DEF Init
  <2>3. stops \subseteq Stop /\ phase = "serving" /\ generation \in 0..MaxRestarts
    BY DEF Init
  <2>4. maintenance \in BOOLEAN
    BY DEF Init
  <2> QED BY <2>1, <2>2, <2>3, <2>4 DEF TypeOK
<1>2. OwnersIssued /\ StopsIssued /\ SeenIssued
  BY DEF Init, OwnersIssued, StopsIssued, SeenIssued
<1>3. BusyHolds /\ RunningIsOwned /\ StopsOwned /\ OneStop
  BY DEF Init, BusyHolds, RunningIsOwned, StopsOwned, OneStop
<1>4. SweepsArePassive /\ PhasesSweep /\ MaintenanceOwnsNothing
  BY DEF Init, SweepsArePassive, PhasesSweep, MaintenanceOwnsNothing
<1> QED BY <1>1, <1>2, <1>3, <1>4 DEF IInv

\* Every step of the backend preserves it.
LEMMA NextInv ==
  ASSUME Overlaps = {}, IInv, [Next]_vars
  PROVE  IInv'
<1>1. CASE UNCHANGED vars
  BY <1>1 DEF vars, IInv, TypeOK, OwnersIssued, StopsIssued, SeenIssued, BusyHolds,
     RunningIsOwned, StopsOwned, StopOwned, OneStop, SweepsArePassive, Passive,
     PhasesSweep, MaintenanceOwnsNothing
<1>2. ASSUME NEW p \in Profiles, NEW t \in Tokens, NEW e \in Executions, Acquire(p, t, e)
      PROVE  IInv'
  BY <1>2, AcquireStep
<1>3. ASSUME NEW t \in Tokens,
             JobStep(t) \/ WorkEnds(t) \/ CancelTask(t) \/ Heartbeat(t)
      PROVE  IInv'
  BY <1>3, MarkUsedStep, ContainerReadyStep, ReleaseOwnStep, WorkEndsStep,
     CancelTaskStep, HeartbeatStep DEF JobStep
<1>4. ASSUME NEW t \in Tokens, NEW e \in Executions, Handoff(t, e)
      PROVE  IInv'
  BY <1>4, HandoffStep
<1>5. ASSUME NEW s \in stops, StopEnds(s)
      PROVE  IInv'
  BY <1>5, StopEndsStep
<1>6. ASSUME NEW p \in Profiles, CancelPrepared(p) \/ HeartbeatLapses(p) \/ DeadlinePasses(p)
      PROVE  IInv'
  BY <1>6, CancelPreparedStep, HeartbeatLapsesStep, DeadlinePassesStep
<1>7. ASSUME NEW w \in Sweepers, SweepStep(w)
      PROVE  IInv'
  BY <1>7, SweepSkipsStep, SweepTerminatesStep, SweepReleasesStep DEF SweepStep
<1>8. CASE SweepBegins \/ MaintenanceOn \/ MaintenanceOff
  BY <1>8, SweepBeginsStep, MaintenanceOnStep, MaintenanceOffStep
<1>9. CASE Crash \/ ShutdownEnds
  BY <1>9, ProcessGoneStep DEF Crash, ShutdownEnds
<1>10. CASE Restart \/ BootEnds \/ BeginShutdown
  BY <1>10, RestartStep, BootEndsStep, BeginShutdownStep
<1> QED BY <1>1, <1>2, <1>3, <1>4, <1>5, <1>6, <1>7, <1>8, <1>9, <1>10 DEF Next

\* The inductive invariant holds of every state the backend reaches, when no
\* stop or start command outlives the clock that guards it.
THEOREM Inductive ==
  ASSUME Overlaps = {}
  PROVE  Spec => []IInv
<1>1. Init => IInv
  BY InitInv
<1>2. IInv /\ [Next]_vars => IInv'
  BY NextInv
<1> QED BY <1>1, <1>2, PTL DEF Spec

\* The registry, the tasks, the stop commands and the sweeps stay well formed:
\* in particular nothing is ever looked up for a token that was not given out.
THEOREM TypeCorrect ==
  ASSUME Overlaps = {}
  PROVE  Spec => []TypeOK
<1>1. IInv => TypeOK
  BY DEF IInv
<1> QED BY <1>1, Inductive, PTL

\* No stop command that release started reaches the container of a later owner,
\* however many profiles, attempts, sweeps, crashes and shutdowns there are.
THEOREM NoForeignStop ==
  ASSUME Overlaps = {}
  PROVE  Spec => []StopsHitTheirOwner
<1>1. IInv => StopsHitTheirOwner
  BY DEF IInv, StopsOwned, StopOwned, StopsHitTheirOwner
<1> QED BY <1>1, Inductive, PTL

\* A running container always has an owner that is marked used: crash recovery
\* finds it in the owners file.
THEOREM NoLostContainer ==
  ASSUME Overlaps = {}
  PROVE  Spec => []RunningIsOwned
<1>1. IInv => RunningIsOwned
  BY DEF IInv
<1> QED BY <1>1, Inductive, PTL

\* Whoever drives a browser is the owner in the registry.
THEOREM OnlyOwnersDrive ==
  ASSUME Overlaps = {}
  PROVE  Spec => []DriverIsOwner
<1>1. IInv => DriverIsOwner
  BY DEF IInv, BusyHolds, DriverIsOwner
<1> QED BY <1>1, Inductive, PTL

\* Update maintenance never finds a container owned or running.
THEOREM QuietMaintenance ==
  ASSUME Overlaps = {}
  PROVE  Spec => []MaintenanceIsQuiet
<1>1. IInv => MaintenanceIsQuiet
  <2>1. ASSUME IInv, maintenance, NEW p \in Profiles
        PROVE  container[p] = "stopped"
    BY <2>1 DEF IInv, TypeOK, MaintenanceOwnsNothing, RunningIsOwned
  <2> QED BY <2>1 DEF IInv, MaintenanceOwnsNothing, MaintenanceIsQuiet
<1> QED BY <1>1, Inductive, PTL

-----------------------------------------------------------------------------
(* The registry keeps the promise of ContainerOwnership *)

Closing == {"stopping", "cleanup_failed"}

\* What ContainerOwnership sees of an owner is one of its holders.
LEMMA HolderOf ==
  ASSUME NEW o \in Owner
  PROVE  /\ AbstractHolder(o) \in Ownership!Holders /\ AbstractHolder(o) # NoOwner
         /\ AbstractHolder(o).token = o.token
         /\ AbstractHolder(o).execution = o.execution
         /\ AbstractHolder(o).used = o.used
         /\ AbstractHolder(o).phase = "held" <=> o.state = "active"
         /\ AbstractHolder(o).phase = "offered" <=> o.state = "handoff"
         /\ AbstractHolder(o).phase = "closing" <=> o.state \in Closing
<1>1. o # NoOwner
  BY DEF Owner
<1>2. AbstractPhase(o.state) \in {"held", "offered", "closing"}
  BY DEF AbstractPhase
<1>3. AbstractHolder(o) = [token |-> o.token, execution |-> o.execution,
                           phase |-> AbstractPhase(o.state), used |-> o.used]
  BY <1>1 DEF AbstractHolder
<1>4. AbstractHolder(o) \in Ownership!Holders
  BY <1>2, <1>3 DEF Ownership!Holders
<1>5. AbstractHolder(o) # NoOwner
  BY <1>4, HolderAssumption
<1>6. /\ AbstractPhase(o.state) = "held" <=> o.state = "active"
      /\ AbstractPhase(o.state) = "offered" <=> o.state = "handoff"
      /\ AbstractPhase(o.state) = "closing" <=> o.state \in Closing
  BY DEF AbstractPhase, Closing
<1> QED BY <1>3, <1>4, <1>5, <1>6

\* A change at one profile is a change of one holder.
LEMMA HoldingMoves ==
  ASSUME TypeOK, NEW p \in Profiles,
         \A q \in Profiles \ {p} : owners'[q] = owners[q]
  PROVE  /\ Holding[p] = AbstractHolder(owners[p])
         /\ Holding' = [Holding EXCEPT ![p] = AbstractHolder(owners'[p])]
BY DEF TypeOK, Holding

\* No token is given out unless a job leaves "new".
LEMMA GivenStays ==
  ASSUME \A u \in Tokens : job'[u] = job[u] \/ (job[u].pc # "new" /\ job'[u].pc # "new")
  PROVE  UNCHANGED Given
BY DEF Given

\* The owner of p is on its way out.
Leaves(p) ==
  /\ \A q \in Profiles \ {p} : owners'[q] = owners[q]
  /\ \/ owners'[p] = owners[p]
     \/ /\ Owned(p) /\ owners'[p] = NoOwner
        /\ owners[p].used => owners[p].state \in Closing
     \/ /\ Owned(p) /\ Owned(p)' /\ owners'[p].state \in Closing
        /\ owners'[p].token = owners[p].token
        /\ owners'[p].execution = owners[p].execution
        /\ owners'[p].used = owners[p].used

LEMMA LeavesImplements ==
  ASSUME TypeOK, TypeOK', NEW p \in Profiles, Leaves(p), UNCHANGED Given
  PROVE  [Ownership!Next]_(Ownership!vars)
<1> DEFINE h == AbstractHolder(owners[p])
<1>1. /\ \A q \in Profiles \ {p} : owners'[q] = owners[q]
      /\ Holding[p] = h
      /\ Holding' = [Holding EXCEPT ![p] = AbstractHolder(owners'[p])]
  BY HoldingMoves DEF Leaves
<1>2. Holding \in [Profiles -> {Holding[q] : q \in Profiles}]
  BY DEF Holding
<1>3. CASE owners'[p] = owners[p]
  <2>1. Holding' = Holding
    BY <1>1, <1>2, <1>3
  <2> QED BY <2>1 DEF Ownership!vars
<1>4. CASE Owned(p) /\ owners'[p] = NoOwner /\ (owners[p].used => owners[p].state \in Closing)
  <2>1. owners[p] \in Owner
    BY <1>4 DEF TypeOK
  <2>2. h # NoOwner /\ (h.used => h.phase = "closing")
    BY <1>4, <2>1, HolderOf
  <2>3. AbstractHolder(owners'[p]) = NoOwner
    BY <1>4 DEF AbstractHolder
  <2> HIDE DEF h
  <2>4. Ownership!Free(p)
    BY <1>1, <2>2, <2>3 DEF Ownership!Free
  <2> QED BY <2>4 DEF Ownership!Next
<1>5. CASE /\ Owned(p) /\ Owned(p)' /\ owners'[p].state \in Closing
           /\ owners'[p].token = owners[p].token
           /\ owners'[p].execution = owners[p].execution
           /\ owners'[p].used = owners[p].used
  <2>1. owners[p] \in Owner /\ owners'[p] \in Owner
    BY <1>5 DEF TypeOK
  <2>2. h # NoOwner
    BY <2>1, HolderOf
  <2>3. AbstractHolder(owners'[p]) = [h EXCEPT !.phase = "closing"]
    BY <1>5, <2>1 DEF AbstractHolder, AbstractPhase, Closing
  <2> HIDE DEF h
  <2>4. Ownership!Close(p)
    BY <1>1, <2>2, <2>3 DEF Ownership!Close
  <2> QED BY <2>4 DEF Ownership!Next
<1> QED BY <1>3, <1>4, <1>5 DEF Leaves

\* Nothing a holder shows has changed.
LEMMA StuttersImplement ==
  ASSUME \A q \in Profiles : AbstractHolder(owners'[q]) = AbstractHolder(owners[q]),
         UNCHANGED Given
  PROVE  [Ownership!Next]_(Ownership!vars)
BY DEF Holding, Ownership!vars

\* A profile that is free, or offered to this execution, is taken with a token
\* nobody was given before.
LEMMA AcquireImplements ==
  ASSUME IInv, IInv', NEW p \in Profiles, NEW t \in Tokens, NEW e \in Executions,
         Acquire(p, t, e)
  PROVE  Ownership!Next
<1> DEFINE h == AbstractHolder(owners[p])
           r == [token |-> t, execution |-> e, manager |-> generation,
                 state |-> "active", used |-> InheritedUse(p), late |-> "no"]
<1>1. TypeOK /\ TypeOK'
  BY DEF IInv
<1>2. /\ owners' = [owners EXCEPT ![p] = r] /\ owners \in [Profiles -> Owner \cup {NoOwner}]
      /\ job' = [job EXCEPT ![t] = [pc |-> "claimed", profile |-> p]]
      /\ job \in [Tokens -> Jobs] /\ job[t].pc = "new" /\ Available(p, e)
  BY <1>1 DEF Acquire, TypeOK
<1>3. owners'[p] = r /\ \A q \in Profiles \ {p} : owners'[q] = owners[q]
  BY <1>2
<1>4. Holding[p] = h /\ Holding' = [Holding EXCEPT ![p] = AbstractHolder(owners'[p])]
  BY <1>1, <1>3, HoldingMoves
<1>5. r \in Owner /\ r # NoOwner
  <2>1. InheritedUse(p) \in BOOLEAN /\ generation \in 0..MaxRestarts
    BY <1>1, <1>2 DEF InheritedUse, TypeOK
  <2>2. r \in Owner
    BY <2>1
  <2> QED BY <2>2
<1>6. AbstractHolder(owners'[p]) = [token |-> t, execution |-> e, phase |-> "held",
                                    used |-> InheritedUse(p)]
  BY <1>3, <1>5 DEF AbstractHolder, AbstractPhase
<1>7. \/ h = NoOwner /\ InheritedUse(p) = FALSE
      \/ /\ h # NoOwner /\ h.phase = "offered" /\ h.execution = e
         /\ h.used = InheritedUse(p)
  <2>1. CASE ~Owned(p)
    BY <2>1 DEF AbstractHolder, InheritedUse
  <2>2. CASE Owned(p)
    <3>1. owners[p] \in Owner /\ owners[p].state = "handoff" /\ owners[p].execution = e
      BY <1>2, <2>2 DEF Available
    <3>2. h # NoOwner /\ h.phase = "offered" /\ h.execution = e /\ h.used = owners[p].used
      BY <3>1, HolderOf
    <3>3. InheritedUse(p) = owners[p].used
      BY <2>2, <3>1 DEF InheritedUse
    <3> QED BY <3>2, <3>3
  <2> QED BY <2>1, <2>2
<1>8. InheritedUse(p) = (h # NoOwner /\ h.used)
  <2>1. InheritedUse(p) \in BOOLEAN
    BY <1>2 DEF InheritedUse
  <2> HIDE DEF h
  <2> QED BY <1>7, <2>1
<1>9. t \notin Given /\ Given' = Given \cup {t}
  <2>1. job'[t].pc = "claimed" /\ \A u \in Tokens \ {t} : job'[u] = job[u]
    BY <1>2
  <2> QED BY <1>2, <2>1 DEF Given
<1> HIDE DEF h
<1>10. Ownership!Take(p, t, e)
  BY <1>4, <1>6, <1>7, <1>8, <1>9 DEF Ownership!Take
<1> QED BY <1>10 DEF Ownership!Next

\* mark_used by the holder is a use of the container, by anybody else nothing.
LEMMA MarkUsedImplements ==
  ASSUME IInv, IInv', NEW t \in Tokens, MarkUsed(t)
  PROVE  [Ownership!Next]_(Ownership!vars)
<1>1. PICK p \in Profiles : p = job[t].profile /\ job[t].pc = "claimed"
  BY DEF IInv, TypeOK, MarkUsed
<1>2. UNCHANGED Given
  <2>1. job' = GoTo(t, "starting") \/ job' = GoTo(t, "ending")
    BY DEF MarkUsed
  <2> QED BY <1>1, <2>1, GivenStays DEF IInv, TypeOK
<1>3. CASE Holds(p, t)
  <2>0. PICK h : h = AbstractHolder(owners[p])
    OBVIOUS
  <2>1. TypeOK /\ owners[p] \in Owner
    BY <1>3 DEF IInv, TypeOK
  <2>2. owners' = [owners EXCEPT ![p] = [owners[p] EXCEPT !.used = TRUE]]
    BY <1>1, <1>3 DEF MarkUsed
  <2>3. /\ owners'[p] = [owners[p] EXCEPT !.used = TRUE]
        /\ \A q \in Profiles \ {p} : owners'[q] = owners[q]
    BY <2>1, <2>2 DEF TypeOK
  <2>4. Holding[p] = h /\ Holding' = [Holding EXCEPT ![p] = AbstractHolder(owners'[p])]
    BY <2>0, <2>1, <2>3, HoldingMoves
  <2>5. AbstractHolder(owners'[p]) = [h EXCEPT !.used = TRUE]
    <3>1. owners'[p] # NoOwner /\ owners[p] # NoOwner
      <4>1. [owners[p] EXCEPT !.used = TRUE] \in Owner
        BY <2>1
      <4> QED BY <2>1, <2>3, <4>1
    <3>2. AbstractHolder(owners'[p]) =
            [token |-> owners'[p].token, execution |-> owners'[p].execution,
             phase |-> AbstractPhase(owners'[p].state), used |-> owners'[p].used]
      BY <3>1 DEF AbstractHolder
    <3>3. h = [token |-> owners[p].token, execution |-> owners[p].execution,
               phase |-> AbstractPhase(owners[p].state), used |-> owners[p].used]
      BY <2>0, <3>1 DEF AbstractHolder
    <3>4. /\ owners'[p].token = owners[p].token
          /\ owners'[p].execution = owners[p].execution
          /\ owners'[p].state = owners[p].state
      BY <2>1, <2>3
    <3>5. owners'[p].used = TRUE
      BY <2>1, <2>3
    <3>6. PICK u : u = TRUE
      OBVIOUS
    <3>7. [h EXCEPT !.used = u] =
            [token |-> owners[p].token, execution |-> owners[p].execution,
             phase |-> AbstractPhase(owners[p].state), used |-> u]
      BY <3>3
    <3> QED BY <3>2, <3>4, <3>5, <3>6, <3>7, Zenon
  <2>6. h # NoOwner /\ h.phase = "held"
    BY <1>3, <2>0, <2>1, HolderOf
  <2>7. Ownership!Use(p)
    BY <1>2, <2>4, <2>5, <2>6 DEF Ownership!Use
  <2> QED BY <2>7 DEF Ownership!Next
<1>4. CASE ~Holds(p, t)
  <2>1. owners' = owners
    BY <1>1, <1>4 DEF MarkUsed
  <2> QED BY <1>2, <2>1, StuttersImplement
<1> QED BY <1>3, <1>4

\* handoff offers the container to a named execution.
LEMMA HandoffImplements ==
  ASSUME IInv, NEW t \in Tokens, NEW e \in Executions, Handoff(t, e)
  PROVE  Ownership!Next
<1>1. PICK p \in Profiles :
      p = job[t].profile /\ Holds(p, t) /\ owners[p] \in Owner /\ job[t].pc = "working"
  BY DEF IInv, TypeOK, Handoff, BusyHolds
<1>0. PICK h : h = AbstractHolder(owners[p])
  OBVIOUS
<1> DEFINE r == [owners[p] EXCEPT !.state = "handoff", !.execution = e,
                      !.late = IF owners[p].late = "deadline" THEN owners[p].late ELSE "no"]
<1>2. owners' = [owners EXCEPT ![p] = r] /\ job' = GoTo(t, "over")
  BY <1>1 DEF Handoff
<1>3. UNCHANGED Given
  BY <1>1, <1>2, GivenStays DEF IInv, TypeOK
<1>4. owners'[p] = r /\ \A q \in Profiles \ {p} : owners'[q] = owners[q]
  BY <1>1, <1>2 DEF IInv, TypeOK
<1>5. Holding[p] = h /\ Holding' = [Holding EXCEPT ![p] = AbstractHolder(owners'[p])]
  BY <1>0, <1>4, HoldingMoves DEF IInv
<1>6. AbstractHolder(r) = [h EXCEPT !.phase = "offered", !.execution = e]
  <2>1. r \in Owner
    BY <1>1
  <2>2. r # NoOwner /\ owners[p] # NoOwner
    BY <1>1, <2>1
  <2>3. /\ r.token = owners[p].token /\ r.execution = e /\ r.state = "handoff"
        /\ r.used = owners[p].used
    BY <1>1
  <2> HIDE DEF r
  <2>4. AbstractHolder(r) = [token |-> owners[p].token, execution |-> e,
                             phase |-> "offered", used |-> owners[p].used]
    BY <2>2, <2>3 DEF AbstractHolder, AbstractPhase
  <2>5. h = [token |-> owners[p].token, execution |-> owners[p].execution,
             phase |-> AbstractPhase(owners[p].state), used |-> owners[p].used]
    BY <1>0, <2>2 DEF AbstractHolder
  <2>6. [h EXCEPT !.phase = "offered", !.execution = e] =
          [token |-> owners[p].token, execution |-> e,
           phase |-> "offered", used |-> owners[p].used]
    <3>1. PICK g : g = [h EXCEPT !.phase = "offered"]
      OBVIOUS
    <3>2. g = [token |-> owners[p].token, execution |-> owners[p].execution,
               phase |-> "offered", used |-> owners[p].used]
      BY <2>5, <3>1
    <3>3. [g EXCEPT !.execution = e] =
            [token |-> owners[p].token, execution |-> e,
             phase |-> "offered", used |-> owners[p].used]
      BY <3>2
    <3> QED BY <3>1, <3>3, Zenon
  <2> QED BY <2>4, <2>6, Zenon
<1>7. h # NoOwner /\ h.phase = "held"
  BY <1>0, <1>1, HolderOf
<1> HIDE DEF r
<1>8. Holding' = [Holding EXCEPT ![p].phase = "offered", ![p].execution = e]
  <2>1. Holding = [q \in Profiles |-> Holding[q]]
    BY DEF Holding
  <2>2. Holding' = [Holding EXCEPT ![p] = [h EXCEPT !.phase = "offered", !.execution = e]]
    BY <1>4, <1>5, <1>6
  <2> QED BY <1>5, <2>1, <2>2
<1>9. Ownership!Offer(p, e)
  BY <1>3, <1>5, <1>7, <1>8 DEF Ownership!Offer
<1> QED BY <1>9 DEF Ownership!Next

\* release frees a container nobody used, and closes one that was used.
LEMMA ReleaseLeaves ==
  ASSUME IInv, NEW p \in Profiles, NEW t, NEW c, NEW o,
         \/ o = owners
         \/ HasToken(p, t) /\ o = [owners EXCEPT ![p].state = "cleanup_failed"],
         Release(o, p, t, c)
  PROVE  Leaves(p)
<1>1. /\ \A q \in Profiles \ {p} : o[q] = owners[q]
      /\ o \in [Profiles -> Owner \cup {NoOwner}]
      /\ o[p] # NoOwner <=> Owned(p)
      /\ Owned(p) => /\ o[p].token = owners[p].token /\ o[p].used = owners[p].used
                     /\ o[p].execution = owners[p].execution
                     /\ o[p] = owners[p] \/ o[p].state \in Closing
  <2>1. CASE o = owners
    BY <2>1 DEF IInv, TypeOK
  <2>2. CASE HasToken(p, t) /\ o = [owners EXCEPT ![p].state = "cleanup_failed"]
    BY <2>2 DEF IInv, TypeOK, Closing
  <2> QED BY <2>1, <2>2
<1>2. CASE ReleaseReturns(o, p, t)
  <2>1. CASE Owned(p) /\ o[p].token = t /\ o[p].state # "stopping"
    <3>1. owners' = [o EXCEPT ![p] = NoOwner] /\ ~o[p].used
      BY <1>1, <1>2, <2>1 DEF Release, ReleaseReturns
    <3> QED BY <1>1, <2>1, <3>1 DEF Leaves
  <2>2. CASE ~(Owned(p) /\ o[p].token = t /\ o[p].state # "stopping")
    <3>1. owners' = o
      BY <1>1, <1>2, <2>2 DEF Release
    <3> QED BY <1>1, <3>1 DEF Leaves
  <2> QED BY <2>1, <2>2
<1>3. CASE ~ReleaseReturns(o, p, t)
  <2>1. Owned(p) /\ owners' = [o EXCEPT ![p].state = "stopping"]
    BY <1>1, <1>3 DEF Release, ReleaseReturns
  <2>2. /\ owners'[p].state = "stopping" /\ owners'[p].token = o[p].token
        /\ owners'[p].execution = o[p].execution /\ owners'[p].used = o[p].used
        /\ owners'[p] \in Owner /\ \A q \in Profiles \ {p} : owners'[q] = o[q]
    BY <1>1, <2>1
  <2> QED BY <1>1, <2>1, <2>2 DEF Leaves, Closing
<1> QED BY <1>2, <1>3

\* Lateness is not part of what a holder shows.
LEMMA LateImplements ==
  ASSUME TypeOK, NEW p \in Profiles, owners[p] \in Owner, NEW l \in Lateness,
         owners' = [owners EXCEPT ![p] = [owners[p] EXCEPT !.late = l]],
         UNCHANGED Given
  PROVE  [Ownership!Next]_(Ownership!vars)
<1>1. /\ owners'[p] = [owners[p] EXCEPT !.late = l]
      /\ \A q \in Profiles \ {p} : owners'[q] = owners[q]
  BY DEF TypeOK
<1>2. owners'[p] \in Owner
  BY <1>1
<1>3. /\ owners'[p].token = owners[p].token
      /\ owners'[p].execution = owners[p].execution
      /\ owners'[p].state = owners[p].state
      /\ owners'[p].used = owners[p].used
  BY <1>1
<1>4. AbstractHolder(owners'[p]) = AbstractHolder(owners[p])
  BY <1>2, <1>3 DEF AbstractHolder
<1> QED BY <1>1, <1>4, StuttersImplement

\* What frees or fails the container is a stop awaited by an owner that closes.
LEMMA StopEndsLeaves ==
  ASSUME IInv, NEW s \in stops, StopEnds(s)
  PROVE  s.profile \in Profiles /\ Leaves(s.profile)
<1> DEFINE p == s.profile
<1>1. s \in Stop /\ p \in Profiles
  BY DEF IInv, TypeOK
<1>2. CASE ~HasToken(p, s.token)
  BY <1>1, <1>2 DEF StopEnds, StopSucceeds, StopFails, Leaves
<1>3. CASE HasToken(p, s.token) /\ StopSucceeds(s)
  <2>1. owners[p].state \in Closing
    BY <1>1, <1>3 DEF IInv, TypeOK, StopsOwned, StopOwned, Closing
  <2>2. owners' = [owners EXCEPT ![p] = NoOwner]
    BY <1>3 DEF StopSucceeds
  <2> QED BY <1>1, <1>3, <2>1, <2>2 DEF IInv, TypeOK, Leaves
<1>4. CASE HasToken(p, s.token) /\ StopFails(s)
  <2>1. owners' = [owners EXCEPT ![p] = [owners[p] EXCEPT !.state = "cleanup_failed"]]
    BY <1>4 DEF StopFails
  <2> QED BY <1>1, <1>4, <2>1 DEF IInv, TypeOK, Leaves, Closing
<1> QED BY <1>1, <1>2, <1>3, <1>4 DEF StopEnds

\* A sweep that resumes a cleanup, and one that releases.
LEMMA SweepLeaves ==
  ASSUME IInv, NEW w \in Sweepers, NEW p \in Profiles,
         SweepTerminates(w, p) \/ SweepReleases(w, p)
  PROVE  Leaves(p)
<1>1. /\ Resumed(w, p) = owners
         \/ /\ HasToken(p, seen[w][p].token)
            /\ Resumed(w, p) = [owners EXCEPT ![p].state = "cleanup_failed"]
  BY DEF Resumed
<1>2. CASE SweepTerminates(w, p)
  <2>1. owners' = Resumed(w, p)
    BY <1>2 DEF SweepTerminates
  <2> QED BY <1>1, <2>1 DEF IInv, TypeOK, Leaves, Closing
<1>3. CASE SweepReleases(w, p)
  BY <1>1, <1>3, ReleaseLeaves DEF SweepReleases
<1> QED BY <1>2, <1>3

\* A release, a stop or a sweep gives no token out.
LEMMA CallersGiveNothing ==
  ASSUME IInv, NEW p \in Profiles, NEW c \in Callers,
         c \in Tokens => job[c].pc # "new", AfterRelease(p, c)
  PROVE  UNCHANGED Given
<1>1. \A u \in Tokens : Settles(u)
  BY AfterReleaseStep DEF IInv
<1> QED BY <1>1, GivenStays DEF Settles

\* Every step of the backend is a step of ContainerOwnership or changes nothing
\* that it sees.
LEMMA NextImplements ==
  ASSUME IInv, IInv', Next
  PROVE  [Ownership!Next]_(Ownership!vars)
<1> USE DEF IInv
<1>1. ASSUME NEW p \in Profiles, NEW t \in Tokens, NEW e \in Executions, Acquire(p, t, e)
      PROVE  [Ownership!Next]_(Ownership!vars)
  BY <1>1, AcquireImplements
<1>2. ASSUME NEW t \in Tokens, ReleaseOwn(t)
      PROVE  [Ownership!Next]_(Ownership!vars)
  <2>1. /\ job[t].profile \in Profiles /\ job[t].pc # "new" /\ t \in Callers
        /\ Release(owners, job[t].profile, t, t)
        /\ AfterRelease(job[t].profile, t) \/ UNCHANGED job
    BY <1>2 DEF ReleaseOwn, TypeOK
  <2>2. UNCHANGED Given
    BY <2>1, CallersGiveNothing DEF Given
  <2> QED BY <2>1, <2>2, ReleaseLeaves, LeavesImplements
<1>3. ASSUME NEW t \in Tokens, ContainerReady(t) \/ WorkEnds(t) \/ CancelTask(t)
      PROVE  [Ownership!Next]_(Ownership!vars)
  <2>1. owners' = owners
    BY <1>3 DEF ContainerReady, WorkEnds, CancelTask
  <2>2. UNCHANGED Given
    <3>1. job[t].pc # "new" /\ \E pc \in JobPcs \ {"new"} : job' = GoTo(t, pc)
      BY <1>3 DEF ContainerReady, WorkEnds, CancelTask
    <3> QED BY <3>1, GivenStays DEF TypeOK
  <2> QED BY <2>1, <2>2, StuttersImplement
<1>4. ASSUME NEW t \in Tokens, Heartbeat(t)
      PROVE  [Ownership!Next]_(Ownership!vars)
  <2>1. job[t].profile \in Profiles
    BY <1>4 DEF Heartbeat, TypeOK
  <2>2. UNCHANGED Given
    <3>1. job[t].pc # "new" /\ (job' = job \/ job' = GoTo(t, "ending"))
      BY <1>4 DEF Heartbeat
    <3> QED BY <3>1, GivenStays DEF TypeOK
  <2>3. CASE owners' = owners
    BY <2>2, <2>3, StuttersImplement
  <2>4. CASE owners' # owners
    <3> DEFINE p == job[t].profile
    <3>1. /\ owners' = [owners EXCEPT ![p] = [owners[p] EXCEPT !.late = "no"]]
          /\ owners[p] \in Owner
      BY <1>4, <2>1, <2>4 DEF Heartbeat, TypeOK
    <3> QED BY <2>1, <2>2, <3>1, LateImplements
  <2> QED BY <2>3, <2>4
<1>5. ASSUME NEW t \in Tokens, MarkUsed(t)
      PROVE  [Ownership!Next]_(Ownership!vars)
  BY <1>5, MarkUsedImplements
<1>6. ASSUME NEW t \in Tokens, NEW e \in Executions, Handoff(t, e)
      PROVE  [Ownership!Next]_(Ownership!vars)
  <2>1. CASE Holds(job[t].profile, t)
    BY <1>6, <2>1, HandoffImplements
  <2>2. CASE ~Holds(job[t].profile, t)
    <3>1. owners' = owners /\ job' = GoTo(t, "closing") /\ job[t].pc # "new"
      BY <1>6, <2>2 DEF Handoff
    <3>2. UNCHANGED Given
      BY <3>1, GivenStays DEF TypeOK
    <3> QED BY <3>1, <3>2, StuttersImplement
  <2> QED BY <2>1, <2>2
<1>7. ASSUME NEW s \in stops, StopEnds(s)
      PROVE  [Ownership!Next]_(Ownership!vars)
  <2>1. s.profile \in Profiles /\ Leaves(s.profile)
    BY <1>7, StopEndsLeaves
  <2>2. AfterRelease(s.profile, s.by)
    BY <1>7 DEF StopEnds, StopSucceeds, StopFails
  <2>3. s.by \in Callers /\ (s.by \in Tokens => job[s.by].pc # "new")
    BY DEF TypeOK, StopsIssued
  <2>4. UNCHANGED Given
    BY <2>1, <2>2, <2>3, CallersGiveNothing
  <2> QED BY <2>1, <2>4, LeavesImplements
<1>8. ASSUME NEW p \in Profiles, CancelPrepared(p)
      PROVE  [Ownership!Next]_(Ownership!vars)
  <2>1. Release(owners, p, owners[p].token, "api") /\ job' = job
    BY <1>8 DEF CancelPrepared
  <2>2. UNCHANGED Given
    BY <2>1 DEF Given
  <2> QED BY <2>1, <2>2, ReleaseLeaves, LeavesImplements
<1>9. ASSUME NEW p \in Profiles, HeartbeatLapses(p) \/ DeadlinePasses(p)
      PROVE  [Ownership!Next]_(Ownership!vars)
  <2>1. /\ owners[p] \in Owner
        /\ \E l \in Lateness : owners' = [owners EXCEPT ![p] = [owners[p] EXCEPT !.late = l]]
    BY <1>9 DEF HeartbeatLapses, DeadlinePasses, TypeOK
  <2>2. UNCHANGED Given
    BY <1>9 DEF HeartbeatLapses, DeadlinePasses, Given
  <2> QED BY <2>1, <2>2, LateImplements
<1>10. ASSUME NEW w \in Sweepers, SweepStep(w)
       PROVE  [Ownership!Next]_(Ownership!vars)
  <2>1. PICK p \in Profiles : SweepSkips(w, p) \/ SweepTerminates(w, p) \/ SweepReleases(w, p)
    BY <1>10 DEF SweepStep
  <2>2. CASE SweepSkips(w, p)
    <3>1. UNCHANGED <<owners, job>>
      BY <2>2 DEF SweepSkips
    <3> QED BY <3>1, StuttersImplement DEF Given
  <2>3. CASE SweepTerminates(w, p)
    <3>1. PICK t \in Tokens : job[t].pc = "working" /\ job' = GoTo(t, "ending")
      BY <2>3, ZenonT(60) DEF SweepTerminates, Reaches, SeenIssued, TypeOK
    <3>2. UNCHANGED Given
      BY <3>1, GivenStays DEF TypeOK
    <3> QED BY <2>3, <3>2, SweepLeaves, LeavesImplements, SMTT(30)
  <2>4. CASE SweepReleases(w, p)
    <3>1. job' = job
      BY <2>4 DEF SweepReleases, AfterRelease
    <3>2. UNCHANGED Given
      BY <3>1 DEF Given
    <3> QED BY <2>4, <3>2, SweepLeaves, LeavesImplements
  <2> QED BY <2>1, <2>2, <2>3, <2>4
<1>11. CASE SweepBegins \/ MaintenanceOn \/ MaintenanceOff \/ Restart \/ BootEnds
  <2>1. UNCHANGED <<owners, job>>
    BY <1>11 DEF SweepBegins, MaintenanceOn, MaintenanceOff, Restart, BootEnds
  <2> QED BY <2>1, StuttersImplement DEF Given
<1>12. CASE Crash \/ ShutdownEnds
  <2>1. /\ owners' = owners
        /\ job' = [t \in Tokens |-> IF Running(t) THEN [job[t] EXCEPT !.pc = "over"] ELSE job[t]]
    BY <1>12 DEF Crash, ShutdownEnds, ProcessGone
  <2>2. UNCHANGED Given
    BY <2>1, GivenStays DEF TypeOK
  <2> QED BY <2>1, <2>2, StuttersImplement
<1>13. CASE BeginShutdown
  <2> DEFINE Cut(p) == \E s \in {r \in stops : r.by = "watchdog"} :
                          s.profile = p /\ HasToken(p, s.token)
  <2>1. /\ UNCHANGED Given /\ phase = "serving"
        /\ owners' = [p \in Profiles |-> IF Cut(p)
             THEN [owners[p] EXCEPT !.state = "cleanup_failed"] ELSE owners[p]]
    BY <1>13 DEF BeginShutdown, Given
  <2>2. ASSUME NEW p \in Profiles, Cut(p)
        PROVE  owners[p] \in Owner /\ owners[p].state = "stopping"
    BY <2>1, <2>2 DEF TypeOK, StopsOwned, StopOwned
  <2> HIDE DEF Cut
  <2>3. ASSUME NEW p \in Profiles, Cut(p)
        PROVE  AbstractHolder(owners'[p]) = AbstractHolder(owners[p])
    <3>1. owners'[p] = [owners[p] EXCEPT !.state = "cleanup_failed"]
      BY <2>1, <2>3
    <3>2. owners[p] \in Owner /\ owners[p].state = "stopping"
      BY <2>2, <2>3
    <3>3. owners'[p] \in Owner /\ owners'[p].state = "cleanup_failed"
      BY <3>1, <3>2
    <3>4. /\ owners'[p].token = owners[p].token
          /\ owners'[p].execution = owners[p].execution
          /\ owners'[p].used = owners[p].used
      BY <3>1, <3>2
    <3> QED BY <3>2, <3>3, <3>4 DEF AbstractHolder, AbstractPhase
  <2>4. \A p \in Profiles : ~Cut(p) => owners'[p] = owners[p]
    BY <2>1
  <2> QED BY <2>1, <2>3, <2>4, StuttersImplement
<1> QED BY <1>1, <1>2, <1>3, <1>4, <1>5, <1>6, <1>7, <1>8, <1>9, <1>10, <1>11, <1>12,
     <1>13 DEF Next, JobStep

\* The registry keeps the promise of ContainerOwnership: one holder per
\* container, a token given out once, a container that was used free again only
\* after it was closed, whatever sweeps, failed stops and restarts happen.
THEOREM KeepsOwnership ==
  ASSUME Overlaps = {}
  PROVE  Spec => ImplementsOwnership
<1>1. Init => Ownership!Init
  <2> SUFFICES ASSUME Init PROVE Ownership!Init
    OBVIOUS
  <2>1. Holding = [p \in Profiles |-> NoOwner]
    BY DEF Init, Holding, AbstractHolder
  <2>2. Given = {}
    BY DEF Init, Given
  <2> QED BY <2>1, <2>2 DEF Ownership!Init
<1>2. IInv /\ IInv' /\ [Next]_vars => [Ownership!Next]_(Ownership!vars)
  <2> SUFFICES ASSUME IInv, IInv', [Next]_vars
               PROVE  [Ownership!Next]_(Ownership!vars)
    OBVIOUS
  <2>1. CASE UNCHANGED vars
    BY <2>1, StuttersImplement DEF vars, Given
  <2> QED BY <2>1, NextImplements
<1> QED BY <1>1, <1>2, Inductive, PTL DEF Spec, ImplementsOwnership, Ownership!Spec

=============================================================================
