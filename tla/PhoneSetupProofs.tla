--------------------------- MODULE PhoneSetupProofs ---------------------------
(***************************************************************************)
(* Proofs about PhoneSetup, for any Android users, PCs and proxies and any *)
(* bounds: a job has the exit its PC reserved for it alone, Facebook comes *)
(* after the kill switch, and an old primary overwrites nothing.           *)
(***************************************************************************)
EXTENDS PhoneSetup, TLAPS

-----------------------------------------------------------------------------
(* The inductive invariant *)

\* A pool gives a proxy to one account, of this phone or elsewhere.
Reserved(d, u) ==
  d.held[u] # None => /\ d.held[u] \notin d.elsewhere
                      /\ \A v \in Users \ {u} : d.held[v] # d.held[u]
Exclusive == \A p \in PCs : \A u \in Users : Reserved(pc[p], u)

\* A job has the phone to itself, behind the exit of its account.
JobFits ==
  job # None => /\ op[cable] = Idle /\ job \in pc[cable].accounts
                /\ Sealed(job) /\ dev[job].proxy = pc[cable].held[job]

\* A request of a PC without the cable is one that the move left waiting, or assigns its proxy.  One
\* that is going to change what the phone keeps may still do so, since it has held the cable, unless
\* it is a replacement the cable left; a setup run past its network check has the exit that check saw.
OpFits(p) ==
  LET o == op[p] IN
  /\ o.kind = "none" => o = Idle
  /\ o.kind = "setup" => o.user \in Users /\ o.at > 0 /\ (o.at > NetworkStep => Sealed(o.user))
  /\ o.kind = "replace" => o.user \in Users /\ o.want \in Proxies /\ o.at \in {0, 1}
  /\ o.kind \in {"take", "pin"} => o.want \in {Pin, None}
  /\ o.kind = "take" /\ o.user # None => o.found[o.user] \in Proxies
  /\ o = Idle \/ cable = p \/ Assigns(p) \/ (Waits(p) /\ o.away)
  /\ \/ o.kind = "setup" /\ o.at < KillSwitchStep
     \/ o.kind = "replace" /\ o.at = 0 /\ ~o.away
     \/ o.kind = "pin"
     => MayChange(p)
OpsFit == \A p \in PCs : OpFits(p)

IInv == TypeOK /\ Exclusive /\ JobFits /\ OpsFit

-----------------------------------------------------------------------------
(* The steps of a run *)

USE SetupAssumption

\* Where the steps are that change what the properties speak of.
LEMMA StepsAre ==
  /\ Len(Steps) = 10 /\ NetworkStep = 8 /\ KillSwitchStep = 6
  /\ \A i \in 1..10 : /\ Steps[i] = "proxy" <=> i = 5
                      /\ Steps[i] = "network" <=> i = 8
                      /\ Steps[i] = "facebook" <=> i = 9
<1>1. Len(Steps) = 10 /\ DOMAIN Steps = 1..10
  BY DEF Steps
<1>2. \A i \in 1..10 : /\ Steps[i] = "proxy" <=> i = 5
                       /\ Steps[i] = "network" <=> i = 8
                       /\ Steps[i] = "facebook" <=> i = 9
  BY DEF Steps
<1>3. NetworkStep = 8
  BY <1>1, <1>2 DEF NetworkStep
<1>4. \A i \in 1..10 : Steps[i] = "kill_switch" <=> i = 6
  BY DEF Steps
<1>5. KillSwitchStep = 6
  BY <1>1, <1>4 DEF KillSwitchStep
<1> QED BY <1>1, <1>2, <1>3, <1>5

LEMMA RecordFacts ==
  ASSUME TypeOK
  PROVE  /\ \A u \in Users : dev[u] \in AndroidUsers
         /\ \A p \in PCs : pc[p] \in Disks /\ op[p] \in Operations
         /\ FreshUser \in AndroidUsers /\ FreshPC \in Disks /\ Idle \in Operations
         /\ None \notin Users /\ None \notin PCs /\ None \notin Proxies
BY StepsAre DEF TypeOK, FreshUser, FreshPC, Idle, AndroidUsers, Disks, Operations, Runs, Run

\* What a step leaves in its Android user.  Only the installation of Facebook installs it, only the
\* proxy's step changes the proxy, none takes an exit away, and the network check sees one.
LEMMA DoneFacts ==
  ASSUME TypeOK, NEW p \in PCs, NEW u \in Users, NEW i \in 1..10, MayPass(p, u, Steps[i])
  PROVE  LET d == Done(p, u, Steps[i]) IN
         /\ d \in AndroidUsers
         /\ d.facebook => dev[u].facebook \/ i = 9
         /\ i # 5 => d.proxy = dev[u].proxy
         /\ d.pin = dev[u].pin /\ d.details = dev[u].details
         /\ Sealed(u) => d.agent /\ d.lockdown /\ d.proxy # None
         /\ i = 8 => d = dev[u] /\ Sealed(u)
<1> DEFINE step == Steps[i]
           d == Done(p, u, step)
<1>1. /\ dev[u] \in AndroidUsers /\ pc[p] \in Disks /\ None \notin Proxies
      /\ step = "proxy" <=> i = 5
      /\ step = "network" <=> i = 8
      /\ step = "facebook" <=> i = 9
  BY StepsAre, RecordFacts
<1>2. CASE step = "proxy"
  <2>1. d = [dev[u] EXCEPT !.proxy = pc[p].held[u]]
    BY <1>2 DEF Done
  <2>2. pc[p].held[u] \in Proxies
    BY <1>1, <1>2 DEF MayPass, Disks
  <2> QED BY <1>1, <1>2, <2>1, <2>2 DEF AndroidUsers, Sealed
<1>3. CASE step = "network"
  BY <1>1, <1>3 DEF Done, MayPass, Verifies, Sealed
<1>4. CASE step \notin {"proxy", "network"}
  <2>1. \/ d = dev[u]
        \/ d = [dev[u] EXCEPT !.agent = TRUE]
        \/ d = [dev[u] EXCEPT !.vpn = TRUE]
        \/ d = [dev[u] EXCEPT !.lockdown = TRUE]
        \/ step = "facebook" /\ d = [dev[u] EXCEPT !.facebook = TRUE]
    BY <1>4 DEF Done
  <2> QED BY <1>1, <1>4, <2>1 DEF AndroidUsers, Sealed
<1> QED BY <1>2, <1>3, <1>4

\* The bounds.
Counts == [ops : 0..MaxOps, taken : 0..MaxTaken, moves : 0..MaxMoves, faults : 0..MaxFaults]
LEMMA CountFacts ==
  ASSUME TypeOK
  PROVE  /\ Counted("ops", MaxOps) => count' \in Counts
         /\ Counted("taken", MaxTaken) => count' \in Counts
         /\ Counted("moves", MaxMoves) => count' \in Counts
         /\ Counted("faults", MaxFaults) => count' \in Counts
BY DEF TypeOK, Counted, Counts

-----------------------------------------------------------------------------
(* What steps leave alone *)

\* An account that gets a free proxy, or none, leaves every other reservation as it was.
LEMMA LinkFacts ==
  ASSUME TypeOK, Exclusive, NEW p \in PCs, NEW u \in Users, NEW x \in Proxies \cup {None},
         x # None => HasRoom(p, u, x)
  PROVE  LET d == Linked(p, u, x) IN
         /\ d \in [PCs -> Disks]
         /\ \A q \in PCs : \A v \in Users : Reserved(d[q], v)
         /\ \A q \in PCs : pc[q].accounts \subseteq d[q].accounts
         /\ \A q \in PCs : \A v \in Users : q # p \/ v # u => d[q].held[v] = pc[q].held[v]
<1> DEFINE d == Linked(p, u, x)
<1>1. pc \in [PCs -> Disks]
  BY DEF TypeOK
<1>2. d = [pc EXCEPT ![p] = [pc[p] EXCEPT !.held = [pc[p].held EXCEPT ![u] = x],
                                          !.accounts = pc[p].accounts \cup {u}]]
  BY <1>1 DEF Linked, Disks
<1>3. /\ d[p] \in Disks /\ d[p].held = [pc[p].held EXCEPT ![u] = x]
      /\ d[p].accounts = pc[p].accounts \cup {u} /\ d[p].elsewhere = pc[p].elsewhere
      /\ \A q \in PCs \ {p} : d[q] = pc[q]
      /\ d \in [PCs -> Disks]
  <2> DEFINE e == [pc[p] EXCEPT !.held = [pc[p].held EXCEPT ![u] = x],
                                !.accounts = pc[p].accounts \cup {u}]
  <2>1. pc[p] \in Disks /\ [pc[p].held EXCEPT ![u] = x] \in [Users -> Proxies \cup {None}]
    BY <1>1 DEF Disks
  <2>2. /\ e \in Disks /\ e.held = [pc[p].held EXCEPT ![u] = x]
        /\ e.accounts = pc[p].accounts \cup {u} /\ e.elsewhere = pc[p].elsewhere
    BY <2>1 DEF Disks
  <2> HIDE DEF e
  <2>3. d = [pc EXCEPT ![p] = e]
    BY <1>2 DEF e
  <2> QED BY <1>1, <2>2, <2>3
<1>4. pc[p].held \in [Users -> Proxies \cup {None}]
  BY <1>1 DEF Disks
<1>5. \A v \in Users : Reserved(d[p], v)
  <2> SUFFICES ASSUME NEW v \in Users, d[p].held[v] # None
               PROVE  /\ d[p].held[v] \notin d[p].elsewhere
                      /\ \A w \in Users \ {v} : d[p].held[w] # d[p].held[v]
    BY DEF Reserved
  <2>1. \A w \in Users \ {u} : pc[p].held[w] # None => pc[p].held[w] # x
    BY <1>4 DEF HasRoom, Holders
  <2>2. d[p].held[u] = x /\ \A w \in Users \ {u} : d[p].held[w] = pc[p].held[w]
    BY <1>3, <1>4
  <2>3. CASE v = u
    BY <1>3, <2>1, <2>2, <2>3 DEF HasRoom
  <2>4. CASE v # u
    BY <1>3, <2>1, <2>2, <2>4 DEF Exclusive, Reserved
  <2> QED BY <2>3, <2>4
<1>6. \A q \in PCs \ {p} : \A v \in Users : Reserved(d[q], v)
  BY <1>3 DEF Exclusive
<1> QED BY <1>3, <1>4, <1>5, <1>6

\* What no step of the phone or of a request is, leaves every request as it was.
LEMMA OpsSame ==
  ASSUME OpsFit, UNCHANGED <<dev, primary, cable, op>>
  PROVE  OpsFit'
BY DEF OpsFit, OpFits, Sealed, MayChange, Waits, Assigns

\* Requests that end leave the others as they were.
LEMMA OpsEnd ==
  ASSUME TypeOK, OpsFit, UNCHANGED <<dev, primary, cable>>,
         \A q \in PCs : op'[q] \in {op[q], Idle}
  PROVE  OpsFit'
<1> SUFFICES ASSUME NEW q \in PCs PROVE OpFits(q)'
  BY DEF OpsFit
<1>1. CASE op'[q] = Idle
  BY <1>1 DEF OpFits, Idle
<1>2. CASE op'[q] = op[q]
  BY <1>2 DEF OpsFit, OpFits, Sealed, MayChange, Waits, Assigns
<1> QED BY <1>1, <1>2

\* While a PC has the cable the requests of the others wait, and nothing it does to the phone
\* concerns them.
LEMMA OthersWait ==
  ASSUME TypeOK, OpsFit, NEW p \in PCs, Connected(p), cable' = cable,
         \A q \in PCs \ {p} : op'[q] = op[q], OpFits(p)'
  PROVE  OpsFit'
<1> SUFFICES ASSUME NEW q \in PCs, q # p PROVE OpFits(q)'
  BY DEF OpsFit
<1>1. op[q] = Idle \/ Assigns(q) \/ (Waits(q) /\ op[q].away)
  BY DEF OpsFit, OpFits, Connected
<1>2. NetworkStep = 8 /\ KillSwitchStep = 6
  BY StepsAre
<1>3. CASE op[q] = Idle
  BY <1>3 DEF OpFits, Idle
<1>4. CASE Assigns(q) \/ (Waits(q) /\ op[q].away)
  BY <1>2, <1>4 DEF OpsFit, OpFits, Waits, Assigns
<1> QED BY <1>1, <1>3, <1>4

\* A job goes on while its phone and its account's entry are left alone.
LEMMA JobSame ==
  ASSUME JobFits, UNCHANGED <<dev, cable>>, op'[cable] \in {op[cable], Idle}, job' \in {job, None},
         job # None => pc[cable].accounts \subseteq pc'[cable].accounts /\ pc'[cable].held[job] = pc[cable].held[job]
  PROVE  JobFits'
BY DEF JobFits, Sealed

\* A request under way, or a phone lock, means there is no job.
LEMMA NoJob ==
  ASSUME JobFits, NEW p \in PCs, Connected(p)
  PROVE  (op[p] # Idle => job = None) /\ (PhoneLock(p) => job = None)
BY DEF JobFits, Connected, PhoneLock

-----------------------------------------------------------------------------
(* The pool *)

LEMMA TakenStep ==
  ASSUME IInv, NEW p \in PCs, NEW x \in Proxies, TakenElsewhere(p, x) \/ FreedElsewhere(p, x)
  PROVE  IInv'
<1>1. PICK e \in SUBSET Proxies :
        /\ pc' = [pc EXCEPT ![p] = [pc[p] EXCEPT !.elsewhere = e]]
        /\ \A u \in Users : pc[p].held[u] # None => pc[p].held[u] \notin e
  <2>1. pc[p].elsewhere \subseteq Proxies
    BY RecordFacts DEF IInv, Disks
  <2>2. CASE TakenElsewhere(p, x)
    <3>1. \A u \in Users : pc[p].held[u] # None => pc[p].held[u] \notin pc[p].elsewhere \cup {x}
      BY <2>2 DEF TakenElsewhere, Holders, IInv, Exclusive, Reserved
    <3> QED BY <2>1, <2>2, <3>1 DEF TakenElsewhere
  <2>3. CASE FreedElsewhere(p, x)
    <3>1. \A u \in Users : pc[p].held[u] # None => pc[p].held[u] \notin pc[p].elsewhere \ {x}
      BY DEF IInv, Exclusive, Reserved
    <3> QED BY <2>1, <2>3, <3>1 DEF FreedElsewhere
  <2> QED BY <2>2, <2>3
<1> DEFINE d == [pc[p] EXCEPT !.elsewhere = e]
<1>2. /\ d \in Disks /\ d.elsewhere = e /\ d.held = pc[p].held /\ d.accounts = pc[p].accounts
      /\ pc \in [PCs -> Disks]
  BY RecordFacts DEF IInv, TypeOK, Disks
<1> HIDE DEF d
<1>3. pc' \in [PCs -> Disks] /\ pc'[p] = d /\ \A q \in PCs \ {p} : pc'[q] = pc[q]
  BY <1>1, <1>2 DEF d
<1>4. UNCHANGED <<dev, primary, cable, op, job>> /\ count' \in Counts
  BY CountFacts DEF TakenElsewhere, FreedElsewhere, IInv, TypeOK, Counts
<1>5. TypeOK'
  BY <1>3, <1>4 DEF IInv, TypeOK, Counts
<1>6. Exclusive'
  BY <1>1, <1>2, <1>3 DEF IInv, Exclusive, Reserved
<1>7. JobFits'
  BY <1>2, <1>3, <1>4, JobSame DEF IInv, TypeOK
<1> QED BY <1>4, <1>5, <1>6, <1>7, OpsSame DEF IInv

\* A new account has no job yet.
LEMMA ImportStep ==
  ASSUME IInv, NEW p \in PCs, NEW u \in Users, NEW x \in Proxies \cup {None},
         Connected(p), u \notin pc[p].accounts, x # None => HasRoom(p, u, x), pc' = Linked(p, u, x),
         UNCHANGED <<dev, primary, cable, op, job, count>>
  PROVE  IInv'
<1>1. /\ pc' \in [PCs -> Disks] /\ Exclusive' /\ \A q \in PCs : pc[q].accounts \subseteq pc'[q].accounts
      /\ \A q \in PCs : \A v \in Users : q # p \/ v # u => pc'[q].held[v] = pc[q].held[v]
  BY LinkFacts DEF IInv, Exclusive
<1>2. TypeOK'
  BY <1>1 DEF IInv, TypeOK
<1>3. job # None => job \in Users /\ cable = p /\ job # u
  BY DEF IInv, TypeOK, JobFits, Connected
<1>4. JobFits'
  BY <1>1, <1>3, JobSame DEF IInv, TypeOK
<1> QED BY <1>1, <1>2, <1>4, OpsSame DEF IInv

LEMMA Imports ==
  ASSUME IInv, NEW p \in PCs, NEW u \in Users,
         (\E x \in Proxies : ImportUser(p, u, x)) \/ ImportFromPhone(p, u)
  PROVE  IInv'
<1>1. ASSUME NEW x \in Proxies, ImportUser(p, u, x) PROVE IInv'
  BY <1>1, ImportStep DEF ImportUser
<1>2. CASE ImportFromPhone(p, u)
  <2> DEFINE x == IF dev[u].proxy # None /\ HasRoom(p, u, dev[u].proxy) THEN dev[u].proxy ELSE None
  <2>1. x \in Proxies \cup {None} /\ (x # None => HasRoom(p, u, x))
    BY RecordFacts DEF IInv, AndroidUsers
  <2>2. pc' = Linked(p, u, x) /\ Connected(p) /\ u \notin pc[p].accounts /\ UNCHANGED <<dev, primary, cable, op, job, count>>
    BY <1>2 DEF ImportFromPhone
  <2> HIDE DEF x
  <2> QED BY <2>1, <2>2, ImportStep
<1> QED BY <1>1, <1>2

-----------------------------------------------------------------------------
(* Jobs *)

LEMMA JobSteps ==
  ASSUME IInv, JobEnds \/ \E p \in PCs, u \in Users : OpenForJob(p, u)
  PROVE  IInv'
<1>1. CASE JobEnds
  <2>1. TypeOK' /\ Exclusive' /\ JobFits'
    BY <1>1 DEF JobEnds, IInv, TypeOK, Exclusive, Reserved, JobFits
  <2> QED BY <1>1, <2>1, OpsSame DEF JobEnds, IInv
<1>2. ASSUME NEW p \in PCs, NEW u \in Users, OpenForJob(p, u) PROVE IInv'
  <2>1. TypeOK' /\ Exclusive'
    BY <1>2 DEF OpenForJob, IInv, TypeOK, Exclusive, Reserved
  <2>2. JobFits'
    BY <1>2 DEF OpenForJob, Verifies, Connected, JobFits, Sealed
  <2> QED BY <1>2, <2>1, <2>2, OpsSame DEF OpenForJob, IInv
<1> QED BY <1>1, <1>2

-----------------------------------------------------------------------------
(* The record of a setup run *)

SetupOf(p, u, r) == pc' = [pc EXCEPT ![p].setup[u] = r]

LEMMA SetupFacts ==
  ASSUME TypeOK, Exclusive, NEW p \in PCs, NEW u \in Users, NEW r \in Runs, SetupOf(p, u, r)
  PROVE  /\ pc' \in [PCs -> Disks] /\ Exclusive'
         /\ \A q \in PCs : /\ pc'[q].accounts = pc[q].accounts /\ pc'[q].held = pc[q].held
                           /\ pc'[q].pin = pc[q].pin
<1>1. pc \in [PCs -> Disks]
  BY DEF TypeOK
<1> DEFINE d == [pc[p] EXCEPT !.setup = [pc[p].setup EXCEPT ![u] = r]]
<1>2. [pc[p].setup EXCEPT ![u] = r] \in [Users -> Runs] /\ pc[p] \in Disks
  BY <1>1 DEF Disks
<1>3. /\ d \in Disks /\ d.accounts = pc[p].accounts /\ d.held = pc[p].held /\ d.pin = pc[p].pin
      /\ d.elsewhere = pc[p].elsewhere
  BY <1>2 DEF Disks
<1>4. pc' = [pc EXCEPT ![p] = d]
  BY <1>1 DEF SetupOf
<1> HIDE DEF d
<1>5. pc' \in [PCs -> Disks] /\ pc'[p] = d /\ \A q \in PCs \ {p} : pc'[q] = pc[q]
  BY <1>1, <1>3, <1>4
<1>6. \A q \in PCs : /\ pc'[q].accounts = pc[q].accounts /\ pc'[q].held = pc[q].held
                     /\ pc'[q].pin = pc[q].pin /\ pc'[q].elsewhere = pc[q].elsewhere
  BY <1>3, <1>5
<1> QED BY <1>5, <1>6 DEF Exclusive, Reserved

LEMMA RunFacts ==
  /\ \A s \in {"not_started", "running", "failed", "waiting_login", "done"}, i \in 1..10 : Run(s, i) \in Runs
  /\ Run("failed", Len(Steps)) \in Runs
BY StepsAre DEF Run, Runs

LEMMA ConfirmStep ==
  ASSUME IInv, NEW p \in PCs, NEW u \in Users, ConfirmLogin(p, u)
  PROVE  IInv'
<1>1. SetupOf(p, u, Run("done", 1)) /\ UNCHANGED <<dev, primary, cable, op, job, count>>
  BY DEF ConfirmLogin, SetupOf
<1>2. /\ pc' \in [PCs -> Disks] /\ Exclusive'
      /\ \A q \in PCs : pc'[q].accounts = pc[q].accounts /\ pc'[q].held = pc[q].held
  BY <1>1, RunFacts, SetupFacts DEF IInv
<1>3. TypeOK'
  BY <1>1, <1>2 DEF IInv, TypeOK
<1>4. JobFits'
  BY <1>1, <1>2, JobSame DEF IInv, TypeOK
<1> QED BY <1>1, <1>2, <1>3, <1>4, OpsSame DEF IInv

-----------------------------------------------------------------------------
(* The requests of the PC that has the cable *)

\* A request begins or goes on, and no job runs.
LEMMA RequestStep ==
  ASSUME IInv, NEW p \in PCs, Connected(p), PhoneLock(p) \/ op[p] # Idle, UNCHANGED <<cable, job>>,
         NEW o \in Operations, op' = [op EXCEPT ![p] = o], OpFits(p)',
         dev' \in [Users -> AndroidUsers], primary' \in PCs \cup {None},
         pc' \in [PCs -> Disks], Exclusive', count' \in Counts
  PROVE  IInv'
<1>1. op' \in [PCs -> Operations] /\ \A q \in PCs \ {p} : op'[q] = op[q]
  BY DEF IInv, TypeOK
<1>2. TypeOK'
  BY <1>1 DEF IInv, TypeOK, Counts
<1>3. job = None
  BY NoJob DEF IInv
<1>4. JobFits'
  BY <1>3 DEF JobFits
<1> QED BY <1>1, <1>2, <1>4, OthersWait DEF IInv

LEMMA Unchanged == ASSUME IInv PROVE /\ UNCHANGED pc => pc' \in [PCs -> Disks] /\ Exclusive'
                                     /\ UNCHANGED dev => dev' \in [Users -> AndroidUsers]
                                     /\ UNCHANGED primary => primary' \in PCs \cup {None}
                                     /\ UNCHANGED count => count' \in Counts
BY DEF IInv, TypeOK, Exclusive, Reserved, Counts

LEMMA IdleFacts ==
  /\ Idle \in Operations /\ Idle.kind = "none" /\ Idle.user = None /\ Idle.at = 0 /\ Idle.want = None
  /\ Idle.todo = {} /\ Idle.opened = {} /\ Idle.away = FALSE
BY StepsAre DEF Operations, Idle

LEMMA StartSetupStep ==
  ASSUME IInv, NEW p \in PCs, NEW u \in Users, StartSetup(p, u)
  PROVE  IInv'
<1> DEFINE o == [Idle EXCEPT !.kind = "setup", !.user = u, !.at = FirstStep(p, u)]
<1>1. o \in Operations /\ o # Idle /\ o.kind = "setup" /\ o.user = u /\ o.at = 1
  <2>1. FirstStep(p, u) = 1
    BY DEF FirstStep
  <2> DEFINE e == [Idle EXCEPT !.kind = "setup", !.user = u, !.at = 1]
  <2>2. 1 \in 0..Len(Steps)
    BY StepsAre
  <2>3. e \in Operations /\ e.kind = "setup" /\ e.user = u /\ e.at = 1
    BY <2>2, IdleFacts DEF Operations
  <2>4. o = e
    BY <2>1
  <2> QED BY <2>3, <2>4, IdleFacts
<1>2. op' = [op EXCEPT ![p] = o] /\ Connected(p) /\ MayChange(p) /\ PhoneLock(p) /\ UNCHANGED <<dev, primary, cable, job>>
  BY DEF StartSetup
<1> HIDE DEF o
<1>3. op'[p] = o
  BY <1>2 DEF IInv, TypeOK
<1>4. OpFits(p)'
  BY <1>1, <1>2, <1>3, StepsAre DEF OpFits, MayChange, Connected
<1>5. pc' \in [PCs -> Disks] /\ Exclusive'
  <2>1. SetupOf(p, u, Run("running", 1)) /\ Run("running", 1) \in Runs
    BY RunFacts DEF StartSetup, SetupOf
  <2> QED BY <2>1, SetupFacts DEF IInv
<1>6. count' \in Counts
  BY CountFacts DEF StartSetup, IInv
<1> QED BY <1>1, <1>2, <1>4, <1>5, <1>6, Unchanged, RequestStep

LEMMA Begins ==
  ASSUME IInv, NEW p \in PCs,
         \/ \E pin \in {Pin, None}, forgot \in BOOLEAN : MakePrimary(p, pin, forgot)
         \/ \E u \in Users, x \in Proxies : ReplaceProxy(p, u, x)
         \/ \E pin \in {Pin, None} : SetPin(p, pin)
  PROVE  IInv'
<1>1. Connected(p) /\ PhoneLock(p) /\ UNCHANGED <<dev, primary, cable, pc, job>> /\ count' \in Counts
  BY CountFacts DEF MakePrimary, ReplaceProxy, SetPin, IInv
<1>2. SUFFICES \E o \in Operations : op' = [op EXCEPT ![p] = o] /\ OpFits(p)'
  BY <1>1, Unchanged, RequestStep
<1>3. SetUpUsers \subseteq Users
  BY DEF SetUpUsers
<1>4. ASSUME NEW pin \in {Pin, None}, NEW forgot \in BOOLEAN, MakePrimary(p, pin, forgot)
      PROVE  \E o \in Operations : op' = [op EXCEPT ![p] = o] /\ OpFits(p)'
  <2> DEFINE opened == {u \in SetUpUsers : dev[u].pin \in {None, pin}}
             want == IF opened = SetUpUsers THEN pin ELSE None
             found == [u \in Users |-> dev[u].proxy]
             o == [Idle EXCEPT !.kind = "take", !.want = want, !.todo = SetUpUsers,
                               !.opened = opened, !.found = found]
  <2>1. op' = [op EXCEPT ![p] = o]
    BY <1>4 DEF MakePrimary
  <2>5. opened \in SUBSET Users /\ want \in {Pin, None} /\ found \in [Users -> Proxies \cup {None}]
    BY <1>3, RecordFacts DEF IInv, AndroidUsers
  <2> HIDE DEF opened, want, found
  <2>2. o \in Operations /\ o # Idle /\ o.kind = "take" /\ o.want \in {Pin, None} /\ o.user = None
    BY <1>3, <2>5, IdleFacts DEF Operations
  <2> HIDE DEF o
  <2>3. op' = [op EXCEPT ![p] = o] /\ op'[p] = o
    BY <2>1 DEF o, IInv, TypeOK
  <2>4. OpFits(p)'
    BY <1>1, <2>2, <2>3 DEF OpFits, Connected
  <2> QED BY <2>2, <2>3, <2>4
<1>5. ASSUME NEW u \in Users, NEW x \in Proxies, ReplaceProxy(p, u, x)
      PROVE  \E o \in Operations : op' = [op EXCEPT ![p] = o] /\ OpFits(p)'
  <2> DEFINE o == [Idle EXCEPT !.kind = "replace", !.user = u, !.want = x]
  <2>1. o \in Operations /\ o # Idle /\ o.kind = "replace" /\ o.user = u /\ o.want = x /\ o.at = 0
    BY IdleFacts DEF Operations
  <2> HIDE DEF o
  <2>2. op' = [op EXCEPT ![p] = o] /\ op'[p] = o /\ MayChange(p)
    BY <1>5 DEF ReplaceProxy, o, IInv, TypeOK
  <2>3. OpFits(p)'
    BY <1>1, <2>1, <2>2 DEF OpFits, Connected, MayChange
  <2> QED BY <2>1, <2>2, <2>3
<1>6. ASSUME NEW pin \in {Pin, None}, SetPin(p, pin)
      PROVE  \E o \in Operations : op' = [op EXCEPT ![p] = o] /\ OpFits(p)'
  <2> DEFINE o == [Idle EXCEPT !.kind = "pin", !.want = pin, !.todo = SetUpUsers]
  <2>1. o \in Operations /\ o # Idle /\ o.kind = "pin" /\ o.want = pin
    BY <1>3, IdleFacts DEF Operations
  <2> HIDE DEF o
  <2>2. op' = [op EXCEPT ![p] = o] /\ op'[p] = o /\ MayChange(p)
    BY <1>6 DEF SetPin, o, IInv, TypeOK
  <2>3. OpFits(p)'
    BY <1>1, <2>1, <2>2 DEF OpFits, Connected, MayChange
  <2> QED BY <2>1, <2>2, <2>3
<1> QED BY <1>4, <1>5, <1>6

\* One Android user is changed.
LEMMA UserFacts ==
  ASSUME IInv, NEW u \in Users, NEW d \in AndroidUsers, dev' = [dev EXCEPT ![u] = d]
  PROVE  /\ dev' \in [Users -> AndroidUsers] /\ dev'[u] = d
         /\ \A v \in Users \ {u} : dev'[v] = dev[v]
BY DEF IInv, TypeOK

LEMMA SetupGoes ==
  ASSUME IInv, NEW p \in PCs, SetupStep(p)
  PROVE  IInv'
<1> DEFINE u == op[p].user
           i == op[p].at
           d == Done(p, u, Steps[i])
           o == [op[p] EXCEPT !.at = i + 1]
<1>1. op[p] \in Operations /\ op[p].kind = "setup" /\ op[p] # Idle /\ u \in Users /\ i \in 1..9
  BY StepsAre, RecordFacts DEF SetupStep, IInv, OpsFit, OpFits, Operations, Idle
<1>2. /\ d \in AndroidUsers /\ (Sealed(u) => d.agent /\ d.lockdown /\ d.proxy # None)
      /\ i = 8 => d = dev[u] /\ Sealed(u)
  <2>1. TypeOK /\ i \in 1..10 /\ MayPass(p, u, Steps[i])
    BY <1>1 DEF SetupStep, IInv
  <2> QED BY <1>1, <2>1, DoneFacts
<1>3. o \in Operations /\ o # Idle /\ o.kind = "setup" /\ o.user = u /\ o.at = i + 1
  BY <1>1, StepsAre DEF Operations, Idle
<1>4. /\ Connected(p) /\ UNCHANGED <<primary, cable, pc, job, count>> /\ op' = [op EXCEPT ![p] = o]
      /\ dev' = [dev EXCEPT ![u] = d]
  BY DEF SetupStep, IInv, TypeOK
<1> HIDE DEF d, o
<1>5. dev' \in [Users -> AndroidUsers] /\ dev'[u] = d
  BY <1>1, <1>2, <1>4, UserFacts
<1>6. op'[p] = o
  BY <1>4 DEF IInv, TypeOK
<1>7. o.at > 8 => Sealed(u)'
  <2>1. i > 7 => Sealed(u)
    BY <1>1, <1>2, StepsAre DEF IInv, OpsFit, OpFits
  <2>2. Sealed(u) => Sealed(u)'
    BY <1>1, <1>2, <1>3, <1>5, <1>6 DEF Sealed
  <2> QED BY <1>1, <1>3, <2>1, <2>2
<1>8. o.at < 6 => MayChange(p)'
  BY <1>1, <1>3, <1>4, StepsAre DEF IInv, OpsFit, OpFits, MayChange
<1>9. OpFits(p)'
  BY <1>1, <1>3, <1>4, <1>6, <1>7, <1>8, StepsAre DEF OpFits, Connected
<1> QED BY <1>1, <1>3, <1>4, <1>5, <1>9, Unchanged, RequestStep

\* A request ends, whether its PC has the cable or not, and the phone is left alone.
LEMMA EndStep ==
  ASSUME IInv, NEW p \in PCs, op' = [op EXCEPT ![p] = Idle], UNCHANGED <<dev, primary, cable>>,
         job' \in {job, None}, pc' \in [PCs -> Disks], Exclusive', count' \in Counts,
         job # None => pc[cable].accounts \subseteq pc'[cable].accounts /\ pc'[cable].held[job] = pc[cable].held[job]
  PROVE  IInv'
<1>1. op' \in [PCs -> Operations] /\ \A q \in PCs : op'[q] \in {op[q], Idle}
  BY IdleFacts DEF IInv, TypeOK
<1>2. TypeOK'
  BY <1>1 DEF IInv, TypeOK, Counts
<1>3. OpsFit'
  BY <1>1, OpsEnd DEF IInv
<1>4. JobFits'
  BY <1>1, JobSame DEF IInv, TypeOK
<1> QED BY <1>2, <1>3, <1>4 DEF IInv

\* A run that stops notes where.
LEMMA StopFacts ==
  ASSUME IInv, NEW p \in PCs, op[p].kind = "setup", SetupStops(p)
  PROVE  /\ op[p] # Idle /\ op[p].user \in Users /\ op[p].at \in 1..10
         /\ op' = [op EXCEPT ![p] = Idle] /\ pc' \in [PCs -> Disks] /\ Exclusive'
         /\ \A q \in PCs : pc'[q].accounts = pc[q].accounts /\ pc'[q].held = pc[q].held
<1>1. op[p] \in Operations /\ op[p].user \in Users /\ op[p].at > 0
  BY RecordFacts DEF IInv, OpsFit, OpFits
<1>2. op[p].at \in 1..10 /\ op[p] # Idle
  BY <1>1, StepsAre, IdleFacts DEF Operations
<1>3. Run("failed", op[p].at) \in Runs /\ SetupOf(p, op[p].user, Run("failed", op[p].at))
  BY <1>2, RunFacts DEF SetupStops, SetupOf
<1>4. op' = [op EXCEPT ![p] = Idle]
  BY DEF SetupStops, Ends
<1> QED BY <1>1, <1>2, <1>3, <1>4, SetupFacts DEF IInv

LEMMA SetupFailsStep ==
  ASSUME IInv, NEW p \in PCs, SetupFails(p)
  PROVE  IInv'
<1> DEFINE u == op[p].user
           i == op[p].at
           d == Done(p, u, Steps[i])
<1>1. /\ op[p] # Idle /\ u \in Users /\ i \in 1..10
      /\ op' = [op EXCEPT ![p] = Idle] /\ pc' \in [PCs -> Disks] /\ Exclusive'
      /\ \A q \in PCs : pc'[q].accounts = pc[q].accounts /\ pc'[q].held = pc[q].held
      /\ UNCHANGED <<primary, cable, job>>
  BY StopFacts DEF SetupFails
<1>2. count' \in Counts
  <2>1. Counted("faults", MaxFaults) \/ UNCHANGED count
    BY DEF SetupFails
  <2> QED BY <2>1, CountFacts, Unchanged DEF IInv
<1>3. CASE UNCHANGED dev
  BY <1>1, <1>2, <1>3, EndStep DEF IInv, TypeOK
<1>4. CASE Connected(p) /\ MayPass(p, u, Steps[i]) /\ dev' = [dev EXCEPT ![u] = d]
  <2>1. d \in AndroidUsers
    BY <1>1, <1>4, DoneFacts DEF IInv
  <2> HIDE DEF d
  <2>2. dev' \in [Users -> AndroidUsers]
    BY <1>1, <1>4, <2>1, UserFacts
  <2>3. op'[p] = Idle
    BY <1>1 DEF IInv, TypeOK
  <2>4. OpFits(p)'
    BY <2>3, IdleFacts DEF OpFits
  <2> QED BY <1>1, <1>2, <1>4, <2>2, <2>4, IdleFacts, Unchanged, RequestStep
<1> QED BY <1>3, <1>4 DEF SetupFails

\* A PC's own PIN.
LEMMA PinFacts ==
  ASSUME IInv, NEW p \in PCs, NEW pin \in {Pin, None}, pc' = [pc EXCEPT ![p].pin = pin]
  PROVE  /\ pc' \in [PCs -> Disks] /\ Exclusive'
         /\ \A q \in PCs : pc'[q].accounts = pc[q].accounts /\ pc'[q].held = pc[q].held
<1> DEFINE d == [pc[p] EXCEPT !.pin = pin]
<1>1. /\ d \in Disks /\ d.accounts = pc[p].accounts /\ d.held = pc[p].held /\ d.elsewhere = pc[p].elsewhere
      /\ pc \in [PCs -> Disks] /\ pc' = [pc EXCEPT ![p] = d]
  BY RecordFacts DEF IInv, TypeOK, Disks
<1> HIDE DEF d
<1>2. pc' \in [PCs -> Disks] /\ pc'[p] = d /\ \A q \in PCs \ {p} : pc'[q] = pc[q]
  BY <1>1
<1>3. \A q \in PCs : /\ pc'[q].accounts = pc[q].accounts /\ pc'[q].held = pc[q].held
                     /\ pc'[q].elsewhere = pc[q].elsewhere
  BY <1>1, <1>2
<1> QED BY <1>2, <1>3 DEF IInv, Exclusive, Reserved

LEMMA IdleFits == ASSUME IInv, NEW p \in PCs, op' = [op EXCEPT ![p] = Idle] PROVE OpFits(p)'
<1>1. op'[p] = Idle
  BY DEF IInv, TypeOK
<1> QED BY <1>1, IdleFacts DEF OpFits

LEMMA SaveStep ==
  ASSUME IInv, NEW p \in PCs, SaveDetails(p)
  PROVE  IInv'
<1> DEFINE u == op[p].user
<1>1. op[p] \in Operations /\ op[p] # Idle /\ u \in Users /\ Connected(p) /\ UNCHANGED <<cable, job, count>>
  BY RecordFacts, IdleFacts DEF SaveDetails, IInv, OpsFit, OpFits
<1>2. CASE ~MayChange(p)
  <2>1. SetupStops(p) /\ op[p].kind = "setup" /\ UNCHANGED <<dev, primary>>
    BY <1>2 DEF SaveDetails
  <2> QED BY <1>1, <2>1, StopFacts, EndStep, Unchanged DEF IInv, TypeOK
<1>3. CASE MayChange(p)
  <2>1. /\ primary' = p /\ dev' = [dev EXCEPT ![u] = Details(p, u)] /\ op' = [op EXCEPT ![p] = Idle]
        /\ SetupOf(p, u, Saved(p, u))
    BY <1>3 DEF SaveDetails, Ends, SetupOf
  <2>2. Details(p, u) \in AndroidUsers
    <3>1. dev[u] \in AndroidUsers /\ pc[p] \in Disks
      BY <1>1, RecordFacts DEF IInv
    <3> QED BY <3>1 DEF Details, AndroidUsers, Disks
  <2>3. dev' \in [Users -> AndroidUsers]
    BY <1>1, <2>1, <2>2, UserFacts
  <2>4. Saved(p, u) \in Runs
    BY RunFacts DEF Saved
  <2>5. pc' \in [PCs -> Disks] /\ Exclusive'
    BY <1>1, <2>1, <2>4, SetupFacts DEF IInv
  <2> QED BY <1>1, <2>1, <2>3, <2>5, IdleFacts, IdleFits, Unchanged, RequestStep
<1> QED BY <1>2, <1>3

-----------------------------------------------------------------------------
(* Takeover *)

\* One account of the takeover is done.
LEMMA TakeGoes ==
  ASSUME IInv, NEW p \in PCs, NEW u \in Users, op[p].kind \in {"take", "pin"}, Connected(p), TakeStep(p, u),
         UNCHANGED <<primary, cable, job, count>>, dev' \in [Users -> AndroidUsers],
         pc' \in [PCs -> Disks], Exclusive'
  PROVE  IInv'
<1> DEFINE o == [op[p] EXCEPT !.todo = op[p].todo \ {u}, !.user = None]
<1>1. op[p] \in Operations
  BY RecordFacts DEF IInv
<1>2. /\ o \in Operations /\ o.kind = op[p].kind /\ o.want = op[p].want /\ o.user = None
      /\ o # Idle /\ op[p] # Idle /\ op' = [op EXCEPT ![p] = o]
  BY <1>1, IdleFacts DEF Operations, TakeStep, IInv, TypeOK
<1> HIDE DEF o
<1>3. op'[p] = o
  BY <1>2 DEF IInv, TypeOK
<1>4. OpFits(p)'
  BY <1>2, <1>3 DEF IInv, OpsFit, OpFits, MayChange, Connected
<1> QED BY <1>2, <1>4, Unchanged, RequestStep

LEMMA TakeExportedStep ==
  ASSUME IInv, NEW p \in PCs, NEW u \in Users, TakeExported(p, u)
  PROVE  IInv'
<1> DEFINE x == op[p].found[u]
<1>1. op[p].kind = "take" /\ Connected(p) /\ TakeStep(p, u) /\ UNCHANGED <<dev, primary, cable, job, count>>
  BY DEF TakeExported, TakesNext
<1>2. x \in Proxies \cup {None} /\ pc \in [PCs -> Disks]
  BY RecordFacts DEF IInv, TypeOK, Operations
<1>3. pc' \in [PCs -> Disks] /\ Exclusive'
  <2>1. CASE x # None /\ HasRoom(p, u, x)
    <3> DEFINE d == Linked(p, u, x)
               e == [d[p] EXCEPT !.usable = d[p].usable \cup {x}]
    <3>1. d \in [PCs -> Disks] /\ \A q \in PCs : \A v \in Users : Reserved(d[q], v)
      BY <1>2, <2>1, LinkFacts DEF IInv
    <3>2. pc' = [d EXCEPT ![p].usable = @ \cup {x}]
      BY <2>1 DEF TakeExported
    <3> HIDE DEF d
    <3>3. e \in Disks /\ e.held = d[p].held /\ e.elsewhere = d[p].elsewhere
      <4>1. d[p] \in Disks /\ x \in Proxies
        BY <1>2, <2>1, <3>1
      <4> HIDE DEF x
      <4> QED BY <4>1 DEF Disks
    <3>5. pc' = [d EXCEPT ![p] = e]
      BY <3>1, <3>2
    <3> HIDE DEF e
    <3>4. pc' \in [PCs -> Disks] /\ pc'[p] = e /\ \A q \in PCs \ {p} : pc'[q] = d[q]
      BY <3>1, <3>3, <3>5
    <3> QED BY <3>1, <3>3, <3>4 DEF Exclusive, Reserved
  <2>2. CASE ~(x # None /\ HasRoom(p, u, x))
    <3>1. UNCHANGED pc
      BY <2>2 DEF TakeExported
    <3> QED BY <3>1, Unchanged
  <2> QED BY <2>1, <2>2
<1> QED BY <1>1, <1>3, Unchanged, TakeGoes

\* The proxy about to be tried is one of the pool's.
LEMMA TakeTriesStep ==
  ASSUME IInv, NEW p \in PCs, NEW u \in Users, TakeTries(p, u)
  PROVE  IInv'
<1> DEFINE o == [op[p] EXCEPT !.user = u]
<1>1. /\ op[p] \in Operations /\ op[p].kind = "take" /\ Connected(p) /\ op[p].found[u] \in Proxies
      /\ op' = [op EXCEPT ![p] = o] /\ UNCHANGED <<dev, primary, cable, pc, job, count>>
  BY RecordFacts DEF TakeTries, TakesNext, IInv, Disks
<1>2. /\ o \in Operations /\ o.kind = "take" /\ o.want = op[p].want /\ o.user = u /\ o.found = op[p].found
      /\ o # Idle /\ op[p] # Idle
  BY <1>1, IdleFacts DEF Operations
<1> HIDE DEF o
<1>3. op'[p] = o
  BY <1>1 DEF IInv, TypeOK
<1>4. OpFits(p)'
  BY <1>1, <1>2, <1>3 DEF IInv, OpsFit, OpFits, Connected
<1> QED BY <1>1, <1>2, <1>4, Unchanged, RequestStep

\* The proxy tried is reserved if it still can be; otherwise the takeover stops.
LEMMA TakeMatchedStep ==
  ASSUME IInv, NEW p \in PCs, NEW u \in Users, TakeMatched(p, u)
  PROVE  IInv'
<1> DEFINE x == op[p].found[u]
           d(pin) == [dev[u] EXCEPT !.proxy = x, !.pin = pin]
           e == [dev[u] EXCEPT !.proxy = x]
<1>1. op[p].kind = "take" /\ Connected(p) /\ op[p].user = u /\ UNCHANGED <<primary, cable, job, count>>
  BY DEF TakeMatched
<1>2. dev[u] \in AndroidUsers /\ None \notin Users
  BY RecordFacts DEF IInv
<1>3. x \in Proxies
  BY <1>1, <1>2 DEF IInv, OpsFit, OpFits
<1>4. e \in AndroidUsers /\ \A pin \in {None, dev[u].pin} : d(pin) \in AndroidUsers
  <2> HIDE DEF x
  <2> QED BY <1>2, <1>3 DEF AndroidUsers
<1>5. CASE HasRoom(p, u, x)
  <2>1. pc' = Linked(p, u, x) /\ TakeStep(p, u)
    BY <1>5 DEF TakeMatched
  <2>4. PICK pin \in {None, dev[u].pin} : dev' = [dev EXCEPT ![u] = d(pin)]
    BY <1>5 DEF TakeMatched, IInv, TypeOK
  <2> HIDE DEF d, x
  <2>2. dev' \in [Users -> AndroidUsers]
    BY <1>4, <2>4, UserFacts
  <2>3. pc' \in [PCs -> Disks] /\ Exclusive'
    BY <1>3, <1>5, <2>1, LinkFacts DEF IInv, Exclusive
  <2> QED BY <1>1, <2>1, <2>2, <2>3, TakeGoes
<1>6. CASE ~HasRoom(p, u, x)
  <2>1. /\ UNCHANGED pc /\ dev' = [dev EXCEPT ![u] = e]
        /\ op[p] # Idle /\ op' = [op EXCEPT ![p] = Idle]
    BY <1>1, <1>6, IdleFacts DEF TakeMatched, Ends
  <2> HIDE DEF e
  <2>2. dev' \in [Users -> AndroidUsers]
    BY <1>4, <2>1, UserFacts
  <2> QED BY <1>1, <2>1, <2>2, IdleFacts, IdleFits, Unchanged, RequestStep
<1> QED BY <1>5, <1>6

LEMMA TakeNeedsProxyStep ==
  ASSUME IInv, NEW p \in PCs, NEW u \in Users, TakeNeedsProxy(p, u)
  PROVE  IInv'
<1>1. op[p].kind = "take" /\ Connected(p) /\ TakeStep(p, u) /\ UNCHANGED <<dev, primary, cable, pc, job, count>>
  BY DEF TakeNeedsProxy
<1> QED BY <1>1, Unchanged, TakeGoes

LEMMA TakenTurn ==
  ASSUME IInv, NEW p \in PCs, Taken(p)
  PROVE  IInv'
<1>1. /\ op[p] # Idle /\ Connected(p) /\ op' = [op EXCEPT ![p] = Idle] /\ primary' = p
      /\ UNCHANGED <<dev, cable, job, count>>
  BY IdleFacts DEF Taken, Ends
<1>2. op[p].want \in {Pin, None} /\ pc' = [pc EXCEPT ![p].pin = op[p].want]
  BY DEF Taken, IInv, OpsFit, OpFits
<1>3. pc' \in [PCs -> Disks] /\ Exclusive'
  BY <1>2, PinFacts
<1> QED BY <1>1, <1>3, IdleFacts, IdleFits, Unchanged, RequestStep

-----------------------------------------------------------------------------
(* Replacing a proxy *)

LEMMA TryProxyStep ==
  ASSUME IInv, NEW p \in PCs, TryProxy(p)
  PROVE  IInv'
<1> DEFINE u == op[p].user
           d == [dev[u] EXCEPT !.proxy = op[p].want]
           o == [op[p] EXCEPT !.at = 1]
<1>1. op[p] \in Operations /\ op[p].kind = "replace" /\ u \in Users /\ op[p].want \in Proxies
  BY RecordFacts DEF TryProxy, IInv, OpsFit, OpFits
<1>2. /\ Connected(p) /\ UNCHANGED <<primary, cable, pc, job, count>> /\ op[p] # Idle
      /\ op' = [op EXCEPT ![p] = o] /\ dev' = [dev EXCEPT ![u] = d]
  BY <1>1, IdleFacts DEF TryProxy
<1>3. d \in AndroidUsers
  BY <1>1, RecordFacts DEF IInv, AndroidUsers
<1>4. o \in Operations /\ o.kind = "replace" /\ o.user = u /\ o.want = op[p].want /\ o.at = 1
  BY <1>1, StepsAre DEF Operations
<1> HIDE DEF d, o
<1>5. dev' \in [Users -> AndroidUsers] /\ op'[p] = o
  BY <1>1, <1>2, <1>3, UserFacts DEF IInv, TypeOK
<1>6. OpFits(p)'
  BY <1>1, <1>2, <1>4, <1>5 DEF OpFits, Connected
<1> QED BY <1>2, <1>4, <1>5, <1>6, Unchanged, RequestStep

\* Outside the phone lock: the phone may be another PC's, with a job of its own there.
LEMMA AssignStep ==
  ASSUME IInv, NEW p \in PCs, Assign(p)
  PROVE  IInv'
<1> DEFINE u == op[p].user
           x == op[p].want
<1>1. op[p] # Idle /\ u \in Users /\ x \in Proxies
  BY IdleFacts DEF Assign, IInv, OpsFit, OpFits
<1>2. op' = [op EXCEPT ![p] = Idle] /\ UNCHANGED <<dev, primary, cable, job, count>>
  BY DEF Assign, Ends
<1>3. job # None => cable # p
  BY <1>1, NoJob DEF IInv, Connected
<1>4. /\ pc' \in [PCs -> Disks] /\ Exclusive'
      /\ \A q \in PCs \ {p} : pc[q].accounts \subseteq pc'[q].accounts /\ \A v \in Users : pc'[q].held[v] = pc[q].held[v]
  <2>1. CASE HasRoom(p, u, x)
    <3>1. pc' = Linked(p, u, x)
      BY <2>1 DEF Assign
    <3> HIDE DEF u, x
    <3> QED BY <1>1, <2>1, <3>1, LinkFacts DEF IInv, Exclusive
  <2>2. CASE ~HasRoom(p, u, x)
    BY <2>2, Unchanged DEF Assign
  <2> QED BY <2>1, <2>2
<1>5. job # None => job \in Users /\ cable \in PCs
  BY DEF IInv, TypeOK
<1> QED BY <1>2, <1>3, <1>4, <1>5, EndStep, Unchanged

-----------------------------------------------------------------------------
(* The PIN *)

LEMMA SetUserPinStep ==
  ASSUME IInv, NEW p \in PCs, NEW u \in Users, SetUserPin(p, u)
  PROVE  IInv'
<1> DEFINE d == [dev[u] EXCEPT !.pin = op[p].want]
<1>1. /\ op[p].kind = "pin" /\ Connected(p) /\ TakeStep(p, u) /\ UNCHANGED <<primary, cable, pc, job, count>>
      /\ dev' = [dev EXCEPT ![u] = d]
  BY DEF SetUserPin
<1>2. d \in AndroidUsers
  <2>1. op[p].want \in {Pin, None}
    BY <1>1 DEF IInv, OpsFit, OpFits
  <2> QED BY <2>1, RecordFacts DEF IInv, AndroidUsers
<1> HIDE DEF d
<1>3. dev' \in [Users -> AndroidUsers]
  BY <1>1, <1>2, UserFacts
<1> QED BY <1>1, <1>3, Unchanged, TakeGoes

\* Requests that end with nothing changed but the PC's own PIN.
LEMMA PlainEnds ==
  ASSUME IInv, NEW p \in PCs, TryFails(p) \/ TakeFails(p) \/ StorePin(p) \/ \E u \in Users : PinRefused(p, u)
  PROVE  IInv'
<1>1. op' = [op EXCEPT ![p] = Idle] /\ UNCHANGED <<dev, primary, cable, job, count>>
  BY DEF TryFails, TakeFails, StorePin, PinRefused, Ends
<1>2. /\ pc' \in [PCs -> Disks] /\ Exclusive'
      /\ \A q \in PCs : pc'[q].accounts = pc[q].accounts /\ pc'[q].held = pc[q].held
  <2>1. CASE UNCHANGED pc
    BY <2>1, Unchanged
  <2>2. CASE StorePin(p)
    <3>1. op[p].want \in {Pin, None} /\ pc' = [pc EXCEPT ![p].pin = op[p].want]
      BY <2>2 DEF StorePin, IInv, OpsFit, OpFits
    <3> QED BY <3>1, PinFacts
  <2> QED BY <2>1, <2>2 DEF TryFails, TakeFails, PinRefused
<1> QED BY <1>1, <1>2, EndStep, Unchanged DEF IInv, TypeOK

-----------------------------------------------------------------------------
(* The cable, restarts, hands on the phone *)

\* A request whose PC lost the phone, or whose backend stopped.
LEMMA DroppedFacts ==
  ASSUME IInv, NEW p \in PCs, Dropped(p)
  PROVE  /\ op' = [op EXCEPT ![p] = Idle] /\ pc' \in [PCs -> Disks] /\ Exclusive'
         /\ \A q \in PCs : pc'[q].accounts = pc[q].accounts /\ pc'[q].held = pc[q].held
<1>1. CASE op[p].kind = "setup"
  BY <1>1, StopFacts DEF Dropped
<1>2. CASE op[p].kind # "setup"
  BY <1>2, Unchanged DEF Dropped, Ends
<1> QED BY <1>1, <1>2

LEMMA RestartStep ==
  ASSUME IInv, NEW p \in PCs, Restart(p)
  PROVE  IInv'
<1>1. UNCHANGED <<dev, primary, cable>> /\ Dropped(p) /\ job' \in {job, None} /\ count' \in Counts
  BY CountFacts DEF Restart, IInv
<1> QED BY <1>1, DroppedFacts, EndStep DEF IInv, TypeOK

\* A request that the cable leaves while it waits goes on waiting.
LEMMA AwayFacts ==
  ASSUME IInv, NEW q \in PCs, Waits(q), op' = [op EXCEPT ![q].away = TRUE], UNCHANGED <<dev, primary>>
  PROVE  op' \in [PCs -> Operations] /\ OpFits(q)' /\ \A r \in PCs \ {q} : op'[r] = op[r]
<1> DEFINE o == [op[q] EXCEPT !.away = TRUE]
<1>1. op[q] \in Operations
  BY RecordFacts DEF IInv
<1>2. /\ o \in Operations /\ o.kind = op[q].kind /\ o.user = op[q].user /\ o.at = op[q].at /\ o.want = op[q].want
      /\ o.found = op[q].found /\ o.away = TRUE /\ op' = [op EXCEPT ![q] = o]
  BY <1>1 DEF Operations
<1> HIDE DEF o
<1>3. op'[q] = o /\ op' \in [PCs -> Operations] /\ \A r \in PCs \ {q} : op'[r] = op[r]
  BY <1>2 DEF IInv, TypeOK
<1>4. o.kind \in {"setup", "replace", "take"} /\ Waits(q)'
  BY <1>2, <1>3 DEF Waits
<1>5. OpFits(q)'
  <2>1. o.kind = "setup" => o.at \in {6, 8}
    BY <1>2, <1>4, StepsAre DEF Waits
  <2>2. /\ o.kind = "setup" => o.user \in Users /\ o.at > 0
        /\ o.kind = "replace" => o.user \in Users /\ o.want \in Proxies /\ o.at \in {0, 1}
        /\ o.kind \in {"take", "pin"} => o.want \in {Pin, None}
        /\ o.kind = "take" /\ o.user # None => o.found[o.user] \in Proxies
    BY <1>2 DEF IInv, OpsFit, OpFits
  <2> QED BY <1>2, <1>3, <1>4, <2>1, <2>2, StepsAre DEF OpFits
<1> QED BY <1>3, <1>5

\* What had the phone fails or waits, and the PC that gets it had nothing waiting but its own.
LEMMA MoveCableStep ==
  ASSUME IInv, NEW p \in PCs, MoveCable(p)
  PROVE  IInv'
<1>1. /\ UNCHANGED <<dev, primary>> /\ cable' = p /\ job' = None /\ count' \in Counts
      /\ cable \in PCs /\ cable # p
  BY CountFacts DEF MoveCable, Connected, IInv, TypeOK
<1>6. PICK c \in PCs : c = cable
  BY <1>1
<1>2. /\ pc' \in [PCs -> Disks] /\ Exclusive' /\ op' \in [PCs -> Operations]
      /\ \A q \in PCs \ {c} : op'[q] = op[q]
      /\ \/ op'[c] = Idle \/ OpFits(c)'
         \/ Assigns(c) /\ op'[c] = op[c]
  <2>1. CASE (op[c] = Idle \/ Assigns(c)) /\ UNCHANGED <<op, pc>>
    BY <2>1, Unchanged DEF IInv, TypeOK
  <2>2. CASE Waits(c) /\ op' = [op EXCEPT ![c].away = TRUE] /\ UNCHANGED pc
    BY <1>1, <2>2, AwayFacts, Unchanged DEF IInv, TypeOK
  <2>3. CASE Dropped(c)
    <3>1. op' = [op EXCEPT ![c] = Idle] /\ pc' \in [PCs -> Disks] /\ Exclusive'
      BY <1>1, <2>3, DroppedFacts
    <3> QED BY <1>1, <3>1, IdleFacts DEF IInv, TypeOK
  <2> QED BY <1>6, <2>1, <2>2, <2>3 DEF MoveCable
<1>3. TypeOK'
  BY <1>1, <1>2 DEF IInv, TypeOK, Counts
<1>4. OpsFit'
  <2> SUFFICES ASSUME NEW q \in PCs PROVE OpFits(q)'
    BY DEF OpsFit
  <2>1. CASE op'[q] = Idle
    BY <2>1, IdleFacts DEF OpFits
  <2>2. CASE op'[q] = op[q] /\ (op[q] = Idle \/ Assigns(q) \/ (Waits(q) /\ op[q].away) \/ q = p)
    BY <1>1, <2>2 DEF IInv, OpsFit, OpFits, Waits, Assigns, MayChange, Sealed
  <2>3. op[q] = Idle \/ Assigns(q) \/ (Waits(q) /\ op[q].away) \/ q = c
    BY <1>6 DEF IInv, OpsFit, OpFits
  <2> QED BY <1>2, <2>1, <2>2, <2>3
<1>5. JobFits'
  BY <1>1 DEF JobFits
<1> QED BY <1>2, <1>3, <1>4, <1>5 DEF IInv

LEMMA ByHandStep ==
  ASSUME IInv, NEW u \in Users, ByHand(u)
  PROVE  IInv'
<1>1. /\ job = None /\ \A p \in PCs : op[p] = Idle
      /\ UNCHANGED <<primary, cable, pc, op, job>> /\ count' \in Counts
  BY CountFacts DEF ByHand, IInv
<1>2. dev' \in [Users -> AndroidUsers]
  <2>1. \E d \in AndroidUsers : dev' = [dev EXCEPT ![u] = d]
    <3>1. /\ [FreshUser EXCEPT !.facebook = dev[u].facebook] \in AndroidUsers
          /\ [dev[u] EXCEPT !.lockdown = FALSE] \in AndroidUsers
          /\ [dev[u] EXCEPT !.facebook = FALSE] \in AndroidUsers
      BY RecordFacts DEF IInv, AndroidUsers
    <3> QED BY <3>1 DEF ByHand
  <2> QED BY <2>1, UserFacts
<1>3. TypeOK' /\ Exclusive' /\ JobFits'
  BY <1>1, <1>2 DEF IInv, TypeOK, Counts, Exclusive, Reserved, JobFits
<1>4. OpsFit'
  BY <1>1, IdleFacts DEF OpsFit, OpFits
<1> QED BY <1>3, <1>4 DEF IInv

-----------------------------------------------------------------------------
(* The invariant *)

LEMMA InitIInv == Init => IInv
<1> SUFFICES ASSUME Init PROVE IInv
  OBVIOUS
<1>1. cable \in PCs /\ op = [p \in PCs |-> Idle] /\ job = None /\ count \in Counts
  BY DEF Init, Counts
<1>2. /\ Pin \in {Pin, None} /\ FreshUser \in AndroidUsers /\ FreshPC \in Disks
      /\ None \notin Proxies /\ FreshPC.held = [u \in Users |-> None]
  BY RunFacts, StepsAre DEF FreshUser, FreshPC, AndroidUsers, Disks
<1>3. dev \in [Users -> AndroidUsers] /\ primary \in PCs \cup {None} /\ pc \in [PCs -> Disks] /\ Exclusive
  <2>1. CASE NewPhone
    BY <1>2, <2>1 DEF NewPhone, Exclusive, Reserved
  <2>2. ASSUME NEW p \in PCs, NEW u \in Users, NEW x \in Proxies, NEW pin \in {Pin, None}, SetUpBefore(p, u, x, pin)
        PROVE  /\ dev \in [Users -> AndroidUsers] /\ primary \in PCs \cup {None}
               /\ pc \in [PCs -> Disks] /\ Exclusive
    <3> DEFINE d == [FreshPC EXCEPT !.accounts = {u}, !.held[u] = x, !.pin = pin, !.setup[u] = Run("done", 1)]
               a == [agent |-> TRUE, vpn |-> TRUE, lockdown |-> TRUE, proxy |-> x, pin |-> pin,
                     details |-> TRUE, facebook |-> TRUE]
    <3>1. a \in AndroidUsers
      BY DEF AndroidUsers
    <3>2. d \in Disks /\ d.held = [FreshPC.held EXCEPT ![u] = x] /\ d.elsewhere = {}
      <4> DEFINE h == [FreshPC.held EXCEPT ![u] = x]
                 s == [FreshPC.setup EXCEPT ![u] = Run("done", 1)]
      <4>1. h \in [Users -> Proxies \cup {None}] /\ s \in [Users -> Runs]
        BY <1>2, RunFacts DEF Disks
      <4>2. d = [FreshPC EXCEPT !.accounts = {u}, !.held = h, !.pin = pin, !.setup = s]
        BY <1>2 DEF FreshPC
      <4>3. FreshPC.elsewhere = {}
        BY DEF FreshPC
      <4> HIDE DEF h, s
      <4>4. d \in Disks /\ d.held = h /\ d.elsewhere = {}
        BY <1>2, <4>1, <4>2, <4>3 DEF Disks
      <4> QED BY <4>4 DEF h
    <3>3. /\ dev = [v \in Users |-> IF v # u THEN FreshUser ELSE a] /\ primary = p
          /\ pc = [q \in PCs |-> IF q # p THEN FreshPC ELSE d]
      BY <2>2 DEF SetUpBefore
    <3> HIDE DEF a, d
    <3>4. dev \in [Users -> AndroidUsers] /\ primary \in PCs \cup {None} /\ pc \in [PCs -> Disks]
      BY <1>2, <3>1, <3>2, <3>3
    <3>5. \A q \in PCs : \A v \in Users : Reserved(pc[q], v)
      <4> SUFFICES ASSUME NEW q \in PCs, NEW v \in Users PROVE Reserved(pc[q], v)
        OBVIOUS
      <4>1. CASE q # p
        BY <1>2, <3>3, <4>1 DEF Reserved
      <4>2. CASE q = p
        BY <1>2, <3>2, <3>3, <4>2 DEF Reserved
      <4> QED BY <4>1, <4>2
    <3> QED BY <3>4, <3>5 DEF Exclusive
  <2> QED BY <2>1, <2>2 DEF Init
<1>4. TypeOK
  BY <1>1, <1>3, IdleFacts DEF TypeOK, Counts
<1>5. JobFits /\ OpsFit
  BY <1>1, IdleFacts DEF JobFits, OpsFit, OpFits
<1> QED BY <1>3, <1>4, <1>5 DEF IInv

LEMMA StepIInv == IInv /\ [Next]_vars => IInv'
<1> SUFFICES ASSUME IInv, [Next]_vars PROVE IInv'
  OBVIOUS
<1>1. CASE UNCHANGED vars
  BY <1>1 DEF vars, IInv, TypeOK, Exclusive, Reserved, JobFits, Sealed, OpsFit, OpFits, MayChange, Waits, Assigns
<1>2. CASE JobEnds \/ \E u \in Users : ByHand(u)
  BY <1>2, JobSteps, ByHandStep
<1>3. ASSUME NEW p \in PCs,
             \/ \E x \in Proxies : TakenElsewhere(p, x) \/ FreedElsewhere(p, x)
             \/ \E u \in Users, x \in Proxies : ImportUser(p, u, x)
             \/ \E u \in Users : \/ OpenForJob(p, u) \/ StartSetup(p, u) \/ ConfirmLogin(p, u)
                                 \/ ImportFromPhone(p, u)
             \/ SetupStep(p) \/ SetupFails(p) \/ SaveDetails(p)
      PROVE  IInv'
  BY <1>3, TakenStep, Imports, JobSteps, StartSetupStep, ConfirmStep, SetupGoes, SetupFailsStep, SaveStep
<1>4. ASSUME NEW p \in PCs,
             \/ \E u \in Users, x \in Proxies : ReplaceProxy(p, u, x)
             \/ \E pin \in {Pin, None}, forgot \in BOOLEAN : MakePrimary(p, pin, forgot)
             \/ \E pin \in {Pin, None} : SetPin(p, pin)
      PROVE  IInv'
  BY <1>4, Begins
<1>5. ASSUME NEW p \in PCs,
             \/ \E u \in Users : TakeExported(p, u) \/ TakeTries(p, u) \/ TakeMatched(p, u)
                                 \/ TakeNeedsProxy(p, u)
             \/ TakeFails(p) \/ Taken(p) \/ TryProxy(p) \/ TryFails(p) \/ Assign(p)
             \/ \E u \in Users : SetUserPin(p, u) \/ PinRefused(p, u)
             \/ StorePin(p) \/ MoveCable(p) \/ Restart(p)
      PROVE  IInv'
  BY <1>5, TakeExportedStep, TakeTriesStep, TakeMatchedStep, TakeNeedsProxyStep, TakenTurn, TryProxyStep, AssignStep,
     SetUserPinStep, PlainEnds, MoveCableStep, RestartStep
<1> QED BY <1>1, <1>2, <1>3, <1>4, <1>5 DEF Next

-----------------------------------------------------------------------------
(* What a step does to the phone *)

\* A change of an Android user that installs Facebook only behind its exit, and changes what is
\* kept only by right, or by the proxy of a replacement the cable left waiting.
Rightful(u, d) ==
  /\ d.facebook => dev[u].facebook \/ Sealed(u)
  /\ \/ <<d.proxy, d.pin, d.details>> = Kept(u)
     \/ ~d.agent \/ MayChange(cable) \/ op[cable].kind = "take"
     \/ WaitedWithReplacement(u) /\ d = [dev[u] EXCEPT !.proxy = op[cable].want]

LEMMA SetupChanges ==
  ASSUME IInv, NEW p \in PCs, op[p].kind = "setup", Connected(p), MayPass(p, op[p].user, Steps[op[p].at])
  PROVE  op[p].user \in Users /\ Rightful(op[p].user, Done(p, op[p].user, Steps[op[p].at]))
<1> DEFINE u == op[p].user
           i == op[p].at
           d == Done(p, u, Steps[i])
<1>1. u \in Users /\ i \in 1..10 /\ (i > 8 => Sealed(u)) /\ (i < 6 => MayChange(p)) /\ cable = p
  BY StepsAre, RecordFacts DEF IInv, OpsFit, OpFits, Operations, Connected
<1>2. /\ d.facebook => dev[u].facebook \/ i = 9
      /\ i # 5 => d.proxy = dev[u].proxy
      /\ d.pin = dev[u].pin /\ d.details = dev[u].details
  BY <1>1, DoneFacts DEF IInv
<1> HIDE DEF d
<1>3. Rightful(u, d)
  BY <1>1, <1>2 DEF Rightful, Kept
<1> QED BY <1>1, <1>3 DEF d

LEMMA PhoneChanges ==
  ASSUME IInv, [Next]_vars
  PROVE  UNCHANGED dev \/ \E u \in Users : \E d : dev' = [dev EXCEPT ![u] = d] /\ Rightful(u, d)
<1>1. ASSUME NEW p \in PCs, SetupStep(p) \/ SetupFails(p)
      PROVE  UNCHANGED dev \/ \E u \in Users : \E d : dev' = [dev EXCEPT ![u] = d] /\ Rightful(u, d)
  <2>1. CASE UNCHANGED dev
    BY <2>1
  <2>2. CASE /\ op[p].kind = "setup" /\ Connected(p) /\ MayPass(p, op[p].user, Steps[op[p].at])
             /\ dev' = [dev EXCEPT ![op[p].user] = Done(p, op[p].user, Steps[op[p].at])]
    BY <2>2, SetupChanges
  <2> QED BY <1>1, <2>1, <2>2 DEF SetupStep, SetupFails
<1>2. ASSUME NEW p \in PCs, SaveDetails(p)
      PROVE  UNCHANGED dev \/ \E u \in Users : \E d : dev' = [dev EXCEPT ![u] = d] /\ Rightful(u, d)
  <2> DEFINE u == op[p].user
  <2>1. u \in Users /\ dev[u] \in AndroidUsers /\ cable = p
    BY <1>2, RecordFacts DEF SaveDetails, IInv, OpsFit, OpFits, Connected
  <2>2. Details(p, u).facebook = dev[u].facebook
    BY <2>1 DEF Details, AndroidUsers
  <2>3. UNCHANGED dev \/ (MayChange(p) /\ dev' = [dev EXCEPT ![u] = Details(p, u)])
    BY <1>2 DEF SaveDetails
  <2> QED BY <2>1, <2>2, <2>3 DEF Rightful
<1>3. ASSUME NEW p \in PCs, NEW u \in Users, TakeMatched(p, u) \/ SetUserPin(p, u)
      PROVE  UNCHANGED dev \/ \E v \in Users : \E d : dev' = [dev EXCEPT ![v] = d] /\ Rightful(v, d)
  <2>1. cable = p /\ (op[p].kind = "take" \/ MayChange(p)) /\ dev[u] \in AndroidUsers
    BY <1>3, RecordFacts DEF TakeMatched, SetUserPin, IInv, OpsFit, OpFits, Connected
  <2>2. \E x, y : dev' = [dev EXCEPT ![u] = [dev[u] EXCEPT !.proxy = x, !.pin = y]]
    <3>1. dev[u] = [dev[u] EXCEPT !.proxy = dev[u].proxy, !.pin = dev[u].pin]
      BY <2>1 DEF AndroidUsers
    <3>2. CASE SetUserPin(p, u)
      <4>1. dev' = [dev EXCEPT ![u] = [dev[u] EXCEPT !.proxy = dev[u].proxy, !.pin = op[p].want]]
        BY <2>1, <3>2 DEF SetUserPin, AndroidUsers
      <4> QED BY <4>1
    <3>3. CASE TakeMatched(p, u) /\ HasRoom(p, u, op[p].found[u])
      <4>1. \E pin : dev' = [dev EXCEPT ![u] = [dev[u] EXCEPT !.proxy = op[p].found[u], !.pin = pin]]
        BY <3>3 DEF TakeMatched, IInv, TypeOK
      <4> QED BY <4>1
    <3>4. CASE TakeMatched(p, u) /\ ~HasRoom(p, u, op[p].found[u])
      <4>1. dev' = [dev EXCEPT ![u] = [dev[u] EXCEPT !.proxy = op[p].found[u], !.pin = dev[u].pin]]
        BY <2>1, <3>4 DEF TakeMatched, AndroidUsers
      <4> QED BY <4>1
    <3> QED BY <1>3, <3>2, <3>3, <3>4
  <2>3. PICK x, y : dev' = [dev EXCEPT ![u] = [dev[u] EXCEPT !.proxy = x, !.pin = y]]
    BY <2>2
  <2>4. Rightful(u, [dev[u] EXCEPT !.proxy = x, !.pin = y])
    BY <2>1 DEF Rightful, AndroidUsers
  <2> QED BY <2>3, <2>4
<1>4. ASSUME NEW p \in PCs, TryProxy(p)
      PROVE  UNCHANGED dev \/ \E u \in Users : \E d : dev' = [dev EXCEPT ![u] = d] /\ Rightful(u, d)
  <2> DEFINE u == op[p].user
  <2>1. cable = p /\ u \in Users /\ (MayChange(p) \/ WaitedWithReplacement(u)) /\ dev[u] \in AndroidUsers
    BY <1>4, RecordFacts DEF TryProxy, IInv, OpsFit, OpFits, Connected, WaitedWithReplacement, Operations
  <2>2. dev' = [dev EXCEPT ![u] = [dev[u] EXCEPT !.proxy = op[p].want]]
    BY <1>4 DEF TryProxy
  <2>3. Rightful(u, [dev[u] EXCEPT !.proxy = op[p].want])
    BY <2>1 DEF Rightful, AndroidUsers
  <2> QED BY <2>1, <2>2, <2>3
<1>5. ASSUME NEW u \in Users, ByHand(u)
      PROVE  UNCHANGED dev \/ \E v \in Users : \E d : dev' = [dev EXCEPT ![v] = d] /\ Rightful(v, d)
  <2>1. dev[u] \in AndroidUsers /\ FreshUser \in AndroidUsers /\ FreshUser.agent = FALSE
    BY RecordFacts DEF IInv, FreshUser
  <2>2. /\ Rightful(u, [FreshUser EXCEPT !.facebook = dev[u].facebook])
        /\ Rightful(u, [dev[u] EXCEPT !.lockdown = FALSE])
        /\ Rightful(u, [dev[u] EXCEPT !.facebook = FALSE])
    BY <2>1 DEF Rightful, Kept, AndroidUsers
  <2>3. \E d : dev' = [dev EXCEPT ![u] = d] /\ Rightful(u, d)
    BY <1>5, <2>2 DEF ByHand
  <2> QED BY <2>3
<1>6. \/ UNCHANGED dev
      \/ \E p \in PCs : \/ SetupStep(p) \/ SetupFails(p) \/ SaveDetails(p) \/ TryProxy(p)
                        \/ \E u \in Users : TakeMatched(p, u) \/ SetUserPin(p, u)
      \/ \E u \in Users : ByHand(u)
  <2>1. /\ UNCHANGED vars => UNCHANGED dev
        /\ JobEnds => UNCHANGED dev
    BY DEF vars, JobEnds
  <2>2. ASSUME NEW p \in PCs
        PROVE  /\ Taken(p) \/ TakeFails(p) \/ TryFails(p) \/ Assign(p) \/ StorePin(p) \/ MoveCable(p) \/ Restart(p) => UNCHANGED dev
               /\ \A x \in Proxies : TakenElsewhere(p, x) \/ FreedElsewhere(p, x) => UNCHANGED dev
               /\ \A pin, forgot : MakePrimary(p, pin, forgot) => UNCHANGED dev
               /\ \A pin : SetPin(p, pin) => UNCHANGED dev
    BY DEF Taken, TakeFails, TryFails, Assign, StorePin, MoveCable, Restart, TakenElsewhere, FreedElsewhere,
       MakePrimary, SetPin
  <2>3. ASSUME NEW p \in PCs, NEW u \in Users
        PROVE  /\ \/ OpenForJob(p, u) \/ StartSetup(p, u) \/ ConfirmLogin(p, u) \/ ImportFromPhone(p, u)
                  \/ TakeExported(p, u) \/ TakeTries(p, u) \/ TakeNeedsProxy(p, u) \/ PinRefused(p, u)
                  => UNCHANGED dev
               /\ \A x \in Proxies : ImportUser(p, u, x) \/ ReplaceProxy(p, u, x) => UNCHANGED dev
    BY DEF OpenForJob, StartSetup, ConfirmLogin, ImportFromPhone, TakeExported, TakeTries, TakeNeedsProxy, PinRefused,
       ImportUser, ReplaceProxy
  <2> QED BY <2>1, <2>2, <2>3 DEF Next
<1> QED BY <1>1, <1>2, <1>3, <1>4, <1>5, <1>6

-----------------------------------------------------------------------------
(* Theorems *)

\* IInv is inductive.
THEOREM Inductive == Spec => []IInv
<1>1. Init => IInv
  BY InitIInv
<1>2. IInv /\ [Next]_vars => IInv'
  BY StepIInv
<1> QED BY <1>1, <1>2, PTL DEF Spec

\* What the phone, the PCs' disks and the requests hold is always of its type.
THEOREM TypeCorrect == Spec => []TypeOK
<1>1. IInv => TypeOK
  BY DEF IInv
<1> QED BY <1>1, Inductive, PTL

\* A job runs through the exit its own PC reserved for its account, which no other account of that
\* PC has, and nothing changes that exit before it ends.
THEOREM JobHasItsExit == Spec => []JobExitIsItsOwn
<1>1. IInv => JobExitIsItsOwn
  BY DEF IInv, TypeOK, JobFits, Exclusive, Reserved, JobExitIsItsOwn, Sealed
<1> QED BY <1>1, Inductive, PTL

\* Facebook is installed only behind the companion app's tunnel, a proxy and the kill switch.
THEOREM FacebookLast == Spec => FacebookComesLast
<1>1. IInv /\ [Next]_vars => [\A u \in Users : dev'[u].facebook /\ ~dev[u].facebook => Sealed(u)]_vars
  <2> SUFFICES ASSUME IInv, [Next]_vars, NEW u \in Users, dev'[u].facebook, ~dev[u].facebook
               PROVE  Sealed(u)
    OBVIOUS
  <2>1. PICK v \in Users : \E e : dev' = [dev EXCEPT ![v] = e] /\ Rightful(v, e)
    BY PhoneChanges
  <2>2. PICK d : dev' = [dev EXCEPT ![v] = d] /\ Rightful(v, d)
    BY <2>1
  <2>3. v = u /\ dev'[u] = d
    BY <2>2 DEF IInv, TypeOK
  <2> QED BY <2>2, <2>3 DEF Rightful
<1> QED BY <1>1, Inductive, PTL DEF Spec, FacebookComesLast

\* What the phone keeps of an account is changed only by the PC it names, by anyone while it names
\* none, or by a takeover; a replacement that waited while the cable was away writes at most its proxy.
THEOREM NoOverwrite == Spec => OldPrimaryOverwritesNothing
<1>1. IInv /\ [Next]_vars =>
        [\A u \in Users : Kept(u)' # Kept(u) =>
           \/ ~dev'[u].agent \/ MayChange(cable) \/ op[cable].kind = "take"
           \/ WaitedWithReplacement(u) /\ dev'[u] = [dev[u] EXCEPT !.proxy = op[cable].want]]_vars
  <2> SUFFICES ASSUME IInv, [Next]_vars, NEW u \in Users, Kept(u)' # Kept(u)
               PROVE  \/ ~dev'[u].agent \/ MayChange(cable) \/ op[cable].kind = "take"
                      \/ WaitedWithReplacement(u) /\ dev'[u] = [dev[u] EXCEPT !.proxy = op[cable].want]
    OBVIOUS
  <2>1. PICK v \in Users : \E e : dev' = [dev EXCEPT ![v] = e] /\ Rightful(v, e)
    BY PhoneChanges DEF Kept
  <2>2. PICK d : dev' = [dev EXCEPT ![v] = d] /\ Rightful(v, d)
    BY <2>1
  <2>3. v = u /\ dev'[u] = d
    BY <2>2 DEF IInv, TypeOK, Kept
  <2> QED BY <2>2, <2>3 DEF Rightful, Kept
<1> QED BY <1>1, Inductive, PTL DEF Spec, OldPrimaryOverwritesNothing
=============================================================================
