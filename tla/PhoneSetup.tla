------------------------------ MODULE PhoneSetup ------------------------------
(***************************************************************************)
(* Setting a phone's accounts up and moving the phone between PCs:         *)
(* android_setup.py's run of steps, android_ownership.py's import,         *)
(* takeover, proxy replacement and PIN, android_network.py's verification  *)
(* and the proxy pool's reservations, against what the companion app of    *)
(* each Android user keeps (ControlProvider.kt, AccountStore.kt).          *)
(*                                                                         *)
(* `dev` and `primary` are on the phone, `pc` on the disk of each PC.  One *)
(* PC is connected at a time; moving the cable fails whatever the other    *)
(* was doing, except what waits for the phone and retries while adb fails: *)
(* a setup run at its kill switch or network check, a proxy about to be    *)
(* tried.  A proxy stands for its host, port and username.                 *)
(***************************************************************************)
EXTENDS Naturals, Sequences, FiniteSets

CONSTANTS
  Users,       \* the phone's Android users other than its owner
  PCs,
  Proxies,
  Pin,         \* the PIN an operator uses
  None,
  MaxOps,      \* bound: setup runs, takeovers, proxy and PIN changes
  MaxTaken,    \* bound: proxies taken by accounts that are not on this phone
  MaxMoves,    \* bound: times the cable moves to the other PC
  MaxFaults    \* bound: failed steps, backend restarts, changes made on the phone by hand

ASSUME SetupAssumption ==
  /\ {MaxOps, MaxTaken, MaxMoves, MaxFaults} \subseteq Nat
  /\ None \notin Users \cup PCs \cup Proxies \cup {Pin}

VARIABLES dev, primary, cable, pc, op, job, count

vars == <<dev, primary, cable, pc, op, job, count>>

\* The steps before the login, in the order of the code.
Steps == <<"phone_ready", "android_user", "companion_app", "allow_vpn", "proxy", "kill_switch",
           "phone_settings", "network", "facebook", "save_details">>
NetworkStep == CHOOSE i \in DOMAIN Steps : Steps[i] = "network"
KillSwitchStep == CHOOSE i \in DOMAIN Steps : Steps[i] = "kill_switch"

FreshUser == [agent |-> FALSE, vpn |-> FALSE, lockdown |-> FALSE, proxy |-> None, pin |-> None,
              details |-> FALSE, facebook |-> FALSE]
\* android_setup's state, and the step a failed run stopped at.
Run(state, step) == [state |-> state, step |-> step]
FreshPC == [accounts |-> {}, held |-> [u \in Users |-> None], usable |-> Proxies, elsewhere |-> {},
            pin |-> None, setup |-> [u \in Users |-> Run("not_started", 1)]]
\* A request.  A takeover keeps the proxies it read first; `away`: the cable left while it waited.
Idle == [kind |-> "none", user |-> None, at |-> 0, want |-> None, todo |-> {}, opened |-> {},
         found |-> [u \in Users |-> None], away |-> FALSE]

\* Each PC's pool knows the password of the proxies it bought; a phone may hold others.
\* The phone is new, or one PC has set one account up and may have given it a PIN.
NewPhone == dev = [u \in Users |-> FreshUser] /\ primary = None /\ pc = [p \in PCs |-> FreshPC]
SetUpBefore(p, u, x, pin) ==
  /\ dev = [v \in Users |-> IF v # u THEN FreshUser ELSE
              [agent |-> TRUE, vpn |-> TRUE, lockdown |-> TRUE, proxy |-> x, pin |-> pin,
               details |-> TRUE, facebook |-> TRUE]]
  /\ primary = p
  /\ pc = [q \in PCs |-> IF q # p THEN FreshPC ELSE
             [FreshPC EXCEPT !.accounts = {u}, !.held[u] = x, !.pin = pin, !.setup[u] = Run("done", 1)]]
Init ==
  /\ NewPhone \/ \E p \in PCs, u \in Users, x \in Proxies, pin \in {Pin, None} : SetUpBefore(p, u, x, pin)
  /\ cable \in PCs
  /\ op = [p \in PCs |-> Idle] /\ job = None
  /\ count = [ops |-> 0, taken |-> 0, moves |-> 0, faults |-> 0]

Counted(field, bound) == count[field] < bound /\ count' = [count EXCEPT ![field] = @ + 1]
Ends(p) == op' = [op EXCEPT ![p] = Idle]

\* phone_lock: no queued job has the phone and nothing else is switching it.
PhoneLock(p) == op[p] = Idle /\ job = None
Connected(p) == cable = p
\* ensure_primary: an unclaimed phone may be changed.
MayChange(p) == primary \in {p, None}

-----------------------------------------------------------------------------
(* The proxy pool, at the default limit of one account per proxy *)

Holders(p, x) == {u \in Users : pc[p].held[u] = x}
HasRoom(p, u, x) == x \notin pc[p].elsewhere /\ Holders(p, x) \subseteq {u}
Linked(p, u, x) == [pc EXCEPT ![p].held[u] = x, ![p].accounts = @ \cup {u}]

\* Accounts that are not on this phone take and give back proxies of the pool.
TakenElsewhere(p, x) ==
  /\ x \notin pc[p].elsewhere /\ Holders(p, x) = {}
  /\ pc' = [pc EXCEPT ![p].elsewhere = @ \cup {x}]
  /\ UNCHANGED <<dev, primary, cable, op, job>> /\ Counted("taken", MaxTaken)
FreedElsewhere(p, x) ==
  /\ x \in pc[p].elsewhere /\ pc' = [pc EXCEPT ![p].elsewhere = @ \ {x}]
  /\ UNCHANGED <<dev, primary, cable, op, job, count>>

\* import_user: an account for a free Android user, with a proxy of its own.
ImportUser(p, u, x) ==
  /\ Connected(p) /\ u \notin pc[p].accounts /\ HasRoom(p, u, x) /\ pc' = Linked(p, u, x)
  /\ UNCHANGED <<dev, primary, cable, op, job, count>>

-----------------------------------------------------------------------------
(* The network of an account *)

\* evaluate_status and evaluate_check.
\* Mutant: the proxy the tunnel uses is not compared with the reserved one.
AnyProxy(p, u) == dev[u].agent /\ dev[u].lockdown /\ dev[u].proxy # None
Verifies(p, u) ==
  /\ pc[p].held[u] # None /\ dev[u].agent /\ dev[u].lockdown /\ dev[u].proxy = pc[p].held[u]

\* hold_for_job, then open_account with job: switched to, isolated, its network checked.
\* A job that finds the phone switching, or its network wrong, gives the phone back.
OpenForJob(p, u) ==
  /\ Connected(p) /\ u \in pc[p].accounts /\ job = None /\ op[p] = Idle /\ Verifies(p, u) /\ job' = u
  /\ UNCHANGED <<dev, primary, cable, pc, op, count>>
JobEnds ==
  /\ job # None /\ job' = None
  /\ UNCHANGED <<dev, primary, cable, pc, op, count>>

-----------------------------------------------------------------------------
(* Setup runs *)

\* Mutant: Retry goes on from the step that failed.
FromTheFailure(p, u) == pc[p].setup[u].step
FirstStep(p, u) == 1
StartSetup(p, u) ==
  /\ Connected(p) /\ u \in pc[p].accounts /\ MayChange(p) /\ PhoneLock(p)
  /\ op' = [op EXCEPT ![p] = [Idle EXCEPT !.kind = "setup", !.user = u, !.at = FirstStep(p, u)]]
  /\ pc' = [pc EXCEPT ![p].setup[u] = Run("running", 1)]
  /\ UNCHANGED <<dev, primary, cable, job>> /\ Counted("ops", MaxOps)

\* What a step checks, and what it leaves in the Android user when it passes.
MayPass(p, u, step) ==
  CASE step = "allow_vpn" -> dev[u].agent
    [] step = "proxy" -> dev[u].agent /\ pc[p].held[u] \in pc[p].usable
    [] step = "kill_switch" -> dev[u].vpn
    [] step = "network" -> Verifies(p, u)
    [] OTHER -> TRUE
Done(p, u, step) ==
  CASE step = "companion_app" -> [dev[u] EXCEPT !.agent = TRUE]
    [] step = "allow_vpn" -> [dev[u] EXCEPT !.vpn = TRUE]
    [] step = "proxy" -> [dev[u] EXCEPT !.proxy = pc[p].held[u]]
    [] step = "kill_switch" -> [dev[u] EXCEPT !.lockdown = TRUE]
    [] step = "facebook" -> [dev[u] EXCEPT !.facebook = TRUE]
    [] OTHER -> dev[u]

\* _run: each step is marked running, done, and marked passed.
SetupStep(p) ==
  LET u == op[p].user IN
  /\ op[p].kind = "setup" /\ Connected(p) /\ op[p].at < Len(Steps) /\ MayPass(p, u, Steps[op[p].at])
  /\ dev' = [dev EXCEPT ![u] = Done(p, u, Steps[op[p].at])]
  /\ op' = [op EXCEPT ![p].at = @ + 1]
  /\ UNCHANGED <<primary, cable, pc, job, count>>
SetupStops(p) ==
  /\ Ends(p) /\ pc' = [pc EXCEPT ![p].setup[op[p].user] = Run("failed", op[p].at)]
\* A step fails, before or after the change it makes.
SetupFails(p) ==
  /\ op[p].kind = "setup" /\ SetupStops(p)
  /\ \/ UNCHANGED dev
     \/ /\ Connected(p) /\ MayPass(p, op[p].user, Steps[op[p].at])
        /\ dev' = [dev EXCEPT ![op[p].user] = Done(p, op[p].user, Steps[op[p].at])]
  /\ UNCHANGED <<primary, cable, job>>
  /\ IF Connected(p) /\ MayPass(p, op[p].user, Steps[op[p].at]) THEN Counted("faults", MaxFaults) ELSE UNCHANGED count

PinFits(p, u) == pc[p].pin = None \/ dev[u].pin \in {None, pc[p].pin}
Details(p, u) ==
  [dev[u] EXCEPT !.details = TRUE,
                 !.pin = IF pc[p].pin # None /\ PinFits(p, u) THEN pc[p].pin ELSE @]
Saved(p, u) == IF PinFits(p, u) THEN Run("waiting_login", 1) ELSE Run("failed", Len(Steps))
\* _save_details: an unclaimed phone is claimed, the details are written, the PIN is applied.
\* Mutant: the phone's primary is not read again before the details are written.
SavesAnyway(p) ==
  LET u == op[p].user IN
  /\ op[p].kind = "setup" /\ Connected(p) /\ op[p].at = Len(Steps)
  /\ primary' = (IF primary = None THEN p ELSE primary)
  /\ dev' = [dev EXCEPT ![u] = Details(p, u)] /\ Ends(p)
  /\ pc' = [pc EXCEPT ![p].setup[u] = Saved(p, u)]
  /\ UNCHANGED <<cable, job, count>>
SaveDetails(p) ==
  LET u == op[p].user IN
  /\ op[p].kind = "setup" /\ Connected(p) /\ op[p].at = Len(Steps)
  /\ IF ~MayChange(p) THEN SetupStops(p) /\ UNCHANGED <<dev, primary>>
     ELSE /\ primary' = p /\ dev' = [dev EXCEPT ![u] = Details(p, u)] /\ Ends(p)
          /\ pc' = [pc EXCEPT ![p].setup[u] = Saved(p, u)]
  /\ UNCHANGED <<cable, job, count>>

ConfirmLogin(p, u) ==
  /\ pc[p].setup[u].state = "waiting_login" /\ pc' = [pc EXCEPT ![p].setup[u] = Run("done", 1)]
  /\ UNCHANGED <<dev, primary, cable, op, job, count>>

-----------------------------------------------------------------------------
(* Another PC: import, takeover *)

\* read_user finds an account when its companion app has details or a proxy.
SetUpUsers == {u \in Users : dev[u].agent /\ (dev[u].details \/ dev[u].proxy # None)}
\* import_from_phone: the account is created, then its proxy reserved; without its password the
\* entry is a placeholder.
ImportFromPhone(p, u) ==
  /\ Connected(p) /\ u \in SetUpUsers \ pc[p].accounts
  /\ pc' = Linked(p, u, IF dev[u].proxy # None /\ HasRoom(p, u, dev[u].proxy) THEN dev[u].proxy ELSE None)
  /\ UNCHANGED <<dev, primary, cable, op, job, count>>

\* make_primary: every account is exported first; a PIN that does not open one stops it, unless the
\* operator forgot it.  A PIN that opened them all is kept.
MakePrimary(p, pin, forgot) ==
  LET opened == {u \in SetUpUsers : dev[u].pin \in {None, pin}} IN
  /\ Connected(p) /\ PhoneLock(p) /\ (forgot \/ opened = SetUpUsers)
  /\ op' = [op EXCEPT ![p] =
              [Idle EXCEPT !.kind = "take", !.want = IF opened = SetUpUsers THEN pin ELSE None,
                           !.todo = SetUpUsers, !.opened = opened, !.found = [u \in Users |-> dev[u].proxy]]]
  /\ UNCHANGED <<dev, primary, cable, pc, job>> /\ Counted("ops", MaxOps)
TakeStep(p, u) == op' = [op EXCEPT ![p].todo = @ \ {u}, ![p].user = None]
\* The accounts that may be next; one this PC does not have is imported first.
TakesNext(p) == IF op[p].kind = "take" /\ Connected(p) /\ op[p].user = None THEN op[p].todo \cap pc[p].accounts ELSE {}
\* _take_over_account: with the export, the proxy and its password are this PC's.
TakeExported(p, u) ==
  LET x == op[p].found[u] IN
  /\ u \in TakesNext(p) \cap op[p].opened
  /\ pc' = IF x # None /\ HasRoom(p, u, x) THEN [Linked(p, u, x) EXCEPT ![p].usable = @ \cup {x}] ELSE pc
  /\ TakeStep(p, u) /\ UNCHANGED <<dev, primary, cable, job, count>>
\* Without it, this PC's own entry of that proxy is compared, or tried once the VPN is up.
TakeTries(p, u) ==
  /\ u \in TakesNext(p) \ op[p].opened
  /\ op[p].found[u] \in pc[p].usable /\ HasRoom(p, u, op[p].found[u]) /\ op' = [op EXCEPT ![p].user = u]
  /\ UNCHANGED <<dev, primary, cable, pc, job, count>>
\* It works: it is reserved and the PIN cleared by it if adb lets it, unless it was taken meanwhile.
TakeMatched(p, u) ==
  LET x == op[p].found[u] IN
  /\ op[p].kind = "take" /\ Connected(p) /\ op[p].user = u
  /\ IF HasRoom(p, u, x)
       THEN /\ pc' = Linked(p, u, x) /\ TakeStep(p, u)
            /\ \E pin \in {None, dev[u].pin} : dev' = [dev EXCEPT ![u] = [@ EXCEPT !.proxy = x, !.pin = pin]]
       ELSE UNCHANGED pc /\ dev' = [dev EXCEPT ![u].proxy = x] /\ Ends(p)
  /\ UNCHANGED <<primary, cable, job, count>>
TakeNeedsProxy(p, u) ==
  /\ op[p].kind = "take" /\ Connected(p)
  /\ u \in TakesNext(p) \ op[p].opened \/ u = op[p].user
  /\ TakeStep(p, u) /\ UNCHANGED <<dev, primary, cable, pc, job, count>>
\* An adb error, or an account whose proxy is taken, stops it.
TakeFails(p) ==
  /\ op[p].kind = "take" /\ Ends(p) /\ UNCHANGED <<dev, primary, cable, pc, job, count>>
Taken(p) ==
  /\ op[p].kind = "take" /\ Connected(p) /\ op[p].todo = {} /\ Ends(p)
  /\ primary' = p /\ pc' = [pc EXCEPT ![p].pin = op[p].want]
  /\ UNCHANGED <<dev, cable, job, count>>

-----------------------------------------------------------------------------
(* Replacing a proxy *)

ReplaceProxy(p, u, x) ==
  /\ Connected(p) /\ u \in pc[p].accounts /\ MayChange(p) /\ PhoneLock(p)
  /\ x \in pc[p].usable /\ HasRoom(p, u, x)
  /\ op' = [op EXCEPT ![p] = [Idle EXCEPT !.kind = "replace", !.user = u, !.want = x]]
  /\ UNCHANGED <<dev, primary, cable, pc, job>> /\ Counted("ops", MaxOps)
\* tryConfig: the phone keeps the proxy if a reply comes through it.
TryProxy(p) ==
  /\ op[p].kind = "replace" /\ op[p].at = 0 /\ Connected(p) /\ dev[op[p].user].vpn
  /\ dev' = [dev EXCEPT ![op[p].user].proxy = op[p].want] /\ op' = [op EXCEPT ![p].at = 1]
  /\ UNCHANGED <<primary, cable, pc, job, count>>
TryFails(p) ==
  /\ op[p].kind = "replace" /\ op[p].at = 0 /\ Ends(p)
  /\ UNCHANGED <<dev, primary, cable, pc, job, count>>
\* assign_proxy_by_id, outside the phone lock, refuses a proxy taken meanwhile.
Assign(p) ==
  /\ op[p].kind = "replace" /\ op[p].at = 1 /\ Ends(p)
  /\ pc' = IF HasRoom(p, op[p].user, op[p].want) THEN Linked(p, op[p].user, op[p].want) ELSE pc
  /\ UNCHANGED <<dev, primary, cable, job, count>>

-----------------------------------------------------------------------------
(* The PIN *)

SetPin(p, pin) ==
  /\ Connected(p) /\ MayChange(p) /\ PhoneLock(p)
  /\ op' = [op EXCEPT ![p] = [Idle EXCEPT !.kind = "pin", !.want = pin, !.todo = SetUpUsers]]
  /\ UNCHANGED <<dev, primary, cable, pc, job>> /\ Counted("ops", MaxOps)
\* changePin, one Android user after another.
SetUserPin(p, u) ==
  /\ op[p].kind = "pin" /\ Connected(p) /\ u \in op[p].todo /\ dev[u].pin \in {None, pc[p].pin}
  /\ dev' = [dev EXCEPT ![u].pin = op[p].want] /\ TakeStep(p, u)
  /\ UNCHANGED <<primary, cable, pc, job, count>>
PinRefused(p, u) ==
  /\ op[p].kind = "pin" /\ u \in op[p].todo /\ dev[u].pin \notin {None, pc[p].pin} /\ Ends(p)
  /\ UNCHANGED <<dev, primary, cable, pc, job, count>>
StorePin(p) ==
  /\ op[p].kind = "pin" /\ op[p].todo = {} /\ Ends(p)
  /\ pc' = [pc EXCEPT ![p].pin = op[p].want]
  /\ UNCHANGED <<dev, primary, cable, job, count>>

-----------------------------------------------------------------------------
(* The cable, restarts, hands on the phone *)

\* Loops that sleep and ask again on an adb error: the kill switch, the network check and, before a
\* proxy is tried, _wait_for_vpn.
Waits(p) ==
  \/ op[p].kind = "setup" /\ op[p].at \in {KillSwitchStep, NetworkStep}
  \/ op[p].kind = "replace" /\ op[p].at = 0
  \/ op[p].kind = "take" /\ op[p].user # None
\* A proxy about to be assigned asks the phone nothing.
Assigns(p) == op[p].kind = "replace" /\ op[p].at = 1
Dropped(p) ==
  IF op[p].kind = "setup" THEN SetupStops(p) ELSE Ends(p) /\ UNCHANGED pc
MoveCable(p) ==
  /\ ~Connected(p) /\ cable' = p /\ job' = None
  /\ \/ (op[cable] = Idle \/ Assigns(cable)) /\ UNCHANGED <<op, pc>>
     \/ Waits(cable) /\ op' = [op EXCEPT ![cable].away = TRUE] /\ UNCHANGED pc
     \/ op[cable] # Idle /\ ~Assigns(cable) /\ ~Waits(cable) /\ Dropped(cable)
  /\ UNCHANGED <<dev, primary>> /\ Counted("moves", MaxMoves)
\* A restart: a step left marked running reads as failed.
Restart(p) ==
  /\ op[p] # Idle \/ (Connected(p) /\ job # None)
  /\ Dropped(p) /\ job' = IF Connected(p) THEN None ELSE job
  /\ UNCHANGED <<dev, primary, cable>> /\ Counted("faults", MaxFaults)
\* A person removes the companion app or Facebook, or turns the kill switch off, between runs.
ByHand(u) ==
  /\ job = None /\ \A p \in PCs : op[p] = Idle
  /\ \/ dev' = [dev EXCEPT ![u] = [FreshUser EXCEPT !.facebook = dev[u].facebook]]
     \/ dev' = [dev EXCEPT ![u].lockdown = FALSE]
     \/ dev' = [dev EXCEPT ![u].facebook = FALSE]
  /\ UNCHANGED <<primary, cable, pc, op, job>> /\ Counted("faults", MaxFaults)

Next ==
  \/ \E p \in PCs :
       \/ \E x \in Proxies : TakenElsewhere(p, x) \/ FreedElsewhere(p, x)
       \/ \E u \in Users, x \in Proxies : ImportUser(p, u, x) \/ ReplaceProxy(p, u, x)
       \/ \E u \in Users : OpenForJob(p, u) \/ StartSetup(p, u) \/ ConfirmLogin(p, u) \/ ImportFromPhone(p, u)
       \/ SetupStep(p) \/ SetupFails(p) \/ SaveDetails(p)
       \/ \E pin \in {Pin, None}, forgot \in BOOLEAN : MakePrimary(p, pin, forgot)
       \/ \E u \in Users : TakeExported(p, u) \/ TakeTries(p, u) \/ TakeMatched(p, u) \/ TakeNeedsProxy(p, u)
       \/ TakeFails(p) \/ Taken(p) \/ TryProxy(p) \/ TryFails(p) \/ Assign(p)
       \/ \E pin \in {Pin, None} : SetPin(p, pin)
       \/ \E u \in Users : SetUserPin(p, u) \/ PinRefused(p, u)
       \/ StorePin(p) \/ MoveCable(p) \/ Restart(p)
  \/ JobEnds
  \/ \E u \in Users : ByHand(u)

Spec == Init /\ [][Next]_vars

-----------------------------------------------------------------------------
(* Properties *)

AndroidUsers == [agent : BOOLEAN, vpn : BOOLEAN, lockdown : BOOLEAN, proxy : Proxies \cup {None},
                 pin : {Pin, None}, details : BOOLEAN, facebook : BOOLEAN]
Runs == [state : {"not_started", "running", "failed", "waiting_login", "done"}, step : 1..Len(Steps)]
Disks == [accounts : SUBSET Users, held : [Users -> Proxies \cup {None}], usable : SUBSET Proxies,
          elsewhere : SUBSET Proxies, pin : {Pin, None}, setup : [Users -> Runs]]
Operations == [kind : {"none", "setup", "take", "replace", "pin"}, user : Users \cup {None},
               at : 0..Len(Steps), want : Proxies \cup {Pin, None},
               todo : SUBSET Users, opened : SUBSET Users,
               found : [Users -> Proxies \cup {None}], away : BOOLEAN]
TypeOK ==
  /\ dev \in [Users -> AndroidUsers] /\ primary \in PCs \cup {None} /\ cable \in PCs
  /\ pc \in [PCs -> Disks] /\ op \in [PCs -> Operations] /\ job \in Users \cup {None}
  /\ count \in [ops : 0..MaxOps, taken : 0..MaxTaken, moves : 0..MaxMoves, faults : 0..MaxFaults]

\* Facebook is installed in an Android user only behind its companion app's tunnel, a proxy and the
\* kill switch, whatever run failed before and whatever was changed on the phone meanwhile
\* (android_setup.py: "so no Facebook traffic can leave through the phone's own network").
Sealed(u) == dev[u].agent /\ dev[u].lockdown /\ dev[u].proxy # None
FacebookComesLast == [][\A u \in Users : dev'[u].facebook /\ ~dev[u].facebook => Sealed(u)]_vars

\* A job runs only through the exit its own PC reserved for the account, which no other account of
\* that PC has, and nothing changes that exit until the job is over (proxy_service.py's limit of one
\* account per proxy; open_account, phone_lock, replace_proxy).
JobExitIsItsOwn ==
  job # None =>
    /\ Sealed(job) /\ dev[job].proxy = pc[cable].held[job]
    /\ dev[job].proxy \notin pc[cable].elsewhere
    /\ \A v \in Users \ {job} : pc[cable].held[v] # dev[job].proxy

\* What the phone keeps of an account (proxy, PIN, details) is changed only by the PC the phone
\* names, by anyone while it names none, or by a takeover: the old primary, back on the cable with
\* a setup run still waiting, overwrites nothing (docs/ANDROID_DEVICE_PLAN.md, flow 4).  What it may
\* still do is try the proxy of a replacement it waits with: replace_proxy reads the primary once,
\* before _wait_for_vpn.
Kept(u) == <<dev[u].proxy, dev[u].pin, dev[u].details>>
WaitedWithReplacement(u) == op[cable].kind = "replace" /\ op[cable].user = u /\ op[cable].away
OldPrimaryOverwritesNothing ==
  [][\A u \in Users : Kept(u)' # Kept(u) =>
       \/ ~dev'[u].agent \/ MayChange(cable) \/ op[cable].kind = "take"
       \/ WaitedWithReplacement(u) /\ dev'[u] = [dev[u] EXCEPT !.proxy = op[cable].want]]_vars
=============================================================================
