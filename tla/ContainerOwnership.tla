------------------------- MODULE ContainerOwnership -------------------------
(***************************************************************************)
(* What the container registry promises its callers, without files,        *)
(* sweeps, retries or restarts.  Every profile has one container; the      *)
(* container has at most one holder, known by a token that is never given  *)
(* out twice.  A holder may use the container, may offer it to a named     *)
(* execution, and gives it up for good by closing; a container that was    *)
(* used is free again only after it has been closed.                       *)
(***************************************************************************)

CONSTANTS
  Profiles,     \* profiles, one container each
  Executions,   \* queue executions, manual runs and broadcasts
  Tokens,       \* ownership tokens
  NoHolder      \* the container is free

VARIABLES
  holder,       \* profile -> its holder
  issued        \* every token given out so far

Holders == [token : Tokens, execution : Executions,
            phase : {"held", "offered", "closing"}, used : BOOLEAN]

Init ==
  /\ holder = [p \in Profiles |-> NoHolder]
  /\ issued = {}

Take(p, t, e) ==
  /\ t \notin issued
  /\ \/ holder[p] = NoHolder
     \/ holder[p] # NoHolder /\ holder[p].phase = "offered"
                             /\ holder[p].execution = e
  /\ issued' = issued \cup {t}
  /\ holder' = [holder EXCEPT ![p] =
       [token |-> t, execution |-> e, phase |-> "held",
        used |-> holder[p] # NoHolder /\ holder[p].used]]

Use(p) ==
  /\ holder[p] # NoHolder /\ holder[p].phase = "held"
  /\ holder' = [holder EXCEPT ![p].used = TRUE]
  /\ UNCHANGED issued

Offer(p, e) ==
  /\ holder[p] # NoHolder /\ holder[p].phase = "held"
  /\ holder' = [holder EXCEPT ![p].phase = "offered", ![p].execution = e]
  /\ UNCHANGED issued

Close(p) ==
  /\ holder[p] # NoHolder
  /\ holder' = [holder EXCEPT ![p].phase = "closing"]
  /\ UNCHANGED issued

Free(p) ==
  /\ holder[p] # NoHolder
  /\ holder[p].used => holder[p].phase = "closing"
  /\ holder' = [holder EXCEPT ![p] = NoHolder]
  /\ UNCHANGED issued

Next ==
  \E p \in Profiles :
    \/ \E t \in Tokens, e \in Executions : Take(p, t, e)
    \/ Use(p) \/ Close(p) \/ Free(p)
    \/ \E e \in Executions : Offer(p, e)

vars == <<holder, issued>>
Spec == Init /\ [][Next]_vars
=============================================================================
