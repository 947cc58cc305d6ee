--------------------------- MODULE MCPostingQueue ---------------------------
(* Instances of PostingQueue for TLC. *)
EXTENDS PostingQueue

\* Two posts of one account, in the order of their batch.
OneProfile == [e \in Executions |-> 1]

\* Posts of different accounts.
OwnProfile == [e \in Executions |-> e]

\* Which states are followed further (every state reached is checked).  Behaviours
\* with crashes, commands and reviews run up to the first save that would set
\* another writer's record back; those without, through one such save and on to
\* the end.
NothingSetBack ==
  slow.lost = {} /\ (slow.job # Free => slow.job.copy = queue)
NoCommand == \A e \in Executions : ~queue[e].cancelAsked /\ ~queue[e].review
SetBackOnce == crashes = 0 /\ NoCommand /\ (slow.lost # {} => slow.job = Free)
Followed == NothingSetBack \/ SetBackOnce
=============================================================================
