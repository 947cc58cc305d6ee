------------------------------ MODULE PublishOnce ------------------------------
(***************************************************************************)
(* What one run of a publishing task promises to the queue: at most one    *)
(* publish click, announced on the record before it is sent, and a verdict *)
(* that lets the queue repeat the execution only when no click was sent.   *)
(***************************************************************************)
VARIABLES
  announced,  \* the record tells of a click
  clicked,    \* a click was sent
  verdict     \* what the queue keeps: none, repeatable or held

Init == announced = FALSE /\ clicked = FALSE /\ verdict = "none"

Announces == ~announced /\ announced' = TRUE /\ UNCHANGED <<clicked, verdict>>
Clicks == announced /\ ~clicked /\ clicked' = TRUE /\ UNCHANGED <<announced, verdict>>
Concludes ==
  /\ verdict = "none"
  /\ verdict' \in IF announced THEN {"held"} ELSE {"repeatable", "held"}
  /\ UNCHANGED <<announced, clicked>>

Next == (verdict = "none" /\ (Announces \/ Clicks)) \/ Concludes
Spec == Init /\ [][Next]_<<announced, clicked, verdict>>
=============================================================================
