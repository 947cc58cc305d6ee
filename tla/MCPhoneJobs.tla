----------------------------- MODULE MCPhoneJobs -----------------------------
EXTENDS PhoneJobs
CONSTANTS a1, a2

\* After a crash or a cancellation nobody opens the live view any more.  Where a thread holds a copy
\* nothing of that kind happens and nobody asks for a job, views the phone or sets it up; one save
\* that sets records back is followed to the end.
Unattended == faults + asks = 0 /\ lock # Viewer /\ holder # Setup
NoneLost == \A a \in Accounts : lost[a] = 0
Followed ==
  /\ faults > 0 => lock # Viewer
  /\ (copies = {} /\ NoneLost) \/ (Unattended /\ (copies = {} \/ NoneLost))
==============================================================================
