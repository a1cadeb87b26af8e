------------------------------ MODULE Sessions ------------------------------
(***************************************************************************)
(* What Client promises its application about its connections: sessions    *)
(* that never overlap, each of them told to the application once, in the   *)
(* order they were opened, and none opened once the client has finished.   *)
(* An application may learn of a session when it is long over.             *)
(***************************************************************************)
EXTENDS Naturals

VARIABLES
  opened,   \* how many sessions there have been
  live,     \* the last of them has a task running
  told,     \* how many the application has been told of
  finished  \* no session will follow

sessions == <<opened, live, told, finished>>

Init == opened = 0 /\ live = FALSE /\ told = 0 /\ finished = FALSE

Open ==
  /\ ~live /\ ~finished
  /\ opened' = opened + 1 /\ live' = TRUE
  /\ UNCHANGED <<told, finished>>

Tell ==
  /\ told < opened
  /\ told' = told + 1
  /\ UNCHANGED <<opened, live, finished>>

Close ==
  /\ live /\ live' = FALSE
  /\ UNCHANGED <<opened, told, finished>>

Finish ==
  /\ ~finished /\ finished' = TRUE
  /\ UNCHANGED <<opened, live, told>>

Next == Open \/ Tell \/ Close \/ Finish

Spec == Init /\ [][Next]_sessions
=============================================================================
