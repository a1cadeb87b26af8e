------------------------------ MODULE Registry ------------------------------
(***************************************************************************)
(* What Server promises its application, seen from the callback and from   *)
(* find_link: a registry that maps a descriptor to the link attached under *)
(* it.  A link is attached at most once, under a free descriptor; it is    *)
(* detached only after that; a repeated DETACHED changes nothing, whatever *)
(* has been attached under the same descriptor since.  The registry stops  *)
(* changing when the forward loop has stopped or failed.                   *)
(***************************************************************************)
CONSTANTS Links, Tokens, None

VARIABLES
  owner,  \* the link attached under each descriptor
  life,   \* what the application has been told of each link
  phase   \* "serving", then "stopped", then "terminated"; or "failed"

registry == <<owner, life, phase>>

Init ==
  /\ owner = [t \in Tokens |-> None]
  /\ life  = [l \in Links |-> "new"]
  /\ phase = "serving"

Attach(l, t) ==
  /\ phase = "serving"
  /\ life[l] = "new" /\ owner[t] = None
  /\ life'  = [life EXCEPT ![l] = "attached"]
  /\ owner' = [owner EXCEPT ![t] = l]
  /\ UNCHANGED phase

Detach(l, t) ==
  /\ phase = "serving"
  /\ life[l] = "attached" /\ owner[t] = l
  /\ life'  = [life EXCEPT ![l] = "detached"]
  /\ owner' = [owner EXCEPT ![t] = None]
  /\ UNCHANGED phase

End ==
  /\ \/ phase = "serving" /\ phase' \in {"stopped", "failed"}
     \/ phase = "stopped" /\ phase' = "terminated"
  /\ UNCHANGED <<owner, life>>

Next == End \/ \E l \in Links, t \in Tokens : Attach(l, t) \/ Detach(l, t)

Spec == Init /\ [][Next]_registry
=============================================================================
