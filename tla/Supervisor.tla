----------------------------- MODULE Supervisor -----------------------------
(***************************************************************************)
(* What the owner of an SSM tunnel relies on: the session is tried until   *)
(* it is up, tried again when it drops, and ends for good, either because  *)
(* its owner stopped it or because it failed.  It never ends as stopped    *)
(* unless someone asked.  Tunnel implements this specification.            *)
(***************************************************************************)
VARIABLES
  phase,   \* "idle", "trying", "up", "stopped" or "failed"
  asked    \* the owner has asked for the end

vars == <<phase, asked>>

Init == phase = "idle" /\ asked = FALSE

Ask == asked' = TRUE /\ UNCHANGED phase

Try  == phase \in {"idle", "up"} /\ phase' = "trying" /\ UNCHANGED asked
Up   == phase = "trying" /\ phase' = "up" /\ UNCHANGED asked
Fail == phase \in {"trying", "up"} /\ phase' = "failed" /\ UNCHANGED asked
Stop == asked /\ phase \in {"idle", "trying", "up"} /\ phase' = "stopped" /\ UNCHANGED asked

Next == Ask \/ Try \/ Up \/ Fail \/ Stop

Spec == Init /\ [][Next]_vars
=============================================================================
