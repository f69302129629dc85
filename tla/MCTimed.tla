------------------------------ MODULE MCTimed ------------------------------
(* Diagnostics and LineFollower share no state: one run looks at the one or  *)
(* at the other, and the one it does not look at stands still.               *)
EXTENDS Diagnostics, LineFollower

VARIABLE stage

TimedInit == DiagnosticsInit /\ FollowerInit /\ stage \in {"diagnostics", "follower"}

TimedNext ==
    /\ stage' = stage
    /\ \/ stage = "diagnostics" /\ DiagnosticsNext /\ UNCHANGED follower
       \/ stage = "follower" /\ FollowerNext /\ UNCHANGED diagnostics

TimedSpec == TimedInit /\ [][TimedNext]_<<diagnostics, follower, stage>>
=============================================================================
