----------------------------- MODULE HandleLife -----------------------------
(***************************************************************************)
(* What CanBus promises about python-can Bus objects: each is opened,      *)
(* installed as the current bus, retired and shut down, in this order and  *)
(* each step once; at most one is installed at a time; and a retired one   *)
(* is shut down in the end.                                                *)
(***************************************************************************)
CONSTANT Handles

VARIABLE stage      \* where each object is in its life

Stages == {"free", "opened", "installed", "retired"}

Init == stage = [h \in Handles |-> "free"]

Move(h, from, to) ==
    /\ stage[h] = from
    /\ stage' = [stage EXCEPT ![h] = to]

Open(h)     == Move(h, "free", "opened")
Install(h)  == Move(h, "opened", "installed") /\ \A g \in Handles : stage[g] # "installed"
Retire(h)   == Move(h, "installed", "retired")
Shut(h)     == Move(h, "retired", "free")

Next == \E h \in Handles : Open(h) \/ Install(h) \/ Retire(h) \/ Shut(h)

Spec == Init /\ [][Next]_stage /\ \A h \in Handles : WF_stage(Shut(h))
=============================================================================
