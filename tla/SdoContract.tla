---------------------------- MODULE SdoContract ----------------------------
(***************************************************************************)
(* What the SDO client promises its callers.  Calls are worked on one at a *)
(* time and each of them returns.  "ok" is backed by an execution of an    *)
(* equal request by the sensor that no other call was told "ok" for; which *)
(* call asked for that execution is not promised.                          *)
(***************************************************************************)
EXTENDS Naturals

CONSTANTS Calls, Requests

VARIABLES
    req,        \* the request of each call
    phase,      \* of each call: "new", "pending", "active", "done"
    result,     \* of each call: "none" until it is done
    credit      \* for each request: executions nobody was told of

vars == <<req, phase, result, credit>>

Results == {"ok", "abort", "protocol", "timeout", "bus"}

Init ==
    /\ req \in [Calls -> Requests]
    /\ phase = [k \in Calls |-> "new"]
    /\ result = [k \in Calls |-> "none"]
    /\ credit = [r \in Requests |-> 0]

\* Acknowledgements get lost, are thrown away, or answer another question.
Dropped ==
    \E c \in [Requests -> UNION {0 .. credit[r] : r \in Requests}] :
       credit' = c /\ \A r \in Requests : c[r] <= credit[r]

Begin(k) ==
    /\ phase[k] = "new"
    /\ phase' = [phase EXCEPT ![k] = "pending"]
    /\ UNCHANGED <<req, result, credit>>

Activate(k) ==
    /\ phase[k] = "pending"
    /\ \A j \in Calls : phase[j] # "active"
    /\ phase' = [phase EXCEPT ![k] = "active"]
    /\ UNCHANGED <<req, result, credit>>

Finish(k) ==
    /\ phase[k] = "active"
    /\ phase' = [phase EXCEPT ![k] = "done"]
    /\ UNCHANGED req
    /\ \E r \in Results :
          /\ result' = [result EXCEPT ![k] = r]
          /\ IF r = "ok"
             THEN credit[req[k]] > 0 /\ credit' = [credit EXCEPT ![req[k]] = @ - 1]
             ELSE Dropped

\* The sensor executes what some call asked for.
Execute(r) ==
    /\ \E k \in Calls : req[k] = r /\ phase[k] # "new"
    /\ credit' = [credit EXCEPT ![r] = @ + 1]
    /\ UNCHANGED <<req, phase, result>>

Forget == Dropped /\ UNCHANGED <<req, phase, result>>

Next ==
    \/ \E k \in Calls : Begin(k) \/ Activate(k) \/ Finish(k)
    \/ \E r \in Requests : Execute(r)
    \/ Forget

Spec ==
    /\ Init /\ [][Next]_vars
    /\ \A k \in Calls : WF_vars(Activate(k)) /\ WF_vars(Finish(k))
=============================================================================
