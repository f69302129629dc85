----------------------------- MODULE SdoClient -----------------------------
(***************************************************************************)
(* SdoClient of sdo.py: confirmed writes and reads of the sensor's object  *)
(* dictionary over a CAN bus that loses frames and a sensor that answers   *)
(* late.  A call is one download() or upload() on whichever thread makes   *)
(* it; calls of one thread follow each other, calls of several threads     *)
(* meet at _lock.  A frame carries the call it belongs to as a ghost: the  *)
(* code sees the object and the kind only.                                 *)
(*                                                                         *)
(* A request time-out may fire at any moment of the wait, since a sensor   *)
(* may answer at any time; the queue is a sequence per direction, as CAN   *)
(* delivers the frames of one identifier in order.                         *)
(***************************************************************************)
EXTENDS Naturals, Sequences, FiniteSets

CONSTANTS
    Calls,      \* the calls made during the life of the client
    NoCall,
    Requests,   \* what calls ask for: an object (index, sub-index) and a kind
    Retries     \* self.retries

ASSUME RetriesAssumption == Retries \in Nat
ASSUME NoCallAssumption == NoCall \notin Calls

Kinds == {"download", "upload"}

ASSUME RequestsAssumption ==
    Requests \subseteq [obj : {r.obj : r \in Requests}, kind : Kinds]

\* What parse_response can make of a frame; "garbage" raises SdoProtocolError.
Replies == [call : Calls, kind : Kinds \cup {"abort", "garbage"}]

VARIABLES
    req,        \* the request of each call
    pc,         \* where each call is
    lock,       \* the call that holds _lock
    tries,      \* requests handed to CanBus.send for each call
    toSensor,   \* requests on their way
    toHost,     \* answers on their way
    queue,      \* self._queue
    executed,   \* how often the sensor executed each call's request
    result,     \* how each call ended
    answer,     \* history: whose answer ended it
    timeouts    \* self.timeouts

vars == <<req, pc, lock, tries, toSensor, toHost, queue, executed, result, answer, timeouts>>
wire == <<toSensor, toHost, executed>>
outcome == <<result, answer>>

Holding == {"draining", "sending", "waiting"}

TypeOK ==
    /\ req \in [Calls -> Requests]
    /\ pc \in [Calls -> {"new", "locking", "done"} \cup Holding]
    /\ lock \in Calls \cup {NoCall}
    /\ tries \in [Calls -> 0 .. Retries + 1]
    /\ toSensor \in Seq(Calls)
    /\ toHost \in Seq(Replies)
    /\ queue \in Seq(Replies)
    /\ executed \in [Calls -> Nat]
    /\ result \in [Calls -> {"none", "ok", "abort", "protocol", "timeout", "bus"}]
    /\ answer \in [Calls -> Calls \cup {NoCall}]
    /\ timeouts \in Nat

Init ==
    /\ req \in [Calls -> Requests]
    /\ pc = [k \in Calls |-> "new"]
    /\ lock = NoCall
    /\ tries = [k \in Calls |-> 0]
    /\ toSensor = <<>> /\ toHost = <<>> /\ queue = <<>>
    /\ executed = [k \in Calls |-> 0]
    /\ result = [k \in Calls |-> "none"]
    /\ answer = [k \in Calls |-> NoCall]
    /\ timeouts = 0

-----------------------------------------------------------------------------
(* _transact *)

Step(k, from, to) ==
    /\ pc[k] = from
    /\ pc' = [pc EXCEPT ![k] = to]

Begin(k) ==
    /\ Step(k, "new", "locking")
    /\ UNCHANGED <<req, lock, tries, wire, queue, outcome, timeouts>>

\* Slip: no lock.
AcquireUnlocked(k) ==
    /\ Step(k, "locking", "draining")
    /\ lock' = k
    /\ UNCHANGED <<req, tries, wire, queue, outcome, timeouts>>

Acquire(k) ==
    /\ Step(k, "locking", "draining")
    /\ lock = NoCall
    /\ lock' = k
    /\ UNCHANGED <<req, tries, wire, queue, outcome, timeouts>>

\* One more attempt: throw away what was queued, count the transaction.
Drain(k) ==
    /\ Step(k, "draining", "sending")
    /\ queue' = <<>>
    /\ tries' = [tries EXCEPT ![k] = @ + 1]
    /\ UNCHANGED <<req, lock, wire, outcome, timeouts>>

SendRequest(k) ==
    /\ Step(k, "sending", "waiting")
    /\ toSensor' = Append(toSensor, k)
    /\ UNCHANGED <<req, lock, tries, toHost, executed, queue, outcome, timeouts>>

\* Slip: the lock survives the call.
ReturnLocked(k, r, whose) ==
    /\ pc' = [pc EXCEPT ![k] = "done"]
    /\ result' = [result EXCEPT ![k] = r]
    /\ answer' = [answer EXCEPT ![k] = whose]
    /\ UNCHANGED lock

\* The call ends: the lock is released, by `return' or by an exception.
Return(k, r, whose) ==
    /\ pc' = [pc EXCEPT ![k] = "done"]
    /\ lock' = NoCall
    /\ result' = [result EXCEPT ![k] = r]
    /\ answer' = [answer EXCEPT ![k] = whose]

\* CanBusError of send() is not caught: no retry.
SendRaises(k) ==
    /\ pc[k] = "sending"
    /\ Return(k, "bus", NoCall)
    /\ UNCHANGED <<req, tries, wire, queue, timeouts>>

\* Slips: one attempt too many, one too few.
TimeOutLate(k) ==
    /\ pc[k] = "waiting"
    /\ timeouts' = timeouts + 1
    /\ IF tries[k] > Retries + 1
       THEN Return(k, "timeout", NoCall)
       ELSE Step(k, "waiting", "draining") /\ UNCHANGED <<lock, outcome>>
    /\ UNCHANGED <<req, tries, wire, queue>>

TimeOutEarly(k) ==
    /\ pc[k] = "waiting"
    /\ timeouts' = timeouts + 1
    /\ IF tries[k] >= Retries
       THEN Return(k, "timeout", NoCall)
       ELSE Step(k, "waiting", "draining") /\ UNCHANGED <<lock, outcome>>
    /\ UNCHANGED <<req, tries, wire, queue>>

TimeOut(k) ==
    /\ pc[k] = "waiting"
    /\ timeouts' = timeouts + 1
    /\ IF tries[k] = Retries + 1
       THEN Return(k, "timeout", NoCall)
       ELSE Step(k, "waiting", "draining") /\ UNCHANGED <<lock, outcome>>
    /\ UNCHANGED <<req, tries, wire, queue>>

\* Slip: the object is not compared.
MatchesAnything(f, k) == f.kind # "garbage"

\* A frame that does not parse or is about another object is dropped.
Matches(f, k) == f.kind # "garbage" /\ req[f.call].obj = req[k].obj

SkipResponse(k) ==
    /\ pc[k] = "waiting"
    /\ queue # <<>>
    /\ ~Matches(Head(queue), k)
    /\ queue' = Tail(queue)
    /\ UNCHANGED <<req, pc, lock, tries, wire, outcome, timeouts>>

\* Slip: the kind is not checked.
TakeResponseOfAnyKind(k) ==
    /\ pc[k] = "waiting"
    /\ queue # <<>>
    /\ LET f == Head(queue) IN
          /\ Matches(f, k)
          /\ Return(k, IF f.kind = "abort" THEN "abort" ELSE "ok", f.call)
    /\ queue' = Tail(queue)
    /\ UNCHANGED <<req, tries, wire, timeouts>>

\* Any other frame ends the call; upload() and download() check its kind.
TakeResponse(k) ==
    /\ pc[k] = "waiting"
    /\ queue # <<>>
    /\ LET f == Head(queue) IN
          /\ Matches(f, k)
          /\ Return(k, IF f.kind = "abort" THEN "abort"
                       ELSE IF f.kind = req[k].kind THEN "ok" ELSE "protocol", f.call)
    /\ queue' = Tail(queue)
    /\ UNCHANGED <<req, tries, wire, timeouts>>

-----------------------------------------------------------------------------
(* The listener _on_frame, the bus and the sensor *)

Deliver ==
    /\ toHost # <<>>
    /\ queue' = Append(queue, Head(toHost))
    /\ toHost' = Tail(toHost)
    /\ UNCHANGED <<req, pc, lock, tries, toSensor, executed, outcome, timeouts>>

\* The sensor serves the oldest request: it executes and acknowledges it, or
\* refuses it, or answers in a form the client does not understand.
Serve ==
    /\ toSensor # <<>>
    /\ toSensor' = Tail(toSensor)
    /\ LET k == Head(toSensor) IN
          \E reply \in {req[k].kind, "abort", "garbage"} :
             /\ toHost' = Append(toHost, [call |-> k, kind |-> reply])
             /\ executed' = IF reply = req[k].kind
                            THEN [executed EXCEPT ![k] = @ + 1] ELSE executed
    /\ UNCHANGED <<req, pc, lock, tries, queue, outcome, timeouts>>

LoseRequest ==
    /\ toSensor # <<>>
    /\ toSensor' = Tail(toSensor)
    /\ UNCHANGED <<req, pc, lock, tries, toHost, queue, executed, outcome, timeouts>>

LoseResponse ==
    /\ toHost # <<>>
    /\ toHost' = Tail(toHost)
    /\ UNCHANGED <<req, pc, lock, tries, toSensor, queue, executed, outcome, timeouts>>

-----------------------------------------------------------------------------

\* What the thread that made the call does by itself once it called.
Proceed(k) ==
    \/ Acquire(k) \/ Drain(k) \/ SendRequest(k) \/ SendRaises(k)
    \/ SkipResponse(k) \/ TakeResponse(k)

Next ==
    \/ \E k \in Calls : Begin(k) \/ Proceed(k) \/ TimeOut(k)
    \/ Deliver \/ Serve \/ LoseRequest \/ LoseResponse

\* A thread that can run does run, and a deadline passes.  Nothing is asked
\* of the bus or of the sensor.
Spec ==
    /\ Init /\ [][Next]_vars
    /\ \A k \in Calls : WF_vars(Proceed(k)) /\ WF_vars(TimeOut(k))

-----------------------------------------------------------------------------
(* Properties *)

\* A call makes at most Retries + 1 requests, the sensor executes no more of
\* them, a time-out is reported after the last of them only, and a bus error
\* when the last of them was not sent.
RetryBound ==
    \A k \in Calls :
       /\ executed[k] <= tries[k]
       /\ tries[k] <= Retries + 1
       /\ result[k] = "timeout" => tries[k] = Retries + 1
       /\ result[k] = "bus" => executed[k] < tries[k]

\* As long as no wait has timed out, a call ends with its own answer, and
\* never because the answer was of the wrong kind.
FreshUnlessTimedOut ==
    timeouts = 0 =>
      \A k \in Calls : answer[k] \in {NoCall, k} /\ result[k] # "protocol"

\* Even a late answer is an answer to an equal request, that was executed.
OkIsSomeExecution ==
    \A k \in Calls : result[k] = "ok" =>
       req[answer[k]] = req[k] /\ executed[answer[k]] > 0

\* sdo.py:178: "stale frames are discarded".
StaleDiscarded == \A k \in Calls : answer[k] \in {NoCall, k}

\* Every call returns, whatever the bus and the sensor do.
CallReturns == \A k \in Calls : pc[k] = "locking" ~> pc[k] = "done"

-----------------------------------------------------------------------------
(* The contract *)

\* Acknowledgements of r that are on their way or queued.
Acks(s, r) == Cardinality({i \in DOMAIN s : s[i].kind = r.kind /\ req[s[i].call] = r})

Phase(k) ==
    IF pc[k] = "new" THEN "new"
    ELSE IF pc[k] = "locking" THEN "pending"
    ELSE IF pc[k] = "done" THEN "done" ELSE "active"

Phases == [k \in Calls |-> Phase(k)]
Credit == [r \in Requests |-> Acks(toHost, r) + Acks(queue, r)]

Contract == INSTANCE SdoContract WITH phase <- Phases, credit <- Credit

\* The client keeps the contract: one call at a time, every call returns, and
\* no acknowledgement is reported to two calls.
ContractKept == Contract!Spec
=============================================================================
