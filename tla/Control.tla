------------------------------ MODULE Control ------------------------------
(***************************************************************************)
(* The control path of driver.py, composed with the bus it runs on: the    *)
(* state listener that starts a helper thread per connection, the helpers  *)
(* that write the TPDO periods, the zero service of the executor, and the  *)
(* destruction of the node.  Every step of CanBus is a step here; helpers  *)
(* and service are its senders, the node's main thread is its owner.       *)
(*                                                                         *)
(* While the executor serves Zero, Owner stays at "running".  Of an SDO    *)
(* transaction (SdoClient.tla has its details) there remain the lock, the  *)
(* attempts, and that an answer comes through the handle the request went  *)
(* out on, or not at all.  A wait may end at any moment: the code goes by  *)
(* the clock, and what an answer does that comes after its attempt is the  *)
(* subject of SdoClient.tla.  Here it is one more frame that changes       *)
(* nothing.  Names of helpers are used again when they end.                *)
(***************************************************************************)
EXTENDS CanBus

CONSTANTS
    Zero,           \* the zero service
    Nobody,         \* no holder of the SDO lock
    Periods,        \* the TPDOs with a period > 0, by number
    Retries,        \* SdoClient.retries
    MaxFailures     \* bound on failed sends of a good handle, unplugs, power cuts

ASSUME ControlAssumption ==
    /\ Zero \in Senders
    /\ Nobody \notin Senders
    /\ Periods \subseteq 1 .. 3
    /\ Retries \in Nat
    /\ MaxFailures \in Nat

Helpers == Senders \ {Zero}

VARIABLES
    place,      \* where each helper and the service is
    todo,       \* the TPDOs a helper has still to write
    sdoLock,    \* SdoClient._lock: its holder
    attempts,   \* requests the holder has handed to send()
    answer,     \* what comes back to the holder, and the handle it comes through
    mood,       \* what the sensor does with a request
    ram,        \* the periods in its RAM
    cut,        \* history: the sensor was switched off
    blamed,     \* sdo_errors > 0
    closing,    \* self._closing
    spawning,   \* threads in _on_bus_state that found the node not closing
    failures    \* counted against MaxFailures

sensor  == <<mood, ram, cut>>
client  == <<place, todo, sdoLock, attempts, answer, blamed>>
control == <<client, sensor, closing, spawning, failures>>
all     == <<vars, control>>

Places == {"none", "locking", "attempt", "calling", "waiting", "raising"}
Moods == {"answers", "refuses", "silent"}
Silence == [kind |-> "none", via |-> NoBus]

NodeTypeOK ==
    /\ place \in [Senders -> Places]
    /\ todo \in [Senders -> SUBSET Periods]
    /\ sdoLock \in Senders \cup {Nobody}
    /\ attempts \in 0 .. Retries + 1
    /\ answer \in [kind : {"none", "ok", "abort"}, via : Handles \cup {NoBus}]
    /\ mood \in Moods
    /\ ram \subseteq Periods
    /\ cut \in BOOLEAN
    /\ blamed \in BOOLEAN
    /\ closing \in BOOLEAN
    /\ spawning \subseteq {Owner, Reader}
    /\ failures \in 0 .. MaxFailures

ControlTypeOK == TypeOK /\ NodeTypeOK

ControlInit ==
    /\ Init
    /\ place = [s \in Senders |-> "none"]
    /\ todo = [s \in Senders |-> {}]
    /\ sdoLock = Nobody
    /\ attempts = 0
    /\ answer = Silence
    /\ mood \in Moods
    /\ ram = {}
    /\ cut = FALSE
    /\ blamed = FALSE
    /\ closing = FALSE
    /\ spawning = {}
    /\ failures = 0

Move(s, p) == place' = [place EXCEPT ![s] = p]
Fail == failures < MaxFailures /\ failures' = failures + 1

-----------------------------------------------------------------------------
(* _on_bus_state, called by _open *)

\* The test of _closing.
HearUp(t) ==
    /\ At(t, "tellUp")
    /\ t \notin spawning
    /\ ~closing
    /\ Periods # {}
    /\ spawning' = spawning \cup {t}
    /\ UNCHANGED <<vars, client, sensor, closing, failures>>

\* Slip: only the connection made at start-up has its helper.
SpawnAtStartOnly(t) ==
    /\ t \in spawning
    /\ NotifyUp(t)
    /\ IF t = Owner
       THEN \E h \in Helpers :
               /\ place[h] = "none"
               /\ Move(h, "locking")
               /\ todo' = [todo EXCEPT ![h] = Periods]
       ELSE UNCHANGED <<place, todo>>
    /\ spawning' = spawning \ {t}
    /\ UNCHANGED <<sdoLock, attempts, answer, blamed, sensor, closing, failures>>

\* The start of a helper thread.  That the listener waits for a free name is
\* the bound of the model, never of driver.py:161, which starts the thread at
\* once: executions with more helpers alive than there are names are left out.
TellUpAndSpawn(t) ==
    /\ t \in spawning
    /\ NotifyUp(t)
    /\ \E h \in Helpers :
          /\ place[h] = "none"
          /\ Move(h, "locking")
          /\ todo' = [todo EXCEPT ![h] = Periods]
    /\ spawning' = spawning \ {t}
    /\ UNCHANGED <<sdoLock, attempts, answer, blamed, sensor, closing, failures>>

TellUpOnly(t) ==
    /\ t \notin spawning
    /\ closing \/ Periods = {}
    /\ NotifyUp(t)
    /\ UNCHANGED control

-----------------------------------------------------------------------------
(* Calls: _apply_tpdo_periods of a helper, _handle_zero of the executor *)

CallZero ==
    /\ At(Owner, "running")
    /\ ~closing
    /\ place[Zero] = "none"
    /\ Move(Zero, "locking")
    /\ UNCHANGED <<vars, todo, sdoLock, attempts, answer, blamed, sensor, closing,
                   spawning, failures>>

Acquire(s) ==
    /\ place[s] = "locking"
    /\ sdoLock = Nobody
    /\ sdoLock' = s
    /\ attempts' = 0
    /\ Move(s, "attempt")
    /\ UNCHANGED <<vars, todo, answer, blamed, sensor, closing, spawning, failures>>

\* One more attempt: the queue is drained and send() is called.
Attempt(s) ==
    /\ place[s] = "attempt"
    /\ CallSend(s)
    /\ attempts' = attempts + 1
    /\ answer' = Silence
    /\ Move(s, "calling")
    /\ UNCHANGED <<todo, sdoLock, blamed, sensor, closing, spawning, failures>>

FetchBus(s) ==
    /\ FetchToSend(s)
    /\ Move(s, IF bus = NoBus THEN "raising" ELSE "calling")
    /\ UNCHANGED <<todo, sdoLock, attempts, answer, blamed, sensor, closing,
                   spawning, failures>>

\* Of the numbers left, the one written next: the periods go out sorted.
Current(s) == {p \in todo[s] : \A q \in todo[s] : p <= q}

\* An answer on its way, through the handle the request went out on.
Replied(s, kind) == answer' = [kind |-> kind, via |-> held[s]]

\* The request goes out; a sensor that is on does or refuses what it says.
Request(s) ==
    /\ Send(s)
    /\ Move(s, "waiting")
    /\ \/ mood = "silent" /\ UNCHANGED <<answer, ram>>
       \/ mood = "refuses" /\ Replied(s, "abort") /\ UNCHANGED ram
       \/ mood = "answers" /\ Replied(s, "ok") /\ ram' = ram \cup Current(s)
    /\ UNCHANGED <<mood, cut, todo, sdoLock, attempts, blamed, closing, spawning, failures>>

\* CanBusError: no retry, after the _close that goes with it.
RequestFails(s) ==
    /\ SendFails(s)
    /\ Move(s, "raising")
    /\ IF held[s] \in good THEN Fail ELSE UNCHANGED failures
    /\ UNCHANGED <<todo, sdoLock, attempts, answer, blamed, sensor, closing, spawning>>

\* The call ends; a helper goes on with its next TPDO or ends.
Finish(s) ==
    /\ sdoLock' = Nobody
    /\ todo' = [todo EXCEPT ![s] = @ \ Current(s)]
    /\ Move(s, IF todo[s] \ Current(s) = {} THEN "none" ELSE "locking")

\* Slip: a bus error ends the helper.
RaiseAndQuit(s) ==
    /\ place[s] = "raising"
    /\ At(s, "idle")
    /\ sdoLock' = Nobody
    /\ todo' = [todo EXCEPT ![s] = {}]
    /\ Move(s, "none")
    /\ UNCHANGED <<vars, blamed, attempts, answer, sensor, closing, spawning, failures>>

\* Slip: the lock survives a bus error.
RaiseLocked(s) ==
    /\ place[s] = "raising"
    /\ At(s, "idle")
    /\ blamed' = TRUE
    /\ todo' = [todo EXCEPT ![s] = {}]
    /\ Move(s, "none")
    /\ UNCHANGED <<vars, sdoLock, attempts, answer, sensor, closing, spawning, failures>>

Raise(s) ==
    /\ place[s] = "raising"
    /\ At(s, "idle")
    /\ blamed' = TRUE
    /\ Finish(s)
    /\ UNCHANGED <<vars, attempts, answer, sensor, closing, spawning, failures>>

\* The reader hands the answer over.
TakeAnswer(s) ==
    /\ place[s] = "waiting"
    /\ answer.via = held[Reader]
    /\ Receive
    /\ blamed' = (blamed \/ answer.kind = "abort")
    /\ answer' = Silence
    /\ Finish(s)
    /\ UNCHANGED <<attempts, sensor, closing, spawning, failures>>

\* Every other frame, an answer nobody waits for any more among them.
ReceiveOther ==
    /\ Receive
    /\ UNCHANGED control

\* Slip: one attempt too many.
RetryOnceMore(s) ==
    /\ place[s] = "waiting"
    /\ attempts <= Retries + 1
    /\ Move(s, "attempt")
    /\ UNCHANGED <<vars, todo, sdoLock, attempts, answer, blamed, sensor, closing,
                   spawning, failures>>

\* The deadline of the attempt passes, whatever is on its way.
Retry(s) ==
    /\ place[s] = "waiting"
    /\ attempts <= Retries
    /\ Move(s, "attempt")
    /\ UNCHANGED <<vars, todo, sdoLock, attempts, answer, blamed, sensor, closing,
                   spawning, failures>>

GiveUp(s) ==
    /\ place[s] = "waiting"
    /\ attempts > Retries
    /\ blamed' = TRUE
    /\ Finish(s)
    /\ UNCHANGED <<vars, attempts, answer, sensor, closing, spawning, failures>>

-----------------------------------------------------------------------------
(* destroy_node *)

\* The executor stopped spinning between two calls, or an interrupt broke off
\* the wait of a zero call; the node is closing before anything else happens.
BeginDestroy ==
    /\ pc[Owner] \in {"constructed", "running"}
    /\ ~closing
    /\ place[Zero] \in {"none", "locking", "waiting"}
    /\ closing' = TRUE
    /\ Move(Zero, "none")
    /\ sdoLock' = IF sdoLock = Zero THEN Nobody ELSE sdoLock
    /\ UNCHANGED <<vars, todo, attempts, answer, blamed, sensor, spawning, failures>>

StopBus ==
    /\ closing
    /\ RequestStop
    /\ UNCHANGED control

-----------------------------------------------------------------------------
(* The rest of the bus, and what comes from outside *)

StartBus ==
    /\ ~closing
    /\ Start
    /\ At(Owner, "opening")'
    /\ UNCHANGED control

\* With the handle go the answers that would come through it.
ShutdownBus(t) ==
    /\ Shutdown(t)
    /\ answer' = IF answer.via = held[t] THEN Silence ELSE answer
    /\ UNCHANGED <<place, todo, sdoLock, attempts, blamed, sensor, closing,
                   spawning, failures>>

OpenCall(t) ==
    \/ HearUp(t) \/ TellUpAndSpawn(t) \/ TellUpOnly(t)
    \/ (OpenDevice(t) \/ OpenFails(t) \/ StoreHandle(t) \/ SetConnected(t)) /\ UNCHANGED control

CloseCall(t) ==
    \/ ShutdownBus(t)
    \/ (TakeHandle(t) \/ TestConnected(t) \/ ClearConnected(t) \/ NotifyDown(t)) /\ UNCHANGED control

UnplugAdapter ==
    /\ Unplug
    /\ Fail
    /\ answer' = Silence
    /\ UNCHANGED <<place, todo, sdoLock, attempts, blamed, sensor, closing, spawning>>

\* RAM and what was to be sent are lost.
PowerOff ==
    /\ mood # "silent"
    /\ Fail
    /\ mood' = "silent"
    /\ ram' = {}
    /\ cut' = TRUE
    /\ answer' = Silence
    /\ UNCHANGED <<vars, place, todo, sdoLock, attempts, blamed, closing, spawning>>

PowerOn ==
    /\ mood = "silent"
    /\ mood' = "answers"
    /\ UNCHANGED <<vars, ram, cut, client, closing, spawning, failures>>

-----------------------------------------------------------------------------

MainStep ==
    \/ (SpawnReader \/ JoinReader \/ JoinTimesOut) /\ UNCHANGED control
    \/ StopBus \/ OpenCall(Owner) \/ CloseCall(Owner)

LoopStep ==
    \/ (CheckStop \/ FetchToOpen \/ FetchToReceive \/ ReceiveFails \/ BackOff) /\ UNCHANGED control
    \/ ReceiveOther \/ OpenCall(Reader) \/ CloseCall(Reader)
    \/ \E s \in Senders : TakeAnswer(s)

CallStep(s) ==
    \/ Attempt(s) \/ FetchBus(s) \/ Request(s) \/ RequestFails(s) \/ Raise(s)
    \/ Retry(s) \/ GiveUp(s) \/ CloseCall(s)

ControlNext ==
    \/ StartBus \/ BeginDestroy \/ MainStep
    \/ LoopStep
    \/ CallZero \/ \E s \in Senders : Acquire(s) \/ CallStep(s)
    \/ UnplugAdapter \/ (Replug /\ UNCHANGED control)
    \/ PowerOff \/ PowerOn

\* Threads run, and a thread that waits for the lock gets it one day although
\* the zero service takes it again and again.
ControlFairness ==
    /\ WF_all(MainStep)
    /\ WF_all(LoopStep)
    /\ \A s \in Senders : WF_all(CallStep(s)) /\ SF_all(Acquire(s))

ControlSpec == ControlInit /\ [][ControlNext]_all /\ ControlFairness

-----------------------------------------------------------------------------
(* Properties *)

\* While connected, with no helper at work and no SDO error counted, a sensor
\* that was never switched off has every period (driver.py:163-174): an error
\* is never swallowed, nor is a connection forgotten.
SilenceIsSuccess ==
    told = "up" /\ ~closing /\ ~blamed /\ ~cut
      /\ (\A h \in Helpers : place[h] = "none")
    => ram = Periods

\* After a shutdown that did not give up on the reader nothing is started any
\* more and nothing goes out to the sensor, although helpers may be anywhere
\* in their calls (driver.py:310, canbus.py:262).
QuietAfterStop ==
    At(Owner, "stopped") /\ ~abandoned =>
       /\ spawning = {}
       /\ \A s \in Senders : At(s, "sending") => held[s] \notin good

\* Every call of a helper or of the service returns, and every helper ends,
\* whatever bus and sensor do (driver.py:165, 298).
CallsEnd == \A s \in Senders : place[s] # "none" ~> place[s] = "none"

\* While the sensor answers, and once the adapter and the node stay, the sensor
\* gets its periods and keeps them, although connections failed before (as many
\* as MaxFailures allows: one in the run).
Configured ==
    /\ [](mood = "answers")
    /\ <>[](up /\ At(Owner, "running"))
    => <>[](ram = Periods)

\* USER_MANUAL.md:91: the period is written "once at startup".  No helper is
\* started for a sensor that has its periods.
TpdoOnce ==
    [][\A h \in Helpers : place[h] = "none" /\ place'[h] # "none" =>
          ram # Periods]_all
=============================================================================
