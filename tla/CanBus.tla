------------------------------- MODULE CanBus -------------------------------
(***************************************************************************)
(* The CanBus object of canbus.py: a python-can bus shared by              *)
(*   - the owner thread, which calls start() once and stop() once,         *)
(*   - the reader thread that start() creates (_run), and                  *)
(*   - sender threads that call send() (the SDO client's callers).         *)
(* One action is one step a thread takes between two points where another  *)
(* thread can see or change the shared state.  _bus_lock protects the      *)
(* attribute _bus only: the flag `connected' and the state notifications   *)
(* are separate steps, as in the code.                                     *)
(*                                                                         *)
(* Left out: counters, texts of errors, the content of frames (Driver.tla  *)
(* models what the listeners do with a frame) and the passage of time.     *)
(***************************************************************************)
EXTENDS Naturals

CONSTANTS
    Owner,      \* the thread that constructs, starts and stops the object
    Reader,     \* the thread that runs _run
    Senders,    \* the threads that call send()
    Handles,    \* identities of python-can Bus objects
    NoBus       \* None

Threads == {Owner, Reader} \cup Senders

ASSUME ThreadsAssumption ==
    /\ Owner # Reader
    /\ Owner \notin Senders
    /\ Reader \notin Senders

ASSUME HandlesAssumption == NoBus \notin Handles

VARIABLES
    pc,         \* where each thread is
    held,       \* the local variable `bus' of each thread, NoBus when dead
    bus,        \* self._bus
    connected,  \* self.connected
    stopFlag,   \* self._stop
    live,       \* Bus objects created and not yet shut down
    good,       \* those of them whose adapter still answers
    up,         \* the adapter is present: can.Bus(...) would succeed
    told,       \* the last state notification sent to the state listeners
    overlapped, \* history: an _open or _close ran during the last one
    abandoned   \* history: stop() gave up waiting for the reader

vars == <<pc, held, bus, connected, stopFlag, live, good, up, told,
          overlapped, abandoned>>

shared  == <<bus, connected, told, stopFlag>>
device  == <<live, good, up>>
history == <<overlapped, abandoned>>

OpenLabels  == {"opening", "storing", "flagging", "tellUp"}
CloseLabels == {"taking", "shutting", "testing", "clearing", "tellDown"}
OwnerLabels == {"constructed", "starting", "running", "joining", "stopped"}
LoopLabels  == {"unborn", "check", "fetching", "receiving", "waiting", "exited"}
SendLabels  == {"idle", "fetching", "sending"}

\* Where a thread is about to use its local `bus': to store it, to shut it
\* down, to call recv() or send() on it.
UsingLabels == {"storing", "shutting", "receiving", "sending"}

Labels == OpenLabels \cup CloseLabels \cup OwnerLabels \cup LoopLabels \cup SendLabels

\* The types, and: nobody calls a method of None.  _bus may become None at any
\* time after it was read, the local copy that was tested does not.
TypeOK ==
    /\ pc \in [Threads -> Labels]
    /\ held \in [Threads -> Handles \cup {NoBus}]
    /\ \A t \in Threads : pc[t] \in UsingLabels => held[t] # NoBus
    /\ bus \in Handles \cup {NoBus}
    /\ connected \in BOOLEAN
    /\ stopFlag \in BOOLEAN
    /\ live \subseteq Handles
    /\ good \subseteq live
    /\ up \in BOOLEAN
    /\ told \in {"nothing", "up", "down"}
    /\ overlapped \in BOOLEAN
    /\ abandoned \in BOOLEAN

Init ==
    /\ pc = [t \in Threads |-> IF t = Owner THEN "constructed"
                               ELSE IF t = Reader THEN "unborn" ELSE "idle"]
    /\ held = [t \in Threads |-> NoBus]
    /\ bus = NoBus
    /\ connected = FALSE
    /\ stopFlag = FALSE
    /\ live = {}
    /\ good = {}
    /\ up \in BOOLEAN
    /\ told = "nothing"
    /\ overlapped = FALSE
    /\ abandoned = FALSE

-----------------------------------------------------------------------------
(* Moving a thread from label to label. *)

At(t, label) == pc[t] = label
Goto(t, label) == pc' = [pc EXCEPT ![t] = label]
Keep(t, h) == held' = [held EXCEPT ![t] = h]

InProcedure(t) == pc[t] \in OpenLabels \cup CloseLabels

\* Another thread is inside _open or _close.
Disturbed(t) == \E u \in Threads \ {t} : InProcedure(u)

\* The call of _open and of _close, with the history of overlapping calls.
EnterOpen(t) ==
    /\ Goto(t, "opening")
    /\ overlapped' = (overlapped \/ Disturbed(t))

EnterClose(t) ==
    /\ Goto(t, "taking")
    /\ overlapped' = (overlapped \/ Disturbed(t))

\* Where a thread continues when _open returned, and when _close returned.
AfterOpen(t, ok) ==
    IF t = Owner THEN "starting" ELSE IF ok THEN "check" ELSE "waiting"

AfterClose(t) ==
    IF t = Owner THEN "stopped" ELSE IF t = Reader THEN "waiting" ELSE "idle"

-----------------------------------------------------------------------------
(* _open *)

\* A Bus object nobody refers to: Python does not reuse one that is referenced.
Fresh(h) == h \notin live /\ h # bus /\ \A t \in Threads : held[t] # h

\* can.Bus(...) returns.  From here an undisturbed _open settles the state
\* whatever happened before, so the history starts again.
OpenDevice(t) ==
    /\ At(t, "opening")
    /\ up
    /\ \E h \in Handles :
          /\ Fresh(h)
          /\ live' = live \cup {h}
          /\ good' = good \cup {h}
          /\ Keep(t, h)
    /\ Goto(t, "storing")
    /\ overlapped' = Disturbed(t)
    /\ UNCHANGED <<up, abandoned, shared>>

OpenFails(t) ==
    /\ At(t, "opening")
    /\ ~up
    /\ Goto(t, AfterOpen(t, FALSE))
    /\ UNCHANGED <<held, shared, device, history>>

StoreHandle(t) ==
    /\ At(t, "storing")
    /\ bus' = held[t]
    /\ Keep(t, NoBus)
    /\ Goto(t, "flagging")
    /\ UNCHANGED <<connected, stopFlag, told, device, history>>

SetConnected(t) ==
    /\ At(t, "flagging")
    /\ connected' = TRUE
    /\ Goto(t, "tellUp")
    /\ UNCHANGED <<held, bus, stopFlag, told, device, history>>

NotifyUp(t) ==
    /\ At(t, "tellUp")
    /\ told' = "up"
    /\ Goto(t, AfterOpen(t, TRUE))
    /\ UNCHANGED <<held, bus, connected, stopFlag, device, history>>

-----------------------------------------------------------------------------
(* _close *)

\* Slip: the handle is read under the lock but not replaced by None.
TakeHandleKept(t) ==
    /\ At(t, "taking")
    /\ Keep(t, bus)
    /\ Goto(t, IF bus = NoBus THEN "testing" ELSE "shutting")
    /\ UNCHANGED <<shared, device, history>>

TakeHandle(t) ==
    /\ At(t, "taking")
    /\ Keep(t, bus)
    /\ bus' = NoBus
    /\ Goto(t, IF bus = NoBus THEN "testing" ELSE "shutting")
    /\ UNCHANGED <<connected, stopFlag, told, device, history>>

\* bus.shutdown(); its exceptions are swallowed.
Shutdown(t) ==
    /\ At(t, "shutting")
    /\ live' = live \ {held[t]}
    /\ good' = good \ {held[t]}
    /\ Keep(t, NoBus)
    /\ Goto(t, "testing")
    /\ UNCHANGED <<up, shared, history>>

TestConnected(t) ==
    /\ At(t, "testing")
    /\ Goto(t, IF connected THEN "clearing" ELSE AfterClose(t))
    /\ UNCHANGED <<held, shared, device, history>>

\* Slip: the listeners are told, the flag is not cleared.
ClearConnectedForgotten(t) ==
    /\ At(t, "clearing")
    /\ Goto(t, "tellDown")
    /\ UNCHANGED <<held, shared, device, history>>

ClearConnected(t) ==
    /\ At(t, "clearing")
    /\ connected' = FALSE
    /\ Goto(t, "tellDown")
    /\ UNCHANGED <<held, bus, stopFlag, told, device, history>>

NotifyDown(t) ==
    /\ At(t, "tellDown")
    /\ told' = "down"
    /\ Goto(t, AfterClose(t))
    /\ UNCHANGED <<held, bus, connected, stopFlag, device, history>>

-----------------------------------------------------------------------------
(* start and stop *)

\* start(open_now): the first open is made by the owner itself, or skipped.
Start ==
    /\ At(Owner, "constructed")
    /\ \/ EnterOpen(Owner)
       \/ Goto(Owner, "starting") /\ UNCHANGED overlapped
    /\ UNCHANGED <<held, abandoned, shared, device>>

\* _stop.clear(); the reader thread is created and started.
SpawnReader ==
    /\ At(Owner, "starting")
    /\ stopFlag' = FALSE
    /\ pc' = [pc EXCEPT ![Owner] = "running", ![Reader] = "check"]
    /\ UNCHANGED <<held, bus, connected, told, device, history>>

\* Slip: stop() does not tell the reader.
RequestStopSilent ==
    /\ pc[Owner] \in {"constructed", "running"}
    /\ Goto(Owner, "joining")
    /\ UNCHANGED <<held, shared, device, history>>

\* stop(), on an object that was started or never was.
RequestStop ==
    /\ pc[Owner] \in {"constructed", "running"}
    /\ stopFlag' = TRUE
    /\ Goto(Owner, "joining")
    /\ UNCHANGED <<held, bus, connected, told, device, history>>

\* Slip: stop() closes the bus without waiting for the reader.
JoinReaderSkipped ==
    /\ At(Owner, "joining")
    /\ EnterClose(Owner)
    /\ UNCHANGED <<held, abandoned, shared, device>>

\* There is no live reader, or join() returned because it ended.
JoinReader ==
    /\ At(Owner, "joining")
    /\ pc[Reader] \in {"unborn", "exited"}
    /\ EnterClose(Owner)
    /\ UNCHANGED <<held, abandoned, shared, device>>

\* join(timeout=2.0) gave up.  The back-off ends at once and recv() within
\* recv_timeout_s, far less, so this takes a reader stuck in the driver (can.Bus, shutdown) or in
\* a listener, of the state or of a frame (_run calls the latter while it is
\* "receiving").
MayBlock == {"opening", "shutting", "receiving", "tellUp", "tellDown"}

JoinTimesOut ==
    /\ At(Owner, "joining")
    /\ pc[Reader] \in MayBlock
    /\ abandoned' = TRUE
    /\ EnterClose(Owner)
    /\ UNCHANGED <<held, shared, device>>

-----------------------------------------------------------------------------
(* _run, the reader's loop *)

CheckStop ==
    /\ At(Reader, "check")
    /\ Goto(Reader, IF stopFlag THEN "exited" ELSE "fetching")
    /\ UNCHANGED <<held, shared, device, history>>

FetchToOpen ==
    /\ At(Reader, "fetching")
    /\ bus = NoBus
    /\ EnterOpen(Reader)
    /\ UNCHANGED <<held, abandoned, shared, device>>

FetchToReceive ==
    /\ At(Reader, "fetching")
    /\ bus # NoBus
    /\ Keep(Reader, bus)
    /\ Goto(Reader, "receiving")
    /\ UNCHANGED <<shared, device, history>>

\* recv() returns a frame, which goes to the listeners, or None.
Receive ==
    /\ At(Reader, "receiving")
    /\ held[Reader] \in good
    /\ Keep(Reader, NoBus)
    /\ Goto(Reader, "check")
    /\ UNCHANGED <<shared, device, history>>

\* Slip: the reader re-opens without closing what failed.
ReceiveFailsReopens ==
    /\ At(Reader, "receiving")
    /\ held[Reader] \notin good
    /\ Keep(Reader, NoBus)
    /\ EnterOpen(Reader)
    /\ UNCHANGED <<abandoned, shared, device>>

\* Slip: the reader backs off without closing what failed.
ReceiveFailsIgnored ==
    /\ At(Reader, "receiving")
    /\ held[Reader] \notin good
    /\ Keep(Reader, NoBus)
    /\ Goto(Reader, "waiting")
    /\ UNCHANGED <<shared, device, history>>

\* recv() raises: the adapter went away, or another thread shut the bus down.
ReceiveFails ==
    /\ At(Reader, "receiving")
    /\ held[Reader] \notin good
    /\ Keep(Reader, NoBus)
    /\ EnterClose(Reader)
    /\ UNCHANGED <<abandoned, shared, device>>

\* _stop.wait(reconnect_delay_s) returns.
BackOff ==
    /\ At(Reader, "waiting")
    /\ Goto(Reader, "check")
    /\ UNCHANGED <<held, shared, device, history>>

-----------------------------------------------------------------------------
(* send *)

CallSend(s) ==
    /\ At(s, "idle")
    /\ Goto(s, "fetching")
    /\ UNCHANGED <<held, shared, device, history>>

\* Slip: the snapshot of _bus is not tested for None.
FetchToSendUntested(s) ==
    /\ At(s, "fetching")
    /\ Keep(s, bus)
    /\ Goto(s, "sending")
    /\ UNCHANGED <<shared, device, history>>

\* The snapshot of _bus; CanBusError("CAN bus not connected") when it is None.
FetchToSend(s) ==
    /\ At(s, "fetching")
    /\ Keep(s, bus)
    /\ Goto(s, IF bus = NoBus THEN "idle" ELSE "sending")
    /\ UNCHANGED <<shared, device, history>>

Send(s) ==
    /\ At(s, "sending")
    /\ held[s] \in good
    /\ Keep(s, NoBus)
    /\ Goto(s, "idle")
    /\ UNCHANGED <<shared, device, history>>

\* bus.send raises: a dead handle always does, a good one may (full transmit
\* queue).  _close acts on whatever _bus is by then.
SendFails(s) ==
    /\ At(s, "sending")
    /\ Keep(s, NoBus)
    /\ EnterClose(s)
    /\ UNCHANGED <<abandoned, shared, device>>

-----------------------------------------------------------------------------
(* The adapter *)

Unplug ==
    /\ up
    /\ up' = FALSE
    /\ good' = {}
    /\ UNCHANGED <<pc, held, live, shared, history>>

Replug ==
    /\ ~up
    /\ up' = TRUE
    /\ UNCHANGED <<pc, held, live, good, shared, history>>

-----------------------------------------------------------------------------

OpenStep(t) ==
    OpenDevice(t) \/ OpenFails(t) \/ StoreHandle(t) \/ SetConnected(t) \/ NotifyUp(t)

CloseStep(t) ==
    \/ TakeHandle(t) \/ Shutdown(t) \/ TestConnected(t)
    \/ ClearConnected(t) \/ NotifyDown(t)

OwnerStep == SpawnReader \/ JoinReader \/ JoinTimesOut \/ OpenStep(Owner) \/ CloseStep(Owner)

ReaderStep ==
    \/ CheckStop \/ FetchToOpen \/ FetchToReceive \/ Receive \/ ReceiveFails \/ BackOff
    \/ OpenStep(Reader) \/ CloseStep(Reader)

SenderStep(s) == FetchToSend(s) \/ Send(s) \/ SendFails(s) \/ CloseStep(s)

Next ==
    \/ Start \/ RequestStop \/ OwnerStep
    \/ ReaderStep
    \/ \E s \in Senders : CallSend(s) \/ SenderStep(s)
    \/ Unplug \/ Replug

\* A thread that can run does run.  Nobody has to start, to stop or to send.
Fairness ==
    /\ WF_vars(OwnerStep)
    /\ WF_vars(ReaderStep)
    /\ \A s \in Senders : WF_vars(SenderStep(s))

Spec == Init /\ [][Next]_vars /\ Fairness

-----------------------------------------------------------------------------
(* Properties *)

\* Every Bus object that is open is self._bus, or in the hands of the one
\* thread about to store it or to shut it down: none is lost when a handle is
\* replaced, and none is shut down twice (canbus.py _open, _close, send).
InHand(t) == pc[t] \in {"storing", "shutting"}

HandlesAccounted ==
    /\ \A h \in Handles :
          h \in live <=> h = bus \/ \E t \in Threads : InHand(t) /\ held[t] = h
    /\ \A t \in Threads : InHand(t) => held[t] \notin {bus, NoBus}
    /\ \A t, u \in Threads : InHand(t) /\ InHand(u) /\ held[t] = held[u] => t = u

\* Where a Bus object is in its life.  One that is live but neither installed
\* nor in hand would be lost.
StageOf(h) ==
    IF h \notin live THEN "free"
    ELSE IF h = bus THEN "installed"
    ELSE IF \E t \in Threads : At(t, "storing") /\ held[t] = h THEN "opened"
    ELSE IF \E t \in Threads : At(t, "shutting") /\ held[t] = h THEN "retired"
    ELSE "lost"

HandleStage == [h \in Handles |-> StageOf(h)]

Life == INSTANCE HandleLife WITH stage <- HandleStage

\* The object is an implementation of HandleLife: every Bus object is opened,
\* installed, retired and shut down once each, at most one is installed, and
\* a thread that retired one does shut it down.
LifeRefined == Life!Spec

\* No thread is inside _open or _close.
Quiet == \A t \in Threads : ~InProcedure(t)

Exact ==
    /\ connected <=> (bus # NoBus)
    /\ connected <=> (told = "up")

\* Once every _open and _close has returned, `connected' says whether there
\* is a bus and the last notification said the same; and who is about to
\* notify a disconnection notifies it to listeners that last heard of a
\* connection.  Both provided that nothing ran beside the last _open that
\* succeeded or the calls of _close since.
UndisturbedExact ==
    ~overlapped =>
       /\ Quiet => Exact
       /\ \A t \in Threads : At(t, "tellDown") => told = "up"

\* stop() that did not give up on the reader leaves no bus and a false flag,
\* whatever the senders do meanwhile (test_canbus.py:50).
CleanStop ==
    At(Owner, "stopped") /\ ~abandoned => bus = NoBus /\ ~connected

\* As long as the object is running and the adapter stays present, there is a
\* working bus again and again: closing it, even by mistake, is repaired.
Recovers ==
    <>[](up /\ At(Owner, "running")) => []<>(bus \in good)

\* stop() returns and the reader ends, even a reader it did not wait for.
StopCompletes ==
    At(Owner, "joining") ~> At(Owner, "stopped") /\ pc[Reader] \in {"unborn", "exited"}

\* USER_MANUAL.md:250 takes the flag for "interface open" / "not open / lost".
\* The reader receives from the current bus, nothing is in progress, and yet
\* the flag may be false: `connected' is written outside the lock.
FlagTellsTruth ==
    Quiet /\ At(Reader, "receiving") /\ held[Reader] = bus => connected

\* test_canbus.py:50 asserts `not connected' after stop().
StoppedMeansClosed ==
    At(Owner, "stopped") /\ Quiet /\ pc[Reader] \in {"unborn", "exited"} => ~connected

=============================================================================
