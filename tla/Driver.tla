------------------------------- MODULE Driver -------------------------------
(***************************************************************************)
(* The data path of driver.py: the frame listener _on_frame, run by the    *)
(* reader thread of CanBus for every frame, beside the executor thread,    *)
(* which changes parameters, reports the dropped frames (diagnostics.py)   *)
(* and destroys the node.                                                  *)
(*                                                                         *)
(* A frame is its kind, and tracks are told apart by their number; what is *)
(* in a navicode is the matter of Navicode.tla.  Frames that never reach   *)
(* the reader do not appear.  Left out: raw messages, stamps, time, the    *)
(* contents of heartbeats.                                                 *)
(***************************************************************************)
EXTENDS Integers

CONSTANT MaxFrames      \* bound on the frames received

ASSUME BoundAssumption == MaxFrames \in Nat

Axes == {"position", "angle"}
Topics == {"track", "markers", "navicode"}

\* How _on_frame sorts the frames; "bad" has the wrong length, "other" is of
\* another node or has an extended identifier.
Kinds == Topics \cup {"other", "sdo", "bad", "unknown", "heartbeat"}

VARIABLES
    handling,   \* what the reader does: the kind of frame, the step, its locals
    lastTrack,  \* self._last_track: the number of the track, 0 for None
    inverted,   \* self.invert_position, self.invert_angle
    closing,    \* self._closing
    context,    \* the ROS context is valid: publish() works
    stats,      \* Stats: frames counted by kind, last_track
    published,  \* messages published by topic
    task,       \* what the executor does
    pending,    \* parameters of the request not yet assigned
    requested,  \* the values asked for
    taken,      \* the local bad of _frame_errors_task
    prevBad,    \* _prev_bad_length
    told,       \* history: dropped frames reported, all reports together
    received,   \* history: frames that passed the first test of _on_frame
    settled     \* history: no parameter changed since the frame at hand came

reader   == <<handling, lastTrack>>
output   == <<stats, published>>
executor == <<task, pending, requested, inverted, taken, prevBad, told, closing>>
history  == <<received, settled>>
vars     == <<reader, output, executor, context, history>>

Idle == [kind |-> "other", step |-> "idle", flip |-> [a \in Axes |-> FALSE]]

Steps == {"idle", "angle", "publish", "publishing", "count"}

TypeOK ==
    /\ handling \in [kind : Kinds, step : Steps, flip : [Axes -> BOOLEAN]]
    /\ lastTrack \in Nat
    /\ inverted \in [Axes -> BOOLEAN]
    /\ requested \in [Axes -> BOOLEAN]
    /\ closing \in BOOLEAN
    /\ context \in BOOLEAN
    /\ stats \in [count : [Kinds -> Nat], track : Nat]
    /\ published \in [Topics -> Nat]
    /\ task \in {"spin", "setting", "reporting", "destroyed"}
    /\ pending \subseteq Axes
    /\ taken \in Nat
    /\ prevBad \in Nat
    /\ told \in Nat
    /\ received \in Nat
    /\ settled \in BOOLEAN

Init ==
    /\ handling = Idle
    /\ lastTrack = 0
    /\ inverted \in [Axes -> BOOLEAN]
    /\ requested = inverted
    /\ closing = FALSE
    /\ context = TRUE
    /\ stats = [count |-> [k \in Kinds |-> 0], track |-> 0]
    /\ published = [t \in Topics |-> 0]
    /\ task = "spin"
    /\ pending = {}
    /\ taken = 0 /\ prevBad = 0 /\ told = 0
    /\ received = 0
    /\ settled = TRUE

-----------------------------------------------------------------------------
(* The reader: _on_frame *)

\* _on_frame begins with a frame, unless the node is closing.
Arrive ==
    /\ handling.step = "idle"
    /\ ~closing
    /\ received < MaxFrames
    /\ received' = received + 1
    /\ settled' = (pending = {})

\* Slip: an SDO response goes on to the decoder, which does not know it.
CountedAsOf(k) == IF k = "sdo" THEN {"sdo", "unknown"} ELSE {k}

\* The counters a frame that is not published, or that was, adds one to.
CountedAs(k) == {k}

Plus(k) ==
    [c \in Kinds |-> IF c \in CountedAs(k) THEN stats.count[c] + 1 ELSE stats.count[c]]

\* Frames of other nodes, SDO responses (the SDO client listens for itself),
\* frames that do not decode, and heartbeats are only counted.
ReceiveCounted(k) ==
    /\ k \in Kinds \ Topics
    /\ Arrive
    /\ stats' = [stats EXCEPT !.count = Plus(k)]
    /\ UNCHANGED <<reader, published, executor, context>>

\* A track: it becomes the last one, then the inversions are read one by one.
ReceiveTrack ==
    /\ Arrive
    /\ lastTrack' = lastTrack + 1
    /\ handling' = [Idle EXCEPT !.kind = "track", !.step = "angle",
                                !.flip["position"] = inverted["position"]]
    /\ UNCHANGED <<output, executor, context>>

ReadAngle ==
    /\ handling.step = "angle"
    /\ handling' = [handling EXCEPT !.step = "publish",
                                    !.flip["angle"] = inverted["angle"]]
    /\ UNCHANGED <<lastTrack, output, executor, context, history>>

\* Markers take the flags of the last track and the position inversion.
ReceiveMarkers ==
    /\ Arrive
    /\ handling' = [Idle EXCEPT !.kind = "markers", !.step = "publish",
                                !.flip["position"] = inverted["position"]]
    /\ UNCHANGED <<lastTrack, output, executor, context>>

ReceiveNavicode ==
    /\ Arrive
    /\ handling' = [Idle EXCEPT !.kind = "navicode", !.step = "publish"]
    /\ UNCHANGED <<lastTrack, output, executor, context>>

\* _publish: nothing once the node is closing.  The flag is read first: it may
\* be set, and the publisher destroyed, before publish() is called.
TestClosing ==
    /\ handling.step = "publish"
    /\ handling' = [handling EXCEPT !.step = IF closing THEN "count" ELSE "publishing"]
    /\ UNCHANGED <<lastTrack, output, executor, context, history>>

\* publish() sends the message, or raises: the context is gone, or the node is
\* being destroyed.  The exception is swallowed and the handler goes on.
Publish ==
    /\ handling.step = "publishing"
    /\ \/ context /\ published' = [published EXCEPT ![handling.kind] = @ + 1]
       \/ (~context \/ closing) /\ UNCHANGED published
    /\ handling' = [handling EXCEPT !.step = "count"]
    /\ UNCHANGED <<lastTrack, stats, executor, context, history>>

\* Slip: the statistics keep a count but not the track it belongs to.
CountTrackless ==
    /\ handling.step = "count"
    /\ stats' = [stats EXCEPT !.count = Plus(handling.kind)]
    /\ handling' = Idle
    /\ UNCHANGED <<lastTrack, published, executor, context, history>>

\* The update of the statistics, in one critical section.
Count ==
    /\ handling.step = "count"
    /\ stats' = [count |-> Plus(handling.kind),
                 track |-> IF handling.kind = "track" THEN lastTrack ELSE stats.track]
    /\ handling' = Idle
    /\ UNCHANGED <<lastTrack, published, executor, context, history>>

-----------------------------------------------------------------------------
(* The executor: parameters, diagnostics, shutdown *)

\* A request to set one inversion or both at once.
BeginSet ==
    /\ task = "spin"
    /\ task' = "setting"
    /\ \E names \in (SUBSET Axes) \ {{}}, values \in [Axes -> BOOLEAN] :
          /\ pending' = names
          /\ requested' = [a \in Axes |-> IF a \in names THEN values[a] ELSE requested[a]]
    /\ settled' = FALSE
    /\ UNCHANGED <<reader, output, inverted, taken, prevBad, told, closing,
                   context, received>>

\* Slip: the callback returns after the first parameter it knows.
AssignFirst(a) ==
    /\ task = "setting"
    /\ a \in pending
    /\ inverted' = [inverted EXCEPT ![a] = requested[a]]
    /\ pending' = {}
    /\ task' = "spin"
    /\ UNCHANGED <<reader, output, requested, taken, prevBad, told, closing,
                   context, history>>

\* _on_set_parameters assigns one parameter after the other.
Assign(a) ==
    /\ task = "setting"
    /\ a \in pending
    /\ inverted' = [inverted EXCEPT ![a] = requested[a]]
    /\ pending' = pending \ {a}
    /\ task' = IF pending = {a} THEN "spin" ELSE "setting"
    /\ UNCHANGED <<reader, output, requested, taken, prevBad, told, closing,
                   context, history>>

\* _frame_errors_task reads the counters under the lock ...
TakeErrors ==
    /\ task = "spin"
    /\ task' = "reporting"
    /\ taken' = stats.count["bad"]
    /\ UNCHANGED <<reader, output, pending, requested, inverted, prevBad, told,
                   closing, context, history>>

\* Slips: the difference the wrong way round; the report before not remembered;
\* the counter read a second time.
ReportNegated ==
    /\ task = "reporting"
    /\ task' = "spin"
    /\ told' = told + (prevBad - taken)
    /\ prevBad' = taken
    /\ UNCHANGED <<reader, output, pending, requested, inverted, taken, closing,
                   context, history>>

ReportForgetful ==
    /\ task = "reporting"
    /\ task' = "spin"
    /\ told' = told + (taken - prevBad)
    /\ UNCHANGED <<reader, output, pending, requested, inverted, taken, prevBad, closing,
                   context, history>>

ReportRereading ==
    /\ task = "reporting"
    /\ task' = "spin"
    /\ told' = told + (taken - prevBad)
    /\ prevBad' = stats.count["bad"]
    /\ UNCHANGED <<reader, output, pending, requested, inverted, taken, closing,
                   context, history>>

\* ... and reports how many were dropped since the report before.
ReportErrors ==
    /\ task = "reporting"
    /\ task' = "spin"
    /\ told' = told + (taken - prevBad)
    /\ prevBad' = taken
    /\ UNCHANGED <<reader, output, pending, requested, inverted, taken, closing,
                   context, history>>

\* destroy_node, called when the executor has stopped spinning.
Destroy ==
    /\ task = "spin"
    /\ task' = "destroyed"
    /\ closing' = TRUE
    /\ UNCHANGED <<reader, output, pending, requested, inverted, taken, prevBad,
                   told, context, history>>

\* A signal invalidates the context, at any moment.
ContextDown ==
    /\ context
    /\ context' = FALSE
    /\ UNCHANGED <<reader, output, executor, history>>

-----------------------------------------------------------------------------

Receive ==
    \/ \E k \in Kinds : ReceiveCounted(k)
    \/ ReceiveTrack \/ ReceiveMarkers \/ ReceiveNavicode

Proceed == ReadAngle \/ TestClosing \/ Publish \/ Count

Next ==
    \/ Receive \/ Proceed
    \/ BeginSet \/ (\E a \in Axes : Assign(a))
    \/ TakeErrors \/ ReportErrors
    \/ Destroy \/ ContextDown

\* A handler that began goes on, and the executor, which serves its ready
\* callbacks in turn, comes back to the diagnostics timer.
Fairness ==
    /\ WF_vars(Proceed)
    /\ WF_vars(\E a \in Axes : Assign(a))
    /\ SF_vars(TakeErrors) /\ WF_vars(ReportErrors)

Spec == Init /\ [][Next]_vars /\ Fairness

-----------------------------------------------------------------------------
(* Properties *)

Resting == handling.step = "idle"

\* Published and about to be counted.
InFlight(t) == IF handling.step = "count" /\ handling.kind = t THEN 1 ELSE 0

Total ==
    LET n == stats.count IN
    n["track"] + n["markers"] + n["navicode"] + n["heartbeat"]
      + n["sdo"] + n["bad"] + n["unknown"] + n["other"]

\* Every frame received is counted once, under one heading, and a track, a
\* marker or a navicode frame makes one message: a frame is neither published
\* twice nor lost, until the node closes or its context goes away.
Accounted ==
    /\ received = Total + (IF Resting THEN 0 ELSE 1)
    /\ \A t \in Topics :
          /\ published[t] <= stats.count[t] + InFlight(t)
          /\ ~closing /\ context => published[t] = stats.count[t] + InFlight(t)

\* The statistics the diagnostics read are those of one frame: the track they
\* show is the last one counted, and between frames it is the one whose flags
\* the markers take.
StatsConsistent ==
    /\ stats.track = stats.count["track"]
    /\ Resting => lastTrack = stats.track

\* A frame that arrives after the parameters were set uses the new values,
\* both of them ("take effect immediately", USER_MANUAL.md:97).
AppliedAtOnce ==
    handling.step \in {"publish", "publishing", "count"} /\ settled =>
       /\ handling.kind \in {"track", "markers"} =>
             handling.flip["position"] = requested["position"]
       /\ handling.kind = "track" => handling.flip["angle"] = requested["angle"]

\* No dropped frame is reported twice: the reports never add up to more than
\* was dropped, although frames are dropped while they are made.
ReportedOnce == told <= stats.count["bad"]

\* ... and every dropped frame is reported in the end (_frame_errors_task).
DropsReported ==
    \A n \in 1 .. MaxFrames : stats.count["bad"] >= n ~> told >= n \/ closing
=============================================================================
