------------------------------ MODULE Navicode ------------------------------
(***************************************************************************)
(* The navicode path: the sensor counts the codes it captures in one byte, *)
(* sends the counter in every TPDO3 frame, and _handle_navicode of         *)
(* driver.py raises is_new when the counter differs from the previous one. *)
(* Frames are lost, several codes are captured between two frames, and the *)
(* sensor may be switched off and on, while the driver remembers.          *)
(*                                                                         *)
(* Frames that never reach the reader do not appear, and a frame that was  *)
(* delayed is one sent before the captures that follow.                    *)
(***************************************************************************)
EXTENDS Integers

CONSTANTS
    CounterValues,  \* values of the counter: 256
    None,           \* no navicode seen yet
    MaxFrames,      \* bound on the frames received
    MaxCaptures,    \* bound on the codes captured
    MaxRestarts     \* bound on the power cycles of the sensor

ASSUME CounterAssumption == CounterValues \in Nat \ {0}
ASSUME NoneAssumption == None \notin Nat
ASSUME BoundsAssumption == MaxFrames \in Nat /\ MaxCaptures \in Nat /\ MaxRestarts \in Nat

Counters == 0 .. CounterValues - 1

VARIABLES
    counter,        \* the counter of the sensor
    captures,       \* history: codes captured since the driver started
    restarts,       \* history: power cycles of the sensor
    step,           \* where the reader is in _handle_navicode
    isNew,          \* msg.is_new of the message in hand
    lastCounter,    \* self._last_navicode_counter
    closing,        \* self._closing
    context,        \* the ROS context is valid: publish() works
    frames,         \* stats.tpdo_counts[3]
    news,           \* messages published with is_new
    seen,           \* history: captures and restarts at the last frame
    changes,        \* history: frames since whose predecessor something happened
    missable        \* history: the counter may have come back to a value seen

sensor  == <<counter, captures, restarts>>
node    == <<closing, context>>
history == <<seen, changes, missable>>
vars    == <<sensor, step, isNew, lastCounter, node, frames, news, history>>

TypeOK ==
    /\ counter \in Counters
    /\ captures \in Nat
    /\ restarts \in Nat
    /\ step \in {"idle", "publish", "publishing", "count"}
    /\ isNew \in BOOLEAN
    /\ lastCounter \in Counters \cup {None}
    /\ closing \in BOOLEAN
    /\ context \in BOOLEAN
    /\ frames \in Nat
    /\ news \in Nat
    /\ seen \in [captures : Nat, restarts : Nat]
    /\ changes \in Nat
    /\ missable \in BOOLEAN

Init ==
    /\ counter \in Counters
    /\ captures = 0 /\ restarts = 0
    /\ step = "idle"
    /\ isNew = FALSE
    /\ lastCounter = None
    /\ closing = FALSE
    /\ context = TRUE
    /\ frames = 0
    /\ news = 0
    /\ seen = [captures |-> 0, restarts |-> 0]
    /\ changes = 0
    /\ missable = FALSE

-----------------------------------------------------------------------------
(* The sensor *)

Capture ==
    /\ captures < MaxCaptures
    /\ captures' = captures + 1
    /\ counter' = (counter + 1) % CounterValues
    /\ UNCHANGED <<restarts, step, isNew, lastCounter, node, frames, news, history>>

\* The counter starts again from whatever value the firmware gives it.
Restart ==
    /\ restarts < MaxRestarts
    /\ restarts' = restarts + 1
    /\ counter' \in Counters
    /\ UNCHANGED <<captures, step, isNew, lastCounter, node, frames, news, history>>

-----------------------------------------------------------------------------
(* _handle_navicode *)

\* Slips: no answer for the first frame; it is taken for news; the counter is
\* expected to grow.
AdvancedOrNone(previous, current) == IF previous = None THEN None ELSE current # previous
AdvancedFromNone(previous, current) == current # previous
AdvancedUpwards(previous, current) == previous # None /\ current > previous

\* counter_advanced; the masks change nothing, both counters come from a byte.
CounterAdvanced(previous, current) == previous # None /\ current # previous

\* History: what a frame that arrives now could show.
Observe ==
    /\ seen' = [captures |-> captures, restarts |-> restarts]
    /\ changes' = IF lastCounter # None /\ seen' # seen THEN changes + 1 ELSE changes
    /\ missable' =
          \/ missable
          \/ lastCounter # None /\ restarts # seen.restarts
          \/ lastCounter # None /\ captures >= seen.captures + CounterValues

ReceiveNavicode ==
    /\ step = "idle"
    /\ ~closing
    /\ frames < MaxFrames
    /\ isNew' = CounterAdvanced(lastCounter, counter)
    /\ lastCounter' = counter
    /\ step' = "publish"
    /\ Observe
    /\ UNCHANGED <<sensor, node, frames, news>>

\* _publish: nothing once the node is closing, which is tested first.  The code
\* went into lastCounter already.
TestClosing ==
    /\ step = "publish"
    /\ step' = IF closing THEN "count" ELSE "publishing"
    /\ UNCHANGED <<sensor, isNew, lastCounter, node, frames, news, history>>

\* publish() sends the message, or raises: the context is gone, or the node is
\* being destroyed.
Publish ==
    /\ step = "publishing"
    /\ \/ context /\ news' = IF isNew THEN news + 1 ELSE news
       \/ (~context \/ closing) /\ UNCHANGED news
    /\ step' = "count"
    /\ UNCHANGED <<sensor, isNew, lastCounter, node, frames, history>>

Count ==
    /\ step = "count"
    /\ frames' = frames + 1
    /\ step' = "idle"
    /\ UNCHANGED <<sensor, isNew, lastCounter, node, news, history>>

-----------------------------------------------------------------------------
(* The end of the node *)

Destroy ==
    /\ ~closing
    /\ closing' = TRUE
    /\ UNCHANGED <<sensor, step, isNew, lastCounter, context, frames, news, history>>

ContextDown ==
    /\ context
    /\ context' = FALSE
    /\ UNCHANGED <<sensor, step, isNew, lastCounter, closing, frames, news, history>>

-----------------------------------------------------------------------------

Next ==
    \/ Capture \/ Restart
    \/ ReceiveNavicode \/ TestClosing \/ Publish \/ Count
    \/ Destroy \/ ContextDown

Spec == Init /\ [][Next]_vars

-----------------------------------------------------------------------------
(* Properties *)

\* is_new is never raised for nothing: every message that has it stands for a
\* capture, or a power cycle, of its own, also when the first frame shows a
\* counter that was there before the driver (USER_MANUAL.md:203).
NewsNotInvented == news <= captures + restarts

\* ... and it is never missed: every change the frames show raises it once
\* (USER_MANUAL.md:353, "to consume a navicode exactly once"), also across the
\* wrap of the counter, unless 256 codes or a power cycle fell between two
\* frames.
NewsNotMissed ==
    step = "idle" /\ ~missable /\ ~closing /\ context => news = changes
=============================================================================
