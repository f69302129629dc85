---------------------------- MODULE LineFollower ----------------------------
(***************************************************************************)
(* line_follower.py at the end of a best-effort topic: how long after the  *)
(* last track with a tape on it the robot still drives.  Ages as in        *)
(* Diagnostics; they stop counting at TooOld.                              *)
(***************************************************************************)
EXTENDS Integers, Sequences

CONSTANTS
    Depth,      \* of the subscription's queue
    Delay,      \* bound on the time from a frame to the callback with its track
    Stale,      \* stale_s
    TickPeriod, \* bound on the time between two ticks: 1 / rate_hz and a late executor
    TooOld

ASSUME FollowerAssumption ==
    /\ Depth \in Nat \ {0}
    /\ Delay \in Nat /\ Stale \in Nat
    /\ TickPeriod \in Nat \ {0}
    /\ TooOld \in Nat
    /\ Delay + Stale + TickPeriod < TooOld

VARIABLES
    queue,      \* tracks published and not heard: tape_detected, and their age
    last,       \* _last: "none", or whether it has a tape
    lastAge,    \* since _last_t
    sinceTick,  \* since the timer fired
    command,    \* the twist in force
    running,    \* rclpy.spin
    tapeAge     \* history: age of the last frame that showed a tape

follower == <<queue, last, lastAge, sinceTick, command, running, tapeAge>>

Tracks == [tape : BOOLEAN, age : 0 .. Delay]

FollowerTypeOK ==
    /\ queue \in Seq(Tracks) /\ Len(queue) <= Depth
    /\ last \in {"none", "tape", "blank"}
    /\ lastAge \in 0 .. TooOld /\ tapeAge \in 0 .. TooOld
    /\ sinceTick \in 0 .. TickPeriod
    /\ command \in {"none", "zero", "drive"}
    /\ running \in BOOLEAN

FollowerInit ==
    /\ queue = <<>>
    /\ last = "none" /\ lastAge = TooOld
    /\ sinceTick = 0
    /\ command = "none"
    /\ running = TRUE
    /\ tapeAge = TooOld

-----------------------------------------------------------------------------

\* Slip: the queue keeps everything.
EnqueueAll(q, t) == Append(q, t)

\* Keep last: a full queue loses its oldest track.
Enqueue(q, t) == Append(IF Len(q) < Depth THEN q ELSE Tail(q), t)

\* The driver publishes a track at once; it may be lost on the way.
PublishTrack(tape) ==
    /\ queue' \in {queue} \cup (IF running THEN {Enqueue(queue, [tape |-> tape, age |-> 0])} ELSE {})
    /\ tapeAge' = IF tape THEN 0 ELSE tapeAge
    /\ UNCHANGED <<last, lastAge, sinceTick, command, running>>

\* Slip: a track without a tape is not worth keeping.
OnTrackWithTape ==
    /\ running
    /\ queue # <<>>
    /\ queue' = Tail(queue)
    /\ last' = IF Head(queue).tape THEN "tape" ELSE last
    /\ lastAge' = 0
    /\ UNCHANGED <<sinceTick, command, running, tapeAge>>

\* _on_track: the time of reception counts, not the stamp.
OnTrack ==
    /\ running
    /\ queue # <<>>
    /\ queue' = Tail(queue)
    /\ last' = IF Head(queue).tape THEN "tape" ELSE "blank"
    /\ lastAge' = 0
    /\ UNCHANGED <<sinceTick, command, running, tapeAge>>

IsStale == lastAge > Stale

\* _tick
Tick ==
    /\ running
    /\ sinceTick' = 0
    /\ command' = IF last = "tape" /\ ~IsStale THEN "drive" ELSE "zero"
    /\ UNCHANGED <<queue, last, lastAge, running, tapeAge>>

\* main: an interrupt ends spin; no last command is sent.
Quit ==
    /\ running
    /\ running' = FALSE
    /\ queue' = <<>>
    /\ UNCHANGED <<last, lastAge, sinceTick, command, tapeAge>>

Aged(a) == IF a < TooOld THEN a + 1 ELSE a

\* While the node runs it keeps its timer and takes what is in the queue.
Pass ==
    /\ running => sinceTick < TickPeriod
    /\ \A i \in 1 .. Len(queue) : queue[i].age < Delay
    /\ queue' = [i \in 1 .. Len(queue) |->
                    [tape |-> queue[i].tape, age |-> queue[i].age + 1]]
    /\ lastAge' = Aged(lastAge)
    /\ tapeAge' = Aged(tapeAge)
    /\ sinceTick' = IF running THEN sinceTick + 1 ELSE sinceTick
    /\ UNCHANGED <<last, command, running>>

FollowerNext ==
    \/ \E tape \in BOOLEAN : PublishTrack(tape)
    \/ OnTrack \/ Tick \/ Quit
    \/ Pass

FollowerSpec == FollowerInit /\ [][FollowerNext]_follower

-----------------------------------------------------------------------------
(* Properties *)

\* USER_MANUAL.md:362, "stops when the tape is lost or the data is stale", with
\* its price: the robot drives on no longer than queue, staleness and timer
\* add up to after the last frame that showed a tape.
DriveFresh ==
    running /\ command = "drive" => tapeAge <= Delay + Stale + TickPeriod
=============================================================================
