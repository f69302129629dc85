---------------------------- MODULE Diagnostics ----------------------------
(***************************************************************************)
(* How old the news are that diagnostics.py spreads: its heartbeat task or *)
(* its data task, whichever is Watched, with the reader thread that stamps *)
(* what the task judges, the parameter handler that changes its limit and  *)
(* the zero service that keeps the one executor thread from it.            *)
(*                                                                         *)
(* Time passes in steps of Elapse.  Instead of the clock the model keeps   *)
(* ages; they stop counting at Far, above everything compared with them.   *)
(***************************************************************************)
EXTENDS Integers

CONSTANTS
    Period,     \* of the updater's timer
    MaxBlock,   \* bound on a call of the zero service
    Lag,        \* bound on handling a frame, and on a round of the six tasks
    Limits,     \* values of timeout_ms and heartbeat_timeout_s
    Far

ASSUME DiagnosticsAssumption ==
    /\ Period \in Nat \ {0}
    /\ MaxBlock \in Nat
    /\ Lag \in 0 .. Period
    /\ Limits \subseteq Nat
    /\ Far \in Nat
    /\ \A l \in Limits : l + Lag + Period + MaxBlock < Far

VARIABLES
    watched,    \* the task: "heartbeat" or "data"
    parameter,  \* the node's timeout_ms, or heartbeat_timeout_s
    limit,      \* _timeout_s, or _hb_timeout_s, of the diagnostics
    seen,       \* the stamp is not None
    age,        \* of the stamp
    operational,    \* the last heartbeat said so; the data task has no such test
    arriving,   \* the frame the reader is handling: "none", "good", or "bad" if
                \* it is a heartbeat of another state
    arrivedAge, \* since it was received
    executor,   \* "free", "zero", "judging" or "publishing"
    spent,      \* since the executor was free
    due,        \* the timer is ready
    untilDue,   \* until it is ready again
    verdict,    \* summary of the round under way
    report,     \* summary published last
    goodAge,    \* history: age of the last good frame counted
    steady      \* history: see Elapse

frames   == <<seen, age, operational, arriving, arrivedAge, goodAge, steady>>
limits   == <<parameter, limit>>
timer    == <<due, untilDue>>
thread   == <<executor, spent>>
output   == <<verdict, report>>
diagnostics == <<watched, frames, limits, timer, thread, output>>

Ages == 0 .. Far
\* What a summary says, the limit of that time and whether frames had been steady.
Summaries == [says : {"ok", "warn", "error"}, limit : Limits, steady : BOOLEAN]
NoSummary == [says |-> "nothing", limit |-> 0, steady |-> FALSE]

DiagnosticsTypeOK ==
    /\ watched \in {"heartbeat", "data"}
    /\ parameter \in Limits /\ limit \in Limits
    /\ seen \in BOOLEAN /\ age \in Ages /\ goodAge \in Ages
    /\ operational \in BOOLEAN /\ steady \in BOOLEAN
    /\ arriving \in {"none", "good", "bad"} /\ arrivedAge \in 0 .. Lag
    /\ executor \in {"free", "zero", "judging", "publishing"}
    /\ spent \in IF executor = "zero" THEN 0 .. MaxBlock ELSE 0 .. Lag
    /\ due \in BOOLEAN /\ untilDue \in 1 .. Period
    /\ verdict \in Summaries \cup {NoSummary}
    /\ report \in Summaries \cup {NoSummary}

DiagnosticsInit ==
    /\ watched \in {"heartbeat", "data"}
    /\ parameter \in Limits
    /\ limit = parameter
    /\ seen = FALSE /\ age = Far /\ goodAge = Far
    /\ operational = FALSE
    /\ steady = TRUE
    /\ arriving = "none" /\ arrivedAge = 0
    /\ executor = "free" /\ spent = 0
    /\ due = FALSE /\ untilDue = Period
    /\ verdict = NoSummary
    /\ report = NoSummary

-----------------------------------------------------------------------------
(* The reader thread *)

\* A frame is received and has its t_mono.
ReceiveFrame ==
    /\ arriving = "none"
    /\ arriving' \in IF watched = "data" THEN {"good"} ELSE {"good", "bad"}
    /\ arrivedAge' = 0
    /\ UNCHANGED <<watched, seen, age, operational, goodAge, steady, limits, timer,
                   thread, output>>

\* The handler comes to the statistics: the stamp is that of the reception.
CountFrame ==
    /\ arriving # "none"
    /\ arriving' = "none"
    /\ arrivedAge' = 0
    /\ seen' = TRUE
    /\ age' = arrivedAge
    /\ operational' = (arriving = "good")
    /\ goodAge' = IF arriving = "good" THEN arrivedAge ELSE goodAge
    /\ steady' = (steady /\ arrivedAge + Lag <= parameter)
    /\ UNCHANGED <<watched, limits, timer, thread, output>>

-----------------------------------------------------------------------------
(* The executor thread *)

\* Slip: the diagnostics are not told.
SetParameterOnly ==
    /\ executor = "free"
    /\ parameter' \in Limits
    /\ steady' = (steady /\ (seen => age + Lag <= parameter'))
    /\ UNCHANGED <<watched, limit, seen, age, operational, arriving, arrivedAge, goodAge,
                   timer, thread, output>>

\* _on_set_parameters
SetLimit ==
    /\ executor = "free"
    /\ parameter' \in Limits
    /\ limit' = parameter'
    /\ steady' = (steady /\ (seen => age + Lag <= parameter'))
    /\ UNCHANGED <<watched, seen, age, operational, arriving, arrivedAge, goodAge,
                   timer, thread, output>>

\* Timers that are ready come before services.
BeginZero ==
    /\ executor = "free"
    /\ ~due
    /\ executor' = "zero"
    /\ UNCHANGED <<watched, frames, limits, timer, spent, output>>

EndZero ==
    /\ executor = "zero"
    /\ executor' = "free"
    /\ spent' = 0
    /\ UNCHANGED <<watched, frames, limits, timer, output>>

\* The timer's callback; the task reads the clock.
BeginRound ==
    /\ executor = "free"
    /\ due
    /\ due' = FALSE
    /\ executor' = "judging"
    /\ UNCHANGED <<watched, frames, limits, untilDue, spent, output>>

\* now - last, for a clock read some time before the stamp.
MeasuredAge == age - spent

\* Slip: the state of the sensor does not matter.
SaysWhateverState ==
    IF ~seen THEN IF watched = "data" THEN "error" ELSE "warn"
    ELSE IF MeasuredAge > limit THEN "error" ELSE "ok"

\* Slip: the stamp is not tested for None.
SaysOfNone ==
    IF ~seen THEN "exception"
    ELSE IF MeasuredAge > limit THEN "error"
    ELSE IF watched = "heartbeat" /\ ~operational THEN "warn" ELSE "ok"

Says ==
    IF ~seen THEN IF watched = "data" THEN "error" ELSE "warn"
    ELSE IF MeasuredAge > limit THEN "error"
    ELSE IF watched = "heartbeat" /\ ~operational THEN "warn" ELSE "ok"

\* The task has the lock, reads the stamp and judges it.
Judge ==
    /\ executor = "judging"
    /\ executor' = "publishing"
    /\ verdict' = [says |-> Says, limit |-> parameter, steady |-> seen /\ steady]
    /\ UNCHANGED <<watched, frames, limits, timer, spent, report>>

\* All six tasks are done.
PublishReport ==
    /\ executor = "publishing"
    /\ executor' = "free"
    /\ spent' = 0
    /\ report' = verdict
    /\ verdict' = NoSummary
    /\ UNCHANGED <<watched, frames, limits, timer>>

-----------------------------------------------------------------------------
(* Time *)

Older(a) == IF a < Far THEN a + 1 ELSE a

\* The age of the frame received last, once the first is counted.
Quiet == IF arriving = "none" THEN age ELSE arrivedAge

\* A ready timer does not wait for a free executor, and nothing exceeds its
\* bound.  Frames are steady while the next one is received so early that it
\* is counted before the last is older than the limit.
Elapse ==
    /\ executor = "free" => ~due
    /\ executor = "zero" => spent < MaxBlock
    /\ executor \in {"judging", "publishing"} => spent < Lag
    /\ arriving # "none" => arrivedAge < Lag
    /\ age' = Older(age)
    /\ goodAge' = Older(goodAge)
    /\ arrivedAge' = IF arriving = "none" THEN 0 ELSE arrivedAge + 1
    /\ steady' = (steady /\ (seen => Quiet + 1 + Lag <= parameter))
    /\ spent' = IF executor = "free" THEN 0 ELSE spent + 1
    /\ due' = (due \/ untilDue = 1)
    /\ untilDue' = IF untilDue = 1 THEN Period ELSE untilDue - 1
    /\ UNCHANGED <<watched, seen, operational, arriving, limits, executor, output>>

DiagnosticsNext ==
    \/ ReceiveFrame \/ CountFrame
    \/ SetLimit \/ BeginZero \/ EndZero
    \/ BeginRound \/ Judge \/ PublishReport
    \/ Elapse

DiagnosticsSpec == DiagnosticsInit /\ [][DiagnosticsNext]_diagnostics

-----------------------------------------------------------------------------
(* Properties *)

\* A report of OK stands for fresh data: while it is the last one published,
\* the last good frame is older than its limit by no more than a period of the
\* updater, a zero call in its way and the round that replaces it
\* (diagnostics.py:97, 126; driver.py:300).
ReportFresh ==
    report.says = "ok" => goodAge <= report.limit + Period + MaxBlock + Lag

\* Frames that kept coming early enough for the limit the user set are not
\* reported as lost (diagnostics.py:97, 126; driver.py:146-150).
NoFalseAlarm == ~(report.says = "error" /\ report.steady)
=============================================================================
