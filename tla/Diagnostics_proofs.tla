------------------------- MODULE Diagnostics_proofs -------------------------
(***************************************************************************)
(* Proofs about Diagnostics, for every period, limit and bound that        *)
(* DiagnosticsAssumption allows.                                           *)
(***************************************************************************)
EXTENDS Diagnostics, TLAPS

\* The thread is timed from its start, and a frame is handled before the next.
TimerInv ==
    /\ executor = "free" => spent = 0
    /\ executor \in {"judging", "publishing"} /\ ~due => spent <= Period - untilDue
    /\ arriving # "none" => arrivedAge <= age /\ arrivedAge <= goodAge

\* The diagnostics have the limit of the user; the stamp is that of a good
\* frame when the state says so, always for data.
StampInv ==
    /\ limit = parameter
    /\ watched = "data" => arriving # "bad" /\ (seen => operational)
    /\ seen /\ operational => goodAge = age

\* While frames are steady the stamp keeps clear of the limit.
SteadyInv ==
    seen /\ steady =>
       /\ arriving = "none" => age + Lag <= parameter
       /\ arriving # "none" => age + Lag <= parameter + arrivedAge

\* Bound on the time since the clock was read for the report that is out.
Since ==
    IF executor \in {"judging", "publishing"} THEN Period + MaxBlock + spent
    ELSE IF ~due THEN Period - untilDue
    ELSE IF executor = "zero" THEN Period + spent ELSE Period + MaxBlock

ReportInv ==
    /\ report.says = "ok" => goodAge <= report.limit + Since
    /\ verdict.says = "ok" => executor = "publishing" /\ goodAge <= verdict.limit + spent
    /\ ~(report.says = "error" /\ report.steady)
    /\ ~(verdict.says = "error" /\ verdict.steady)

DiagnosticsInv == DiagnosticsTypeOK /\ TimerInv /\ StampInv /\ SteadyInv /\ ReportInv

-----------------------------------------------------------------------------

\* What a round publishes is a summary.
LEMMA SaysType == Says \in {"ok", "warn", "error"}
BY DEF Says

\* What the proofs use of the constants.
LEMMA ConstantFacts ==
    /\ Period \in Nat /\ 1 <= Period /\ MaxBlock \in Nat /\ Lag \in Nat /\ Lag <= Period
    /\ Far \in Nat /\ \A l \in Limits : l \in Nat
BY DiagnosticsAssumption

\* What they use of the types.
LEMMA TypeFacts ==
    ASSUME DiagnosticsTypeOK
    PROVE  /\ age \in Nat /\ age <= Far /\ goodAge \in Nat /\ goodAge <= Far
           /\ arrivedAge \in Nat /\ arrivedAge <= Lag
           /\ limit \in Nat /\ parameter \in Nat /\ Lag < Far
           /\ spent \in Nat /\ untilDue \in Nat /\ 1 <= untilDue /\ untilDue <= Period
           /\ executor = "zero" => spent <= MaxBlock
           /\ executor # "zero" => spent <= Lag
           /\ executor \in {"free", "zero", "judging", "publishing"}
           /\ arriving \in {"none", "good", "bad"} /\ watched \in {"heartbeat", "data"}
           /\ due \in BOOLEAN /\ operational \in BOOLEAN
           /\ seen \in BOOLEAN /\ steady \in BOOLEAN
           /\ report.says = "ok" => report.limit \in Nat
           /\ verdict.says = "ok" => verdict.limit \in Nat
<1> USE ConstantFacts
<1>0. Lag < Far
  BY DiagnosticsAssumption DEF DiagnosticsTypeOK
<1>1. /\ executor = "zero" => spent \in 0 .. MaxBlock
      /\ executor # "zero" => spent \in 0 .. Lag
  BY DEF DiagnosticsTypeOK
<1>2. /\ report.says = "ok" => report.limit \in Nat
      /\ verdict.says = "ok" => verdict.limit \in Nat
  BY DEF DiagnosticsTypeOK, Summaries, NoSummary
<1> QED  BY <1>0, <1>1, <1>2 DEF DiagnosticsTypeOK, Ages

\* The state of the first instant.
LEMMA DiagnosticsStart == DiagnosticsInit => DiagnosticsInv
<1> SUFFICES ASSUME DiagnosticsInit PROVE DiagnosticsInv
  OBVIOUS
<1>1. DiagnosticsTypeOK
  <2>1. age \in Ages /\ goodAge \in Ages /\ arrivedAge \in 0 .. Lag
    BY ConstantFacts DEF DiagnosticsInit, Ages
  <2>2. executor = "free" /\ spent \in 0 .. Lag /\ untilDue \in 1 .. Period
    BY ConstantFacts DEF DiagnosticsInit
  <2>3. /\ watched \in {"heartbeat", "data"} /\ parameter \in Limits /\ limit \in Limits
        /\ seen \in BOOLEAN /\ operational \in BOOLEAN /\ steady \in BOOLEAN
        /\ arriving \in {"none", "good", "bad"} /\ due \in BOOLEAN
        /\ verdict \in Summaries \cup {NoSummary} /\ report \in Summaries \cup {NoSummary}
    BY DEF DiagnosticsInit
  <2> QED  BY <2>1, <2>2, <2>3 DEF DiagnosticsTypeOK
<1>2. TimerInv /\ StampInv /\ SteadyInv
  BY DEF DiagnosticsInit, TimerInv, StampInv, SteadyInv
<1>3. ReportInv
  BY DEF DiagnosticsInit, ReportInv, NoSummary
<1> QED  BY <1>1, <1>2, <1>3 DEF DiagnosticsInv

\* Every step keeps the types.
LEMMA TypeStep ==
    ASSUME DiagnosticsInv, [DiagnosticsNext]_diagnostics PROVE DiagnosticsTypeOK'
<1> USE ConstantFacts
<1> USE DEF DiagnosticsInv, DiagnosticsTypeOK, frames, limits, timer, thread, output, Ages
<1>1. CASE ReceiveFrame      BY <1>1 DEF ReceiveFrame
<1>2. CASE CountFrame        BY <1>2, TypeFacts DEF CountFrame
<1>3. CASE SetLimit          BY <1>3 DEF SetLimit
<1>4. CASE BeginZero         BY <1>4 DEF BeginZero, TimerInv
<1>5. CASE EndZero           BY <1>5 DEF EndZero
<1>6. CASE BeginRound        BY <1>6 DEF BeginRound
<1>7. CASE Judge
  <2>1. verdict' \in Summaries
    BY <1>7, SaysType DEF Judge, Summaries
  <2> QED  BY <1>7, <2>1 DEF Judge
<1>8. CASE PublishReport     BY <1>8 DEF PublishReport
<1>9. CASE Elapse
  <2>1. age' \in Ages /\ goodAge' \in Ages
    BY <1>9 DEF Elapse, Older
  <2>2. arrivedAge' \in 0 .. Lag
    BY <1>9 DEF Elapse
  <2>3. spent' \in IF executor' = "zero" THEN 0 .. MaxBlock ELSE 0 .. Lag
    BY <1>9 DEF Elapse
  <2>4. due' \in BOOLEAN /\ untilDue' \in 1 .. Period /\ steady' \in BOOLEAN
    BY <1>9 DEF Elapse
  <2> QED  BY <1>9, <2>1, <2>2, <2>3, <2>4 DEF Elapse
<1>10. CASE UNCHANGED diagnostics  BY <1>10 DEF diagnostics
<1> QED
  BY <1>1, <1>2, <1>3, <1>4, <1>5, <1>6, <1>7, <1>8, <1>9, <1>10 DEF DiagnosticsNext

\* Every step keeps what the ages and the threads have to do with each other.
LEMMA ClockStep ==
    ASSUME DiagnosticsInv, [DiagnosticsNext]_diagnostics
    PROVE  TimerInv' /\ StampInv' /\ SteadyInv'
<1> DiagnosticsTypeOK  BY DEF DiagnosticsInv
<1> USE ConstantFacts, TypeFacts
<1> USE DEF DiagnosticsInv, TimerInv, StampInv, SteadyInv, frames, limits, timer, thread, output
<1>1. CASE ReceiveFrame      BY <1>1 DEF ReceiveFrame
<1>2. CASE CountFrame
  <2>1. TimerInv' /\ SteadyInv'
    BY <1>2 DEF CountFrame
  <2>2. StampInv'
    BY <1>2 DEF CountFrame
  <2> QED  BY <2>1, <2>2
<1>3. CASE SetLimit
  <2>1. TimerInv' /\ StampInv'
    BY <1>3 DEF SetLimit
  <2>2. parameter' \in Nat
    BY <1>3 DEF SetLimit
  <2>3. ASSUME seen', steady' PROVE age + Lag <= parameter'
    BY <1>3, <2>3, Zenon DEF SetLimit
  <2>4. SteadyInv'
    BY <1>3, <2>2, <2>3 DEF SetLimit
  <2> QED  BY <2>1, <2>4
<1>4. CASE BeginZero         BY <1>4 DEF BeginZero
<1>5. CASE EndZero           BY <1>5 DEF EndZero
<1>6. CASE BeginRound        BY <1>6 DEF BeginRound
<1>7. CASE Judge             BY <1>7 DEF Judge
<1>8. CASE PublishReport     BY <1>8 DEF PublishReport
<1>9. CASE Elapse
  <2>a. ASSUME arriving # "none" PROVE arrivedAge' <= age' /\ arrivedAge' <= goodAge'
    BY <1>9, <2>a DEF Elapse, Older
  <2>b. ASSUME executor \in {"judging", "publishing"}, ~due'
        PROVE  spent' <= Period - untilDue'
    <3>1. ~due /\ untilDue # 1
      BY <1>9, <2>b, Zenon DEF Elapse
    <3> QED  BY <1>9, <2>b, <3>1 DEF Elapse
  <2>1. TimerInv'
    BY <1>9, <2>a, <2>b DEF Elapse
  <2>2. StampInv'
    BY <1>9 DEF Elapse, Older
  <2>3. SteadyInv'
    <3>1. CASE arriving = "none"  BY <1>9, <3>1 DEF Elapse, Older, Quiet
    <3>2. CASE arriving # "none"  BY <1>9, <3>2 DEF Elapse, Older, Quiet
    <3> QED  BY <3>1, <3>2
  <2> QED  BY <2>1, <2>2, <2>3
<1>10. CASE UNCHANGED diagnostics  BY <1>10 DEF diagnostics
<1> QED
  BY <1>1, <1>2, <1>3, <1>4, <1>5, <1>6, <1>7, <1>8, <1>9, <1>10 DEF DiagnosticsNext

\* A verdict is what the stamp allows, whenever the clock was read.
LEMMA JudgedRight ==
    ASSUME DiagnosticsInv, Judge
    PROVE  /\ Says = "ok" => goodAge <= parameter + spent
           /\ ~(Says = "error" /\ seen /\ steady)
<1> DiagnosticsTypeOK  BY DEF DiagnosticsInv
<1> USE ConstantFacts, TypeFacts DEF DiagnosticsInv, StampInv
<1>1. ASSUME Says = "ok" PROVE goodAge <= parameter + spent
  <2>1. seen /\ age - spent <= limit /\ operational
    BY <1>1 DEF Says, MeasuredAge
  <2> QED  BY <2>1
<1>2. ASSUME seen, steady PROVE Says # "error"
  <2>1. age <= parameter
    BY <1>2 DEF SteadyInv
  <2> QED  BY <1>2, <2>1 DEF Says, MeasuredAge
<1> QED  BY <1>1, <1>2

\* Every step keeps the report honest.
LEMMA ReportStep ==
    ASSUME DiagnosticsInv, [DiagnosticsNext]_diagnostics PROVE ReportInv'
<1>t. DiagnosticsTypeOK
  BY DEF DiagnosticsInv
<1> USE ConstantFacts, TypeFacts, <1>t
<1> USE DEF DiagnosticsInv, ReportInv, Since, frames, limits, timer, thread, output
<1>1. CASE ReceiveFrame      BY <1>1 DEF ReceiveFrame
<1>2. CASE CountFrame
  <2>1. goodAge' <= goodAge
    BY <1>2 DEF CountFrame, TimerInv
  <2> QED  BY <1>2, <2>1 DEF CountFrame
<1>3. CASE SetLimit          BY <1>3 DEF SetLimit
<1>4. CASE BeginZero         BY <1>4 DEF BeginZero
<1>5. CASE EndZero           BY <1>5 DEF EndZero
<1>6. CASE BeginRound        BY <1>6 DEF BeginRound, TimerInv
<1>7. CASE Judge
  <2>1. verdict'.says = Says /\ verdict'.limit = parameter /\ verdict'.steady = (seen /\ steady)
    BY <1>7 DEF Judge
  <2> QED  BY <1>7, <2>1, JudgedRight DEF Judge
<1>8. CASE PublishReport
  <2>1. verdict'.says # "ok" /\ verdict'.says # "error"
    BY <1>8 DEF PublishReport, NoSummary
  <2>2. ASSUME verdict.says = "ok" PROVE goodAge <= verdict.limit + Since'
    BY <1>8, <2>2 DEF PublishReport, TimerInv
  <2> QED  BY <1>8, <2>1, <2>2 DEF PublishReport
<1>9. CASE Elapse
  <2>1. goodAge' \in Int /\ goodAge' <= goodAge + 1
    BY <1>9 DEF Elapse, Older
  <2>2. executor # "free" => spent' = spent + 1
    BY <1>9 DEF Elapse
  <2>3. Since + 1 <= Since'
    <3>d. /\ ~due' => ~due /\ untilDue # 1
          /\ due' => due \/ untilDue = 1
      BY <1>9, Zenon DEF Elapse
    <3>1. CASE executor \in {"judging", "publishing"}  BY <1>9, <3>1 DEF Elapse
    <3>2. CASE executor = "zero"                       BY <1>9, <3>d, <3>2 DEF Elapse
    <3>3. CASE executor = "free"                       BY <1>9, <3>d, <3>3 DEF Elapse
    <3> QED  BY <3>1, <3>2, <3>3
  <2>4. Since \in Int /\ Since' \in Int
    BY <1>9 DEF Elapse
  <2> HIDE DEF Since
  <2>5. report.says = "ok" => goodAge' <= report.limit + Since'
    BY <2>1, <2>3, <2>4
  <2>6. verdict.says = "ok" => executor = "publishing" /\ goodAge' <= verdict.limit + spent'
    BY <2>1, <2>2
  <2> QED  BY <1>9, <2>5, <2>6 DEF Elapse
<1>10. CASE UNCHANGED diagnostics  BY <1>10 DEF diagnostics
<1> QED
  BY <1>1, <1>2, <1>3, <1>4, <1>5, <1>6, <1>7, <1>8, <1>9, <1>10 DEF DiagnosticsNext

\* The bound on the time since a report's clock reading is what it should be.
LEMMA SinceBounded ==
    ASSUME DiagnosticsInv PROVE Since <= Period + MaxBlock + Lag /\ Since \in Int
BY ConstantFacts, TypeFacts DEF DiagnosticsInv, Since

\* The whole invariant, from its parts.
LEMMA DiagnosticsHolds == DiagnosticsSpec => []DiagnosticsInv
<1>1. DiagnosticsInv /\ [DiagnosticsNext]_diagnostics => DiagnosticsInv'
  BY TypeStep, ClockStep, ReportStep DEF DiagnosticsInv
<1> QED  BY <1>1, DiagnosticsStart, PTL DEF DiagnosticsSpec

-----------------------------------------------------------------------------

\* Every variable keeps its type (diagnostics.py:49-65).
THEOREM DiagnosticsTypeCorrect == DiagnosticsSpec => []DiagnosticsTypeOK
<1>1. DiagnosticsInv => DiagnosticsTypeOK
  BY DEF DiagnosticsInv
<1> QED  BY <1>1, DiagnosticsHolds, PTL

\* A report of OK stands for data no older than its limit and the delays
\* (diagnostics.py:97, 126; driver.py:300).
THEOREM ReportFreshAlways == DiagnosticsSpec => []ReportFresh
<1>1. ASSUME DiagnosticsInv PROVE ReportFresh
  <2>1. ASSUME report.says = "ok" PROVE goodAge <= report.limit + Period + MaxBlock + Lag
    <3>1. report.limit \in Nat /\ goodAge \in Nat
      BY <1>1, <2>1, TypeFacts DEF DiagnosticsInv
    <3>2. goodAge <= report.limit + Since
      BY <1>1, <2>1 DEF DiagnosticsInv, ReportInv
    <3> QED  BY <1>1, <3>1, <3>2, SinceBounded, ConstantFacts
  <2> QED  BY <2>1 DEF ReportFresh
<1> QED  BY <1>1, DiagnosticsHolds, PTL

\* Steady frames are never reported as lost (diagnostics.py:97, 126;
\* driver.py:146-150).
THEOREM NoFalseAlarmEver == DiagnosticsSpec => []NoFalseAlarm
<1>1. DiagnosticsInv => NoFalseAlarm
  BY DEF DiagnosticsInv, ReportInv, NoFalseAlarm
<1> QED  BY <1>1, DiagnosticsHolds, PTL
=============================================================================
