---------------------------- MODULE Driver_proofs ----------------------------
(***************************************************************************)
(* Proofs about Driver: whatever the number of frames, each is counted and *)
(* published once, the statistics are of one frame, the inversions in use  *)
(* are those asked for, and no dropped frame is reported twice.            *)
(***************************************************************************)
EXTENDS Driver, TLAPS

-----------------------------------------------------------------------------
(* The inductive invariant *)

\* A handler that is under way handles a frame that is published.
UnderWay ==
    /\ handling.step # "idle" => handling.kind \in Topics
    /\ handling.step = "angle" => handling.kind = "track"

\* The last track is ahead of the statistics while it is handled.
TracksMatch ==
    /\ stats.track = stats.count["track"]
    /\ lastTrack = stats.track + IF ~Resting /\ handling.kind = "track" THEN 1 ELSE 0

\* Only a request that is being carried out differs from what is in use.
ParametersMatch ==
    /\ \A a \in Axes : a \in pending \/ inverted[a] = requested[a]
    /\ task # "setting" => pending = {}

\* What a handler read is what was asked for, unless that changed meanwhile.
FlipsMatch ==
    settled /\ ~Resting =>
       /\ pending = {}
       /\ handling.kind \in {"track", "markers"} =>
             handling.flip["position"] = requested["position"]
       /\ handling.kind = "track" /\ handling.step # "angle" =>
             handling.flip["angle"] = requested["angle"]

\* What the reports said, all together, is what the next one starts from.
ReportsMatch == told = prevBad

Inv == TypeOK /\ UnderWay /\ Accounted /\ TracksMatch /\ ParametersMatch
       /\ FlipsMatch /\ ReportsMatch

-----------------------------------------------------------------------------
(* Counting a frame *)

\* A frame adds one to the counter of its kind and leaves the others alone.
LEMMA PlusCounts ==
    ASSUME TypeOK, NEW k \in Kinds
    PROVE  /\ Plus(k) \in [Kinds -> Nat]
           /\ \A c \in Kinds : Plus(k)[c] = IF c = k THEN stats.count[c] + 1 ELSE stats.count[c]
  BY DEF Plus, CountedAs, TypeOK

\* So the total grows by one.
LEMMA TotalGrows ==
    ASSUME TypeOK, NEW k \in Kinds, stats'.count = Plus(k)
    PROVE  Total' = Total + 1
<1> DEFINE n == stats.count
           m == stats'.count
<1>1. \A c \in Kinds : n[c] \in Nat
  BY DEF TypeOK
<1>2. \A c \in Kinds : m[c] = IF c = k THEN n[c] + 1 ELSE n[c]
  BY PlusCounts
<1>3. k \in {"track", "markers", "navicode", "heartbeat", "sdo", "bad", "unknown", "other"}
  BY DEF Kinds, Topics
<1>4. {"track", "markers", "navicode", "heartbeat", "sdo", "bad", "unknown", "other"}
         \subseteq Kinds
  BY DEF Kinds, Topics
<1>5. Total = n["track"] + n["markers"] + n["navicode"] + n["heartbeat"]
                + n["sdo"] + n["bad"] + n["unknown"] + n["other"]
  BY DEF Total
<1>6. Total' = m["track"] + m["markers"] + m["navicode"] + m["heartbeat"]
                 + m["sdo"] + m["bad"] + m["unknown"] + m["other"]
  BY DEF Total
<1> HIDE DEF n, m
<1> QED  BY <1>1, <1>2, <1>3, <1>4, <1>5, <1>6

\* The total changes only with the statistics.
LEMMA TotalSame ==
    ASSUME UNCHANGED stats
    PROVE  Total' = Total
  BY DEF Total

\* The total is a number.
LEMMA TotalNat == ASSUME TypeOK PROVE Total \in Nat
<1>1. \A c \in Kinds : stats.count[c] \in Nat
  BY DEF TypeOK
<1> QED  BY <1>1 DEF Total, Kinds, Topics

\* Inv holds initially.
LEMMA InvInit == Init => Inv
<1> SUFFICES ASSUME Init PROVE Inv
  OBVIOUS
<1>1. TypeOK
  BY DEF Init, TypeOK, Idle, Kinds, Steps
<1>2. Resting /\ handling.step = "idle"
  BY DEF Init, Idle, Resting
<1>3. \A c \in Kinds : stats.count[c] = 0
  BY DEF Init
<1>4. Total = 0
  BY <1>3 DEF Total, Kinds, Topics
<1>5. \A t \in Topics : InFlight(t) = 0 /\ published[t] = 0 /\ stats.count[t] = 0
  BY <1>2, <1>3 DEF Init, InFlight, Kinds
<1>6. Accounted
  BY <1>2, <1>4, <1>5 DEF Accounted, Init
<1>7. TracksMatch
  BY <1>2, <1>3 DEF TracksMatch, Init, Kinds, Topics
<1> QED
  BY <1>1, <1>2, <1>6, <1>7
  DEF Inv, Init, UnderWay, ParametersMatch, FlipsMatch, ReportsMatch

-----------------------------------------------------------------------------
(* The reader's steps *)

\* A frame that is only counted keeps Inv.
LEMMA InvReceiveCounted ==
    ASSUME Inv, NEW k \in Kinds, ReceiveCounted(k)
    PROVE  Inv'
<1>1. /\ k \in Kinds /\ k \notin Topics /\ Resting /\ received' = received + 1
      /\ stats' = [stats EXCEPT !.count = Plus(k)]
      /\ settled' = (pending = {})
      /\ UNCHANGED <<handling, lastTrack, published, context, task, pending, requested,
                     inverted, taken, prevBad, told, closing>>
  BY DEF ReceiveCounted, Arrive, reader, executor, Resting
<1>2. /\ stats'.count = Plus(k) /\ stats'.track = stats.track
      /\ stats' \in [count : [Kinds -> Nat], track : Nat]
  BY <1>1, PlusCounts DEF Inv, TypeOK
<1>3. \A t \in Topics : stats'.count[t] = stats.count[t]
  BY <1>1, <1>2, PlusCounts DEF Inv, Kinds
<1>4. TypeOK'
  BY <1>1, <1>2 DEF Inv, TypeOK
<1>5. Total' = Total + 1 /\ Total \in Nat /\ received \in Nat
  BY <1>2, TotalGrows, TotalNat DEF Inv, TypeOK
<1>6. Accounted'
  <2>1. Resting' /\ received' = Total' + 0
    BY <1>1, <1>5 DEF Inv, Accounted, Resting
  <2>2. \A t \in Topics : InFlight(t)' = InFlight(t)
    BY <1>1 DEF InFlight
  <2> QED  BY <1>1, <1>3, <2>1, <2>2 DEF Inv, Accounted
<1>7. TracksMatch'
  BY <1>1, <1>2, <1>3 DEF Inv, TracksMatch, Resting, Topics
<1>8. UnderWay' /\ ParametersMatch' /\ FlipsMatch' /\ ReportsMatch'
  BY <1>1 DEF Inv, UnderWay, ParametersMatch, FlipsMatch, ReportsMatch, Resting
<1> QED  BY <1>4, <1>6, <1>7, <1>8 DEF Inv

\* A handler starts: nothing is counted or published yet.
LEMMA InvStarts ==
    ASSUME Inv, Arrive, UNCHANGED <<output, executor, context>>,
           NEW h \in [kind : Topics, step : {"angle", "publish"}, flip : [Axes -> BOOLEAN]],
           handling' = h,
           h.step = "angle" <=> h.kind = "track",
           h.kind \in {"track", "markers"} => h.flip["position"] = inverted["position"],
           lastTrack' = lastTrack + IF h.kind = "track" THEN 1 ELSE 0
    PROVE  Inv'
<1>1. /\ Resting /\ received' = received + 1 /\ settled' = (pending = {})
      /\ UNCHANGED <<stats, published, context, task, pending, requested,
                     inverted, taken, prevBad, told, closing>>
  BY DEF Arrive, output, executor, Resting
<1>2. ~Resting'
  BY DEF Resting
<1>3. TypeOK'
  BY <1>1 DEF Inv, TypeOK, Kinds, Topics, Steps
<1>4. Accounted'
  <2>1. Total' = Total /\ Total \in Nat /\ received = Total
    BY <1>1, TotalSame, TotalNat DEF Inv, Accounted, TypeOK
  <2>2. received' = Total' + 1
    BY <1>1, <2>1
  <2>3. \A t \in Topics : InFlight(t)' = InFlight(t)
    BY <1>1 DEF InFlight, Resting
  <2> QED  BY <1>1, <1>2, <2>2, <2>3 DEF Inv, Accounted
<1>5. TracksMatch'
  BY <1>1, <1>2 DEF Inv, TracksMatch, TypeOK
<1>6. FlipsMatch'
  <2> SUFFICES ASSUME pending = {} PROVE FlipsMatch'
    BY <1>1 DEF FlipsMatch
  <2>1. inverted["position"] = requested["position"]
    BY DEF Inv, ParametersMatch, Axes
  <2> QED  BY <1>1, <2>1 DEF FlipsMatch
<1>7. UnderWay' /\ ParametersMatch' /\ ReportsMatch'
  BY <1>1 DEF Inv, UnderWay, ParametersMatch, ReportsMatch
<1> QED  BY <1>3, <1>4, <1>5, <1>6, <1>7 DEF Inv

\* The arrival of a frame keeps Inv.
LEMMA InvReceive == Inv /\ Receive => Inv'
<1> SUFFICES ASSUME Inv, Receive PROVE Inv'
  OBVIOUS
<1>0. Idle.flip \in [Axes -> BOOLEAN] /\ inverted \in [Axes -> BOOLEAN]
      /\ lastTrack \in Nat /\ "position" \in Axes
  BY DEF Idle, Inv, TypeOK, Axes
<1>1. CASE \E k \in Kinds : ReceiveCounted(k)
  BY <1>1, InvReceiveCounted
<1>2. CASE ReceiveTrack
  <2> DEFINE h == [kind |-> "track", step |-> "angle",
                   flip |-> [Idle.flip EXCEPT !["position"] = inverted["position"]]]
  <2>1. h \in [kind : Topics, step : {"angle", "publish"}, flip : [Axes -> BOOLEAN]]
    BY <1>0 DEF Topics
  <2>2. handling' = h
    BY <1>2 DEF ReceiveTrack, Idle
  <2>3. h.flip["position"] = inverted["position"]
    BY <1>0
  <2>4. lastTrack' = lastTrack + IF h.kind = "track" THEN 1 ELSE 0
    BY <1>2 DEF ReceiveTrack
  <2> QED  BY <1>2, <2>1, <2>2, <2>3, <2>4, InvStarts DEF ReceiveTrack
<1>3. CASE ReceiveMarkers
  <2> DEFINE h == [kind |-> "markers", step |-> "publish",
                   flip |-> [Idle.flip EXCEPT !["position"] = inverted["position"]]]
  <2>1. h \in [kind : Topics, step : {"angle", "publish"}, flip : [Axes -> BOOLEAN]]
    BY <1>0 DEF Topics
  <2>2. handling' = h
    BY <1>3 DEF ReceiveMarkers, Idle
  <2>3. h.flip["position"] = inverted["position"]
    BY <1>0
  <2>4. lastTrack' = lastTrack + IF h.kind = "track" THEN 1 ELSE 0
    BY <1>0, <1>3 DEF ReceiveMarkers
  <2> QED  BY <1>3, <2>1, <2>2, <2>3, <2>4, InvStarts DEF ReceiveMarkers
<1>4. CASE ReceiveNavicode
  <2> DEFINE h == [kind |-> "navicode", step |-> "publish", flip |-> Idle.flip]
  <2>1. h \in [kind : Topics, step : {"angle", "publish"}, flip : [Axes -> BOOLEAN]]
    BY <1>0 DEF Topics
  <2>2. handling' = h
    BY <1>4 DEF ReceiveNavicode, Idle
  <2>3. lastTrack' = lastTrack + IF h.kind = "track" THEN 1 ELSE 0
    BY <1>0, <1>4 DEF ReceiveNavicode
  <2> QED  BY <1>4, <2>1, <2>2, <2>3, InvStarts DEF ReceiveNavicode
<1> QED  BY <1>1, <1>2, <1>3, <1>4 DEF Receive

\* Reading the second parameter keeps Inv.
LEMMA InvReadAngle == Inv /\ ReadAngle => Inv'
<1> SUFFICES ASSUME Inv, ReadAngle PROVE Inv'
  OBVIOUS
<1> DEFINE f == [handling.flip EXCEPT !["angle"] = inverted["angle"]]
<1>1. /\ handling.step = "angle" /\ handling.kind = "track"
      /\ handling' = [handling EXCEPT !.step = "publish", !.flip["angle"] = inverted["angle"]]
      /\ UNCHANGED <<lastTrack, stats, published, context, task, pending, requested,
                     inverted, taken, prevBad, told, closing, received, settled>>
  BY DEF ReadAngle, output, executor, history, Inv, UnderWay
<1>2. handling.flip \in [Axes -> BOOLEAN] /\ inverted \in [Axes -> BOOLEAN]
      /\ "angle" \in Axes /\ "position" \in Axes /\ "angle" # "position"
  BY DEF Inv, TypeOK, Axes
<1>3. /\ handling' = [kind |-> handling.kind, step |-> "publish", flip |-> f]
      /\ f \in [Axes -> BOOLEAN] /\ f["angle"] = inverted["angle"]
      /\ f["position"] = handling.flip["position"]
  BY <1>1, <1>2 DEF Inv, TypeOK
<1>4. handling'.kind = "track" /\ handling'.step = "publish" /\ handling'.flip = f
      /\ ~Resting /\ ~Resting'
  BY <1>1, <1>3 DEF Resting
<1> HIDE DEF f
<1>5. TypeOK'
  BY <1>1, <1>3 DEF Inv, TypeOK, Kinds, Topics, Steps
<1>6. Accounted'
  <2>1. Total' = Total /\ \A t \in Topics : InFlight(t)' = InFlight(t)
    BY <1>1, <1>4, TotalSame DEF InFlight
  <2> QED  BY <1>1, <1>4, <2>1 DEF Inv, Accounted
<1>7. FlipsMatch'
  <2> SUFFICES ASSUME settled PROVE FlipsMatch'
    BY <1>1 DEF FlipsMatch
  <2>1. pending = {} /\ handling.flip["position"] = requested["position"]
    BY <1>1, <1>4 DEF Inv, FlipsMatch
  <2>2. inverted["angle"] = requested["angle"]
    BY <2>1 DEF Inv, ParametersMatch, Axes
  <2> QED  BY <1>1, <1>3, <1>4, <2>1, <2>2 DEF FlipsMatch
<1>8. UnderWay' /\ TracksMatch' /\ ParametersMatch' /\ ReportsMatch'
  BY <1>1, <1>4 DEF Inv, UnderWay, TracksMatch, ParametersMatch, ReportsMatch, Topics
<1> QED  BY <1>5, <1>6, <1>7, <1>8 DEF Inv

\* So does the test of the flag before.
LEMMA InvTestClosing == Inv /\ TestClosing => Inv'
<1> SUFFICES ASSUME Inv, TestClosing PROVE Inv'
  OBVIOUS
<1> DEFINE k == handling.kind
<1>1. /\ handling.step = "publish" /\ k \in Topics
      /\ handling' = [handling EXCEPT !.step = IF closing THEN "count" ELSE "publishing"]
      /\ UNCHANGED <<lastTrack, stats, published, context, task, pending, requested,
                     inverted, taken, prevBad, told, closing, received, settled>>
  BY DEF TestClosing, output, executor, history, Inv, UnderWay
<1>2. /\ handling'.kind = k /\ handling'.flip = handling.flip
      /\ handling'.step = IF closing THEN "count" ELSE "publishing"
      /\ handling' \in [kind : Kinds, step : Steps, flip : [Axes -> BOOLEAN]]
      /\ ~Resting /\ ~Resting'
  BY <1>1 DEF Inv, TypeOK, Resting, Steps
<1>3. TypeOK'
  BY <1>1, <1>2 DEF Inv, TypeOK
<1>4. Accounted'
  <2>1. Total' = Total /\ received' = Total' + 1
    BY <1>1, <1>2, TotalSame DEF Inv, Accounted
  <2>2. ASSUME NEW t \in Topics
        PROVE  /\ published'[t] <= stats'.count[t] + InFlight(t)'
               /\ ~closing' /\ context' => published'[t] = stats'.count[t] + InFlight(t)'
    <3>1. InFlight(t) = 0 /\ InFlight(t)' \in {0, 1} /\ (~closing => InFlight(t)' = 0)
      BY <1>1, <1>2 DEF InFlight
    <3>2. published[t] \in Nat /\ stats.count[t] \in Nat
      BY DEF Inv, TypeOK, Kinds
    <3>3. /\ published[t] <= stats.count[t]
          /\ ~closing /\ context => published[t] = stats.count[t]
      BY <3>1, <3>2 DEF Inv, Accounted
    <3> QED  BY <1>1, <3>1, <3>2, <3>3
  <2> QED  BY <1>1, <1>2, <2>1, <2>2 DEF Accounted
<1>5. FlipsMatch'
  BY <1>1, <1>2 DEF Inv, FlipsMatch
<1>6. UnderWay' /\ TracksMatch' /\ ParametersMatch' /\ ReportsMatch'
  BY <1>1, <1>2 DEF Inv, UnderWay, TracksMatch, ParametersMatch, ReportsMatch
<1> QED  BY <1>3, <1>4, <1>5, <1>6 DEF Inv

\* Publishing keeps Inv.
LEMMA InvPublish == Inv /\ Publish => Inv'
<1> SUFFICES ASSUME Inv, Publish PROVE Inv'
  OBVIOUS
<1> DEFINE k == handling.kind
<1>1. /\ handling.step = "publishing" /\ k \in Topics
      /\ published' \in {published, [published EXCEPT ![k] = @ + 1]}
      /\ ~closing /\ context => published' = [published EXCEPT ![k] = @ + 1]
      /\ handling' = [handling EXCEPT !.step = "count"]
      /\ UNCHANGED <<lastTrack, stats, context, task, pending, requested,
                     inverted, taken, prevBad, told, closing, received, settled>>
  BY DEF Publish, executor, history, Inv, UnderWay
<1>2. /\ handling'.kind = k /\ handling'.step = "count" /\ handling'.flip = handling.flip
      /\ handling' \in [kind : Kinds, step : Steps,
                         flip : [Axes -> BOOLEAN]]
      /\ ~Resting /\ ~Resting'
  BY <1>1 DEF Inv, TypeOK, Resting, Steps
<1>3. TypeOK'
  BY <1>1, <1>2 DEF Inv, TypeOK
<1>4. Accounted'
  <2>1. Total' = Total /\ received' = Total' + 1
    BY <1>1, <1>2, TotalSame DEF Inv, Accounted
  <2>2. ASSUME NEW t \in Topics
        PROVE  /\ published[t] \in Nat /\ stats.count[t] \in Nat
               /\ published[t] <= stats.count[t]
               /\ ~closing /\ context => published[t] = stats.count[t]
               /\ InFlight(t)' = IF t = k THEN 1 ELSE 0
               /\ published'[t] \in {published[t], published[t] + IF t = k THEN 1 ELSE 0}
               /\ ~closing /\ context =>
                     published'[t] = published[t] + IF t = k THEN 1 ELSE 0
    <3>1. InFlight(t) = 0 /\ InFlight(t)' = IF t = k THEN 1 ELSE 0
      BY <1>1, <1>2 DEF InFlight
    <3>2. published[t] \in Nat /\ stats.count[t] \in Nat
      BY DEF Inv, TypeOK, Kinds
    <3> QED  BY <1>1, <3>1, <3>2 DEF Inv, Accounted, TypeOK
  <2>3. ASSUME NEW t \in Topics
        PROVE  /\ published'[t] <= stats.count[t] + InFlight(t)'
               /\ ~closing /\ context => published'[t] = stats.count[t] + InFlight(t)'
    <3> HIDE DEF k
    <3>1. CASE t = k
      BY <2>2, <3>1
    <3>2. CASE t # k
      BY <2>2, <3>2
    <3> QED  BY <3>1, <3>2
  <2> QED  BY <1>1, <1>2, <2>1, <2>3 DEF Accounted
<1>5. FlipsMatch'
  BY <1>1, <1>2 DEF Inv, FlipsMatch
<1>6. UnderWay' /\ TracksMatch' /\ ParametersMatch' /\ ReportsMatch'
  BY <1>1, <1>2 DEF Inv, UnderWay, TracksMatch, ParametersMatch, ReportsMatch
<1> QED  BY <1>3, <1>4, <1>5, <1>6 DEF Inv

\* Counting a published frame keeps Inv.
LEMMA InvCount == Inv /\ Count => Inv'
<1> SUFFICES ASSUME Inv, Count PROVE Inv'
  OBVIOUS
<1> DEFINE k == handling.kind
<1>1. /\ handling.step = "count" /\ k \in Topics /\ k \in Kinds
      /\ stats' = [count |-> Plus(k), track |-> IF k = "track" THEN lastTrack ELSE stats.track]
      /\ handling' = Idle
      /\ UNCHANGED <<lastTrack, published, context, task, pending, requested,
                     inverted, taken, prevBad, told, closing, received, settled>>
  BY DEF Count, executor, history, Inv, UnderWay, Kinds
<1>2. ~Resting /\ Resting'
  BY <1>1 DEF Resting, Idle
<1>3. /\ stats'.count = Plus(k)
      /\ stats'.track = IF k = "track" THEN lastTrack ELSE stats.track
  BY <1>1
<1>4. /\ Plus(k) \in [Kinds -> Nat]
      /\ \A c \in Kinds : stats'.count[c] = IF c = k THEN stats.count[c] + 1 ELSE stats.count[c]
  BY <1>1, <1>3, PlusCounts DEF Inv
<1>5. TypeOK'
  <2>1. stats' \in [count : [Kinds -> Nat], track : Nat]
    BY <1>1, <1>4 DEF Inv, TypeOK
  <2>2. handling' \in [kind : Kinds, step : Steps,
                       flip : [Axes -> BOOLEAN]]
    BY <1>1 DEF Idle, Kinds, Steps
  <2> QED  BY <1>1, <2>1, <2>2 DEF Inv, TypeOK
<1>6. Accounted'
  <2>1. Total' = Total + 1 /\ Total \in Nat
    BY <1>1, <1>3, TotalGrows, TotalNat DEF Inv
  <2>2. received' = Total' + 0
    BY <1>1, <1>2, <2>1 DEF Inv, Accounted
  <2>3. ASSUME NEW t \in Topics
        PROVE  stats'.count[t] + InFlight(t)' = stats.count[t] + InFlight(t)
    <3>1. InFlight(t) = (IF t = k THEN 1 ELSE 0) /\ InFlight(t)' = 0
      BY <1>1 DEF InFlight, Idle
    <3>2. stats.count[t] \in Nat
          /\ stats'.count[t] = IF t = k THEN stats.count[t] + 1 ELSE stats.count[t]
      BY <1>4 DEF Inv, TypeOK, Kinds
    <3> QED  BY <3>1, <3>2
  <2> QED  BY <1>1, <1>2, <2>2, <2>3 DEF Inv, Accounted
<1>7. TracksMatch'
  <2>1. "track" \in Kinds /\ lastTrack \in Nat /\ stats.track \in Nat
    BY DEF Inv, TypeOK, Kinds, Topics
  <2>2. stats'.count["track"] = IF k = "track" THEN stats.count["track"] + 1
                                ELSE stats.count["track"]
    BY <1>4, <2>1
  <2>3. /\ stats.track = stats.count["track"]
        /\ lastTrack = stats.track + IF k = "track" THEN 1 ELSE 0
    BY <1>2 DEF Inv, TracksMatch
  <2>4. CASE k = "track"
    BY <1>1, <1>2, <1>3, <2>1, <2>2, <2>3, <2>4 DEF TracksMatch
  <2>5. CASE k # "track"
    BY <1>1, <1>2, <1>3, <2>1, <2>2, <2>3, <2>5 DEF TracksMatch
  <2> QED  BY <2>4, <2>5
<1>8. UnderWay' /\ FlipsMatch' /\ ParametersMatch' /\ ReportsMatch'
  BY <1>1, <1>2
  DEF Inv, UnderWay, FlipsMatch, ParametersMatch, ReportsMatch, Resting
<1> QED  BY <1>5, <1>6, <1>7, <1>8 DEF Inv

-----------------------------------------------------------------------------
(* The executor's steps *)

\* The reader's part of the invariant does not depend on them, except that the
\* node may close and its context may go.
LEMMA ReaderKept ==
    ASSUME Inv, UNCHANGED <<reader, output, received>>,
           ~closing' /\ context' => ~closing /\ context
    PROVE  UnderWay' /\ Accounted' /\ TracksMatch'
<1>1. UNCHANGED <<handling, lastTrack, stats, published, received>>
  BY DEF reader, output
<1>2. Total' = Total /\ \A t \in Topics : InFlight(t)' = InFlight(t)
  BY <1>1, TotalSame DEF InFlight
<1> QED
  BY <1>1, <1>2 DEF Inv, UnderWay, Accounted, TracksMatch, Resting

\* A parameter request keeps Inv.
LEMMA InvBeginSet == Inv /\ BeginSet => Inv'
<1> SUFFICES ASSUME Inv, BeginSet PROVE Inv'
  OBVIOUS
<1>1. PICK names \in (SUBSET Axes) \ {{}}, values \in [Axes -> BOOLEAN] :
         /\ pending' = names
         /\ requested' = [a \in Axes |-> IF a \in names THEN values[a] ELSE requested[a]]
  BY DEF BeginSet
<1>2. /\ task = "spin" /\ task' = "setting" /\ settled' = FALSE
      /\ UNCHANGED <<handling, lastTrack, stats, published, inverted, taken, prevBad, told,
                     closing, context, received>>
  BY DEF BeginSet, reader, output
<1>3. TypeOK'
  BY <1>1, <1>2 DEF Inv, TypeOK
<1>4. UnderWay' /\ Accounted' /\ TracksMatch'
  BY <1>2, ReaderKept DEF reader, output
<1>5. ParametersMatch'
  <2>1. pending = {}
    BY <1>2 DEF Inv, ParametersMatch
  <2> QED  BY <1>1, <1>2, <2>1 DEF Inv, ParametersMatch
<1> QED  BY <1>2, <1>3, <1>4, <1>5 DEF Inv, FlipsMatch, ReportsMatch

\* The assignment of a parameter keeps Inv.
LEMMA InvAssign == ASSUME Inv, NEW a \in Axes, Assign(a) PROVE Inv'
<1>1. /\ task = "setting" /\ a \in pending
      /\ inverted' = [inverted EXCEPT ![a] = requested[a]]
      /\ pending' = pending \ {a}
      /\ task' = IF pending = {a} THEN "spin" ELSE "setting"
      /\ UNCHANGED <<handling, lastTrack, stats, published, requested, taken, prevBad, told,
                     closing, context, received, settled>>
  BY DEF Assign, reader, output, history
<1>2. TypeOK'
  BY <1>1 DEF Inv, TypeOK
<1>3. UnderWay' /\ Accounted' /\ TracksMatch'
  BY <1>1, ReaderKept DEF reader, output
<1>4. ParametersMatch'
  BY <1>1 DEF Inv, TypeOK, ParametersMatch
<1>5. FlipsMatch'
  BY <1>1 DEF Inv, FlipsMatch, Resting
<1> QED  BY <1>1, <1>2, <1>3, <1>4, <1>5 DEF Inv, ReportsMatch

\* The frame-error task keeps Inv.
LEMMA InvReports == Inv /\ (TakeErrors \/ ReportErrors) => Inv'
<1> SUFFICES ASSUME Inv, TakeErrors \/ ReportErrors PROVE Inv'
  OBVIOUS
<1>1. /\ task \in {"spin", "reporting"} /\ task' \in {"spin", "reporting"}
      /\ UNCHANGED <<handling, lastTrack, stats, published, pending, requested, inverted,
                     closing, context, received, settled>>
  BY DEF TakeErrors, ReportErrors, reader, output, history
<1>2. /\ taken' \in Nat /\ prevBad' \in Nat /\ told' = prevBad'
  <2>1. told \in Nat /\ prevBad \in Nat /\ taken \in Nat /\ told = prevBad
        /\ stats.count["bad"] \in Nat
    BY DEF Inv, TypeOK, ReportsMatch, Kinds
  <2> QED  BY <2>1 DEF TakeErrors, ReportErrors
<1>3. TypeOK'
  BY <1>1, <1>2 DEF Inv, TypeOK
<1>4. UnderWay' /\ Accounted' /\ TracksMatch'
  BY <1>1, ReaderKept DEF reader, output
<1>5. ParametersMatch' /\ FlipsMatch'
  BY <1>1 DEF Inv, ParametersMatch, FlipsMatch, Resting
<1> QED  BY <1>2, <1>3, <1>4, <1>5 DEF Inv, ReportsMatch

\* Closing and the end of the context keep Inv.
LEMMA InvEnds == Inv /\ (Destroy \/ ContextDown) => Inv'
<1> SUFFICES ASSUME Inv, Destroy \/ ContextDown PROVE Inv'
  OBVIOUS
<1>1. /\ task' \in {"spin", "setting", "reporting", "destroyed"}
      /\ task # "setting" <=> task' # "setting"
      /\ closing' \in BOOLEAN /\ context' \in BOOLEAN
      /\ ~closing' /\ context' => ~closing /\ context
      /\ UNCHANGED <<handling, lastTrack, stats, published, pending, requested, inverted,
                     taken, prevBad, told, received, settled>>
  BY DEF Destroy, ContextDown, reader, output, history, executor, Inv, TypeOK
<1>2. TypeOK'
  BY <1>1 DEF Inv, TypeOK
<1>3. UnderWay' /\ Accounted' /\ TracksMatch'
  BY <1>1, ReaderKept DEF reader, output
<1>4. ParametersMatch' /\ FlipsMatch' /\ ReportsMatch'
  BY <1>1 DEF Inv, ParametersMatch, FlipsMatch, Resting, ReportsMatch
<1> QED  BY <1>2, <1>3, <1>4 DEF Inv

\* Inv is inductive.
LEMMA InvNext == Inv /\ [Next]_vars => Inv'
<1> SUFFICES ASSUME Inv, [Next]_vars PROVE Inv'
  OBVIOUS
<1>1. CASE Receive
  BY <1>1, InvReceive
<1>2. CASE Proceed
  BY <1>2, InvReadAngle, InvTestClosing, InvPublish, InvCount DEF Proceed
<1>3. CASE BeginSet
  BY <1>3, InvBeginSet
<1>4. CASE \E a \in Axes : Assign(a)
  BY <1>4, InvAssign
<1>5. CASE TakeErrors \/ ReportErrors
  BY <1>5, InvReports
<1>6. CASE Destroy \/ ContextDown
  BY <1>6, InvEnds
<1>7. CASE UNCHANGED vars
  <2>1. UNCHANGED <<handling, lastTrack, stats, published, pending, requested, inverted, task,
                   taken, prevBad, told, received, settled, closing, context>>
    BY <1>7 DEF vars, reader, output, executor, history
  <2>2. TypeOK'
    BY <2>1 DEF Inv, TypeOK
  <2>3. UnderWay' /\ Accounted' /\ TracksMatch'
    BY <2>1, ReaderKept DEF reader, output
  <2> QED
    BY <2>1, <2>2, <2>3 DEF Inv, ParametersMatch, FlipsMatch, Resting, ReportsMatch
<1> QED  BY <1>1, <1>2, <1>3, <1>4, <1>5, <1>6, <1>7 DEF Next

\* Inv is an invariant.
LEMMA InvHolds == Spec => []Inv
  BY InvInit, InvNext, PTL DEF Spec

-----------------------------------------------------------------------------
(* The results *)

\* Every variable keeps its type (the state of driver.py and diagnostics.py).
THEOREM TypeCorrect == Spec => []TypeOK
<1>1. Inv => TypeOK
  BY DEF Inv
<1> QED  BY <1>1, InvHolds, PTL

\* Every frame that _on_frame takes is counted once and published at most once.
THEOREM AccountedSafe == Spec => []Accounted
<1>1. Inv => Accounted
  BY DEF Inv
<1> QED  BY <1>1, InvHolds, PTL

\* The diagnostics read the count and the track of one and the same frame.
THEOREM ConsistentSafe == Spec => []StatsConsistent
<1>1. Inv => StatsConsistent
  BY DEF Inv, TypeOK, TracksMatch, StatsConsistent
<1> QED  BY <1>1, InvHolds, PTL

\* A frame that arrives after _on_set_parameters uses the values that were set.
THEOREM AppliedSafe == Spec => []AppliedAtOnce
<1>1. Inv => AppliedAtOnce
  BY DEF Inv, FlipsMatch, AppliedAtOnce, Resting
<1> QED  BY <1>1, InvHolds, PTL

-----------------------------------------------------------------------------
(* The reports *)

\* What the reports know is no more than what was dropped.
Bounded == taken <= stats.count["bad"] /\ prevBad <= stats.count["bad"]

\* The counter of the dropped frames only grows.
LEMMA BadGrows ==
    ASSUME Inv, [Next]_vars
    PROVE  /\ stats.count["bad"] \in Nat /\ stats'.count["bad"] \in Nat
           /\ stats.count["bad"] <= stats'.count["bad"]
<1>1. TypeOK /\ "bad" \in Kinds
  BY DEF Inv, Kinds
<1>2. stats.count["bad"] \in Nat
  BY <1>1 DEF TypeOK
<1>3. ASSUME NEW k \in Kinds
      PROVE  Plus(k)["bad"] \in Nat /\ stats.count["bad"] <= Plus(k)["bad"]
  BY <1>1, <1>2, <1>3 DEF Plus
<1>4. CASE UNCHANGED stats
  BY <1>2, <1>4
<1>5. ASSUME NEW k \in Kinds, ReceiveCounted(k) PROVE stats'.count = Plus(k)
  BY <1>1, <1>5 DEF ReceiveCounted, TypeOK
<1>6. ASSUME Count PROVE stats'.count = Plus(handling.kind) /\ handling.kind \in Kinds
  BY <1>1, <1>6 DEF Count, TypeOK
<1>7. \/ UNCHANGED stats
      \/ \E k \in Kinds : ReceiveCounted(k)
      \/ Count
  BY DEF Next, Receive, Proceed, ReceiveTrack, ReceiveMarkers, ReceiveNavicode, ReadAngle,
         TestClosing, Publish, BeginSet, Assign, TakeErrors, ReportErrors, Destroy,
         ContextDown, output, vars
<1> QED  BY <1>2, <1>3, <1>4, <1>5, <1>6, <1>7

\* What the reports know is at most what was dropped.
LEMMA BoundedStep == Inv /\ Bounded /\ [Next]_vars => Bounded'
<1> SUFFICES ASSUME Inv, Bounded, [Next]_vars PROVE Bounded'
  OBVIOUS
<1> DEFINE bad == stats.count["bad"]
<1>1. /\ bad \in Nat /\ bad' \in Nat /\ bad <= bad'
      /\ taken \in Nat /\ prevBad \in Nat /\ taken <= bad /\ prevBad <= bad
  BY BadGrows DEF Inv, TypeOK, Bounded
<1>2. taken' \in {taken, bad} /\ prevBad' \in {prevBad, taken}
  BY DEF Next, Receive, ReceiveCounted, Proceed, ReceiveTrack, ReceiveMarkers, ReceiveNavicode,
         ReadAngle, TestClosing, Publish, Count, BeginSet, Assign, TakeErrors, ReportErrors,
         Destroy, ContextDown, executor, vars
<1>3. taken' <= bad' /\ prevBad' <= bad'
  <2> HIDE DEF bad
  <2> QED  BY <1>1, <1>2
<1> QED  BY <1>3 DEF Bounded

\* No dropped frame is reported twice by _frame_errors_task.
THEOREM ReportedSafe == Spec => []ReportedOnce
<1>1. Init => Bounded
  BY DEF Init, Bounded, Kinds
<1>2. Inv /\ Bounded => ReportedOnce
  BY DEF Inv, ReportsMatch, Bounded, ReportedOnce
<1> QED  BY <1>1, <1>2, BoundedStep, InvHolds, PTL DEF Spec
=============================================================================
