--------------------------- MODULE Navicode_proofs ---------------------------
(***************************************************************************)
(* Proofs about Navicode: for every number of counter values and whatever  *)
(* the bounds, is_new is raised once for every change the frames show.     *)
(***************************************************************************)
EXTENDS Navicode, TLAPS

-----------------------------------------------------------------------------
(* The counter *)

\* The successor of a counter value is the next one, or 0 after the last: what
\* the byte of the sensor does (decoder.py counter_advanced, "mod 256").
LEMMA Successor ==
    ASSUME NEW c \in Counters
    PROVE  (c + 1) % CounterValues = IF c + 1 = CounterValues THEN 0 ELSE c + 1
<1> DEFINE W == CounterValues
<1>1. W \in Nat /\ W > 0 /\ c \in Nat /\ c + 1 <= W
  BY CounterAssumption DEF Counters
<1>2. CASE c + 1 = W
  BY <1>1, <1>2
<1>3. CASE c + 1 < W
  BY <1>1, <1>3
<1> QED
  BY <1>1, <1>2, <1>3

-----------------------------------------------------------------------------
(* Types *)

\* Every variable keeps its type: the counter stays a byte, is_new a Boolean.
THEOREM TypeCorrect == Spec => []TypeOK
<1>1. Init => TypeOK
  <2> SUFFICES ASSUME Init PROVE TypeOK
    OBVIOUS
  <2> QED  BY DEF Init, TypeOK
<1>2. TypeOK /\ [Next]_vars => TypeOK'
  <2> SUFFICES ASSUME TypeOK, [Next]_vars PROVE TypeOK'
    OBVIOUS
  <2> USE DEF TypeOK, sensor, node, history
  <2>1. CASE Capture
    <3>1. counter' \in Counters
      BY <2>1, Successor, CounterAssumption DEF Capture, Counters
    <3> QED  BY <2>1, <3>1 DEF Capture
  <2>2. CASE Restart
    BY <2>2 DEF Restart
  <2>3. CASE ReceiveNavicode
    BY <2>3 DEF ReceiveNavicode, Observe, CounterAdvanced
  <2>4. CASE TestClosing \/ Publish
    BY <2>4 DEF TestClosing, Publish
  <2>5. CASE Count
    BY <2>5 DEF Count
  <2>6. CASE Destroy
    BY <2>6 DEF Destroy
  <2>7. CASE ContextDown
    BY <2>7 DEF ContextDown
  <2>8. CASE UNCHANGED vars
    BY <2>8 DEF vars
  <2> QED  BY <2>1, <2>2, <2>3, <2>4, <2>5, <2>6, <2>7, <2>8 DEF Next
<1> QED  BY <1>1, <1>2, PTL DEF Spec

-----------------------------------------------------------------------------
(* The inductive invariant *)

\* The message in hand will add this much to news.
Due == IF step \in {"publish", "publishing"} /\ isNew THEN 1 ELSE 0

Since == captures - seen.captures

\* The history runs behind the sensor.
SeenBehind ==
    /\ seen.captures <= captures
    /\ seen.restarts <= restarts

\* Where the counter is, given the last value seen and what was captured since,
\* as long as it has not gone round.
CounterFollows ==
    lastCounter # None /\ restarts = seen.restarts /\ Since < CounterValues =>
       counter = IF lastCounter + Since < CounterValues
                 THEN lastCounter + Since ELSE lastCounter + Since - CounterValues

NewsBehind == news + Due <= seen.captures + seen.restarts

NewsMatch == ~missable /\ ~closing /\ context => news + Due = changes

Inv == TypeOK /\ SeenBehind /\ CounterFollows /\ NewsBehind /\ NewsMatch

\* Inv holds initially.
LEMMA InvInit == Init => Inv
<1> SUFFICES ASSUME Init PROVE Inv
  OBVIOUS
<1>1. TypeOK
  BY DEF Init, TypeOK
<1>2. Due = 0
  BY DEF Init, Due
<1> QED
  BY <1>1, <1>2 DEF Init, Inv, SeenBehind, CounterFollows, NewsBehind, NewsMatch

\* A frame is news only if something happened since the last one, and if the
\* counter did not go round it is news whenever something happened.
LEMMA NewsMeansChange ==
    ASSUME TypeOK, SeenBehind, CounterFollows, lastCounter # None
    PROVE  /\ counter # lastCounter =>
                 captures # seen.captures \/ restarts # seen.restarts
           /\ restarts = seen.restarts /\ Since < CounterValues /\ captures # seen.captures =>
                 counter # lastCounter
<1> DEFINE W == CounterValues
           l == lastCounter
           d == Since
<1>1. W \in Nat /\ W > 0 /\ l \in Nat /\ l < W /\ d \in Nat
  BY CounterAssumption DEF TypeOK, Counters, SeenBehind, Since
<1>2. captures = seen.captures <=> d = 0
  BY DEF TypeOK, Since
<1>3. restarts = seen.restarts /\ d < W =>
         counter = IF l + d < W THEN l + d ELSE l + d - W
  BY DEF CounterFollows
<1> HIDE DEF l, d, W
<1>4. restarts = seen.restarts /\ d < W => (counter = l <=> d = 0)
  BY <1>1, <1>3
<1> QED  BY <1>1, <1>2, <1>4 DEF l, d, W

\* A capture keeps Inv.
LEMMA InvCapture == Inv /\ Capture => Inv'
<1> SUFFICES ASSUME Inv, Capture PROVE Inv'
  OBVIOUS
<1> USE DEF Inv
<1>1. /\ captures' = captures + 1
      /\ counter' = (counter + 1) % CounterValues
      /\ UNCHANGED <<restarts, step, isNew, lastCounter, closing, context, frames, news,
                     seen, changes, missable>>
  BY DEF Capture, node, history
<1>2. counter' = IF counter + 1 = CounterValues THEN 0 ELSE counter + 1
  BY <1>1, Successor DEF TypeOK
<1>3. TypeOK'
  BY <1>1, <1>2, CounterAssumption DEF TypeOK, Counters
<1>4. SeenBehind'
  BY <1>1 DEF SeenBehind, TypeOK
<1>5. CounterFollows'
  <2> SUFFICES ASSUME lastCounter # None, restarts = seen.restarts,
                      Since' < CounterValues
               PROVE  counter' = IF lastCounter + Since' < CounterValues
                                 THEN lastCounter + Since'
                                 ELSE lastCounter + Since' - CounterValues
    BY <1>1 DEF CounterFollows
  <2>1. Since' = Since + 1 /\ Since \in Nat
    BY <1>1 DEF Since, TypeOK, SeenBehind
  <2>2. counter = IF lastCounter + Since < CounterValues
                  THEN lastCounter + Since ELSE lastCounter + Since - CounterValues
    BY <2>1, CounterAssumption DEF CounterFollows
  <2>3. lastCounter \in Nat /\ lastCounter < CounterValues
    BY CounterAssumption DEF TypeOK, Counters
  <2> HIDE DEF Inv
  <2> QED  BY <1>2, <2>1, <2>2, <2>3, CounterAssumption
<1>6. NewsBehind' /\ NewsMatch'
  BY <1>1 DEF NewsBehind, NewsMatch, Due
<1> QED  BY <1>3, <1>4, <1>5, <1>6

\* The arrival of a frame keeps Inv.
LEMMA InvReceive == Inv /\ ReceiveNavicode => Inv'
<1> SUFFICES ASSUME Inv, ReceiveNavicode PROVE Inv'
  OBVIOUS
<1> USE DEF Inv
<1>1. /\ step = "idle" /\ step' = "publish"
      /\ isNew' = (lastCounter # None /\ counter # lastCounter)
      /\ lastCounter' = counter
      /\ UNCHANGED <<counter, captures, restarts, closing, context, frames, news>>
  BY DEF ReceiveNavicode, CounterAdvanced, sensor, node
<1>2. /\ seen' = [captures |-> captures, restarts |-> restarts]
      /\ changes' = IF lastCounter # None /\ seen' # seen THEN changes + 1 ELSE changes
      /\ missable' =
            \/ missable
            \/ lastCounter # None /\ restarts # seen.restarts
            \/ lastCounter # None /\ captures >= seen.captures + CounterValues
  BY DEF ReceiveNavicode, Observe
<1>3. TypeOK'
  BY <1>1, <1>2 DEF TypeOK
<1>4. SeenBehind'
  BY <1>1, <1>2 DEF SeenBehind, TypeOK
<1>5. CounterFollows'
  <2>1. Since' = 0
    BY <1>1, <1>2 DEF Since, TypeOK
  <2>2. counter \in Nat /\ counter < CounterValues
    BY CounterAssumption DEF TypeOK, Counters
  <2> QED  BY <1>1, <2>1, <2>2, CounterAssumption DEF CounterFollows
<1>6. Due = 0
  BY <1>1 DEF Due
<1>7. Due' = IF lastCounter # None /\ counter # lastCounter THEN 1 ELSE 0
  BY <1>1 DEF Due
<1>8. seen' # seen <=> captures # seen.captures \/ restarts # seen.restarts
  BY <1>2 DEF TypeOK
<1>9. NewsBehind'
  <2>1. Due' = 1 => captures # seen.captures \/ restarts # seen.restarts
    BY <1>7, NewsMeansChange
  <2>2. seen'.captures = captures /\ seen'.restarts = restarts
    BY <1>2
  <2>3. Due' \in {0, 1}
    BY <1>7
  <2>4. /\ captures \in Nat /\ restarts \in Nat /\ news \in Nat
        /\ seen.captures \in Nat /\ seen.restarts \in Nat
    BY DEF TypeOK
  <2>5. /\ news <= seen.captures + seen.restarts
        /\ seen.captures <= captures /\ seen.restarts <= restarts
    BY <1>6, <2>4 DEF NewsBehind, SeenBehind
  <2>6. news + Due' <= captures + restarts
    <3> DEFINE c == seen.captures
               r == seen.restarts
    <3>1. /\ captures \in Nat /\ restarts \in Nat /\ news \in Nat /\ c \in Nat /\ r \in Nat
          /\ news <= c + r /\ c <= captures /\ r <= restarts
          /\ Due' = 0 \/ captures # c \/ restarts # r
      BY <2>1, <2>3, <2>4, <2>5
    <3> HIDE DEF Inv, c, r
    <3>2. CASE Due' = 0
      BY <3>1, <3>2
    <3>3. CASE Due' = 1
      BY <3>1, <3>3
    <3> QED  BY <2>3, <3>2, <3>3
  <2> QED  BY <1>1, <2>2, <2>6 DEF NewsBehind
<1>10. NewsMatch'
  <2> SUFFICES ASSUME ~missable', ~closing, context
               PROVE  news + Due' = changes'
    BY <1>1 DEF NewsMatch
  <2>1. news = changes
    BY <1>2, <1>6 DEF NewsMatch, TypeOK
  <2>2. CASE lastCounter = None
    BY <1>2, <1>7, <2>1, <2>2 DEF TypeOK
  <2>3. CASE lastCounter # None
    <3>1. restarts = seen.restarts /\ Since < CounterValues
      BY <1>2, <2>3, CounterAssumption DEF Since, TypeOK
    <3>2. counter # lastCounter <=> seen' # seen
      BY <1>8, <2>3, <3>1, NewsMeansChange
    <3> QED  BY <1>2, <1>7, <2>1, <2>3, <3>2 DEF TypeOK
  <2> QED  BY <2>2, <2>3
<1> QED  BY <1>3, <1>4, <1>5, <1>9, <1>10

\* Inv is inductive.
LEMMA InvNext == Inv /\ [Next]_vars => Inv'
<1> SUFFICES ASSUME Inv, [Next]_vars PROVE Inv'
  OBVIOUS
<1>1. CASE Capture
  BY <1>1, InvCapture
<1>2. CASE Restart
  <2>1. /\ restarts' = restarts + 1 /\ counter' \in Counters
        /\ UNCHANGED <<captures, step, isNew, lastCounter, closing, context, frames, news,
                       seen, changes, missable>>
    BY <1>2 DEF Restart, node, history
  <2>2. TypeOK' /\ SeenBehind'
    BY <2>1 DEF Inv, TypeOK, SeenBehind
  <2>3. restarts' # seen.restarts
    BY <2>1 DEF Inv, TypeOK, SeenBehind
  <2>4. CounterFollows'
    BY <2>1, <2>3 DEF CounterFollows
  <2>5. NewsBehind' /\ NewsMatch'
    BY <2>1 DEF Inv, NewsBehind, NewsMatch, Due
  <2> QED  BY <2>2, <2>4, <2>5 DEF Inv
<1>3. CASE ReceiveNavicode
  BY <1>3, InvReceive
<1>4. CASE Publish
  <2>1. /\ step = "publishing" /\ step' = "count"
        /\ news' \in {news, IF isNew THEN news + 1 ELSE news}
        /\ ~closing /\ context => news' = IF isNew THEN news + 1 ELSE news
        /\ UNCHANGED <<counter, captures, restarts, isNew, lastCounter, closing, context,
                       frames, seen, changes, missable>>
    BY <1>4 DEF Publish, sensor, node, history
  <2>2. Due' = 0 /\ Due = (IF isNew THEN 1 ELSE 0) /\ news \in Nat
    BY <2>1 DEF Due, Inv, TypeOK
  <2>3. TypeOK' /\ SeenBehind' /\ CounterFollows'
    BY <2>1 DEF Inv, TypeOK, SeenBehind, CounterFollows, Since
  <2>4. /\ news' + Due' = news \/ news' + Due' = news + Due
        /\ ~closing /\ context => news' + Due' = news + Due
    <3>1. CASE isNew
      <4>1. Due = 1 /\ Due' = 0 /\ (news' = news \/ news' = news + 1)
            /\ (~closing /\ context => news' = news + 1)
        BY <2>1, <2>2, <3>1
      <4> QED  BY <2>2, <4>1
    <3>2. CASE ~isNew
      BY <2>1, <2>2, <3>2
    <3> QED  BY <3>1, <3>2
  <2>5. NewsBehind'
    <3>1. news + Due <= seen.captures + seen.restarts
          /\ seen.captures \in Nat /\ seen.restarts \in Nat
      BY DEF Inv, NewsBehind, TypeOK
    <3> QED  BY <2>1, <2>2, <2>4, <3>1 DEF NewsBehind
  <2>6. NewsMatch'
    BY <2>1, <2>4 DEF Inv, NewsMatch
  <2> QED  BY <2>3, <2>5, <2>6 DEF Inv
<1>5. CASE TestClosing
  <2>1. /\ step = "publish" /\ step' = IF closing THEN "count" ELSE "publishing"
        /\ UNCHANGED <<counter, captures, restarts, isNew, lastCounter, closing, context,
                       frames, news, seen, changes, missable>>
    BY <1>5 DEF TestClosing, sensor, node, history
  <2>2. /\ Due' \in {0, Due} /\ (~closing => Due' = Due) /\ Due \in {0, 1}
        /\ news \in Nat
    BY <2>1 DEF Due, Inv, TypeOK
  <2>3. TypeOK' /\ SeenBehind' /\ CounterFollows'
    BY <2>1 DEF Inv, TypeOK, SeenBehind, CounterFollows, Since
  <2>4. NewsBehind'
    <3>1. news + Due <= seen.captures + seen.restarts
          /\ seen.captures \in Nat /\ seen.restarts \in Nat
      BY DEF Inv, NewsBehind, TypeOK
    <3> QED  BY <2>1, <2>2, <3>1 DEF NewsBehind
  <2>5. NewsMatch'
    BY <2>1, <2>2 DEF Inv, NewsMatch
  <2> QED  BY <2>3, <2>4, <2>5 DEF Inv
<1>6. CASE Count
  <2>1. /\ step = "count" /\ step' = "idle" /\ frames' = frames + 1
        /\ UNCHANGED <<counter, captures, restarts, isNew, lastCounter, closing, context,
                       news, seen, changes, missable>>
    BY <1>6 DEF Count, sensor, node, history
  <2>2. Due' = 0 /\ Due = 0
    BY <2>1 DEF Due
  <2> QED
    BY <2>1, <2>2
    DEF Inv, TypeOK, SeenBehind, CounterFollows, Since, NewsBehind, NewsMatch
<1>7. CASE Destroy \/ ContextDown
  <2>1. /\ UNCHANGED <<counter, captures, restarts, step, isNew, lastCounter, frames, news,
                       seen, changes, missable>>
        /\ ~closing' /\ context' => ~closing /\ context
        /\ closing' \in BOOLEAN /\ context' \in BOOLEAN
    BY <1>7 DEF Destroy, ContextDown, sensor, history, Inv, TypeOK
  <2> QED
    BY <2>1 DEF Inv, TypeOK, SeenBehind, CounterFollows, Since, NewsBehind, NewsMatch, Due
<1>8. CASE UNCHANGED vars
  BY <1>8 DEF vars, sensor, node, history, Inv, TypeOK, SeenBehind, CounterFollows, Since,
              NewsBehind, NewsMatch, Due
<1> QED  BY <1>1, <1>2, <1>3, <1>4, <1>5, <1>6, <1>7, <1>8 DEF Next

\* Inv is an invariant.
LEMMA InvHolds == Spec => []Inv
  BY InvInit, InvNext, PTL DEF Spec

-----------------------------------------------------------------------------
(* The results *)

\* is_new is never raised for nothing (driver.py _handle_navicode).
THEOREM NotInvented == Spec => []NewsNotInvented
<1>1. Inv => NewsNotInvented
  BY DEF Inv, TypeOK, SeenBehind, NewsBehind, NewsNotInvented, Due
<1> QED  BY <1>1, InvHolds, PTL

\* is_new is raised for every change the frames show, across the wrap of the
\* counter.
THEOREM NotMissed == Spec => []NewsNotMissed
<1>1. Inv => NewsNotMissed
  BY DEF Inv, TypeOK, NewsMatch, NewsNotMissed, Due
<1> QED  BY <1>1, InvHolds, PTL
=============================================================================
