------------------------ MODULE LineFollower_proofs ------------------------
(***************************************************************************)
(* Proofs about LineFollower, for every queue, delay and period that       *)
(* FollowerAssumption allows.                                              *)
(***************************************************************************)
EXTENDS LineFollower, SequenceTheorems, TLAPS

\* The last frame with a tape is not older than any track with a tape that is
\* still queued, the one heard last, or the one the command was made from.
FollowerInv ==
    /\ FollowerTypeOK
    /\ \A i \in 1 .. Len(queue) : queue[i].tape => tapeAge <= queue[i].age
    /\ last = "tape" => tapeAge <= Delay + lastAge
    /\ running /\ command = "drive" => tapeAge <= Delay + Stale + sinceTick

\* What the proofs use of the constants.
LEMMA FollowerConstants ==
    /\ Depth \in Nat /\ 1 <= Depth /\ Delay \in Nat /\ Stale \in Nat
    /\ TickPeriod \in Nat /\ 1 <= TickPeriod /\ TooOld \in Nat
    /\ Delay + Stale + TickPeriod < TooOld
BY FollowerAssumption

\* The queue after a publication holds the new track and otherwise what it held.
LEMMA Enqueued ==
    ASSUME NEW q \in Seq(Tracks), Len(q) <= Depth, NEW t \in Tracks
    PROVE  /\ Enqueue(q, t) \in Seq(Tracks)
           /\ Len(Enqueue(q, t)) <= Depth
           /\ \A i \in 1 .. Len(Enqueue(q, t)) :
                 \/ Enqueue(q, t)[i] = t
                 \/ \E j \in 1 .. Len(q) : Enqueue(q, t)[i] = q[j]
<1> USE FollowerConstants
<1> DEFINE rest == IF Len(q) < Depth THEN q ELSE Tail(q)
<1>1. /\ rest \in Seq(Tracks) /\ Len(rest) <= Depth - 1
      /\ \A i \in 1 .. Len(rest) : \E j \in 1 .. Len(q) : rest[i] = q[j]
  <2>1. CASE Len(q) < Depth  BY <2>1
  <2>2. CASE ~(Len(q) < Depth)
    <3>1. q # <<>> /\ Len(q) = Depth
      BY <2>2
    <3>2. /\ Tail(q) \in Seq(Tracks) /\ Len(Tail(q)) = Len(q) - 1
          /\ \A i \in 1 .. Len(Tail(q)) : Tail(q)[i] = q[i + 1]
      BY <3>1
    <3> QED  BY <2>2, <3>1, <3>2
  <2> QED  BY <2>1, <2>2
<1> HIDE DEF rest
<1>2. /\ Append(rest, t) \in Seq(Tracks) /\ Len(Append(rest, t)) = Len(rest) + 1
      /\ \A i \in 1 .. Len(rest) : Append(rest, t)[i] = rest[i]
      /\ Append(rest, t)[Len(rest) + 1] = t
  BY <1>1
<1>3. Enqueue(q, t) = Append(rest, t)
  BY DEF Enqueue, rest
<1> QED  BY <1>1, <1>2, <1>3

\* What is left when the first track is taken.
LEMMA Taken ==
    ASSUME NEW q \in Seq(Tracks), q # <<>>
    PROVE  /\ Tail(q) \in Seq(Tracks) /\ Len(Tail(q)) = Len(q) - 1 /\ 1 <= Len(q)
           /\ \A i \in 1 .. Len(Tail(q)) : Tail(q)[i] = q[i + 1]
           /\ Head(q) = q[1] /\ q[1] \in Tracks
OBVIOUS

\* The queue a moment later.
LEMMA GrownOlder ==
    ASSUME NEW q \in Seq(Tracks), \A i \in 1 .. Len(q) : q[i].age < Delay
    PROVE  LET r == [i \in 1 .. Len(q) |-> [tape |-> q[i].tape, age |-> q[i].age + 1]]
           IN  /\ r \in Seq(Tracks) /\ Len(r) = Len(q)
               /\ \A i \in 1 .. Len(q) : r[i].tape = q[i].tape /\ r[i].age = q[i].age + 1
<1> USE FollowerConstants
<1> DEFINE r == [i \in 1 .. Len(q) |-> [tape |-> q[i].tape, age |-> q[i].age + 1]]
<1>0. \A i \in 1 .. Len(q) : q[i] \in Tracks
  OBVIOUS
<1>1. \A i \in 1 .. Len(q) : q[i].tape \in BOOLEAN /\ q[i].age \in 0 .. Delay
  BY <1>0 DEF Tracks
<1>2. \A i \in 1 .. Len(q) : [tape |-> q[i].tape, age |-> q[i].age + 1] \in Tracks
  <2> SUFFICES ASSUME NEW i \in 1 .. Len(q)
               PROVE  [tape |-> q[i].tape, age |-> q[i].age + 1] \in Tracks
    OBVIOUS
  <2>1. q[i].age + 1 \in 0 .. Delay /\ q[i].tape \in BOOLEAN
    BY <1>1
  <2> QED  BY <2>1 DEF Tracks
<1>3. r \in [1 .. Len(q) -> Tracks] /\ Len(q) \in Nat
  BY <1>2
<1>4. r \in Seq(Tracks)
  BY <1>3, SeqDef
<1>5. DOMAIN r = 1 .. Len(q)
  OBVIOUS
<1>6. Len(r) = Len(q)
  BY <1>3, <1>4, <1>5, LenProperties
<1> QED  BY <1>4, <1>6

\* The first state.
LEMMA FollowerStart == FollowerInit => FollowerInv
<1> SUFFICES ASSUME FollowerInit PROVE FollowerInv
  OBVIOUS
<1>1. queue \in Seq(Tracks) /\ Len(queue) = 0
  BY DEF FollowerInit
<1> QED  BY <1>1, FollowerConstants DEF FollowerInit, FollowerInv, FollowerTypeOK

-----------------------------------------------------------------------------

\* What the step proofs use of the types.
LEMMA FollowerTypes ==
    ASSUME FollowerTypeOK
    PROVE  /\ lastAge \in Nat /\ lastAge <= TooOld /\ tapeAge \in Nat /\ tapeAge <= TooOld
           /\ sinceTick \in Nat /\ sinceTick <= TickPeriod
           /\ \A i \in 1 .. Len(queue) :
                 queue[i].age \in Nat /\ queue[i].age <= Delay /\ queue[i].tape \in BOOLEAN
           /\ Len(queue) \in Nat
<1>1. \A i \in 1 .. Len(queue) : queue[i] \in Tracks
  BY DEF FollowerTypeOK
<1>2. \A i \in 1 .. Len(queue) :
         queue[i].age \in Nat /\ queue[i].age <= Delay /\ queue[i].tape \in BOOLEAN
  BY <1>1, FollowerConstants DEF Tracks
<1> QED  BY <1>2, FollowerConstants DEF FollowerTypeOK

\* Every step keeps the invariant.
LEMMA FollowerStep ==
    ASSUME FollowerInv, [FollowerNext]_follower PROVE FollowerInv'
<1> FollowerTypeOK  BY DEF FollowerInv
<1> USE FollowerConstants, FollowerTypes
<1>1. ASSUME NEW tape \in BOOLEAN, PublishTrack(tape) PROVE FollowerInv'
  <2> DEFINE t == [tape |-> tape, age |-> 0]
  <2>1. t \in Tracks /\ t.tape = tape /\ t.age = 0
    BY DEF Tracks
  <2> HIDE DEF t
  <2>2. queue' = queue \/ queue' = Enqueue(queue, t)
    BY <1>1 DEF PublishTrack, t
  <2>3. /\ queue' \in Seq(Tracks) /\ Len(queue') <= Depth
        /\ \A i \in 1 .. Len(queue') :
              queue'[i] = t \/ \E j \in 1 .. Len(queue) : queue'[i] = queue[j]
    <3>1. CASE queue' = queue  BY <3>1 DEF FollowerTypeOK
    <3>2. CASE queue' = Enqueue(queue, t)  BY <3>2, <2>1, Enqueued DEF FollowerTypeOK
    <3> QED  BY <2>2, <3>1, <3>2
  <2>4. tapeAge' \in 0 .. TooOld /\ tapeAge' <= tapeAge /\ (tape => tapeAge' = 0)
    BY <1>1 DEF PublishTrack
  <2>5. FollowerTypeOK'
    BY <1>1, <2>3, <2>4 DEF PublishTrack, FollowerTypeOK
  <2>6. ASSUME NEW i \in 1 .. Len(queue'), queue'[i].tape PROVE tapeAge' <= queue'[i].age
    <3>1. CASE queue'[i] = t  BY <3>1, <2>1, <2>4, <2>6
    <3>2. ASSUME NEW j \in 1 .. Len(queue), queue'[i] = queue[j]
          PROVE  tapeAge' <= queue'[i].age
      BY <3>2, <2>4, <2>6 DEF FollowerInv
    <3> QED  BY <3>1, <3>2, <2>3
  <2> QED  BY <1>1, <2>4, <2>5, <2>6 DEF PublishTrack, FollowerInv
<1>2. CASE OnTrack
  <2>1. /\ queue \in Seq(Tracks) /\ queue # <<>> /\ queue' = Tail(queue)
    BY <1>2 DEF OnTrack, FollowerTypeOK
  <2>2. FollowerTypeOK'
    BY <1>2, <2>1, Taken DEF OnTrack, FollowerTypeOK
  <2>3. ASSUME NEW i \in 1 .. Len(queue'), queue'[i].tape PROVE tapeAge' <= queue'[i].age
    <3>1. queue'[i] = queue[i + 1] /\ i + 1 \in 1 .. Len(queue)
      BY <2>1, Taken
    <3> QED  BY <1>2, <2>3, <3>1 DEF OnTrack, FollowerInv
  <2>4. ASSUME last' = "tape" PROVE tapeAge <= Delay
    <3>1. Head(queue) = queue[1] /\ 1 \in 1 .. Len(queue)
      BY <2>1, Taken
    <3>2. queue[1].tape
      BY <1>2, <2>4, <3>1 DEF OnTrack
    <3> QED  BY <3>1, <3>2 DEF FollowerInv
  <2> QED  BY <1>2, <2>2, <2>3, <2>4 DEF OnTrack, FollowerInv
<1>3. CASE Tick
  <2>1. FollowerTypeOK'
    BY <1>3 DEF Tick, FollowerTypeOK
  <2>2. command' = "drive" => last = "tape" /\ lastAge <= Stale
    BY <1>3 DEF Tick, IsStale
  <2> QED  BY <1>3, <2>1, <2>2 DEF Tick, FollowerInv
<1>4. CASE Quit
  <2>1. queue' \in Seq(Tracks) /\ Len(queue') = 0
    BY <1>4 DEF Quit
  <2>2. FollowerTypeOK'
    <3>1. last \in {"none", "tape", "blank"} /\ command \in {"none", "zero", "drive"}
      BY DEF FollowerTypeOK
    <3>2. lastAge' \in 0 .. TooOld /\ tapeAge' \in 0 .. TooOld /\ sinceTick' \in 0 .. TickPeriod
      BY <1>4 DEF Quit
    <3>3. last' = last /\ command' = command /\ running' = FALSE
      BY <1>4 DEF Quit
    <3>4. Len(queue') <= Depth
      BY <2>1
    <3> QED  BY <2>1, <3>1, <3>2, <3>3, <3>4 DEF FollowerTypeOK
  <2> QED  BY <1>4, <2>1, <2>2 DEF Quit, FollowerInv
<1>5. CASE Pass
  <2>1. queue \in Seq(Tracks) /\ \A i \in 1 .. Len(queue) : queue[i].age < Delay
    BY <1>5 DEF Pass, FollowerTypeOK
  <2>2. /\ queue' \in Seq(Tracks) /\ Len(queue') = Len(queue)
        /\ \A i \in 1 .. Len(queue) :
              queue'[i].tape = queue[i].tape /\ queue'[i].age = queue[i].age + 1
    BY <1>5, <2>1, GrownOlder DEF Pass
  <2>3. /\ lastAge' \in 0 .. TooOld /\ (lastAge' = lastAge + 1 \/ lastAge' = TooOld)
        /\ tapeAge' \in 0 .. TooOld /\ tapeAge' <= tapeAge + 1
    BY <1>5 DEF Pass, Aged
  <2>4. sinceTick' \in 0 .. TickPeriod /\ (running => sinceTick' = sinceTick + 1)
    BY <1>5 DEF Pass
  <2>5. FollowerTypeOK'
    BY <1>5, <2>2, <2>3, <2>4 DEF Pass, FollowerTypeOK
  <2>6. \A i \in 1 .. Len(queue') : queue'[i].tape => tapeAge' <= queue'[i].age
    <3> SUFFICES ASSUME NEW i \in 1 .. Len(queue'), queue'[i].tape
                 PROVE  tapeAge' <= queue'[i].age
      OBVIOUS
    <3>1. i \in 1 .. Len(queue) /\ queue[i].tape /\ queue'[i].age = queue[i].age + 1
      BY <2>2
    <3>2. tapeAge <= queue[i].age
      BY <3>1 DEF FollowerInv
    <3>3. queue[i] \in Tracks
      BY <2>1, <3>1, ElementOfSeq
    <3>4. queue[i].age \in Nat /\ tapeAge \in Nat
      BY <3>3 DEF Tracks, FollowerTypeOK
    <3> QED  BY <2>3, <3>1, <3>2, <3>4
  <2>7. last' = "tape" => tapeAge' <= Delay + lastAge'
    BY <1>5, <2>3 DEF Pass, FollowerInv
  <2>8. running' /\ command' = "drive" => tapeAge' <= Delay + Stale + sinceTick'
    BY <1>5, <2>3, <2>4 DEF Pass, FollowerInv
  <2> QED  BY <2>5, <2>6, <2>7, <2>8 DEF FollowerInv
<1>6. CASE UNCHANGED follower
  BY <1>6 DEF follower, FollowerInv, FollowerTypeOK
<1> QED
  BY <1>1, <1>2, <1>3, <1>4, <1>5, <1>6 DEF FollowerNext

\* The whole invariant.
LEMMA FollowerHolds == FollowerSpec => []FollowerInv
BY FollowerStart, FollowerStep, PTL DEF FollowerSpec

\* Every variable keeps its type (line_follower.py:26-45).
THEOREM FollowerTypeCorrect == FollowerSpec => []FollowerTypeOK
<1>1. FollowerInv => FollowerTypeOK
  BY DEF FollowerInv
<1> QED  BY <1>1, FollowerHolds, PTL

\* The robot does not drive longer than the delays add up to after the last
\* frame with a tape (line_follower.py:47-69).
THEOREM DriveFreshAlways == FollowerSpec => []DriveFresh
<1>1. FollowerInv => DriveFresh
  BY FollowerConstants, FollowerTypes DEF FollowerInv, DriveFresh
<1> QED  BY <1>1, FollowerHolds, PTL
=============================================================================
