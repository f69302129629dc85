--------------------------- MODULE Control_proofs ---------------------------
(***************************************************************************)
(* Proofs about Control, for any number of helpers, handles, periods,      *)
(* retries and failures.  Every step of Control is a step of CanBus or     *)
(* leaves it alone, so what CanBus_proofs says of CanBus holds here.       *)
(***************************************************************************)
EXTENDS Control, CanBus_proofs

Busy == {"attempt", "calling", "waiting", "raising"}

-----------------------------------------------------------------------------
(* The bus below *)

\* A step of the node is a step of its bus, or the bus does not notice.
LEMMA BusStep == [ControlNext]_all => [Next]_vars
<1> SUFFICES ASSUME [ControlNext]_all PROVE [Next]_vars
  OBVIOUS
<1>o. ASSUME NEW t \in {Owner, Reader}, OpenCall(t) PROVE OpenStep(t) \/ UNCHANGED vars
  BY <1>o DEF OpenCall, HearUp, TellUpAndSpawn, TellUpOnly, OpenStep
<1>c. ASSUME NEW t, CloseCall(t) PROVE CloseStep(t)
  BY <1>c DEF CloseCall, ShutdownBus, CloseStep
<1>1. CASE StartBus \/ BeginDestroy
  BY <1>1 DEF StartBus, BeginDestroy, Next
<1>2. CASE MainStep
  BY <1>2, <1>o, <1>c DEF MainStep, StopBus, OwnerStep, Next
<1>3. CASE LoopStep
  BY <1>3, <1>o, <1>c DEF LoopStep, ReceiveOther, TakeAnswer, ReaderStep, Next
<1>4. CASE CallZero \/ PowerOff \/ PowerOn
  BY <1>4 DEF CallZero, PowerOff, PowerOn
<1>5. ASSUME NEW s \in Senders, Acquire(s) \/ CallStep(s) PROVE [Next]_vars
  BY <1>5, <1>c DEF Acquire, CallStep, Attempt, FetchBus, Request, RequestFails, Raise,
                    Retry, GiveUp, SenderStep, Next
<1>6. CASE UnplugAdapter \/ (Replug /\ UNCHANGED control)
  BY <1>6 DEF UnplugAdapter, Next
<1>7. CASE UNCHANGED all
  BY <1>7 DEF all
<1>8. QED
  BY <1>1, <1>2, <1>3, <1>4, <1>5, <1>6, <1>7 DEF ControlNext

\* The node implements CanBus: whatever it does, its bus goes through steps
\* of CanBus (driver.py uses canbus.py through start, stop and send only).
THEOREM BusImplemented == ControlSpec => Init /\ [][Next]_vars
BY BusStep, PTL DEF ControlSpec, ControlInit

\* So the Bus objects are accounted for, and stop() is clean, in the node too.
THEOREM HandlesSafeInNode == ControlSpec => [](HandleInv /\ StopInv)
<1>1. Init => HandleInv /\ StopInv
  BY HandleInit, ThreadKinds DEF Init, StopInv, CloseLabels
<1>2. QED
  BY <1>1, HandleStep, StopStep, BusImplemented, PTL

\* What the bus promises it promises in the node: flag and notifications agree
\* with it, its objects live as HandleLife says, and stop() comes to its end
\* whatever helpers and service do meanwhile.
THEOREM BusPromisesInNode ==
    ControlSpec => /\ []UndisturbedExact /\ []CleanStop
                   /\ Life!Init /\ [][Life!Next]_HandleStage
                   /\ [][Descent]_vars
<1>1. Init => Life!Init
  BY DEF Init, Life!Init, HandleStage, StageOf
<1>2. StopInv => CleanStop
  BY DEF StopInv, CleanStop, At
<1>3. ControlSpec => []HandleInv /\ []CleanStop
  BY <1>2, HandlesSafeInNode, PTL
<1>4. ControlSpec => []UndisturbedExact
  BY ExactInit, ExactStep, ExactMeans, BusImplemented, PTL
<1>5. ControlSpec => Life!Init /\ [][Life!Next]_HandleStage
  BY <1>1, <1>3, LifeStep, BusImplemented, PTL
<1>6. ControlSpec => [][Descent]_vars
  BY <1>3, FlagInit, FlagStep, StopFalls, BusImplemented, PTL
<1> QED  BY <1>3, <1>4, <1>5, <1>6

-----------------------------------------------------------------------------
(* Types and the SDO lock *)

\* Whoever is inside a transaction holds the lock, is inside send() only where
\* the transaction calls it, and threads about to start a helper are in _open.
LockInv ==
    /\ \A s \in Senders : place[s] \in Busy => sdoLock = s
    /\ \A s \in Senders : pc[s] \in {"fetching", "sending"} => place[s] = "calling"
    /\ \A s \in Senders : pc[s] \in CloseLabels => place[s] = "raising"
    /\ \A s \in Senders : place[s] = "attempt" => attempts <= Retries
    /\ \A t \in spawning : At(t, "tellUp")

NodeInv == HandleInv /\ NodeTypeOK /\ LockInv

\* A sender is in send() or in the _close it calls.
LEMMA SenderKinds == HandleInv => \A s \in Senders : pc[s] \in SendLabels \cup CloseLabels
BY DEF HandleInv, Kinds

\* Every step keeps the types of the node's variables.
LEMMA NodeTypeStep == NodeInv /\ [ControlNext]_all => NodeTypeOK'
<1> SUFFICES ASSUME TypeOK, NodeTypeOK, LockInv, [ControlNext]_all PROVE NodeTypeOK'
  BY DEF NodeInv, HandleInv
<1> USE ControlAssumption, ThreadKinds DEF NodeTypeOK, Places, Moods, Silence, Move, Fail,
        Helpers, client, sensor, control
<1>h. held \in [Threads -> Handles \cup {NoBus}]
  BY DEF TypeOK
<1>f. ASSUME NEW s \in Senders, Finish(s)
      PROVE  /\ sdoLock' \in Senders \cup {Nobody}
             /\ todo' \in [Senders -> SUBSET Periods]
             /\ place' \in [Senders -> Places]
  BY <1>f DEF Finish
<1>o. ASSUME NEW t \in {Owner, Reader}, OpenCall(t) PROVE NodeTypeOK'
  <2>1. CASE HearUp(t)
    BY <2>1 DEF HearUp
  <2>2. CASE TellUpAndSpawn(t)
    <3>1. place' \in [Senders -> Places] /\ todo' \in [Senders -> SUBSET Periods]
      BY <2>2 DEF TellUpAndSpawn
    <3>2. QED
      BY <2>2, <3>1 DEF TellUpAndSpawn
  <2>3. CASE UNCHANGED control
    BY <2>3
  <2>4. QED
    BY <1>o, <2>1, <2>2, <2>3 DEF OpenCall, TellUpOnly
<1>c. ASSUME NEW t \in Threads, CloseCall(t) PROVE NodeTypeOK'
  <2>1. CASE ShutdownBus(t)
    <3>1. answer' \in [kind : {"none", "ok", "abort"}, via : Handles \cup {NoBus}]
      BY <2>1 DEF ShutdownBus
    <3>2. UNCHANGED <<place, todo, sdoLock, attempts, blamed, mood, ram, cut, closing,
                      spawning, failures>>
      BY <2>1 DEF ShutdownBus
    <3>3. QED
      BY <3>1, <3>2
  <2>2. CASE UNCHANGED control
    BY <2>2
  <2>3. QED
    BY <1>c, <2>1, <2>2 DEF CloseCall
<1>a. ASSUME NEW s \in Senders, TakeAnswer(s) PROVE NodeTypeOK'
  BY <1>a, <1>f DEF TakeAnswer
<1>d. CASE BeginDestroy
  <2>1. sdoLock' \in Senders \cup {Nobody}
    BY <1>d DEF BeginDestroy
  <2>2. QED
    BY <1>d, <2>1 DEF BeginDestroy
<1>u. ASSUME UNCHANGED control PROVE NodeTypeOK'
  BY <1>u
<1>4. CASE CallZero
  BY <1>4 DEF CallZero
<1>9. CASE PowerOff \/ PowerOn
  <2>1. failures' \in 0 .. MaxFailures
    BY <1>9 DEF PowerOff, PowerOn
  <2>2. CASE PowerOff
    BY <2>1, <2>2 DEF PowerOff
  <2>3. CASE PowerOn
    BY <2>1, <2>3 DEF PowerOn
  <2>4. QED
    BY <1>9, <2>2, <2>3
<1>5. ASSUME NEW s \in Senders, Acquire(s) \/ CallStep(s) PROVE NodeTypeOK'
  <2>1. CASE Acquire(s)
    BY <2>1 DEF Acquire
  <2>2. CASE Attempt(s)
    BY <2>2 DEF Attempt, LockInv
  <2>3. CASE FetchBus(s) \/ Retry(s)
    BY <2>3 DEF FetchBus, Retry
  <2>4. CASE Request(s)
    <3>1. Current(s) \subseteq Periods
      BY DEF Current
    <3>2. held[s] \in Handles \cup {NoBus}
      BY <1>h
    <3>3. answer' \in [kind : {"none", "ok", "abort"}, via : Handles \cup {NoBus}]
      BY <2>4, <3>2 DEF Request, Replied
    <3>4. ram' \subseteq Periods /\ place' \in [Senders -> Places]
      BY <2>4, <3>1 DEF Request
    <3>5. QED
      BY <2>4, <3>3, <3>4 DEF Request
  <2>5. CASE RequestFails(s)
    BY <2>5 DEF RequestFails
  <2>6. CASE Raise(s) \/ GiveUp(s)
    BY <2>6, <1>f DEF Raise, GiveUp
  <2>7. QED
    BY <1>5, <1>c, <2>1, <2>2, <2>3, <2>4, <2>5, <2>6 DEF CallStep
<1>6. CASE UnplugAdapter
  BY <1>6 DEF UnplugAdapter
<1>7. CASE UNCHANGED all
  BY <1>7 DEF all
<1> HIDE DEF NodeTypeOK, control
<1>1. CASE StartBus
  BY <1>1, <1>u DEF StartBus
<1>2. CASE MainStep
  BY <1>2, <1>o, <1>c, <1>u DEF MainStep, StopBus
<1>3. CASE LoopStep
  BY <1>3, <1>a, <1>o, <1>c, <1>u DEF LoopStep, ReceiveOther
<1>8. QED
  BY <1>1, <1>2, <1>3, <1>4, <1>5, <1>6, <1>7, <1>9, <1>d, <1>u DEF ControlNext

\* What BeginDestroy, Finish and the calls before it do to the lock.
LEMMA LockStep == NodeInv /\ [ControlNext]_all => LockInv'
<1> SUFFICES ASSUME NodeInv, [ControlNext]_all PROVE LockInv'
  OBVIOUS
<1> USE ControlAssumption, ThreadKinds, SenderKinds
<1>p. /\ pc \in [Threads -> Labels] /\ place \in [Senders -> Places]
      /\ spawning \subseteq {Owner, Reader} /\ NodeTypeOK /\ HandleInv /\ LockInv
  BY DEF NodeInv, HandleInv, NodeTypeOK, TypeOK
<1> DEFINE Same == UNCHANGED <<place, sdoLock, attempts, spawning>>
<1> USE DEF Goto, At, Move, Busy, SendLabels, CloseLabels, EnterClose, EnterOpen,
            AfterOpen, AfterClose
<1>h. ASSUME NEW t \in {Owner, Reader}, OpenCall(t) PROVE LockInv'
  <2>1. CASE HearUp(t)
    BY <2>1, <1>p DEF HearUp, LockInv, vars, client
  <2>2. CASE TellUpAndSpawn(t)
    <3>1. PICK h \in Helpers : place[h] = "none" /\ Move(h, "locking")
      BY <2>2 DEF TellUpAndSpawn
    <3>2. /\ \A s \in Senders : pc'[s] = pc[s]
          /\ \A u \in Threads \ {t} : pc'[u] = pc[u]
      BY <2>2, <1>p DEF TellUpAndSpawn, NotifyUp
    <3>3. /\ place'[h] = "locking" /\ pc[h] \notin {"fetching", "sending"} \cup CloseLabels
          /\ \A s \in Senders \ {h} : place'[s] = place[s]
      BY <3>1, <1>p DEF LockInv, Helpers
    <3>4. sdoLock' = sdoLock /\ attempts' = attempts /\ spawning' = spawning \ {t}
      BY <2>2 DEF TellUpAndSpawn
    <3>5. QED
      BY <3>2, <3>3, <3>4, <1>p DEF LockInv
  <2>3. CASE TellUpOnly(t)
    BY <2>3, <1>p DEF TellUpOnly, NotifyUp, LockInv, control, client
  <2>4. CASE (OpenDevice(t) \/ OpenFails(t) \/ StoreHandle(t) \/ SetConnected(t))
             /\ UNCHANGED control
    BY <2>4, <1>p DEF OpenDevice, OpenFails, StoreHandle, SetConnected, LockInv, control, client
  <2>5. QED
    BY <1>h, <2>1, <2>2, <2>3, <2>4 DEF OpenCall
<1>c. ASSUME NEW t \in Threads, CloseCall(t) PROVE LockInv'
  <2>1. Same
    BY <1>c DEF CloseCall, ShutdownBus, control, client
  <2>2. /\ pc[t] \in CloseLabels
        /\ pc' = [pc EXCEPT ![t] = pc'[t]]
        /\ t \in Senders => pc'[t] \in CloseLabels \cup {"idle"}
    BY <1>c, <1>p DEF CloseCall, ShutdownBus, TakeHandle, Shutdown, TestConnected,
                      ClearConnected, NotifyDown
  <2>3. QED
    BY <1>p, <2>1, <2>2 DEF LockInv
<1>m. ASSUME Same, \A s \in Senders : pc'[s] = pc[s],
             \A t \in spawning : pc'[t] = pc[t]
      PROVE  LockInv'
  BY <1>p, <1>m DEF LockInv
<1>f. ASSUME NEW s \in Senders, Finish(s), place[s] \in Busy, At(s, "idle"),
             UNCHANGED <<attempts, spawning>>, \A u \in Senders : pc'[u] = pc[u],
             \A t \in spawning : pc'[t] = pc[t]
      PROVE  LockInv'
  <2>1. place'[s] \in {"none", "locking"} /\ \A u \in Senders \ {s} : place'[u] = place[u]
    BY <1>f, <1>p DEF Finish
  <2>2. \A u \in Senders \ {s} : place[u] \notin Busy
    BY <1>f, <1>p DEF LockInv
  <2>3. QED
    BY <1>f, <1>p, <2>1, <2>2 DEF LockInv
<1>w. ASSUME NEW s \in Senders, place[s] = "waiting" PROVE At(s, "idle")
  BY <1>p, <1>w DEF LockInv
<1>1. CASE StartBus
  BY <1>1, <1>p, <1>m DEF StartBus, Start, control, client, LockInv
<1>2. CASE BeginDestroy
  <2>1. /\ \A u \in Senders \ {Zero} : place'[u] = place[u] /\ pc'[u] = pc[u]
        /\ place'[Zero] = "none" /\ pc'[Zero] = pc[Zero]
        /\ attempts' = attempts /\ spawning' = spawning
        /\ \A t \in spawning : pc'[t] = pc[t]
    BY <1>2, <1>p DEF BeginDestroy, vars
  <2>2. pc[Zero] \notin {"fetching", "sending"} \cup CloseLabels
    BY <1>2, <1>p DEF BeginDestroy, LockInv
  <2>3. \A u \in Senders \ {Zero} : place[u] \in Busy => sdoLock' = u
    BY <1>2, <1>p DEF BeginDestroy, LockInv
  <2>4. QED
    BY <1>p, <2>1, <2>2, <2>3 DEF LockInv
<1>3. CASE MainStep
  <2>1. CASE (SpawnReader \/ JoinReader \/ JoinTimesOut) /\ UNCHANGED control
    BY <2>1, <1>p, <1>m DEF SpawnReader, JoinReader, JoinTimesOut, control, client, LockInv,
                            HandleInv, OneOpener, MayBlock
  <2>2. CASE StopBus
    BY <2>2, <1>p, <1>m DEF StopBus, RequestStop, control, client, LockInv
  <2>3. QED
    BY <1>3, <1>h, <1>c, <2>1, <2>2 DEF MainStep
<1>4. CASE LoopStep
  <2>1. CASE (CheckStop \/ FetchToOpen \/ FetchToReceive \/ ReceiveFails \/ BackOff)
             /\ UNCHANGED control
    BY <2>1, <1>p, <1>m DEF CheckStop, FetchToOpen, FetchToReceive, ReceiveFails, BackOff,
                            control, client, LockInv
  <2>2. CASE ReceiveOther
    BY <2>2, <1>p, <1>m DEF ReceiveOther, Receive, control, client, LockInv
  <2>3. ASSUME NEW s \in Senders, TakeAnswer(s) PROVE LockInv'
    <3>1. /\ Finish(s) /\ place[s] = "waiting" /\ UNCHANGED <<attempts, spawning>>
          /\ \A u \in Senders : pc'[u] = pc[u]
          /\ \A t \in spawning : pc'[t] = pc[t]
      BY <2>3, <1>p DEF TakeAnswer, Receive, LockInv
    <3>2. QED
      BY <3>1, <1>f, <1>w
  <2>4. QED
    BY <1>4, <1>h, <1>c, <2>1, <2>2, <2>3 DEF LoopStep
<1>5. CASE CallZero
  <2>1. pc[Zero] \notin {"fetching", "sending"} \cup CloseLabels
    BY <1>5, <1>p DEF CallZero, LockInv
  <2>2. QED
    BY <1>5, <1>p, <2>1 DEF CallZero, vars, LockInv
<1>6. ASSUME NEW s \in Senders, Acquire(s) PROVE LockInv'
  <2>1. /\ place[s] = "locking" /\ sdoLock = Nobody /\ sdoLock' = s /\ attempts' = 0
        /\ place' = [place EXCEPT ![s] = "attempt"] /\ UNCHANGED <<pc, spawning>>
    BY <1>6 DEF Acquire, vars
  <2>2. \A u \in Senders : place[u] \notin Busy
    BY <2>1, <1>p DEF LockInv
  <2>3. QED
    BY <1>p, <2>1, <2>2 DEF LockInv
<1>7. ASSUME NEW s \in Senders, CallStep(s) PROVE LockInv'
  <2>1. CASE Attempt(s) \/ FetchBus(s) \/ Request(s) \/ RequestFails(s)
    <3>1. /\ place[s] \in Busy /\ place'[s] \in Busy \ {"attempt"}
          /\ \A u \in Senders \ {s} : place'[u] = place[u]
          /\ pc'[s] \in {"fetching", "sending"} => place'[s] = "calling"
          /\ pc'[s] \in CloseLabels => place'[s] = "raising"
          /\ \A u \in Threads \ {s} : pc'[u] = pc[u]
          /\ UNCHANGED <<sdoLock, spawning>>
      BY <2>1, <1>p DEF Attempt, CallSend, FetchBus, FetchToSend, Request, Send, RequestFails,
                        SendFails, LockInv
    <3>2. \A u \in Senders \ {s} : place[u] \notin Busy
      BY <3>1, <1>p DEF LockInv
    <3>3. QED
      BY <1>p, <3>1, <3>2 DEF LockInv
  <2>2. CASE Retry(s)
    BY <2>2, <1>p, <1>w DEF Retry, vars, LockInv
  <2>3. CASE Raise(s) \/ GiveUp(s)
    BY <2>3, <1>f, <1>w DEF Raise, GiveUp, vars
  <2>4. QED
    BY <1>7, <1>c, <2>1, <2>2, <2>3 DEF CallStep, Threads
<1>8. CASE UnplugAdapter \/ (Replug /\ UNCHANGED control) \/ PowerOff \/ PowerOn \/ UNCHANGED all
  BY <1>8, <1>m DEF UnplugAdapter, Unplug, Replug, PowerOff, PowerOn, all, vars, control, client
<1>9. QED
  BY <1>1, <1>2, <1>3, <1>4, <1>5, <1>6, <1>7, <1>8 DEF ControlNext

\* NodeInv is inductive.
LEMMA NodeStep == NodeInv /\ [ControlNext]_all => NodeInv'
BY BusStep, HandleStep, NodeTypeStep, LockStep DEF NodeInv

\* NodeInv holds initially.
LEMMA NodeInit == ControlInit => NodeInv
<1> SUFFICES ASSUME ControlInit PROVE NodeInv
  OBVIOUS
<1>1. HandleInv
  BY HandleInit DEF ControlInit
<1>2. NodeTypeOK
  <2>1. place \in [Senders -> Places] /\ todo \in [Senders -> SUBSET Periods]
    BY DEF ControlInit, Places
  <2>2. answer \in [kind : {"none", "ok", "abort"}, via : Handles \cup {NoBus}]
    BY DEF ControlInit, Silence
  <2>3. attempts \in 0 .. Retries + 1 /\ failures \in 0 .. MaxFailures
    BY ControlAssumption DEF ControlInit
  <2>4. QED
    BY <2>1, <2>2, <2>3 DEF ControlInit, NodeTypeOK
<1>3. \A s \in Senders : pc[s] = "idle"
  BY ThreadKinds DEF ControlInit, Init
<1>4. LockInv
  BY <1>3 DEF ControlInit, LockInv, Busy, CloseLabels
<1>5. QED
  BY <1>1, <1>2, <1>4 DEF NodeInv

\* Every variable of bus and node keeps its type; in particular no transaction
\* makes more than Retries + 1 attempts.
THEOREM NodeTypeCorrect == ControlSpec => []ControlTypeOK
<1>1. NodeInv => ControlTypeOK
  BY DEF NodeInv, HandleInv, ControlTypeOK
<1>2. QED
  BY <1>1, NodeInit, NodeStep, PTL DEF ControlSpec

-----------------------------------------------------------------------------
(* After the shutdown *)

\* With the reader waited for, the one handle a sender could still hold and
\* use is in nobody else's hands; but then its closer holds the SDO lock too.
LEMMA QuietHolds == NodeInv /\ StopInv => QuietAfterStop
<1> SUFFICES ASSUME NodeInv, StopInv, At(Owner, "stopped"), ~abandoned
             PROVE  /\ spawning = {}
                    /\ \A s \in Senders : At(s, "sending") => held[s] \notin good
  BY DEF QuietAfterStop
<1> USE ThreadKinds DEF NodeInv, LockInv, At
<1>1. pc[Reader] \in {"unborn", "exited"} /\ bus = NoBus
  BY DEF StopInv
<1>2. spawning = {}
  BY <1>1 DEF NodeTypeOK
<1>3. ASSUME NEW s \in Senders, At(s, "sending"), held[s] \in good PROVE FALSE
  <2>1. held[s] \in live /\ held[s] \in Handles
    BY <1>3 DEF HandleInv, TypeOK
  <2>2. PICK t \in Threads : InHand(t) /\ held[t] = held[s]
    BY <1>1, <2>1 DEF HandleInv, HandlesAccounted
  <2>3. t \in Senders /\ pc[t] = "shutting"
    BY <1>1, <2>2, SenderKinds DEF InHand, Threads, SendLabels, CloseLabels
  <2>4. place[t] = "raising" /\ place[s] = "calling"
    BY <1>3, <2>3 DEF CloseLabels
  <2>5. sdoLock = t /\ sdoLock = s
    BY <1>3, <2>3, <2>4 DEF Busy
  <2>6. QED
    BY <1>3, <2>3, <2>5
<1>4. QED
  BY <1>2, <1>3

\* A shutdown that waited for the reader is final for the sensor as well: no
\* helper is started and nothing is sent any more.
THEOREM QuietSafe == ControlSpec => []QuietAfterStop
<1>1. ControlSpec => []NodeInv
  BY NodeInit, NodeStep, PTL DEF ControlSpec
<1>2. QED
  BY <1>1, HandlesSafeInNode, QuietHolds, PTL

-----------------------------------------------------------------------------
(* No error is swallowed *)

\* As long as nothing was blamed and the sensor stayed on: a helper has written
\* what it has crossed off, an acknowledgement on its way is about something
\* written, and a connection that was announced has a helper or needs none.
Served ==
    ~cut /\ ~blamed =>
      /\ \A h \in Helpers : place[h] # "none" => Periods \ todo[h] \subseteq ram
      /\ \A s \in Senders : place[s] = "waiting" /\ answer.kind = "ok" => Current(s) \subseteq ram
      /\ told = "up" /\ ~closing => ram = Periods \/ \E h \in Helpers : place[h] # "none"

\* Answers come through a handle; none is left over when a request is made.
AnswerInv ==
    /\ answer.kind = "none" <=> answer.via = NoBus
    /\ \A s \in Senders : place[s] = "calling" => answer.kind = "none"

\* An answer has a handle, and none waits while a request is being sent.
LEMMA AnswerStep == NodeInv /\ AnswerInv /\ [ControlNext]_all => AnswerInv'
<1> SUFFICES ASSUME NodeInv, AnswerInv, [ControlNext]_all PROVE AnswerInv'
  OBVIOUS
<1> USE ControlAssumption, ThreadKinds DEF AnswerInv, Move, Silence
<1>p. place \in [Senders -> Places] /\ HandleInv /\ NodeTypeOK
  BY DEF NodeInv, NodeTypeOK
<1>e. ASSUME NEW s \in Senders, NEW u \in Senders, place[s] \in Busy, place[u] \in Busy PROVE s = u
  BY <1>e DEF NodeInv, LockInv
<1>u. ASSUME UNCHANGED <<place, answer>> PROVE AnswerInv'
  BY <1>u
<1>f. ASSUME NEW s \in Senders, Finish(s), answer' \in {answer, Silence} PROVE AnswerInv'
  <2>1. \A u \in Senders : place'[u] = "calling" => place[u] = "calling"
    BY <1>f, <1>p DEF Finish
  <2>2. QED
    BY <1>f, <2>1
<1>o. ASSUME NEW t \in {Owner, Reader}, OpenCall(t) PROVE AnswerInv'
  BY <1>o, <1>p DEF OpenCall, HearUp, TellUpAndSpawn, TellUpOnly, Helpers, control, client
<1>c. ASSUME NEW t, CloseCall(t) PROVE AnswerInv'
  BY <1>c DEF CloseCall, ShutdownBus, control, client
<1>1. CASE BeginDestroy \/ CallZero
  BY <1>1, <1>p DEF BeginDestroy, CallZero
<1>2. CASE StartBus \/ MainStep
  BY <1>2, <1>o, <1>c, <1>u DEF StartBus, MainStep, StopBus, control, client
<1>3. CASE LoopStep
  BY <1>3, <1>o, <1>c, <1>u, <1>f DEF LoopStep, ReceiveOther, TakeAnswer, control, client
<1>4. ASSUME NEW s \in Senders, Acquire(s) \/ CallStep(s) PROVE AnswerInv'
  <2>1. CASE Acquire(s) \/ Attempt(s) \/ FetchBus(s) \/ RequestFails(s) \/ Retry(s)
    <3>1. CASE FetchBus(s)
      <4>1. place[s] = "calling"
        BY <3>1 DEF FetchBus, FetchToSend, At, NodeInv, LockInv, HandleInv, Kinds, 
                    CloseLabels, OpenLabels
      <4>2. QED
        BY <3>1, <4>1, <1>p DEF FetchBus
    <3>2. QED
      BY <2>1, <3>1, <1>p DEF Acquire, Attempt, RequestFails, Retry
  <2>2. CASE Request(s)
    <3>1. pc[s] = "sending" /\ held[s] \in good
      BY <2>2 DEF Request, Send, At
    <3>2. place[s] = "calling" /\ held[s] # NoBus
      BY <3>1, <1>p DEF NodeInv, LockInv, HandleInv, TypeOK
    <3>3. \A u \in Senders : place'[u] # "calling"
      BY <2>2, <3>2, <1>p, <1>e DEF Request, Busy
    <3>4. QED
      BY <2>2, <3>2, <3>3 DEF Request, Replied
  <2>3. CASE Raise(s) \/ GiveUp(s)
    BY <2>3, <1>f DEF Raise, GiveUp
  <2>4. QED
    BY <1>4, <1>c, <2>1, <2>2, <2>3 DEF CallStep
<1>5. CASE UnplugAdapter \/ (Replug /\ UNCHANGED control) \/ PowerOff \/ PowerOn \/ UNCHANGED all
  BY <1>5 DEF UnplugAdapter, PowerOff, PowerOn, all, control, client
<1>6. QED
  BY <1>1, <1>2, <1>3, <1>4, <1>5, <1>u DEF ControlNext

\* The history Served depends on: what a step does to it in general.
LEMMA ServedStep == NodeInv /\ AnswerInv /\ Served /\ [ControlNext]_all => Served'
<1> SUFFICES ASSUME NodeInv, AnswerInv, Served, [ControlNext]_all, ~cut', ~blamed'
             PROVE  Served'
  BY DEF Served
<1> USE ControlAssumption, ThreadKinds DEF Move, shared
<1>p. /\ place \in [Senders -> Places] /\ todo \in [Senders -> SUBSET Periods]
      /\ ram \subseteq Periods /\ cut \in BOOLEAN /\ blamed \in BOOLEAN
      /\ Helpers \subseteq Senders /\ Zero \notin Helpers
  BY DEF NodeInv, NodeTypeOK, Helpers
<1>u. ASSUME UNCHANGED <<place, todo, ram, cut, blamed>>, closing' = closing,
             answer' \in {answer, Silence}, told' \in {told, "down"}
      PROVE  Served'
  BY <1>u DEF Served, Silence, Current
<1>f. ASSUME NEW s \in Senders, place[s] = "waiting", Finish(s), answer' = Silence,
             ~cut, ~blamed, Current(s) \subseteq ram, UNCHANGED <<ram, told, closing>>
      PROVE  Served'
  <2>1. \A u \in Senders \ {s} : place'[u] = place[u] /\ todo'[u] = todo[u]
    BY <1>f, <1>p DEF Finish
  <2>2. todo'[s] = todo[s] \ Current(s) /\ (todo'[s] = {} <=> place'[s] = "none")
        /\ place'[s] \in {"none", "locking"}
    BY <1>f, <1>p DEF Finish
  <2>3. s \in Helpers => Periods \ todo'[s] \subseteq ram
    BY <1>f, <1>p, <2>2 DEF Served
  <2>4. \A h \in Helpers : place'[h] # "none" => Periods \ todo'[h] \subseteq ram'
    BY <1>f, <1>p, <2>1, <2>3 DEF Served
  <2>5. told = "up" /\ ~closing => ram = Periods \/ \E h \in Helpers : place'[h] # "none"
    BY <1>f, <1>p, <2>1, <2>2, <2>3 DEF Served
  <2>6. QED
    BY <1>f, <2>4, <2>5 DEF Served, Silence
<1>k. ASSUME NEW s \in Senders, \A u \in Senders \ {s} : place'[u] = place[u],
             place[s] # "none", place'[s] \notin {"none", "waiting"},
             answer' \in {answer, Silence},
             UNCHANGED <<todo, ram, cut, blamed, told, closing>>
      PROVE  Served'
  BY <1>k, <1>p DEF Served, Silence, Current
<1>o. ASSUME NEW t \in {Owner, Reader}, OpenCall(t) PROVE Served'
  <2>1. CASE TellUpAndSpawn(t)
    <3>1. PICK h \in Helpers : /\ place' = [place EXCEPT ![h] = "locking"]
                               /\ todo' = [todo EXCEPT ![h] = Periods]
      BY <2>1 DEF TellUpAndSpawn
    <3>2. place'[h] = "locking" /\ todo'[h] = Periods
          /\ \A u \in Senders \ {h} : place'[u] = place[u] /\ todo'[u] = todo[u]
      BY <3>1, <1>p
    <3>3. UNCHANGED <<answer, ram, cut, blamed, closing>>
      BY <2>1 DEF TellUpAndSpawn, sensor
    <3>4. QED
      BY <3>2, <3>3, <1>p DEF Served, Current
  <2>2. CASE TellUpOnly(t)
    <3>1. told' = "up" /\ (closing \/ Periods = {}) /\ UNCHANGED control
      BY <2>2 DEF TellUpOnly, NotifyUp
    <3>2. QED
      BY <3>1, <1>p DEF Served, control, client, sensor, Current
  <2>3. CASE ~TellUpAndSpawn(t) /\ ~TellUpOnly(t)
    BY <1>o, <2>3, <1>u DEF OpenCall, HearUp, OpenDevice, OpenFails, StoreHandle, SetConnected,
                            vars, control, client, sensor
  <2>4. QED
    BY <2>1, <2>2, <2>3
<1>c. ASSUME NEW t, CloseCall(t) PROVE Served'
  BY <1>c, <1>u DEF CloseCall, ShutdownBus, Shutdown, TakeHandle, TestConnected, ClearConnected,
                    NotifyDown, control, client, sensor
<1>1. CASE BeginDestroy
  BY <1>1, <1>p DEF BeginDestroy, Served, vars, sensor, Current, Helpers
<1>2. CASE StartBus \/ MainStep
  BY <1>2, <1>o, <1>c, <1>u DEF StartBus, Start, MainStep, StopBus, RequestStop, SpawnReader,
     JoinReader, JoinTimesOut, control, client, sensor
<1>3. CASE LoopStep
  <2>1. ASSUME NEW s \in Senders, TakeAnswer(s) PROVE Served'
    <3>1. /\ place[s] = "waiting" /\ Finish(s) /\ answer' = Silence
          /\ UNCHANGED <<ram, cut, told, closing>>
          /\ ~blamed /\ answer.kind # "abort"
      BY <2>1 DEF TakeAnswer, Receive, sensor
    <3>2. answer.via # NoBus
      BY <2>1 DEF TakeAnswer, Receive, NodeInv, HandleInv, TypeOK
    <3>3. answer.kind = "ok"
      BY <3>1, <3>2 DEF AnswerInv, NodeInv, NodeTypeOK
    <3>4. QED
      BY <3>1, <3>3, <1>f DEF Served
  <2>2. CASE ReceiveOther
    BY <2>2, <1>u DEF ReceiveOther, Receive, control, client, sensor
  <2>3. CASE (CheckStop \/ FetchToOpen \/ FetchToReceive \/ ReceiveFails \/ BackOff)
             /\ UNCHANGED control
    BY <2>3, <1>u DEF CheckStop, FetchToOpen, FetchToReceive, ReceiveFails, BackOff,
                      control, client, sensor
  <2>4. QED
    BY <1>3, <1>o, <1>c, <2>1, <2>2, <2>3 DEF LoopStep
<1>4. CASE CallZero
  BY <1>4, <1>p DEF CallZero, Served, vars, sensor, Current
<1>5. ASSUME NEW s \in Senders, Acquire(s) \/ CallStep(s) PROVE Served'
  <2>1. CASE Acquire(s)
    BY <2>1, <1>k, <1>p DEF Acquire, vars, sensor
  <2>2. CASE Attempt(s) \/ RequestFails(s) \/ Retry(s)
    BY <2>2, <1>k, <1>p DEF Attempt, CallSend, RequestFails, SendFails, Retry, vars, sensor,
                            NodeInv, LockInv, At
  <2>3. CASE FetchBus(s)
    <3>1. place[s] = "calling"
      BY <2>3 DEF FetchBus, FetchToSend, At, NodeInv, LockInv
    <3>2. QED
      BY <2>3, <3>1, <1>k, <1>p DEF FetchBus, FetchToSend, sensor
  <2>4. CASE Request(s)
    <3>1. /\ place[s] = "calling" /\ place'[s] = "waiting"
          /\ \A u \in Senders \ {s} : place'[u] = place[u] /\ place'[u] # "waiting"
      BY <2>4, <1>p DEF Request, Send, At, NodeInv, LockInv, Busy
    <3>2. answer'.kind = "ok" => Current(s) \subseteq ram'
      BY <2>4, <3>1 DEF Request, Replied, AnswerInv
    <3>3. ram \subseteq ram' /\ ram' \subseteq Periods
      BY <2>4, <1>p DEF Request, Current
    <3>4. UNCHANGED <<todo, cut, blamed, closing, told>>
      BY <2>4 DEF Request, Send
    <3>5. QED
      BY <3>1, <3>2, <3>3, <3>4, <1>p DEF Served, Current
  <2>5. CASE Raise(s) \/ GiveUp(s)
    BY <2>5 DEF Raise, GiveUp
  <2>6. QED
    BY <1>5, <1>c, <2>1, <2>2, <2>3, <2>4, <2>5 DEF CallStep
<1>6. CASE UnplugAdapter \/ (Replug /\ UNCHANGED control) \/ UNCHANGED all
  BY <1>6, <1>u DEF UnplugAdapter, Unplug, Replug, all, vars, control, client, sensor
<1>7. CASE PowerOff \/ PowerOn
  BY <1>7, <1>u DEF PowerOff, PowerOn, vars, client
<1>8. QED
  BY <1>1, <1>2, <1>3, <1>4, <1>5, <1>6, <1>7 DEF ControlNext

\* Connected, no helper at work, no SDO error counted and the sensor never off:
\* then the sensor has its periods.  No error is swallowed on the way.
THEOREM SilenceSafe == ControlSpec => []SilenceIsSuccess
<1>1. ControlInit => AnswerInv /\ Served
  BY DEF ControlInit, Init, AnswerInv, Served, Silence, Helpers
<1>2. Served => SilenceIsSuccess
  BY DEF Served, SilenceIsSuccess
<1>3. QED
  BY <1>1, <1>2, NodeInit, NodeStep, AnswerStep, ServedStep, PTL DEF ControlSpec

-----------------------------------------------------------------------------
(* Calls *)

\* Beside a call that is in its transaction no other is anywhere in it.
LEMMA BusyAlone ==
    ASSUME NodeInv, NEW s \in Senders, place[s] \in Busy, NEW u \in Senders \ {s}
    PROVE  place[u] \notin Busy /\ pc[u] = "idle" /\ sdoLock # Nobody
<1>1. sdoLock = s /\ place[u] \notin Busy
  BY DEF NodeInv, LockInv
<1>2. pc[u] \notin {"fetching", "sending"} /\ pc[u] \notin CloseLabels
  BY <1>1 DEF NodeInv, LockInv, Busy
<1>3. pc[u] \in SendLabels \cup CloseLabels
  BY SenderKinds DEF NodeInv
<1> QED  BY <1>1, <1>2, <1>3, ControlAssumption DEF SendLabels

\* The SDO lock lets one thread at a time into CanBus.send and the _close it
\* may call: in the node the reader has one such thread beside it at most,
\* however many connections were lost (sdo.py _transact, canbus.py send).
THEOREM OneAtATime ==
    ControlSpec => [](\A s, u \in Senders : pc[s] # "idle" /\ pc[u] # "idle" => s = u)
<1>1. NodeInv => \A s, u \in Senders : pc[s] # "idle" /\ pc[u] # "idle" => s = u
  <2> SUFFICES ASSUME NodeInv, NEW s \in Senders, NEW u \in Senders \ {s}, pc[s] # "idle"
               PROVE  pc[u] = "idle"
    OBVIOUS
  <2>1. place[s] \in Busy
    BY SenderKinds DEF NodeInv, LockInv, SendLabels, Busy
  <2> QED  BY <2>1, BusyAlone
<1> QED  BY <1>1, NodeInit, NodeStep, PTL DEF ControlSpec

\* How many steps a transaction has before it at most: nine for every attempt
\* that is left, and those of the present one.
CallAhead(s) ==
    LET left == 9 * (Retries + 1 - attempts) IN
    IF place[s] = "attempt" THEN left
    ELSE IF place[s] = "calling" THEN left + (IF pc[s] = "fetching" THEN 8 ELSE 7)
    ELSE IF place[s] = "waiting" THEN left + 1
    ELSE IF place[s] = "raising" THEN 1 + CloseAhead(pc[s]) ELSE 0

\* The number is one.
LEMMA CallNumber ==
    ASSUME NEW p, NEW a \in 0 .. Retries + 1, NEW label
    PROVE  LET left == 9 * (Retries + 1 - a) IN
           (IF p = "attempt" THEN left
            ELSE IF p = "calling" THEN left + (IF label = "fetching" THEN 8 ELSE 7)
            ELSE IF p = "waiting" THEN left + 1
            ELSE IF p = "raising" THEN 1 + CloseAhead(label) ELSE 0) \in Nat
<1>1. CloseAhead(label) \in Nat
  BY DEF CloseAhead
<1>2. 9 * (Retries + 1 - a) \in Nat
  BY ControlAssumption
<1> QED  BY <1>1, <1>2

\* What a transaction does by itself lowers its number.
LEMMA CallFalls ==
    ASSUME NodeInv, NEW s \in Senders, place[s] \in Busy, CallStep(s) \/ TakeAnswer(s)
    PROVE  CallAhead(s)' < CallAhead(s)
<1>p. /\ pc \in [Threads -> Labels] /\ s \in Threads /\ place \in [Senders -> Places]
      /\ attempts \in 0 .. Retries + 1 /\ Retries \in Nat
  BY ControlAssumption, ThreadKinds DEF NodeInv, HandleInv, TypeOK, NodeTypeOK
<1>l. /\ pc[s] \in {"fetching", "sending"} => place[s] = "calling"
      /\ pc[s] \in CloseLabels => place[s] = "raising"
      /\ place[s] = "attempt" => attempts <= Retries
  BY DEF NodeInv, LockInv
<1>f. ASSUME Finish(s) PROVE place'[s] \in {"none", "locking"}
  BY <1>f, <1>p DEF Finish, Move
<1> USE DEF Goto, At, Move
<1>1. CASE Attempt(s)
  <2>1. /\ place[s] = "attempt" /\ attempts <= Retries /\ attempts' = attempts + 1
        /\ place'[s] = "calling" /\ pc'[s] = "fetching"
    BY <1>1, <1>p, <1>l DEF Attempt, CallSend
  <2> QED  BY <1>p, <2>1 DEF CallAhead
<1>2. CASE FetchBus(s)
  <2>1. /\ place[s] = "calling" /\ pc[s] = "fetching" /\ attempts' = attempts
        /\ \/ place'[s] = "calling" /\ pc'[s] = "sending"
           \/ place'[s] = "raising" /\ pc'[s] = "idle"
    BY <1>2, <1>p, <1>l DEF FetchBus, FetchToSend
  <2> QED  BY <1>p, <2>1 DEF CallAhead, CloseAhead
<1>3. CASE Request(s)
  <2>1. /\ place[s] = "calling" /\ pc[s] = "sending" /\ attempts' = attempts
        /\ place'[s] = "waiting"
    BY <1>3, <1>p, <1>l DEF Request, Send
  <2> QED  BY <1>p, <2>1 DEF CallAhead
<1>4. CASE RequestFails(s)
  <2>1. /\ place[s] = "calling" /\ pc[s] = "sending" /\ attempts' = attempts
        /\ place'[s] = "raising" /\ pc'[s] = "taking"
    BY <1>4, <1>p, <1>l DEF RequestFails, SendFails, EnterClose
  <2> QED  BY <1>p, <2>1 DEF CallAhead, CloseAhead
<1>5. CASE Retry(s)
  <2>1. place[s] = "waiting" /\ place'[s] = "attempt" /\ attempts' = attempts
    BY <1>5, <1>p DEF Retry
  <2> QED  BY <1>p, <2>1 DEF CallAhead
<1>6. CASE Raise(s) \/ GiveUp(s) \/ TakeAnswer(s)
  <2>1. CallAhead(s)' = 0
    BY <1>6, <1>f DEF Raise, GiveUp, TakeAnswer, CallAhead
  <2>2. CASE place[s] = "raising" /\ pc[s] = "idle"
    BY <2>1, <2>2 DEF CallAhead, CloseAhead
  <2>3. CASE place[s] = "waiting"
    BY <1>p, <2>1, <2>3 DEF CallAhead
  <2> QED  BY <1>6, <2>2, <2>3 DEF Raise, GiveUp, TakeAnswer
<1>7. CASE CloseCall(s)
  <2>1. /\ pc[s] \in CloseLabels
        /\ CloseAhead(pc'[s]) < CloseAhead(pc[s])
    <3>1. s # Owner /\ s # Reader
      BY ThreadKinds
    <3>2. CASE TakeHandle(s) \/ Shutdown(s) \/ TestConnected(s)
      BY <1>p, <3>1, <3>2 DEF TakeHandle, Shutdown, TestConnected, AfterClose, CloseAhead,
                              CloseLabels
    <3>3. CASE ClearConnected(s) \/ NotifyDown(s)
      BY <1>p, <3>1, <3>3 DEF ClearConnected, NotifyDown, AfterClose, CloseAhead, CloseLabels
    <3> QED  BY <1>7, <3>2, <3>3 DEF CloseCall, ShutdownBus
  <2>2. place[s] = "raising" /\ place' = place
    BY <1>7, <1>l, <2>1 DEF CloseCall, ShutdownBus, control, client
  <2>3. CloseAhead(pc[s]) \in Nat /\ CloseAhead(pc'[s]) \in Nat
    BY DEF CloseAhead
  <2> QED  BY <2>1, <2>2, <2>3 DEF CallAhead
<1> QED  BY <1>1, <1>2, <1>3, <1>4, <1>5, <1>6, <1>7 DEF CallStep

\* No other step changes it, but that an interrupt may end a zero call.
LEMMA CallLeft ==
    ASSUME NodeInv, [ControlNext]_all, NEW s \in Senders, place[s] \in Busy,
           ~CallStep(s), ~TakeAnswer(s)
    PROVE  \/ place'[s] = "none"
           \/ place'[s] = place[s] /\ pc'[s] = pc[s] /\ attempts' = attempts
<1> DEFINE Left == place'[s] = place[s] /\ pc'[s] = pc[s] /\ attempts' = attempts
<1>p. /\ pc \in [Threads -> Labels] /\ s \in Threads /\ s # Owner /\ s # Reader
      /\ place \in [Senders -> Places]
  BY ThreadKinds DEF NodeInv, HandleInv, TypeOK, NodeTypeOK
<1> USE ThreadKinds, ControlAssumption DEF Goto, At, Move, EnterClose, EnterOpen
<1>o. ASSUME NEW t \in {Owner, Reader}, OpenCall(t) PROVE Left
  <2>1. pc'[s] = pc[s]
    BY <1>o, <1>p DEF OpenCall, HearUp, TellUpAndSpawn, TellUpOnly, OpenDevice, OpenFails,
                      StoreHandle, SetConnected, NotifyUp, vars
  <2>2. place'[s] = place[s] /\ attempts' = attempts
    <3>1. CASE TellUpAndSpawn(t)
      BY <3>1, <1>p DEF TellUpAndSpawn, Busy, Helpers
    <3>2. CASE ~TellUpAndSpawn(t)
      BY <1>o, <3>2 DEF OpenCall, HearUp, TellUpOnly, control, client
    <3> QED  BY <3>1, <3>2
  <2> QED  BY <2>1, <2>2
<1>c. ASSUME NEW t \in Threads \ {s}, CloseCall(t) PROVE Left
  BY <1>c, <1>p DEF CloseCall, ShutdownBus, TakeHandle, Shutdown, TestConnected, ClearConnected,
                    NotifyDown, control, client
<1>1. CASE StartBus \/ BeginDestroy
  <2>1. CASE StartBus
    BY <1>p, <2>1 DEF StartBus, Start, control, client
  <2>2. CASE BeginDestroy
    BY <1>p, <2>2 DEF BeginDestroy, vars
  <2> QED  BY <1>1, <2>1, <2>2
<1>2. CASE MainStep
  <2>1. CASE (SpawnReader \/ JoinReader \/ JoinTimesOut) /\ UNCHANGED control
    BY <1>p, <2>1 DEF SpawnReader, JoinReader, JoinTimesOut, control, client
  <2>2. CASE StopBus
    BY <1>p, <2>2 DEF StopBus, RequestStop, control, client
  <2> QED  BY <1>2, <1>c, <1>o, <1>p, <2>1, <2>2 DEF MainStep
<1>3. CASE LoopStep
  <2>1. CASE (CheckStop \/ FetchToOpen \/ FetchToReceive \/ ReceiveFails \/ BackOff)
             /\ UNCHANGED control
    BY <1>p, <2>1 DEF CheckStop, FetchToOpen, FetchToReceive, ReceiveFails, BackOff, control,
                      client
  <2>2. CASE ReceiveOther
    BY <1>p, <2>2 DEF ReceiveOther, Receive, control, client
  <2>3. ASSUME NEW u \in Senders, TakeAnswer(u) PROVE FALSE
    <3>1. u # s /\ place[u] = "waiting"
      BY <2>3 DEF TakeAnswer
    <3> QED  BY <3>1, BusyAlone DEF Busy
  <2> QED  BY <1>3, <1>c, <1>o, <1>p, <2>1, <2>2, <2>3 DEF LoopStep
<1>4. CASE CallZero
  BY <1>p, <1>4 DEF CallZero, vars, Busy
<1>5. ASSUME NEW u \in Senders, Acquire(u) \/ CallStep(u) PROVE Left
  <2>1. ~Acquire(u)
    <3>1. sdoLock # Nobody
      BY ControlAssumption DEF NodeInv, LockInv
    <3> QED  BY <3>1 DEF Acquire
  <2>2. u # s /\ place[u] \notin Busy /\ pc[u] = "idle"
    <3>1. u # s
      BY <1>5, <2>1
    <3> QED  BY <3>1, BusyAlone
  <2>3. ~Attempt(u) /\ ~Retry(u) /\ ~GiveUp(u) /\ ~Raise(u)
    BY <2>2 DEF Attempt, Retry, GiveUp, Raise, Busy
  <2>4. ~FetchBus(u) /\ ~Request(u) /\ ~RequestFails(u) /\ ~CloseCall(u)
    BY <2>2 DEF FetchBus, FetchToSend, Request, Send, RequestFails, SendFails, CloseCall,
                ShutdownBus, TakeHandle, Shutdown, TestConnected, ClearConnected, NotifyDown
  <2> QED  BY <1>5, <2>1, <2>3, <2>4 DEF CallStep
<1>6. CASE UnplugAdapter \/ (Replug /\ UNCHANGED control) \/ PowerOff \/ PowerOn \/ UNCHANGED all
  BY <1>6 DEF UnplugAdapter, Unplug, Replug, PowerOff, PowerOn, all, vars, control, client
<1> QED  BY <1>1, <1>2, <1>3, <1>4, <1>5, <1>6 DEF ControlNext

\* A transaction comes to its end: every step it makes brings the end nearer,
\* and no step of anybody else moves it off, whatever bus and sensor do
\* (sdo.py _transact, driver.py _apply_tpdo_periods, _handle_zero).
THEOREM TransactionsDescend ==
    ControlSpec => [][\A s \in Senders : place[s] \in Busy =>
                         /\ CallAhead(s)' \in 0 .. CallAhead(s)
                         /\ CallStep(s) \/ TakeAnswer(s) => CallAhead(s)' < CallAhead(s)]_all
<1>1. NodeInv /\ NodeInv' /\ [ControlNext]_all
        => [\A s \in Senders : place[s] \in Busy =>
               /\ CallAhead(s)' \in 0 .. CallAhead(s)
               /\ CallStep(s) \/ TakeAnswer(s) => CallAhead(s)' < CallAhead(s)]_all
  <2> SUFFICES ASSUME NodeInv, NodeInv', [ControlNext]_all, NEW s \in Senders, place[s] \in Busy
               PROVE  /\ CallAhead(s)' \in 0 .. CallAhead(s)
                      /\ CallStep(s) \/ TakeAnswer(s) => CallAhead(s)' < CallAhead(s)
    OBVIOUS
  <2>1. CallAhead(s) \in Nat
    <3>1. attempts \in 0 .. Retries + 1
      BY DEF NodeInv, NodeTypeOK
    <3> QED  BY <3>1, CallNumber DEF CallAhead
  <2>2. CallAhead(s)' \in Nat
    <3>1. attempts' \in 0 .. Retries + 1
      BY DEF NodeInv, NodeTypeOK
    <3> QED  BY <3>1, CallNumber DEF CallAhead
  <2>3. CASE CallStep(s) \/ TakeAnswer(s)
    <3>1. CallAhead(s)' < CallAhead(s)
      BY <2>3, CallFalls
    <3> QED  BY <2>1, <2>2, <3>1
  <2>4. CASE ~CallStep(s) /\ ~TakeAnswer(s)
    <3>1. \/ place'[s] = "none"
          \/ place'[s] = place[s] /\ pc'[s] = pc[s] /\ attempts' = attempts
      BY <2>4, CallLeft
    <3>2. CallAhead(s)' = 0 \/ CallAhead(s)' = CallAhead(s)
      BY <3>1 DEF CallAhead
    <3> QED  BY <2>1, <2>4, <3>2
  <2> QED  BY <2>3, <2>4
<1> QED  BY <1>1, NodeInit, NodeStep, PTL DEF ControlSpec

-----------------------------------------------------------------------------
(* What a helper has still to write *)

\* A helper that has work is at work, and the service never has any.
TodoInv ==
    /\ \A h \in Helpers : place[h] = "none" <=> todo[h] = {}
    /\ todo[Zero] = {}
    /\ spawning # {} => Periods # {}

\* The periods are written in order, each once: a helper starts with all of
\* them, and crosses off the first one left when the transaction about it ends.
InOrder(h) ==
    \/ todo'[h] = todo[h]
    \/ place[h] = "none" /\ todo'[h] = Periods
    \/ /\ place[h] \in {"waiting", "raising"}
       /\ \E p \in todo[h] : /\ \A q \in todo[h] : p <= q
                             /\ todo'[h] = todo[h] \ {p}

\* Some TPDOs have a first one.
LEMMA FirstPeriod ==
    ASSUME NEW S \in SUBSET Periods, S # {}
    PROVE  \E p \in S : \A q \in S : p <= q
<1>1. S \subseteq 1 .. 3
  BY ControlAssumption
<1>2. CASE 1 \in S
  BY <1>1, <1>2
<1>3. CASE 1 \notin S /\ 2 \in S
  BY <1>1, <1>3
<1>4. CASE 1 \notin S /\ 2 \notin S
  <2>1. \A q \in S : q = 3
    BY <1>1, <1>4
  <2> QED  BY <2>1
<1> QED  BY <1>2, <1>3, <1>4

\* What the end of a transaction crosses off.
LEMMA FinishCrosses ==
    ASSUME NodeInv, TodoInv, NEW s \in Senders, place[s] \in {"waiting", "raising"}, Finish(s),
           spawning' = spawning
    PROVE  TodoInv' /\ \A h \in Helpers : InOrder(h)
<1>p. /\ place \in [Senders -> Places] /\ todo \in [Senders -> SUBSET Periods]
      /\ Helpers \subseteq Senders /\ Zero \in Senders /\ Zero \notin Helpers
  BY ControlAssumption DEF NodeInv, NodeTypeOK, Helpers
<1>1. \A h \in Senders \ {s} : place'[h] = place[h] /\ todo'[h] = todo[h]
  BY <1>p DEF Finish, Move
<1>2. /\ todo'[s] = todo[s] \ Current(s)
      /\ place'[s] = IF todo[s] \ Current(s) = {} THEN "none" ELSE "locking"
  BY <1>p DEF Finish, Move
<1>3. TodoInv'
  <2>1. s = Zero => todo'[s] = {}
    BY <1>2 DEF TodoInv
  <2>2. place'[s] = "none" <=> todo'[s] = {}
    BY <1>2
  <2> QED  BY <1>1, <1>p, <2>1, <2>2 DEF TodoInv
<1>4. ASSUME NEW h \in Helpers PROVE InOrder(h)
  <2>1. CASE h # s
    BY <1>1, <1>p, <2>1 DEF InOrder
  <2>2. CASE h = s
    <3>1. todo[h] # {} /\ todo[h] \in SUBSET Periods
      BY <1>p, <2>2 DEF TodoInv
    <3>2. PICK p \in todo[h] : \A q \in todo[h] : p <= q
      BY <3>1, FirstPeriod
    <3>3. \A q \in todo[h] : q \in 1 .. 3
      BY <3>1, ControlAssumption
    <3>4. Current(h) = {p}
      BY <3>2, <3>3 DEF Current
    <3> QED  BY <1>2, <2>2, <3>2, <3>4 DEF InOrder
  <2> QED  BY <2>1, <2>2
<1> QED  BY <1>3, <1>4

\* TodoInv is inductive, and every step goes in order.
LEMMA TodoStep ==
    NodeInv /\ TodoInv /\ [ControlNext]_all => TodoInv' /\ \A h \in Helpers : InOrder(h)
<1> DEFINE Goal == TodoInv' /\ \A h \in Helpers : InOrder(h)
<1> SUFFICES ASSUME NodeInv, TodoInv, [ControlNext]_all PROVE Goal
  OBVIOUS
<1>p. /\ place \in [Senders -> Places] /\ todo \in [Senders -> SUBSET Periods]
      /\ Helpers \subseteq Senders /\ Zero \in Senders /\ Zero \notin Helpers
  BY ControlAssumption DEF NodeInv, NodeTypeOK, Helpers
<1>u. ASSUME \A h \in Helpers : place'[h] = "none" <=> place[h] = "none",
             todo' = todo, spawning' = {} \/ spawning' = spawning
      PROVE  Goal
  BY <1>u DEF TodoInv, InOrder
<1> HIDE DEF Goal
<1>c. ASSUME NEW t, CloseCall(t) PROVE Goal
  BY <1>c, <1>u DEF CloseCall, ShutdownBus, control, client
<1>o. ASSUME NEW t \in {Owner, Reader}, OpenCall(t) PROVE Goal
  <2>1. CASE HearUp(t)
    BY <2>1 DEF HearUp, client, TodoInv, InOrder, Goal
  <2>2. CASE TellUpAndSpawn(t)
    <3>1. PICK g \in Helpers : /\ place[g] = "none" /\ Move(g, "locking")
                               /\ todo' = [todo EXCEPT ![g] = Periods]
      BY <2>2 DEF TellUpAndSpawn
    <3>2. Periods # {} /\ spawning' \subseteq spawning
      BY <2>2 DEF TellUpAndSpawn, TodoInv
    <3>3. /\ place'[g] = "locking" /\ todo'[g] = Periods
          /\ \A s \in Senders \ {g} : place'[s] = place[s] /\ todo'[s] = todo[s]
      BY <1>p, <3>1 DEF Move
    <3>4. TodoInv'
      BY <1>p, <3>2, <3>3 DEF TodoInv
    <3>5. \A h \in Helpers : InOrder(h)
      BY <1>p, <3>1, <3>3 DEF InOrder
    <3> QED  BY <3>4, <3>5 DEF Goal
  <2>3. CASE UNCHANGED control
    BY <1>u, <2>3 DEF control, client
  <2> QED  BY <1>o, <2>1, <2>2, <2>3 DEF OpenCall, TellUpOnly
<1>m. ASSUME NEW s \in Senders, NEW p, place[s] # "none", p # "none", Move(s, p),
             UNCHANGED <<todo, spawning>>
      PROVE  Goal
  BY <1>m, <1>p, <1>u DEF Move
<1>z. ASSUME NEW p, Move(Zero, p), UNCHANGED <<todo, spawning>> PROVE Goal
  BY <1>p, <1>u, <1>z DEF Move
<1>1. CASE BeginDestroy \/ CallZero
  BY <1>1, <1>z DEF BeginDestroy, CallZero
<1>2. CASE StartBus \/ MainStep
  BY <1>2, <1>c, <1>o, <1>u DEF StartBus, MainStep, StopBus, control, client
<1>3. CASE LoopStep
  <2>1. ASSUME NEW s \in Senders, TakeAnswer(s) PROVE Goal
    BY <2>1, FinishCrosses DEF TakeAnswer, Goal
  <2> QED  BY <1>3, <1>c, <1>o, <1>u, <2>1 DEF LoopStep, ReceiveOther, control, client
<1>4. ASSUME NEW s \in Senders, Acquire(s) \/ CallStep(s) PROVE Goal
  <2>1. CASE Acquire(s) \/ Attempt(s) \/ Retry(s)
    BY <1>m, <2>1 DEF Acquire, Attempt, Retry
  <2>2. CASE FetchBus(s) \/ Request(s) \/ RequestFails(s)
    <3>1. place[s] = "calling"
      BY <2>2 DEF FetchBus, FetchToSend, Request, Send, RequestFails, SendFails, At, NodeInv,
                  LockInv
    <3> QED  BY <1>m, <2>2, <3>1 DEF FetchBus, Request, RequestFails
  <2>3. CASE Raise(s) \/ GiveUp(s)
    BY <2>3, FinishCrosses DEF Raise, GiveUp, Goal
  <2> QED  BY <1>4, <1>c, <2>1, <2>2, <2>3 DEF CallStep
<1>5. CASE UnplugAdapter \/ (Replug /\ UNCHANGED control) \/ PowerOff \/ PowerOn \/ UNCHANGED all
  BY <1>5, <1>u DEF UnplugAdapter, PowerOff, PowerOn, all, control, client
<1> QED  BY <1>1, <1>2, <1>3, <1>4, <1>5 DEF ControlNext

\* A helper writes the periods in order and each once, goes on when one fails,
\* and has no more transactions than there are periods (driver.py
\* _apply_tpdo_periods).
THEOREM PeriodsInOrder == ControlSpec => [][\A h \in Helpers : InOrder(h)]_all
<1>1. ControlInit => TodoInv
  BY ControlAssumption DEF ControlInit, TodoInv, Helpers
<1> QED  BY <1>1, NodeInit, NodeStep, TodoStep, PTL DEF ControlSpec
=============================================================================
