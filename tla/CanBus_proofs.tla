---------------------------- MODULE CanBus_proofs ----------------------------
(***************************************************************************)
(* Proofs about CanBus, for any number of senders and of Bus objects.      *)
(***************************************************************************)
EXTENDS CanBus, TLAPS

USE DEF shared, device, history

-----------------------------------------------------------------------------
(* Type correctness *)

\* The steps of _open, by whichever thread, keep the types.
LEMMA OpenStepType ==
    ASSUME TypeOK, NEW t \in Threads, OpenStep(t)
    PROVE  TypeOK'
<1> USE DEF TypeOK, Goto, At, Keep, Labels, OpenLabels, CloseLabels, OwnerLabels,
            LoopLabels, SendLabels, UsingLabels
<1>1. CASE OpenDevice(t)
  BY <1>1, HandlesAssumption DEF OpenDevice, Disturbed
<1>2. CASE OpenFails(t)
  BY <1>2 DEF OpenFails, AfterOpen
<1>3. CASE StoreHandle(t)
  BY <1>3 DEF StoreHandle
<1>4. CASE SetConnected(t)
  BY <1>4 DEF SetConnected
<1>5. CASE NotifyUp(t)
  BY <1>5 DEF NotifyUp, AfterOpen
<1>6. QED
  BY <1>1, <1>2, <1>3, <1>4, <1>5 DEF OpenStep

\* The steps of _close, by whichever thread, keep the types.
LEMMA CloseStepType ==
    ASSUME TypeOK, NEW t \in Threads, CloseStep(t)
    PROVE  TypeOK'
<1> USE DEF TypeOK, Goto, At, Keep, Labels, OpenLabels, CloseLabels, OwnerLabels,
            LoopLabels, SendLabels, UsingLabels, AfterClose
<1>1. CASE TakeHandle(t)
  BY <1>1 DEF TakeHandle
<1>2. CASE Shutdown(t)
  BY <1>2 DEF Shutdown
<1>3. CASE TestConnected(t)
  BY <1>3 DEF TestConnected
<1>4. CASE ClearConnected(t)
  BY <1>4 DEF ClearConnected
<1>5. CASE NotifyDown(t)
  BY <1>5 DEF NotifyDown
<1>6. QED
  BY <1>1, <1>2, <1>3, <1>4, <1>5 DEF CloseStep

\* Every step keeps the types.
LEMMA TypeStep == TypeOK /\ [Next]_vars => TypeOK'
<1> SUFFICES ASSUME TypeOK, [Next]_vars PROVE TypeOK'
  OBVIOUS
<1> USE DEF TypeOK, Goto, At, Keep, Labels, OpenLabels, CloseLabels, OwnerLabels,
            LoopLabels, SendLabels, UsingLabels, EnterOpen, EnterClose, Disturbed
<1>t. Owner \in Threads /\ Reader \in Threads /\ Senders \subseteq Threads
  BY DEF Threads
<1>1. CASE Start
  BY <1>1, <1>t DEF Start
<1>2. CASE RequestStop
  BY <1>2, <1>t DEF RequestStop
<1>3. CASE OwnerStep
  <2>1. CASE SpawnReader
    BY <2>1, <1>t DEF SpawnReader
  <2>2. CASE JoinReader
    BY <2>2, <1>t DEF JoinReader
  <2>3. CASE JoinTimesOut
    BY <2>3, <1>t DEF JoinTimesOut
  <2>4. QED
    BY <1>3, <1>t, <2>1, <2>2, <2>3, OpenStepType, CloseStepType DEF OwnerStep
<1>4. CASE ReaderStep
  <2>1. CASE CheckStop
    BY <2>1, <1>t DEF CheckStop
  <2>2. CASE FetchToOpen
    BY <2>2, <1>t DEF FetchToOpen
  <2>3. CASE FetchToReceive
    BY <2>3, <1>t DEF FetchToReceive
  <2>4. CASE Receive
    BY <2>4, <1>t DEF Receive
  <2>5. CASE ReceiveFails
    BY <2>5, <1>t DEF ReceiveFails
  <2>6. CASE BackOff
    BY <2>6, <1>t DEF BackOff
  <2>7. QED
    BY <1>4, <1>t, <2>1, <2>2, <2>3, <2>4, <2>5, <2>6, OpenStepType, CloseStepType
       DEF ReaderStep
<1>5. ASSUME NEW s \in Senders, CallSend(s) \/ SenderStep(s)
      PROVE  TypeOK'
  <2>1. CASE CallSend(s)
    BY <2>1, <1>t DEF CallSend
  <2>2. CASE FetchToSend(s)
    BY <2>2, <1>t DEF FetchToSend
  <2>3. CASE Send(s)
    BY <2>3, <1>t DEF Send
  <2>4. CASE SendFails(s)
    BY <2>4, <1>t DEF SendFails
  <2>5. QED
    BY <1>5, <1>t, <2>1, <2>2, <2>3, <2>4, CloseStepType DEF SenderStep
<1>6. CASE Unplug
  BY <1>6 DEF Unplug
<1>7. CASE Replug
  BY <1>7 DEF Replug
<1>8. CASE UNCHANGED vars
  BY <1>8 DEF vars
<1>9. QED
  BY <1>1, <1>2, <1>3, <1>4, <1>5, <1>6, <1>7, <1>8 DEF Next

\* Every variable keeps its type, for any set of senders and of Bus objects.
THEOREM TypeCorrect == Spec => []TypeOK
<1>1. Init => TypeOK
  BY DEF Init, TypeOK, Labels, OpenLabels, CloseLabels, OwnerLabels, LoopLabels,
         SendLabels, UsingLabels
<1>2. QED
  BY <1>1, TypeStep, PTL DEF Spec

-----------------------------------------------------------------------------
(* No handle is lost or shut down twice *)

\* Each kind of thread stays in its own part of the program.
Kinds ==
    /\ pc[Owner] \in OwnerLabels \cup OpenLabels \cup CloseLabels
    /\ pc[Reader] \in LoopLabels \cup OpenLabels \cup CloseLabels
    /\ \A s \in Senders : pc[s] \in SendLabels \cup CloseLabels

\* Only the owner before the reader exists, and then the reader, runs _open,
\* and it does so when there is no bus.  Nobody else stores one meanwhile.
OneOpener ==
    /\ pc[Owner] \in OpenLabels \cup {"constructed", "starting"} => pc[Reader] = "unborn"
    /\ At(Owner, "constructed") => bus = NoBus
    /\ \A t \in Threads : pc[t] \in {"opening", "storing"} => bus = NoBus

HandleInv == TypeOK /\ Kinds /\ OneOpener /\ HandlesAccounted

\* The threads are told apart, and None is no handle.
LEMMA ThreadKinds ==
    /\ Owner \in Threads /\ Reader \in Threads /\ Senders \subseteq Threads
    /\ Owner # Reader /\ Owner \notin Senders /\ Reader \notin Senders
    /\ NoBus \notin Handles
BY ThreadsAssumption, HandlesAssumption DEF Threads

\* A step that moves no handle keeps the account.
LEMMA AccountKept ==
    ASSUME HandlesAccounted, live' = live, bus' = bus,
           \A t \in Threads : /\ InHand(t)' <=> InHand(t)
                              /\ InHand(t) => held'[t] = held[t]
    PROVE  HandlesAccounted'
BY DEF HandlesAccounted

\* The steps of _open keep the account of handles.
LEMMA OpenStepHandles ==
    ASSUME HandleInv, NEW t \in {Owner, Reader}, OpenStep(t)
    PROVE  Kinds' /\ OneOpener' /\ HandlesAccounted'
<1> USE ThreadKinds DEF HandleInv
<1>p. pc \in [Threads -> Labels] /\ held \in [Threads -> Handles \cup {NoBus}]
  BY DEF TypeOK
<1>1. CASE OpenDevice(t)
  <2>1. PICK h \in Handles : Fresh(h) /\ live' = live \cup {h} /\ Keep(t, h)
    BY <1>1 DEF OpenDevice
  <2>2. At(t, "opening") /\ Goto(t, "storing") /\ bus' = bus /\ bus = NoBus
    BY <1>1 DEF OpenDevice, OneOpener, At
  <2>3. Kinds' /\ OneOpener'
    BY <1>p, <2>2 DEF Kinds, OneOpener, Goto, At, OwnerLabels, OpenLabels, CloseLabels,
                     LoopLabels, SendLabels
  <2>4. /\ InHand(t)' /\ held'[t] = h /\ ~InHand(t)
        /\ \A u \in Threads \ {t} : (InHand(u)' <=> InHand(u)) /\ held'[u] = held[u]
    BY <1>p, <2>1, <2>2 DEF InHand, Goto, Keep, At
  <2>5. HandlesAccounted'
    BY <2>1, <2>2, <2>4 DEF HandlesAccounted, Fresh
  <2>6. QED
    BY <2>3, <2>5
<1>2. CASE OpenFails(t)
  <2>1. Kinds' /\ OneOpener'
    BY <1>2, <1>p DEF OpenFails, AfterOpen, Kinds, OneOpener, Goto, At, OwnerLabels,
                      OpenLabels, CloseLabels, LoopLabels, SendLabels
  <2>2. HandlesAccounted'
    BY <1>2, <1>p, AccountKept DEF OpenFails, AfterOpen, Goto, At, InHand
  <2>3. QED
    BY <2>1, <2>2
<1>3. CASE StoreHandle(t)
  <2>1. /\ At(t, "storing") /\ Goto(t, "flagging") /\ bus' = held[t] /\ bus = NoBus
        /\ Keep(t, NoBus) /\ live' = live
    BY <1>3 DEF StoreHandle, OneOpener, At
  <2>2. \A u \in Threads : pc[u] \in {"opening", "storing"} => u = t
    BY <2>1 DEF Threads, OneOpener, At, Kinds, OpenLabels, CloseLabels, OwnerLabels,
               LoopLabels, SendLabels
  <2>3. Kinds' /\ OneOpener'
    BY <1>p, <2>1, <2>2 DEF Kinds, OneOpener, Goto, At, OwnerLabels, OpenLabels,
                          CloseLabels, LoopLabels, SendLabels
  <2>4. /\ InHand(t) /\ ~InHand(t)'
        /\ \A u \in Threads \ {t} : (InHand(u)' <=> InHand(u)) /\ held'[u] = held[u]
    BY <1>p, <2>1 DEF InHand, Goto, Keep, At
  <2>5. HandlesAccounted'
    BY <1>p, <2>1, <2>4 DEF HandlesAccounted
  <2>6. QED
    BY <2>3, <2>5
<1>4. CASE SetConnected(t)
  <2>1. Kinds' /\ OneOpener'
    BY <1>4, <1>p DEF SetConnected, Kinds, OneOpener, Goto, At, OwnerLabels,
                      OpenLabels, CloseLabels, LoopLabels, SendLabels
  <2>2. HandlesAccounted'
    BY <1>4, <1>p, AccountKept DEF SetConnected, Goto, At, InHand
  <2>3. QED
    BY <2>1, <2>2
<1>5. CASE NotifyUp(t)
  <2>1. Kinds' /\ OneOpener'
    BY <1>5, <1>p DEF NotifyUp, AfterOpen, Kinds, OneOpener, Goto, At, OwnerLabels,
                      OpenLabels, CloseLabels, LoopLabels, SendLabels
  <2>2. HandlesAccounted'
    BY <1>5, <1>p, AccountKept DEF NotifyUp, AfterOpen, Goto, At, InHand
  <2>3. QED
    BY <2>1, <2>2
<1>6. QED
  BY <1>1, <1>2, <1>3, <1>4, <1>5 DEF OpenStep

\* The steps of _close keep the account of handles.
LEMMA CloseStepHandles ==
    ASSUME HandleInv, NEW t \in Threads, CloseStep(t)
    PROVE  Kinds' /\ OneOpener' /\ HandlesAccounted'
<1> USE ThreadKinds DEF HandleInv
<1>p. pc \in [Threads -> Labels] /\ held \in [Threads -> Handles \cup {NoBus}]
  BY DEF TypeOK
<1>k. Kinds' /\ OneOpener'
  BY <1>p DEF CloseStep, TakeHandle, Shutdown, TestConnected, ClearConnected, NotifyDown,
              AfterClose, Kinds, OneOpener, Goto, At, OwnerLabels, OpenLabels,
              CloseLabels, LoopLabels, SendLabels, Threads
<1>1. CASE TakeHandle(t)
  <2>1. /\ At(t, "taking") /\ Goto(t, IF bus = NoBus THEN "testing" ELSE "shutting")
        /\ Keep(t, bus) /\ bus' = NoBus /\ live' = live
    BY <1>1 DEF TakeHandle
  <2>2. /\ ~InHand(t) /\ held'[t] = bus /\ (InHand(t)' <=> bus # NoBus)
        /\ \A u \in Threads \ {t} : (InHand(u)' <=> InHand(u)) /\ held'[u] = held[u]
    BY <1>p, <2>1 DEF InHand, Goto, Keep, At
  <2>3. HandlesAccounted'
    BY <1>p, <2>1, <2>2 DEF HandlesAccounted
  <2>4. QED
    BY <1>k, <2>3
<1>2. CASE Shutdown(t)
  <2>1. /\ At(t, "shutting") /\ Goto(t, "testing")
        /\ Keep(t, NoBus) /\ bus' = bus /\ live' = live \ {held[t]}
    BY <1>2 DEF Shutdown
  <2>2. /\ InHand(t) /\ ~InHand(t)'
        /\ \A u \in Threads \ {t} : (InHand(u)' <=> InHand(u)) /\ held'[u] = held[u]
    BY <1>p, <2>1 DEF InHand, Goto, Keep, At
  <2>3. HandlesAccounted'
    BY <1>p, <2>1, <2>2 DEF HandlesAccounted
  <2>4. QED
    BY <1>k, <2>3
<1>3. CASE TestConnected(t)
  BY <1>3, <1>k, <1>p, AccountKept DEF TestConnected, AfterClose, Goto, At, InHand
<1>4. CASE ClearConnected(t)
  BY <1>4, <1>k, <1>p, AccountKept DEF ClearConnected, Goto, At, InHand
<1>5. CASE NotifyDown(t)
  BY <1>5, <1>k, <1>p, AccountKept DEF NotifyDown, AfterClose, Goto, At, InHand
<1>6. QED
  BY <1>1, <1>2, <1>3, <1>4, <1>5 DEF CloseStep

\* HandleInv is inductive.
LEMMA HandleStep == HandleInv /\ [Next]_vars => HandleInv'
<1> SUFFICES ASSUME HandleInv, [Next]_vars PROVE HandleInv'
  OBVIOUS
<1> USE ThreadKinds DEF HandleInv
<1>p. pc \in [Threads -> Labels] /\ held \in [Threads -> Handles \cup {NoBus}]
  BY DEF TypeOK
<1>t. TypeOK'
  BY TypeStep
<1>o. ASSUME NEW t \in {Owner, Reader}, OpenStep(t) \/ CloseStep(t) PROVE HandleInv'
  BY <1>t, <1>o, OpenStepHandles, CloseStepHandles
<1>1. CASE Start \/ RequestStop \/ SpawnReader \/ JoinReader \/ JoinTimesOut
  <2>1. Kinds' /\ OneOpener'
    BY <1>1, <1>p DEF Start, RequestStop, SpawnReader, JoinReader, JoinTimesOut, MayBlock,
         Kinds, OneOpener, Goto, At, OwnerLabels, OpenLabels, CloseLabels, LoopLabels,
         SendLabels, EnterOpen, EnterClose
  <2>2. HandlesAccounted'
    BY <1>1, <1>p, AccountKept DEF Start, RequestStop, SpawnReader, JoinReader,
         JoinTimesOut, OneOpener, Goto, At, InHand, EnterOpen, EnterClose, OpenLabels
  <2>3. QED
    BY <1>t, <2>1, <2>2
<1>2. CASE CheckStop \/ FetchToOpen \/ FetchToReceive \/ Receive \/ ReceiveFails \/ BackOff
  <2>1. Kinds' /\ OneOpener'
    BY <1>2, <1>p DEF CheckStop, FetchToOpen, FetchToReceive, Receive, ReceiveFails, BackOff,
         Kinds, OneOpener, Goto, At, OwnerLabels, OpenLabels, CloseLabels, LoopLabels,
         SendLabels, EnterOpen, EnterClose
  <2>2. HandlesAccounted'
    BY <1>2, <1>p, AccountKept DEF CheckStop, FetchToOpen, FetchToReceive, Receive,
         ReceiveFails, BackOff, Goto, At, Keep, InHand, EnterOpen, EnterClose
  <2>3. QED
    BY <1>t, <2>1, <2>2
<1>3. ASSUME NEW s \in Senders, CallSend(s) \/ FetchToSend(s) \/ Send(s) \/ SendFails(s)
      PROVE  HandleInv'
  <2>1. Kinds' /\ OneOpener'
    BY <1>3, <1>p DEF CallSend, FetchToSend, Send, SendFails,
         Kinds, OneOpener, Goto, At, OwnerLabels, OpenLabels, CloseLabels, LoopLabels,
         SendLabels, EnterClose, Threads
  <2>2. HandlesAccounted'
    BY <1>3, <1>p, AccountKept DEF CallSend, FetchToSend, Send, SendFails, Goto, At, Keep,
         InHand, EnterClose
  <2>3. QED
    BY <1>t, <2>1, <2>2
<1>4. CASE Unplug \/ Replug \/ UNCHANGED vars
  BY <1>4, <1>t, AccountKept DEF Unplug, Replug, vars, Kinds, OneOpener, At, InHand
<1>5. QED
  BY <1>o, <1>1, <1>2, <1>3, <1>4, CloseStepHandles, <1>t
     DEF Next, OwnerStep, ReaderStep, SenderStep

\* HandleInv holds initially.
LEMMA HandleInit == Init => HandleInv
BY ThreadKinds DEF Init, HandleInv, TypeOK, UsingLabels, Labels, OpenLabels, CloseLabels, OwnerLabels,
   LoopLabels, SendLabels, Kinds, OneOpener, HandlesAccounted, At, InHand, Threads

\* No Bus object is ever lost or shut down twice: the open ones are exactly
\* self._bus and those that one thread is about to store or to shut down.
THEOREM HandlesSafe == Spec => []HandlesAccounted
<1>1. HandleInv => HandlesAccounted
  BY DEF HandleInv
<1>2. QED
  BY <1>1, HandleInit, HandleStep, PTL DEF Spec

-----------------------------------------------------------------------------
(* The flag and the notifications agree with the bus *)

\* What an undisturbed _open or _close has settled at each of its points.
Settled(t) ==
    /\ pc[t] \in {"opening", "taking"} => Exact
    /\ At(t, "flagging") => bus # NoBus
    /\ At(t, "tellUp") => bus # NoBus /\ connected
    /\ pc[t] \in {"shutting", "testing"} => bus = NoBus /\ (connected <=> told = "up")
    /\ At(t, "clearing") => bus = NoBus /\ told = "up"
    /\ At(t, "tellDown") => bus = NoBus /\ ~connected /\ told = "up"

Undisturbed ==
    /\ \A t, u \in Threads : InProcedure(t) /\ InProcedure(u) => t = u
    /\ \A t \in Threads : Settled(t)
    /\ Quiet => Exact

ExactInv == HandleInv /\ (~overlapped => Undisturbed)

\* A step that leaves every thread in or out of the procedures where it was,
\* and the four variables alone, keeps ExactInv's second half.
LEMMA UndisturbedKept ==
    ASSUME ~overlapped => Undisturbed, bus' = bus, connected' = connected, told' = told,
           overlapped' = overlapped,
           \A t \in Threads : \/ pc'[t] = pc[t]
                              \/ ~InProcedure(t) /\ ~InProcedure(t)'
    PROVE  (~overlapped => Undisturbed)'
BY DEF Undisturbed, Settled, Exact, Quiet, InProcedure, At, OpenLabels, CloseLabels

\* So does the call of _open or of _close, which makes the history true unless
\* the caller is alone.
LEMMA EnterKept ==
    ASSUME ~overlapped => Undisturbed, pc \in [Threads -> Labels],
           NEW t \in Threads, ~InProcedure(t), EnterOpen(t) \/ EnterClose(t),
           bus' = bus, connected' = connected, told' = told
    PROVE  (~overlapped => Undisturbed)'
<1> SUFFICES ASSUME ~overlapped' PROVE Undisturbed'
  OBVIOUS
<1>1. ~overlapped /\ ~Disturbed(t) /\ Undisturbed
  BY DEF EnterOpen, EnterClose
<1>2. Exact
  BY <1>1 DEF Disturbed, Undisturbed, Quiet
<1>3. /\ pc'[t] \in {"opening", "taking"}
      /\ \A u \in Threads \ {t} : pc'[u] = pc[u] /\ ~InProcedure(u)
  BY <1>1 DEF EnterOpen, EnterClose, Goto, Disturbed
<1>4. QED
  BY <1>2, <1>3 DEF Undisturbed, Settled, Exact, Quiet, InProcedure, At, OpenLabels,
                   CloseLabels

\* The steps of _open and of _close.
LEMMA ProcedureExact ==
    ASSUME ExactInv, NEW t \in Threads, OpenStep(t) \/ CloseStep(t)
    PROVE  (~overlapped => Undisturbed)'
<1> USE ThreadKinds DEF ExactInv, HandleInv
<1>p. pc \in [Threads -> Labels] /\ InProcedure(t)
  BY DEF TypeOK, OpenStep, CloseStep, OpenDevice, OpenFails, StoreHandle, SetConnected,
         NotifyUp, TakeHandle, Shutdown, TestConnected, ClearConnected, NotifyDown,
         InProcedure, At, OpenLabels, CloseLabels
<1>s. SUFFICES ASSUME ~overlapped' PROVE Undisturbed'
  OBVIOUS
<1>g. \A u \in Threads \ {t} : pc'[u] = pc[u]
  BY <1>p DEF OpenStep, CloseStep, OpenDevice, OpenFails, StoreHandle, SetConnected,
         NotifyUp, TakeHandle, Shutdown, TestConnected, ClearConnected, NotifyDown, Goto
<1>a. \A u \in Threads \ {t} : ~InProcedure(u)
  <2>1. CASE OpenDevice(t)
    BY <1>s, <2>1 DEF OpenDevice, Disturbed
  <2>2. CASE ~OpenDevice(t)
    <3>1. overlapped' = overlapped
      BY <2>2 DEF OpenStep, CloseStep, OpenFails, StoreHandle, SetConnected, NotifyUp,
                  TakeHandle, Shutdown, TestConnected, ClearConnected, NotifyDown
    <3>2. QED
      BY <3>1, <1>s, <1>p DEF Undisturbed
  <2>3. QED
    BY <2>1, <2>2
<1>b. ~OpenDevice(t) => Settled(t)
  BY <1>s DEF OpenStep, CloseStep, OpenFails, StoreHandle, SetConnected, NotifyUp,
          TakeHandle, Shutdown, TestConnected, ClearConnected, NotifyDown, Undisturbed
<1>c. SUFFICES Settled(t)' /\ (~InProcedure(t)' => Exact')
  BY <1>g, <1>a DEF Undisturbed, Settled, Quiet, InProcedure, At, OpenLabels, CloseLabels
<1> USE DEF Settled, Exact, InProcedure, At, Goto, OpenLabels, CloseLabels, AfterOpen,
            AfterClose
<1>1. CASE OpenDevice(t)
  BY <1>1, <1>p DEF OpenDevice
<1>2. CASE OpenFails(t)
  BY <1>2, <1>p, <1>b DEF OpenFails, OpenDevice
<1>3. CASE StoreHandle(t)
  <2>1. held[t] # NoBus
    BY <1>3 DEF HandlesAccounted, InHand, StoreHandle
  <2>2. QED
    BY <1>3, <1>p, <2>1 DEF StoreHandle
<1>4. CASE SetConnected(t)
  BY <1>4, <1>p, <1>b DEF SetConnected, OpenDevice
<1>5. CASE NotifyUp(t)
  BY <1>5, <1>p, <1>b DEF NotifyUp, OpenDevice
<1>6. CASE TakeHandle(t)
  BY <1>6, <1>p, <1>b DEF TakeHandle, OpenDevice
<1>7. CASE Shutdown(t)
  BY <1>7, <1>p, <1>b DEF Shutdown, OpenDevice
<1>8. CASE TestConnected(t)
  BY <1>8, <1>p, <1>b DEF TestConnected, OpenDevice
<1>9. CASE ClearConnected(t)
  BY <1>9, <1>p, <1>b DEF ClearConnected, OpenDevice
<1>10. CASE NotifyDown(t)
  BY <1>10, <1>p, <1>b DEF NotifyDown, OpenDevice
<1>11. QED
  BY <1>1, <1>2, <1>3, <1>4, <1>5, <1>6, <1>7, <1>8, <1>9, <1>10 DEF OpenStep, CloseStep

\* ExactInv is inductive.
LEMMA ExactStep == ExactInv /\ [Next]_vars => ExactInv'
<1> SUFFICES ASSUME ExactInv, [Next]_vars PROVE ExactInv'
  OBVIOUS
<1> USE ThreadKinds DEF ExactInv
<1>p. pc \in [Threads -> Labels]
  BY DEF HandleInv, TypeOK
<1>h. HandleInv'
  BY HandleStep
<1>1. ASSUME NEW t \in Threads, OpenStep(t) \/ CloseStep(t) PROVE ExactInv'
  BY <1>1, <1>h, ProcedureExact
<1>2. CASE RequestStop \/ SpawnReader \/ (Start /\ Goto(Owner, "starting") /\ UNCHANGED overlapped)
  <2>1. \A t \in Threads : pc'[t] = pc[t] \/ (~InProcedure(t) /\ ~InProcedure(t)')
    BY <1>2, <1>p, <1>h DEF HandleInv, Kinds, OneOpener, RequestStop, SpawnReader, Start, Goto,
       At, InProcedure, OpenLabels, CloseLabels
  <2>2. QED
    BY <1>2, <1>h, <2>1, UndisturbedKept DEF RequestStop, SpawnReader, Start
<1>3. CASE JoinReader \/ JoinTimesOut \/ (Start /\ EnterOpen(Owner))
  <2>1. ~InProcedure(Owner)
    BY <1>3 DEF JoinReader, JoinTimesOut, Start, At, InProcedure, OpenLabels, CloseLabels
  <2>2. QED
    BY <1>3, <1>h, <1>p, <2>1, EnterKept DEF JoinReader, JoinTimesOut, Start
<1>4. CASE CheckStop \/ FetchToReceive \/ Receive \/ BackOff
  <2>1. \A t \in Threads : pc'[t] = pc[t] \/ (~InProcedure(t) /\ ~InProcedure(t)')
    BY <1>4, <1>p DEF CheckStop, FetchToReceive, Receive, BackOff, Goto, At, InProcedure,
       OpenLabels, CloseLabels
  <2>2. QED
    BY <1>4, <1>h, <2>1, UndisturbedKept DEF CheckStop, FetchToReceive, Receive, BackOff
<1>5. CASE FetchToOpen \/ ReceiveFails
  <2>1. ~InProcedure(Reader)
    BY <1>5 DEF FetchToOpen, ReceiveFails, At, InProcedure, OpenLabels, CloseLabels
  <2>2. QED
    BY <1>5, <1>h, <1>p, <2>1, EnterKept DEF FetchToOpen, ReceiveFails
<1>6. ASSUME NEW s \in Senders, CallSend(s) \/ FetchToSend(s) \/ Send(s) PROVE ExactInv'
  <2>1. \A t \in Threads : pc'[t] = pc[t] \/ (~InProcedure(t) /\ ~InProcedure(t)')
    BY <1>6, <1>p DEF CallSend, FetchToSend, Send, Goto, At, InProcedure, OpenLabels,
       CloseLabels
  <2>2. QED
    BY <1>6, <1>h, <2>1, UndisturbedKept DEF CallSend, FetchToSend, Send
<1>7. ASSUME NEW s \in Senders, SendFails(s) PROVE ExactInv'
  <2>1. ~InProcedure(s) /\ s \in Threads
    BY <1>7 DEF SendFails, At, InProcedure, OpenLabels, CloseLabels
  <2>2. QED
    BY <1>7, <1>h, <1>p, <2>1, EnterKept DEF SendFails
<1>8. CASE Unplug \/ Replug \/ UNCHANGED vars
  BY <1>8, <1>h, UndisturbedKept DEF Unplug, Replug, vars
<1>9. QED
  BY <1>1, <1>2, <1>3, <1>4, <1>5, <1>6, <1>7, <1>8
     DEF Next, OwnerStep, ReaderStep, SenderStep, Start

\* ExactInv holds initially.
LEMMA ExactInit == Init => ExactInv
<1> SUFFICES ASSUME Init PROVE ExactInv
  OBVIOUS
<1>1. HandleInv
  BY HandleInit
<1>2. \A t \in Threads : pc[t] \in {"constructed", "unborn", "idle"}
  BY ThreadKinds DEF Init
<1> QED
  BY <1>1, <1>2 DEF Init, ExactInv, Undisturbed, Settled, Exact, InProcedure, At, OpenLabels,
                    CloseLabels

\* What ExactInv is for.
LEMMA ExactMeans == ExactInv => UndisturbedExact
BY DEF ExactInv, Undisturbed, UndisturbedExact, Settled

\* After every _open and _close has returned, the flag and the last
\* notification agree with the bus, and no disconnection is notified twice,
\* if the last ones did not overlap.
THEOREM ExactSafe == Spec => []UndisturbedExact
BY ExactInit, ExactStep, ExactMeans, PTL DEF Spec

-----------------------------------------------------------------------------
(* stop() that waited for the reader *)

\* What the owner's part of stop() has settled when the reader was waited for.
StopInv ==
    ~abandoned =>
      /\ pc[Owner] \in CloseLabels \cup {"stopped"} => pc[Reader] \in {"unborn", "exited"}
      /\ pc[Owner] \in {"shutting", "testing", "clearing", "tellDown", "stopped"}
           => bus = NoBus
      /\ pc[Owner] \in {"tellDown", "stopped"} => ~connected

\* StopInv is inductive beside HandleInv.
LEMMA StopStep == HandleInv /\ StopInv /\ [Next]_vars => StopInv'
<1> SUFFICES ASSUME HandleInv, StopInv, [Next]_vars PROVE StopInv'
  OBVIOUS
<1> USE ThreadKinds DEF StopInv, HandleInv
<1>p. pc \in [Threads -> Labels]
  BY DEF TypeOK
<1> USE DEF Goto, At, OpenLabels, CloseLabels, AfterOpen, AfterClose, EnterOpen, EnterClose
<1>1. ASSUME NEW t \in {Owner, Reader}, OpenStep(t) PROVE StopInv'
  BY <1>1, <1>p DEF OpenStep, OpenDevice, OpenFails, StoreHandle, SetConnected, NotifyUp
<1>2. ASSUME NEW t \in Threads, CloseStep(t) PROVE StopInv'
  BY <1>2, <1>p DEF CloseStep, TakeHandle, Shutdown, TestConnected, ClearConnected, NotifyDown
<1>3. CASE Start \/ RequestStop \/ SpawnReader \/ JoinReader \/ JoinTimesOut
  BY <1>3, <1>p DEF Start, RequestStop, SpawnReader, JoinReader, JoinTimesOut, MayBlock
<1>4. CASE CheckStop \/ FetchToOpen \/ FetchToReceive \/ Receive \/ ReceiveFails \/ BackOff
  BY <1>4, <1>p DEF CheckStop, FetchToOpen, FetchToReceive, Receive, ReceiveFails, BackOff
<1>5. ASSUME NEW s \in Senders, CallSend(s) \/ FetchToSend(s) \/ Send(s) \/ SendFails(s)
      PROVE  StopInv'
  BY <1>5, <1>p DEF CallSend, FetchToSend, Send, SendFails
<1>6. CASE Unplug \/ Replug \/ UNCHANGED vars
  BY <1>6 DEF Unplug, Replug, vars
<1>7. QED
  BY <1>1, <1>2, <1>3, <1>4, <1>5, <1>6 DEF Next, OwnerStep, ReaderStep, SenderStep, Threads

\* After a stop() that waited for the reader there is no bus and the flag is
\* false, for ever, whatever any number of senders still do.
THEOREM StopSafe == Spec => []CleanStop
<1>1. Init => StopInv
  BY ThreadKinds DEF Init, StopInv, CloseLabels
<1>2. Init => HandleInv
  BY HandleInit
<1>3. StopInv => CleanStop
  BY DEF StopInv, CleanStop, At
<1>4. QED
  BY <1>1, <1>2, <1>3, HandleStep, StopStep, PTL DEF Spec

-----------------------------------------------------------------------------
(* stop() comes to its end, and the reader with it *)

\* stop() was called.
Stopping == pc[Owner] \in CloseLabels \cup {"joining", "stopped"}

\* How many steps a thread has before it at most, once the reader is told to stop:
\* the owner in stop(), the reader until it leaves its loop.
CloseAhead(label) ==
    IF label = "taking" THEN 5 ELSE IF label = "shutting" THEN 4
    ELSE IF label = "testing" THEN 3 ELSE IF label = "clearing" THEN 2
    ELSE IF label = "tellDown" THEN 1 ELSE 0

OwnerAhead == IF pc[Owner] = "joining" THEN 6 ELSE CloseAhead(pc[Owner])

LoopAhead(label) ==
    IF label \in {"unborn", "exited"} THEN 0
    ELSE IF label \in CloseLabels THEN 2 + CloseAhead(label)
    ELSE IF label = "check" THEN 1
    ELSE IF label \in {"waiting", "tellUp"} THEN 2
    ELSE IF label = "flagging" THEN 3 ELSE IF label = "storing" THEN 4
    ELSE IF label = "opening" THEN 5 ELSE IF label = "receiving" THEN 8 ELSE 9

ReaderAhead == LoopAhead(pc[Reader])

StopAhead == OwnerAhead + ReaderAhead

\* stop() sets the flag before it does anything else, and nobody clears it again.
FlagSet == Stopping => stopFlag

\* Every step keeps that (canbus.py stop; start is not called again).
LEMMA FlagStep == HandleInv /\ FlagSet /\ [Next]_vars => FlagSet'
<1> SUFFICES ASSUME HandleInv, FlagSet, [Next]_vars PROVE FlagSet'
  OBVIOUS
<1> USE ThreadKinds DEF FlagSet, Stopping, HandleInv
<1>p. pc \in [Threads -> Labels] /\ pc[Owner] \in OwnerLabels \cup OpenLabels \cup CloseLabels
  BY DEF TypeOK, Kinds
<1> USE DEF Goto, At, OwnerLabels, OpenLabels, CloseLabels, AfterOpen, AfterClose, EnterOpen,
            EnterClose
<1>1. ASSUME NEW t \in {Owner, Reader}, OpenStep(t) PROVE FlagSet'
  BY <1>1, <1>p DEF OpenStep, OpenDevice, OpenFails, StoreHandle, SetConnected, NotifyUp, shared
<1>2. ASSUME NEW t \in Threads, CloseStep(t) PROVE FlagSet'
  BY <1>2, <1>p DEF CloseStep, TakeHandle, Shutdown, TestConnected, ClearConnected, NotifyDown,
                    shared
<1>3. CASE Start \/ RequestStop \/ SpawnReader \/ JoinReader \/ JoinTimesOut
  BY <1>3, <1>p DEF Start, RequestStop, SpawnReader, JoinReader, JoinTimesOut, shared
<1>4. CASE CheckStop \/ FetchToOpen \/ FetchToReceive \/ Receive \/ ReceiveFails \/ BackOff
  BY <1>4, <1>p DEF CheckStop, FetchToOpen, FetchToReceive, Receive, ReceiveFails, BackOff, shared
<1>5. ASSUME NEW s \in Senders, CallSend(s) \/ FetchToSend(s) \/ Send(s) \/ SendFails(s)
      PROVE  FlagSet'
  BY <1>5, <1>p DEF CallSend, FetchToSend, Send, SendFails, shared
<1>6. CASE Unplug \/ Replug \/ UNCHANGED vars
  BY <1>6 DEF Unplug, Replug, vars, shared
<1> QED
  BY <1>1, <1>2, <1>3, <1>4, <1>5, <1>6 DEF Next, OwnerStep, ReaderStep, SenderStep, Threads

\* The steps of the owner in stop() lower its number.
LEMMA OwnerFalls ==
    ASSUME HandleInv, Stopping, OwnerStep
    PROVE  Stopping' /\ OwnerAhead' < OwnerAhead /\ pc'[Reader] = pc[Reader]
<1> USE ThreadKinds DEF Stopping, HandleInv
<1>p. pc \in [Threads -> Labels]
  BY DEF TypeOK
<1> USE DEF Goto, At, OpenLabels, CloseLabels, AfterClose, EnterClose, OwnerAhead, CloseAhead
<1>1. CASE JoinReader \/ JoinTimesOut
  BY <1>1, <1>p DEF JoinReader, JoinTimesOut
<1>2. CASE TakeHandle(Owner) \/ Shutdown(Owner) \/ TestConnected(Owner)
  BY <1>2, <1>p DEF TakeHandle, Shutdown, TestConnected
<1>3. CASE ClearConnected(Owner) \/ NotifyDown(Owner)
  BY <1>3, <1>p DEF ClearConnected, NotifyDown
<1>4. ~SpawnReader /\ ~OpenStep(Owner)
  BY DEF SpawnReader, OpenStep, OpenDevice, OpenFails, StoreHandle, SetConnected, NotifyUp
<1> QED  BY <1>1, <1>2, <1>3, <1>4 DEF OwnerStep, CloseStep

\* The numbers of the reader, label by label.
LEMMA LoopNumbers ==
    /\ LoopAhead("exited") = 0 /\ LoopAhead("check") = 1
    /\ LoopAhead("waiting") = 2 /\ LoopAhead("tellUp") = 2
    /\ LoopAhead("tellDown") = 3 /\ LoopAhead("flagging") = 3
    /\ LoopAhead("clearing") = 4 /\ LoopAhead("storing") = 4
    /\ LoopAhead("testing") = 5 /\ LoopAhead("opening") = 5
    /\ LoopAhead("shutting") = 6 /\ LoopAhead("taking") = 7
    /\ LoopAhead("receiving") = 8 /\ LoopAhead("fetching") = 9
BY DEF LoopAhead, CloseAhead, CloseLabels

\* The steps of the reader lower its number, once the flag is set.
LEMMA ReaderFalls ==
    ASSUME HandleInv, stopFlag, ReaderStep
    PROVE  ReaderAhead' < ReaderAhead /\ pc'[Owner] = pc[Owner]
<1> DEFINE From(before, after) == pc[Reader] = before /\ pc'[Reader] = after
<1>p. pc \in [Threads -> Labels]
  BY DEF HandleInv, TypeOK
<1> USE ThreadKinds DEF Goto, At, AfterOpen, AfterClose, EnterOpen, EnterClose
<1>o. pc'[Owner] = pc[Owner]
  BY <1>p DEF ReaderStep, OpenStep, CloseStep, CheckStop, FetchToOpen, FetchToReceive, Receive,
     ReceiveFails, BackOff, OpenDevice, OpenFails, StoreHandle, SetConnected, NotifyUp,
     TakeHandle, Shutdown, TestConnected, ClearConnected, NotifyDown
<1>1. CASE CheckStop \/ BackOff
  <2>1. From("check", "exited") \/ From("waiting", "check")
    BY <1>1, <1>p DEF CheckStop, BackOff
  <2> QED  BY <1>o, <2>1, LoopNumbers DEF ReaderAhead
<1>2. CASE FetchToOpen \/ FetchToReceive
  <2>1. From("fetching", "opening") \/ From("fetching", "receiving")
    BY <1>2, <1>p DEF FetchToOpen, FetchToReceive
  <2> QED  BY <1>o, <2>1, LoopNumbers DEF ReaderAhead
<1>3. CASE Receive \/ ReceiveFails
  <2>1. From("receiving", "check") \/ From("receiving", "taking")
    BY <1>3, <1>p DEF Receive, ReceiveFails
  <2> QED  BY <1>o, <2>1, LoopNumbers DEF ReaderAhead
<1>4. CASE OpenDevice(Reader) \/ OpenFails(Reader)
  <2>1. From("opening", "storing") \/ From("opening", "waiting")
    BY <1>4, <1>p DEF OpenDevice, OpenFails
  <2> QED  BY <1>o, <2>1, LoopNumbers DEF ReaderAhead
<1>5. CASE StoreHandle(Reader) \/ SetConnected(Reader) \/ NotifyUp(Reader)
  <2>1. From("storing", "flagging") \/ From("flagging", "tellUp")
        \/ From("tellUp", "check")
    BY <1>5, <1>p DEF StoreHandle, SetConnected, NotifyUp
  <2> QED  BY <1>o, <2>1, LoopNumbers DEF ReaderAhead
<1>6. CASE TakeHandle(Reader) \/ Shutdown(Reader) \/ TestConnected(Reader)
  <2>1. \/ From("taking", "testing") \/ From("taking", "shutting")
        \/ From("shutting", "testing") \/ From("testing", "clearing")
        \/ From("testing", "waiting")
    BY <1>6, <1>p DEF TakeHandle, Shutdown, TestConnected
  <2> QED  BY <1>o, <2>1, LoopNumbers DEF ReaderAhead
<1>7. CASE ClearConnected(Reader) \/ NotifyDown(Reader)
  <2>1. From("clearing", "tellDown") \/ From("tellDown", "waiting")
    BY <1>7, <1>p DEF ClearConnected, NotifyDown
  <2> QED  BY <1>o, <2>1, LoopNumbers DEF ReaderAhead
<1> QED  BY <1>1, <1>2, <1>3, <1>4, <1>5, <1>6, <1>7 DEF ReaderStep, OpenStep, CloseStep

\* All other steps leave both where they are.
LEMMA OthersApart ==
    ASSUME HandleInv, Stopping, [Next]_vars, ~OwnerStep, ~ReaderStep
    PROVE  pc'[Owner] = pc[Owner] /\ pc'[Reader] = pc[Reader]
<1> USE ThreadKinds DEF HandleInv
<1>p. pc \in [Threads -> Labels]
  BY DEF TypeOK
<1> USE DEF Goto, At, EnterClose
<1>1. ~Start /\ ~RequestStop
  BY DEF Stopping, Start, RequestStop, CloseLabels
<1>2. ASSUME NEW s \in Senders, CallSend(s) \/ FetchToSend(s) \/ Send(s) \/ SendFails(s)
      PROVE  pc'[Owner] = pc[Owner] /\ pc'[Reader] = pc[Reader]
  BY <1>2, <1>p DEF CallSend, FetchToSend, Send, SendFails
<1>3. ASSUME NEW s \in Senders, CloseStep(s)
      PROVE  pc'[Owner] = pc[Owner] /\ pc'[Reader] = pc[Reader]
  BY <1>3, <1>p DEF CloseStep, TakeHandle, Shutdown, TestConnected, ClearConnected, NotifyDown
<1>4. CASE Unplug \/ Replug \/ UNCHANGED vars
  BY <1>4 DEF Unplug, Replug, vars
<1> QED  BY <1>1, <1>2, <1>3, <1>4 DEF Next, SenderStep

\* The two numbers are numbers, and zero at the end only.
LEMMA StopAheadFacts ==
    ASSUME HandleInv, Stopping
    PROVE  /\ OwnerAhead \in 0 .. 6 /\ ReaderAhead \in 0 .. 9
           /\ StopAhead = 0 <=> At(Owner, "stopped") /\ pc[Reader] \in {"unborn", "exited"}
<1>1. pc[Owner] \in CloseLabels \cup {"joining", "stopped"}
  BY DEF Stopping
<1>2. OwnerAhead \in 0 .. 6 /\ (OwnerAhead = 0 <=> pc[Owner] = "stopped")
  BY <1>1 DEF OwnerAhead, CloseAhead, CloseLabels
<1>3. ReaderAhead \in 0 .. 9 /\ (ReaderAhead = 0 <=> pc[Reader] \in {"unborn", "exited"})
  BY DEF ReaderAhead, LoopAhead, CloseAhead, CloseLabels
<1> QED  BY <1>2, <1>3 DEF StopAhead, At

\* When one of two numbers falls and the other stays, the sum falls.
LEMMA SumFalls ==
    \A a, b, c \in Nat : c < a => /\ c + b \in 0 .. a + b /\ c + b < a + b
                                  /\ b + c \in 0 .. b + a /\ b + c < b + a
OBVIOUS

\* Once stop() was called, every step of the owner and of the reader brings the
\* end of both nearer, at most fifteen steps away, and no other step moves it
\* off.
Descent ==
    Stopping => /\ Stopping'
                /\ StopAhead' \in 0 .. StopAhead /\ StopAhead <= 15
                /\ OwnerStep \/ ReaderStep => StopAhead' < StopAhead

\* Every step does, whoever makes it.
LEMMA StopFalls == HandleInv /\ HandleInv' /\ FlagSet /\ [Next]_vars => [Descent]_vars
<1> SUFFICES ASSUME HandleInv, HandleInv', FlagSet, [Next]_vars, Stopping
             PROVE  /\ Stopping'
                    /\ StopAhead' \in 0 .. StopAhead /\ StopAhead <= 15
                    /\ OwnerStep \/ ReaderStep => StopAhead' < StopAhead
  BY DEF Descent
<1>1. OwnerAhead \in 0 .. 6 /\ ReaderAhead \in 0 .. 9
  BY StopAheadFacts
<1>2. OwnerAhead \in Nat /\ ReaderAhead \in Nat /\ StopAhead <= 15
  BY <1>1 DEF StopAhead
<1>3. CASE OwnerStep
  <2>1. Stopping' /\ OwnerAhead' < OwnerAhead /\ pc'[Reader] = pc[Reader]
    BY <1>3, OwnerFalls
  <2>2. ReaderAhead' = ReaderAhead
    BY <2>1 DEF ReaderAhead
  <2>3. OwnerAhead' \in Nat
    BY DEF OwnerAhead, CloseAhead
  <2>4. StopAhead = OwnerAhead + ReaderAhead /\ StopAhead' = OwnerAhead' + ReaderAhead
    BY <2>2 DEF StopAhead
  <2>5. StopAhead' \in 0 .. StopAhead /\ StopAhead' < StopAhead
    BY <1>2, <2>1, <2>3, <2>4, SumFalls
  <2> QED  BY <1>2, <2>1, <2>5
<1>4. CASE ReaderStep
  <2>1. ReaderAhead' < ReaderAhead /\ pc'[Owner] = pc[Owner]
    BY <1>4, ReaderFalls DEF FlagSet
  <2>2. OwnerAhead' = OwnerAhead /\ Stopping'
    BY <2>1 DEF OwnerAhead, Stopping
  <2>3. ReaderAhead' \in Nat
    BY DEF ReaderAhead, LoopAhead, CloseAhead
  <2>4. StopAhead' = OwnerAhead + ReaderAhead'
    BY <2>2 DEF StopAhead
  <2>5. StopAhead' \in 0 .. StopAhead /\ StopAhead' < StopAhead
    BY <1>2, <2>1, <2>3, <2>4, SumFalls DEF StopAhead
  <2> QED  BY <1>2, <2>2, <2>5
<1>5. CASE ~OwnerStep /\ ~ReaderStep
  <2>1. pc'[Owner] = pc[Owner] /\ pc'[Reader] = pc[Reader]
    BY <1>5, OthersApart
  <2>2. Stopping' /\ OwnerAhead' = OwnerAhead /\ ReaderAhead' = ReaderAhead
    BY <2>1 DEF Stopping, OwnerAhead, ReaderAhead
  <2> QED  BY <1>1, <1>5, <2>2 DEF StopAhead
<1> QED  BY <1>3, <1>4, <1>5

\* Initially stop() was not called.
LEMMA FlagInit == Init => FlagSet
BY ThreadKinds DEF Init, FlagSet, Stopping, CloseLabels

\* Neither the senders nor the adapter can keep stop() or the reader going
\* (canbus.py stop, _run).
THEOREM StopDescends == Spec => [][Descent]_vars
BY HandleInit, FlagInit, HandleStep, FlagStep, StopFalls, PTL DEF Spec

-----------------------------------------------------------------------------
(* CanBus implements HandleLife *)

\* A step that changes the stage of one handle only is that handle's Move.
LEMMA MoveOne ==
    ASSUME NEW h \in Handles, NEW from, NEW to,
           StageOf(h) = from, StageOf(h)' = to,
           \A g \in Handles \ {h} : StageOf(g)' = StageOf(g)
    PROVE  Life!Move(h, from, to)
BY DEF StageOf, HandleStage, Life!Move

\* A step that moves no handle changes no stage.
LEMMA StageKept ==
    ASSUME live' = live, bus' = bus,
           \A t \in Threads : /\ At(t, "storing")' <=> At(t, "storing")
                              /\ At(t, "shutting")' <=> At(t, "shutting")
                              /\ InHand(t) => held'[t] = held[t]
    PROVE  UNCHANGED HandleStage
<1>1. \A t \in Threads, h \in Handles :
         /\ (At(t, "storing") /\ held[t] = h)' <=> (At(t, "storing") /\ held[t] = h)
         /\ (At(t, "shutting") /\ held[t] = h)' <=> (At(t, "shutting") /\ held[t] = h)
  BY DEF InHand, At
<1>2. QED
  BY <1>1 DEF HandleStage, StageOf

\* Each step maps to one of HandleLife or to a stutter.
LEMMA LifeStep == HandleInv /\ [Next]_vars => [Life!Next]_HandleStage
<1> SUFFICES ASSUME HandleInv, [Next]_vars PROVE [Life!Next]_HandleStage
  OBVIOUS
<1> USE ThreadKinds DEF HandleInv
<1>p. pc \in [Threads -> Labels] /\ held \in [Threads -> Handles \cup {NoBus}]
  BY DEF TypeOK
<1>1. ASSUME NEW t \in Threads, OpenDevice(t) PROVE Life!Next
  <2>1. PICK h \in Handles : Fresh(h) /\ live' = live \cup {h} /\ Keep(t, h)
    BY <1>1 DEF OpenDevice
  <2>2. /\ bus' = bus /\ pc[t] = "opening" /\ pc'[t] = "storing" /\ held'[t] = h
        /\ \A u \in Threads \ {t} : pc'[u] = pc[u] /\ held'[u] = held[u]
    BY <1>1, <1>p, <2>1 DEF OpenDevice, Goto, Keep, At
  <2>3. StageOf(h) = "free" /\ StageOf(h)' = "opened"
    BY <2>1, <2>2 DEF StageOf, Fresh, At
  <2>4. \A g \in Handles \ {h} : StageOf(g)' = StageOf(g)
    BY <2>1, <2>2 DEF StageOf, At
  <2>5. QED
    BY <2>3, <2>4, MoveOne DEF Life!Next, Life!Open
<1>2. ASSUME NEW t \in Threads, StoreHandle(t) PROVE Life!Next
  <2>1. /\ pc[t] = "storing" /\ pc'[t] = "flagging" /\ bus' = held[t] /\ live' = live
        /\ \A u \in Threads \ {t} : pc'[u] = pc[u] /\ held'[u] = held[u]
    BY <1>2, <1>p DEF StoreHandle, Goto, Keep, At
  <2>2. bus = NoBus /\ held[t] \in Handles /\ held[t] \in live
    BY <1>p, <2>1 DEF OneOpener, HandlesAccounted, InHand
  <2>3. \A u \in Threads \ {t} : InHand(u) => held[u] # held[t]
    BY <2>1 DEF HandlesAccounted, InHand
  <2>5. \A g \in Handles : g = held[t] => StageOf(g) = "opened" /\ StageOf(g)' = "installed"
    BY <2>1, <2>2 DEF StageOf, At
  <2>6. \A g \in Handles : g # held[t] => StageOf(g)' = StageOf(g)
    BY <2>1, <2>2 DEF StageOf, At
  <2>7. \A g \in Handles : HandleStage[g] # "installed"
    BY <2>2 DEF HandleStage, StageOf
  <2>8. PICK h \in Handles : h = held[t]
    BY <2>2
  <2>9. Life!Move(h, "opened", "installed")
    BY <2>5, <2>6, <2>8, MoveOne
  <2>10. QED
    BY <2>7, <2>9 DEF Life!Next, Life!Install
<1>3. ASSUME NEW t \in Threads, TakeHandle(t) PROVE [Life!Next]_HandleStage
  <2>1. /\ pc[t] = "taking" /\ bus' = NoBus /\ live' = live /\ held'[t] = bus
        /\ pc'[t] = IF bus = NoBus THEN "testing" ELSE "shutting"
        /\ \A u \in Threads \ {t} : pc'[u] = pc[u] /\ held'[u] = held[u]
    BY <1>3, <1>p DEF TakeHandle, Goto, Keep, At
  <2>2. CASE bus = NoBus
    <3>1. \A u \in Threads : /\ At(u, "storing")' <=> At(u, "storing")
                             /\ At(u, "shutting")' <=> At(u, "shutting")
                             /\ InHand(u) => held'[u] = held[u]
      BY <2>1, <2>2 DEF At, InHand
    <3>2. QED
      BY <2>1, <2>2, <3>1, StageKept
  <2>3. CASE bus # NoBus
    <3>1. PICK h \in Handles : h = bus
      BY <2>3 DEF TypeOK
    <3>2. h \in live /\ \A u \in Threads : InHand(u) => held[u] # h
      BY <2>3, <3>1 DEF HandlesAccounted
    <3>3. StageOf(h) = "installed" /\ StageOf(h)' = "retired"
      BY <2>1, <2>3, <3>1, <3>2 DEF StageOf, At, InHand
    <3>4. \A g \in Handles \ {h} : StageOf(g)' = StageOf(g)
      BY <2>1, <3>1 DEF StageOf, At
    <3>5. QED
      BY <3>3, <3>4, MoveOne DEF Life!Next, Life!Retire
  <2>4. QED
    BY <2>2, <2>3
<1>4. ASSUME NEW t \in Threads, Shutdown(t) PROVE Life!Next
  <2>1. /\ pc[t] = "shutting" /\ pc'[t] = "testing" /\ bus' = bus /\ live' = live \ {held[t]}
        /\ \A u \in Threads \ {t} : pc'[u] = pc[u] /\ held'[u] = held[u]
    BY <1>4, <1>p DEF Shutdown, Goto, Keep, At
  <2>2. PICK h \in Handles : h = held[t]
    BY <1>p, <2>1 DEF HandlesAccounted, InHand
  <2>3. h \in live /\ h # bus /\ \A u \in Threads \ {t} : InHand(u) => held[u] # h
    BY <2>1, <2>2 DEF HandlesAccounted, InHand
  <2>4. StageOf(h) = "retired" /\ StageOf(h)' = "free"
    BY <2>1, <2>2, <2>3 DEF StageOf, At, InHand
  <2>5. \A g \in Handles \ {h} : StageOf(g)' = StageOf(g)
    BY <2>1, <2>2 DEF StageOf, At
  <2>6. QED
    BY <2>4, <2>5, MoveOne DEF Life!Next, Life!Shut
<1>5. ASSUME NEW t \in Threads,
             OpenFails(t) \/ SetConnected(t) \/ NotifyUp(t) \/ TestConnected(t)
               \/ ClearConnected(t) \/ NotifyDown(t)
      PROVE  UNCHANGED HandleStage
  BY <1>5, <1>p, StageKept DEF OpenFails, SetConnected, NotifyUp, TestConnected,
     ClearConnected, NotifyDown, Goto, At, InHand, AfterOpen, AfterClose
<1>6. CASE Start \/ RequestStop \/ SpawnReader \/ JoinReader \/ JoinTimesOut
  BY <1>6, <1>p, StageKept DEF Start, RequestStop, SpawnReader, JoinReader, JoinTimesOut,
     OneOpener, OpenLabels, Goto, At, InHand, EnterOpen, EnterClose
<1>7. CASE CheckStop \/ FetchToOpen \/ FetchToReceive \/ Receive \/ ReceiveFails \/ BackOff
  BY <1>7, <1>p, StageKept DEF CheckStop, FetchToOpen, FetchToReceive, Receive, ReceiveFails,
     BackOff, Goto, Keep, At, InHand, EnterOpen, EnterClose
<1>8. ASSUME NEW s \in Senders, CallSend(s) \/ FetchToSend(s) \/ Send(s) \/ SendFails(s)
      PROVE  UNCHANGED HandleStage
  BY <1>8, <1>p, StageKept DEF CallSend, FetchToSend, Send, SendFails, Goto, Keep, At,
     InHand, EnterClose
<1>9. CASE Unplug \/ Replug \/ UNCHANGED vars
  BY <1>9, StageKept DEF Unplug, Replug, vars, At, InHand
<1>10. QED
  BY <1>1, <1>2, <1>3, <1>4, <1>5, <1>6, <1>7, <1>8, <1>9
     DEF Next, OwnerStep, ReaderStep, SenderStep, OpenStep, CloseStep

\* CanBus implements the safety part of HandleLife: every step of any thread
\* is one step in the life of one Bus object, or changes none.
THEOREM LifeSafe == Spec => Life!Init /\ [][Life!Next]_HandleStage
<1>1. Init => Life!Init
  BY DEF Init, Life!Init, HandleStage, StageOf
<1>2. QED
  BY <1>1, HandleInit, HandleStep, LifeStep, PTL DEF Spec

=============================================================================
