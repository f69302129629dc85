-------------------------- MODULE SdoClient_proofs --------------------------
(***************************************************************************)
(* Proofs about SdoClient, for any set of calls and of requests and any    *)
(* number of retries.                                                      *)
(***************************************************************************)
EXTENDS SdoClient, SequenceTheorems, FiniteSetTheorems, TLAPS

-----------------------------------------------------------------------------
(* Types, and the lock *)

\* The lock is held by the one call that is between its two ends.
LockInv == \A k \in Calls : pc[k] \in Holding <=> lock = k

\* An attempt is only started while there is one left.
TriesLeft == \A k \in Calls : pc[k] \in {"new", "locking", "draining"} => tries[k] <= Retries

BaseInv == TypeOK /\ LockInv /\ TriesLeft

\* BaseInv holds initially.
LEMMA BaseInit == Init => BaseInv
BY RetriesAssumption, NoCallAssumption DEF Init, BaseInv, TypeOK, LockInv, TriesLeft, Holding

\* BaseInv is inductive.
LEMMA BaseStep == BaseInv /\ [Next]_vars => BaseInv'
<1> SUFFICES ASSUME BaseInv, [Next]_vars PROVE BaseInv'
  OBVIOUS
<1> USE RetriesAssumption, NoCallAssumption DEF BaseInv, TypeOK, LockInv, TriesLeft, Holding,
        Step, wire, outcome
<1>1. ASSUME NEW k \in Calls, Begin(k) PROVE BaseInv'
  BY <1>1 DEF Begin
<1>2. ASSUME NEW k \in Calls, Acquire(k) PROVE BaseInv'
  BY <1>2 DEF Acquire
<1>3. ASSUME NEW k \in Calls, Drain(k) PROVE BaseInv'
  BY <1>3 DEF Drain
<1>4. ASSUME NEW k \in Calls, SendRequest(k) PROVE BaseInv'
  BY <1>4 DEF SendRequest
<1>5. ASSUME NEW k \in Calls, SendRaises(k) PROVE BaseInv'
  BY <1>5 DEF SendRaises, Return
<1>6. ASSUME NEW k \in Calls, TimeOut(k) PROVE BaseInv'
  <2>1. timeouts' \in Nat /\ UNCHANGED <<req, tries, toSensor, toHost, executed, queue>>
    BY <1>6 DEF TimeOut
  <2>2. CASE tries[k] = Retries + 1
    <3>1. Return(k, "timeout", NoCall)
      BY <1>6, <2>2 DEF TimeOut
    <3>2. QED
      BY <1>6, <2>1, <3>1 DEF TimeOut, Return
  <2>3. CASE tries[k] # Retries + 1
    <3>1. tries[k] <= Retries
      BY <2>3
    <3>2. Step(k, "waiting", "draining") /\ UNCHANGED <<lock, result, answer>>
      BY <1>6, <2>3 DEF TimeOut
    <3>3. QED
      BY <2>1, <3>1, <3>2
  <2>4. QED
    BY <2>2, <2>3
<1>7. ASSUME NEW k \in Calls, SkipResponse(k) PROVE BaseInv'
  BY <1>7, HeadTailProperties DEF SkipResponse
<1>8. ASSUME NEW k \in Calls, TakeResponse(k) PROVE BaseInv'
  <2>1. Head(queue) \in Replies /\ Tail(queue) \in Seq(Replies)
    BY <1>8, HeadTailProperties DEF TakeResponse
  <2>2. QED
    BY <1>8, <2>1 DEF TakeResponse, Return, Replies
<1>9. CASE Deliver
  <2>1. Head(toHost) \in Replies /\ Tail(toHost) \in Seq(Replies)
    BY <1>9, HeadTailProperties DEF Deliver
  <2>2. QED
    BY <1>9, <2>1, AppendProperties DEF Deliver
<1>10. CASE Serve
  <2>1. Head(toSensor) \in Calls /\ Tail(toSensor) \in Seq(Calls)
    BY <1>10, HeadTailProperties DEF Serve
  <2>2. PICK reply \in {req[Head(toSensor)].kind, "abort", "garbage"} :
          /\ toHost' = Append(toHost, [call |-> Head(toSensor), kind |-> reply])
          /\ executed' = executed \/ executed' = [executed EXCEPT ![Head(toSensor)] = @ + 1]
    BY <1>10 DEF Serve
  <2>3. [call |-> Head(toSensor), kind |-> reply] \in Replies
    BY <2>1, <2>2, RequestsAssumption DEF Replies
  <2>4. toHost' \in Seq(Replies)
    BY <2>2, <2>3, AppendProperties
  <2>5. executed' \in [Calls -> Nat]
    <3>1. executed \in [Calls -> Nat] /\ executed[Head(toSensor)] + 1 \in Nat
      BY <2>1
    <3>2. QED
      BY <2>2, <3>1
  <2>6. QED
    BY <1>10, <2>1, <2>4, <2>5 DEF Serve
<1>11. CASE LoseRequest
  BY <1>11, HeadTailProperties DEF LoseRequest
<1>14. CASE LoseResponse
  BY <1>14, HeadTailProperties DEF LoseResponse
<1>12. CASE UNCHANGED vars
  BY <1>12 DEF vars
<1>13. QED
  BY <1>1, <1>2, <1>3, <1>4, <1>5, <1>6, <1>7, <1>8, <1>9, <1>10, <1>11, <1>12, <1>14
     DEF Next, Proceed

\* Every variable keeps its type; in particular no call makes more than
\* Retries + 1 requests.
THEOREM TypeCorrect == Spec => []TypeOK
<1>1. BaseInv => TypeOK
  BY DEF BaseInv
<1>2. QED
  BY <1>1, BaseInit, BaseStep, PTL DEF Spec

-----------------------------------------------------------------------------
(* "ok" is backed by an execution *)

Elements(s) == {s[i] : i \in 1 .. Len(s)}

\* What the sequence operations do to the set of elements.
LEMMA ElementsTail ==
    ASSUME NEW S, NEW s \in Seq(S), s # <<>>
    PROVE  /\ Head(s) \in Elements(s)
           /\ Elements(Tail(s)) \subseteq Elements(s)
           /\ Elements(s) \subseteq S
<1>1. Len(s) \in Nat /\ Len(s) >= 1
  BY EmptySeq, LenProperties
<1>2. /\ Len(Tail(s)) = Len(s) - 1
      /\ \A i \in 1 .. Len(Tail(s)) : Tail(s)[i] = s[i + 1]
  BY HeadTailProperties
<1>3. Head(s) = s[1]
  OBVIOUS
<1>4. \A i \in 1 .. Len(Tail(s)) : i + 1 \in 1 .. Len(s)
  BY <1>1, <1>2
<1>5. Elements(s) \subseteq S
  BY ElementOfSeq DEF Elements
<1>6. QED
  BY <1>1, <1>2, <1>3, <1>4, <1>5 DEF Elements

\* What an appended sequence holds.
LEMMA ElementsAppend ==
    ASSUME NEW S, NEW s \in Seq(S), NEW e \in S
    PROVE  Elements(Append(s, e)) = Elements(s) \cup {e}
<1>1. /\ Len(s) \in Nat /\ Len(Append(s, e)) = Len(s) + 1
      /\ \A i \in 1 .. Len(s) : Append(s, e)[i] = s[i]
      /\ Append(s, e)[Len(s) + 1] = e
  BY AppendProperties, LenProperties
<1>2. 1 .. Len(s) + 1 = (1 .. Len(s)) \cup {Len(s) + 1}
  BY <1>1
<1>3. QED
  BY <1>1, <1>2 DEF Elements

\* A request is its object and its kind.
LEMMA SameRequest ==
    ASSUME NEW a \in Requests, NEW b \in Requests, a.obj = b.obj, a.kind = b.kind
    PROVE  a = b
<1> DEFINE O == {r.obj : r \in Requests}
<1>1. a \in [obj : O, kind : Kinds] /\ b \in [obj : O, kind : Kinds]
  BY RequestsAssumption
<1> HIDE DEF O
<1>2. QED
  BY <1>1

\* An acknowledgement on its way is one of an executed request.
Backed(f) == f.kind \in Kinds => f.kind = req[f.call].kind /\ executed[f.call] > 0

OkAnswers == \A k \in Calls : result[k] = "ok" =>
    answer[k] \in Calls /\ req[answer[k]] = req[k] /\ executed[answer[k]] > 0

OkInv ==
    /\ \A f \in Elements(toHost) \cup Elements(queue) : Backed(f)
    /\ OkAnswers

\* OkInv is inductive beside BaseInv.
LEMMA OkStep == BaseInv /\ OkInv /\ [Next]_vars => OkInv'
<1> SUFFICES ASSUME BaseInv, OkInv, [Next]_vars PROVE OkInv'
  OBVIOUS
<1>b. /\ req \in [Calls -> Requests] /\ toSensor \in Seq(Calls)
      /\ toHost \in Seq(Replies) /\ queue \in Seq(Replies)
      /\ executed \in [Calls -> Nat]
      /\ result \in [Calls -> {"none", "ok", "abort", "protocol", "timeout", "bus"}]
      /\ answer \in [Calls -> Calls \cup {NoCall}]
  BY DEF BaseInv, TypeOK
<1> DEFINE All == Elements(toHost) \cup Elements(queue)
<1>e. All \subseteq Replies
  BY <1>b, ElementOfSeq DEF Elements
\* Steps that execute nothing, add no frame and end no call with "ok".
<1>k. ASSUME UNCHANGED <<req, executed>>, All' \subseteq All,
             \A k \in Calls : result'[k] = "ok" => result[k] = "ok" /\ answer'[k] = answer[k]
      PROVE  OkInv'
  BY <1>k DEF OkInv, Backed, OkAnswers
<1>1. ASSUME NEW k \in Calls,
             Begin(k) \/ Acquire(k) \/ SendRequest(k) \/ SendRaises(k) \/ TimeOut(k)
      PROVE  OkInv'
  <2>1. UNCHANGED <<req, executed, toHost, queue>>
    BY <1>1 DEF Begin, Acquire, SendRequest, SendRaises, TimeOut, wire
  <2>2. \/ UNCHANGED outcome
        \/ Return(k, "bus", NoCall) \/ Return(k, "timeout", NoCall)
    BY <1>1 DEF Begin, Acquire, SendRequest, SendRaises, TimeOut
  <2>3. \A j \in Calls : result'[j] = "ok" => result[j] = "ok" /\ answer'[j] = answer[j]
    BY <1>b, <2>2 DEF Return, outcome
  <2>4. QED
    BY <1>k, <2>1, <2>3
<1>2. ASSUME NEW k \in Calls, Drain(k) PROVE OkInv'
  <2>1. UNCHANGED <<req, executed, toHost, result, answer>> /\ queue' = <<>>
    BY <1>2 DEF Drain, wire, outcome
  <2>2. Elements(<<>>) = {}
    BY DEF Elements
  <2>3. QED
    BY <1>k, <2>1, <2>2
<1>3. ASSUME NEW k \in Calls, SkipResponse(k) PROVE OkInv'
  <2>1. UNCHANGED <<req, executed, toHost, result, answer>> /\ queue' = Tail(queue) /\ queue # <<>>
    BY <1>3 DEF SkipResponse, wire, outcome
  <2>2. QED
    BY <1>k, <1>b, <2>1, ElementsTail
<1>4. ASSUME NEW k \in Calls, TakeResponse(k) PROVE OkInv'
  <2> DEFINE f == Head(queue)
             r == IF f.kind = "abort" THEN "abort"
                  ELSE IF f.kind = req[k].kind THEN "ok" ELSE "protocol"
  <2>1. /\ UNCHANGED <<req, executed, toHost>> /\ queue' = Tail(queue) /\ queue # <<>>
        /\ Matches(f, k) /\ Return(k, r, f.call)
    BY <1>4 DEF TakeResponse, wire
  <2>2. f \in All /\ f \in Replies /\ All' \subseteq All
    BY <1>b, <1>e, <2>1, ElementsTail
  <2>3. Backed(f) /\ f.call \in Calls
    BY <2>2 DEF OkInv, Replies
  <2>4. r = "ok" => req[f.call] = req[k] /\ executed[f.call] > 0
    <3>1. ASSUME r = "ok" PROVE f.kind = req[k].kind /\ req[k].kind \in Kinds
      BY <1>b, <3>1, RequestsAssumption
    <3>2. ASSUME r = "ok" PROVE req[f.call].kind = req[k].kind /\ executed[f.call] > 0
      BY <2>3, <3>1, <3>2 DEF Backed
    <3>3. ASSUME r = "ok" PROVE req[f.call] = req[k]
      BY <1>b, <2>1, <2>3, <3>1, <3>2, <3>3, SameRequest DEF Matches
    <3>4. QED
      BY <3>2, <3>3
  <2>5. /\ result'[k] = r /\ answer'[k] = f.call
        /\ \A j \in Calls \ {k} : result'[j] = result[j] /\ answer'[j] = answer[j]
    BY <1>b, <2>1 DEF Return
  <2>6. OkAnswers'
    BY <2>1, <2>3, <2>4, <2>5 DEF OkInv, OkAnswers
  <2>7. QED
    BY <2>1, <2>2, <2>6 DEF OkInv, Backed
<1>5. CASE Deliver
  <2>1. /\ UNCHANGED <<req, executed, result, answer>> /\ toHost # <<>>
        /\ queue' = Append(queue, Head(toHost)) /\ toHost' = Tail(toHost)
    BY <1>5 DEF Deliver, outcome
  <2>2. Head(toHost) \in Replies /\ Head(toHost) \in All
    BY <1>b, <2>1, ElementsTail
  <2>3. Elements(queue)' \subseteq All /\ Elements(toHost)' \subseteq All
    BY <1>b, <2>1, <2>2, ElementsTail, ElementsAppend
  <2>4. QED
    BY <1>k, <2>1, <2>3
<1>6. CASE Serve
  <2> DEFINE k == Head(toSensor)
  <2>1. PICK reply \in {req[k].kind, "abort", "garbage"} :
          /\ toHost' = Append(toHost, [call |-> k, kind |-> reply])
          /\ executed' = IF reply = req[k].kind
                         THEN [executed EXCEPT ![k] = @ + 1] ELSE executed
    BY <1>6 DEF Serve
  <2>2. k \in Calls /\ UNCHANGED <<req, queue, result, answer>>
    BY <1>6, <1>b, HeadTailProperties DEF Serve, outcome
  <2>3. [call |-> k, kind |-> reply] \in Replies
    BY <1>b, <2>1, <2>2, RequestsAssumption DEF Replies
  <2>4. All' = All \cup {[call |-> k, kind |-> reply]}
    BY <1>b, <2>1, <2>2, <2>3, ElementsAppend
  <2>5. /\ \A j \in Calls : /\ executed[j] \in Nat /\ executed'[j] \in Nat
                            /\ executed'[j] >= executed[j]
        /\ reply = req[k].kind => executed'[k] > 0
    <3>1. CASE reply = req[k].kind
      <4>1. executed' = [executed EXCEPT ![k] = @ + 1]
        BY <2>1, <3>1
      <4>2. QED
        BY <1>b, <2>2, <4>1
    <3>2. CASE reply # req[k].kind
      BY <1>b, <2>1, <2>2, <3>2
    <3>3. QED
      BY <3>1, <3>2
  <2>6. \A f \in All : f.kind \in Kinds => f.kind = req'[f.call].kind /\ executed'[f.call] > 0
    <3>1. ASSUME NEW f \in All, f.kind \in Kinds
          PROVE  f.kind = req'[f.call].kind /\ executed'[f.call] > 0
      <4>1. f.call \in Calls /\ f.kind = req[f.call].kind /\ executed[f.call] > 0
        BY <1>e, <3>1 DEF OkInv, Backed, Replies
      <4>2. QED
        BY <2>2, <2>5, <4>1
    <3>2. QED
      BY <3>1
  <2>7. reply \in Kinds => reply = req'[k].kind /\ executed'[k] > 0
    BY <2>1, <2>2, <2>5 DEF Kinds
  <2>8. OkAnswers'
    <3>1. ASSUME NEW j \in Calls, result'[j] = "ok"
          PROVE  /\ answer'[j] \in Calls /\ req'[answer'[j]] = req'[j]
                 /\ executed'[answer'[j]] > 0
      <4>1. answer[j] \in Calls /\ req[answer[j]] = req[j] /\ executed[answer[j]] > 0
        BY <2>2, <3>1 DEF OkInv, OkAnswers
      <4>2. QED
        BY <2>2, <2>5, <4>1
    <3>2. QED
      BY <3>1 DEF OkAnswers
  <2>9. QED
    <3>1. \A f \in All' : f.kind \in Kinds =>
             f.kind = req'[f.call].kind /\ executed'[f.call] > 0
      BY <2>4, <2>6, <2>7
    <3>2. QED
      BY <2>8, <3>1 DEF OkInv, Backed
<1>7. CASE LoseRequest \/ UNCHANGED vars
  <2>1. UNCHANGED <<req, executed, toHost, queue, result, answer>>
    BY <1>7 DEF LoseRequest, vars, outcome
  <2>2. QED
    BY <1>k, <2>1
<1>8. CASE LoseResponse
  <2>1. UNCHANGED <<req, executed, queue, result, answer>> /\ toHost' = Tail(toHost) /\ toHost # <<>>
    BY <1>8 DEF LoseResponse, outcome
  <2>2. QED
    BY <1>k, <1>b, <2>1, ElementsTail
<1>9. QED
  BY <1>1, <1>2, <1>3, <1>4, <1>5, <1>6, <1>7, <1>8 DEF Next, Proceed

\* Whatever is lost or late, "ok" means that the sensor executed a request
\* equal to the caller's.
THEOREM OkSafe == Spec => []OkIsSomeExecution
<1>1. Init => OkInv
  BY DEF Init, OkInv, OkAnswers, Elements
<1>2. OkInv => OkIsSomeExecution
  BY DEF OkInv, OkAnswers, OkIsSomeExecution
<1>3. QED
  BY <1>1, <1>2, BaseInit, BaseStep, OkStep, PTL DEF Spec

-----------------------------------------------------------------------------
(* Before the first time-out every answer is fresh *)

InFlight == Len(toSensor) + Len(toHost) + Len(queue)

\* At most one frame is on its way: the request of the call that waits, or
\* its answer.
OneInFlight ==
    /\ InFlight <= 1
    /\ InFlight > 0 => lock \in Calls /\ pc[lock] = "waiting"
    /\ toSensor # <<>> => Head(toSensor) = lock
    /\ toHost # <<>> => Head(toHost).call = lock
    /\ queue # <<>> => Head(queue).call = lock

OwnAnswers == \A k \in Calls : answer[k] \in {NoCall, k} /\ result[k] # "protocol"

FreshInv == timeouts = 0 => OneInFlight /\ OwnAnswers

\* The length of a sequence and of its tail.
LEMMA LenFacts ==
    ASSUME NEW S, NEW s \in Seq(S)
    PROVE  /\ Len(s) \in Nat /\ (Len(s) = 0 <=> s = <<>>)
           /\ s # <<>> => Len(Tail(s)) = Len(s) - 1 /\ Tail(s) \in Seq(S)
BY LenProperties, EmptySeq, HeadTailProperties

\* A frame appended to nothing is the only one.
LEMMA AppendOne ==
    ASSUME NEW S, NEW s \in Seq(S), NEW e \in S, Len(s) = 0
    PROVE  Head(Append(s, e)) = e /\ Append(s, e) # <<>> /\ Len(Append(s, e)) = 1
<1>1. s = <<>>
  BY LenFacts
<1>2. Head(Append(s, e)) = e
  BY <1>1, HeadTailAppend
<1>3. Append(s, e) # <<>> /\ Len(Append(s, e)) = Len(s) + 1
  BY AppendProperties
<1>4. QED
  BY <1>2, <1>3

\* FreshInv is inductive beside BaseInv and OkInv.
LEMMA FreshStep == BaseInv /\ OkInv /\ FreshInv /\ [Next]_vars => FreshInv'
<1> SUFFICES ASSUME BaseInv, OkInv, FreshInv, [Next]_vars, timeouts' = 0
             PROVE  OneInFlight' /\ OwnAnswers'
  BY DEF FreshInv
<1>b. /\ pc \in [Calls -> {"new", "locking", "done"} \cup Holding]
      /\ toSensor \in Seq(Calls) /\ toHost \in Seq(Replies) /\ queue \in Seq(Replies)
      /\ result \in [Calls -> {"none", "ok", "abort", "protocol", "timeout", "bus"}]
      /\ answer \in [Calls -> Calls \cup {NoCall}]
      /\ timeouts \in Nat /\ NoCall \notin Calls
      /\ \A k \in Calls : pc[k] \in Holding <=> lock = k
  BY NoCallAssumption DEF BaseInv, TypeOK, LockInv
<1>l. /\ Len(toSensor) \in Nat /\ (Len(toSensor) = 0 <=> toSensor = <<>>)
      /\ Len(toHost) \in Nat /\ (Len(toHost) = 0 <=> toHost = <<>>)
      /\ Len(queue) \in Nat /\ (Len(queue) = 0 <=> queue = <<>>)
      /\ Len(<<>>) = 0
  BY <1>b, LenFacts
<1>t. timeouts = 0
  <2>1. timeouts' = timeouts \/ timeouts' = timeouts + 1
    BY DEF Next, Proceed, Begin, Acquire, Drain, SendRequest, SendRaises, SkipResponse,
       TakeResponse, TimeOut, Deliver, Serve, LoseRequest, LoseResponse, vars
  <2>2. QED
    BY <1>b, <2>1
<1>i. OneInFlight /\ OwnAnswers
  BY <1>t DEF FreshInv
\* Where the one frame is.
<1>n. /\ toSensor # <<>> => Len(toSensor) = 1 /\ Len(toHost) = 0 /\ Len(queue) = 0
      /\ toHost # <<>> => Len(toHost) = 1 /\ Len(toSensor) = 0 /\ Len(queue) = 0
      /\ queue # <<>> => Len(queue) = 1 /\ Len(toSensor) = 0 /\ Len(toHost) = 0
  <2> DEFINE a == Len(toSensor)  b == Len(toHost)  c == Len(queue)
  <2>1. a \in Nat /\ b \in Nat /\ c \in Nat /\ a + b + c <= 1
    BY <1>i, <1>l DEF OneInFlight, InFlight
  <2>2. /\ a # 0 => a = 1 /\ b = 0 /\ c = 0
        /\ b # 0 => b = 1 /\ a = 0 /\ c = 0
        /\ c # 0 => c = 1 /\ a = 0 /\ b = 0
    <3> HIDE DEF a, b, c
    <3>1. QED
      BY <2>1
  <2>3. QED
    BY <1>l, <2>2
<1>1. ASSUME NEW k \in Calls, Begin(k) \/ Acquire(k) \/ SendRaises(k)
      PROVE  OneInFlight' /\ OwnAnswers'
  <2>1. UNCHANGED <<toSensor, toHost, queue>>
    BY <1>1 DEF Begin, Acquire, SendRaises, wire
  <2>2. OwnAnswers'
    BY <1>1, <1>i, <1>b DEF Begin, Acquire, SendRaises, Return, outcome, OwnAnswers
  <2>3. InFlight = 0 \/ (lock # k /\ lock \in Calls /\ lock' = lock /\ pc'[lock] = pc[lock])
    BY <1>1, <1>i, <1>b, <1>l, NoCallAssumption
       DEF Begin, Acquire, SendRaises, Step, Return, OneInFlight, InFlight, Holding
  <2>4. QED
    BY <1>i, <1>l, <2>1, <2>2, <2>3 DEF OneInFlight, InFlight
<1>2. ASSUME NEW k \in Calls, Drain(k) PROVE OneInFlight' /\ OwnAnswers'
  <2>1. InFlight = 0
    BY <1>2, <1>b, <1>i, <1>l DEF Drain, Step, OneInFlight, InFlight, Holding
  <2>2. UNCHANGED <<toSensor, toHost, result, answer>> /\ queue' = <<>>
    BY <1>2 DEF Drain, wire, outcome
  <2>3. QED
    BY <1>i, <1>l, <2>1, <2>2 DEF OneInFlight, InFlight, OwnAnswers
<1>3. ASSUME NEW k \in Calls, SendRequest(k) PROVE OneInFlight' /\ OwnAnswers'
  <2>1. InFlight = 0 /\ lock = k
    BY <1>3, <1>b, <1>i, <1>l DEF SendRequest, Step, OneInFlight, InFlight, Holding
  <2>2. /\ UNCHANGED <<lock, toHost, queue, result, answer>> /\ pc'[k] = "waiting"
        /\ toSensor' = Append(toSensor, k)
    BY <1>3, <1>b DEF SendRequest, Step, outcome
  <2>3. Len(toSensor) = 0 /\ Len(toHost) = 0 /\ Len(queue) = 0
    BY <1>l, <2>1 DEF InFlight
  <2>4. toSensor' # <<>> /\ Head(toSensor') = k /\ Len(toSensor') = 1
    BY <1>b, <2>2, <2>3, AppendOne
  <2>5. QED
    BY <1>i, <1>l, <2>1, <2>2, <2>3, <2>4 DEF OneInFlight, InFlight, OwnAnswers
<1>4. ASSUME NEW k \in Calls, TimeOut(k) PROVE FALSE
  BY <1>4, <1>t DEF TimeOut
<1>5. ASSUME NEW k \in Calls, SkipResponse(k) PROVE OneInFlight' /\ OwnAnswers'
  <2>1. /\ UNCHANGED <<pc, lock, toSensor, toHost, result, answer>>
        /\ queue # <<>> /\ queue' = Tail(queue)
    BY <1>5 DEF SkipResponse, wire, outcome
  <2>2. Len(queue) = 1 /\ Len(toSensor) = 0 /\ Len(toHost) = 0
    BY <1>n, <2>1
  <2>3. Len(queue') = 0 /\ queue' = <<>>
    BY <1>b, <2>1, <2>2, LenFacts
  <2>4. QED
    BY <1>i, <1>l, <2>1, <2>2, <2>3 DEF OneInFlight, InFlight, OwnAnswers
<1>6. ASSUME NEW k \in Calls, TakeResponse(k) PROVE OneInFlight' /\ OwnAnswers'
  <2> DEFINE f == Head(queue)
             r == IF f.kind = "abort" THEN "abort"
                  ELSE IF f.kind = req[k].kind THEN "ok" ELSE "protocol"
  <2>1. /\ UNCHANGED <<req, toSensor, toHost>> /\ queue # <<>> /\ queue' = Tail(queue)
        /\ Matches(f, k) /\ Return(k, r, f.call) /\ pc[k] = "waiting"
    BY <1>6 DEF TakeResponse, wire
  <2>2. Len(queue) = 1 /\ Len(toSensor) = 0 /\ Len(toHost) = 0
    BY <1>n, <2>1
  <2>3. Len(queue') = 0 /\ queue' = <<>>
    BY <1>b, <2>1, <2>2, LenFacts
  <2>4. f.call = k
    BY <1>b, <1>i, <2>1 DEF OneInFlight, Holding
  <2>5. f \in Replies /\ Backed(f)
    BY <1>b, <2>1, ElementsTail DEF OkInv
  <2>6. r # "protocol"
    BY <2>1, <2>4, <2>5 DEF Replies, Matches, Backed
  <2>7. OwnAnswers'
    BY <1>b, <1>i, <2>1, <2>4, <2>6 DEF Return, OwnAnswers
  <2>8. QED
    BY <1>l, <2>1, <2>2, <2>3, <2>7 DEF OneInFlight, InFlight
<1>7. CASE Deliver
  <2>1. /\ UNCHANGED <<pc, lock, toSensor, result, answer>> /\ toHost # <<>>
        /\ queue' = Append(queue, Head(toHost)) /\ toHost' = Tail(toHost)
    BY <1>7 DEF Deliver, outcome
  <2>2. Len(toHost) = 1 /\ Len(toSensor) = 0 /\ Len(queue) = 0
    BY <1>n, <2>1
  <2>3. Len(toHost') = 0 /\ toHost' = <<>>
    BY <1>b, <2>1, <2>2, LenFacts
  <2>4. Head(toHost) \in Replies
    BY <1>b, <2>1, HeadTailProperties
  <2>5. Head(queue') = Head(toHost) /\ queue' # <<>> /\ Len(queue') = 1
    <3> DEFINE h == Head(toHost)
    <3>1. h \in Replies
      BY <2>4
    <3> HIDE DEF h
    <3>2. Head(Append(queue, h)) = h /\ Append(queue, h) # <<>> /\ Len(Append(queue, h)) = 1
      <4>1. queue \in Seq(Replies) /\ Len(queue) = 0
        BY <1>b, <2>2
      <4>2. QED
        BY <3>1, <4>1, AppendOne, Zenon
    <3>3. QED
      BY <2>1, <3>2 DEF h
  <2>6. QED
    BY <1>i, <1>l, <2>1, <2>2, <2>3, <2>5 DEF OneInFlight, InFlight, OwnAnswers
<1>8. CASE Serve
  <2> DEFINE k == Head(toSensor)
  <2>1. PICK reply \in {req[k].kind, "abort", "garbage"} :
          toHost' = Append(toHost, [call |-> k, kind |-> reply])
    BY <1>8 DEF Serve
  <2>2. /\ UNCHANGED <<pc, lock, queue, result, answer>> /\ toSensor # <<>>
        /\ toSensor' = Tail(toSensor)
    BY <1>8 DEF Serve, outcome
  <2>3. Len(toSensor) = 1 /\ Len(toHost) = 0 /\ Len(queue) = 0
    BY <1>n, <2>2
  <2>4. Len(toSensor') = 0 /\ toSensor' = <<>>
    BY <1>b, <2>2, <2>3, LenFacts
  <2>5. [call |-> k, kind |-> reply] \in Replies
    <3>1. k \in Calls /\ req[k] \in Requests
      BY <1>b, <2>2, HeadTailProperties DEF BaseInv, TypeOK
    <3>2. QED
      BY <2>1, <3>1, RequestsAssumption DEF Replies
  <2>6. Head(toHost') = [call |-> k, kind |-> reply] /\ toHost' # <<>> /\ Len(toHost') = 1
    <3> DEFINE h == [call |-> k, kind |-> reply]
    <3>1. h \in Replies
      BY <2>5
    <3> HIDE DEF h
    <3>2. Head(Append(toHost, h)) = h /\ Append(toHost, h) # <<>> /\ Len(Append(toHost, h)) = 1
      <4>1. toHost \in Seq(Replies) /\ Len(toHost) = 0
        BY <1>b, <2>3
      <4>2. QED
        BY <3>1, <4>1, AppendOne, Zenon
    <3>3. QED
      BY <2>1, <3>2 DEF h
  <2>7. Head(toHost').call = lock
    BY <1>i, <2>2, <2>6 DEF OneInFlight
  <2>8. QED
    BY <1>i, <1>l, <2>2, <2>3, <2>4, <2>6, <2>7 DEF OneInFlight, InFlight, OwnAnswers
<1>9. CASE LoseRequest
  <2>1. /\ UNCHANGED <<pc, lock, toHost, queue, result, answer>> /\ toSensor # <<>>
        /\ toSensor' = Tail(toSensor)
    BY <1>9 DEF LoseRequest, outcome
  <2>2. Len(toSensor) = 1 /\ Len(toHost) = 0 /\ Len(queue) = 0
    BY <1>n, <2>1
  <2>3. Len(toSensor') = 0 /\ toSensor' = <<>>
    BY <1>b, <2>1, <2>2, LenFacts
  <2>4. toSensor' = <<>> /\ toHost' = <<>> /\ queue' = <<>>
    BY <1>l, <2>1, <2>2, <2>3
  <2>5. OneInFlight'
    BY <1>l, <2>4 DEF OneInFlight, InFlight
  <2>6. QED
    BY <1>i, <2>1, <2>5 DEF OwnAnswers
<1>10. CASE LoseResponse
  <2>1. /\ UNCHANGED <<pc, lock, toSensor, queue, result, answer>> /\ toHost # <<>>
        /\ toHost' = Tail(toHost)
    BY <1>10 DEF LoseResponse, outcome
  <2>2. Len(toHost) = 1 /\ Len(toSensor) = 0 /\ Len(queue) = 0
    BY <1>n, <2>1
  <2>3. Len(toHost') = 0 /\ toHost' = <<>>
    BY <1>b, <2>1, <2>2, LenFacts
  <2>4. toSensor' = <<>> /\ toHost' = <<>> /\ queue' = <<>>
    BY <1>l, <2>1, <2>2, <2>3
  <2>5. OneInFlight'
    BY <1>l, <2>4 DEF OneInFlight, InFlight
  <2>6. QED
    BY <1>i, <2>1, <2>5 DEF OwnAnswers
<1>11. CASE UNCHANGED vars
  BY <1>11, <1>i DEF vars, OneInFlight, InFlight, OwnAnswers
<1>12. QED
  BY <1>1, <1>2, <1>3, <1>4, <1>5, <1>6, <1>7, <1>8, <1>9, <1>10, <1>11 DEF Next, Proceed

\* Stale answers need a time-out: before the first one a call ends with its
\* own answer and the answer is of the right kind.
THEOREM FreshSafe == Spec => []FreshUnlessTimedOut
<1>1. Init => FreshInv
  BY LenFacts DEF Init, FreshInv, OneInFlight, InFlight, OwnAnswers
<1>2. FreshInv => FreshUnlessTimedOut
  BY DEF FreshInv, OwnAnswers, FreshUnlessTimedOut
<1>3. Init => OkInv
  BY DEF Init, OkInv, OkAnswers, Elements
<1>4. QED
  BY <1>1, <1>2, <1>3, BaseInit, BaseStep, OkStep, FreshStep, PTL DEF Spec
-----------------------------------------------------------------------------
(* Attempts *)

\* Where a sequence has an element of a set, and how often.
Places(s, A) == {i \in 1 .. Len(s) : s[i] \in A}
Count(s, A) == Cardinality(Places(s, A))

\* The places are a finite set.
LEMMA PlacesFinite ==
    ASSUME NEW S, NEW s \in Seq(S), NEW A
    PROVE  IsFiniteSet(Places(s, A)) /\ Count(s, A) \in Nat
<1>1. Len(s) \in Nat
  BY LenProperties
<1>2. IsFiniteSet(1 .. Len(s))
  BY <1>1, FS_Interval
<1>3. Places(s, A) \in SUBSET (1 .. Len(s))
  BY DEF Places
<1>4. IsFiniteSet(Places(s, A))
  BY <1>2, <1>3, FS_Subset
<1> QED  BY <1>4, FS_CardinalityType DEF Count

\* The empty sequence has nothing.
LEMMA CountEmpty == ASSUME NEW A PROVE Count(<<>>, A) = 0
<1>1. Places(<<>>, A) = {}
  BY DEF Places
<1> QED  BY <1>1, FS_EmptySet DEF Count

\* An element appended counts if it is in the set.
LEMMA CountAppend ==
    ASSUME NEW S, NEW s \in Seq(S), NEW e \in S, NEW A
    PROVE  Count(Append(s, e), A) = Count(s, A) + (IF e \in A THEN 1 ELSE 0)
<1> DEFINE n == Len(s) + 1
<1>1. /\ Len(s) \in Nat /\ Len(Append(s, e)) = n
      /\ \A i \in 1 .. Len(s) : Append(s, e)[i] = s[i]
      /\ Append(s, e)[n] = e
  BY AppendProperties, LenProperties
<1>2. 1 .. n = (1 .. Len(s)) \cup {n} /\ n \notin 1 .. Len(s)
  BY <1>1
<1>3. n \notin Places(s, A)
  BY <1>2 DEF Places
<1>4. CASE e \in A
  <2>1. Places(Append(s, e), A) = Places(s, A) \cup {n}
    BY <1>1, <1>2, <1>4 DEF Places
  <2> QED  BY <1>3, <1>4, <2>1, PlacesFinite, FS_AddElement DEF Count
<1>5. CASE e \notin A
  <2>1. Places(Append(s, e), A) = Places(s, A)
    BY <1>1, <1>2, <1>5 DEF Places
  <2> QED  BY <1>5, <2>1, PlacesFinite DEF Count
<1> QED  BY <1>4, <1>5

\* An element taken no longer counts.
LEMMA CountTail ==
    ASSUME NEW S, NEW s \in Seq(S), s # <<>>, NEW A
    PROVE  Count(s, A) = Count(Tail(s), A) + (IF Head(s) \in A THEN 1 ELSE 0)
<1> DEFINE P == Places(Tail(s), A)
           Q == Places(s, A) \ {1}
           f == [i \in P |-> i + 1]
<1>1. /\ Len(s) \in Nat /\ Len(s) >= 1
      /\ Tail(s) \in Seq(S) /\ Len(Tail(s)) = Len(s) - 1
      /\ \A i \in 1 .. Len(Tail(s)) : Tail(s)[i] = s[i + 1]
      /\ Head(s) = s[1]
  BY EmptySeq, LenProperties, HeadTailProperties
<1>2. \A i \in P : i \in Nat /\ i + 1 \in Q
  BY <1>1 DEF Places
<1>3. \A j \in Q : j - 1 \in P /\ (j - 1) + 1 = j
  <2> SUFFICES ASSUME NEW j \in Q PROVE j - 1 \in P /\ (j - 1) + 1 = j
    OBVIOUS
  <2>1. j \in Nat /\ 2 <= j /\ j <= Len(s) /\ s[j] \in A
    BY <1>1 DEF Places
  <2>2. j - 1 \in 1 .. Len(Tail(s)) /\ (j - 1) + 1 = j
    BY <1>1, <2>1
  <2> QED  BY <1>1, <2>1, <2>2 DEF Places
<1>4. f \in Bijection(P, Q)
  <2>1. f \in [P -> Q]
    BY <1>2
  <2>2. \A a, b \in P : f[a] = f[b] => a = b
    BY <1>2
  <2>3. \A j \in Q : \E a \in P : f[a] = j
    BY <1>3
  <2> HIDE DEF P, Q, f
  <2> QED  BY <2>1, <2>2, <2>3 DEF Bijection, Injection, Surjection, IsInjective
<1>5. Cardinality(Q) = Cardinality(P)
  <2>1. IsFiniteSet(P)
    BY <1>1, PlacesFinite
  <2> HIDE DEF P, Q, f
  <2> QED  BY <1>4, <2>1, FS_Bijection DEF ExistsBijection
<1>6. Cardinality(Q) = IF 1 \in Places(s, A) THEN Count(s, A) - 1 ELSE Count(s, A)
  BY PlacesFinite, FS_RemoveElement DEF Count
<1>7. 1 \in Places(s, A) <=> Head(s) \in A
  BY <1>1 DEF Places
<1>8. Count(s, A) \in Nat
  BY PlacesFinite
<1>9. Cardinality(P) = Count(Tail(s), A)
  BY DEF Count
<1>10. Count(Tail(s), A) \in Nat
  BY <1>1, PlacesFinite
<1> HIDE DEF P, Q, f
<1>11. CASE Head(s) \in A
  <2>1. Count(Tail(s), A) = Count(s, A) - 1
    BY <1>5, <1>6, <1>7, <1>9, <1>11
  <2> QED  BY <1>8, <1>10, <1>11, <2>1
<1>12. CASE Head(s) \notin A
  <2>1. Count(Tail(s), A) = Count(s, A)
    BY <1>5, <1>6, <1>7, <1>9, <1>12
  <2> QED  BY <1>8, <1>10, <1>12, <2>1
<1> QED  BY <1>11, <1>12

\* The requests of k that the sensor executed or has still to serve.
Sent(k) == executed[k] + Count(toSensor, {k})

\* A request counted by tries is sent after that, once; results tell how far
\* the attempts went.
BoundInv ==
    \A k \in Calls :
       /\ Sent(k) <= tries[k]
       /\ pc[k] = "sending" => Sent(k) < tries[k]
       /\ pc[k] # "done" => result[k] = "none"
       /\ result[k] = "timeout" => tries[k] = Retries + 1
       /\ result[k] = "bus" => Sent(k) < tries[k]

\* BoundInv is inductive beside BaseInv.
LEMMA BoundStep == BaseInv /\ BoundInv /\ [Next]_vars => BoundInv'
<1> SUFFICES ASSUME BaseInv, BoundInv, [Next]_vars PROVE BoundInv'
  OBVIOUS
<1>b. /\ pc \in [Calls -> {"new", "locking", "done"} \cup Holding]
      /\ toSensor \in Seq(Calls) /\ tries \in [Calls -> 0 .. Retries + 1]
      /\ executed \in [Calls -> Nat] /\ Retries \in Nat
      /\ result \in [Calls -> {"none", "ok", "abort", "protocol", "timeout", "bus"}]
  BY RetriesAssumption DEF BaseInv, TypeOK
<1>n. \A k \in Calls : Sent(k) \in Nat
  BY <1>b, PlacesFinite DEF Sent
<1>s. ASSUME UNCHANGED <<executed, toSensor>> PROVE \A k \in Calls : Sent(k)' = Sent(k)
  BY <1>s DEF Sent
<1>1. ASSUME NEW c \in Calls, Begin(c) \/ Acquire(c) PROVE BoundInv'
  BY <1>1, <1>b, <1>n, <1>s DEF Begin, Acquire, Step, BoundInv, wire, outcome
<1>2. ASSUME NEW c \in Calls, Drain(c) PROVE BoundInv'
  <2>1. /\ pc[c] = "draining" /\ pc' = [pc EXCEPT ![c] = "sending"]
        /\ tries' = [tries EXCEPT ![c] = tries[c] + 1]
        /\ UNCHANGED <<executed, toSensor, result>>
    BY <1>2 DEF Drain, Step, wire, outcome
  <2> QED  BY <1>b, <1>n, <1>s, <2>1 DEF BoundInv
<1>3. ASSUME NEW c \in Calls, SendRequest(c) PROVE BoundInv'
  <2>1. /\ pc[c] = "sending" /\ pc' = [pc EXCEPT ![c] = "waiting"]
        /\ toSensor' = Append(toSensor, c)
        /\ UNCHANGED <<executed, tries, result>>
    BY <1>3 DEF SendRequest, Step, outcome
  <2>2. \A k \in Calls : Sent(k)' = Sent(k) + (IF c = k THEN 1 ELSE 0)
    <3> TAKE k \in Calls
    <3>1. Count(toSensor, {k})' = Count(toSensor, {k}) + (IF c = k THEN 1 ELSE 0)
      BY <1>b, <2>1, CountAppend
    <3>2. executed[k] \in Nat /\ Count(toSensor, {k}) \in Nat
      BY <1>b, PlacesFinite
    <3> QED  BY <2>1, <3>1, <3>2 DEF Sent
  <2> QED  BY <1>b, <1>n, <2>1, <2>2 DEF BoundInv
<1>4. ASSUME NEW c \in Calls, SendRaises(c) PROVE BoundInv'
  <2>1. /\ pc[c] = "sending" /\ pc' = [pc EXCEPT ![c] = "done"]
        /\ result' = [result EXCEPT ![c] = "bus"]
        /\ UNCHANGED <<executed, toSensor, tries>>
    BY <1>4 DEF SendRaises, Return, wire
  <2> QED  BY <1>b, <1>n, <1>s, <2>1 DEF BoundInv
<1>5. ASSUME NEW c \in Calls, TimeOut(c) PROVE BoundInv'
  <2>1. pc[c] = "waiting" /\ UNCHANGED <<executed, toSensor, tries>>
    BY <1>5 DEF TimeOut, wire
  <2>2. CASE tries[c] = Retries + 1
    <3>1. /\ pc' = [pc EXCEPT ![c] = "done"]
          /\ result' = [result EXCEPT ![c] = "timeout"]
      BY <1>5, <2>2 DEF TimeOut, Return
    <3> QED  BY <1>b, <1>n, <1>s, <2>1, <2>2, <3>1 DEF BoundInv
  <2>3. CASE tries[c] # Retries + 1
    <3>1. pc' = [pc EXCEPT ![c] = "draining"] /\ UNCHANGED result
      BY <1>5, <2>3 DEF TimeOut, Step, outcome
    <3> QED  BY <1>b, <1>n, <1>s, <2>1, <3>1 DEF BoundInv
  <2> QED  BY <2>2, <2>3
<1>6. ASSUME NEW c \in Calls, TakeResponse(c) PROVE BoundInv'
  <2>1. /\ pc[c] = "waiting" /\ pc' = [pc EXCEPT ![c] = "done"]
        /\ \E r \in {"ok", "abort", "protocol"} : result' = [result EXCEPT ![c] = r]
        /\ UNCHANGED <<executed, toSensor, tries>>
    BY <1>6 DEF TakeResponse, Return, wire
  <2>2. PICK r \in {"ok", "abort", "protocol"} : result' = [result EXCEPT ![c] = r]
    BY <2>1
  <2> QED  BY <1>b, <1>n, <1>s, <2>1, <2>2 DEF BoundInv
<1>7. ASSUME UNCHANGED <<pc, executed, toSensor, tries, result>> PROVE BoundInv'
  BY <1>7, <1>s DEF BoundInv
<1>8. ASSUME toSensor # <<>>, toSensor' = Tail(toSensor), UNCHANGED <<pc, tries, result>>,
             \/ UNCHANGED executed
             \/ executed' = [executed EXCEPT ![Head(toSensor)] = executed[Head(toSensor)] + 1]
      PROVE  BoundInv'
  <2>1. \A k \in Calls : Sent(k)' <= Sent(k) /\ Sent(k)' \in Nat
    <3> TAKE k \in Calls
    <3>1. Count(toSensor, {k}) = Count(toSensor, {k})' + (IF Head(toSensor) = k THEN 1 ELSE 0)
      BY <1>8, <1>b, CountTail
    <3>2. /\ Tail(toSensor) \in Seq(Calls) /\ Head(toSensor) \in Calls
          /\ executed[k] \in Nat /\ Count(toSensor, {k}) \in Nat
      BY <1>8, <1>b, PlacesFinite, HeadTailProperties
    <3>3. Count(toSensor, {k})' \in Nat
      BY <1>8, <3>2, PlacesFinite
    <3>4. \/ executed'[k] = executed[k]
          \/ Head(toSensor) = k /\ executed'[k] = executed[k] + 1
      BY <1>8, <1>b, <3>2
    <3> QED  BY <3>1, <3>2, <3>3, <3>4 DEF Sent
  <2> QED  BY <1>8, <1>b, <1>n, <2>1 DEF BoundInv
<1>9. CASE Serve
  BY <1>8, <1>9 DEF Serve, outcome
<1>10. CASE LoseRequest
  BY <1>8, <1>10 DEF LoseRequest, outcome
<1>11. ASSUME NEW c \in Calls, SkipResponse(c) PROVE BoundInv'
  BY <1>7, <1>11 DEF SkipResponse, wire, outcome
<1>12. CASE Deliver \/ LoseResponse \/ UNCHANGED vars
  BY <1>7, <1>12 DEF Deliver, LoseResponse, vars, outcome
<1> QED  BY <1>1, <1>2, <1>3, <1>4, <1>5, <1>6, <1>9, <1>10, <1>11, <1>12 DEF Next, Proceed

\* BoundInv holds initially.
LEMMA BoundInit == Init => BoundInv
<1> SUFFICES ASSUME Init, NEW k \in Calls PROVE Sent(k) = 0
  BY RetriesAssumption DEF Init, BoundInv
<1>1. Count(toSensor, {k}) = 0
  BY CountEmpty DEF Init
<1> QED  BY <1>1 DEF Init, Sent

\* No call makes more than Retries + 1 requests and the sensor executes no
\* more of them; a time-out comes after the last, a bus error before it went
\* out (sdo.py:217-249).
THEOREM BoundSafe == Spec => []RetryBound
<1>1. Init => BoundInv
  BY BoundInit
<1>2. BaseInv /\ BoundInv => RetryBound
  <2> SUFFICES ASSUME BaseInv, BoundInv, NEW k \in Calls
               PROVE  /\ executed[k] <= tries[k] /\ tries[k] <= Retries + 1
                      /\ result[k] = "timeout" => tries[k] = Retries + 1
                      /\ result[k] = "bus" => executed[k] < tries[k]
    BY DEF RetryBound
  <2>1. /\ toSensor \in Seq(Calls) /\ executed[k] \in Nat
        /\ tries[k] \in 0 .. Retries + 1 /\ Retries \in Nat
    BY RetriesAssumption DEF BaseInv, TypeOK
  <2>2. Count(toSensor, {k}) \in Nat
    BY <2>1, PlacesFinite
  <2> QED  BY <2>1, <2>2 DEF BoundInv, Sent
<1>3. QED
  BY <1>1, <1>2, BaseInit, BaseStep, BoundStep, PTL DEF Spec

-----------------------------------------------------------------------------
(* The client implements its contract, step by step *)

\* The acknowledgements of a request, as frames.
AcksOf(r) == {f \in Replies : f.kind = r.kind /\ req[f.call] = r}

\* Acknowledgements in a sequence of frames are counted by their places.
LEMMA AcksCount ==
    ASSUME NEW s \in Seq(Replies), NEW r
    PROVE  /\ Cardinality({i \in DOMAIN s : s[i].kind = r.kind /\ req[s[i].call] = r})
                = Count(s, AcksOf(r))
           /\ Count(s, AcksOf(r)) \in Nat
<1>1. DOMAIN s = 1 .. Len(s) /\ \A i \in 1 .. Len(s) : s[i] \in Replies
  BY LenProperties, ElementOfSeq
<1>2. {i \in DOMAIN s : s[i].kind = r.kind /\ req[s[i].call] = r} = Places(s, AcksOf(r))
  BY <1>1 DEF Places, AcksOf
<1> QED  BY <1>2, PlacesFinite DEF Count

\* No request goes out before its call began.
Begun == \A c \in Elements(toSensor) : pc[c] # "new"

\* Begun is inductive beside BaseInv.
LEMMA BegunStep == BaseInv /\ Begun /\ [Next]_vars => Begun'
<1> SUFFICES ASSUME BaseInv, Begun, [Next]_vars PROVE \A c \in Elements(toSensor') : pc'[c] # "new"
  BY DEF Begun
<1>b. pc \in [Calls -> {"new", "locking", "done"} \cup Holding] /\ toSensor \in Seq(Calls)
  BY DEF BaseInv, TypeOK
<1>e. \A c \in Elements(toSensor) : c \in Calls /\ pc[c] # "new"
  BY <1>b, ElementOfSeq DEF Begun, Elements
<1>1. ASSUME NEW c \in Calls,
             \/ Begin(c) \/ Acquire(c) \/ Drain(c) \/ SendRaises(c) \/ SkipResponse(c)
             \/ TakeResponse(c) \/ TimeOut(c)
      PROVE  \A k \in Elements(toSensor') : pc'[k] # "new"
  <2>1. toSensor' = toSensor
    BY <1>1 DEF Begin, Acquire, Drain, SendRaises, SkipResponse, TakeResponse, TimeOut, wire
  <2>2. \/ pc' = pc
        \/ \E to \in {"locking", "draining", "sending", "done"} : pc' = [pc EXCEPT ![c] = to]
    BY <1>1 DEF Begin, Acquire, Drain, SendRaises, SkipResponse, TakeResponse, TimeOut, Step, Return
  <2>3. \A k \in Calls : pc[k] # "new" => pc'[k] # "new"
    BY <1>b, <2>2
  <2> QED  BY <1>e, <2>1, <2>3
<1>2. ASSUME NEW c \in Calls, SendRequest(c) PROVE \A k \in Elements(toSensor') : pc'[k] # "new"
  <2>1. pc' = [pc EXCEPT ![c] = "waiting"] /\ toSensor' = Append(toSensor, c)
    BY <1>2 DEF SendRequest, Step
  <2>2. Elements(toSensor') = Elements(toSensor) \cup {c}
    BY <1>b, <2>1, ElementsAppend
  <2>3. pc'[c] # "new" /\ \A k \in Calls : pc[k] # "new" => pc'[k] # "new"
    BY <1>b, <2>1
  <2> QED  BY <1>e, <2>2, <2>3
<1>3. CASE Serve \/ LoseRequest
  <2>1. pc' = pc /\ toSensor # <<>> /\ toSensor' = Tail(toSensor)
    BY <1>3 DEF Serve, LoseRequest
  <2>2. Elements(toSensor') \subseteq Elements(toSensor)
    BY <1>b, <2>1, ElementsTail
  <2> QED  BY <1>e, <2>1, <2>2
<1>4. CASE Deliver \/ LoseResponse \/ UNCHANGED vars
  BY <1>4, <1>e DEF Deliver, LoseResponse, vars
<1> QED  BY <1>1, <1>2, <1>3, <1>4 DEF Next, Proceed

\* Each step maps to one of SdoContract or to a stutter.
LEMMA ContractStep ==
    BaseInv /\ BaseInv' /\ OkInv /\ Begun /\ BoundInv /\ [Next]_vars
    => [Contract!Next]_<<req, Phases, result, Credit>>
<1> SUFFICES ASSUME BaseInv, BaseInv', OkInv, Begun, BoundInv, [Next]_vars
             PROVE  [Contract!Next]_<<req, Phases, result, Credit>>
  OBVIOUS
<1> DEFINE H(r) == Count(toHost, AcksOf(r))
           Q(r) == Count(queue, AcksOf(r))
           NewH(r) == Count(toHost', AcksOf(r))
           NewQ(r) == Count(queue', AcksOf(r))
<1>b. /\ req \in [Calls -> Requests] /\ toSensor \in Seq(Calls)
      /\ pc \in [Calls -> {"new", "locking", "done"} \cup Holding]
      /\ toHost \in Seq(Replies) /\ queue \in Seq(Replies)
      /\ toHost' \in Seq(Replies) /\ queue' \in Seq(Replies)
      /\ result \in [Calls -> {"none", "ok", "abort", "protocol", "timeout", "bus"}]
  BY DEF BaseInv, TypeOK
<1>q. req' = req
  BY DEF Next, Proceed, Begin, Acquire, Drain, SendRequest, SendRaises, TimeOut, SkipResponse,
         TakeResponse, Deliver, Serve, LoseRequest, LoseResponse, vars
<1>n. \A r \in Requests : H(r) \in Nat /\ Q(r) \in Nat /\ NewH(r) \in Nat /\ NewQ(r) \in Nat
  BY <1>b, AcksCount
<1>x. Credit \in [Requests -> Nat] /\ \A r \in Requests : Credit[r] = H(r) + Q(r)
  <2>1. \A r \in Requests : Acks(toHost, r) = H(r) /\ Acks(queue, r) = Q(r)
    BY <1>b, AcksCount DEF Acks
  <2> QED  BY <1>n, <2>1 DEF Credit
<1>y. Credit' \in [Requests -> Nat] /\ \A r \in Requests : Credit'[r] = NewH(r) + NewQ(r)
  <2>1. \A r \in Requests : Acks(toHost, r)' = NewH(r) /\ Acks(queue, r)' = NewQ(r)
    BY <1>b, <1>q, AcksCount DEF Acks
  <2> QED  BY <1>n, <2>1 DEF Credit
<1> HIDE DEF H, Q, NewH, NewQ
<1>d. ASSUME \A r \in Requests : NewH(r) + NewQ(r) <= H(r) + Q(r) PROVE Contract!Dropped
  <2>1. \A r \in Requests : Credit'[r] \in 0 .. Credit[r] /\ Credit'[r] <= Credit[r]
    BY <1>d, <1>n, <1>x, <1>y
  <2>2. Credit' \in [Requests -> UNION {0 .. Credit[r] : r \in Requests}]
    BY <1>y, <2>1
  <2> QED  BY <2>1, <2>2 DEF Contract!Dropped
<1>z. ASSUME \A r \in Requests : NewH(r) + NewQ(r) = H(r) + Q(r) PROVE Credit' = Credit
  BY <1>x, <1>y, <1>z
<1>w. ASSUME UNCHANGED <<toHost, queue>> PROVE \A r \in Requests : NewH(r) + NewQ(r) = H(r) + Q(r)
  BY <1>w DEF H, Q, NewH, NewQ
<1>i. ASSUME UNCHANGED pc PROVE Phases' = Phases
  BY <1>i DEF Phases, Phase
<1>m. ASSUME NEW k \in Calls, NEW to, pc' = [pc EXCEPT ![k] = to]
      PROVE  /\ to = "locking" => Phases' = [Phases EXCEPT ![k] = "pending"]
             /\ to \in Holding => Phases' = [Phases EXCEPT ![k] = "active"]
             /\ to = "done" => Phases' = [Phases EXCEPT ![k] = "done"]
  BY <1>m, <1>b DEF Phases, Phase, Holding
<1>h. \A k \in Calls : /\ pc[k] = "new" <=> Phases[k] = "new"
                       /\ pc[k] = "locking" <=> Phases[k] = "pending"
                       /\ pc[k] \in Holding <=> Phases[k] = "active"
  BY <1>b DEF Phases, Phase, Holding
\* A step that changes neither a phase nor a result: it keeps the credit or drops some.
<1>s. ASSUME Phases' = Phases, result' = result,
             \A r \in Requests : NewH(r) + NewQ(r) = H(r) + Q(r)
      PROVE  [Contract!Next]_<<req, Phases, result, Credit>>
  BY <1>s, <1>q, <1>z
<1>f. ASSUME Phases' = Phases, result' = result,
             \A r \in Requests : NewH(r) + NewQ(r) <= H(r) + Q(r)
      PROVE  [Contract!Next]_<<req, Phases, result, Credit>>
  BY <1>f, <1>q, <1>d DEF Contract!Next, Contract!Forget
\* A step that ends a call otherwise than with "ok".
<1>g. ASSUME NEW k \in Calls, pc[k] \in Holding, pc' = [pc EXCEPT ![k] = "done"],
             NEW e \in {"abort", "protocol", "timeout", "bus"},
             result' = [result EXCEPT ![k] = e],
             \A r \in Requests : NewH(r) + NewQ(r) <= H(r) + Q(r)
      PROVE  [Contract!Next]_<<req, Phases, result, Credit>>
  <2>1. Contract!Dropped
    BY <1>g, <1>d
  <2>2. Phases[k] = "active" /\ Phases' = [Phases EXCEPT ![k] = "done"]
    BY <1>g, <1>h, <1>m
  <2>3. Contract!Finish(k)
    BY <1>g, <1>q, <2>1, <2>2 DEF Contract!Finish, Contract!Results
  <2> QED  BY <2>3 DEF Contract!Next
<1>1. ASSUME NEW k \in Calls, Begin(k) PROVE [Contract!Next]_<<req, Phases, result, Credit>>
  <2>1. /\ pc[k] = "new" /\ pc' = [pc EXCEPT ![k] = "locking"]
        /\ UNCHANGED <<toHost, queue, result>>
    BY <1>1 DEF Begin, Step, wire, outcome
  <2>2. Phases[k] = "new" /\ Phases' = [Phases EXCEPT ![k] = "pending"] /\ Credit' = Credit
    BY <1>h, <1>m, <1>w, <1>z, <2>1
  <2> QED  BY <1>q, <2>1, <2>2 DEF Contract!Next, Contract!Begin
<1>2. ASSUME NEW k \in Calls, Acquire(k) PROVE [Contract!Next]_<<req, Phases, result, Credit>>
  <2>1. /\ pc[k] = "locking" /\ pc' = [pc EXCEPT ![k] = "draining"] /\ lock = NoCall
        /\ UNCHANGED <<toHost, queue, result>>
    BY <1>2 DEF Acquire, Step, wire, outcome
  <2>2. \A j \in Calls : Phases[j] # "active"
    BY <1>h, <2>1, NoCallAssumption DEF BaseInv, LockInv
  <2>3. Phases[k] = "pending" /\ Phases' = [Phases EXCEPT ![k] = "active"] /\ Credit' = Credit
    BY <1>h, <1>m, <1>w, <1>z, <2>1 DEF Holding
  <2> QED  BY <1>q, <2>1, <2>2, <2>3 DEF Contract!Next, Contract!Activate
\* Between its two ends a call stays active.
<1>a. ASSUME NEW k \in Calls, pc[k] \in Holding, NEW to \in Holding, pc' = [pc EXCEPT ![k] = to]
      PROVE  Phases' = Phases
  <2>1. Phases' = [Phases EXCEPT ![k] = "active"] /\ Phases[k] = "active"
    BY <1>a, <1>h, <1>m
  <2> QED  BY <2>1 DEF Phases
<1>3. ASSUME NEW k \in Calls, Drain(k) PROVE [Contract!Next]_<<req, Phases, result, Credit>>
  <2>1. /\ pc[k] = "draining" /\ pc' = [pc EXCEPT ![k] = "sending"] /\ queue' = <<>>
        /\ UNCHANGED <<toHost, result>>
    BY <1>3 DEF Drain, Step, wire, outcome
  <2>2. \A r \in Requests : NewH(r) = H(r) /\ NewQ(r) = 0
    BY <2>1, CountEmpty DEF H, NewH, NewQ
  <2>3. \A r \in Requests : NewH(r) + NewQ(r) <= H(r) + Q(r)
    BY <1>n, <2>2
  <2>4. Phases' = Phases
    BY <1>a, <2>1 DEF Holding
  <2> QED  BY <1>f, <2>1, <2>3, <2>4
<1>4. ASSUME NEW k \in Calls, SendRequest(k) PROVE [Contract!Next]_<<req, Phases, result, Credit>>
  <2>1. /\ pc[k] = "sending" /\ pc' = [pc EXCEPT ![k] = "waiting"]
        /\ UNCHANGED <<toHost, queue, result>>
    BY <1>4 DEF SendRequest, Step, outcome
  <2>2. Phases' = Phases
    BY <1>a, <2>1 DEF Holding
  <2> QED  BY <1>s, <1>w, <2>1, <2>2
<1>l. ASSUME UNCHANGED <<toHost, queue>> PROVE \A r \in Requests : NewH(r) + NewQ(r) <= H(r) + Q(r)
  BY <1>l, <1>n, <1>w
<1>5. ASSUME NEW k \in Calls, SendRaises(k) PROVE [Contract!Next]_<<req, Phases, result, Credit>>
  <2>1. /\ pc[k] \in Holding /\ pc' = [pc EXCEPT ![k] = "done"]
        /\ result' = [result EXCEPT ![k] = "bus"] /\ UNCHANGED <<toHost, queue>>
    BY <1>5 DEF SendRaises, Return, wire, Holding
  <2> QED  BY <1>g, <1>l, <2>1
<1>6. ASSUME NEW k \in Calls, TimeOut(k) PROVE [Contract!Next]_<<req, Phases, result, Credit>>
  <2>1. pc[k] \in Holding /\ UNCHANGED <<toHost, queue>>
    BY <1>6 DEF TimeOut, wire, Holding
  <2>2. CASE tries[k] = Retries + 1
    <3>1. pc' = [pc EXCEPT ![k] = "done"] /\ result' = [result EXCEPT ![k] = "timeout"]
      BY <1>6, <2>2 DEF TimeOut, Return
    <3> QED  BY <1>g, <1>l, <2>1, <3>1
  <2>3. CASE tries[k] # Retries + 1
    <3>1. pc' = [pc EXCEPT ![k] = "draining"] /\ UNCHANGED result
      BY <1>6, <2>3 DEF TimeOut, Step, outcome
    <3>2. Phases' = Phases
      BY <1>a, <2>1, <3>1 DEF Holding
    <3> QED  BY <1>s, <1>w, <2>1, <3>1, <3>2
  <2> QED  BY <2>2, <2>3
\* One answer fewer in the queue.
<1>t. ASSUME queue # <<>>, queue' = Tail(queue), toHost' = toHost
      PROVE  \A r \in Requests :
                /\ NewH(r) = H(r)
                /\ Q(r) = NewQ(r) + (IF Head(queue) \in AcksOf(r) THEN 1 ELSE 0)
  BY <1>t, <1>b, CountTail DEF H, Q, NewH, NewQ
<1>u. ASSUME queue # <<>>, queue' = Tail(queue), toHost' = toHost
      PROVE  \A r \in Requests : NewH(r) + NewQ(r) <= H(r) + Q(r)
  BY <1>u, <1>t, <1>n
<1>7. ASSUME NEW k \in Calls, SkipResponse(k) PROVE [Contract!Next]_<<req, Phases, result, Credit>>
  <2>1. queue # <<>> /\ queue' = Tail(queue) /\ UNCHANGED <<toHost, pc, result>>
    BY <1>7 DEF SkipResponse, wire, outcome
  <2> QED  BY <1>f, <1>i, <1>u, <2>1
<1>8. ASSUME NEW k \in Calls, TakeResponse(k) PROVE [Contract!Next]_<<req, Phases, result, Credit>>
  <2> DEFINE f == Head(queue)
             e == IF f.kind = "abort" THEN "abort"
                  ELSE IF f.kind = req[k].kind THEN "ok" ELSE "protocol"
  <2>1. /\ queue # <<>> /\ queue' = Tail(queue) /\ toHost' = toHost
        /\ pc[k] \in Holding /\ pc' = [pc EXCEPT ![k] = "done"]
        /\ Matches(f, k) /\ result' = [result EXCEPT ![k] = e]
    BY <1>8 DEF TakeResponse, Return, wire, Holding
  <2>2. f \in Elements(queue) /\ f \in Replies /\ f.call \in Calls
    <3>1. f \in Elements(queue) /\ Elements(queue) \subseteq Replies
      BY <1>b, <2>1, ElementsTail
    <3> HIDE DEF f
    <3> QED  BY <3>1 DEF Replies
  <2>3. CASE e # "ok"
    <3>1. e \in {"abort", "protocol", "timeout", "bus"}
      BY <2>3
    <3> HIDE DEF e
    <3> QED  BY <1>g, <1>u, <2>1, <3>1
  <2>4. CASE e = "ok"
    <3>1. f.kind = req[k].kind /\ req[k].kind \in Kinds
      BY <1>b, <2>4, RequestsAssumption
    <3>2. req[f.call].kind = f.kind
      BY <2>2, <3>1 DEF OkInv, Backed
    <3>3. req[f.call] = req[k]
      BY <1>b, <2>1, <2>2, <3>1, <3>2, SameRequest DEF Matches
    <3>4. \A r \in Requests : f \in AcksOf(r) <=> r = req[k]
      BY <2>2, <3>1, <3>3 DEF AcksOf
    <3>5. \A r \in Requests : /\ r = req[k] => Credit[r] > 0 /\ Credit'[r] = Credit[r] - 1
                              /\ r # req[k] => Credit'[r] = Credit[r]
      BY <1>n, <1>t, <1>x, <1>y, <2>1, <3>4
    <3>6. req[k] \in Requests /\ Credit' = [Credit EXCEPT ![req[k]] = @ - 1]
      BY <1>b, <1>x, <1>y, <3>5
    <3>7. Phases[k] = "active" /\ Phases' = [Phases EXCEPT ![k] = "done"]
      BY <1>h, <1>m, <2>1
    <3>8. Credit[req[k]] > 0 /\ result' = [result EXCEPT ![k] = "ok"]
      BY <2>1, <2>4, <3>5, <3>6
    <3>9. Contract!Finish(k)
      BY <1>q, <3>6, <3>7, <3>8 DEF Contract!Finish, Contract!Results
    <3> QED  BY <3>9 DEF Contract!Next
  <2> QED  BY <2>3, <2>4
<1>9. CASE Deliver
  <2>1. /\ toHost # <<>> /\ queue' = Append(queue, Head(toHost)) /\ toHost' = Tail(toHost)
        /\ UNCHANGED <<pc, result>>
    BY <1>9 DEF Deliver, outcome
  <2>2. Head(toHost) \in Replies
    BY <1>b, <2>1, HeadTailProperties
  <2>3. \A r \in Requests :
           /\ H(r) = NewH(r) + (IF Head(toHost) \in AcksOf(r) THEN 1 ELSE 0)
           /\ NewQ(r) = Q(r) + (IF Head(toHost) \in AcksOf(r) THEN 1 ELSE 0)
    BY <1>b, <2>1, <2>2, CountTail, CountAppend DEF H, Q, NewH, NewQ
  <2>4. \A r \in Requests : NewH(r) + NewQ(r) = H(r) + Q(r)
    BY <1>n, <2>3
  <2> QED  BY <1>i, <1>s, <2>1, <2>4
<1>10. CASE Serve
  <2> DEFINE k == Head(toSensor)
  <2>1. /\ toSensor # <<>> /\ UNCHANGED <<pc, result, queue>>
        /\ \E reply \in {req[k].kind, "abort", "garbage"} :
              toHost' = Append(toHost, [call |-> k, kind |-> reply])
    BY <1>10 DEF Serve, outcome
  <2>2. k \in Elements(toSensor) /\ k \in Calls /\ pc[k] # "new"
    BY <1>b, <2>1, ElementsTail DEF Begun
  <2>3. PICK reply \in {req[k].kind, "abort", "garbage"} :
           toHost' = Append(toHost, [call |-> k, kind |-> reply])
    BY <2>1
  <2>4. req[k] \in Requests /\ \A r \in Requests : r.kind \in Kinds
    BY <1>b, <2>2, RequestsAssumption
  <2> HIDE DEF k
  <2> DEFINE fr == [call |-> k, kind |-> reply]
  <2>5. fr \in Replies
    BY <2>2, <2>3, <2>4 DEF Replies
  <2>6. \A r \in Requests : fr \in AcksOf(r) <=> reply = req[k].kind /\ r = req[k]
    BY <2>3, <2>4, <2>5 DEF AcksOf, Kinds
  <2> HIDE DEF fr
  <2>7. \A r \in Requests : /\ NewH(r) = H(r) + (IF fr \in AcksOf(r) THEN 1 ELSE 0)
                            /\ NewQ(r) = Q(r)
    BY <1>b, <2>1, <2>3, <2>5, CountAppend DEF H, Q, NewH, NewQ, fr
  <2>8. Phases' = Phases
    BY <1>i, <2>1
  <2>9. CASE reply = req[k].kind
    <3>1. \A r \in Requests : /\ r = req[k] => Credit'[r] = Credit[r] + 1
                              /\ r # req[k] => Credit'[r] = Credit[r]
      BY <1>n, <1>x, <1>y, <2>6, <2>7, <2>9
    <3>2. Credit' = [Credit EXCEPT ![req[k]] = @ + 1]
      BY <1>x, <1>y, <2>4, <3>1
    <3>3. Phases[k] # "new"
      BY <1>h, <2>2
    <3>4. Contract!Execute(req[k])
      BY <1>q, <2>1, <2>2, <2>8, <3>2, <3>3 DEF Contract!Execute
    <3> QED  BY <2>4, <3>4 DEF Contract!Next
  <2>10. CASE reply # req[k].kind
    <3>1. \A r \in Requests : NewH(r) + NewQ(r) = H(r) + Q(r)
      BY <1>n, <2>6, <2>7, <2>10
    <3> QED  BY <1>s, <2>1, <2>8, <3>1
  <2> QED  BY <2>9, <2>10
<1>11. CASE LoseResponse
  <2>1. toHost # <<>> /\ toHost' = Tail(toHost) /\ UNCHANGED <<pc, result, queue>>
    BY <1>11 DEF LoseResponse, outcome
  <2>2. \A r \in Requests : /\ H(r) = NewH(r) + (IF Head(toHost) \in AcksOf(r) THEN 1 ELSE 0)
                            /\ NewQ(r) = Q(r)
    BY <1>b, <2>1, CountTail DEF H, Q, NewH, NewQ
  <2>3. \A r \in Requests : NewH(r) + NewQ(r) <= H(r) + Q(r)
    BY <1>n, <2>2
  <2> QED  BY <1>f, <1>i, <2>1, <2>3
<1>12. CASE LoseRequest \/ UNCHANGED vars
  <2>1. UNCHANGED <<pc, toHost, queue, result>>
    BY <1>12 DEF LoseRequest, vars, outcome
  <2> QED  BY <1>i, <1>s, <1>w, <2>1
<1> QED
  BY <1>1, <1>2, <1>3, <1>4, <1>5, <1>6, <1>7, <1>8, <1>9, <1>10, <1>11, <1>12
     DEF Next, Proceed

\* The client does what the contract allows and nothing else: one call at a
\* time, and no acknowledgement told to two calls (sdo.py:217-249).
THEOREM ContractStepSafe ==
    Spec => Contract!Init /\ [][Contract!Next]_<<req, Phases, result, Credit>>
<1>1. Init => Contract!Init
  <2> SUFFICES ASSUME Init PROVE Contract!Init
    OBVIOUS
  <2>1. toHost = <<>> /\ queue = <<>> /\ toHost \in Seq(Replies)
    BY DEF Init
  <2>2. \A r \in Requests : Acks(<<>>, r) = 0
    <3> TAKE r \in Requests
    <3>1. <<>> \in Seq(Replies)
      OBVIOUS
    <3>2. Acks(<<>>, r) = Count(<<>>, AcksOf(r))
      BY <3>1, AcksCount DEF Acks
    <3>3. Count(<<>>, AcksOf(r)) = 0
      BY CountEmpty
    <3> QED  BY <3>2, <3>3
  <2>3. Credit = [r \in Requests |-> 0]
    BY <2>1, <2>2 DEF Credit
  <2>4. Phases = [k \in Calls |-> "new"]
    BY DEF Init, Phases, Phase
  <2> QED  BY <2>3, <2>4 DEF Init, Contract!Init
<1>2. Init => OkInv /\ Begun
  BY DEF Init, OkInv, OkAnswers, Elements, Begun
<1>3. Init => BoundInv
  BY BoundInit
<1> QED
  BY <1>1, <1>2, <1>3, BaseInit, BaseStep, OkStep, BegunStep, BoundStep, ContractStep, PTL DEF Spec

-----------------------------------------------------------------------------
(* A call comes to its end *)

\* How many steps a call has before it at most: three for every attempt that is
\* left, and those of the present one.
Ahead(k) ==
    LET attempts == 3 * (Retries + 1 - tries[k]) IN
    IF pc[k] = "new" THEN attempts + 2
    ELSE IF pc[k] = "locking" THEN attempts + 1
    ELSE IF pc[k] = "draining" THEN attempts
    ELSE IF pc[k] = "sending" THEN attempts + 2
    ELSE IF pc[k] = "waiting" THEN attempts + 1 ELSE 0

\* The steps of a call that take it further; SkipResponse does not.
Advance(k) ==
    \/ Begin(k) \/ Acquire(k) \/ Drain(k) \/ SendRequest(k) \/ SendRaises(k)
    \/ TakeResponse(k) \/ TimeOut(k)

\* The number is one, and zero for a call that returned only.
LEMMA AheadFacts ==
    ASSUME BaseInv, NEW k \in Calls
    PROVE  Ahead(k) \in Nat /\ (Ahead(k) = 0 <=> pc[k] = "done")
<1>1. /\ pc[k] \in {"new", "locking", "done", "draining", "sending", "waiting"}
      /\ tries[k] \in 0 .. Retries + 1
      /\ pc[k] \in {"new", "locking", "draining"} => tries[k] <= Retries
  BY DEF BaseInv, TypeOK, TriesLeft, Holding
<1> QED  BY <1>1, RetriesAssumption DEF Ahead

\* A step that moves one call changes the number of that call alone.
LEMMA AheadOthers ==
    ASSUME BaseInv, NEW k \in Calls, NEW c \in Calls \ {k}, Advance(k)
    PROVE  pc'[c] = pc[c] /\ tries'[c] = tries[c]
BY DEF Advance, Begin, Acquire, Drain, SendRequest, SendRaises, TakeResponse, TimeOut, Return,
       Step, outcome, BaseInv, TypeOK

\* Every step that takes a call further lowers its number.
LEMMA AheadFalls ==
    ASSUME BaseInv, NEW k \in Calls, Advance(k)
    PROVE  Ahead(k)' < Ahead(k)
<1>1. /\ tries[k] \in 0 .. Retries + 1 /\ k \in DOMAIN pc /\ k \in DOMAIN tries
      /\ pc[k] \in {"new", "locking", "draining"} => tries[k] <= Retries
  BY DEF BaseInv, TypeOK, TriesLeft
<1>2. CASE Begin(k)
  BY <1>1, <1>2, RetriesAssumption DEF Begin, Step, Ahead
<1>3. CASE Acquire(k)
  BY <1>1, <1>3, RetriesAssumption DEF Acquire, Step, Ahead
<1>4. CASE Drain(k)
  BY <1>1, <1>4, RetriesAssumption DEF Drain, Step, Ahead
<1>5. CASE SendRequest(k)
  BY <1>1, <1>5, RetriesAssumption DEF SendRequest, Step, Ahead
<1>6. CASE SendRaises(k)
  BY <1>1, <1>6, RetriesAssumption DEF SendRaises, Return, Ahead
<1>7. CASE TakeResponse(k)
  BY <1>1, <1>7, RetriesAssumption DEF TakeResponse, Return, Ahead
<1>8. CASE TimeOut(k)
  BY <1>1, <1>8, RetriesAssumption DEF TimeOut, Return, Step, Ahead
<1> QED  BY <1>2, <1>3, <1>4, <1>5, <1>6, <1>7, <1>8 DEF Advance

\* What every call has before it only falls, and falls with every step of the
\* call but the dropping of a foreign frame: _transact has no way to go round
\* for ever (sdo.py _transact).
THEOREM CallsDescend ==
    Spec => [][\A k \in Calls :
                  /\ Ahead(k)' \in 0 .. Ahead(k)
                  /\ Advance(k) => Ahead(k)' < Ahead(k)]_vars
<1>1. BaseInv /\ BaseInv' /\ [Next]_vars
        => [\A k \in Calls : /\ Ahead(k)' \in 0 .. Ahead(k)
                             /\ Advance(k) => Ahead(k)' < Ahead(k)]_vars
  <2> SUFFICES ASSUME BaseInv, BaseInv', Next, NEW k \in Calls
               PROVE  /\ Ahead(k)' \in 0 .. Ahead(k)
                      /\ Advance(k) => Ahead(k)' < Ahead(k)
    OBVIOUS
  <2>1. Ahead(k) \in Nat /\ Ahead(k)' \in Nat
    <3>1. Ahead(k) \in Nat
      BY AheadFacts
    <3>2. /\ pc'[k] \in {"new", "locking", "done", "draining", "sending", "waiting"}
          /\ tries'[k] \in 0 .. Retries + 1
      BY DEF BaseInv, TypeOK, Holding
    <3>3. Ahead(k)' \in Nat
      BY <3>2, RetriesAssumption DEF Ahead
    <3> QED  BY <3>1, <3>3
  <2>2. Advance(k) => Ahead(k)' < Ahead(k)
    BY AheadFalls
  <2>3. ASSUME NEW c \in Calls, Advance(c) PROVE Ahead(k)' <= Ahead(k)
    <3>1. CASE c = k
      BY <2>1, <2>2, <2>3, <3>1
    <3>2. CASE c # k
      <4>1. pc'[k] = pc[k] /\ tries'[k] = tries[k]
        BY <2>3, <3>2, AheadOthers
      <4>2. Ahead(k)' = Ahead(k)
        BY <4>1 DEF Ahead
      <4> QED  BY <2>1, <4>2
    <3> QED  BY <3>1, <3>2
  <2>4. ASSUME UNCHANGED <<pc, tries>> PROVE Ahead(k)' <= Ahead(k)
    <3>1. Ahead(k)' = Ahead(k)
      BY <2>4 DEF Ahead
    <3> QED  BY <2>1, <3>1
  <2>5. (\E c \in Calls : Advance(c)) \/ UNCHANGED <<pc, tries>>
    BY DEF Next, Proceed, Advance, SkipResponse, Deliver, Serve, LoseRequest, LoseResponse
  <2> QED  BY <2>1, <2>2, <2>3, <2>4, <2>5
<1> QED  BY <1>1, BaseInit, BaseStep, PTL DEF Spec

\* A call that waits for the lock waits for one that is at work, never for one
\* that returned and never for itself (sdo.py _transact, `with self._lock').
THEOREM LockHeldAtWork ==
    Spec => [](\A k \in Calls : pc[k] = "locking" =>
                  lock = NoCall \/ (lock \in Calls \ {k} /\ pc[lock] \in Holding))
<1>1. BaseInv => \A k \in Calls : pc[k] = "locking" =>
                    lock = NoCall \/ (lock \in Calls \ {k} /\ pc[lock] \in Holding)
  BY DEF BaseInv, TypeOK, LockInv, Holding
<1> QED  BY <1>1, BaseInit, BaseStep, PTL DEF Spec
=============================================================================
