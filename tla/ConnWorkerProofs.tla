-------------------------- MODULE ConnWorkerProofs --------------------------
(***************************************************************************)
(* Proofs about ConnWorker, for any workers, requests and capacities: the  *)
(* types, the bounded overtaking of UI requests, the single answer to each *)
(* SQL request, the order of the answers to UI requests (ConnWorker        *)
(* implements RequestOrder), and when the main thread and a worker can     *)
(* wait for each other.                                                    *)
(*                                                                         *)
(* The order is kept by positions: which of the requests sent to a worker  *)
(* are handled, posted, in hand, queued and on their way.                  *)
(***************************************************************************)
EXTENDS ConnWorker, SequenceTheorems, FiniteSetTheorems, TLAPS

-----------------------------------------------------------------------------
(* The inductive invariant *)

\* A worker that is being stopped has been cancelled.
StopCancels == main.op = "stopping" => main.worker \in cancelled

Types == TypeOK /\ StopCancels

\* At most one SQL request is taken before a waiting UI request: none has been
\* when the second select is reached.
Overtaking ==
  \A w \in Worker :
    /\ overtaken[w] \in {0, 1}
    /\ overtaken[w] = 1 => uiReqs[w] # <<>>
    /\ pc[w] = "select" => overtaken[w] = 0

\* A SQL request is in one place: queued once with the worker its caller picked,
\* or in that worker's hands, or answered.
SQLPlaces ==
  /\ \A w \in Worker, r \in SQLReq :
       r = cur[w] \/ r \in Range(sqlReqs[w])
         => /\ caller[r] \in {"waiting", "returned"} /\ target[r] = w
            /\ r \notin replied
  /\ \A w \in Worker : cur[w] \notin Range(sqlReqs[w])
  /\ \A w \in Worker : \A i, j \in DOMAIN sqlReqs[w] :
       sqlReqs[w][i] = sqlReqs[w][j] => i = j
  /\ \A r \in replied : caller[r] \in {"waiting", "returned"}
  /\ \A r \in SQLReq : caller[r] = "sending" => target[r] \in Worker

\* How many of the requests sent to worker w it has taken, and answered.
Sending(w)  == IF main.op = "sending" /\ main.worker = w THEN 1 ELSE 0
Taken(w)    == Len(sent[w]) - Sending(w) - Len(uiReqs[w])
Answered(w) == IF cur[w] \in UIReq THEN Taken(w) - 1 ELSE Taken(w)
Handled(w)  == Len(handled[w])

\* The requests sent to a worker, by position: handled, then posted, then in
\* hand, then queued, then being sent.
Positions ==
  \A w \in Worker :
    /\ \A i, j \in 1 .. Len(sent[w]) : sent[w][i] = sent[w][j] => i = j
    /\ Handled(w) <= Answered(w)
    /\ \A i \in 1 .. Handled(w) : handled[w][i] = sent[w][i]
    /\ cur[w] \in UIReq => cur[w] = sent[w][Taken(w)]
    /\ \A i \in 1 .. Len(uiReqs[w]) : uiReqs[w][i] = sent[w][Taken(w) + i]
    /\ Sending(w) = 1 => Len(sent[w]) > 0 /\ main.req = sent[w][Len(sent[w])]

\* The shared results hold exactly the answers posted and not handled, and those
\* of a worker in their order.
Posts ==
  /\ \A w \in Worker : \A i \in 1 .. Len(results) :
       results[i].worker = w =>
         \E p \in Handled(w) + 1 .. Answered(w) : results[i].req = sent[w][p]
  /\ \A w \in Worker : \A p \in Handled(w) + 1 .. Answered(w) :
       \E i \in 1 .. Len(results) :
         results[i].worker = w /\ results[i].req = sent[w][p]
  /\ \A w \in Worker : \A i, j \in 1 .. Len(results) :
       i < j /\ results[i].worker = w /\ results[j].worker = w =>
         \A p, q \in Handled(w) + 1 .. Answered(w) :
           results[i].req = sent[w][p] /\ results[j].req = sent[w][q] => p < q

IInv == Types /\ Overtaking /\ SQLPlaces /\ Positions /\ Posts

-----------------------------------------------------------------------------
(* Types *)

\* A queue with room takes one more, and one less when its head is taken.
LEMMA QueueTypes ==
  ASSUME NEW S, NEW q \in Seq(S)
  PROVE  /\ Len(q) \in Nat
         /\ \A e \in S : Append(q, e) \in Seq(S) /\ Len(Append(q, e)) = Len(q) + 1
         /\ q # <<>> => /\ Head(q) \in S /\ Tail(q) \in Seq(S)
                       /\ Len(Tail(q)) = Len(q) - 1 /\ Len(q) > 0
  BY AppendProperties, HeadTailProperties, LenProperties, EmptySeq

\* The capacities are positive naturals.
LEMMA Capacities ==
  /\ UICap \in Nat \ {0} /\ SQLCap \in Nat \ {0}
  /\ ResCap \in Nat \ {0} /\ SemCap \in Nat \ {0}
  BY ConnWorkerAssumption

\* Nothing is asked at first.
LEMMA InitIInv == Init => IInv
<1> SUFFICES ASSUME Init PROVE IInv
  OBVIOUS
<1>1. <<>> \in Seq(UIReq) /\ <<>> \in Seq(SQLReq)
      /\ <<>> \in Seq(Result) /\ Len(<<>>) = 0
  BY EmptySeq
<1>2. Types
  <2>1. /\ uiReqs \in [Worker -> Seq(UIReq)] /\ sqlReqs \in [Worker -> Seq(SQLReq)]
        /\ results \in Seq(Result)
        /\ sent \in [Worker -> Seq(UIReq)] /\ handled \in [Worker -> Seq(UIReq)]
    BY <1>1 DEF Init
  <2>2. /\ \A w \in Worker : Len(uiReqs[w]) <= UICap /\ Len(sqlReqs[w]) <= SQLCap
        /\ Len(results) <= ResCap
    <3>1. \A w \in Worker : uiReqs[w] = <<>> /\ sqlReqs[w] = <<>>
      BY DEF Init
    <3>2. results = <<>>
      BY DEF Init
    <3> QED
      BY <1>1, <3>1, <3>2, Capacities
  <2>3. main = Free /\ main.op # "stopping"
    BY DEF Init, Free
  <2>4. \A w \in Worker : pc[w] = "handling" <=> cur[w] # Idle
    BY DEF Init
  <2>5. /\ pc \in [Worker -> {"poll", "select", "handling", "done"}]
        /\ cur \in [Worker -> UIReq \cup SQLReq \cup {Idle}]
        /\ caller \in [SQLReq -> {"idle", "sending", "waiting", "returned", "refused"}]
        /\ target \in [SQLReq -> Worker \cup {Idle}]
        /\ overtaken \in [Worker -> Nat]
        /\ oneShot \in [OneShot -> {"idle", "running", "posted", "taken"}]
        /\ skipPoll \in BOOLEAN
    BY DEF Init
  <2>6. /\ cancelled \subseteq Closable /\ removed \subseteq cancelled
        /\ gone \subseteq SQLReq /\ replied \subseteq SQLReq
    BY DEF Init
  <2> QED
    BY <2>1, <2>2, <2>3, <2>4, <2>5, <2>6 DEF Types, TypeOK, StopCancels
<1>3. Overtaking
  BY DEF Init, Overtaking
<1>4. SQLPlaces
  BY <1>1, ConnWorkerAssumption DEF Init, SQLPlaces, Range
<1>5. Positions /\ Posts
  BY <1>1, ConnWorkerAssumption
  DEF Init, Positions, Posts, Sending, Taken, Answered, Handled, Free
<1> QED
  BY <1>2, <1>3, <1>4, <1>5 DEF IInv

\* The next result is of a worker or of a one-shot.
LEMMA PollTypes ==
  ASSUME Types, results # <<>>
  PROVE  /\ Head(results).worker # Idle => Head(results) \in [worker : Worker, req : UIReq]
         /\ Head(results).worker = Idle => Head(results) \in [worker : {Idle}, req : OneShot]
         /\ Tail(results) \in Seq(Result) /\ Len(Tail(results)) <= ResCap
<1>1. results \in Seq(Result) /\ Len(results) <= ResCap
  BY DEF Types, TypeOK
<1>2. /\ Head(results) \in Result /\ Tail(results) \in Seq(Result)
      /\ Len(Tail(results)) = Len(results) - 1 /\ Len(results) \in Nat
  BY <1>1, QueueTypes
<1>3. Len(Tail(results)) <= ResCap
  BY <1>1, <1>2, Capacities
<1> QED
  BY <1>2, <1>3, ConnWorkerAssumption DEF Result

\* The main thread keeps the types.
LEMMA MainTypes ==
  ASSUME Types,
         MainStep \/ (\E o \in OneShot : StartOneShot(o))
           \/ \E w \in Worker : BeginStop(w) \/ \E r \in UIReq : BeginSend(w, r)
  PROVE  Types'
<1> USE ConnWorkerAssumption, Capacities DEF Types, TypeOK, StopCancels, mainVars, workerVars,
        callerVars
<1>1. ASSUME NEW w \in Worker, NEW r \in UIReq, BeginSend(w, r) PROVE Types'
  <2>1. sent' \in [Worker -> Seq(UIReq)]
    BY <1>1, QueueTypes DEF BeginSend
  <2> QED
    BY <1>1, <2>1 DEF BeginSend, Free
<1>2. CASE EndSend
  <2>1. main.worker \in Worker /\ main.req \in UIReq
    BY <1>2 DEF EndSend, Free
  <2>2. /\ uiReqs' \in [Worker -> Seq(UIReq)]
        /\ \A w \in Worker : Len(uiReqs'[w]) <= UICap
    BY <1>2, <2>1, QueueTypes DEF EndSend, UIRoom
  <2> QED
    BY <1>2, <2>2 DEF EndSend, Free
<1>3. CASE PollSkipped
  BY <1>3 DEF PollSkipped, SkipFrame
<1>4. CASE PollResult
  <2>1. /\ Head(results) \in [worker : Worker, req : UIReq]
        /\ results' \in Seq(Result)
        /\ Len(results') <= ResCap
    BY <1>4, PollTypes DEF PollResult
  <2>2. handled' \in [Worker -> Seq(UIReq)]
    BY <1>4, <2>1, QueueTypes DEF PollResult
  <2> QED
    BY <1>4, <2>1, <2>2 DEF PollResult
<1>5. ASSUME NEW w \in Worker, BeginStop(w) PROVE Types'
  BY <1>5 DEF BeginStop, Cancelled, Free
<1>6. CASE EndStop
  BY <1>6 DEF EndStop, Free
<1>7. CASE PollOneShot
  <2>1. results' \in Seq(Result) /\ Len(results') <= ResCap
    BY <1>7, PollTypes DEF PollOneShot
  <2> QED
    BY <1>7, <2>1 DEF PollOneShot
<1>8. ASSUME NEW o \in OneShot, StartOneShot(o) PROVE Types'
  BY <1>8 DEF StartOneShot
<1> QED
  BY <1>1, <1>2, <1>3, <1>4, <1>5, <1>6, <1>7, <1>8 DEF MainStep

\* A one-shot keeps the types.
LEMMA OneShotTypes ==
  ASSUME Types, NEW o \in OneShot, PostOneShot(o)
  PROVE  Types'
<1>1. results \in Seq(Result) /\ [worker |-> Idle, req |-> o] \in Result
  BY DEF Types, TypeOK, Result
<1>2. Len(results) < ResCap /\ results' = Append(results, [worker |-> Idle, req |-> o])
  BY DEF PostOneShot
<1>3. results' \in Seq(Result) /\ Len(results') <= ResCap
  BY <1>1, <1>2, QueueTypes, Capacities
<1> QED
  BY <1>3 DEF PostOneShot, Types, TypeOK, StopCancels, mainVars, workerVars, callerVars

\* A worker keeps the types.
LEMMA WorkerTypes ==
  ASSUME Types, NEW w \in Worker, WorkerStep(w)
  PROVE  Types'
<1> USE ConnWorkerAssumption, Capacities DEF Types, TypeOK, StopCancels, mainVars, workerVars,
        callerVars
<1>1. CASE TakeUI(w) /\ pc[w] \in {"poll", "select"}
  <2>1. /\ Head(uiReqs[w]) \in UIReq
        /\ uiReqs' \in [Worker -> Seq(UIReq)]
        /\ \A v \in Worker : Len(uiReqs'[v]) <= UICap
    BY <1>1, QueueTypes DEF TakeUI
  <2> QED
    BY <1>1, <2>1 DEF TakeUI
<1>2. CASE PollUI(w) /\ ~TakeUI(w)
  BY ZenonT(60), <1>2 DEF PollUI
<1>3. CASE SelectSQL(w)
  <2>1. /\ Head(sqlReqs[w]) \in SQLReq
        /\ sqlReqs' \in [Worker -> Seq(SQLReq)]
        /\ \A v \in Worker : Len(sqlReqs'[v]) <= SQLCap
    BY <1>3, QueueTypes DEF SelectSQL
  <2>2. pc'[w] \in {"poll", "handling"}
    BY <1>3 DEF SelectSQL, AfterSkip
  <2>3. \A v \in Worker : pc'[v] = "handling" <=> cur'[v] # Idle
    BY <1>3, <2>1, <2>2 DEF SelectSQL, AfterSkip
  <2>4. overtaken' \in [Worker -> Nat] /\ replied' \subseteq SQLReq
    BY SMTT(60), <1>3, <2>1 DEF SelectSQL
  <2> QED
    BY <1>3, <2>1, <2>2, <2>3, <2>4 DEF SelectSQL, AfterSkip
<1>4. CASE SelectDone(w)
  BY <1>4 DEF SelectDone
<1>5. CASE FinishUI(w)
  <2>1. /\ results' \in Seq(Result)
        /\ Len(results') <= ResCap
    <3>1. [worker |-> w, req |-> cur[w]] \in Result
      BY <1>5 DEF FinishUI, Result
    <3> QED
      BY <1>5, <3>1, QueueTypes DEF FinishUI, Posted
  <2> QED
    BY <1>5, <2>1 DEF FinishUI
<1>6. CASE FinishSQL(w)
  BY <1>6 DEF FinishSQL, Reply
<1> QED
  BY <1>1, <1>2, <1>3, <1>4, <1>5, <1>6 DEF WorkerStep, PollUI, SelectUI

\* The HTTP handlers keep the types.
LEMMA CallerTypes ==
  ASSUME Types, SQLPlaces, NEW r \in SQLReq,
         CallerSend(r) \/ CallerReturn(r) \/ Disconnect(r)
           \/ \E w \in Worker : Arrive(r, w)
  PROVE  Types'
<1> USE ConnWorkerAssumption, Capacities DEF Types, TypeOK, StopCancels, mainVars, workerVars,
        callerVars
<1>1. CASE CallerSend(r)
  <2>1. target[r] \in Worker
    BY <1>1 DEF CallerSend, SQLPlaces
  <2>2. /\ sqlReqs' \in [Worker -> Seq(SQLReq)]
        /\ \A v \in Worker : Len(sqlReqs'[v]) <= SQLCap
    BY <1>1, <2>1, QueueTypes DEF CallerSend
  <2> QED
    BY <1>1, <2>2 DEF CallerSend
<1>2. CASE CallerReturn(r)
  BY <1>2 DEF CallerReturn
<1>3. CASE Disconnect(r)
  BY <1>3 DEF Disconnect, Admitted
<1>4. CASE \E w \in Worker : Arrive(r, w)
  <2>1. /\ caller' \in [SQLReq -> {"idle", "sending", "waiting", "returned", "refused"}]
        /\ target' \in [SQLReq -> Worker \cup {Idle}]
    <3>1. PICK w \in Worker : Arrive(r, w)
      BY <1>4
    <3>2. \/ /\ caller' = [caller EXCEPT ![r] = "sending"]
             /\ target' = [target EXCEPT ![r] = w]
          \/ caller' = [caller EXCEPT ![r] = "refused"] /\ target' = target
      BY <3>1 DEF Arrive
    <3>3. /\ caller \in [SQLReq -> {"idle", "sending", "waiting", "returned", "refused"}]
          /\ target \in [SQLReq -> Worker \cup {Idle}]
      OBVIOUS
    <3> HIDE DEF Types, TypeOK
    <3> QED
      BY <3>2, <3>3
  <2>2. UNCHANGED <<mainVars, workerVars, gone, uiReqs, sqlReqs, results, oneShot,
                    cancelled, removed, replied>>
    BY <1>4 DEF Arrive
  <2> QED
    BY <2>1, <2>2
<1> QED
  BY <1>1, <1>2, <1>3, <1>4

-----------------------------------------------------------------------------
(* Overtaking *)

\* Only a worker takes UI requests, and it looks at them before any SQL request.
LEMMA OvertakingStep == Types /\ Overtaking /\ [Next]_vars => Overtaking'
<1> SUFFICES ASSUME Types, Overtaking, [Next]_vars,
                    NEW v \in Worker
             PROVE  /\ overtaken'[v] \in {0, 1}
                    /\ overtaken'[v] = 1 => uiReqs'[v] # <<>>
                    /\ pc'[v] = "select" => overtaken'[v] = 0
  BY DEF Overtaking
<1> USE DEF Types, mainVars, workerVars, callerVars
<1>0. /\ overtaken[v] \in {0, 1}
      /\ overtaken[v] = 1 => uiReqs[v] # <<>>
      /\ pc[v] = "select" => overtaken[v] = 0
  BY DEF Overtaking
<1>1. CASE UNCHANGED <<overtaken, uiReqs, pc>>
  BY <1>0, <1>1
<1>2. CASE EndSend
  <2>1. main.worker \in Worker /\ main.req \in UIReq
    BY <1>2 DEF EndSend, TypeOK, Free
  <2>2. uiReqs'[v] = uiReqs[v] \/ uiReqs'[v] = Append(uiReqs[v], main.req)
    BY <1>2, <2>1 DEF EndSend, TypeOK
  <2>3. Append(uiReqs[v], main.req) # <<>>
    <3>1. uiReqs[v] \in Seq(UIReq)
      BY DEF TypeOK
    <3> QED
      BY <2>1, <3>1, AppendProperties
  <2>4. overtaken' = overtaken /\ pc' = pc
    BY <1>2 DEF EndSend
  <2> QED
    BY <1>0, <2>2, <2>3, <2>4
<1>3. ASSUME NEW w \in Worker, WorkerStep(w)
      PROVE  /\ overtaken'[v] \in {0, 1}
             /\ overtaken'[v] = 1 => uiReqs'[v] # <<>>
             /\ pc'[v] = "select" => overtaken'[v] = 0
  <2>1. CASE w # v
    <3>1. /\ overtaken'[v] = overtaken[v] /\ uiReqs'[v] = uiReqs[v]
          /\ pc'[v] = pc[v]
      BY <1>3, <2>1
      DEF WorkerStep, PollUI, SelectUI, SelectSQL, SelectDone, FinishUI, FinishSQL,
          TakeUI, AfterSkip, TypeOK
    <3> QED
      BY <1>0, <3>1
  <2>2. CASE TakeUI(v)
    BY <2>2 DEF TakeUI, TypeOK
  <2>3. CASE PollUI(v) /\ ~TakeUI(v)
    BY <1>0, <2>3 DEF PollUI, TypeOK
  <2>4. CASE SelectSQL(v)
    <3>1. overtaken[v] = 0 /\ uiReqs'[v] = uiReqs[v]
      BY <1>0, <2>4 DEF SelectSQL
    <3>2. pc'[v] # "select"
      BY <2>4 DEF SelectSQL, AfterSkip, TypeOK
    <3>3. overtaken'[v] = IF uiReqs[v] = <<>> THEN 0 ELSE overtaken[v] + 1
      BY <2>4 DEF SelectSQL, TypeOK
    <3> QED
      BY <3>1, <3>2, <3>3
  <2>5. CASE SelectDone(v) \/ FinishUI(v) \/ FinishSQL(v)
    BY <1>0, <2>5 DEF SelectDone, FinishUI, FinishSQL, TypeOK
  <2> QED
    BY <1>3, <2>1, <2>2, <2>3, <2>4, <2>5 DEF WorkerStep, SelectUI
<1> QED
  BY <1>1, <1>2, <1>3
  DEF Next, vars, MainStep, BeginSend, PollSkipped, PollResult, BeginStop, EndStop,
      Arrive, CallerSend, CallerReturn, Disconnect, PollOneShot, StartOneShot,
      PostOneShot

-----------------------------------------------------------------------------
(* SQL requests *)

\* A queue without repetition, with a new element behind or without its head.
LEMMA QueueRanges ==
  ASSUME NEW S, NEW q \in Seq(S), \A i, j \in DOMAIN q : q[i] = q[j] => i = j
  PROVE  /\ \A e \in S : Range(Append(q, e)) = Range(q) \cup {e}
         /\ \A e \in S \ Range(q) : \A i, j \in DOMAIN Append(q, e) :
              Append(q, e)[i] = Append(q, e)[j] => i = j
         /\ q # <<>> => /\ Range(Tail(q)) = Range(q) \ {Head(q)}
                       /\ Head(q) \in Range(q)
                       /\ \A i, j \in DOMAIN Tail(q) :
                            Tail(q)[i] = Tail(q)[j] => i = j
<1>1. /\ Len(q) \in Nat /\ DOMAIN q = 1 .. Len(q)
  BY LenProperties
<1>2. ASSUME NEW e \in S
      PROVE  /\ DOMAIN Append(q, e) = 1 .. Len(q) + 1
             /\ \A i \in 1 .. Len(q) : Append(q, e)[i] = q[i]
             /\ Append(q, e)[Len(q) + 1] = e
  BY AppendProperties, LenProperties
<1>3. ASSUME NEW e \in S PROVE Range(Append(q, e)) = Range(q) \cup {e}
  BY <1>1, <1>2 DEF Range
<1>4. ASSUME NEW e \in S \ Range(q),
             NEW i \in DOMAIN Append(q, e), NEW j \in DOMAIN Append(q, e),
             Append(q, e)[i] = Append(q, e)[j]
      PROVE  i = j
  <2>1. \A k \in 1 .. Len(q) : q[k] # e
    BY <1>1, <1>4 DEF Range
  <2> QED
    BY <1>1, <1>2, <1>4, <2>1
<1>5. ASSUME q # <<>>
      PROVE  /\ Range(Tail(q)) = Range(q) \ {Head(q)}
             /\ Head(q) \in Range(q)
             /\ \A i, j \in DOMAIN Tail(q) : Tail(q)[i] = Tail(q)[j] => i = j
  <2>1. /\ Len(q) > 0 /\ Len(Tail(q)) = Len(q) - 1
        /\ DOMAIN Tail(q) = 1 .. Len(q) - 1
        /\ \A i \in 1 .. Len(q) - 1 : Tail(q)[i] = q[i + 1]
    BY <1>1, <1>5, HeadTailProperties, LenProperties, EmptySeq
  <2>2. Head(q) = q[1]
    BY <1>5
  <2>3. \A i \in 2 .. Len(q) : i - 1 \in DOMAIN Tail(q) /\ Tail(q)[i - 1] = q[i]
    BY <1>1, <2>1
  <2>4. \A i \in 2 .. Len(q) : q[i] # q[1]
    BY <1>1, <2>1
  <2>5. Range(Tail(q)) \subseteq Range(q) \ {Head(q)}
    BY <1>1, <2>1, <2>2, <2>4 DEF Range
  <2>6. Range(q) \ {Head(q)} \subseteq Range(Tail(q))
    <3> SUFFICES ASSUME NEW i \in 1 .. Len(q), q[i] # q[1] PROVE q[i] \in Range(Tail(q))
      BY <1>1, <2>2 DEF Range
    <3>1. i \in 2 .. Len(q)
      BY <1>1
    <3> QED
      BY <2>3, <3>1 DEF Range
  <2>7. Head(q) \in Range(q)
    BY <1>1, <2>1, <2>2 DEF Range
  <2>8. \A i, j \in DOMAIN Tail(q) : Tail(q)[i] = Tail(q)[j] => i = j
    BY <1>1, <2>1
  <2> QED
    BY <2>5, <2>6, <2>7, <2>8
<1> QED
  BY <1>3, <1>4, <1>5

\* Each step moves a SQL request at most one place on: to the queue, to the
\* hands of the worker, to the reply.
LEMMA SQLPlacesStep == Types /\ SQLPlaces /\ [Next]_vars => SQLPlaces'
<1> SUFFICES ASSUME Types, SQLPlaces, [Next]_vars PROVE SQLPlaces'
  OBVIOUS
<1> USE ConnWorkerAssumption DEF Types, mainVars, workerVars, callerVars
<1>1. CASE UNCHANGED <<cur, sqlReqs, caller, target, replied>>
  BY <1>1 DEF SQLPlaces
<1>2. ASSUME NEW r \in SQLReq, CallerSend(r) PROVE SQLPlaces'
  <2> DEFINE w == target[r]
             q == sqlReqs[w]
  <2>1. /\ w \in Worker /\ q \in Seq(SQLReq)
        /\ \A i, j \in DOMAIN q : q[i] = q[j] => i = j
    BY <1>2 DEF CallerSend, SQLPlaces, TypeOK
  <2>2. r \notin Range(q) /\ cur[w] # r
    BY <1>2, <2>1 DEF CallerSend, SQLPlaces
  <2>3. /\ Range(Append(q, r)) = Range(q) \cup {r}
        /\ \A i, j \in DOMAIN Append(q, r) : Append(q, r)[i] = Append(q, r)[j] => i = j
    BY <2>1, <2>2, QueueRanges
  <2>4. /\ sqlReqs'[w] = Append(q, r)
        /\ \A v \in Worker : v # w => sqlReqs'[v] = sqlReqs[v]
    BY <1>2, <2>1 DEF CallerSend, TypeOK
  <2>5. /\ caller'[r] = "waiting"
        /\ \A s \in SQLReq : s # r => caller'[s] = caller[s]
    BY <1>2 DEF CallerSend, TypeOK
  <2>6. UNCHANGED <<cur, target, replied>>
    BY <1>2 DEF CallerSend
  <2>7. r \notin replied /\ \A v \in Worker : cur[v] # r
    BY <1>2 DEF CallerSend, SQLPlaces
  <2> HIDE DEF q
  <2>8. \A v \in Worker, s \in SQLReq :
          s = cur'[v] \/ s \in Range(sqlReqs'[v])
            => caller'[s] \in {"waiting", "returned"} /\ target'[s] = v /\ s \notin replied'
    <3> SUFFICES ASSUME NEW v \in Worker, NEW s \in SQLReq,
                        s = cur'[v] \/ s \in Range(sqlReqs'[v])
                 PROVE  /\ caller'[s] \in {"waiting", "returned"}
                        /\ target'[s] = v /\ s \notin replied'
      OBVIOUS
    <3>1. CASE s = r
      <4>1. v = w
        <5>1. CASE v # w
          BY <1>2, <2>4, <2>6, <2>7, <3>1, <5>1 DEF SQLPlaces, CallerSend
        <5> QED
          BY <5>1
      <4> QED
        BY <2>5, <2>6, <2>7, <3>1, <4>1
    <3>2. CASE s # r
      <4>1. s = cur[v] \/ s \in Range(sqlReqs[v])
        <5>1. CASE v # w
          <6>1. sqlReqs'[v] = sqlReqs[v]
            BY <2>4, <5>1
          <6> QED
            BY <2>6, <6>1
        <5>2. CASE v = w
          <6>1. Range(sqlReqs'[v]) = Range(sqlReqs[v]) \cup {r}
            BY <2>3, <2>4, <5>2 DEF q
          <6> QED
            BY <2>6, <3>2, <6>1
        <5> QED
          BY <5>1, <5>2
      <4> QED
        BY <2>5, <2>6, <3>2, <4>1 DEF SQLPlaces
    <3> QED
      BY <3>1, <3>2
  <2>9. \A v \in Worker : cur'[v] \notin Range(sqlReqs'[v])
    BY ZenonT(60), <2>3, <2>4, <2>6, <2>7 DEF SQLPlaces, q
  <2>10. \A v \in Worker : \A i, j \in DOMAIN sqlReqs'[v] :
           sqlReqs'[v][i] = sqlReqs'[v][j] => i = j
    BY <2>3, <2>4 DEF SQLPlaces
  <2>11. \A s \in replied' : caller'[s] \in {"waiting", "returned"}
    BY <2>5, <2>6, <2>7 DEF SQLPlaces, TypeOK
  <2>12. \A s \in SQLReq : caller'[s] = "sending" => target'[s] \in Worker
    BY <2>5, <2>6 DEF SQLPlaces
  <2> QED
    BY <2>8, <2>9, <2>10, <2>11, <2>12 DEF SQLPlaces
<1>3. ASSUME NEW r \in SQLReq, CallerReturn(r) PROVE SQLPlaces'
  <2>1. /\ caller[r] = "waiting" /\ caller'[r] = "returned"
        /\ \A s \in SQLReq : s # r => caller'[s] = caller[s]
        /\ UNCHANGED <<cur, sqlReqs, target, replied>>
    BY <1>3 DEF CallerReturn, TypeOK
  <2>2. replied \subseteq SQLReq
    BY DEF TypeOK
  <2> QED
    BY <2>1, <2>2 DEF SQLPlaces
<1>4. ASSUME NEW r \in SQLReq, NEW w \in Worker, Arrive(r, w) PROVE SQLPlaces'
  <2>1. caller[r] = "idle"
    BY <1>4 DEF Arrive
  <2>2. /\ UNCHANGED <<cur, sqlReqs, replied>>
        /\ caller'[r] \in {"sending", "refused"}
        /\ caller'[r] = "sending" => target'[r] = w
        /\ \A s \in SQLReq : s # r => caller'[s] = caller[s] /\ target'[s] = target[s]
    BY <1>4 DEF Arrive, TypeOK
  <2>3. replied \subseteq SQLReq
    BY DEF TypeOK
  <2>4. /\ r \notin replied
        /\ \A v \in Worker : r # cur[v] /\ r \notin Range(sqlReqs[v])
    BY <2>1 DEF SQLPlaces
  <2> QED
    BY <2>2, <2>3, <2>4 DEF SQLPlaces
<1>5. ASSUME NEW w \in Worker, SelectSQL(w) PROVE SQLPlaces'
  <2> DEFINE q == sqlReqs[w]
             r == Head(q)
  <2>1. /\ q \in Seq(SQLReq) /\ q # <<>> /\ cur[w] \notin SQLReq
        /\ \A i, j \in DOMAIN q : q[i] = q[j] => i = j
    BY ZenonT(60), <1>5 DEF SelectSQL, SQLPlaces, TypeOK
  <2>2. /\ r \in SQLReq /\ r \in Range(q)
        /\ Range(Tail(q)) = Range(q) \ {r}
        /\ \A i, j \in DOMAIN Tail(q) : Tail(q)[i] = Tail(q)[j] => i = j
        /\ Range(q) \subseteq SQLReq
    BY <2>1, QueueRanges, QueueTypes, RangeOfSeq
  <2>3. /\ sqlReqs'[w] = Tail(q)
        /\ \A v \in Worker : v # w => sqlReqs'[v] = sqlReqs[v]
    BY <1>5 DEF SelectSQL, TypeOK
  <2>4. /\ \A v \in Worker : v # w => cur'[v] = cur[v]
        /\ \/ cur'[w] = r /\ replied' = replied
           \/ cur'[w] = Idle /\ replied' = replied \cup {r}
    BY <1>5 DEF SelectSQL, AfterSkip, TypeOK
  <2>5. UNCHANGED <<caller, target>>
    BY <1>5 DEF SelectSQL
  <2>6. /\ caller[r] \in {"waiting", "returned"} /\ target[r] = w /\ r \notin replied
    BY <2>2 DEF SQLPlaces
  <2>7. \A v \in Worker : v # w => r # cur[v] /\ r \notin Range(sqlReqs[v])
    BY <2>2, <2>6 DEF SQLPlaces
  <2> HIDE DEF q, r
  <2>8. \A v \in Worker, s \in SQLReq :
          s = cur'[v] \/ s \in Range(sqlReqs'[v])
            => caller'[s] \in {"waiting", "returned"} /\ target'[s] = v /\ s \notin replied'
    <3> SUFFICES ASSUME NEW v \in Worker, NEW s \in SQLReq,
                        s = cur'[v] \/ s \in Range(sqlReqs'[v])
                 PROVE  /\ caller[s] \in {"waiting", "returned"} /\ target[s] = v
                        /\ s \notin replied /\ (s = r => replied' = replied)
      BY <2>4, <2>5
    <3>1. CASE v # w
      BY <2>3, <2>4, <2>7, <3>1 DEF SQLPlaces
    <3>2. CASE v = w
      <4>1. s = cur'[w] => s = r /\ replied' = replied
        BY <2>4
      <4>2. s \in Range(sqlReqs'[w]) => s \in Range(sqlReqs[w]) /\ s # r
        BY <2>2, <2>3 DEF q
      <4> QED
        BY <2>6, <3>2, <4>1, <4>2 DEF SQLPlaces
    <3> QED
      BY <3>1, <3>2
  <2>9. \A v \in Worker : cur'[v] \notin Range(sqlReqs'[v])
    <3>1. r \notin Range(Tail(q)) /\ Idle \notin Range(Tail(q))
      BY <2>2
    <3>2. cur'[w] \notin Range(sqlReqs'[w])
      BY <2>3, <2>4, <3>1
    <3>3. \A v \in Worker : v # w => cur'[v] \notin Range(sqlReqs'[v])
      BY <2>3, <2>4 DEF SQLPlaces
    <3> QED
      BY <3>2, <3>3
  <2>10. \A v \in Worker : \A i, j \in DOMAIN sqlReqs'[v] :
           sqlReqs'[v][i] = sqlReqs'[v][j] => i = j
    BY <2>2, <2>3 DEF SQLPlaces
  <2>11. \A s \in replied' : caller'[s] \in {"waiting", "returned"}
    BY <2>4, <2>5, <2>6 DEF SQLPlaces
  <2> QED
    BY <2>5, <2>8, <2>9, <2>10, <2>11 DEF SQLPlaces
<1>6. ASSUME NEW w \in Worker, FinishSQL(w) PROVE SQLPlaces'
  <2>1. /\ cur[w] \in SQLReq
        /\ cur'[w] = Idle /\ \A v \in Worker : v # w => cur'[v] = cur[v]
        /\ replied' = replied \cup {cur[w]}
        /\ UNCHANGED <<sqlReqs, caller, target>>
    BY <1>6 DEF FinishSQL, Reply, TypeOK
  <2>2. /\ caller[cur[w]] \in {"waiting", "returned"} /\ target[cur[w]] = w
        /\ cur[w] \notin Range(sqlReqs[w])
    BY <2>1 DEF SQLPlaces
  <2>3. \A v \in Worker : v # w => cur[w] # cur[v] /\ cur[w] \notin Range(sqlReqs[v])
    BY <2>1, <2>2 DEF SQLPlaces
  <2>4. \A v \in Worker : Range(sqlReqs[v]) \subseteq SQLReq
    BY RangeOfSeq DEF TypeOK
  <2> QED
    BY <2>1, <2>2, <2>3, <2>4 DEF SQLPlaces
<1>7. ASSUME NEW w \in Worker, TakeUI(w) \/ FinishUI(w) PROVE SQLPlaces'
  <2>1. /\ \A v \in Worker : v # w => cur'[v] = cur[v]
        /\ cur'[w] \notin SQLReq
        /\ UNCHANGED <<sqlReqs, caller, target, replied>>
    BY SMTT(60), <1>7, QueueTypes DEF TakeUI, FinishUI, TypeOK
  <2>2. \A v \in Worker : Range(sqlReqs[v]) \subseteq SQLReq
    BY RangeOfSeq DEF TypeOK
  <2> QED
    BY <2>1, <2>2 DEF SQLPlaces
<1> QED
  BY <1>1, <1>2, <1>3, <1>4, <1>5, <1>6, <1>7
  DEF Next, vars, MainStep, WorkerStep, PollUI, SelectUI, SelectDone, BeginSend,
      EndSend, PollSkipped, PollResult, PollOneShot, BeginStop, EndStop, Disconnect,
      StartOneShot, PostOneShot

-----------------------------------------------------------------------------
(* UI requests *)

\* The numbers of a worker's requests.
LEMMA Numbers ==
  ASSUME Types, NEW w \in Worker
  PROVE  /\ sent[w] \in Seq(UIReq) /\ Len(sent[w]) \in Nat
         /\ uiReqs[w] \in Seq(UIReq) /\ Len(uiReqs[w]) \in Nat
         /\ handled[w] \in Seq(UIReq) /\ Handled(w) \in Nat
         /\ Sending(w) \in {0, 1} /\ Taken(w) \in Int /\ Answered(w) \in Int
         /\ Taken(w) + Len(uiReqs[w]) + Sending(w) = Len(sent[w])
         /\ Answered(w) <= Taken(w)
<1>1. /\ sent[w] \in Seq(UIReq) /\ uiReqs[w] \in Seq(UIReq) /\ handled[w] \in Seq(UIReq)
  BY DEF Types, TypeOK
<1>2. /\ Len(sent[w]) \in Nat /\ Len(uiReqs[w]) \in Nat /\ Handled(w) \in Nat
  BY <1>1, LenProperties DEF Handled
<1>3. Sending(w) \in {0, 1}
  BY DEF Sending
<1>4. /\ Taken(w) \in Int
      /\ Taken(w) + Len(uiReqs[w]) + Sending(w) = Len(sent[w])
  BY <1>2, <1>3 DEF Taken
<1>5. Answered(w) \in Int /\ Answered(w) <= Taken(w)
  BY <1>4 DEF Answered
<1> QED
  BY <1>1, <1>2, <1>3, <1>4, <1>5

\* A result is a worker's or a one-shot's.
LEMMA ResultsTyped ==
  ASSUME Types
  PROVE  /\ results \in Seq(Result) /\ Len(results) \in Nat
         /\ \A i \in 1 .. Len(results) :
              results[i] \in Result
<1>1. results \in Seq(Result)
  BY DEF Types, TypeOK
<1> QED
  BY <1>1, LenProperties, ElementOfSeq

\* Of two answers of a worker, the first is to the earlier request.
LEMMA PostedInOrder ==
  ASSUME Types, Posts, NEW w \in Worker,
         NEW i \in 1 .. Len(results), NEW j \in 1 .. Len(results), i < j,
         results[i].worker = w, results[j].worker = w,
         NEW p \in Handled(w) + 1 .. Answered(w),
         NEW q \in Handled(w) + 1 .. Answered(w),
         results[i].req = sent[w][p], results[j].req = sent[w][q]
  PROVE  p < q
<1>1. \A k, l \in 1 .. Len(results) :
        k < l /\ results[k].worker = w /\ results[l].worker = w =>
          \A a, b \in Handled(w) + 1 .. Answered(w) :
            results[k].req = sent[w][a] /\ results[l].req = sent[w][b] => a < b
  BY DEF Posts
<1>2. \A a, b \in Handled(w) + 1 .. Answered(w) :
        results[i].req = sent[w][a] /\ results[j].req = sent[w][b] => a < b
  BY <1>1
<1> QED
  BY <1>2

\* The results keep their meaning when no answer is posted or handled.
LEMMA PostsKept ==
  ASSUME Types, Posts, UNCHANGED results,
         \A w \in Worker :
           /\ Handled(w)' = Handled(w) /\ Answered(w)' = Answered(w)
           /\ \A p \in Handled(w) + 1 .. Answered(w) : sent'[w][p] = sent[w][p]
  PROVE  Posts'
<1>2. \A w \in Worker : \A i \in 1 .. Len(results') :
        results'[i].worker = w =>
          \E p \in Handled(w)' + 1 .. Answered(w)' : results'[i].req = sent'[w][p]
  BY DEF Posts
<1>3. \A w \in Worker : \A p \in Handled(w)' + 1 .. Answered(w)' :
        \E i \in 1 .. Len(results') :
          results'[i].worker = w /\ results'[i].req = sent'[w][p]
  BY DEF Posts
<1>4. \A w \in Worker : \A i, j \in 1 .. Len(results') :
        i < j /\ results'[i].worker = w /\ results'[j].worker = w =>
          \A p, q \in Handled(w)' + 1 .. Answered(w)' :
            results'[i].req = sent'[w][p] /\ results'[j].req = sent'[w][q] => p < q
  <2> SUFFICES ASSUME NEW w \in Worker,
                      NEW i \in 1 .. Len(results), NEW j \in 1 .. Len(results),
                      i < j, results[i].worker = w, results[j].worker = w,
                      NEW p \in Handled(w) + 1 .. Answered(w),
                      NEW q \in Handled(w) + 1 .. Answered(w),
                      results[i].req = sent[w][p], results[j].req = sent[w][q]
               PROVE  p < q
    OBVIOUS
  <2> QED
    BY PostedInOrder
<1> QED
  BY <1>2, <1>3, <1>4 DEF Posts

\* A request is sent behind all others of its worker.
LEMMA BeginSendOrder ==
  ASSUME Types, Positions, Posts, NEW u \in Worker, NEW r \in UIReq, BeginSend(u, r)
  PROVE  Positions' /\ Posts'
<1>1. /\ main = Free /\ main' = [op |-> "sending", worker |-> u, req |-> r]
      /\ sent'[u] = Append(sent[u], r)
      /\ \A w \in Worker : w # u => sent'[w] = sent[w]
      /\ UNCHANGED <<handled, uiReqs, cur, results>>
  BY DEF BeginSend, Types, TypeOK, workerVars
<1>2. \A w \in Worker : Sending(w) = 0 /\ Sending(w)' = IF w = u THEN 1 ELSE 0
  BY <1>1 DEF Sending, Free
<1>3. /\ Len(sent'[u]) = Len(sent[u]) + 1
      /\ \A i \in 1 .. Len(sent[u]) : sent'[u][i] = sent[u][i]
      /\ sent'[u][Len(sent[u]) + 1] = r
  <2>1. sent[u] \in Seq(UIReq)
    BY Numbers
  <2> QED
    BY <1>1, <2>1, AppendProperties
<1>4. \A w \in Worker : /\ Handled(w)' = Handled(w) /\ Taken(w)' = Taken(w)
                        /\ Answered(w)' = Answered(w)
  BY <1>1, <1>2, <1>3, Numbers DEF Handled, Taken, Answered
<1>5. \A w \in Worker : \A i \in 1 .. Len(sent[w]) : sent'[w][i] = sent[w][i]
  BY <1>1, <1>3
<1>6. Positions'
  <2> SUFFICES ASSUME NEW w \in Worker
               PROVE  /\ \A i, j \in 1 .. Len(sent'[w]) : sent'[w][i] = sent'[w][j] => i = j
                      /\ Handled(w)' <= Answered(w)'
                      /\ \A i \in 1 .. Handled(w)' : handled'[w][i] = sent'[w][i]
                      /\ cur'[w] \in UIReq => cur'[w] = sent'[w][Taken(w)']
                      /\ \A i \in 1 .. Len(uiReqs'[w]) :
                           uiReqs'[w][i] = sent'[w][Taken(w)' + i]
                      /\ Sending(w)' = 1 => Len(sent'[w]) > 0
                                          /\ main'.req = sent'[w][Len(sent'[w])]
    BY DEF Positions
  <2>1. \A i, j \in 1 .. Len(sent'[w]) : sent'[w][i] = sent'[w][j] => i = j
    <3>1. \A i \in 1 .. Len(sent[u]) : sent[u][i] # r
      <4>1. DOMAIN sent[u] = 1 .. Len(sent[u])
        BY Numbers, LenProperties
      <4> QED
        BY <4>1 DEF BeginSend, AllSent, Range
    <3>2. \A i, j \in 1 .. Len(sent[w]) : sent[w][i] = sent[w][j] => i = j
      BY DEF Positions
    <3>3. CASE w # u
      BY <1>1, <3>2, <3>3
    <3>4. CASE w = u
      <4> SUFFICES ASSUME NEW i \in 1 .. Len(sent[u]) + 1, NEW j \in 1 .. Len(sent[u]) + 1,
                          sent'[u][i] = sent'[u][j]
                   PROVE  i = j
        BY <1>3, <3>4
      <4>0. Len(sent[u]) \in Nat
        BY Numbers
      <4>1. i \in 1 .. Len(sent[u]) \/ i = Len(sent[u]) + 1
        BY <4>0
      <4>2. j \in 1 .. Len(sent[u]) \/ j = Len(sent[u]) + 1
        BY <4>0
      <4> QED
        BY <1>3, <3>1, <3>2, <3>4, <4>1, <4>2
    <3> QED
      BY <3>3, <3>4
  <2>2. Handled(w)' <= Answered(w)'
    BY <1>4 DEF Positions
  <2>3. \A i \in 1 .. Handled(w)' : handled'[w][i] = sent'[w][i]
    <3>1. Handled(w) \in Nat /\ Handled(w) <= Len(sent[w]) /\ Len(sent[w]) \in Nat
      BY SMTT(60), Numbers DEF Positions
    <3>2. \A i \in 1 .. Handled(w) : i \in 1 .. Len(sent[w])
      BY <3>1
    <3> QED
      BY <1>1, <1>4, <1>5, <3>2 DEF Positions
  <2>4. cur'[w] \in UIReq => cur'[w] = sent'[w][Taken(w)']
    <3>1. ASSUME cur[w] \in UIReq PROVE Taken(w) \in 1 .. Len(sent[w])
      BY <3>1, Numbers DEF Positions, Answered
    <3> QED
      BY <1>1, <1>4, <1>5, <3>1 DEF Positions
  <2>5. \A i \in 1 .. Len(uiReqs'[w]) : uiReqs'[w][i] = sent'[w][Taken(w)' + i]
    <3>1. Taken(w) >= 0
      BY Numbers DEF Positions
    <3>2. \A i \in 1 .. Len(uiReqs[w]) : Taken(w) + i \in 1 .. Len(sent[w])
      BY <1>2, <3>1, Numbers
    <3> QED
      BY SMTT(60), <1>1, <1>4, <1>5, <3>2 DEF Positions
  <2>6. Sending(w)' = 1 => Len(sent'[w]) > 0 /\ main'.req = sent'[w][Len(sent'[w])]
    BY <1>1, <1>2, <1>3, Numbers
  <2> QED
    BY <2>1, <2>2, <2>3, <2>4, <2>5, <2>6
<1>7. ASSUME NEW w \in Worker, NEW p \in Handled(w) + 1 .. Answered(w)
      PROVE  sent'[w][p] = sent[w][p]
  <2>1. p \in 1 .. Len(sent[w])
    BY Numbers
  <2> QED
    BY <1>5, <2>1
<1> QED
  BY <1>1, <1>4, <1>6, <1>7, PostsKept

\* A request that is queued was the last one sent.
LEMMA EndSendOrder ==
  ASSUME Types, Positions, Posts, EndSend
  PROVE  Positions' /\ Posts'
<1>0. PICK u \in Worker : u = main.worker
  BY DEF EndSend, Types, TypeOK, Free
<1>1. /\ main.op = "sending" /\ main.req \in UIReq /\ main' = Free
      /\ uiReqs'[u] = Append(uiReqs[u], main.req)
      /\ \A w \in Worker : w # u => uiReqs'[w] = uiReqs[w]
      /\ UNCHANGED <<handled, sent, cur, results>>
  BY <1>0 DEF EndSend, Types, TypeOK, workerVars, Free
<1>2. \A w \in Worker : Sending(w) = (IF w = u THEN 1 ELSE 0) /\ Sending(w)' = 0
  BY <1>0, <1>1 DEF Sending, Free
<1>3. /\ Len(uiReqs'[u]) = Len(uiReqs[u]) + 1
      /\ \A i \in 1 .. Len(uiReqs[u]) : uiReqs'[u][i] = uiReqs[u][i]
      /\ uiReqs'[u][Len(uiReqs[u]) + 1] = main.req
  <2>1. uiReqs[u] \in Seq(UIReq)
    BY <1>1, Numbers
  <2> QED
    BY <1>1, <2>1, AppendProperties
<1>4. ASSUME NEW w \in Worker
      PROVE  /\ Handled(w)' = Handled(w) /\ Taken(w)' = Taken(w)
             /\ Answered(w)' = Answered(w)
  <2>1. Handled(w)' = Handled(w)
    BY <1>1 DEF Handled
  <2>2. Taken(w)' = Len(sent[w]) - 0 - Len(uiReqs'[w])
    BY <1>1, <1>2 DEF Taken
  <2>3. Taken(w)' = Taken(w)
    <3>1. CASE w # u
      BY <1>1, <1>2, <2>2, <3>1 DEF Taken
    <3>2. CASE w = u
      <4>1. Len(sent[w]) \in Nat /\ Len(uiReqs[w]) \in Nat
        BY Numbers
      <4>2. Len(uiReqs'[w]) = Len(uiReqs[w]) + 1
        BY <1>3, <3>2
      <4>3. Taken(w)' = Len(sent[w]) - (Len(uiReqs[w]) + 1)
        BY <2>2, <4>1, <4>2
      <4>4. Taken(w) = Len(sent[w]) - 1 - Len(uiReqs[w])
        BY <1>2, <3>2 DEF Taken
      <4> QED
        BY <4>1, <4>3, <4>4
    <3> QED
      BY <3>1, <3>2
  <2>4. Answered(w)' = Answered(w)
    BY <1>1, <2>3 DEF Answered
  <2> QED
    BY <2>1, <2>3, <2>4
<1>5. Positions'
  <2> SUFFICES \A w \in Worker : \A i \in 1 .. Len(uiReqs'[w]) :
                 uiReqs'[w][i] = sent[w][Taken(w) + i]
    <3> SUFFICES ASSUME NEW w \in Worker,
                        \A i \in 1 .. Len(uiReqs'[w]) :
                          uiReqs'[w][i] = sent[w][Taken(w) + i]
                 PROVE  /\ \A i, j \in 1 .. Len(sent'[w]) : sent'[w][i] = sent'[w][j] => i = j
                        /\ Handled(w)' <= Answered(w)'
                        /\ \A i \in 1 .. Handled(w)' : handled'[w][i] = sent'[w][i]
                        /\ cur'[w] \in UIReq => cur'[w] = sent'[w][Taken(w)']
                        /\ \A i \in 1 .. Len(uiReqs'[w]) :
                             uiReqs'[w][i] = sent'[w][Taken(w)' + i]
                        /\ Sending(w)' # 1
      BY DEF Positions
    <3> QED
      BY <1>1, <1>2, <1>4 DEF Positions
  <2> SUFFICES ASSUME NEW w \in Worker, NEW i \in 1 .. Len(uiReqs'[w])
               PROVE  uiReqs'[w][i] = sent[w][Taken(w) + i]
    OBVIOUS
  <2>1. CASE w # u \/ i \in 1 .. Len(uiReqs[u])
    BY <1>1, <1>3, <2>1 DEF Positions
  <2>2. CASE w = u /\ i = Len(uiReqs[u]) + 1
    <3>1. main.req = sent[u][Len(sent[u])] /\ Taken(u) + i = Len(sent[u])
      BY <1>1, <1>2, <2>2, Numbers DEF Positions
    <3> QED
      BY <1>3, <2>2, <3>1
  <2> QED
    BY <1>1, <1>3, <2>1, <2>2, Numbers
<1> QED
  BY <1>1, <1>4, <1>5, PostsKept

\* The request a worker takes is the oldest one it has not taken.
LEMMA TakeUIOrder ==
  ASSUME Types, Positions, Posts, NEW u \in Worker, cur[u] \notin UIReq, TakeUI(u)
  PROVE  Positions' /\ Posts'
<1>1. /\ uiReqs[u] # <<>> /\ cur'[u] = Head(uiReqs[u]) /\ uiReqs'[u] = Tail(uiReqs[u])
      /\ \A w \in Worker : w # u => uiReqs'[w] = uiReqs[w] /\ cur'[w] = cur[w]
      /\ UNCHANGED <<handled, sent, main, results>>
  BY DEF TakeUI, Types, TypeOK, mainVars
<1>2. /\ Len(uiReqs[u]) > 0 /\ Len(uiReqs'[u]) = Len(uiReqs[u]) - 1
      /\ \A i \in 1 .. Len(uiReqs'[u]) : uiReqs'[u][i] = uiReqs[u][i + 1]
      /\ cur'[u] \in UIReq /\ cur'[u] = uiReqs[u][1]
  <2>1. uiReqs[u] \in Seq(UIReq) /\ Len(uiReqs[u]) \in Nat
    BY Numbers
  <2> QED
    BY <1>1, <2>1, HeadTailProperties, EmptySeq
<1>3. \A w \in Worker : Sending(w)' = Sending(w) /\ Handled(w)' = Handled(w)
  BY <1>1 DEF Sending, Handled
<1>4. /\ Taken(u)' = Taken(u) + 1
      /\ \A w \in Worker : w # u => Taken(w)' = Taken(w)
  <2>1. \A w \in Worker : Taken(w)' = Len(sent[w]) - Sending(w) - Len(uiReqs'[w])
    BY <1>1, <1>3 DEF Taken
  <2>2. Taken(u)' = Taken(u) + 1
    <3>1. /\ Len(sent[u]) \in Nat /\ Len(uiReqs[u]) \in Nat /\ Taken(u) \in Int
          /\ Taken(u) + Len(uiReqs[u]) + Sending(u) = Len(sent[u])
          /\ Sending(u) \in {0, 1}
      BY Numbers
    <3>2. Taken(u)' = Len(sent[u]) - Sending(u) - (Len(uiReqs[u]) - 1)
      BY <1>2, <2>1
    <3> QED
      BY <3>1, <3>2
  <2>3. \A w \in Worker : w # u => Taken(w)' = Taken(w)
    BY <1>1, <2>1 DEF Taken
  <2> QED
    BY <2>2, <2>3
<1>5. ASSUME NEW w \in Worker PROVE Answered(w)' = Answered(w)
  <2>1. CASE w # u
    BY <1>1, <1>4, <2>1 DEF Answered
  <2>2. CASE w = u
    <3>1. Answered(u)' = Taken(u)' - 1 /\ Answered(u) = Taken(u)
      BY <1>2 DEF Answered
    <3> QED
      BY <1>4, <2>2, <3>1, Numbers
  <2> QED
    BY <2>1, <2>2
<1>6. Positions'
  <2> SUFFICES ASSUME NEW w \in Worker
               PROVE  /\ cur'[w] \in UIReq => cur'[w] = sent[w][Taken(w)']
                      /\ \A i \in 1 .. Len(uiReqs'[w]) :
                           uiReqs'[w][i] = sent[w][Taken(w)' + i]
    BY <1>1, <1>3, <1>5 DEF Positions
  <2>1. CASE w # u
    BY <1>1, <1>4, <2>1 DEF Positions
  <2>2. CASE w = u
    <3>1. \A i \in 1 .. Len(uiReqs[u]) : uiReqs[u][i] = sent[u][Taken(u) + i]
      BY DEF Positions
    <3>2. \A i \in 1 .. Len(uiReqs'[u]) : uiReqs'[u][i] = sent[u][Taken(u) + (i + 1)]
      BY <1>2, <3>1, Numbers
    <3>3. \A i \in 1 .. Len(uiReqs'[u]) : Taken(u) + (i + 1) = Taken(u)' + i
      BY <1>4, Numbers
    <3>4. cur'[u] = sent[u][Taken(u) + 1]
      BY <1>2, <3>1, Numbers
    <3> QED
      BY <1>4, <2>2, <3>2, <3>3, <3>4
  <2> QED
    BY <2>1, <2>2
<1> QED
  BY <1>1, <1>3, <1>5, <1>6, PostsKept

\* An answer is posted behind those of the worker's earlier requests.
LEMMA FinishUIOrder ==
  ASSUME Types, Positions, Posts, NEW u \in Worker, FinishUI(u)
  PROVE  Positions' /\ Posts'
<1>1. /\ cur[u] \in UIReq /\ cur'[u] = Idle /\ Idle \notin UIReq
      /\ \A w \in Worker : w # u => cur'[w] = cur[w]
      /\ results' = Append(results, [worker |-> u, req |-> cur[u]])
      /\ UNCHANGED <<handled, sent, uiReqs, main>>
  BY ConnWorkerAssumption DEF FinishUI, Posted, Types, TypeOK, mainVars
<1>2. /\ Len(results) \in Nat /\ Len(results') = Len(results) + 1
      /\ \A i \in 1 .. Len(results) : results'[i] = results[i]
      /\ results'[Len(results) + 1] = [worker |-> u, req |-> cur[u]]
  <2>1. [worker |-> u, req |-> cur[u]] \in Result
    BY <1>1 DEF Result
  <2> QED
    BY <1>1, <2>1, ResultsTyped, AppendProperties
<1>3. \A w \in Worker : /\ Sending(w)' = Sending(w) /\ Handled(w)' = Handled(w)
                        /\ Taken(w)' = Taken(w)
  BY <1>1 DEF Sending, Handled, Taken
<1>4. /\ Answered(u) = Taken(u) - 1 /\ Answered(u)' = Answered(u) + 1
      /\ \A w \in Worker : w # u => Answered(w)' = Answered(w)
  <2>1. Answered(u) = Taken(u) - 1 /\ Answered(u)' = Taken(u)
    BY <1>1, <1>3 DEF Answered
  <2>2. Taken(u) \in Int
    BY Numbers
  <2>3. \A w \in Worker : w # u => Answered(w)' = Answered(w)
    BY <1>1, <1>3 DEF Answered
  <2> QED
    BY <2>1, <2>2, <2>3
<1>5. Handled(u) \in Nat /\ Answered(u) \in Int /\ Handled(u) <= Answered(u)
  BY Numbers DEF Positions
<1>6. Positions'
  <2> SUFFICES ASSUME NEW w \in Worker
               PROVE  /\ Handled(w)' <= Answered(w)'
                      /\ cur'[w] \in UIReq => cur'[w] = sent[w][Taken(w)']
    <3> SUFFICES ASSUME NEW w \in Worker,
                        /\ Handled(w)' <= Answered(w)'
                        /\ cur'[w] \in UIReq => cur'[w] = sent[w][Taken(w)']
                 PROVE  /\ \A i, j \in 1 .. Len(sent'[w]) : sent'[w][i] = sent'[w][j] => i = j
                        /\ Handled(w)' <= Answered(w)'
                        /\ \A i \in 1 .. Handled(w)' : handled'[w][i] = sent'[w][i]
                        /\ cur'[w] \in UIReq => cur'[w] = sent'[w][Taken(w)']
                        /\ \A i \in 1 .. Len(uiReqs'[w]) :
                             uiReqs'[w][i] = sent'[w][Taken(w)' + i]
                        /\ Sending(w)' = 1 => Len(sent'[w]) > 0
                                            /\ main'.req = sent'[w][Len(sent'[w])]
      BY DEF Positions
    <3> QED
      BY <1>1, <1>3 DEF Positions
  <2>1. CASE w # u
    BY <1>1, <1>3, <1>4, <2>1 DEF Positions
  <2>2. CASE w = u
    BY <1>1, <1>3, <1>4, <1>5, <2>2
  <2> QED
    BY <2>1, <2>2
<1>7. cur[u] = sent[u][Answered(u) + 1]
  <2>1. cur[u] = sent[u][Taken(u)] /\ Taken(u) \in Int
    BY <1>1, Numbers DEF Positions
  <2> QED
    BY <1>4, <2>1
<1>8. \A p, q \in Handled(u) + 1 .. Answered(u) + 1 : sent[u][p] = sent[u][q] => p = q
  <2>1. /\ \A i, j \in 1 .. Len(sent[u]) : sent[u][i] = sent[u][j] => i = j
        /\ Answered(u) + 1 <= Len(sent[u]) /\ Len(sent[u]) \in Nat
    <3>1. /\ Taken(u) + Len(uiReqs[u]) + Sending(u) = Len(sent[u]) /\ Taken(u) \in Int
          /\ Len(uiReqs[u]) \in Nat /\ Sending(u) \in {0, 1} /\ Len(sent[u]) \in Nat
      BY Numbers
    <3> QED
      BY <1>4, <3>1 DEF Positions
  <2>2. \A p \in Handled(u) + 1 .. Answered(u) + 1 : p \in 1 .. Len(sent[u])
    BY <1>5, <2>1
  <2> QED
    BY <2>1, <2>2
<1>9. Posts'
  <2>1. ASSUME NEW w \in Worker, NEW i \in 1 .. Len(results'), results'[i].worker = w
        PROVE  \E p \in Handled(w)' + 1 .. Answered(w)' : results'[i].req = sent'[w][p]
    <3>1. CASE i = Len(results) + 1
      <4>1. w = u /\ results'[i].req = sent'[u][Answered(u) + 1]
        BY <1>1, <1>2, <1>7, <2>1, <3>1
      <4>2. Answered(u) + 1 \in Handled(u)' + 1 .. Answered(u)'
        BY <1>3, <1>4, <1>5
      <4> QED
        BY <4>1, <4>2
    <3>2. CASE i \in 1 .. Len(results)
      <4>1. PICK p \in Handled(w) + 1 .. Answered(w) : results[i].req = sent[w][p]
        BY <1>2, <2>1, <3>2 DEF Posts
      <4>2. p \in Handled(w)' + 1 .. Answered(w)'
        BY <1>3, <1>4, <1>5
      <4> QED
        BY <1>1, <1>2, <3>2, <4>1, <4>2
    <3> QED
      BY <1>2, <3>1, <3>2
  <2>2. ASSUME NEW w \in Worker, NEW p \in Handled(w)' + 1 .. Answered(w)'
        PROVE  \E i \in 1 .. Len(results') :
                 results'[i].worker = w /\ results'[i].req = sent'[w][p]
    <3>1. CASE w = u /\ p = Answered(u) + 1
      <4>1. Len(results) + 1 \in 1 .. Len(results')
        BY <1>2
      <4> QED
        BY <1>1, <1>2, <1>7, <3>1, <4>1
    <3>2. CASE p \in Handled(w) + 1 .. Answered(w)
      <4>1. PICK i \in 1 .. Len(results) :
              results[i].worker = w /\ results[i].req = sent[w][p]
        BY <3>2 DEF Posts
      <4>2. i \in 1 .. Len(results')
        BY <1>2
      <4> QED
        BY <1>1, <1>2, <4>1, <4>2
    <3> QED
      BY <1>3, <1>4, <1>5, <3>1, <3>2
  <2>3. ASSUME NEW w \in Worker, NEW i \in 1 .. Len(results'), NEW j \in 1 .. Len(results'),
               i < j, results'[i].worker = w, results'[j].worker = w,
               NEW p \in Handled(w)' + 1 .. Answered(w)',
               NEW q \in Handled(w)' + 1 .. Answered(w)',
               results'[i].req = sent'[w][p], results'[j].req = sent'[w][q]
        PROVE  p < q
    <3>1. /\ i \in 1 .. Len(results) /\ results[i].worker = w
          /\ results[i].req = sent[w][p]
      BY <1>1, <1>2, <2>3
    <3>2. PICK a \in Handled(w) + 1 .. Answered(w) : results[i].req = sent[w][a]
      BY <3>1 DEF Posts
    <3>3. CASE j = Len(results) + 1
      <4>1. w = u /\ sent[u][q] = sent[u][Answered(u) + 1]
        BY <1>1, <1>2, <1>7, <2>3, <3>3
      <4>0. /\ {p, q, a, Answered(u) + 1} \subseteq Handled(u) + 1 .. Answered(u) + 1
            /\ sent[u][p] = sent[u][a]
        <5>1. p \in Handled(u) + 1 .. Answered(u) + 1 /\ q \in Handled(u) + 1 .. Answered(u) + 1
          BY <1>3, <1>4, <2>3, <4>1
        <5>2. a \in Handled(u) + 1 .. Answered(u)
          BY <3>2, <4>1
        <5>3. a \in Handled(u) + 1 .. Answered(u) + 1
          BY <1>5, <5>2
        <5>4. Answered(u) + 1 \in Handled(u) + 1 .. Answered(u) + 1
          BY <1>5
        <5> QED
          BY <3>1, <3>2, <4>1, <5>1, <5>3, <5>4
      <4>2. q = Answered(u) + 1
        BY <1>8, <4>0, <4>1
      <4>3. p = a
        BY <1>8, <4>0
      <4> QED
        BY <1>5, <3>2, <4>1, <4>2, <4>3
    <3>4. CASE j \in 1 .. Len(results)
      <4>1. results[j].worker = w /\ results[j].req = sent[w][q]
        BY <1>1, <1>2, <2>3, <3>4
      <4>2. PICK b \in Handled(w) + 1 .. Answered(w) : results[j].req = sent[w][b]
        BY <3>4, <4>1 DEF Posts
      <4>3. p = a /\ q = b
        <5>1. CASE w = u
          <6>1. p \in Handled(u) + 1 .. Answered(u) + 1 /\ q \in Handled(u) + 1 .. Answered(u) + 1
            BY <1>3, <1>4, <2>3, <5>1
          <6>2. a \in Handled(u) + 1 .. Answered(u) /\ b \in Handled(u) + 1 .. Answered(u)
            BY <3>2, <4>2, <5>1
          <6>3. a \in Handled(u) + 1 .. Answered(u) + 1 /\ b \in Handled(u) + 1 .. Answered(u) + 1
            BY <1>5, <6>2
          <6>4. sent[u][p] = sent[u][a] /\ sent[u][q] = sent[u][b]
            BY <3>1, <3>2, <4>1, <4>2, <5>1
          <6> QED
            BY <1>8, <6>1, <6>3, <6>4
        <5>2. CASE w # u
          <6>1. p \in Handled(w) + 1 .. Answered(w) /\ q \in Handled(w) + 1 .. Answered(w)
            BY <1>3, <1>4, <2>3, <5>2
          <6>2. {p, q, a, b} \subseteq 1 .. Len(sent[w])
            <7>1. /\ Handled(w) \in Nat /\ Answered(w) \in Int /\ Len(sent[w]) \in Nat
                  /\ Answered(w) <= Len(sent[w])
              <8>1. /\ Handled(w) \in Nat /\ Answered(w) \in Int /\ Len(sent[w]) \in Nat
                    /\ Taken(w) \in Int /\ Answered(w) <= Taken(w)
                    /\ Taken(w) + Len(uiReqs[w]) + Sending(w) = Len(sent[w])
                    /\ Len(uiReqs[w]) \in Nat /\ Sending(w) \in {0, 1}
                BY Numbers
              <8> QED
                BY SMTT(60), <8>1
            <7> QED
              BY <3>2, <4>2, <6>1, <7>1
          <6>3. \A k, l \in 1 .. Len(sent[w]) : sent[w][k] = sent[w][l] => k = l
            BY DEF Positions
          <6>4. sent[w][p] = sent[w][a] /\ sent[w][q] = sent[w][b]
            BY <3>1, <3>2, <4>1, <4>2
          <6> QED
            BY <6>2, <6>3, <6>4
        <5> QED
          BY <5>1, <5>2
      <4> QED
        BY <2>3, <3>1, <3>2, <3>4, <4>1, <4>2, <4>3, PostedInOrder
    <3> QED
      BY <1>2, <3>3, <3>4
  <2> QED
    BY <2>1, <2>2, <2>3 DEF Posts
<1> QED
  BY <1>6, <1>9

\* The main thread takes the answers of a worker from its earliest request on.
LEMMA PollResultOrder ==
  ASSUME Types, Positions, Posts, PollResult
  PROVE  Positions' /\ Posts'
<1>0. PICK u \in Worker : u = Head(results).worker
  BY PollTypes DEF PollResult
<1>1. /\ results # <<>> /\ u = results[1].worker
      /\ results' = Tail(results)
      /\ handled'[u] = Append(handled[u], results[1].req)
      /\ results[1].req \in UIReq
      /\ \A w \in Worker : w # u => handled'[w] = handled[w]
      /\ UNCHANGED <<main, sent, uiReqs, cur>>
  <2>1. Head(results) \in [worker : Worker, req : UIReq] /\ Head(results) = results[1]
    BY PollTypes DEF PollResult
  <2> QED
    BY <1>0, <2>1 DEF PollResult, Types, TypeOK, workerVars
<1>2. /\ Len(results) \in Nat \ {0} /\ Len(results') = Len(results) - 1
      /\ \A i \in 1 .. Len(results') : results'[i] = results[i + 1]
      /\ 1 \in 1 .. Len(results)
  <2>1. /\ Len(results) \in Nat \ {0} /\ Len(results') = Len(results) - 1
        /\ \A i \in 1 .. Len(results') : results'[i] = results[i + 1]
    BY <1>1, ResultsTyped, HeadTailProperties, EmptySeq
  <2> QED
    BY <2>1
<1>3. \A w \in Worker : Taken(w)' = Taken(w) /\ Answered(w)' = Answered(w)
                      /\ Sending(w)' = Sending(w)
  BY <1>1 DEF Taken, Answered, Sending
<1>4. ASSUME NEW w \in Worker
      PROVE  /\ Handled(w) \in Nat /\ Answered(w) \in Int /\ Handled(w) <= Answered(w)
             /\ \A p \in 1 .. Answered(w) : p \in 1 .. Len(sent[w])
             /\ \A i, j \in 1 .. Len(sent[w]) : sent[w][i] = sent[w][j] => i = j
  <2>1. /\ Handled(w) \in Nat /\ Answered(w) \in Int /\ Len(sent[w]) \in Nat
        /\ Taken(w) \in Int /\ Answered(w) <= Taken(w)
        /\ Taken(w) + Len(uiReqs[w]) + Sending(w) = Len(sent[w])
        /\ Len(uiReqs[w]) \in Nat /\ Sending(w) \in {0, 1}
    BY Numbers
  <2>2. Handled(w) <= Answered(w)
    BY DEF Positions
  <2>3. \A i, j \in 1 .. Len(sent[w]) : sent[w][i] = sent[w][j] => i = j
    BY DEF Positions
  <2> QED
    BY <2>1, <2>2, <2>3
<1> DEFINE h == Handled(u) + 1
<1>5. h \in 1 .. Answered(u) /\ results[1].req = sent[u][h]
  <2>1. PICK p \in h .. Answered(u) : results[1].req = sent[u][p]
    BY <1>1, <1>2 DEF Posts
  <2>2. h \in h .. Answered(u) /\ h \in 1 .. Answered(u)
    BY <1>1, <1>4, <2>1
  <2>3. PICK i \in 1 .. Len(results) : results[i].worker = u /\ results[i].req = sent[u][h]
    <3>1. \A q \in Handled(u) + 1 .. Answered(u) :
            \E i \in 1 .. Len(results) : results[i].worker = u /\ results[i].req = sent[u][q]
      BY <1>1 DEF Posts
    <3> QED
      BY <2>2, <3>1
  <2>4. CASE i = 1
    BY <2>2, <2>3, <2>4
  <2>5. CASE i # 1
    <3>1. 1 < i
      BY <1>2, <2>5
    <3>2. p < h
      BY <1>1, <1>2, <2>1, <2>2, <2>3, <3>1, PostedInOrder
    <3> QED
      BY <1>1, <1>4, <2>1, <3>2
  <2> QED
    BY <2>4, <2>5
<1>6. /\ Handled(u)' = Handled(u) + 1
      /\ \A i \in 1 .. Handled(u) : handled'[u][i] = handled[u][i]
      /\ handled'[u][Handled(u) + 1] = sent[u][Handled(u) + 1]
      /\ \A w \in Worker : w # u => Handled(w)' = Handled(w)
  <2>1. handled[u] \in Seq(UIReq)
    BY <1>1, Numbers
  <2>2. /\ Len(handled'[u]) = Len(handled[u]) + 1
        /\ \A i \in 1 .. Len(handled[u]) : handled'[u][i] = handled[u][i]
        /\ handled'[u][Len(handled[u]) + 1] = results[1].req
    BY <1>1, <2>1, AppendProperties
  <2>3. \A w \in Worker : w # u => Handled(w)' = Handled(w)
    BY <1>1 DEF Handled
  <2>4. results[1].req = sent[u][Len(handled[u]) + 1]
    BY <1>5 DEF Handled
  <2> QED
    BY <2>2, <2>3, <2>4 DEF Handled
<1>7. Positions'
  <2> SUFFICES ASSUME NEW w \in Worker
               PROVE  /\ Handled(w)' <= Answered(w)
                      /\ \A i \in 1 .. Handled(w)' : handled'[w][i] = sent[w][i]
    <3> SUFFICES ASSUME NEW w \in Worker,
                        /\ Handled(w)' <= Answered(w)
                        /\ \A i \in 1 .. Handled(w)' : handled'[w][i] = sent[w][i]
                 PROVE  /\ \A i, j \in 1 .. Len(sent'[w]) : sent'[w][i] = sent'[w][j] => i = j
                        /\ Handled(w)' <= Answered(w)'
                        /\ \A i \in 1 .. Handled(w)' : handled'[w][i] = sent'[w][i]
                        /\ cur'[w] \in UIReq => cur'[w] = sent'[w][Taken(w)']
                        /\ \A i \in 1 .. Len(uiReqs'[w]) :
                             uiReqs'[w][i] = sent'[w][Taken(w)' + i]
                        /\ Sending(w)' = 1 => Len(sent'[w]) > 0
                                            /\ main'.req = sent'[w][Len(sent'[w])]
      BY DEF Positions
    <3>1. /\ cur[w] \in UIReq => cur[w] = sent[w][Taken(w)]
          /\ \A i \in 1 .. Len(uiReqs[w]) : uiReqs[w][i] = sent[w][Taken(w) + i]
          /\ Sending(w) = 1 => Len(sent[w]) > 0 /\ main.req = sent[w][Len(sent[w])]
      BY DEF Positions
    <3> QED
      BY <1>1, <1>3, <1>4, <3>1
  <2>1. CASE w # u
    BY <1>1, <1>6, <2>1 DEF Positions
  <2>2. CASE w = u
    <3>1. \A i \in 1 .. Handled(u) : handled[u][i] = sent[u][i]
      BY <1>1 DEF Positions
    <3>2. Handled(u) \in Nat /\ Handled(u) + 1 <= Answered(u)
      BY <1>1, <1>4, <1>5
    <3>3. \A i \in 1 .. Handled(u) + 1 : handled'[u][i] = sent[u][i]
      BY <1>6, <3>1, <3>2
    <3>4. Len(handled'[w]) = Len(handled[w]) + 1
      BY <1>6, <2>2 DEF Handled
    <3>5. Handled(w)' = Handled(w) + 1
      BY <3>4 DEF Handled
    <3> QED
      BY <2>2, <3>2, <3>3, <3>5
  <2> QED
    BY <2>1, <2>2
<1>8. ASSUME NEW w \in Worker
      PROVE  /\ \A p \in Handled(w)' + 1 .. Answered(w)' :
                  p \in Handled(w) + 1 .. Answered(w) /\ (w = u => p # h)
             /\ \A p \in Handled(w) + 1 .. Answered(w) :
                  p \in Handled(w)' + 1 .. Answered(w)' \/ (w = u /\ p = h)
  <2>1. Answered(w)' = Answered(w) /\ Handled(w) \in Nat /\ Answered(w) \in Int
    BY <1>3, <1>4
  <2>2. CASE w # u
    <3>1. Handled(w)' = Handled(w)
      BY <1>6, <2>2
    <3> QED
      BY <2>1, <2>2, <3>1
  <2>3. CASE w = u
    <3>1. Handled(w)' = Handled(w) + 1 /\ h = Handled(w) + 1
      <4>1. Len(handled'[w]) = Len(handled[w]) + 1
        BY <1>6, <2>3 DEF Handled
      <4> QED
        BY <2>3, <4>1 DEF Handled
    <3> HIDE DEF h
    <3>2. \A p \in Handled(w) + 2 .. Answered(w) : p \in Handled(w) + 1 .. Answered(w) /\ p # h
      BY <2>1, <3>1
    <3>3. \A p \in Handled(w) + 1 .. Answered(w) : p \in Handled(w) + 2 .. Answered(w) \/ p = h
      BY <2>1, <3>1
    <3>4. Handled(w)' + 1 = Handled(w) + 2
      BY <2>1, <3>1
    <3> QED
      BY <2>1, <2>3, <3>2, <3>3, <3>4
  <2> QED
    BY <2>2, <2>3
<1>9. Posts'
  <2>1. ASSUME NEW w \in Worker, NEW i \in 1 .. Len(results'), results'[i].worker = w
        PROVE  \E p \in Handled(w)' + 1 .. Answered(w)' : results'[i].req = sent'[w][p]
    <3>1. /\ i + 1 \in 1 .. Len(results) /\ 1 < i + 1 /\ results[i + 1].worker = w
          /\ results'[i].req = results[i + 1].req
      BY <1>2, <2>1
    <3>2. PICK p \in Handled(w) + 1 .. Answered(w) : results[i + 1].req = sent[w][p]
      BY <3>1 DEF Posts
    <3>3. CASE w # u
      BY <1>1, <1>8, <3>1, <3>2, <3>3
    <3>4. CASE w = u
      <4>1. h \in Handled(w) + 1 .. Answered(w)
        BY <1>4, <1>5, <3>4
      <4>2. h < p
        BY <1>1, <1>2, <1>5, <3>1, <3>2, <3>4, <4>1, PostedInOrder
      <4>3. p # h
        BY <1>1, <1>4, <4>2
      <4> QED
        BY <1>1, <1>8, <3>1, <3>2, <3>4, <4>3
    <3> QED
      BY <3>3, <3>4
  <2>2. ASSUME NEW w \in Worker, NEW p \in Handled(w)' + 1 .. Answered(w)'
        PROVE  \E i \in 1 .. Len(results') :
                 results'[i].worker = w /\ results'[i].req = sent'[w][p]
    <3>1. PICK i \in 1 .. Len(results) : results[i].worker = w /\ results[i].req = sent[w][p]
      BY <1>8 DEF Posts
    <3>2. i # 1
      <4>1. CASE w # u
        BY <1>1, <3>1, <4>1
      <4>2. CASE w = u
        <5>1. p # h /\ p \in Handled(w) + 1 .. Answered(w)
          BY <1>8, <4>2
        <5>2. p \in 1 .. Len(sent[w]) /\ h \in 1 .. Len(sent[w])
          BY <1>4, <1>5, <4>2, <5>1
        <5>3. sent[w][p] # sent[w][h]
          BY <1>4, <5>1, <5>2
        <5> QED
          BY <1>5, <3>1, <4>2, <5>3
      <4> QED
        BY <4>1, <4>2
    <3>3. i - 1 \in 1 .. Len(results') /\ results'[i - 1] = results[i]
      BY <1>2, <3>2
    <3> QED
      BY <1>1, <3>1, <3>3
  <2>3. ASSUME NEW w \in Worker, NEW i \in 1 .. Len(results'), NEW j \in 1 .. Len(results'),
               i < j, results'[i].worker = w, results'[j].worker = w,
               NEW p \in Handled(w)' + 1 .. Answered(w)',
               NEW q \in Handled(w)' + 1 .. Answered(w)',
               results'[i].req = sent'[w][p], results'[j].req = sent'[w][q]
        PROVE  p < q
    <3>1. /\ i + 1 \in 1 .. Len(results) /\ j + 1 \in 1 .. Len(results) /\ i + 1 < j + 1
          /\ results'[i] = results[i + 1] /\ results'[j] = results[j + 1]
      BY <1>2, <2>3
    <3>2. p \in Handled(w) + 1 .. Answered(w) /\ q \in Handled(w) + 1 .. Answered(w)
      BY <1>8
    <3> QED
      BY <1>1, <2>3, <3>1, <3>2, PostedInOrder
  <2> QED
    BY <2>1, <2>2, <2>3 DEF Posts
<1> QED
  BY <1>7, <1>9

\* Every other step leaves the UI requests where they are.
LEMMA OtherwiseSameOrder ==
  ASSUME Types, Positions, Posts, UNCHANGED <<handled, sent, uiReqs, results>>,
         \A w \in Worker : Sending(w)' = Sending(w) /\ (Sending(w) = 1 => main' = main),
         \A w \in Worker : cur'[w] = cur[w] \/ {cur[w], cur'[w]} \cap UIReq = {}
  PROVE  Positions' /\ Posts'
<1>1. ASSUME NEW w \in Worker
      PROVE  /\ Handled(w)' = Handled(w) /\ Taken(w)' = Taken(w)
             /\ Answered(w)' = Answered(w)
  <2>1. Handled(w)' = Handled(w) /\ Taken(w)' = Taken(w)
    BY DEF Handled, Taken
  <2> QED
    BY <2>1 DEF Answered
<1>2. Positions'
  <2> SUFFICES ASSUME NEW w \in Worker
               PROVE  /\ \A i, j \in 1 .. Len(sent'[w]) : sent'[w][i] = sent'[w][j] => i = j
                      /\ Handled(w)' <= Answered(w)'
                      /\ \A i \in 1 .. Handled(w)' : handled'[w][i] = sent'[w][i]
                      /\ cur'[w] \in UIReq => cur'[w] = sent'[w][Taken(w)']
                      /\ \A i \in 1 .. Len(uiReqs'[w]) :
                           uiReqs'[w][i] = sent'[w][Taken(w)' + i]
                      /\ Sending(w)' = 1 => Len(sent'[w]) > 0
                                          /\ main'.req = sent'[w][Len(sent'[w])]
    BY DEF Positions
  <2>1. /\ \A i, j \in 1 .. Len(sent[w]) : sent[w][i] = sent[w][j] => i = j
        /\ Handled(w) <= Answered(w)
        /\ \A i \in 1 .. Handled(w) : handled[w][i] = sent[w][i]
        /\ cur[w] \in UIReq => cur[w] = sent[w][Taken(w)]
        /\ \A i \in 1 .. Len(uiReqs[w]) : uiReqs[w][i] = sent[w][Taken(w) + i]
        /\ Sending(w) = 1 => Len(sent[w]) > 0 /\ main.req = sent[w][Len(sent[w])]
    BY DEF Positions
  <2>2. cur'[w] \in UIReq => cur'[w] = cur[w]
    OBVIOUS
  <2> QED
    BY <1>1, <2>1, <2>2
<1> QED
  BY <1>1, <1>2, PostsKept

\* The result of a one-shot stands between those of the workers and moves none.
LEMMA PostOneShotOrder ==
  ASSUME Types, Positions, Posts, NEW o \in OneShot, PostOneShot(o)
  PROVE  Positions' /\ Posts'
<1>1. /\ UNCHANGED <<main, handled, sent, uiReqs, cur>>
      /\ results' = Append(results, [worker |-> Idle, req |-> o])
  BY DEF PostOneShot, mainVars, workerVars
<1>2. /\ Len(results) \in Nat /\ Len(results') = Len(results) + 1
      /\ \A i \in 1 .. Len(results) : results'[i] = results[i]
      /\ results'[Len(results) + 1].worker = Idle
  <2>1. [worker |-> Idle, req |-> o] \in Result
    BY DEF Result
  <2> QED
    BY <1>1, <2>1, ResultsTyped, AppendProperties
<1>3. \A w \in Worker, i \in 1 .. Len(results') :
        results'[i].worker = w => i \in 1 .. Len(results) /\ results'[i] = results[i]
  BY <1>2, ConnWorkerAssumption
<1>4. \A w \in Worker : /\ Handled(w)' = Handled(w) /\ Answered(w)' = Answered(w)
                        /\ Taken(w)' = Taken(w) /\ Sending(w)' = Sending(w)
  BY <1>1 DEF Handled, Answered, Taken, Sending
<1>5. Positions'
  BY <1>1, <1>4 DEF Positions
<1>6. \A w \in Worker : \A i \in 1 .. Len(results') :
        results'[i].worker = w =>
          \E p \in Handled(w)' + 1 .. Answered(w)' : results'[i].req = sent'[w][p]
  BY <1>1, <1>3, <1>4 DEF Posts
<1>7. \A w \in Worker : \A p \in Handled(w)' + 1 .. Answered(w)' :
        \E i \in 1 .. Len(results') :
          results'[i].worker = w /\ results'[i].req = sent'[w][p]
  <2> SUFFICES ASSUME NEW w \in Worker, NEW p \in Handled(w) + 1 .. Answered(w)
               PROVE  \E i \in 1 .. Len(results') :
                        results'[i].worker = w /\ results'[i].req = sent[w][p]
    BY <1>1, <1>4
  <2>1. PICK i \in 1 .. Len(results) : results[i].worker = w /\ results[i].req = sent[w][p]
    BY DEF Posts
  <2> QED
    BY <1>2, <2>1
<1>8. \A w \in Worker : \A i, j \in 1 .. Len(results') :
        i < j /\ results'[i].worker = w /\ results'[j].worker = w =>
          \A p, q \in Handled(w)' + 1 .. Answered(w)' :
            results'[i].req = sent'[w][p] /\ results'[j].req = sent'[w][q] => p < q
  BY <1>1, <1>3, <1>4, PostedInOrder
<1> QED
  BY <1>5, <1>6, <1>7, <1>8 DEF Posts

\* To take it moves none either.
LEMMA PollOneShotOrder ==
  ASSUME Types, Positions, Posts, PollOneShot
  PROVE  Positions' /\ Posts'
<1>1. /\ UNCHANGED <<main, handled, sent, uiReqs, cur>>
      /\ results # <<>> /\ results[1].worker = Idle /\ results' = Tail(results)
  BY DEF PollOneShot, mainVars, workerVars
<1>2. /\ Len(results) \in Nat \ {0} /\ Len(results') = Len(results) - 1
      /\ \A i \in 1 .. Len(results') : results'[i] = results[i + 1]
  BY <1>1, ResultsTyped, HeadTailProperties, EmptySeq
<1>3. \A w \in Worker : /\ Handled(w)' = Handled(w) /\ Answered(w)' = Answered(w)
                        /\ Taken(w)' = Taken(w) /\ Sending(w)' = Sending(w)
  BY <1>1 DEF Handled, Answered, Taken, Sending
<1>4. Positions'
  BY <1>1, <1>3 DEF Positions
<1>5. \A i \in 1 .. Len(results') : i + 1 \in 1 .. Len(results)
  BY <1>2
<1>6. \A w \in Worker : \A i \in 1 .. Len(results') :
        results'[i].worker = w =>
          \E p \in Handled(w)' + 1 .. Answered(w)' : results'[i].req = sent'[w][p]
  BY <1>1, <1>2, <1>3, <1>5 DEF Posts
<1>7. \A w \in Worker : \A p \in Handled(w)' + 1 .. Answered(w)' :
        \E i \in 1 .. Len(results') :
          results'[i].worker = w /\ results'[i].req = sent'[w][p]
  <2> SUFFICES ASSUME NEW w \in Worker, NEW p \in Handled(w) + 1 .. Answered(w)
               PROVE  \E i \in 1 .. Len(results') :
                        results'[i].worker = w /\ results'[i].req = sent[w][p]
    BY <1>1, <1>3
  <2>1. PICK i \in 1 .. Len(results) : results[i].worker = w /\ results[i].req = sent[w][p]
    BY DEF Posts
  <2>2. i # 1
    BY <1>1, <2>1, ConnWorkerAssumption
  <2>3. i - 1 \in 1 .. Len(results') /\ results'[i - 1] = results[i]
    BY <1>2, <2>2
  <2> QED
    BY <2>1, <2>3
<1>8. \A w \in Worker : \A i, j \in 1 .. Len(results') :
        i < j /\ results'[i].worker = w /\ results'[j].worker = w =>
          \A p, q \in Handled(w)' + 1 .. Answered(w)' :
            results'[i].req = sent'[w][p] /\ results'[j].req = sent'[w][q] => p < q
  <2> SUFFICES ASSUME NEW w \in Worker,
                      NEW i \in 1 .. Len(results'), NEW j \in 1 .. Len(results'),
                      i < j, results'[i].worker = w, results'[j].worker = w,
                      NEW p \in Handled(w) + 1 .. Answered(w),
                      NEW q \in Handled(w) + 1 .. Answered(w),
                      results'[i].req = sent[w][p], results'[j].req = sent[w][q]
               PROVE  p < q
    BY <1>1, <1>3
  <2>1. /\ i + 1 \in 1 .. Len(results) /\ j + 1 \in 1 .. Len(results) /\ i + 1 < j + 1
        /\ results'[i] = results[i + 1] /\ results'[j] = results[j + 1]
    BY <1>2, <1>5
  <2> QED
    BY <2>1, PostedInOrder
<1> QED
  BY <1>4, <1>6, <1>7, <1>8 DEF Posts

\* Requests and answers keep their order.
LEMMA OrderStep == Types /\ Positions /\ Posts /\ [Next]_vars => Positions' /\ Posts'
<1> SUFFICES ASSUME Types, Positions, Posts, [Next]_vars PROVE Positions' /\ Posts'
  OBVIOUS
<1> USE DEF mainVars, workerVars, callerVars
<1>1. CASE UNCHANGED <<main, handled, sent, uiReqs, results, cur>>
  <2>1. \A w \in Worker : Sending(w)' = Sending(w)
    BY <1>1 DEF Sending
  <2> QED
    BY <1>1, <2>1, OtherwiseSameOrder
<1>2. ASSUME NEW w \in Worker, NEW r \in UIReq, BeginSend(w, r) PROVE Positions' /\ Posts'
  BY <1>2, BeginSendOrder
<1>3. CASE EndSend
  BY <1>3, EndSendOrder
<1>4. CASE PollResult
  BY <1>4, PollResultOrder
<1>5. ASSUME (\E w \in Worker : BeginStop(w)) \/ EndStop PROVE Positions' /\ Posts'
  <2>1. /\ main.op # "sending" /\ main'.op # "sending"
        /\ UNCHANGED <<handled, sent, uiReqs, results, cur>>
    BY <1>5 DEF BeginStop, EndStop, Free
  <2>2. \A w \in Worker : Sending(w)' = 0 /\ Sending(w) = 0
    BY <2>1 DEF Sending
  <2> QED
    BY <2>1, <2>2, OtherwiseSameOrder
<1>6. ASSUME NEW w \in Worker, WorkerStep(w) PROVE Positions' /\ Posts'
  <2>1. CASE TakeUI(w) /\ pc[w] \in {"poll", "select"}
    <3>1. cur[w] \notin UIReq
      BY <2>1, ConnWorkerAssumption DEF Types, TypeOK
    <3> QED
      BY <2>1, <3>1, TakeUIOrder
  <2>2. CASE FinishUI(w)
    BY <2>2, FinishUIOrder
  <2>3. CASE SelectSQL(w) \/ FinishSQL(w)
    <3>1. /\ UNCHANGED <<main, handled, sent, uiReqs, results>>
          /\ \A v \in Worker : v # w => cur'[v] = cur[v]
      BY <2>3 DEF SelectSQL, FinishSQL, Types, TypeOK
    <3>2. cur[w] \notin UIReq
      BY <2>3, ConnWorkerAssumption DEF SelectSQL, FinishSQL, Types, TypeOK
    <3>3. cur'[w] \notin UIReq
      <4>1. CASE SelectSQL(w)
        <5>1. sqlReqs[w] # <<>> /\ sqlReqs[w] \in Seq(SQLReq)
          BY <4>1 DEF SelectSQL, Types, TypeOK
        <5>2. Head(sqlReqs[w]) \in SQLReq
          BY <5>1, QueueTypes
        <5> QED
          BY <4>1, <5>2, ConnWorkerAssumption DEF SelectSQL, Types, TypeOK
      <4>2. CASE FinishSQL(w)
        BY <4>2, ConnWorkerAssumption DEF FinishSQL, Types, TypeOK
      <4> QED
        BY <2>3, <4>1, <4>2
    <3>4. \A v \in Worker : Sending(v)' = Sending(v)
      BY <3>1 DEF Sending
    <3>5. \A v \in Worker : cur'[v] = cur[v] \/ {cur[v], cur'[v]} \cap UIReq = {}
      BY <3>1, <3>2, <3>3
    <3> QED
      BY <3>1, <3>4, <3>5, OtherwiseSameOrder
  <2> QED
    BY <1>1, <1>6, <2>1, <2>2, <2>3 DEF WorkerStep, PollUI, SelectUI, SelectDone
<1>7. ASSUME NEW o \in OneShot, PostOneShot(o) PROVE Positions' /\ Posts'
  BY <1>7, PostOneShotOrder
<1>8. CASE PollOneShot
  BY <1>8, PollOneShotOrder
<1> QED
  BY <1>1, <1>2, <1>3, <1>4, <1>5, <1>6, <1>7, <1>8
  DEF Next, vars, MainStep, PollSkipped, StartOneShot, Arrive, CallerSend, CallerReturn,
      Disconnect

-----------------------------------------------------------------------------
(* Theorems *)

\* Every step keeps the invariant.
LEMMA Inductive == IInv /\ [Next]_vars => IInv'
<1> SUFFICES ASSUME IInv, [Next]_vars PROVE IInv'
  OBVIOUS
<1>1. Types'
  <2>1. CASE UNCHANGED vars
    BY <2>1 DEF IInv, Types, TypeOK, StopCancels, vars, mainVars, workerVars, callerVars
  <2>2. CASE Next
    BY <2>2, MainTypes, WorkerTypes, CallerTypes, OneShotTypes DEF IInv, Next
  <2> QED
    BY <2>1, <2>2
<1>2. Overtaking' /\ SQLPlaces' /\ Positions' /\ Posts'
  BY OvertakingStep, SQLPlacesStep, OrderStep DEF IInv
<1> QED
  BY <1>1, <1>2 DEF IInv

\* Every reachable state satisfies the inductive invariant.
THEOREM Invariant == Spec => []IInv
  BY InitIInv, Inductive, PTL DEF Spec

\* Types; whatever the capacities, no channel holds more than its own.
THEOREM TypeCorrect == Spec => []TypeOK
<1>1. IInv => TypeOK
  BY DEF IInv, Types
<1> QED
  BY <1>1, Invariant, PTL

\* However many SQL requests wait, a UI request is overtaken by one at most.
THEOREM OvertakenOnce == Spec => []UIOvertakenOnce
<1>1. IInv => UIOvertakenOnce
  BY DEF IInv, Overtaking, UIOvertakenOnce
<1> QED
  BY <1>1, Invariant, PTL

\* No SQL request is answered while it is still queued or in hand, so none is
\* answered twice.
THEOREM AnsweredOnce == Spec => []SQLAnsweredOnce
<1>1. IInv => SQLAnsweredOnce
  <2> SUFFICES ASSUME IInv, NEW r \in replied, NEW w \in Worker
               PROVE  cur[w] # r /\ r \notin Range(sqlReqs[w])
    BY DEF SQLAnsweredOnce
  <2>1. r \in SQLReq
    BY DEF IInv, Types, TypeOK
  <2> QED
    BY <2>1 DEF IInv, SQLPlaces
<1> QED
  BY <1>1, Invariant, PTL

\* What the main thread has taken of a worker's answers is the answers to the
\* first requests sent to it, in the order sent: none is lost, repeated or
\* overtaken, whatever the other workers post into the shared channel.
AnswersInOrder ==
  \A w \in Worker :
    /\ Len(handled[w]) <= Len(sent[w])
    /\ \A i \in 1 .. Len(handled[w]) : handled[w][i] = sent[w][i]

\* The answers taken of a worker are those to its first requests, in order.
THEOREM UIAnswersInOrder == Spec => []AnswersInOrder
<1>1. IInv => AnswersInOrder
  <2> SUFFICES ASSUME IInv, NEW w \in Worker
               PROVE  /\ Len(handled[w]) <= Len(sent[w])
                      /\ \A i \in 1 .. Len(handled[w]) : handled[w][i] = sent[w][i]
    BY DEF AnswersInOrder
  <2>1. /\ Handled(w) \in Nat /\ Answered(w) \in Int /\ Taken(w) \in Int
        /\ Len(sent[w]) \in Nat /\ Len(uiReqs[w]) \in Nat /\ Sending(w) \in {0, 1}
        /\ Taken(w) + Len(uiReqs[w]) + Sending(w) = Len(sent[w])
        /\ Answered(w) <= Taken(w)
    BY Numbers DEF IInv
  <2>2. /\ Handled(w) <= Answered(w)
        /\ \A i \in 1 .. Handled(w) : handled[w][i] = sent[w][i]
    BY DEF IInv, Positions
  <2>3. Handled(w) <= Len(sent[w])
    BY <2>1, <2>2
  <2> QED
    BY <2>2, <2>3 DEF Handled
<1> QED
  BY <1>1, Invariant, PTL

-----------------------------------------------------------------------------
(* Requests of several workers *)

\* Finitely many requests have been sent, and each to one worker only.
SentApart ==
  /\ IsFiniteSet(AllSent)
  /\ \A u, v \in Worker : u # v => Range(sent[u]) \cap Range(sent[v]) = {}

\* Nothing is sent at first.
LEMMA InitSentApart == Init => SentApart
<1> SUFFICES ASSUME Init PROVE SentApart
  OBVIOUS
<1>1. \A w \in Worker : Range(sent[w]) = {}
  BY EmptySeq DEF Init, Range
<1>2. AllSent = {}
  BY <1>1 DEF AllSent
<1> QED
  BY <1>1, <1>2, FS_EmptySet DEF SentApart

\* Only a request that was sent to nobody is sent.
LEMMA SentApartStep ==
  ASSUME Types, SentApart, [Next]_vars
  PROVE  SentApart'
<1>1. CASE sent' = sent
  BY <1>1 DEF SentApart, AllSent
<1>2. ASSUME NEW u \in Worker, NEW r \in UIReq, BeginSend(u, r)
      PROVE  SentApart'
  <2>1. /\ r \notin AllSent /\ sent[u] \in Seq(UIReq)
        /\ sent'[u] = Append(sent[u], r)
        /\ \A w \in Worker : w # u => sent'[w] = sent[w]
    BY <1>2 DEF BeginSend, Types, TypeOK
  <2>2. Range(sent'[u]) = Range(sent[u]) \cup {r}
    <3>1. /\ DOMAIN sent[u] = 1 .. Len(sent[u]) /\ Len(sent[u]) \in Nat
          /\ DOMAIN sent'[u] = 1 .. Len(sent[u]) + 1
      BY <2>1, LenProperties, AppendProperties
    <3>2. /\ \A i \in 1 .. Len(sent[u]) : sent'[u][i] = sent[u][i]
          /\ sent'[u][Len(sent[u]) + 1] = r
      BY <2>1, AppendProperties
    <3> QED
      BY <3>1, <3>2 DEF Range
  <2>3. AllSent' = AllSent \cup {r}
    BY <2>1, <2>2 DEF AllSent
  <2>4. IsFiniteSet(AllSent')
    BY <2>3, FS_AddElement DEF SentApart
  <2>5. \A w \in Worker : r \notin Range(sent[w])
    BY <2>1 DEF AllSent
  <2>6. ASSUME NEW v \in Worker, NEW w \in Worker, v # w
        PROVE  Range(sent'[v]) \cap Range(sent'[w]) = {}
    <3>1. Range(sent[v]) \cap Range(sent[w]) = {}
      BY <2>6 DEF SentApart
    <3>2. /\ v # u => sent'[v] = sent[v]
          /\ w # u => sent'[w] = sent[w]
      BY <2>1
    <3> QED
      BY <2>2, <2>5, <2>6, <3>1, <3>2
  <2> QED
    BY <2>4, <2>6 DEF SentApart
<1> QED
  BY <1>1, <1>2
  DEF Next, vars, mainVars, MainStep, EndSend, PollSkipped, PollResult, EndStop, BeginStop,
      WorkerStep, PollUI, TakeUI, SelectUI, SelectSQL, SelectDone, FinishUI, FinishSQL,
      Arrive, CallerSend, CallerReturn, Disconnect, PollOneShot, StartOneShot,
      PostOneShot

\* Every reachable state satisfies it.
LEMMA SentToOne == Spec => []SentApart
<1>1. IInv => Types
  BY DEF IInv
<1> QED
  BY <1>1, InitSentApart, SentApartStep, Invariant, PTL DEF Spec

\* Taking from a sequence what was handled of it.
LEMMA Rest ==
  ASSUME NEW s \in Seq(UIReq), NEW h \in 0 .. Len(s)
  PROVE  /\ \A r \in UIReq : SubSeq(Append(s, r), h + 1, Len(Append(s, r)))
                             = Append(SubSeq(s, h + 1, Len(s)), r)
         /\ h < Len(s) => /\ SubSeq(s, h + 1, Len(s)) # <<>>
                         /\ Head(SubSeq(s, h + 1, Len(s))) = s[h + 1]
                         /\ Tail(SubSeq(s, h + 1, Len(s))) = SubSeq(s, h + 2, Len(s))
         /\ Range(SubSeq(s, h + 1, Len(s))) = {s[i] : i \in h + 1 .. Len(s)}
<1>1. Len(s) \in Nat /\ h \in Nat /\ \A i \in 1 .. Len(s) : s[i] \in UIReq
  BY LenProperties, ElementOfSeq
<1> DEFINE t == SubSeq(s, h + 1, Len(s))
<1>2. \A i \in h + 1 .. Len(s) : s[i] \in UIReq
  BY <1>1
<1>3. /\ t \in Seq(UIReq) /\ Len(t) = Len(s) - h
      /\ \A i \in 1 .. Len(s) - h : t[i] = s[h + i]
  <2>1. h + 1 \in Int /\ Len(s) \in Int
    BY <1>1
  <2>2. /\ t \in Seq(UIReq)
        /\ Len(t) = IF h + 1 <= Len(s) THEN Len(s) - (h + 1) + 1 ELSE 0
        /\ \A i \in 1 .. Len(s) - (h + 1) + 1 : t[i] = s[h + 1 + i - 1]
    BY <1>2, <2>1, SubSeqProperties
  <2> QED
    BY <1>1, <2>2
<1> HIDE DEF t
<1>4. ASSUME NEW r \in UIReq
      PROVE  SubSeq(Append(s, r), h + 1, Len(Append(s, r))) = Append(t, r)
  <2> DEFINE a == Append(s, r)
             b == SubSeq(a, h + 1, Len(a))
             c == Append(t, r)
  <2>1. /\ a \in Seq(UIReq) /\ Len(a) = Len(s) + 1
        /\ \A i \in 1 .. Len(s) : a[i] = s[i]
        /\ a[Len(s) + 1] = r
    BY AppendProperties
  <2>2. /\ c \in Seq(UIReq) /\ Len(c) = Len(t) + 1
        /\ \A i \in 1 .. Len(t) : c[i] = t[i]
        /\ c[Len(t) + 1] = r
    BY <1>3, AppendProperties
  <2> HIDE DEF a, c
  <2>3. \A i \in h + 1 .. Len(a) : a[i] \in UIReq
    <3>1. \A i \in 1 .. Len(a) : a[i] \in UIReq
      BY <2>1, ElementOfSeq
    <3> QED
      BY <1>1, <2>1, <3>1
  <2>4. /\ b \in Seq(UIReq)
        /\ Len(b) = IF h + 1 <= Len(a) THEN Len(a) - (h + 1) + 1 ELSE 0
        /\ \A i \in 1 .. Len(a) - (h + 1) + 1 : b[i] = a[h + 1 + i - 1]
    <3>1. h + 1 \in Int /\ Len(a) \in Int
      BY <1>1, <2>1
    <3> QED
      BY <2>3, <3>1, SubSeqProperties
  <2> HIDE DEF b
  <2>5. Len(b) = Len(c) /\ Len(b) = Len(s) - h + 1
    BY <1>1, <1>3, <2>1, <2>2, <2>4
  <2>6. ASSUME NEW i \in 1 .. Len(b)
        PROVE  b[i] = c[i]
    <3>1. b[i] = a[h + i]
      BY <1>1, <2>1, <2>4, <2>5, <2>6
    <3>2. CASE i <= Len(s) - h
      BY <1>1, <1>3, <2>1, <2>2, <2>5, <3>1, <3>2
    <3>3. CASE i = Len(s) - h + 1
      BY <1>1, <1>3, <2>1, <2>2, <2>5, <3>1, <3>3
    <3> QED
      BY <1>1, <2>5, <3>2, <3>3
  <2>7. b = c
    BY <2>2, <2>4, <2>5, <2>6, SeqEqual
  <2> QED
    BY <2>7 DEF a, b, c
<1>5. ASSUME h < Len(s)
      PROVE  t # <<>> /\ Head(t) = s[h + 1] /\ Tail(t) = SubSeq(s, h + 2, Len(s))
  <2>1. h + 1 \in 1 .. Len(s) /\ Len(s) \in h + 1 .. Len(s) /\ h + 1 + 1 = h + 2
    BY <1>1, <1>5
  <2>2. Head(t) = s[h + 1] /\ Tail(t) = SubSeq(s, h + 1 + 1, Len(s))
    BY <2>1, HeadTailOfSubSeq DEF t
  <2>3. t # <<>>
    BY <1>1, <1>3, <1>5, EmptySeq
  <2> QED
    BY <2>1, <2>2, <2>3
<1>6. Range(t) = {s[i] : i \in h + 1 .. Len(s)}
  <2>1. DOMAIN t = 1 .. Len(s) - h
    BY <1>3, LenProperties
  <2>2. \A i \in h + 1 .. Len(s) : i - h \in 1 .. Len(s) - h /\ t[i - h] = s[i]
    BY <1>1, <1>3
  <2>3. \A i \in 1 .. Len(s) - h : h + i \in h + 1 .. Len(s) /\ t[i] = s[h + i]
    BY <1>1, <1>3
  <2>4. Range(t) = {t[i] : i \in 1 .. Len(s) - h}
    BY <2>1 DEF Range
  <2>5. \A i \in h + 1 .. Len(s) : s[i] \in {t[j] : j \in 1 .. Len(s) - h}
    BY <2>2
  <2>6. \A i \in 1 .. Len(s) - h : t[i] \in {s[j] : j \in h + 1 .. Len(s)}
    BY <2>3
  <2> QED
    BY <2>4, <2>5, <2>6
<1> QED
  BY <1>4, <1>5, <1>6 DEF t

\* What is pending of a worker, and that it is not over.
LEMMA PendingOf ==
  ASSUME IInv, NEW w \in Worker
  PROVE  /\ sent[w] \in Seq(UIReq) /\ Handled(w) \in 0 .. Len(sent[w])
         /\ Pending(w) = SubSeq(sent[w], Handled(w) + 1, Len(sent[w]))
         /\ Range(Pending(w)) = {sent[w][i] : i \in Handled(w) + 1 .. Len(sent[w])}
         /\ Answered(w) <= Len(sent[w])
<1>1. /\ sent[w] \in Seq(UIReq) /\ Len(sent[w]) \in Nat /\ Len(uiReqs[w]) \in Nat
      /\ Handled(w) \in Nat /\ Sending(w) \in {0, 1} /\ Taken(w) \in Int
      /\ Answered(w) \in Int /\ Answered(w) <= Taken(w)
      /\ Taken(w) + Len(uiReqs[w]) + Sending(w) = Len(sent[w])
  BY Numbers DEF IInv
<1>2. Handled(w) <= Answered(w)
  BY DEF IInv, Positions
<1>3. Handled(w) \in 0 .. Len(sent[w]) /\ Answered(w) <= Len(sent[w])
  BY <1>1, <1>2
<1>4. Pending(w) = SubSeq(sent[w], Handled(w) + 1, Len(sent[w]))
  BY DEF Pending, Handled
<1> QED
  BY <1>1, <1>3, <1>4, Rest

-----------------------------------------------------------------------------
(* The requests as their order *)

\* Nothing is pending at first.
LEMMA InitOrder == Init => Order!Init
<1> SUFFICES ASSUME Init PROVE Order!Init
  OBVIOUS
<1>1. \A w \in Worker : sent[w] = <<>> /\ handled[w] = <<>>
  BY DEF Init
<1>2. \A w \in Worker : Pending(w) = <<>>
  <2> SUFFICES ASSUME NEW w \in Worker PROVE Pending(w) = <<>>
    OBVIOUS
  <2>1. Len(sent[w]) = 0 /\ Len(handled[w]) = 0
    BY <1>1, EmptySeq
  <2> QED
    BY <2>1, SubSeqEmpty DEF Pending
<1> QED
  BY <1>2 DEF Init, Order!Init

\* To send is to request.
LEMMA RequestRefines ==
  ASSUME IInv, NEW w \in Worker, NEW r \in UIReq, BeginSend(w, r)
  PROVE  Order!Request(w, r)
<1>1. /\ r \notin AllSent /\ handled' = handled
      /\ sent'[w] = Append(sent[w], r)
      /\ \A v \in Worker : v # w => sent'[v] = sent[v]
  BY DEF BeginSend, IInv, Types, TypeOK
<1>2. r \notin Order!Made
  <2> SUFFICES ASSUME NEW v \in Worker, r \in Range(Pending(v) \o handled[v])
               PROVE  FALSE
    BY DEF Order!Made, Order!Range, Range
  <2>1. /\ sent[v] \in Seq(UIReq) /\ Len(sent[v]) \in Nat
        /\ DOMAIN sent[v] = 1 .. Len(sent[v])
        /\ Handled(v) \in 0 .. Len(sent[v])
        /\ Pending(v) = SubSeq(sent[v], Handled(v) + 1, Len(sent[v]))
        /\ Range(Pending(v)) = {sent[v][i] : i \in Handled(v) + 1 .. Len(sent[v])}
    BY PendingOf, LenProperties
  <2>2. /\ handled[v] \in Seq(UIReq) /\ Len(handled[v]) = Handled(v)
        /\ \A i \in 1 .. Handled(v) : handled[v][i] = sent[v][i]
    BY Numbers DEF IInv, Positions, Handled
  <2>3. Pending(v) \in Seq(UIReq)
    <3>1. \A i \in Handled(v) + 1 .. Len(sent[v]) : sent[v][i] \in UIReq
      BY <2>1, ElementOfSeq
    <3>2. Handled(v) + 1 \in Int /\ Len(sent[v]) \in Int
      BY <2>1
    <3> QED
      BY <2>1, <3>1, <3>2, SubSeqProperties
  <2>4. PICK i \in DOMAIN (Pending(v) \o handled[v]) : (Pending(v) \o handled[v])[i] = r
    BY DEF Range
  <2> DEFINE q == Pending(v)
             h == handled[v]
  <2>5. /\ q \o h \in Seq(UIReq) /\ Len(q \o h) = Len(q) + Len(h)
        /\ DOMAIN (q \o h) = 1 .. Len(q) + Len(h)
        /\ Len(q) \in Nat /\ Len(h) \in Nat
        /\ DOMAIN q = 1 .. Len(q)
        /\ \A k \in 1 .. Len(q) + Len(h) :
             (q \o h)[k] = IF k <= Len(q) THEN q[k] ELSE h[k - Len(q)]
    <3>1. q \in Seq(UIReq) /\ h \in Seq(UIReq)
      BY <2>2, <2>3
    <3> HIDE DEF q, h
    <3>2. /\ q \o h \in Seq(UIReq) /\ Len(q \o h) = Len(q) + Len(h)
          /\ \A k \in 1 .. Len(q) + Len(h) :
               (q \o h)[k] = IF k <= Len(q) THEN q[k] ELSE h[k - Len(q)]
      BY <3>1, ConcatProperties
    <3>3. /\ DOMAIN (q \o h) = 1 .. Len(q \o h) /\ DOMAIN q = 1 .. Len(q)
          /\ Len(q) \in Nat /\ Len(h) \in Nat
      BY <3>1, <3>2, LenProperties
    <3> QED
      BY <3>2, <3>3
  <2>6. r \in Range(sent[v])
    <3>1. CASE i <= Len(q)
      <4>1. q[i] = r /\ i \in DOMAIN q
        BY <2>4, <2>5, <3>1
      <4>2. r \in Range(q)
        BY <4>1 DEF Range
      <4>3. PICK k \in Handled(v) + 1 .. Len(sent[v]) : sent[v][k] = r
        BY <2>1, <4>2
      <4>4. k \in DOMAIN sent[v]
        BY <2>1, <4>3
      <4> QED
        BY <4>3, <4>4 DEF Range
    <3>2. CASE i > Len(q)
      <4>1. /\ h[i - Len(q)] = r /\ i - Len(q) \in 1 .. Len(h)
        BY <2>4, <2>5, <3>2
      <4>2. i - Len(q) \in 1 .. Handled(v)
        BY <2>2, <4>1
      <4>3. sent[v][i - Len(q)] = r
        BY <2>2, <4>1, <4>2
      <4>4. i - Len(q) \in DOMAIN sent[v]
        BY <2>1, <4>2
      <4> QED
        BY <4>3, <4>4 DEF Range
    <3> QED
      BY <2>4, <2>5, <3>1, <3>2
  <2> QED
    BY <1>1, <2>6 DEF AllSent
<1>3. /\ Pending(w)' = Append(Pending(w), r)
      /\ \A v \in Worker : v # w => Pending(v)' = Pending(v)
  <2>1. Pending(w)' = SubSeq(sent'[w], Handled(w) + 1, Len(sent'[w]))
    BY <1>1 DEF Pending, Handled
  <2>2. /\ sent[w] \in Seq(UIReq) /\ Handled(w) \in 0 .. Len(sent[w])
        /\ Pending(w) = SubSeq(sent[w], Handled(w) + 1, Len(sent[w]))
    BY PendingOf
  <2>3. Pending(w)' = Append(Pending(w), r)
    BY <1>1, <2>1, <2>2, Rest
  <2> QED
    BY <1>1, <2>3 DEF Pending
<1>4. [v \in Worker |-> Pending(v)]'
        = [[v \in Worker |-> Pending(v)] EXCEPT ![w] = Append(@, r)]
  BY <1>3
<1> QED
  BY <1>1, <1>2, <1>4 DEF Order!Request

\* To take a result is to be answered: it is the answer to the oldest request
\* pending of its worker.
LEMMA AnswerRefines ==
  ASSUME IInv, PollResult
  PROVE  \E w \in Worker : Order!Answer(w)
<1>1. PICK w \in Worker : w = Head(results).worker
  BY PollTypes DEF PollResult, IInv
<1>2. /\ handled'[w] = Append(handled[w], Head(results).req)
      /\ \A v \in Worker : v # w => handled'[v] = handled[v]
      /\ handled' = [handled EXCEPT ![w] = Append(@, Head(results).req)]
      /\ UNCHANGED <<sent, main, uiReqs, cur>>
      /\ Head(results).req \in UIReq
  <2>1. Head(results) \in [worker : Worker, req : UIReq]
    BY PollTypes DEF PollResult, IInv
  <2> QED
    BY <1>1, <2>1 DEF PollResult, IInv, Types, TypeOK, workerVars
<1>3. Types' /\ Positions'
  BY PollResultOrder, Inductive DEF IInv, Next, MainStep
<1>4. /\ sent[w] \in Seq(UIReq) /\ Handled(w) \in 0 .. Len(sent[w])
      /\ Pending(w) = SubSeq(sent[w], Handled(w) + 1, Len(sent[w]))
  BY PendingOf
<1>5. /\ Len(handled'[w]) = Handled(w) + 1 /\ Handled(w) \in Nat
      /\ handled'[w][Handled(w) + 1] = Head(results).req
  BY <1>2, AppendProperties, LenProperties, Numbers DEF IInv, Handled
<1>6. Handled(w) < Len(sent[w]) /\ Head(results).req = sent[w][Handled(w) + 1]
  <2>1. /\ Len(handled'[w]) <= Answered(w)'
        /\ \A i \in 1 .. Len(handled'[w]) : handled'[w][i] = sent'[w][i]
    BY <1>3 DEF Positions, Handled
  <2>2. Answered(w)' = Answered(w)
    BY <1>2 DEF Answered, Taken, Sending
  <2>3. /\ Answered(w) \in Int /\ Answered(w) <= Len(sent[w]) /\ Len(sent[w]) \in Nat
    BY PendingOf, Numbers DEF IInv
  <2> QED
    BY <1>2, <1>5, <2>1, <2>2, <2>3
<1>7. /\ Pending(w) # <<>> /\ Head(Pending(w)) = Head(results).req
      /\ Tail(Pending(w)) = SubSeq(sent[w], Handled(w) + 2, Len(sent[w]))
  BY <1>4, <1>6, Rest
<1>8. /\ Pending(w)' = Tail(Pending(w))
      /\ \A v \in Worker : v # w => Pending(v)' = Pending(v)
  <2>1. Pending(w)' = SubSeq(sent[w], Len(handled'[w]) + 1, Len(sent[w]))
    BY <1>2 DEF Pending
  <2>2. Len(handled'[w]) + 1 = Handled(w) + 2
    BY <1>5
  <2> QED
    BY <1>2, <1>7, <2>1, <2>2 DEF Pending
<1>9. [v \in Worker |-> Pending(v)]'
        = [[v \in Worker |-> Pending(v)] EXCEPT ![w] = Tail(@)]
  BY <1>8
<1>10. handled' = [handled EXCEPT ![w] = Append(@, Head([v \in Worker |-> Pending(v)][w]))]
  BY <1>2, <1>7
<1>11. [v \in Worker |-> Pending(v)][w] # <<>>
  BY <1>7
<1> QED
  BY <1>9, <1>10, <1>11 DEF Order!Answer

\* Any other step leaves the requests of every connection as they are.
LEMMA NextRefinesOrder ==
  IInv /\ [Next]_vars => [Order!Next]_<<[w \in Worker |-> Pending(w)], handled>>
<1> SUFFICES ASSUME IInv, [Next]_vars
             PROVE  [Order!Next]_<<[w \in Worker |-> Pending(w)], handled>>
  OBVIOUS
<1>1. CASE UNCHANGED <<sent, handled>>
  BY <1>1 DEF Pending
<1>2. ASSUME NEW w \in Worker, NEW r \in UIReq, BeginSend(w, r)
      PROVE  Order!Next
  BY <1>2, RequestRefines DEF Order!Next
<1>3. CASE PollResult
  BY <1>3, AnswerRefines DEF Order!Next
<1> QED
  BY <1>1, <1>2, <1>3
  DEF Next, vars, mainVars, MainStep, EndSend, PollSkipped, EndStop, BeginStop,
      WorkerStep, PollUI, TakeUI, SelectUI, SelectSQL, SelectDone, FinishUI, FinishSQL,
      Arrive, CallerSend, CallerReturn, Disconnect, PollOneShot, StartOneShot,
      PostOneShot

\* Two channels per worker, a preference between them and one results channel for
\* all: to the main thread each connection is one queue, answering every request
\* once and in order.
THEOREM ImplementsOrder == Spec => ImplementsRequestOrder
  BY InitOrder, NextRefinesOrder, Invariant, PTL
     DEF Spec, ImplementsRequestOrder, Order!Spec

-----------------------------------------------------------------------------
(* The one-shots *)

\* What a one-shot posted stands once among the results, until it is taken.
PostedOnce ==
  /\ \A i \in 1 .. Len(results) : results[i].worker = Idle =>
       results[i].req \in OneShot /\ oneShot[results[i].req] = "posted"
  /\ \A i, j \in 1 .. Len(results) :
       results[i].worker = Idle /\ results[j].worker = Idle
         /\ results[i].req = results[j].req => i = j

\* A one-shot posts one result.
LEMMA PostedOnceStep ==
  ASSUME Types, PostedOnce, [Next]_vars
  PROVE  PostedOnce'
<1>0. oneShot \in [OneShot -> {"idle", "running", "posted", "taken"}]
  BY DEF Types, TypeOK
<1>1. CASE UNCHANGED <<results, oneShot>>
  BY <1>1 DEF PostedOnce
<1>2. ASSUME NEW o \in OneShot, StartOneShot(o) PROVE PostedOnce'
  <2>1. /\ results' = results /\ oneShot[o] = "idle"
        /\ \A q \in OneShot : q # o => oneShot'[q] = oneShot[q]
    BY <1>0, <1>2 DEF StartOneShot
  <2>2. \A i \in 1 .. Len(results) : results[i].worker = Idle => results[i].req # o
    BY <2>1 DEF PostedOnce
  <2> QED
    BY <2>1, <2>2 DEF PostedOnce
<1>3. ASSUME NEW e \in Result, results' = Append(results, e),
             e.worker # Idle, oneShot' = oneShot
      PROVE  PostedOnce'
  <2>1. /\ Len(results) \in Nat /\ Len(results') = Len(results) + 1
        /\ \A i \in 1 .. Len(results) : results'[i] = results[i]
        /\ results'[Len(results) + 1] = e
    BY <1>3, ResultsTyped, AppendProperties
  <2>2. \A i \in 1 .. Len(results') : results'[i].worker = Idle =>
          i \in 1 .. Len(results) /\ results'[i] = results[i]
    BY <1>3, <2>1
  <2> QED
    BY <1>3, <2>2 DEF PostedOnce
<1>4. ASSUME NEW w \in Worker, FinishUI(w) PROVE PostedOnce'
  <2>1. [worker |-> w, req |-> cur[w]] \in Result
    BY <1>4 DEF FinishUI, Result
  <2> QED
    BY <1>3, <1>4, <2>1, ConnWorkerAssumption DEF FinishUI, Posted
<1>5. ASSUME NEW o \in OneShot, PostOneShot(o) PROVE PostedOnce'
  <2>1. /\ oneShot[o] = "running" /\ oneShot'[o] = "posted"
        /\ \A q \in OneShot : q # o => oneShot'[q] = oneShot[q]
    BY <1>0, <1>5 DEF PostOneShot
  <2>2. /\ Len(results) \in Nat /\ Len(results') = Len(results) + 1
        /\ \A i \in 1 .. Len(results) : results'[i] = results[i]
        /\ results'[Len(results) + 1] = [worker |-> Idle, req |-> o]
    <3>1. [worker |-> Idle, req |-> o] \in Result
      BY DEF Result
    <3> QED
      BY <1>5, <3>1, ResultsTyped, AppendProperties DEF PostOneShot
  <2>3. \A i \in 1 .. Len(results) : results[i].worker = Idle =>
          results[i].req # o /\ results[i].req \in OneShot /\ oneShot[results[i].req] = "posted"
    BY <2>1 DEF PostedOnce
  <2>4. \A i \in 1 .. Len(results') : i \in 1 .. Len(results) \/ i = Len(results) + 1
    BY <2>2
  <2>5. \A i \in 1 .. Len(results') : results'[i].worker = Idle =>
          results'[i].req \in OneShot /\ oneShot'[results'[i].req] = "posted"
    BY <2>1, <2>2, <2>3, <2>4
  <2>6. \A i, j \in 1 .. Len(results') :
          results'[i].worker = Idle /\ results'[j].worker = Idle
            /\ results'[i].req = results'[j].req => i = j
    BY <2>2, <2>3, <2>4 DEF PostedOnce
  <2> QED
    BY <2>5, <2>6 DEF PostedOnce
<1>6. ASSUME results # <<>>, results' = Tail(results)
      PROVE  /\ Len(results) \in Nat /\ Len(results') = Len(results) - 1
             /\ \A i \in 1 .. Len(results') :
                  i + 1 \in 1 .. Len(results) /\ results'[i] = results[i + 1]
             /\ 1 \in 1 .. Len(results) /\ Head(results) = results[1]
  BY <1>6, ResultsTyped, HeadTailProperties, EmptySeq
<1>7. CASE PollResult
  <2>1. results # <<>> /\ results' = Tail(results) /\ oneShot' = oneShot
    BY <1>7 DEF PollResult
  <2>2. /\ Len(results') = Len(results) - 1 /\ Len(results) \in Nat
        /\ \A i \in 1 .. Len(results') :
             i + 1 \in 1 .. Len(results) /\ results'[i] = results[i + 1]
    BY <1>6, <2>1
  <2>3. \A i, j \in 1 .. Len(results') : i + 1 = j + 1 => i = j
    OBVIOUS
  <2> QED
    BY <2>1, <2>2, <2>3 DEF PostedOnce
<1>8. CASE PollOneShot
  <2>1. /\ results # <<>> /\ results' = Tail(results) /\ results[1].worker = Idle
        /\ oneShot' = [oneShot EXCEPT ![results[1].req] = "taken"]
    <3>1. results # <<>> /\ results' = Tail(results)
      BY <1>8 DEF PollOneShot
    <3>2. Head(results) = results[1]
      BY <1>6, <3>1
    <3> QED
      BY <1>8, <3>1, <3>2 DEF PollOneShot
  <2>2. /\ Len(results') = Len(results) - 1 /\ Len(results) \in Nat
        /\ \A i \in 1 .. Len(results') :
             i + 1 \in 1 .. Len(results) /\ results'[i] = results[i + 1]
        /\ 1 \in 1 .. Len(results)
    BY <1>6, <2>1
  <2>3. \A i \in 1 .. Len(results') : results'[i].worker = Idle =>
          results'[i].req \in OneShot /\ results'[i].req # results[1].req
    <3> SUFFICES ASSUME NEW i \in 1 .. Len(results'), results'[i].worker = Idle
                 PROVE  results'[i].req \in OneShot /\ results'[i].req # results[1].req
      OBVIOUS
    <3>1. i + 1 \in 1 .. Len(results) /\ results'[i] = results[i + 1] /\ i + 1 # 1
      BY <2>2
    <3> QED
      BY <2>1, <2>2, <3>1 DEF PostedOnce
  <2>4. \A i \in 1 .. Len(results') : results'[i].worker = Idle =>
          oneShot'[results'[i].req] = oneShot[results'[i].req]
    BY <1>0, <2>1, <2>3
  <2>5. \A i, j \in 1 .. Len(results') : i + 1 = j + 1 => i = j
    OBVIOUS
  <2> QED
    BY <2>2, <2>3, <2>4, <2>5 DEF PostedOnce
<1> QED
  BY <1>1, <1>2, <1>4, <1>5, <1>7, <1>8
  DEF Next, vars, mainVars, MainStep, BeginSend, EndSend, PollSkipped, EndStop, BeginStop,
      WorkerStep, PollUI, TakeUI, SelectUI, SelectSQL, SelectDone, FinishSQL,
      Arrive, CallerSend, CallerReturn, Disconnect

\* Every reachable state satisfies it.
LEMMA OneShotsPostOnce == Spec => []PostedOnce
<1>1. Init => PostedOnce
  BY EmptySeq DEF Init, PostedOnce
<1>2. IInv => Types
  BY DEF IInv
<1> QED
  BY <1>1, <1>2, PostedOnceStep, Invariant, PTL DEF Spec

-----------------------------------------------------------------------------
(* The two channels full *)

\* What is outstanding was sent, so there is finitely much of it.
LEMMA OutstandingIsFinite ==
  ASSUME IInv, SentApart
  PROVE  /\ IsFiniteSet(Outstanding)
         /\ \A w \in Worker : \A p \in Handled(w) + 1 .. Len(sent[w]) :
              sent[w][p] \in Outstanding
<1>1. ASSUME NEW w \in Worker
      PROVE  /\ \A p \in Handled(w) + 1 .. Len(sent[w]) : sent[w][p] \in Range(Pending(w))
             /\ Range(Pending(w)) \subseteq Range(sent[w])
  <2>1. /\ sent[w] \in Seq(UIReq) /\ Handled(w) \in 0 .. Len(sent[w])
        /\ Range(Pending(w)) = {sent[w][i] : i \in Handled(w) + 1 .. Len(sent[w])}
    BY PendingOf
  <2>2. DOMAIN sent[w] = 1 .. Len(sent[w]) /\ Len(sent[w]) \in Nat
    BY <2>1, LenProperties
  <2>3. \A i \in Handled(w) + 1 .. Len(sent[w]) : i \in DOMAIN sent[w]
    BY <2>1, <2>2
  <2>4. \A i \in DOMAIN sent[w] : sent[w][i] \in Range(sent[w])
    BY DEF Range
  <2> QED
    BY <2>1, <2>3, <2>4
<1>2. Outstanding \subseteq AllSent \cup OneShot
  <2> DEFINE P == UNION {Range(Pending(w)) : w \in Worker}
             R == {o \in OneShot : oneShot[o] \in {"running", "posted"}}
  <2>1. P \subseteq AllSent
    BY <1>1 DEF AllSent
  <2>2. R \subseteq OneShot
    OBVIOUS
  <2>3. Outstanding = P \cup R
    BY DEF Outstanding
  <2> HIDE DEF P, R
  <2> QED
    BY <2>1, <2>2, <2>3
<1>3. IsFiniteSet(Outstanding)
  BY <1>2, FS_Subset, FS_Union, ConnWorkerAssumption DEF SentApart
<1> QED
  BY <1>1, <1>3 DEF Outstanding

\* While the main thread waits for the channel of worker w: what the channel
\* holds, what the worker holds and what the main thread holds are the last
\* requests sent to w.
LEMMA WaitPositions ==
  ASSUME IInv, MutualWait, NEW w \in Worker, w = main.worker
  PROVE  /\ Taken(w) \in Int /\ Answered(w) = Taken(w) - 1
         /\ Len(sent[w]) = Taken(w) + UICap + 1
         /\ Handled(w) \in Nat /\ Handled(w) <= Answered(w)
<1>1. /\ Len(uiReqs[w]) \in Nat /\ Taken(w) \in Int /\ Handled(w) \in Nat
      /\ Taken(w) + Len(uiReqs[w]) + Sending(w) = Len(sent[w])
  BY Numbers DEF IInv
<1>2. Sending(w) = 1 /\ Answered(w) = Taken(w) - 1
  BY DEF Sending, MutualWait, Answered
<1>3. Len(uiReqs[w]) <= UICap /\ ~(Len(uiReqs[w]) < UICap) /\ UICap \in Nat
  BY Capacities DEF IInv, Types, TypeOK, MutualWait, UIRoom
<1>4. Handled(w) <= Answered(w)
  BY DEF IInv, Positions
<1> QED
  BY <1>1, <1>2, <1>3, <1>4

\* A worker's result is the answer to a request of its worker, by its position.
LEMMA ResultPosition ==
  ASSUME IInv, NEW i \in 1 .. Len(results), results[i].worker # Idle
  PROVE  /\ results[i].worker \in Worker
         /\ \E p \in Handled(results[i].worker) + 1 .. Answered(results[i].worker) :
              results[i].req = sent[results[i].worker][p]
<1>1. results[i].worker \in Worker
  BY ResultsTyped DEF IInv, Result
<1> QED
  BY <1>1 DEF IInv, Posts

\* Two requests at different positions, or of different workers, differ.
LEMMA PositionsApart ==
  ASSUME IInv, SentApart, NEW u \in Worker, NEW v \in Worker,
         NEW p \in 1 .. Len(sent[u]), NEW q \in 1 .. Len(sent[v]),
         sent[u][p] = sent[v][q]
  PROVE  u = v /\ p = q
<1>1. \A w \in Worker : DOMAIN sent[w] = 1 .. Len(sent[w])
  BY Numbers, LenProperties DEF IInv
<1>2. sent[u][p] \in Range(sent[u]) /\ sent[v][q] \in Range(sent[v])
  BY <1>1 DEF Range
<1>3. u = v
  BY <1>2 DEF SentApart
<1>4. \A i, j \in 1 .. Len(sent[u]) : sent[u][i] = sent[u][j] => i = j
  BY DEF IInv, Positions
<1> QED
  BY <1>3, <1>4

\* While both wait, what is under way are the results in their channel, the
\* request in the worker's hands, those in the worker's channel and the one being
\* sent: all different.
LEMMA BothFull ==
  ASSUME IInv, SentApart, PostedOnce, MutualWait
  PROVE  Cardinality(Outstanding) > UICap + ResCap + 1
<1>0. PICK w \in Worker : w = main.worker
  BY DEF MutualWait, IInv, Types, TypeOK, Free
<1> DEFINE T == Taken(w)
           N == ResCap + UICap + 2
           f == [k \in 1 .. N |->
                   IF k <= ResCap THEN results[k].req ELSE sent[w][T + k - ResCap - 1]]
<1>1. /\ ResCap \in Nat \ {0} /\ UICap \in Nat \ {0} /\ N \in Nat
      /\ Len(results) = ResCap
  BY Capacities DEF MutualWait
<1>2. /\ T \in Int /\ Answered(w) = T - 1 /\ Len(sent[w]) = T + UICap + 1
      /\ Handled(w) \in Nat /\ Handled(w) <= T - 1
  <2>1. /\ Taken(w) \in Int /\ Answered(w) = Taken(w) - 1
        /\ Len(sent[w]) = Taken(w) + UICap + 1
        /\ Handled(w) \in Nat /\ Handled(w) <= Answered(w)
    BY <1>0, WaitPositions
  <2> QED
    BY <2>1
<1> HIDE DEF T
<1>13. ASSUME NEW k \in 1 .. N, k <= ResCap, results[k].worker = Idle
      PROVE  /\ k \in 1 .. Len(results) /\ f[k] = results[k].req
             /\ f[k] \in OneShot /\ oneShot[f[k]] = "posted"
  BY <1>1, <1>13 DEF PostedOnce
<1>14. \A u \in Worker : \A p \in 1 .. Len(sent[u]) : sent[u][p] \in UIReq
  BY Numbers, ElementOfSeq DEF IInv
<1>3. ASSUME NEW k \in 1 .. N, k <= ResCap, results[k].worker # Idle
      PROVE  /\ k \in 1 .. Len(results) /\ f[k] = results[k].req
             /\ \E u \in Worker : \E p \in Handled(u) + 1 .. Answered(u) :
                  /\ u = results[k].worker /\ f[k] = sent[u][p]
                  /\ p \in 1 .. Len(sent[u]) /\ p \in Handled(u) + 1 .. Len(sent[u])
  <2>1. k \in 1 .. Len(results) /\ f[k] = results[k].req
    BY <1>1, <1>3
  <2>2. PICK u \in Worker : u = results[k].worker
    BY <1>3, <2>1, ResultPosition
  <2>3. PICK p \in Handled(u) + 1 .. Answered(u) : results[k].req = sent[u][p]
    BY <1>3, <2>1, <2>2, ResultPosition
  <2>4. /\ Handled(u) \in Nat /\ Answered(u) \in Int /\ Answered(u) <= Len(sent[u])
        /\ Len(sent[u]) \in Nat
    BY PendingOf, Numbers DEF IInv
  <2>5. p \in 1 .. Len(sent[u]) /\ p \in Handled(u) + 1 .. Len(sent[u])
    BY <2>4
  <2> QED
    BY <2>1, <2>2, <2>3, <2>5
<1>4. ASSUME NEW k \in 1 .. N, k > ResCap
      PROVE  /\ T + k - ResCap - 1 \in T .. Len(sent[w])
             /\ T + k - ResCap - 1 \in 1 .. Len(sent[w])
             /\ T + k - ResCap - 1 \in Handled(w) + 1 .. Len(sent[w])
             /\ f[k] = sent[w][T + k - ResCap - 1]
  <2>1. f[k] = sent[w][T + k - ResCap - 1]
    BY <1>1, <1>4
  <2>2. k \in Int /\ k <= ResCap + UICap + 2
    BY <1>1
  <2>3. T + k - ResCap - 1 \in T .. Len(sent[w])
    BY <1>1, <1>2, <1>4, <2>2
  <2>4. /\ T + k - ResCap - 1 \in 1 .. Len(sent[w])
        /\ T + k - ResCap - 1 \in Handled(w) + 1 .. Len(sent[w])
    BY <1>1, <1>2, <2>3
  <2> QED
    BY <2>1, <2>3, <2>4
<1>5. \A k \in 1 .. N : f[k] \in Outstanding
  <2> SUFFICES ASSUME NEW k \in 1 .. N PROVE f[k] \in Outstanding
    OBVIOUS
  <2> HIDE DEF f
  <2>1. CASE k <= ResCap /\ results[k].worker # Idle
    BY <1>3, <2>1, OutstandingIsFinite
  <2>3. CASE k <= ResCap /\ results[k].worker = Idle
    <3> DEFINE P == UNION {Range(Pending(u)) : u \in Worker}
               R == {o \in OneShot : oneShot[o] \in {"running", "posted"}}
    <3>1. f[k] \in R
      BY <1>13, <2>3
    <3>2. Outstanding = P \cup R
      BY DEF Outstanding
    <3> HIDE DEF P, R
    <3> QED
      BY <3>1, <3>2
  <2>2. CASE k > ResCap
    BY <1>4, <2>2, OutstandingIsFinite
  <2> QED
    BY <1>1, <2>1, <2>2, <2>3
<1>15. ASSUME NEW k \in 1 .. N, k > ResCap \/ results[k].worker # Idle
      PROVE  f[k] \in UIReq
  <2> HIDE DEF f
  <2>1. CASE k > ResCap
    BY <1>0, <1>4, <1>14, <2>1
  <2>2. CASE k <= ResCap
    <3>1. results[k].worker # Idle
      BY <1>1, <1>15, <2>2
    <3>2. PICK u \in Worker, p \in Handled(results[k].worker) + 1 .. Answered(results[k].worker) :
            u = results[k].worker /\ f[k] = sent[u][p] /\ p \in 1 .. Len(sent[u])
      BY <1>3, <2>2, <3>1
    <3> QED
      BY <1>14, <3>2
  <2> QED
    BY <1>1, <2>1, <2>2
<1>16. ASSUME NEW i \in 1 .. N, NEW j \in 1 .. N, i <= ResCap, j <= ResCap, i < j,
             results[i].worker = Idle \/ results[j].worker = Idle
      PROVE  f[i] # f[j]
  <2> HIDE DEF f
  <2>1. CASE results[i].worker = Idle /\ results[j].worker = Idle
    <3>1. /\ i \in 1 .. Len(results) /\ j \in 1 .. Len(results)
          /\ f[i] = results[i].req /\ f[j] = results[j].req
      BY <1>13, <1>16, <2>1
    <3> QED
      BY <1>16, <2>1, <3>1 DEF PostedOnce
  <2>2. CASE results[i].worker = Idle /\ results[j].worker # Idle
    BY <1>13, <1>15, <1>16, <2>2, ConnWorkerAssumption
  <2>3. CASE results[i].worker # Idle /\ results[j].worker = Idle
    BY <1>13, <1>15, <1>16, <2>3, ConnWorkerAssumption
  <2> QED
    BY <1>16, <2>1, <2>2, <2>3
<1>6. ASSUME NEW i \in 1 .. N, NEW j \in 1 .. N, i <= ResCap, j <= ResCap, i < j,
             results[i].worker # Idle, results[j].worker # Idle
      PROVE  f[i] # f[j]
  <2> HIDE DEF f
  <2>1. PICK u \in Worker, p \in Handled(results[i].worker) + 1 .. Answered(results[i].worker) :
          u = results[i].worker /\ f[i] = sent[u][p] /\ p \in 1 .. Len(sent[u])
    BY <1>3, <1>6
  <2>2. PICK v \in Worker, q \in Handled(results[j].worker) + 1 .. Answered(results[j].worker) :
          v = results[j].worker /\ f[j] = sent[v][q] /\ q \in 1 .. Len(sent[v])
    BY <1>3, <1>6
  <2>3. /\ i \in 1 .. Len(results) /\ f[i] = results[i].req
        /\ j \in 1 .. Len(results) /\ f[j] = results[j].req
    BY <1>3, <1>6
  <2>4. ASSUME f[i] = f[j] PROVE FALSE
    <3>0. sent[u][p] = sent[v][q] /\ p \in 1 .. Len(sent[u]) /\ q \in 1 .. Len(sent[v])
      BY <2>1, <2>2, <2>4
    <3>1. u = v /\ p = q
      BY <3>0, PositionsApart
    <3>2. p < q
      <4>1. /\ results[i].worker = u /\ results[j].worker = u
            /\ p \in Handled(u) + 1 .. Answered(u) /\ q \in Handled(u) + 1 .. Answered(u)
            /\ results[i].req = sent[u][p] /\ results[j].req = sent[u][q]
        BY <2>1, <2>2, <2>3, <3>1
      <4> QED
        BY <1>6, <2>3, <4>1, PostedInOrder DEF IInv
    <3>3. p \in Int /\ q \in Int
      BY <2>1, <2>2
    <3> QED
      BY <3>1, <3>2, <3>3
  <2> QED
    BY <2>4
<1>17. ASSUME NEW i \in 1 .. N, NEW j \in 1 .. N, i <= ResCap, j > ResCap,
             results[i].worker = Idle
      PROVE  f[i] # f[j]
  <2> HIDE DEF f
  <2> QED
    BY <1>13, <1>15, <1>17, ConnWorkerAssumption
<1>7. ASSUME NEW i \in 1 .. N, NEW j \in 1 .. N, i <= ResCap, j > ResCap,
             results[i].worker # Idle
      PROVE  f[i] # f[j]
  <2> HIDE DEF f
  <2>1. PICK u \in Worker, p \in Handled(results[i].worker) + 1 .. Answered(results[i].worker) :
          u = results[i].worker /\ f[i] = sent[u][p] /\ p \in 1 .. Len(sent[u])
    BY <1>3, <1>7
  <2>2. PICK q \in T .. Len(sent[w]) : q \in 1 .. Len(sent[w]) /\ f[j] = sent[w][q]
    BY <1>4, <1>7
  <2>3. ASSUME f[i] = f[j] PROVE FALSE
    <3>0. sent[u][p] = sent[w][q] /\ p \in 1 .. Len(sent[u]) /\ q \in 1 .. Len(sent[w])
      BY <2>1, <2>2, <2>3
    <3>1. u = w /\ p = q
      BY <3>0, PositionsApart
    <3>2. p <= T - 1 /\ q >= T
      BY <1>2, <2>1, <2>2, <3>1
    <3> QED
      BY <1>2, <3>1, <3>2
  <2> QED
    BY <2>3
<1>8. ASSUME NEW i \in 1 .. N, NEW j \in 1 .. N, i > ResCap, j > ResCap, f[i] = f[j]
      PROVE  i = j
  <2> HIDE DEF f
  <2>1. T + i - ResCap - 1 = T + j - ResCap - 1
    BY <1>4, <1>8, PositionsApart
  <2> QED
    BY <1>1, <1>2, <2>1
<1>9. \A i, j \in 1 .. N : f[i] = f[j] => i = j
  <2> SUFFICES ASSUME NEW i \in 1 .. N, NEW j \in 1 .. N, f[i] = f[j]
               PROVE  i = j
    OBVIOUS
  <2> HIDE DEF f
  <2>0. i \in Int /\ j \in Int /\ ResCap \in Int
    BY <1>1
  <2>1. CASE i <= ResCap /\ j <= ResCap
    BY <1>6, <1>16, <2>0, <2>1
  <2>2. CASE i <= ResCap /\ j > ResCap
    BY <1>7, <1>17, <2>2
  <2>3. CASE i > ResCap /\ j <= ResCap
    BY <1>7, <1>17, <2>3
  <2>4. CASE i > ResCap /\ j > ResCap
    BY <1>8, <2>4
  <2> QED
    BY <2>0, <2>1, <2>2, <2>3, <2>4
<1>10. f \in Injection(1 .. N, Outstanding)
  <2>1. f \in [1 .. N -> Outstanding]
    BY <1>5
  <2> HIDE DEF f
  <2> QED
    BY <1>9, <2>1 DEF Injection, IsInjective
<1>11. Cardinality(1 .. N) = N /\ IsFiniteSet(Outstanding)
  <2>1. 1 \in Int /\ N \in Int /\ ~(1 > N) /\ N - 1 + 1 = N
    BY <1>1
  <2> HIDE DEF N
  <2> QED
    BY <2>1, FS_Interval, OutstandingIsFinite
<1>12. N <= Cardinality(Outstanding) /\ Cardinality(Outstanding) \in Nat
  <2> HIDE DEF N, f
  <2> QED
    BY <1>10, <1>11, FS_Injection, FS_CardinalityType
<1> QED
  BY <1>1, <1>12

\* The main thread and a worker wait for each other, for ever, only when more UI
\* requests, opens, reconnects and switches are under way, together, than the
\* worker's channel, the results and the worker hold: in the code, 33.
THEOREM WaitsOnlyAtCapacity == Spec => []MutualWaitOnlyAtCapacity
<1>1. IInv /\ SentApart /\ PostedOnce => MutualWaitOnlyAtCapacity
  BY BothFull DEF MutualWaitOnlyAtCapacity
<1> QED
  BY <1>1, Invariant, SentToOne, OneShotsPostOnce, PTL
=============================================================================
