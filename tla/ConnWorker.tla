----------------------------- MODULE ConnWorker -----------------------------
(***************************************************************************)
(* The request path between the main thread, the connection workers and    *)
(* the HTTP handlers of POST /sql (src/internal/ui/connworker.go, the      *)
(* polling in ui/app.go, the semaphore in control/server.go), and the      *)
(* one-shot goroutines that share its results channel.                     *)
(*                                                                         *)
(* Each connection has one worker goroutine with two bounded channels: UI  *)
(* requests, sent by the main thread, and raw SQL requests, sent by HTTP   *)
(* handlers.  All workers of a window post into ONE bounded results        *)
(* channel that only the main thread drains, once a frame.  So do the      *)
(* goroutines that work without a worker, once each: the opens of a file,  *)
(* a folder or a bookmark, the reconnects and the database switches.  The  *)
(* main thread sends with a blocking channel send, and blocks for a while  *)
(* when it stops a worker.                                                 *)
(*                                                                         *)
(* What a request computes is left out; a worker's database call ends some *)
(* time after it started, with a result or an error.  A one-shot may never *)
(* end.                                                                    *)
(***************************************************************************)
EXTENDS Integers, FiniteSets, Sequences, SequencesExt

CONSTANTS
  Worker,    \* the workers of one window
  Closable,  \* those that may be stopped: the memory connection's is not
  UIReq,     \* the UI requests the main thread may send
  SQLReq,    \* the POST /sql requests clients may make
  OneShot,   \* the opens, reconnects and switches the main thread may start
  UICap,     \* capacity of uiReqs (16 in the code)
  SQLCap,    \* capacity of sqlReqs (4)
  ResCap,    \* capacity of results (16)
  SemCap,    \* concurrent /sql requests admitted (2)
  Idle       \* "no request"

ASSUME ConnWorkerAssumption ==
  /\ Closable \subseteq Worker
  /\ UIReq \cap SQLReq = {} /\ UIReq \cap OneShot = {}
  /\ Idle \notin UIReq \cup SQLReq \cup Worker
  /\ {UICap, SQLCap, ResCap, SemCap} \subseteq Nat \ {0}
  /\ IsFiniteSet(SQLReq) /\ IsFiniteSet(OneShot)

VARIABLES
  main,      \* what the main thread does: [op, worker, req]
  skipPoll,  \* w.skipPoll: leave the results alone for one frame
  uiReqs,    \* per worker, its UI channel
  sqlReqs,   \* per worker, its SQL channel
  results,   \* the shared results channel: sequence of [worker, req], where a
             \* one-shot's result has no worker
  oneShot,   \* per one-shot: started, its result posted, taken
  pc,        \* per worker: where its loop is
  cur,       \* per worker: the request it is handling
  cancelled, \* workers whose context is cancelled
  removed,   \* workers taken off their connection
  caller,    \* per /sql request: where its HTTP handler is
  target,    \* per /sql request: the worker its handler picked
  gone,      \* /sql requests whose client has disconnected
  replied,   \* /sql requests whose reply channel holds a reply
  sent,      \* history: per worker, the UI requests in the order sent
  handled,   \* history: per worker, the results the main thread took
  overtaken  \* history: per worker, SQL requests taken since a UI one waits

mainVars   == <<main, skipPoll, sent, handled>>
workerVars == <<pc, cur, overtaken>>
callerVars == <<caller, target, gone>>
vars == <<mainVars, workerVars, callerVars, uiReqs, sqlReqs, results,
          oneShot, cancelled, removed, replied>>

Free == [op |-> "free", worker |-> Idle, req |-> Idle]

Init ==
  /\ main = Free
  /\ skipPoll = FALSE
  /\ uiReqs = [w \in Worker |-> <<>>]
  /\ sqlReqs = [w \in Worker |-> <<>>]
  /\ results = <<>>
  /\ oneShot = [o \in OneShot |-> "idle"]
  /\ pc = [w \in Worker |-> "poll"]
  /\ cur = [w \in Worker |-> Idle]
  /\ cancelled = {}
  /\ removed = {}
  /\ caller = [r \in SQLReq |-> "idle"]
  /\ target = [r \in SQLReq |-> Idle]
  /\ gone = {}
  /\ replied = {}
  /\ sent = [w \in Worker |-> <<>>]
  /\ handled = [w \in Worker |-> <<>>]
  /\ overtaken = [w \in Worker |-> 0]

-----------------------------------------------------------------------------
(* The main thread *)

UIRoom_Unbuffered(w) == uiReqs[w] = <<>> /\ pc[w] # "handling"
UIRoom(w) == Len(uiReqs[w]) < UICap

AllSent == UNION {Range(sent[w]) : w \in Worker}

\* The main thread begins to send a UI request to a worker of the window.  A
\* query or a file open also asks to skip the next frame's poll; a refresh
\* does not.
BeginSend(w, r) ==
  /\ main = Free
  /\ w \notin removed
  /\ r \notin AllSent
  /\ main' = [op |-> "sending", worker |-> w, req |-> r]
  /\ sent' = [sent EXCEPT ![w] = Append(@, r)]
  /\ skipPoll' \in {skipPoll, TRUE}
  /\ UNCHANGED <<handled, workerVars, callerVars, uiReqs, sqlReqs, results,
                 cancelled, removed, replied, oneShot>>

\* Send returns once the channel has room.
EndSend ==
  /\ main.op = "sending"
  /\ UIRoom(main.worker)
  /\ uiReqs' = [uiReqs EXCEPT ![main.worker] = Append(@, main.req)]
  /\ main' = Free
  /\ UNCHANGED <<skipPoll, sent, handled, workerVars, callerVars, sqlReqs,
                 results, cancelled, removed, replied, oneShot>>

\* A frame whose poll is skipped.
SkipFrame_Sticky == skipPoll' = skipPoll
SkipFrame == skipPoll' = FALSE

PollSkipped ==
  /\ main = Free
  /\ skipPoll
  /\ SkipFrame
  /\ UNCHANGED <<main, sent, handled, workerVars, callerVars, uiReqs, sqlReqs,
                 results, cancelled, removed, replied, oneShot>>

\* pollResults takes the next result: of a worker ...
PollResult ==
  /\ main = Free
  /\ ~skipPoll
  /\ results # <<>>
  /\ Head(results).worker # Idle
  /\ handled' = [handled EXCEPT ![Head(results).worker] =
                   Append(@, Head(results).req)]
  /\ results' = Tail(results)
  /\ UNCHANGED <<main, skipPoll, sent, workerVars, callerVars, uiReqs, sqlReqs,
                 cancelled, removed, replied, oneShot>>

\* ... or of a one-shot.
PollOneShot ==
  /\ main = Free
  /\ ~skipPoll
  /\ results # <<>>
  /\ Head(results).worker = Idle
  /\ oneShot' = [oneShot EXCEPT ![Head(results).req] = "taken"]
  /\ results' = Tail(results)
  /\ UNCHANGED <<mainVars, workerVars, callerVars, uiReqs, sqlReqs, cancelled,
                 removed, replied>>

\* The main thread starts an open, a reconnect or a switch in a goroutine of
\* its own.
StartOneShot(o) ==
  /\ main = Free
  /\ oneShot[o] = "idle"
  /\ oneShot' = [oneShot EXCEPT ![o] = "running"]
  /\ UNCHANGED <<mainVars, workerVars, callerVars, uiReqs, sqlReqs, results,
                 cancelled, removed, replied>>

\* Stop cancels the worker's context ...
Cancelled(w) == cancelled \cup {w}

BeginStop(w) ==
  /\ main = Free
  /\ w \in Closable \ removed
  /\ main' = [op |-> "stopping", worker |-> w, req |-> Idle]
  /\ cancelled' = Cancelled(w)
  /\ UNCHANGED <<skipPoll, sent, handled, workerVars, callerVars, uiReqs,
                 sqlReqs, results, removed, replied, oneShot>>

\* ... and waits for the worker to be done, or for three seconds.  The caller
\* then takes the worker off its connection.
EndStop ==
  /\ main.op = "stopping"
  /\ main' = Free
  /\ removed' = removed \cup {main.worker}
  /\ UNCHANGED <<skipPoll, sent, handled, workerVars, callerVars, uiReqs,
                 sqlReqs, results, cancelled, replied, oneShot>>

-----------------------------------------------------------------------------
(* A worker *)

TakeUI(w) ==
  /\ uiReqs[w] # <<>>
  /\ cur' = [cur EXCEPT ![w] = Head(uiReqs[w])]
  /\ uiReqs' = [uiReqs EXCEPT ![w] = Tail(@)]
  /\ pc' = [pc EXCEPT ![w] = "handling"]
  /\ overtaken' = [overtaken EXCEPT ![w] = 0]
  /\ UNCHANGED <<mainVars, callerVars, sqlReqs, results, cancelled, removed,
                 replied, oneShot>>

\* First select of the loop: a waiting UI request is taken at once.
PollUI_Skipped(w) ==
  /\ pc[w] = "poll"
  /\ pc' = [pc EXCEPT ![w] = "select"]
  /\ UNCHANGED <<mainVars, callerVars, cur, overtaken, uiReqs, sqlReqs,
                 results, cancelled, removed, replied, oneShot>>
PollUI(w) ==
  /\ pc[w] = "poll"
  /\ \/ TakeUI(w)
     \/ /\ uiReqs[w] = <<>>
        /\ pc' = [pc EXCEPT ![w] = "select"]
        /\ UNCHANGED <<mainVars, callerVars, cur, overtaken, uiReqs, sqlReqs,
                       results, cancelled, removed, replied, oneShot>>

\* Second select: any ready case.
SelectUI(w) == pc[w] = "select" /\ TakeUI(w)

\* A SQL request whose client has left is answered and skipped.
AfterSkip_Handled(w, r) == [pc EXCEPT ![w] = "handling"]
AfterSkip(w, r) == [pc EXCEPT ![w] = IF r \in gone THEN "poll" ELSE "handling"]

SelectSQL(w) ==
  LET r == Head(sqlReqs[w])
  IN  /\ pc[w] = "select"
      /\ sqlReqs[w] # <<>>
      /\ sqlReqs' = [sqlReqs EXCEPT ![w] = Tail(@)]
      /\ replied' = IF r \in gone THEN replied \cup {r} ELSE replied
      /\ pc' = AfterSkip(w, r)
      /\ cur' = [cur EXCEPT ![w] = IF pc'[w] = "handling" THEN r ELSE Idle]
      /\ overtaken' = [overtaken EXCEPT
                         ![w] = IF uiReqs[w] = <<>> THEN 0 ELSE @ + 1]
      /\ UNCHANGED <<mainVars, callerVars, uiReqs, results, cancelled, removed,
                     oneShot>>

SelectDone(w) ==
  /\ pc[w] = "select"
  /\ w \in cancelled
  /\ pc' = [pc EXCEPT ![w] = "done"]
  /\ UNCHANGED <<mainVars, callerVars, cur, overtaken, uiReqs, sqlReqs, results,
                 cancelled, removed, replied, oneShot>>

\* A UI request ends, with a result whatever happened: the worker blocks on it
\* while the channel is full.
Posted_Superseded(w) ==
  IF uiReqs[w] = <<>> THEN Append(results, [worker |-> w, req |-> cur[w]]) ELSE results
Posted(w) == Append(results, [worker |-> w, req |-> cur[w]])

FinishUI(w) ==
  /\ pc[w] = "handling"
  /\ cur[w] \in UIReq
  /\ Len(results) < ResCap
  /\ results' = Posted(w)
  /\ pc' = [pc EXCEPT ![w] = "poll"]
  /\ cur' = [cur EXCEPT ![w] = Idle]
  /\ UNCHANGED <<mainVars, callerVars, overtaken, uiReqs, sqlReqs, cancelled,
                 removed, replied, oneShot>>

\* A SQL request ends: its reply channel has room for one reply.
Reply_Lost(r) == replied
Reply(r) == replied \cup {r}

FinishSQL(w) ==
  /\ pc[w] = "handling"
  /\ cur[w] \in SQLReq
  /\ replied' = Reply(cur[w])
  /\ pc' = [pc EXCEPT ![w] = "poll"]
  /\ cur' = [cur EXCEPT ![w] = Idle]
  /\ UNCHANGED <<mainVars, callerVars, overtaken, uiReqs, sqlReqs, results,
                 cancelled, removed, oneShot>>

WorkerStep(w) ==
  PollUI(w) \/ SelectUI(w) \/ SelectSQL(w) \/ SelectDone(w)
  \/ FinishUI(w) \/ FinishSQL(w)

-----------------------------------------------------------------------------
(* The one-shots *)

\* A one-shot ends, with one result whatever happened: it waits for room in the
\* channel of the workers.
PostOneShot(o) ==
  /\ oneShot[o] = "running"
  /\ Len(results) < ResCap
  /\ results' = Append(results, [worker |-> Idle, req |-> o])
  /\ oneShot' = [oneShot EXCEPT ![o] = "posted"]
  /\ UNCHANGED <<mainVars, workerVars, callerVars, uiReqs, sqlReqs, cancelled,
                 removed, replied>>

-----------------------------------------------------------------------------
(* The HTTP handlers of POST /sql *)

Admitted == {r \in SQLReq : caller[r] \in {"sending", "waiting"}}

\* The semaphore admits the request and the executor picks a connection, or the
\* client is told to retry later (429).
Arrive(r, w) ==
  /\ caller[r] = "idle"
  /\ w \notin removed
  /\ IF Cardinality(Admitted) < SemCap
       THEN /\ caller' = [caller EXCEPT ![r] = "sending"]
            /\ target' = [target EXCEPT ![r] = w]
       ELSE /\ caller' = [caller EXCEPT ![r] = "refused"]
            /\ UNCHANGED target
  /\ UNCHANGED <<mainVars, workerVars, gone, uiReqs, sqlReqs, results,
                 cancelled, removed, replied, oneShot>>

\* The send ignores the request's context: it only waits for room.
CallerSend(r) ==
  /\ caller[r] = "sending"
  /\ Len(sqlReqs[target[r]]) < SQLCap
  /\ sqlReqs' = [sqlReqs EXCEPT ![target[r]] = Append(@, r)]
  /\ caller' = [caller EXCEPT ![r] = "waiting"]
  /\ UNCHANGED <<mainVars, workerVars, target, gone, uiReqs, results,
                 cancelled, removed, replied, oneShot>>

\* The handler returns with the reply, or because the client has left; either
\* way it releases its place in the semaphore.
CallerReturn(r) ==
  /\ caller[r] = "waiting"
  /\ r \in replied \cup gone
  /\ caller' = [caller EXCEPT ![r] = "returned"]
  /\ UNCHANGED <<mainVars, workerVars, target, gone, uiReqs, sqlReqs, results,
                 cancelled, removed, replied, oneShot>>

Disconnect(r) ==
  /\ r \in Admitted \ gone
  /\ gone' = gone \cup {r}
  /\ UNCHANGED <<mainVars, workerVars, caller, target, uiReqs, sqlReqs, results,
                 cancelled, removed, replied, oneShot>>

-----------------------------------------------------------------------------
MainStep == EndSend \/ PollSkipped \/ PollResult \/ PollOneShot \/ EndStop

Next ==
  \/ MainStep
  \/ \E w \in Worker :
       \/ \E r \in UIReq : BeginSend(w, r)
       \/ BeginStop(w)
       \/ WorkerStep(w)
       \/ \E r \in SQLReq : Arrive(r, w)
  \/ \E o \in OneShot : StartOneShot(o) \/ PostOneShot(o)
  \/ \E r \in SQLReq : CallerSend(r) \/ CallerReturn(r) \/ Disconnect(r)

\* Frames keep coming while the main thread is not blocked; goroutines are
\* scheduled; a worker's database call ends.  Nothing makes a user send or open,
\* a client connect or leave, a connection close, or a one-shot end.
Fairness ==
  /\ WF_vars(MainStep)
  /\ \A w \in Worker : WF_vars(WorkerStep(w))
  /\ \A r \in SQLReq : WF_vars(CallerSend(r)) /\ WF_vars(CallerReturn(r))

Spec == Init /\ [][Next]_vars
FairSpec == Spec /\ Fairness

-----------------------------------------------------------------------------
(* Properties *)

Result == [worker : Worker, req : UIReq] \cup [worker : {Idle}, req : OneShot]

\* Types, and the channels within their capacities.
TypeOK ==
  /\ main \in {Free}
       \cup [op : {"sending"}, worker : Worker, req : UIReq]
       \cup [op : {"stopping"}, worker : Closable, req : {Idle}]
  /\ skipPoll \in BOOLEAN
  /\ uiReqs \in [Worker -> Seq(UIReq)]
  /\ sqlReqs \in [Worker -> Seq(SQLReq)]
  /\ results \in Seq(Result)
  /\ oneShot \in [OneShot -> {"idle", "running", "posted", "taken"}]
  /\ \A w \in Worker : Len(uiReqs[w]) <= UICap /\ Len(sqlReqs[w]) <= SQLCap
  /\ Len(results) <= ResCap
  /\ pc \in [Worker -> {"poll", "select", "handling", "done"}]
  /\ cur \in [Worker -> UIReq \cup SQLReq \cup {Idle}]
  /\ \A w \in Worker : pc[w] = "handling" <=> cur[w] # Idle
  /\ cancelled \subseteq Closable /\ removed \subseteq cancelled
  /\ caller \in [SQLReq -> {"idle", "sending", "waiting", "returned", "refused"}]
  /\ target \in [SQLReq -> Worker \cup {Idle}]
  /\ gone \subseteq SQLReq /\ replied \subseteq SQLReq
  /\ sent \in [Worker -> Seq(UIReq)] /\ handled \in [Worker -> Seq(UIReq)]
  /\ overtaken \in [Worker -> Nat]

\* The UI requests of worker w on their way, oldest first: being sent, in its
\* channel, in its hands or among the results.
Pending(w) == SubSeq(sent[w], Len(handled[w]) + 1, Len(sent[w]))

\* Seen from the main thread, the channels, the two selects and the shared
\* results are one queue per connection.
Order == INSTANCE RequestOrder
           WITH pending <- [w \in Worker |-> Pending(w)], answered <- handled
ImplementsRequestOrder == Order!Spec

\* A SQL request is answered at most once, and is never both answered and still
\* with the worker: a second reply would block the worker for ever
\* (connworker.go:175-182, the reply channel holds one value, app.go:2468).
SQLAnsweredOnce ==
  \A r \in replied, w \in Worker : cur[w] # r /\ r \notin Range(sqlReqs[w])

\* "UI operations (query, open, refresh) have priority over /sql requests"
\* (connworker.go:107): while a UI request waits, at most one SQL request is
\* taken before it, the one the second select may choose.
UIOvertakenOnce == \A w \in Worker : overtaken[w] <= 1

\* The main thread and a worker can only block on each other, for ever, once
\* more is outstanding than the channels and the worker can hold: UI requests of
\* all connections, opens, reconnects and switches together (they share the
\* channel of appwindow.go:221).
Outstanding ==
  (UNION {Range(Pending(w)) : w \in Worker})
    \cup {o \in OneShot : oneShot[o] \in {"running", "posted"}}
MutualWait ==
  /\ main.op = "sending" /\ ~UIRoom(main.worker)
  /\ Len(results) = ResCap
  /\ pc[main.worker] = "handling" /\ cur[main.worker] \in UIReq
MutualWaitOnlyAtCapacity ==
  MutualWait => Cardinality(Outstanding) > UICap + ResCap + 1

\* Every UI request is eventually applied, unless its connection is closed.
UIRequestsServed ==
  \A w \in Worker, r \in UIReq :
    (r \in Range(sent[w])) ~> (r \in Range(handled[w]) \/ w \in cancelled)

\* Every admitted /sql call returns and releases its place, unless the
\* connection it picked is closed: then nobody answers what is left in sqlReqs.
SQLCallsReturn ==
  \A r \in SQLReq :
    r \in Admitted ~> (caller[r] = "returned" \/ target[r] \in cancelled)
=============================================================================
