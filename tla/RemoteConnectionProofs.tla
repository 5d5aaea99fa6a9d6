------------------------ MODULE RemoteConnectionProofs ------------------------
(***************************************************************************)
(* Proofs about the three parts of a remote connection: the SSM tunnel,    *)
(* for any limit on the attempts; the SSH tunnel, for any set of forwarded *)
(* connections; the database pool above them.  What each part promises it  *)
(* promises in the composition as well.                                    *)
(***************************************************************************)
EXTENDS RemoteConnection, TLAPS

-----------------------------------------------------------------------------
(* The SSM tunnel: implements Supervisor, gives each session all its attempts *)

\* What an owner may see at each place of the run loop.
StatusOfPlace ==
  /\ status = "Error" => pc = "done"
  /\ pc \in {"backoff", "resolve", "config", "session"} => status = "Connecting"
  /\ pc = "up" => status = "Connected"
  /\ pc \in {"ended", "judge", "release"} => status \in {"Connecting", "Connected"}

\* Retries begun and failures counted keep pace: a failure is counted when it is
\* judged, its retry begins at the head of the loop.
Counted ==
  /\ pc # "done" => attempt < MaxAttempts
  /\ pc \in {"check", "release"} => retries = IF attempt = 0 THEN 0 ELSE attempt - 1
  /\ pc \notin {"check", "release", "done"} => retries = attempt

\* Who can have stopped the tunnel.
StoppedBySomeone ==
  /\ stopped => released \/ clicked \/ outcome \in {"cancelled", "error"}
  /\ hook \in {"fired", "done"} => clicked
  /\ waiter \in {"returned", "gone"} => hook # "armed"
  /\ card = "connected" => outcome = "connected"
  /\ outcome # "none" => waiter \in {"returned", "gone"}

TunnelInv ==
  /\ TypeOK
  /\ StatusOfPlace
  /\ Counted
  /\ FullRoundBeforeGivingUp
  /\ StoppedBySomeone

-----------------------------------------------------------------------------
(* The inductive invariant *)

\* The tunnel starts idle, with its callback set.
LEMMA TunnelInvInit == Init => TunnelInv
<1> SUFFICES ASSUME Init PROVE TunnelInv
  OBVIOUS
<1>1. TypeOK
  <2>1. attempt \in 0 .. MaxAttempts /\ retries \in 0 .. MaxAttempts
    BY TunnelAssumption DEF Init
  <2>2. failure \in [kind : {"none", "login", "permanent", "other"},
                     from : {"none", "resolve", "config", "session", "up"}]
    BY DEF Init, NoFailure
  <2>3. {stopped, cancelled, clicked, released} \subseteq BOOLEAN
    BY DEF Init
  <2> QED
    BY <2>1, <2>2, <2>3 DEF Init, TypeOK
<1>2. StatusOfPlace /\ FullRoundBeforeGivingUp
  BY DEF Init, StatusOfPlace, FullRoundBeforeGivingUp
<1>3. Counted
  BY TunnelAssumption DEF Init, Counted
<1>4. StoppedBySomeone
  BY DEF Init, StoppedBySomeone
<1> QED
  BY <1>1, <1>2, <1>3, <1>4 DEF TunnelInv

\* A step of the run loop: the card and the goroutine are untouched.
LEMMA RunStep == ASSUME TunnelInv, Run PROVE TunnelInv'
<1> USE TunnelAssumption DEF TunnelInv
<1>0. UNCHANGED <<stopped, cardVars>>
  BY DEF Run
<1>1. StoppedBySomeone'
  BY <1>0 DEF StoppedBySomeone, cardVars
<1>2. CASE Check
  BY <1>0, <1>1, <1>2 DEF Check, End, TypeOK, StatusOfPlace, Counted,
     FullRoundBeforeGivingUp, cardVars
<1>3. CASE Pause
  BY <1>0, <1>1, <1>3 DEF Pause, End, TypeOK, StatusOfPlace, Counted,
     FullRoundBeforeGivingUp, cardVars
<1>4. CASE Succeed
  BY <1>0, <1>1, <1>4 DEF Succeed, TypeOK, StatusOfPlace, Counted,
     FullRoundBeforeGivingUp, cardVars
<1>5. CASE Ready
  BY <1>0, <1>1, <1>5 DEF Ready, AttemptWhenReady, TypeOK, StatusOfPlace, Counted,
     FullRoundBeforeGivingUp, cardVars
<1>6. CASE Break
  BY <1>0, <1>1, <1>6 DEF Break, TypeOK, StatusOfPlace, Counted,
     FullRoundBeforeGivingUp, cardVars
<1>7. CASE Ended
  BY <1>0, <1>1, <1>7 DEF Ended, End, TypeOK, StatusOfPlace, Counted,
     FullRoundBeforeGivingUp, cardVars
<1>8. CASE Judge
  BY <1>0, <1>1, <1>8 DEF Judge, Hopeless, AfterFailing, TypeOK, StatusOfPlace,
     Counted, FullRoundBeforeGivingUp, cardVars
<1> QED
  BY <1>2, <1>3, <1>4, <1>5, <1>6, <1>7, <1>8 DEF Run

\* A step of the goroutine, the callback or the main thread: the run loop is
\* untouched.
LEMMA CardStep ==
  ASSUME TunnelInv, Goroutine \/ Callback \/ ClickCancel \/ Frame \/ CloseConnection
  PROVE  TunnelInv'
<1> USE DEF TunnelInv
<1>0. UNCHANGED runVars
  BY DEF Goroutine, WaitReady, ReturnTunnel, ReturnError, DeferredCancel, Callback,
     ClickCancel, Frame, CloseConnection
<1>1. StatusOfPlace' /\ Counted' /\ FullRoundBeforeGivingUp'
  BY <1>0 DEF StatusOfPlace, Counted, FullRoundBeforeGivingUp, runVars
<1>2. CASE WaitReady
  BY <1>0, <1>1, <1>2 DEF WaitReady, TypeOK, StoppedBySomeone, runVars
<1>3. CASE ReturnTunnel
  BY <1>0, <1>1, <1>3 DEF ReturnTunnel, Unhook, TypeOK, StoppedBySomeone, runVars
<1>4. CASE ReturnError
  BY <1>0, <1>1, <1>4 DEF ReturnError, StopOnError, Unhook, TypeOK,
     StoppedBySomeone, runVars
<1>5. CASE DeferredCancel
  BY <1>0, <1>1, <1>5 DEF DeferredCancel, CancelContext, TypeOK, StoppedBySomeone,
     runVars
<1>6. CASE Callback
  BY <1>0, <1>1, <1>6 DEF Callback, TypeOK, StoppedBySomeone, runVars
<1>7. CASE ClickCancel
  BY <1>0, <1>1, <1>7 DEF ClickCancel, CancelContext, TypeOK, StoppedBySomeone,
     runVars
<1>8. CASE Frame
  BY <1>0, <1>1, <1>8 DEF Frame, TypeOK, StoppedBySomeone, runVars
<1>9. CASE CloseConnection
  BY <1>0, <1>1, <1>9 DEF CloseConnection, TypeOK, StoppedBySomeone, runVars
<1> QED
  BY <1>2, <1>3, <1>4, <1>5, <1>6, <1>7, <1>8, <1>9 DEF Goroutine

\* Every thread keeps the invariant.
LEMMA TunnelInvStep == TunnelInv /\ [Next]_vars => TunnelInv'
<1> SUFFICES ASSUME TunnelInv, [Next]_vars PROVE TunnelInv'
  OBVIOUS
<1>1. CASE Run
  BY <1>1, RunStep
<1>2. CASE Goroutine \/ Callback \/ ClickCancel \/ Frame \/ CloseConnection
  BY <1>2, CardStep
<1>3. CASE UNCHANGED vars
  BY <1>3 DEF vars, runVars, cardVars, TunnelInv, TypeOK, StatusOfPlace, Counted,
     FullRoundBeforeGivingUp, StoppedBySomeone
<1> QED
  BY <1>1, <1>2, <1>3 DEF Next

\* Every reachable state satisfies the inductive invariant.
THEOREM TunnelInvariant == Spec => []TunnelInv
  BY TunnelInvInit, TunnelInvStep, PTL DEF Spec

-----------------------------------------------------------------------------
(* Safety *)

\* Types; whatever the limit, no more failures in a row than it allows.
THEOREM TunnelTypes == Spec => []TypeOK
<1>1. TunnelInv => TypeOK
  BY DEF TunnelInv
<1> QED
  BY <1>1, TunnelInvariant, PTL

\* The tunnel gives up on a retryable error only after all its retries, and
\* those are counted from the last time the session was up.
THEOREM FullRound == Spec => []FullRoundBeforeGivingUp
<1>1. TunnelInv => FullRoundBeforeGivingUp
  BY DEF TunnelInv
<1> QED
  BY <1>1, TunnelInvariant, PTL

\* The deferred cancel of the goroutine that built a tunnel does not stop it once
\* it has been handed over.
THEOREM HandedOver == Spec => []HandedOverStands
<1>1. TunnelInv => HandedOverStands
  BY DEF TunnelInv, StoppedBySomeone, HandedOverStands
<1> QED
  BY <1>1, TunnelInvariant, PTL

-----------------------------------------------------------------------------
(* Refinement *)

\* A tunnel that has not begun is an idle session.
LEMMA InitRefines == Init => Supervised!Init
  BY DEF Init, Supervised!Init

\* A step of the run loop, as its owner sees it: a new try, up, an end, or
\* nothing.
LEMMA RunRefines ==
  ASSUME TunnelInv, Run
  PROVE  [Supervised!Next]_(Supervised!vars)
<1> USE DEF TunnelInv, StatusOfPlace, Supervised!Next, Supervised!vars
<1>0. UNCHANGED stopped
  BY DEF Run
<1>1. CASE Check
  <2>1. CASE End
    BY <1>0, <1>1, <2>1 DEF Check, End, TypeOK, Supervised!Stop
  <2>2. CASE ~stopped
    BY <1>0, <1>1, <2>2 DEF Check, End, TypeOK, Supervised!Try
  <2> QED
    BY <1>1, <2>1, <2>2 DEF Check
<1>2. CASE Pause
  BY <1>0, <1>2 DEF Pause, End, TypeOK, Supervised!Stop
<1>3. CASE Succeed
  BY <1>0, <1>3 DEF Succeed, TypeOK
<1>4. CASE Ready
  BY <1>0, <1>4 DEF Ready, TypeOK, Supervised!Up
<1>5. CASE Break
  BY <1>0, <1>5 DEF Break, TypeOK
<1>6. CASE Ended
  BY <1>0, <1>6 DEF Ended, End, TypeOK, Supervised!Stop
<1>7. CASE Judge
  BY <1>0, <1>7 DEF Judge, AfterFailing, TypeOK, Supervised!Fail
<1> QED
  BY <1>1, <1>2, <1>3, <1>4, <1>5, <1>6, <1>7 DEF Run

\* A step of any other thread asks for the end, or is not seen.
LEMMA CardRefines ==
  ASSUME TunnelInv, Goroutine \/ Callback \/ ClickCancel \/ Frame \/ CloseConnection
  PROVE  [Supervised!Next]_(Supervised!vars)
<1>1. UNCHANGED runVars
  BY DEF Goroutine, WaitReady, ReturnTunnel, ReturnError, DeferredCancel, Callback,
     ClickCancel, Frame, CloseConnection
<1>2. stopped' = stopped \/ stopped' = TRUE
  BY DEF Goroutine, WaitReady, ReturnTunnel, ReturnError, StopOnError, DeferredCancel,
     Callback, ClickCancel, Frame, CloseConnection
<1> QED
  BY <1>1, <1>2 DEF runVars, Supervised!Next, Supervised!Ask, Supervised!vars

\* A step of the tunnel is a step of the session, or none.
LEMMA NextRefines == TunnelInv /\ [Next]_vars => [Supervised!Next]_(Supervised!vars)
<1>1. ASSUME TunnelInv, Run
      PROVE  [Supervised!Next]_(Supervised!vars)
  BY <1>1, RunRefines
<1>2. ASSUME TunnelInv, Goroutine \/ Callback \/ ClickCancel \/ Frame \/ CloseConnection
      PROVE  [Supervised!Next]_(Supervised!vars)
  BY <1>2, CardRefines
<1>3. ASSUME UNCHANGED vars
      PROVE  [Supervised!Next]_(Supervised!vars)
  BY <1>3 DEF vars, runVars, Supervised!vars
<1> QED
  BY <1>1, <1>2, <1>3 DEF Next

\* The tunnel implements the session its owner relies on: tried again when it
\* drops, and once failed or stopped, never back.
THEOREM ImplementsSession == Spec => ImplementsSupervisor
  BY InitRefines, NextRefines, TunnelInvariant, PTL
     DEF Spec, ImplementsSupervisor, Supervised!Spec

-----------------------------------------------------------------------------
(* The SSH tunnel: nothing is left of a failed Start or of a Stop *)

\* A socket is open only while the goroutine that will close it is there.
SocketsHeld == \A f \in sockets : forward[f] \in {"dial", "track", "pipe"}

\* Until Start returns the tunnel nothing but the connection to the jump host is there,
\* and how far Start has come shows on it.
StartInOrder ==
  /\ start # "up" =>
       /\ accept = "none" /\ keepalive = "none" /\ lastErr = NoErr
       /\ \A f \in Forward : forward[f] = "none"
       /\ sockets = {} /\ tracked = {} /\ ~listening /\ ~closed
       /\ \A s \in Stopper : stop[s].at = "idle"
  /\ start \in {"prepare", "dial"} => client = "none"
  /\ start = "handshake" => client \in {"raw", "dead"}
  /\ start \in {"leave", "listen"} => client \in {"alive", "dead"}
  /\ start = "up" => client \in {"alive", "dead", "closed"}
  /\ start = "failed" => client \in {"none", "closed"}

\* How far a Stop has come shows on what it tears down.
TornDownInOrder ==
  /\ start = "up" /\ ~listening => closed
  /\ start = "up" /\ client = "closed" => closed
  /\ \A s \in Stopper :
       /\ stop[s].at \in {"listener", "conns", "client", "wait", "stopped"} => closed
       /\ stop[s].at \in {"conns", "client", "wait", "stopped"} => ~listening
       /\ stop[s].at \in {"wait", "stopped"} => client = "closed"

\* A loop that is about to report an error has seen a failure or a Stop.
ErrorsHaveCauses ==
  /\ client = "dead" => broken
  /\ accept = "failing" => broken \/ closed
  /\ keepalive = "failing" => broken \/ closed

SSHInv ==
  /\ SSHTypeOK
  /\ SocketsHeld
  /\ StartInOrder
  /\ TornDownInOrder
  /\ StoppedLeavesNothing
  /\ ErrorsHaveCauses
  /\ OrderlyStopNoError

-----------------------------------------------------------------------------
(* SSHInit *)

\* At first there is nothing at all.
LEMMA SSHInvInit == SSHInit => SSHInv
<1> SUFFICES ASSUME SSHInit PROVE SSHInv
  OBVIOUS
<1> USE DEF SSHInit
<1>1. SSHTypeOK
  BY DEF SSHTypeOK, Stopper, NoErr
<1>2. SocketsHeld
  BY DEF SocketsHeld
<1>7. StartInOrder
  BY DEF StartInOrder, Stopper
<1>3. TornDownInOrder
  BY DEF TornDownInOrder, Stopper
<1>4. StoppedLeavesNothing
  BY DEF StoppedLeavesNothing, Stopper
<1>5. ErrorsHaveCauses
  BY DEF ErrorsHaveCauses
<1>6. OrderlyStopNoError
  BY DEF OrderlyStopNoError, NoErr
<1> QED
  BY <1>1, <1>2, <1>3, <1>4, <1>5, <1>6, <1>7 DEF SSHInv

-----------------------------------------------------------------------------
(* Steps, one kind of thread at a time *)

\* fail changes nothing but the first error, and the Stop that goroutine calls.
LEMMA FailEffect ==
  ASSUME SSHTypeOK, NEW why \in {"accept", "lost"}, Fail(why)
  PROVE  /\ lastErr' \in {NoErr, "accept", "lost"}
         /\ stop' \in [Stopper -> [at : {"idle", "called", "listener", "conns",
                                         "client", "wait", "stopped", "returned"},
                                   conns : SUBSET Forward]]
         /\ closed => lastErr' = lastErr
         /\ \A s \in Stopper : stop'[s].at = "called" \/ stop'[s] = stop[s]
<1>1. CASE FailTakes
  <2>1. lastErr' = why /\ stop' = [stop EXCEPT !["fail"].at = "called"]
    BY <1>1 DEF Fail
  <2> QED
    BY <1>1, <2>1 DEF SSHTypeOK, FailTakes, Stopper
<1>2. CASE ~FailTakes
  BY <1>2 DEF Fail, SSHTypeOK
<1> QED
  BY <1>1, <1>2

\* Start.
LEMMA StartStep ==
  ASSUME SSHInv, Starting \/ ShakeHands \/ HandshakeFails \/ Abort \/ CloserRuns
  PROVE  SSHInv'
<1> USE DEF SSHInv, StartUnchanged
<1>1. CASE Prepare
  <2>1. /\ start = "prepare" /\ start' \in {"dial", "failed"}
        /\ trusted' \in BOOLEAN
        /\ UNCHANGED <<aborted, closer, listening, client, broken>> /\ StartUnchanged
    BY <1>1 DEF Prepare, HostKnown
  <2> QED
    BY <2>1 DEF SSHTypeOK, SocketsHeld, StartInOrder, TornDownInOrder,
       StoppedLeavesNothing, ErrorsHaveCauses, OrderlyStopNoError
<1>2. CASE DialHost
  BY <1>2 DEF DialHost, Armed, SSHTypeOK, SocketsHeld, StartInOrder,
     TornDownInOrder, StoppedLeavesNothing, ErrorsHaveCauses, OrderlyStopNoError
<1>3. CASE LeaveDial
  BY <1>3 DEF LeaveDial, TakeOff, SSHTypeOK, SocketsHeld, StartInOrder,
     TornDownInOrder, StoppedLeavesNothing, ErrorsHaveCauses, OrderlyStopNoError
<1>4. CASE Listen
  BY <1>4 DEF Listen, SSHTypeOK, SocketsHeld, StartInOrder,
     TornDownInOrder, StoppedLeavesNothing, ErrorsHaveCauses, OrderlyStopNoError
<1>5. CASE ListenFails
  BY <1>5 DEF ListenFails, AfterListenFails, SSHTypeOK, SocketsHeld, StartInOrder,
     TornDownInOrder, StoppedLeavesNothing, ErrorsHaveCauses, OrderlyStopNoError
<1>6. CASE ShakeHands
  BY <1>6 DEF ShakeHands, SSHTypeOK, SocketsHeld, StartInOrder,
     TornDownInOrder, StoppedLeavesNothing, ErrorsHaveCauses, OrderlyStopNoError
<1>7. CASE HandshakeFails
  BY <1>7 DEF HandshakeFails, TakeOff, SSHTypeOK, SocketsHeld, StartInOrder,
     TornDownInOrder, StoppedLeavesNothing, ErrorsHaveCauses, OrderlyStopNoError
<1>8. CASE Abort
  BY <1>8 DEF Abort, SSHTypeOK, SocketsHeld, StartInOrder,
     TornDownInOrder, StoppedLeavesNothing, ErrorsHaveCauses, OrderlyStopNoError
<1>9. CASE CloserRuns
  BY <1>9 DEF CloserRuns, SSHTypeOK, SocketsHeld, StartInOrder,
     TornDownInOrder, StoppedLeavesNothing, ErrorsHaveCauses, OrderlyStopNoError
<1> QED
  BY <1>1, <1>2, <1>3, <1>4, <1>5, <1>6, <1>7, <1>8, <1>9 DEF Starting

\* The accept loop.
LEMMA AcceptLoopStep ==
  ASSUME SSHInv, AcceptEnds \/ AcceptFails
  PROVE  SSHInv'
<1> USE DEF SSHInv
<1>1. CASE AcceptEnds
  BY <1>1 DEF AcceptEnds, startVars, SSHTypeOK, SocketsHeld, StartInOrder,
     TornDownInOrder, StoppedLeavesNothing, ErrorsHaveCauses, OrderlyStopNoError
<1>2. CASE AcceptFails
  <2>1. Fail("accept")
    BY <1>2 DEF AcceptFails
  <2>2. /\ lastErr' \in {NoErr, "accept", "lost"}
        /\ stop' \in [Stopper -> [at : {"idle", "called", "listener", "conns",
                                        "client", "wait", "stopped", "returned"},
                                  conns : SUBSET Forward]]
        /\ closed => lastErr' = lastErr
        /\ \A s \in Stopper : stop'[s].at = "called" \/ stop'[s] = stop[s]
    BY <2>1, FailEffect
  <2>3. SSHTypeOK'
    BY <1>2, <2>2 DEF AcceptFails, startVars, SSHTypeOK
  <2>4. TornDownInOrder'
    BY <1>2, <2>2 DEF AcceptFails, startVars, TornDownInOrder
  <2>5. StoppedLeavesNothing'
    BY <1>2, <2>2 DEF AcceptFails, startVars, StoppedLeavesNothing
  <2>6. SocketsHeld' /\ StartInOrder' /\ ErrorsHaveCauses' /\ OrderlyStopNoError'
    BY <1>2, <2>2 DEF AcceptFails, startVars, SocketsHeld, StartInOrder, ErrorsHaveCauses,
       OrderlyStopNoError
  <2> QED
    BY <2>3, <2>4, <2>5, <2>6
<1> QED
  BY <1>1, <1>2

\* The keepalive loop.
LEMMA KeepaliveStep ==
  ASSUME SSHInv, Tick \/ Ping \/ PingFails
  PROVE  SSHInv'
<1> USE DEF SSHInv
<1>1. CASE Tick
  BY <1>1 DEF Tick, startVars, SSHTypeOK, SocketsHeld, StartInOrder,
     TornDownInOrder, StoppedLeavesNothing, ErrorsHaveCauses, OrderlyStopNoError
<1>2. CASE Ping
  BY <1>2 DEF Ping, startVars, AfterBadPing, SSHTypeOK, SocketsHeld, StartInOrder,
     TornDownInOrder, StoppedLeavesNothing, ErrorsHaveCauses, OrderlyStopNoError
<1>3. CASE PingFails
  <2>1. Fail("lost")
    BY <1>3 DEF PingFails
  <2>2. /\ lastErr' \in {NoErr, "accept", "lost"}
        /\ stop' \in [Stopper -> [at : {"idle", "called", "listener", "conns",
                                        "client", "wait", "stopped", "returned"},
                                  conns : SUBSET Forward]]
        /\ closed => lastErr' = lastErr
        /\ \A s \in Stopper : stop'[s].at = "called" \/ stop'[s] = stop[s]
    BY <2>1, FailEffect
  <2>3. SSHTypeOK'
    BY <1>3, <2>2 DEF PingFails, startVars, SSHTypeOK
  <2>4. TornDownInOrder'
    BY <1>3, <2>2 DEF PingFails, startVars, TornDownInOrder
  <2>5. StoppedLeavesNothing'
    BY <1>3, <2>2 DEF PingFails, startVars, StoppedLeavesNothing
  <2>6. SocketsHeld' /\ StartInOrder' /\ ErrorsHaveCauses' /\ OrderlyStopNoError'
    BY <1>3, <2>2 DEF PingFails, startVars, SocketsHeld, StartInOrder, ErrorsHaveCauses,
       OrderlyStopNoError
  <2> QED
    BY <2>3, <2>4, <2>5, <2>6
<1> QED
  BY <1>1, <1>2, <1>3

\* A forwarded connection.
LEMMA ForwardStep ==
  ASSUME SSHInv, NEW f \in Forward, Accept(f) \/ Dial(f) \/ Track(f) \/ EndPipe(f)
  PROVE  SSHInv'
<1> USE DEF SSHInv
<1>1. CASE Accept(f)
  BY <1>1 DEF Accept, startVars, SSHTypeOK, SocketsHeld, StartInOrder,
     TornDownInOrder, StoppedLeavesNothing, ErrorsHaveCauses, OrderlyStopNoError
<1>2. CASE Dial(f)
  BY <1>2 DEF Dial, startVars, Leave, SSHTypeOK, SocketsHeld, StartInOrder,
     TornDownInOrder, StoppedLeavesNothing, ErrorsHaveCauses, OrderlyStopNoError
<1>3. CASE Track(f)
  BY <1>3 DEF Track, startVars, TrackRefuses, Leave, SSHTypeOK, SocketsHeld, StartInOrder,
     TornDownInOrder, StoppedLeavesNothing, ErrorsHaveCauses, OrderlyStopNoError
<1>4. CASE EndPipe(f)
  BY <1>4 DEF EndPipe, startVars, Leave, SSHTypeOK, SocketsHeld, StartInOrder,
     TornDownInOrder, StoppedLeavesNothing, ErrorsHaveCauses, OrderlyStopNoError
<1> QED
  BY <1>1, <1>2, <1>3, <1>4

\* A call of Stop.
LEMMA StopStep ==
  ASSUME SSHInv, NEW s \in Stopper, Stop(s)
  PROVE  SSHInv'
<1> USE DEF SSHInv
<1>1. CASE BeginStop(s)
  <2>1. CASE closed
    BY <1>1, <2>1 DEF BeginStop, startVars, SSHTypeOK, SocketsHeld, StartInOrder,
     TornDownInOrder,   StoppedLeavesNothing, ErrorsHaveCauses, OrderlyStopNoError
  <2>2. CASE ~closed
    <3>1. /\ stop' = [stop EXCEPT ![s] = [at |-> "listener", conns |-> tracked]]
          /\ closed' = TRUE /\ tracked' = {}
          /\ UNCHANGED <<start, trusted, aborted, closer, lastErr, listening, client,
                         accept, keepalive, forward, sockets, broken>>
      BY <1>1, <2>2 DEF BeginStop, startVars
    <3>2. SSHTypeOK'
      BY <3>1 DEF SSHTypeOK
    <3>3. TornDownInOrder'
      BY <2>2, <3>1 DEF TornDownInOrder, SSHTypeOK
    <3>4. StoppedLeavesNothing'
      BY <3>1 DEF StoppedLeavesNothing, SSHTypeOK
    <3>5. SocketsHeld' /\ ErrorsHaveCauses' /\ OrderlyStopNoError'
      BY <3>1 DEF SocketsHeld, ErrorsHaveCauses, OrderlyStopNoError
    <3>6. start = "up"
      BY <1>1 DEF BeginStop, StartInOrder
    <3>7. StartInOrder'
      BY <3>1, <3>6 DEF StartInOrder
    <3> QED
      BY <3>2, <3>3, <3>4, <3>5, <3>7
  <2> QED
    BY <2>1, <2>2
<1>2. CASE CloseListener(s)
  <2>1. start = "up"
    BY <1>2 DEF CloseListener, StartInOrder
  <2>5. SSHTypeOK'
    <3>1. /\ stop' = [stop EXCEPT ![s].at = "conns"] /\ listening' = FALSE
          /\ UNCHANGED <<start, trusted, aborted, closer, closed, lastErr, tracked,
                         client, accept, keepalive, forward, sockets, broken>>
      BY <1>2 DEF CloseListener, startVars
    <3>2. stop' \in [Stopper -> [at : {"idle", "called", "listener", "conns",
                                     "client", "wait", "stopped", "returned"},
                                conns : SUBSET Forward]]
      BY <3>1 DEF SSHTypeOK
    <3>3. {trusted, aborted, closed, listening, broken}' \subseteq BOOLEAN
      BY <3>1 DEF SSHTypeOK
    <3> QED
      BY <3>1, <3>2, <3>3 DEF SSHTypeOK
  <2>2. SocketsHeld' /\ StartInOrder' /\ ErrorsHaveCauses'
    BY <1>2, <2>1 DEF CloseListener, startVars, SocketsHeld, StartInOrder,
       ErrorsHaveCauses
  <2>3. TornDownInOrder'
    BY <1>2, <2>1 DEF CloseListener, startVars, SSHTypeOK, TornDownInOrder
  <2>4. StoppedLeavesNothing' /\ OrderlyStopNoError'
    BY <1>2, <2>1 DEF CloseListener, startVars, SSHTypeOK, StoppedLeavesNothing,
       OrderlyStopNoError
  <2> QED
    BY <2>2, <2>3, <2>4, <2>5
<1>3. CASE CloseConns(s)
  BY <1>3 DEF CloseConns, startVars, SSHTypeOK, SocketsHeld, StartInOrder,
     TornDownInOrder, StoppedLeavesNothing, ErrorsHaveCauses, OrderlyStopNoError
<1>4. CASE CloseClient(s)
  BY <1>4 DEF CloseClient, startVars, SSHTypeOK, SocketsHeld, StartInOrder,
     TornDownInOrder, StoppedLeavesNothing, ErrorsHaveCauses, OrderlyStopNoError
<1>5. CASE EndStop(s)
  <2>1. sockets = {}
    BY <1>5 DEF EndStop, startVars, AllLeft, SocketsHeld, SSHTypeOK
  <2> QED
    BY <1>5, <2>1 DEF EndStop, startVars, AllLeft, SSHTypeOK, SocketsHeld, StartInOrder,
     TornDownInOrder,   StoppedLeavesNothing, ErrorsHaveCauses, OrderlyStopNoError
<1> QED
  BY <1>1, <1>2, <1>3, <1>4, <1>5 DEF Stop

\* The main thread and the network.
LEMMA OutsideStep ==
  ASSUME SSHInv, CallStop \/ LoseClient
  PROVE  SSHInv'
<1> USE DEF SSHInv
<1>1. CASE CallStop
  BY ZenonT(60), <1>1 DEF CallStop, startVars, SSHTypeOK, SocketsHeld, StartInOrder,
     TornDownInOrder, StoppedLeavesNothing, ErrorsHaveCauses, OrderlyStopNoError
<1>2. CASE LoseClient
  BY <1>2 DEF LoseClient, startVars, SSHTypeOK, SocketsHeld, StartInOrder,
     TornDownInOrder, StoppedLeavesNothing, ErrorsHaveCauses, OrderlyStopNoError
<1> QED
  BY <1>1, <1>2

-----------------------------------------------------------------------------
(* Theorems *)

\* The invariant is inductive: every thread keeps it.
LEMMA SSHInvStep == SSHInv /\ [SSHNext]_sshVars => SSHInv'
<1> SUFFICES ASSUME SSHInv, [SSHNext]_sshVars PROVE SSHInv'
  OBVIOUS
<1>7. CASE Starting \/ ShakeHands \/ HandshakeFails \/ Abort \/ CloserRuns
  BY <1>7, StartStep
<1>1. CASE AcceptEnds \/ AcceptFails
  BY <1>1, AcceptLoopStep
<1>2. CASE Tick \/ Ping \/ PingFails
  BY <1>2, KeepaliveStep
<1>3. CASE \E f \in Forward : Accept(f) \/ Dial(f) \/ Track(f) \/ EndPipe(f)
  BY <1>3, ForwardStep
<1>4. CASE \E s \in Stopper : Stop(s)
  BY <1>4, StopStep
<1>5. CASE CallStop \/ LoseClient
  BY <1>5, OutsideStep
<1>6. CASE UNCHANGED sshVars
  BY <1>6 DEF sshVars, startVars, SSHInv, SSHTypeOK, SocketsHeld, StartInOrder,
     TornDownInOrder, StoppedLeavesNothing, ErrorsHaveCauses, OrderlyStopNoError
<1> QED
  BY <1>1, <1>2, <1>3, <1>4, <1>5, <1>6, <1>7 DEF SSHNext

\* Every reachable state satisfies the inductive invariant.
THEOREM SSHInvariant == SSHSpec => []SSHInv
  BY SSHInvInit, SSHInvStep, PTL DEF SSHSpec

\* Types: in particular the table of connections, nil after Stop, is never
\* written again (tunnel.go, track).
THEOREM SSHTypes == SSHSpec => []SSHTypeOK
<1>1. SSHInv => SSHTypeOK
  BY DEF SSHInv
<1> QED
  BY <1>1, SSHInvariant, PTL

\* When Start has failed, wherever it failed, the connection to the jump host is closed;
\* when Stop has returned no thread, socket or listener is left, however many
\* connections were being accepted, dialled or forwarded when it was called.
THEOREM StopIsComplete == SSHSpec => []StoppedLeavesNothing
<1>1. SSHInv => StoppedLeavesNothing
  BY DEF SSHInv
<1> QED
  BY <1>1, SSHInvariant, PTL

\* The loops that see their listener and client closed under them by Stop never
\* record that as the tunnel's error.
THEOREM OrderlyStopHasNoError == SSHSpec => []OrderlyStopNoError
<1>1. SSHInv => OrderlyStopNoError
  BY DEF SSHInv
<1> QED
  BY <1>1, SSHInvariant, PTL

-----------------------------------------------------------------------------
(* The database pool: MySQL never accepts writes, a dead session heals *)

\* Who has the connection, and when the worker is in between requests.
PoolShape ==
  /\ user # "free" => session # "none"
  /\ user = "worker" => step \in Statement
  /\ user = "lister" => lister = "reading"
  /\ handle \in {"ping", "set", "failed"}
       => step = "idle" /\ user = "free" /\ lister = "idle"
  /\ step # "idle" => answer = "none"

\* Every MySQL session is guarded from its first moment.
MySQLGuarded == engine = "mysql" /\ session # "none" => guarded

\* While the check is repeated and nothing has come in the way since the reset,
\* the way is free: the next check finds a live session or opens one.
WayIsFree ==
  step \in {"ping", "backoff"} /\ ~hindered
    => link /\ session \in {"none", "live"} /\ user # "lister" /\ ~left /\ handle = "open"

PoolInv == PoolTypeOK /\ PoolShape /\ MySQLGuarded /\ WayIsFree /\ StaleSessionHeals
-----------------------------------------------------------------------------
\* The invariant holds at the start.
LEMMA PoolInvInit == ASSUME PoolInit PROVE PoolInv
<1>1. PoolTypeOK
  <2>1. 0 \in 0 .. MaxTries
    BY PoolAssumption
  <2> QED
    BY <2>1 DEF PoolInit, PoolTypeOK, Statement
<1>2. PoolShape /\ MySQLGuarded /\ WayIsFree /\ StaleSessionHeals
  BY DEF PoolInit, PoolShape, MySQLGuarded, WayIsFree, StaleSessionHeals
<1> QED
  BY <1>1, <1>2 DEF PoolInv

\* Opening the pool, and telling Postgres once.
LEMMA OpeningStep ==
  ASSUME PoolInv, Open \/ SetReadOnly
  PROVE  PoolInv'
<1> USE DEF Open, SetReadOnly, Connect, linkVars, requestVars, Discard, KeepSession
<1>1. PoolTypeOK'
  BY DEF PoolInv, PoolTypeOK, PoolShape, Statement
<1>2. PoolShape'
  BY DEF PoolInv, PoolTypeOK, PoolShape, Statement
<1>3. MySQLGuarded'
  BY DEF PoolInv, PoolTypeOK, MySQLGuarded
<1>4. WayIsFree'
  BY DEF PoolInv, PoolTypeOK, PoolShape, WayIsFree, Statement
<1>5. StaleSessionHeals'
  BY DEF PoolInv, PoolTypeOK, PoolShape, WayIsFree, StaleSessionHeals, Statement
<1> QED
  BY <1>1, <1>2, <1>3, <1>4, <1>5 DEF PoolInv

\* A request begins as hindered: its first check follows no reset.
LEMMA AskStep ==
  ASSUME NEW k \in {"query", "sql", "refresh"}, PoolInv, AskWorker(k)
  PROVE  PoolInv'
<1> USE DEF AskWorker, ResetPool, linkVars, requestVars, Discard, KeepSession
<1>1. PoolTypeOK'
  <2>1. /\ guarded' \in BOOLEAN /\ link' \in BOOLEAN /\ notice' \in BOOLEAN
        /\ left' \in BOOLEAN /\ hindered' \in BOOLEAN
    BY DEF PoolInv, PoolTypeOK
  <2>2. tries' \in 0 .. MaxTries
    BY PoolAssumption DEF PoolInv, PoolTypeOK
  <2>3. /\ engine' \in {"postgres", "mysql"}
        /\ handle' \in {"ping", "set", "open", "failed", "stopping", "closed"}
        /\ session' \in {"none", "live", "dead", "silent"}
        /\ user' \in {"free", "worker", "lister"}
    BY DEF PoolInv, PoolTypeOK
  <2>4. /\ request' \in {"query", "sql", "refresh"}
        /\ step' \in Statement \cup {"idle", "backoff"}
        /\ answer' \in {"none", "ok", "error", "unhealthy"}
        /\ lister' \in {"idle", "waiting", "reading"}
    BY DEF PoolInv, PoolTypeOK, Statement
  <2> QED
    BY <2>1, <2>2, <2>3, <2>4 DEF PoolTypeOK
<1>2. PoolShape'
  BY DEF PoolInv, PoolTypeOK, PoolShape, Statement
<1>3. MySQLGuarded'
  BY DEF PoolInv, PoolTypeOK, MySQLGuarded
<1>4. WayIsFree'
  BY DEF PoolInv, PoolTypeOK, PoolShape, WayIsFree, Statement
<1>5. StaleSessionHeals'
  BY DEF PoolInv, PoolTypeOK, PoolShape, WayIsFree, StaleSessionHeals, Statement
<1> QED
  BY <1>1, <1>2, <1>3, <1>4, <1>5 DEF PoolInv

\* The pool hands its connection out.
LEMMA TakeStep ==
  ASSUME PoolInv, WorkerTakes \/ ListerTakes
  PROVE  PoolInv'
<1> USE DEF WorkerTakes, ListerTakes, Take, Connect, linkVars, requestVars, Discard,
        KeepSession
<1>1. PoolTypeOK'
  BY DEF PoolInv, PoolTypeOK, PoolShape, Statement
<1>2. PoolShape'
  BY DEF PoolInv, PoolTypeOK, PoolShape, Statement
<1>3. MySQLGuarded'
  BY DEF PoolInv, PoolTypeOK, MySQLGuarded
<1>4. WayIsFree'
  BY DEF PoolInv, PoolTypeOK, PoolShape, WayIsFree, Statement
<1>5. StaleSessionHeals'
  BY DEF PoolInv, PoolTypeOK, PoolShape, WayIsFree, StaleSessionHeals, Statement
<1> QED
  BY <1>1, <1>2, <1>3, <1>4, <1>5 DEF PoolInv

\* A statement of the worker's is answered.
LEMMA AnsweredStep ==
  ASSUME PoolInv, CheckOk \/ CountOk \/ PageOk \/ TablesOk \/ SchemasOk
  PROVE  PoolInv'
<1> USE DEF CheckOk, CountOk, PageOk, TablesOk, SchemasOk, Answered, Answer, GiveBack,
        linkVars, requestVars, Discard, KeepSession
<1>1. PoolTypeOK'
  BY DEF PoolInv, PoolTypeOK, PoolShape, Statement
<1>2. PoolShape'
  BY DEF PoolInv, PoolTypeOK, PoolShape, Statement
<1>3. MySQLGuarded'
  BY DEF PoolInv, PoolTypeOK, MySQLGuarded
<1>4. WayIsFree'
  BY DEF PoolInv, PoolTypeOK, PoolShape, WayIsFree, Statement
<1>5. StaleSessionHeals'
  BY DEF PoolInv, PoolTypeOK, PoolShape, WayIsFree, StaleSessionHeals, Statement
<1> QED
  BY <1>1, <1>2, <1>3, <1>4, <1>5 DEF PoolInv

\* A statement other than the check fails.
LEMMA FailedStep ==
  ASSUME PoolInv, QueryFails \/ RefreshFails
  PROVE  PoolInv'
<1> USE DEF QueryFails, RefreshFails, Failing, Cancelled, Unreachable, Answer, Returned,
        ResetPool, GiveBack, linkVars, requestVars, Discard, KeepSession
<1>1. PoolTypeOK'
  <2>1. /\ guarded' \in BOOLEAN /\ link' \in BOOLEAN /\ notice' \in BOOLEAN
        /\ left' \in BOOLEAN /\ hindered' \in BOOLEAN
    BY DEF PoolInv, PoolTypeOK
  <2>2. tries' \in 0 .. MaxTries
    BY PoolAssumption DEF PoolInv, PoolTypeOK
  <2>3. /\ engine' \in {"postgres", "mysql"}
        /\ handle' \in {"ping", "set", "open", "failed", "stopping", "closed"}
        /\ session' \in {"none", "live", "dead", "silent"}
        /\ user' \in {"free", "worker", "lister"}
    BY DEF PoolInv, PoolTypeOK
  <2>4. /\ request' \in {"query", "sql", "refresh"}
        /\ step' \in Statement \cup {"idle", "backoff"}
        /\ answer' \in {"none", "ok", "error", "unhealthy"}
        /\ lister' \in {"idle", "waiting", "reading"}
    BY DEF PoolInv, PoolTypeOK, Statement
  <2> QED
    BY <2>1, <2>2, <2>3, <2>4 DEF PoolTypeOK
<1>2. PoolShape'
  BY DEF PoolInv, PoolTypeOK, PoolShape, Statement
<1>3. MySQLGuarded'
  BY DEF PoolInv, PoolTypeOK, MySQLGuarded
<1>4. WayIsFree'
  BY DEF PoolInv, PoolTypeOK, PoolShape, WayIsFree, Statement
<1>5. StaleSessionHeals'
  BY DEF PoolInv, PoolTypeOK, PoolShape, WayIsFree, StaleSessionHeals, Statement
<1> QED
  BY <1>1, <1>2, <1>3, <1>4, <1>5 DEF PoolInv

\* A check fails: it was hindered, or it is the first since the reset.
LEMMA CheckFailsStep ==
  ASSUME PoolInv, CheckFails
  PROVE  PoolInv'
<1> USE DEF CheckFails, Failing, Cancelled, Unreachable, Answer, Returned, ResetPool,
        GiveBack, LastTry, linkVars, requestVars, Discard, KeepSession
<1>1. PoolTypeOK'
  <2>1. /\ guarded' \in BOOLEAN /\ link' \in BOOLEAN /\ notice' \in BOOLEAN
        /\ left' \in BOOLEAN /\ hindered' \in BOOLEAN
    BY DEF PoolInv, PoolTypeOK
  <2>2. tries' \in 0 .. MaxTries
    BY PoolAssumption DEF PoolInv, PoolTypeOK
  <2>3. /\ engine' \in {"postgres", "mysql"}
        /\ handle' \in {"ping", "set", "open", "failed", "stopping", "closed"}
        /\ session' \in {"none", "live", "dead", "silent"}
        /\ user' \in {"free", "worker", "lister"}
    BY DEF PoolInv, PoolTypeOK
  <2>4. /\ request' \in {"query", "sql", "refresh"}
        /\ step' \in Statement \cup {"idle", "backoff"}
        /\ answer' \in {"none", "ok", "error", "unhealthy"}
        /\ lister' \in {"idle", "waiting", "reading"}
    BY DEF PoolInv, PoolTypeOK, Statement
  <2> QED
    BY <2>1, <2>2, <2>3, <2>4 DEF PoolTypeOK
<1>2. PoolShape'
  BY DEF PoolInv, PoolTypeOK, PoolShape, Statement
<1>3. MySQLGuarded'
  BY DEF PoolInv, PoolTypeOK, MySQLGuarded
<1>4. WayIsFree'
  BY DEF PoolInv, PoolTypeOK, PoolShape, WayIsFree, Statement
<1>5. StaleSessionHeals'
  BY DEF PoolInv, PoolTypeOK, PoolShape, WayIsFree, StaleSessionHeals, Statement
<1> QED
  BY <1>1, <1>2, <1>3, <1>4, <1>5 DEF PoolInv

\* The pause is over, or cut short by a cancel.
LEMMA BackedOffStep ==
  ASSUME PoolInv, BackedOff
  PROVE  PoolInv'
<1> USE DEF BackedOff, Cancelled, Answer, linkVars, requestVars, Discard, KeepSession
<1>1. PoolTypeOK'
  BY DEF PoolInv, PoolTypeOK, PoolShape, Statement
<1>2. PoolShape'
  BY DEF PoolInv, PoolTypeOK, PoolShape, Statement
<1>3. MySQLGuarded'
  BY DEF PoolInv, PoolTypeOK, MySQLGuarded
<1>4. WayIsFree'
  BY DEF PoolInv, PoolTypeOK, PoolShape, WayIsFree, Statement
<1>5. StaleSessionHeals'
  BY DEF PoolInv, PoolTypeOK, PoolShape, WayIsFree, StaleSessionHeals, Statement
<1> QED
  BY <1>1, <1>2, <1>3, <1>4, <1>5 DEF PoolInv

\* The client, the switcher and the main thread.
LEMMA OthersStep ==
  ASSUME PoolInv, ClientLeaves \/ OpenSwitcher \/ ListerEnds \/ SeeTunnelDown \/
         SeeTunnelUp \/ StopWorker \/ Close
  PROVE  PoolInv'
<1> USE DEF ClientLeaves, OpenSwitcher, ListerEnds, SeeTunnelDown, SeeTunnelUp,
        StopWorker, Close, Unreachable, ResetPool, GiveBack, linkVars, requestVars,
        Discard, KeepSession
<1>1. PoolTypeOK'
  BY DEF PoolInv, PoolTypeOK, PoolShape, Statement
<1>2. PoolShape'
  BY DEF PoolInv, PoolTypeOK, PoolShape, Statement
<1>3. MySQLGuarded'
  BY DEF PoolInv, PoolTypeOK, MySQLGuarded
<1>4. WayIsFree'
  BY DEF PoolInv, PoolTypeOK, PoolShape, WayIsFree, Statement
<1>5. StaleSessionHeals'
  BY DEF PoolInv, PoolTypeOK, PoolShape, WayIsFree, StaleSessionHeals, Statement
<1> QED
  BY <1>1, <1>2, <1>3, <1>4, <1>5 DEF PoolInv

\* The pool's clock, the server and the network.
LEMMA WorldStep ==
  ASSUME PoolInv, Expire \/ SessionDies \/ LinkDrops \/ LinkReturns
  PROVE  PoolInv'
<1> USE DEF Expire, SessionDies, LinkDrops, LinkReturns, Dying, linkVars, requestVars,
        Discard, KeepSession
<1>1. PoolTypeOK'
  <2>1. /\ guarded' \in BOOLEAN /\ link' \in BOOLEAN /\ notice' \in BOOLEAN
        /\ left' \in BOOLEAN /\ hindered' \in BOOLEAN
    BY DEF PoolInv, PoolTypeOK
  <2>2. tries' \in 0 .. MaxTries
    BY PoolAssumption DEF PoolInv, PoolTypeOK
  <2>3. /\ engine' \in {"postgres", "mysql"}
        /\ handle' \in {"ping", "set", "open", "failed", "stopping", "closed"}
        /\ session' \in {"none", "live", "dead", "silent"}
        /\ user' \in {"free", "worker", "lister"}
    BY DEF PoolInv, PoolTypeOK
  <2>4. /\ request' \in {"query", "sql", "refresh"}
        /\ step' \in Statement \cup {"idle", "backoff"}
        /\ answer' \in {"none", "ok", "error", "unhealthy"}
        /\ lister' \in {"idle", "waiting", "reading"}
    BY DEF PoolInv, PoolTypeOK, Statement
  <2> QED
    BY <2>1, <2>2, <2>3, <2>4 DEF PoolTypeOK
<1>2. PoolShape'
  BY DEF PoolInv, PoolTypeOK, PoolShape, Statement
<1>3. MySQLGuarded'
  BY DEF PoolInv, PoolTypeOK, MySQLGuarded
<1>4. WayIsFree'
  BY DEF PoolInv, PoolTypeOK, PoolShape, WayIsFree, Statement
<1>5. StaleSessionHeals'
  BY DEF PoolInv, PoolTypeOK, PoolShape, WayIsFree, StaleSessionHeals, Statement
<1> QED
  BY <1>1, <1>2, <1>3, <1>4, <1>5 DEF PoolInv

\* Every step keeps the invariant.
LEMMA PoolInvStep == PoolInv /\ [PoolNext]_poolVars => PoolInv'
<1> SUFFICES ASSUME PoolInv, [PoolNext]_poolVars PROVE PoolInv'
  OBVIOUS
<1>1. CASE UNCHANGED poolVars
  BY <1>1 DEF PoolInv, PoolTypeOK, PoolShape, MySQLGuarded, WayIsFree, StaleSessionHeals,
              poolVars, linkVars, requestVars
<1>2. CASE PoolNext
  BY <1>2, OpeningStep, AskStep, TakeStep, AnsweredStep, FailedStep, CheckFailsStep,
     BackedOffStep, OthersStep, WorldStep
     DEF PoolNext, Worker
<1> QED
  BY <1>1, <1>2

\* The invariant holds always.
LEMMA PoolInvAlways == PoolSpec => []PoolInv
  BY PoolInvInit, PoolInvStep, PTL DEF PoolSpec
-----------------------------------------------------------------------------
\* The variables keep their types, whatever the number of checks.
THEOREM PoolTypes == PoolSpec => []PoolTypeOK
  BY PoolInvAlways, PTL DEF PoolInv

\* No statement runs over a MySQL session that accepts writes.
THEOREM MySQLNeverWrites == PoolSpec => []MySQLStaysReadOnly
<1>1. PoolInv => MySQLStaysReadOnly
  BY DEF PoolInv, PoolShape, PoolTypeOK, MySQLGuarded, MySQLStaysReadOnly
<1> QED
  BY <1>1, PoolInvAlways, PTL

\* A session that has died costs no request, however many checks there are.
THEOREM DeadSessionHeals == PoolSpec => []StaleSessionHeals
  BY PoolInvAlways, PTL DEF PoolInv

-----------------------------------------------------------------------------
(* The three together *)

\* A step of the composition is a step of one part, or none, and leaves the
\* others where they are.
LEMMA PartsStep ==
  [RemoteNext]_remoteVars => [Next]_vars /\ [SSHNext]_sshVars /\ [PoolNext]_poolVars
<1> SUFFICES ASSUME [RemoteNext]_remoteVars
             PROVE  [Next]_vars /\ [SSHNext]_sshVars /\ [PoolNext]_poolVars
  OBVIOUS
<1>1. CASE RemoteNext
  BY <1>1 DEF RemoteNext
<1>2. CASE UNCHANGED remoteVars
  BY <1>2 DEF remoteVars
<1> QED
  BY <1>1, <1>2

\* Every theorem about a part holds of the composition that the runs check.
THEOREM PartsKept == RemoteSpec => Spec /\ SSHSpec /\ PoolSpec
<1>1. RemoteInit => Init /\ SSHInit /\ PoolInit
  BY DEF RemoteInit
<1> QED
  BY <1>1, PartsStep, PTL DEF RemoteSpec, Spec, SSHSpec, PoolSpec
=============================================================================
