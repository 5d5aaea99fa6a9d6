----------------------------- MODULE SSHTunnel ------------------------------
(***************************************************************************)
(* One SSH port forward (sshtun/): Start, which dials the jump host and    *)
(* shakes hands with it under a context its caller may cancel; then the    *)
(* accept loop, a goroutine for each forwarded connection, the keepalive   *)
(* loop, and Stop, called by the main thread and, when the tunnel fails,   *)
(* by a goroutine of its own.                                              *)
(*                                                                         *)
(* A mutex guards closed, lastErr and the tracked connections; everything  *)
(* else of a Stop happens after the mutex is released, while the other     *)
(* threads go on.                                                          *)
(***************************************************************************)
EXTENDS Integers, FiniteSets

CONSTANTS
  Forward   \* the connections the database driver may make

VARIABLES
  start,     \* where Start is; "up" once it has returned the tunnel
  trusted,   \* the key of the jump host is the one in known_hosts
  aborted,   \* the context of Start is cancelled
  closer,    \* the callback that closes the socket with that context
  closed,    \* t.closed, and t.done: closed under the same lock
  lastErr,   \* t.lastErr
  tracked,   \* t.conns
  listening, \* the local listener is open
  client,    \* the connection to the jump host: "none", "raw" (no SSH yet),
             \* "alive", "dead" (lost) or "closed"
  accept,    \* where the accept loop is
  keepalive, \* where the keepalive loop is
  forward,   \* per connection, where its goroutine is
  sockets,   \* connections whose sockets are open
  stop,      \* per caller of Stop, where it is
  broken     \* history: the listener failed or the SSH connection was lost

startVars == <<start, trusted, aborted, closer>>
sshVars == <<startVars, closed, lastErr, tracked, listening, client, accept,
             keepalive, forward, sockets, stop, broken>>

Stopper == {"main", "fail"}   \* the main thread; the goroutine that fail starts
NoErr == "none"

SSHInit ==
  /\ start = "prepare" /\ trusted = FALSE /\ aborted = FALSE /\ closer = "none"
  /\ closed = FALSE
  /\ lastErr = NoErr
  /\ tracked = {}
  /\ listening = FALSE
  /\ client = "none"
  /\ accept = "none"
  /\ keepalive = "none"
  /\ forward = [f \in Forward |-> "none"]
  /\ sockets = {}
  /\ stop = [s \in Stopper |-> [at |-> "idle", conns |-> {}]]
  /\ broken = FALSE

-----------------------------------------------------------------------------
(* Start *)

\* What the user has chosen and what the machine has: the keys of the agent and on
\* disk, and what known_hosts says of the jump host.
Setup == [method : {"password", "key", "agent"}, secret : BOOLEAN,
          agent : BOOLEAN, key : {"none", "plain", "encrypted"},
          host : {"no file", "recorded", "unknown", "changed"}]

\* An encrypted key needs its passphrase.
KeyLoads(c) == c.key = "plain" \/ (c.key = "encrypted" /\ c.secret)

\* agentAuth, defaultIdentitySigners: with neither there is nothing to offer.
AgentOffers(c) == {m \in {"agent", "identities"} :
                     (m = "agent" /\ c.agent) \/ (m = "identities" /\ KeyLoads(c))}

AuthMethods(c) ==
  CASE c.method = "password" -> IF c.secret THEN {"password"} ELSE {}
    [] c.method = "key"      -> IF KeyLoads(c) THEN {"key"} ELSE {}
    [] c.method = "agent"    -> AgentOffers(c)

\* hostKeyCallback: a host must be in known_hosts, with the key it shows.
HostKnown(c) == c.host = "recorded"

StartUnchanged == UNCHANGED <<closed, lastErr, tracked, accept, keepalive, forward,
                              sockets, stop>>

Prepare ==
  /\ start = "prepare"
  /\ \E c \in Setup :
       /\ start' = IF AuthMethods(c) = {} \/ c.host = "no file" THEN "failed" ELSE "dial"
       /\ trusted' = HostKnown(c)
  /\ UNCHANGED <<aborted, closer, listening, client, broken>> /\ StartUnchanged

\* The dial ends within its timeout.  Then a callback on the context closes the
\* socket: at once, if the context is cancelled already.
Armed_Never == "off"
Armed == IF aborted THEN "fired" ELSE "armed"

DialHost ==
  /\ start = "dial"
  /\ \/ start' = "handshake" /\ client' = "raw" /\ closer' = Armed
     \/ start' = "failed" /\ UNCHANGED <<client, closer>>
  /\ UNCHANGED <<trusted, aborted, listening, broken>> /\ StartUnchanged

\* dialSSH takes the callback off on its way out, unless it runs already.
TakeOff == closer' = IF closer = "armed" THEN "off" ELSE closer

\* The handshake: nothing but the server and the socket ends it.
ShakeHands ==
  /\ start = "handshake" /\ client = "raw" /\ trusted
  /\ start' = "leave" /\ client' = "alive"
  /\ UNCHANGED <<trusted, aborted, closer, listening, broken>> /\ StartUnchanged

HandshakeFails ==
  /\ start = "handshake"
  /\ start' = "failed" /\ client' = "closed"
  /\ TakeOff
  /\ UNCHANGED <<trusted, aborted, listening, broken>> /\ StartUnchanged

LeaveDial ==
  /\ start = "leave"
  /\ start' = "listen"
  /\ TakeOff
  /\ UNCHANGED <<trusted, aborted, listening, client, broken>> /\ StartUnchanged

\* The local port is opened and the loops started; without it the client is closed.
Listen ==
  /\ start = "listen"
  /\ start' = "up"
  /\ listening' = TRUE
  /\ accept' = "accept" /\ keepalive' = "wait"
  /\ UNCHANGED <<trusted, aborted, closer, closed, lastErr, tracked, client, forward,
                 sockets, stop, broken>>

AfterListenFails_Kept == client
AfterListenFails == "closed"

ListenFails ==
  /\ start = "listen"
  /\ start' = "failed" /\ client' = AfterListenFails
  /\ UNCHANGED <<trusted, aborted, closer, listening, broken>> /\ StartUnchanged

\* The caller gives up.  A tunnel that is up does not mind.
Abort ==
  /\ ~aborted /\ start # "failed"
  /\ aborted' = TRUE
  /\ closer' = IF closer = "armed" THEN "fired" ELSE closer
  /\ UNCHANGED <<start, trusted, listening, client, broken>> /\ StartUnchanged

CloserRuns ==
  /\ closer = "fired"
  /\ closer' = "done"
  /\ client' = IF client \in {"raw", "alive"} THEN "dead" ELSE client
  /\ broken' = (broken \/ client' = "dead")
  /\ UNCHANGED <<start, trusted, aborted, listening>> /\ StartUnchanged

Starting == Prepare \/ DialHost \/ LeaveDial \/ Listen \/ ListenFails

-----------------------------------------------------------------------------
(* Failing *)

\* fail: the first error wins, and only on a tunnel that is not stopped.
FailTakes == ~closed /\ lastErr = NoErr

Fail(why) ==
  IF FailTakes
    THEN lastErr' = why /\ stop' = [stop EXCEPT !["fail"].at = "called"]
    ELSE UNCHANGED <<lastErr, stop>>

-----------------------------------------------------------------------------
(* The accept loop and the forwarded connections *)

\* The driver connects; the goroutine is counted before it starts.
Accept(f) ==
  /\ accept = "accept" /\ listening
  /\ forward[f] = "none"
  /\ forward' = [forward EXCEPT ![f] = "dial"]
  /\ sockets' = sockets \cup {f}
  /\ UNCHANGED <<startVars, closed, lastErr, tracked, listening, client, accept,
                 keepalive, stop, broken>>

\* Accept returns an error: the listener was closed, or failed.
AcceptEnds ==
  /\ accept = "accept"
  /\ broken' = (broken \/ listening)
  /\ accept' = IF closed THEN "done" ELSE "failing"
  /\ UNCHANGED <<startVars, closed, lastErr, tracked, listening, client,
                 keepalive, forward, sockets, stop>>

AcceptFails ==
  /\ accept = "failing"
  /\ accept' = "done"
  /\ Fail("accept")
  /\ UNCHANGED <<startVars, closed, tracked, listening, client, keepalive,
                 forward, sockets, broken>>

\* The goroutine leaves: its deferred calls close its sockets.
Leave(f) ==
  /\ forward' = [forward EXCEPT ![f] = "done"]
  /\ sockets' = sockets \ {f}

\* The channel to the database opens, or is refused, or the client is gone.
Dial(f) ==
  /\ forward[f] = "dial"
  /\ \/ /\ client = "alive"
        /\ forward' = [forward EXCEPT ![f] = "track"]
        /\ UNCHANGED sockets
     \/ Leave(f)
  /\ UNCHANGED <<startVars, closed, lastErr, tracked, listening, client, accept,
                 keepalive, stop, broken>>

\* track refuses once the tunnel is stopped.
TrackRefuses_Never == FALSE
TrackRefuses == closed

Track(f) ==
  /\ forward[f] = "track"
  /\ IF TrackRefuses
       THEN Leave(f) /\ UNCHANGED tracked
       ELSE /\ tracked' = tracked \cup {f}
            /\ forward' = [forward EXCEPT ![f] = "pipe"]
            /\ UNCHANGED sockets
  /\ UNCHANGED <<startVars, closed, lastErr, listening, client, accept,
                 keepalive, stop, broken>>

\* The copying ends: a side closed, or Stop closed the sockets.  The goroutine
\* untracks the pair, which may no longer be tracked, and leaves.
EndPipe(f) ==
  /\ forward[f] = "pipe"
  /\ Leave(f)
  /\ tracked' = tracked \ {f}
  /\ UNCHANGED <<startVars, closed, lastErr, listening, client, accept,
                 keepalive, stop, broken>>

-----------------------------------------------------------------------------
(* The keepalive loop *)

\* The select: the tunnel is done, or the ticker ticks.
Tick ==
  /\ keepalive = "wait"
  /\ \/ closed /\ keepalive' = "done"
     \/ keepalive' = "ping"
  /\ UNCHANGED <<startVars, closed, lastErr, tracked, listening, client, accept,
                 forward, sockets, stop, broken>>

\* A ping ends: well, or with an error once the client is dead or closed.
AfterBadPing_GoesOn == "wait"
AfterBadPing == "failing"

Ping ==
  /\ keepalive = "ping"
  /\ keepalive' = IF client = "alive" THEN "wait" ELSE AfterBadPing
  /\ UNCHANGED <<startVars, closed, lastErr, tracked, listening, client, accept,
                 forward, sockets, stop, broken>>

PingFails ==
  /\ keepalive = "failing"
  /\ keepalive' = "done"
  /\ Fail("lost")
  /\ UNCHANGED <<startVars, closed, tracked, listening, client, accept, forward,
                 sockets, broken>>

-----------------------------------------------------------------------------
(* Stop *)

CallStop ==
  /\ start = "up"
  /\ stop["main"].at = "idle"
  /\ stop' = [stop EXCEPT !["main"].at = "called"]
  /\ UNCHANGED <<startVars, closed, lastErr, tracked, listening, client, accept,
                 keepalive, forward, sockets, broken>>

\* Under the lock: a second Stop returns; the first takes the tracked
\* connections away.
BeginStop(s) ==
  /\ stop[s].at = "called"
  /\ IF closed
       THEN stop' = [stop EXCEPT ![s].at = "returned"] /\ UNCHANGED <<closed, tracked>>
       ELSE /\ stop' = [stop EXCEPT ![s] = [at |-> "listener", conns |-> tracked]]
            /\ closed' = TRUE
            /\ tracked' = {}
  /\ UNCHANGED <<startVars, lastErr, listening, client, accept, keepalive,
                 forward, sockets, broken>>

CloseListener(s) ==
  /\ stop[s].at = "listener"
  /\ listening' = FALSE
  /\ stop' = [stop EXCEPT ![s].at = "conns"]
  /\ UNCHANGED <<startVars, closed, lastErr, tracked, client, accept, keepalive,
                 forward, sockets, broken>>

CloseConns(s) ==
  /\ stop[s].at = "conns"
  /\ sockets' = sockets \ stop[s].conns
  /\ stop' = [stop EXCEPT ![s].at = "client"]
  /\ UNCHANGED <<startVars, closed, lastErr, tracked, listening, client, accept,
                 keepalive, forward, broken>>

CloseClient(s) ==
  /\ stop[s].at = "client"
  /\ client' = "closed"
  /\ stop' = [stop EXCEPT ![s].at = "wait"]
  /\ UNCHANGED <<startVars, closed, lastErr, tracked, listening, accept,
                 keepalive, forward, sockets, broken>>

\* The threads the wait group counts have all left.
AllLeft ==
  /\ accept = "done" /\ keepalive = "done"
  /\ \A f \in Forward : forward[f] \in {"none", "done"}

EndStop(s) ==
  /\ stop[s].at = "wait"
  /\ AllLeft
  /\ stop' = [stop EXCEPT ![s] = [at |-> "stopped", conns |-> {}]]
  /\ UNCHANGED <<startVars, closed, lastErr, tracked, listening, client, accept,
                 keepalive, forward, sockets, broken>>

Stop(s) ==
  BeginStop(s) \/ CloseListener(s) \/ CloseConns(s) \/ CloseClient(s) \/ EndStop(s)

\* The server or the network goes away.
LoseClient ==
  /\ client = "alive"
  /\ client' = "dead"
  /\ broken' = TRUE
  /\ UNCHANGED <<startVars, closed, lastErr, tracked, listening, accept,
                 keepalive, forward, sockets, stop>>

-----------------------------------------------------------------------------
SSHNext ==
  \/ Starting \/ ShakeHands \/ HandshakeFails \/ Abort \/ CloserRuns
  \/ AcceptEnds \/ AcceptFails \/ Tick \/ Ping \/ PingFails
  \/ \E f \in Forward : Accept(f) \/ Dial(f) \/ Track(f) \/ EndPipe(f)
  \/ \E s \in Stopper : Stop(s)
  \/ CallStop \/ LoseClient

\* Goroutines are scheduled and the ticker ticks; a dial ends.  A handshake ends once
\* its socket is closed, an accept once the listener is, a pair of copies once its
\* sockets are; nothing makes the jump host, the driver, the network or the user act.
SSHFairness ==
  /\ WF_sshVars(Starting) /\ WF_sshVars(CloserRuns)
  /\ WF_sshVars(HandshakeFails /\ client = "dead")
  /\ WF_sshVars(AcceptEnds /\ ~listening) /\ WF_sshVars(AcceptFails)
  /\ WF_sshVars(Tick \/ Ping \/ PingFails)
  /\ \A f \in Forward : /\ WF_sshVars(Dial(f) \/ Track(f))
                        /\ WF_sshVars(EndPipe(f) /\ f \notin sockets)
  /\ \A s \in Stopper : WF_sshVars(Stop(s))

SSHSpec == SSHInit /\ [][SSHNext]_sshVars
SSHFairSpec == SSHSpec /\ SSHFairness

-----------------------------------------------------------------------------
(* Properties *)

\* Types; once closed, the tracked connections are a nil map: an entry would panic.
SSHTypeOK ==
  /\ start \in {"prepare", "dial", "handshake", "leave", "listen", "up", "failed"}
  /\ closer \in {"none", "armed", "off", "fired", "done"}
  /\ {trusted, aborted, closed, listening, broken} \subseteq BOOLEAN
  /\ lastErr \in {NoErr, "accept", "lost"}
  /\ tracked \subseteq Forward /\ sockets \subseteq Forward
  /\ closed => tracked = {}
  /\ client \in {"none", "raw", "alive", "dead", "closed"}
  /\ accept \in {"none", "accept", "failing", "done"}
  /\ keepalive \in {"none", "wait", "ping", "failing", "done"}
  /\ forward \in [Forward -> {"none", "dial", "track", "pipe", "done"}]
  /\ stop \in [Stopper -> [at : {"idle", "called", "listener", "conns", "client",
                                 "wait", "stopped", "returned"},
                           conns : SUBSET Forward]]

\* Whatever ends a tunnel, a Start that fails at any point or the Stop that tears it
\* down, leaves nothing behind: no thread, no socket, no connection to the jump host,
\* no listener on the port, whatever was connecting meanwhile.
StoppedLeavesNothing ==
  (start = "failed" \/ \E s \in Stopper : stop[s].at = "stopped") =>
    /\ {accept, keepalive} \subseteq {"none", "done"}
    /\ \A f \in Forward : forward[f] \in {"none", "done"}
    /\ sockets = {} /\ ~listening /\ client \in {"none", "closed"}

\* "It stays up until Stop is called or the SSH connection dies; Err reports the
\* latter" (sshtun/tunnel.go:72): a tunnel that was only stopped has no error, though
\* its loops see their listener and their client fail under them.
OrderlyStopNoError == ~broken => lastErr = NoErr

\* Stop always returns: closing or reconnecting the connection waits for it on
\* the main thread.
StopReturns == (stop["main"].at = "called") ~> (stop["main"].at \in {"stopped", "returned"})

\* A lost SSH connection takes the tunnel down, so that the rail tile turns red
\* (app.go:3193) and the port is given back; one lost during Start ends up closed too,
\* also when the cancelled context closed its socket just as Start was done with it.
LossIsNoticed == (client = "dead") ~> (client = "closed" /\ ~listening)

\* "Cancelling ctx aborts the connection attempt" (sshtun/tunnel.go:93): however far it
\* is, and however silent the jump host.
CancelEndsStart == aborted ~> (start \in {"up", "failed"})

\* "Timeout bounds the TCP dial and SSH handshake" (sshtun/tunnel.go:46): Start ends by
\* itself.  It does not: the timeout reaches the dial alone, for NewClientConn does not
\* look at the one in its configuration, and a jump host that accepts and says nothing
\* holds Start for ever where its caller never cancels (connworker.go:616).
StartIsBounded == (start = "prepare") ~> (start \in {"up", "failed"})
=============================================================================
