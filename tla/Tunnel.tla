------------------------------- MODULE Tunnel -------------------------------
(***************************************************************************)
(* One SSM tunnel and the connection card that brings it up: the run loop  *)
(* of TunnelManager with its retries (aws/tunnel.go), SSMTunnel, which     *)
(* starts it and waits (connect/connect.go), and the card of the           *)
(* connection screen, whose button cancels (ui/gateway_screen.go).         *)
(*                                                                         *)
(* Three threads: the run loop, the goroutine that waits for the tunnel,   *)
(* and the main thread.  Cancelling the goroutine's context stops the      *)
(* tunnel through a callback, from a thread of its own, until SSMTunnel    *)
(* takes the callback off on its way out.  The deferred cancel of the      *)
(* card's goroutine then cancels the same context.                         *)
(***************************************************************************)
EXTENDS Integers

CONSTANT MaxAttempts   \* maxReconnectAttempts: 10 in the code

ASSUME TunnelAssumption == MaxAttempts \in Nat \ {0}

VARIABLES
  pc,        \* where the run loop is
  attempt,   \* failed attempts since the session was last up
  failure,   \* [kind, from]: why and where the last attempt failed
  status,    \* TunnelStatus
  stopped,   \* the run loop's context is cancelled
  waiter,    \* where the goroutine is: in SSMTunnel, or back from it
  cancelled, \* the goroutine's context is cancelled
  hook,      \* the callback that stops the tunnel with that context
  outcome,   \* what the goroutine leaves for the card
  card,      \* what the card shows
  clicked,   \* history: the user clicked Cancel
  released,  \* history: the connection's owner stopped the tunnel
  retries    \* history: attempts begun again since the session was last up

runVars  == <<pc, attempt, failure, status, retries>>
cardVars == <<waiter, cancelled, hook, outcome, card, clicked, released>>
vars == <<runVars, stopped, cardVars>>

NoFailure == [kind |-> "none", from |-> "none"]

\* SSMTunnel has started the tunnel and set the callback.
Init ==
  /\ pc = "check"
  /\ attempt = 0
  /\ failure = NoFailure
  /\ status = "Disconnected"
  /\ stopped = FALSE
  /\ waiter = "waiting"
  /\ cancelled = FALSE
  /\ hook = "armed"
  /\ outcome = "none"
  /\ card = "connecting"
  /\ clicked = FALSE
  /\ released = FALSE
  /\ retries = 0

-----------------------------------------------------------------------------
(* The run loop *)

\* The loop ends because its context is cancelled.
End ==
  /\ stopped
  /\ pc' = "done"
  /\ status' = "Disconnected"
  /\ UNCHANGED <<attempt, failure, retries>>

\* The head of the loop: a first attempt starts at once, another one backs off.
Check ==
  /\ pc = "check"
  /\ \/ End
     \/ /\ ~stopped
        /\ pc' = IF attempt = 0 THEN "config" ELSE "backoff"
        /\ status' = "Connecting"
        /\ retries' = IF attempt = 0 THEN 0 ELSE retries + 1
        /\ UNCHANGED <<attempt, failure>>

\* The pauses: before an attempt, and after a session to free its port.
Pause ==
  \/ /\ pc \in {"backoff", "release"}
     /\ End
  \/ /\ pc = "backoff"
     /\ pc' = "resolve"
     /\ UNCHANGED <<attempt, failure, status, retries>>
  \/ /\ pc = "release"
     /\ pc' = "check"
     /\ UNCHANGED <<attempt, failure, status, retries>>

Succeed ==
  /\ \/ pc = "resolve" /\ pc' = "config"
     \/ pc = "config" /\ pc' = "session"
  /\ status' = "Connecting"
  /\ UNCHANGED <<attempt, failure, retries>>

\* onReady: the local port answers.  The select may see it after a cancel.
AttemptWhenReady == 0

Ready ==
  /\ pc = "session"
  /\ pc' = "up"
  /\ status' = "Connected"
  /\ attempt' = AttemptWhenReady
  /\ retries' = 0
  /\ UNCHANGED failure

\* An attempt fails, or a session that was up ends; also when cancelled.
Break ==
  /\ pc \in {"resolve", "config", "session", "up"}
  /\ \E kind \in {"login", "permanent", "other"} :
       /\ kind = "permanent" => pc = "resolve"
       /\ failure' = [kind |-> kind, from |-> pc]
  /\ pc' = "ended"
  /\ UNCHANGED <<attempt, status, retries>>

\* First the context is looked at ...
Ended ==
  /\ pc = "ended"
  /\ \/ End
     \/ /\ ~stopped
        /\ pc' = "judge"
        /\ UNCHANGED <<attempt, failure, status, retries>>

\* ... then the failure: an expired login or a permanent error is not retried,
\* any other one is while attempts are left (failIfPermanent, shouldRetry).
Hopeless ==
  failure.kind \in {"permanent", "login"} \/ attempt + 1 >= MaxAttempts

\* fail() ends the loop.
AfterFailing_Check == "check"
AfterFailing == "done"

Judge ==
  /\ pc = "judge"
  /\ attempt' = IF failure.kind = "permanent" THEN attempt ELSE attempt + 1
  /\ IF Hopeless
       THEN pc' = AfterFailing /\ status' = "Error"
       ELSE /\ pc' = IF failure.from \in {"session", "up"} THEN "release" ELSE "check"
            /\ UNCHANGED status
  /\ UNCHANGED <<failure, retries>>

Run ==
  /\ Check \/ Pause \/ Succeed \/ Ready \/ Break \/ Ended \/ Judge
  /\ UNCHANGED <<stopped, cardVars>>

-----------------------------------------------------------------------------
(* SSMTunnel and the goroutine that calls it *)

\* WaitReady looks at the context and at the status, or runs into its deadline.
WaitReady ==
  /\ waiter = "waiting"
  /\ \/ status = "Connected" /\ ~cancelled /\ waiter' = "ready"
     \/ waiter' = "aborting"
  /\ UNCHANGED <<runVars, stopped, cancelled, hook, outcome, card, clicked, released>>

\* Leaving SSMTunnel takes the callback off, unless it runs already.
Unhook_Not == UNCHANGED hook
Unhook == hook' = IF hook = "armed" THEN "off" ELSE hook

\* SSMTunnel returns the tunnel, or stops it and returns an error.
StopOnError_Not == UNCHANGED stopped
StopOnError == stopped' = TRUE

ReturnTunnel ==
  /\ waiter = "ready"
  /\ waiter' = "returned"
  /\ outcome' = "connected"
  /\ Unhook
  /\ UNCHANGED <<runVars, stopped, cancelled, card, clicked, released>>

ReturnError ==
  /\ waiter = "aborting"
  /\ waiter' = "returned"
  /\ outcome' = IF cancelled THEN "cancelled" ELSE "error"
  /\ StopOnError
  /\ Unhook
  /\ UNCHANGED <<runVars, cancelled, card, clicked, released>>

\* Cancelling the context starts the callback, if it is still there.
CancelContext ==
  /\ cancelled' = TRUE
  /\ hook' = IF hook = "armed" THEN "fired" ELSE hook

DeferredCancel ==
  /\ waiter = "returned"
  /\ waiter' = "gone"
  /\ CancelContext
  /\ UNCHANGED <<runVars, stopped, outcome, card, clicked, released>>

Callback ==
  /\ hook = "fired"
  /\ hook' = "done"
  /\ stopped' = TRUE
  /\ UNCHANGED <<runVars, waiter, cancelled, outcome, card, clicked, released>>

-----------------------------------------------------------------------------
(* The main thread *)

\* onCardAction: the button works once, while the card is connecting.
ClickCancel ==
  /\ card = "connecting" /\ ~clicked
  /\ clicked' = TRUE
  /\ CancelContext
  /\ UNCHANGED <<runVars, stopped, waiter, outcome, card, released>>

\* The frame that finds the goroutine's outcome; "connected" hands the tunnel
\* over to onGatewayConnected.
Frame ==
  /\ card = "connecting" /\ outcome # "none"
  /\ card' = outcome
  /\ UNCHANGED <<runVars, stopped, waiter, cancelled, hook, outcome, clicked, released>>

\* The connection is closed or reconnected.
CloseConnection ==
  /\ card = "connected"
  /\ stopped' = TRUE
  /\ released' = TRUE
  /\ UNCHANGED <<runVars, waiter, cancelled, hook, outcome, card, clicked>>

-----------------------------------------------------------------------------
Goroutine == WaitReady \/ ReturnTunnel \/ ReturnError \/ DeferredCancel

Next == Run \/ Goroutine \/ Callback \/ ClickCancel \/ Frame \/ CloseConnection

\* Threads are scheduled and frames keep coming.  A session that starts or is up
\* may last for ever, but not once its context is cancelled.
Fairness ==
  /\ WF_vars(Run /\ (pc \in {"session", "up"} => stopped))
  /\ WF_vars(Goroutine) /\ WF_vars(Callback) /\ WF_vars(Frame)

Spec == Init /\ [][Next]_vars
FairSpec == Spec /\ Fairness

-----------------------------------------------------------------------------
(* Properties *)

\* Types, and no more than MaxAttempts failures in a row.
TypeOK ==
  /\ pc \in {"check", "backoff", "resolve", "config", "session", "up", "ended",
             "judge", "release", "done"}
  /\ attempt \in 0 .. MaxAttempts
  /\ retries \in 0 .. MaxAttempts
  /\ failure \in [kind : {"none", "login", "permanent", "other"},
                  from : {"none", "resolve", "config", "session", "up"}]
  /\ status \in {"Disconnected", "Connecting", "Connected", "Error"}
  /\ waiter \in {"waiting", "ready", "aborting", "returned", "gone"}
  /\ hook \in {"armed", "off", "fired", "done"}
  /\ outcome \in {"none", "connected", "cancelled", "error"}
  /\ card \in {"connecting", "connected", "cancelled", "error"}
  /\ {stopped, cancelled, clicked, released} \subseteq BOOLEAN

\* Seen by its owner the tunnel is a supervised session: in particular a failed
\* or stopped tunnel never comes back, whatever threads are still at it.
Supervised == INSTANCE Supervisor
  WITH phase <- IF status = "Error" THEN "failed"
                ELSE IF pc = "done" THEN "stopped"
                ELSE IF status = "Connected" THEN "up"
                ELSE IF status = "Connecting" THEN "trying"
                ELSE "idle",
       asked <- stopped
ImplementsSupervisor == Supervised!Spec

\* Every session that was up gets a fresh round of retries before the tunnel
\* gives up on an error worth retrying, however many drops came before.
FullRoundBeforeGivingUp ==
  status = "Error" /\ failure.kind = "other" => retries = MaxAttempts - 1

\* A tunnel handed over to a connection stands until someone stops it: the
\* deferred cancel of the goroutine that built it (gateway_screen.go:2642) cancels
\* the very context whose cancellation stops the tunnel (connect.go:224).
HandedOverStands == card = "connected" /\ ~clicked /\ ~released => ~stopped

\* An attempt that was cancelled or failed leaves no reconnect loop behind.
AbandonedEnds == (card \in {"cancelled", "error"}) ~> (pc = "done")
=============================================================================
