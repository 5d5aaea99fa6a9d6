------------------------------- MODULE Cards -------------------------------
(***************************************************************************)
(* The cards of the connection screen: a saved connection's card, whose    *)
(* button logs in, connects and cancels, and the unseen card each press of *)
(* the form's Connect makes (src/internal/ui/gateway_screen.go,            *)
(* onCardAction, startGatewayConnection, onFormConnect and Process).       *)
(*                                                                         *)
(* A press starts a goroutine that logs in over SSO, or builds a tunnel    *)
(* (connect.SSMTunnel, see Tunnel) which it leaves on the card.  Process   *)
(* looks at the cards whose needsUpdate is raised, lowers it and handles   *)
(* one report of each.  A connected card is handed to the application,     *)
(* which takes the screen down.                                            *)
(***************************************************************************)
EXTENDS ScreenState, FiniteSets

CONSTANTS
  Saved,   \* the cards of saved connections over AWS, by position
  Direct,  \* those of saved connections that need no AWS
  Form     \* the cards the form may add, after the others

ASSUME CardsAssumption ==
  /\ Saved \cup Direct \cup Form \subseteq Nat \ {0}
  /\ Saved \cap Direct = {} /\ (Saved \cup Direct) \cap Form = {}

Card == Saved \cup Direct \cup Form

VARIABLES
  disabled,    \* the cards whose button is disabled
  connecting,  \* those whose button reads Cancel
  cancelOf,    \* per card: the attempt card.cancel is of, or 0
  needsUpdate, \* cards a goroutine has raised
  cancelled,   \* reports: the attempt was cancelled, ...
  loginErr,    \* ... per card: "none", or how the login or attempt failed, ...
  connected,   \* ... the tunnel is up, ...
  bastions,    \* ... per card: "none", "loading" or "ready", the list of bastions
  tunnel,      \* per card: the attempt whose tunnel it holds, or 0
  job,         \* per job: the card it is for and what it is at
  stopped,     \* attempts whose context the user has cancelled
  at,          \* where Process is in the list of cards, 0 between frames
  up,          \* history: attempts whose tunnel came up
  handed,      \* ... and those handed to the application
  overlapped,  \* history: cards pressed with a login or attempt unreported
  rushed       \* history: cards pressed with their bastions still loading

buttonVars == <<disabled, connecting, cancelOf>>
reportVars == <<cancelled, loginErr, connected, bastions, tunnel>>
historyVars == <<up, handed, overlapped, rushed>>
cardVars == <<buttonVars, needsUpdate, reportVars, job, stopped, at, historyVars>>

NoJob == [card |-> 0, doing |-> "none"]

CardsInit ==
  /\ disabled = {} /\ connecting = {}
  /\ cancelOf = [c \in Card |-> 0]
  /\ needsUpdate = {} /\ cancelled = {} /\ connected = {}
  /\ loginErr = [c \in Card |-> "none"]
  /\ bastions = [c \in Card |-> "none"]
  /\ tunnel = [c \in Card |-> 0]
  /\ job = [j \in Job |-> NoJob]
  /\ stopped = {} /\ at = 0
  /\ up = {} /\ handed = {} /\ overlapped = {} /\ rushed = {}

\* The goroutines of a card, and whether one has yet to be heard.
JobsOf(c) == {j \in Job : job[j].card = c /\ job[j].doing # "over"}
Unreported(c) ==
  JobsOf(c) # {} \/ loginErr[c] # "none" \/ c \in cancelled \cup connected

\* OnConnect: the application takes the entry and the tunnel over, and the
\* screen goes (ui/app.go, showGatewayScreen).
HandOver(t) ==
  /\ open' = FALSE
  /\ handed' = handed \cup t
-----------------------------------------------------------------------------
(* Clicks *)

Start(c, what) == job' = [job EXCEPT ![ThisJob] = [card |-> c, doing |-> what]]

Pressed(c) ==
  /\ at = 0 /\ c \notin disabled
  /\ Click

Noted(c) ==
  /\ overlapped' = IF Unreported(c) THEN overlapped \cup {c} ELSE overlapped
  /\ rushed' = IF bastions[c] # "none" THEN rushed \cup {c} ELSE rushed
  /\ UNCHANGED <<up, handed>>

\* While a connect is in flight the button aborts it.
PressCancel(c) ==
  /\ c \in Saved \cap connecting /\ Pressed(c)
  /\ stopped' = stopped \cup {cancelOf[c]}
  /\ disabled' = disabled \cup {c}
  /\ UNCHANGED <<open, connecting, cancelOf, needsUpdate, reportVars, job, at,
                 historyVars>>

\* Otherwise the credentials are checked; with none the browser is opened, ...
PressLogin(c) ==
  /\ c \in Saved \ connecting /\ Pressed(c)
  /\ disabled' = disabled \cup {c}
  /\ Start(c, "login")
  /\ Noted(c)
  /\ UNCHANGED <<open, connecting, cancelOf, needsUpdate, reportVars, stopped, at>>

\* ... and with valid ones the tunnel is started, the button left enabled.
ButtonWhileConnecting_Disabled(c) == disabled \cup {c}
ButtonWhileConnecting(c) == disabled

PressConnect(c) ==
  /\ c \in Saved \ connecting /\ Pressed(c)
  /\ disabled' = ButtonWhileConnecting(c)
  /\ connecting' = connecting \cup {c}
  /\ cancelOf' = [cancelOf EXCEPT ![c] = ThisJob]
  /\ Start(c, "connect")
  /\ Noted(c)
  /\ UNCHANGED <<open, needsUpdate, reportVars, stopped, at>>

\* A connection that needs no AWS is handed over at once.
PressDirect(c) ==
  /\ c \in Direct /\ Pressed(c)
  /\ disabled' = disabled \cup {c}
  /\ HandOver({})
  /\ UNCHANGED <<connecting, cancelOf, needsUpdate, reportVars, job, stopped, at, up,
                 overlapped, rushed>>

\* The form's Connect makes another card each time it is pressed.
PressForm(c) ==
  /\ c \in Form /\ at = 0 /\ Click
  /\ \A j \in Job : job[j].card # c
  /\ \A d \in Form : d < c => \E j \in Job : job[j].card = d
  /\ Start(c, "check")
  /\ UNCHANGED <<open, buttonVars, needsUpdate, reportVars, stopped, at, historyVars>>

\* Close, or Escape: nothing is cancelled.
Close ==
  /\ at = 0 /\ Click
  /\ open' = FALSE
  /\ UNCHANGED <<cardVars>>
-----------------------------------------------------------------------------
(* Goroutines *)

\* A report is written, then the card raised.
Report_Unraised(j) ==
  /\ job' = [job EXCEPT ![j].doing = "over"]
  /\ UNCHANGED needsUpdate
Report(j) ==
  /\ job' = [job EXCEPT ![j].doing = "raise"]
  /\ UNCHANGED needsUpdate

At(j, what) == open /\ job[j].doing = what
Background == UNCHANGED <<screenVars, buttonVars, stopped, at, overlapped, rushed, handed>>

Raise(j) ==
  /\ At(j, "raise")
  /\ needsUpdate' = needsUpdate \cup {job[j].card}
  /\ job' = [job EXCEPT ![j].doing = "over"]
  /\ UNCHANGED <<reportVars, up>> /\ Background

\* A line for the log.
Line(j) ==
  /\ At(j, "login") \/ At(j, "connect")
  /\ needsUpdate' = needsUpdate \cup {job[j].card}
  /\ UNCHANGED <<reportVars, job, up>> /\ Background

\* A login or an attempt fails.  When several bastions are online the user has to
\* choose one.
Failed(j, why) ==
  /\ loginErr' = [loginErr EXCEPT ![job[j].card] = why]
  /\ Report(j)
  /\ UNCHANGED <<cancelled, connected, bastions, tunnel, up>> /\ Background

LoginFails(j) == At(j, "login") /\ Failed(j, "error")

\* A saved card's login only refreshes the card.
LoginEnds(j) ==
  /\ At(j, "login") /\ job[j].card \in Saved
  /\ Report(j)
  /\ UNCHANGED <<reportVars, up>> /\ Background

\* The form's goroutine asks for the credentials, logs in when it has to, and goes
\* on to the tunnel.
FormLogsIn(j) ==
  /\ At(j, "check")
  /\ job' = [job EXCEPT ![j].doing = "login"]
  /\ needsUpdate' = needsUpdate \cup {job[j].card}
  /\ UNCHANGED <<reportVars, up>> /\ Background

FormConnects(j) ==
  /\ job[j].card \in Form /\ (At(j, "check") \/ At(j, "login"))
  /\ job' = [job EXCEPT ![j].doing = "connect"]
  /\ cancelOf' = [cancelOf EXCEPT ![job[j].card] = j]
  /\ needsUpdate' = needsUpdate \cup {job[j].card}
  /\ UNCHANGED <<screenVars, disabled, connecting, reportVars, stopped, at, historyVars>>

AttemptFails(j, why) == At(j, "connect") /\ j \notin stopped /\ Failed(j, why)

AttemptCancelled(j) ==
  /\ At(j, "connect") /\ j \in stopped
  /\ cancelled' = cancelled \cup {job[j].card}
  /\ Report(j)
  /\ UNCHANGED <<loginErr, connected, bastions, tunnel, up>> /\ Background

\* The tunnel is ready, perhaps just before the user cancels it.
AttemptSucceeds(j) ==
  /\ At(j, "connect")
  /\ tunnel' = [tunnel EXCEPT ![job[j].card] = j]
  /\ connected' = connected \cup {job[j].card}
  /\ up' = up \cup {j}
  /\ Report(j)
  /\ UNCHANGED <<cancelled, loginErr, bastions>> /\ Background

\* The bastions are listed, or that fails.
Listed(c) ==
  /\ open /\ bastions[c] = "loading"
  /\ bastions' = [bastions EXCEPT ![c] = "ready"]
  /\ needsUpdate' = needsUpdate \cup {c}
  /\ UNCHANGED <<cancelled, loginErr, connected, tunnel, job, up>> /\ Background
-----------------------------------------------------------------------------
(* A frame *)

Looked == UNCHANGED <<job, stopped, clicks, up, overlapped, rushed>>
Idle(c) ==
  /\ connecting' = connecting \ {c}
  /\ cancelOf' = [cancelOf EXCEPT ![c] = 0]
Enabled(c) == disabled' = disabled \ {c}

\* Process comes to the next raised card, lowers it, and handles one report.
Look(c) ==
  /\ open \/ at # 0
  /\ c \in needsUpdate /\ c >= at
  /\ \A d \in needsUpdate : d < at \/ d >= c
  /\ at' = c + 1
  /\ needsUpdate' = needsUpdate \ {c}

NoReport(c) ==
  c \notin cancelled \cup connected /\ loginErr[c] = "none" /\ bastions[c] # "ready"

\* The user cancelled: back to idle.
LookCancelled(c) ==
  /\ Look(c) /\ c \in cancelled
  /\ cancelled' = cancelled \ {c}
  /\ Idle(c) /\ Enabled(c)
  /\ UNCHANGED <<open, loginErr, connected, bastions, tunnel, handed>> /\ Looked

\* The bastions are there, and the user can pick one on the card.
LookListed(c) ==
  /\ Look(c) /\ c \notin cancelled
  /\ bastions[c] = "ready"
  /\ bastions' = [bastions EXCEPT ![c] = "none"]
  /\ UNCHANGED <<open, buttonVars, cancelled, loginErr, connected, tunnel, handed>>
  /\ Looked

\* A failure is shown; the button reads Retry.  When the bastion is ambiguous
\* those online are listed.
LookFailed(c) ==
  /\ Look(c) /\ c \notin cancelled /\ bastions[c] # "ready"
  /\ loginErr[c] # "none"
  /\ loginErr' = [loginErr EXCEPT ![c] = "none"]
  /\ bastions' = IF c \in Saved /\ loginErr[c] = "ambiguous" /\ bastions[c] = "none"
                   THEN [bastions EXCEPT ![c] = "loading"] ELSE bastions
  /\ Idle(c) /\ Enabled(c)
  /\ UNCHANGED <<open, cancelled, connected, tunnel, handed>> /\ Looked

\* The tunnel is handed to the application.
LookConnected(c) ==
  /\ Look(c) /\ c \notin cancelled /\ bastions[c] # "ready" /\ loginErr[c] = "none"
  /\ c \in connected
  /\ connected' = connected \ {c}
  /\ Idle(c)
  /\ disabled' = disabled \cup {c}
  /\ HandOver({tunnel[c]})
  /\ UNCHANGED <<cancelled, loginErr, bastions, tunnel>> /\ Looked

\* Only the log has changed, or the credentials: unless the card is connecting,
\* its button is set by the credentials, and enabled.
Refreshed(c) == IF c \in Form \cup connecting THEN UNCHANGED disabled ELSE Enabled(c)

LookRefreshed(c) ==
  /\ Look(c) /\ NoReport(c)
  /\ Refreshed(c)
  /\ UNCHANGED <<open, connecting, cancelOf, reportVars, handed>> /\ Looked

FrameEnds ==
  /\ at # 0 /\ \A c \in needsUpdate : c < at
  /\ at' = 0
  /\ UNCHANGED <<screenVars, buttonVars, needsUpdate, reportVars, job, stopped,
                 historyVars>>
-----------------------------------------------------------------------------
Press(c) == PressCancel(c) \/ PressLogin(c) \/ PressConnect(c) \/ PressDirect(c)

FrameStep ==
  \/ FrameEnds
  \/ \E c \in Card :
       \/ LookCancelled(c) \/ LookListed(c) \/ LookFailed(c)
       \/ LookConnected(c) \/ LookRefreshed(c)

\* A goroutine ends what it is at, and reports it.
JobStep(j) ==
  \/ LoginFails(j) \/ LoginEnds(j) \/ FormLogsIn(j) \/ FormConnects(j)
  \/ \E why \in {"error", "ambiguous"} : AttemptFails(j, why)
  \/ AttemptCancelled(j) \/ AttemptSucceeds(j)
  \/ Raise(j)

CardsNext ==
  \/ Close
  \/ FrameStep
  \/ \E c \in Card : Press(c) \/ PressForm(c) \/ Listed(c)
  \/ \E j \in Job : JobStep(j) \/ Line(j)

\* Frames keep coming.  A login gives up after five minutes, an attempt after one,
\* and at once when it is cancelled; a list of instances is an AWS call.
CardsFairness ==
  /\ WF_cardVars(FrameStep)
  /\ \A j \in Job : WF_cardVars(JobStep(j))
  /\ \A c \in Card : WF_cardVars(Listed(c))

CardsSpec == ScreenInit /\ CardsInit /\ [][CardsNext]_<<screenVars, cardVars>> /\ CardsFairness
-----------------------------------------------------------------------------
(* Properties *)

CardsTypeOK ==
  /\ open \in BOOLEAN /\ clicks \in 0..MaxClicks
  /\ disabled \subseteq Card /\ connecting \subseteq Saved
  /\ cancelOf \in [Card -> Job \cup {0}]
  /\ needsUpdate \subseteq Card /\ cancelled \subseteq Card /\ connected \subseteq Card
  /\ loginErr \in [Card -> {"none", "error", "ambiguous"}]
  /\ bastions \in [Card -> {"none", "loading", "ready"}]
  /\ tunnel \in [Card -> Job \cup {0}]
  /\ job \in [Job -> [card : Card \cup {0},
                      doing : {"none", "check", "login", "connect", "raise", "over"}]]
  /\ stopped \subseteq Job /\ up \subseteq Job /\ handed \subseteq up
  /\ at \in Nat
  /\ overlapped \subseteq Card /\ rushed \subseteq Card

\* While a connect is in flight the button reads Cancel and aborts it
\* (gateway_screen.go:2559), unless the card was pressed with another login or
\* attempt of its own still to be heard of.
CancelAtHand ==
  \A j \in Job :
    /\ open /\ At(j, "connect") /\ job[j].card \in Saved \ overlapped
    => \/ j \in stopped
       \/ /\ job[j].card \in connecting \ disabled
          /\ cancelOf[job[j].card] = j

\* A tunnel that is up is handed over, or its card will be looked at; closing the
\* screen leaves it up, and so can pressing a card too often.
TunnelIsNoticed ==
  \A j \in up \ handed :
    LET c == job[j].card IN
    open /\ c \notin overlapped \cup rushed
    => /\ c \in connected /\ tunnel[c] = j
       /\ c \in needsUpdate \/ At(j, "raise")

\* A button that is disabled comes back, or the screen goes, unless the card was
\* pressed while its bastions were loading: then one look finds two reports,
\* handles one, and nobody raises the card again for the other.
ButtonComesBack ==
  \A c \in Saved : (c \in disabled) ~> (c \notin disabled \/ ~open \/ c \in rushed)
=============================================================================
