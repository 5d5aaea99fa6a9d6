------------------------------ MODULE Commands ------------------------------
(***************************************************************************)
(* The commands of the control server: an HTTP handler puts a command in a *)
(* channel and waits, without a time-out, for the main thread to answer it *)
(* (src/internal/control/server.go, handleControlCommand and Process in    *)
(* ui/app.go, the result handlers of ui/appwindow.go).                     *)
(*                                                                         *)
(* Some commands are answered where they are handled.  The others travel:  *)
(* a run goes to a connection's worker, an open or a reconnect to a        *)
(* goroutine of its own, and the answer is given when the outcome is       *)
(* polled, frames later.  A worker is the queue ConnWorker is shown to     *)
(* implement (RequestOrder); a stopped worker ends, and what it has not    *)
(* taken by then is left in its channel.                                   *)
(*                                                                         *)
(* A frame polls results, snapshots the state for GET /state, then drains  *)
(* the commands.  Each connection has one tab.                             *)
(***************************************************************************)
EXTENDS Integers, FiniteSets, Sequences, SequencesExt

CONSTANTS
  Cmd,     \* the commands clients may send
  Conn,    \* connections
  Mem,     \* the in-memory one, always there
  CmdCap   \* capacity of the commands channel (16 in the code)

ASSUME CommandsAssumption ==
  /\ Mem \in Conn
  /\ CmdCap \in Nat \ {0}

VARIABLES
  frame,     \* "poll" or "commands": where Process is
  skipPoll,  \* w.skipPoll: leave the results alone for one frame
  commands,  \* the channel of commands
  asked,     \* the commands submitted
  answer,    \* per command: "none", or the answer its client gets
  kind,      \* per command: what it turned out to be when handled
  place,     \* per command: the connection it is about
  queue,     \* per connection: what its worker has been sent and not finished
  dying,     \* what stopped workers had not finished
  leftBehind,\* what a stopped worker had not taken when it ended
  goroutine, \* commands a background goroutine is working for
  stalled,   \* those of them that wait on a peer that says nothing
  results,   \* finished and not yet polled, of workers and goroutines
  remote,    \* the connections through a gateway: those can reconnect
  rail,      \* the open connections
  staffed,   \* those that have a worker
  active,    \* the connection whose tab is on screen
  gen,       \* per connection: the generation of its tab
  genOf,     \* per command: the generation its request carries
  dimmed,    \* tabs whose grid is dimmed, their status "Running..."
  unserved,  \* history: runs that found no worker, or a file nobody can read
  effects,   \* history: results whose effect the window has
  snapshot   \* ... as of the snapshot GET /state answers

serverVars == <<commands, asked, answer>>
travelVars == <<queue, dying, leftBehind, goroutine, results>>
tabVars    == <<gen, genOf, dimmed, unserved>>
connVars   == <<remote, rail, staffed, active>>
whatVars   == <<kind, place>>
frameVars  == <<frame, skipPoll, snapshot>>
vars == <<frameVars, serverVars, whatVars, travelVars, connVars, tabVars, effects,
          stalled>>

Init ==
  /\ frame = "poll" /\ skipPoll = FALSE
  /\ commands = <<>>
  /\ asked = {}
  /\ answer = [c \in Cmd |-> "none"]
  /\ kind = [c \in Cmd |-> "none"]
  /\ place = [c \in Cmd |-> Mem]
  /\ queue = [k \in Conn |-> <<>>]
  /\ dying = {} /\ leftBehind = {} /\ goroutine = {}
  /\ results = <<>>
  /\ remote \in SUBSET (Conn \ {Mem})
  /\ rail = {Mem} \cup remote /\ staffed = rail /\ active \in rail
  /\ gen = [k \in Conn |-> 0]
  /\ genOf = [c \in Cmd |-> 0]
  /\ dimmed = {} /\ unserved = {}
  /\ effects = {} /\ snapshot = {} /\ stalled = {}

-----------------------------------------------------------------------------
(* The HTTP handlers *)

\* A request that has the key is routed to one command, ...
Routed(c) == c \notin asked

\* ... which goes to the main thread if its body parses, when the channel has room.
Submit(c) ==
  /\ Routed(c)
  /\ Len(commands) < CmdCap
  /\ commands' = Append(commands, c)
  /\ asked' = asked \cup {c}
  /\ UNCHANGED <<frameVars, answer, whatVars, travelVars, connVars, tabVars,
                 effects>>

\* Respond puts the answer in the command's channel, where its client waits.
Respond(c, a) ==
  /\ answer' = [answer EXCEPT ![c] = a]
  /\ UNCHANGED asked

Unanswered == UNCHANGED <<asked, answer>>

-----------------------------------------------------------------------------
(* A frame: handling the commands *)

\* The main thread takes the next command.
Take(c, k, at) ==
  /\ frame = "commands"
  /\ commands # <<>> /\ c = Head(commands)
  /\ commands' = Tail(commands)
  /\ kind' = [kind EXCEPT ![c] = k]
  /\ place' = [place EXCEPT ![c] = at]
  /\ UNCHANGED <<frame, snapshot>>

\* Bad arguments, a missing tab, schema or menu bar, an unknown action, or a
\* panic recovered from: an error.
HandleRefused(c) ==
  /\ Take(c, "step", Mem)
  /\ Respond(c, "error")
  /\ UNCHANGED <<skipPoll, travelVars, connVars, tabVars, effects>>

NextGen(k) == gen[k] + 1

\* What only touches the window is done and answered on the spot: ...
Done(c) ==
  /\ Take(c, "step", Mem)
  /\ Respond(c, "ok")
  /\ UNCHANGED <<skipPoll, travelVars, connVars, tabVars, effects>>

\* ... a new or another tab and menu items; the rows selected in the grid and
\* their details; windows, screens and dialogs; panels and bookmarks; what only
\* reads the tree of nodes.
HandleTab(c) == Done(c)
HandleRows(c) == Done(c)
HandleScreen(c) == Done(c)
HandlePanel(c) == Done(c)
HandleRead(c) == Done(c)

\* close_tab: another tab of the connection takes over, with nothing on its way.
HandleCloseTab(c) ==
  /\ Take(c, "fresh", active)
  /\ gen' = [gen EXCEPT ![active] = NextGen(active)]
  /\ genOf' = [genOf EXCEPT ![c] = NextGen(active)]
  /\ dimmed' = dimmed \ {active}
  /\ Respond(c, "ok")
  /\ UNCHANGED <<skipPoll, travelVars, connVars, unserved, effects>>

\* select_connection puts the connection's tab on screen.
HandleSelect(c, k) ==
  /\ k \in rail
  /\ Take(c, "step", Mem)
  /\ Respond(c, "ok")
  /\ active' = k
  /\ UNCHANGED <<skipPoll, travelVars, remote, rail, staffed, tabVars, effects>>

\* A run gives k's tab a new generation, dims it, has the next frame's results
\* left alone, and puts a request in the queue of k's worker.
Carried_Before(k) == gen[k]
Carried(k) == NextGen(k)

Run(c, k) ==
  /\ gen' = [gen EXCEPT ![k] = NextGen(k)]
  /\ genOf' = [genOf EXCEPT ![c] = Carried(k)]
  /\ dimmed' = dimmed \cup {k}
  /\ skipPoll' = TRUE
  /\ IF k \in staffed
       THEN queue' = [queue EXCEPT ![k] = Append(@, c)] /\ UNCHANGED unserved
       ELSE unserved' = unserved \cup {c} /\ UNCHANGED queue
  /\ UNCHANGED <<dying, leftBehind, goroutine, results, effects>>

\* sort, query, page, reset_sort, select_columns, and a Back or Forward that
\* has somewhere to go: answered now only when there is no worker.
HandleRun(c) ==
  /\ Take(c, "run", active)
  /\ Run(c, active)
  /\ IF active \in staffed THEN Unanswered ELSE Respond(c, "error")
  /\ UNCHANGED connVars

\* select_table and replay_history act as a click would: the run they start has
\* no command to answer.
HandleClick(c) ==
  /\ Take(c, "click", active)
  /\ Run(c, active)
  /\ Respond(c, "ok")
  /\ UNCHANGED connVars

\* open with a data file: the memory connection's tab comes up and reads it.
HandleOpenFile(c) ==
  /\ Take(c, "file", Mem)
  /\ active' = Mem
  /\ Run(c, Mem)
  /\ Unanswered
  /\ UNCHANGED <<remote, rail, staffed>>

\* open with a database or a folder: a goroutine opens it.
HandleOpenDB(c, k) ==
  /\ k \notin rail \cup remote
  /\ Take(c, "open", k)
  /\ goroutine' = goroutine \cup {c}
  /\ Unanswered
  /\ UNCHANGED <<skipPoll, queue, dying, leftBehind, results, connVars,
                 tabVars, effects>>

\* Stop takes the worker off its connection; it ends later.
StopWorker(k) ==
  /\ staffed' = staffed \ {k}
  /\ queue' = [queue EXCEPT ![k] = <<>>]
  /\ dying' = dying \cup Range(queue[k])

\* close_connection: the tab goes with the connection.
HandleClose(c, k) ==
  /\ k \in rail \ {Mem}
  /\ Take(c, "step", Mem)
  /\ StopWorker(k)
  /\ rail' = rail \ {k}
  /\ active' = IF active = k THEN Mem ELSE active
  /\ dimmed' = dimmed \ {k}
  /\ Respond(c, "ok")
  /\ UNCHANGED <<skipPoll, leftBehind, goroutine, results, remote, gen, genOf,
                 unserved, effects>>

\* reconnect: the worker is stopped, and a goroutine rebuilds the connection.
HandleReconnect(c, k) ==
  /\ k \in rail \cap remote
  /\ Take(c, "reconnect", k)
  /\ StopWorker(k)
  /\ goroutine' = goroutine \cup {c}
  /\ Unanswered
  /\ UNCHANGED <<skipPoll, leftBehind, results, remote, rail, active,
                 tabVars, effects>>

CommandsDrained ==
  /\ frame = "commands" /\ commands = <<>>
  /\ frame' = "poll"
  /\ UNCHANGED <<skipPoll, snapshot, serverVars, whatVars, travelVars, connVars,
                 tabVars, effects>>

-----------------------------------------------------------------------------
(* Workers and goroutines *)

\* A worker finishes the oldest request it has, with a result.
Finish(k) ==
  /\ queue[k] # <<>>
  /\ queue' = [queue EXCEPT ![k] = Tail(@)]
  /\ results' = Append(results, Head(queue[k]))
  /\ UNCHANGED <<frameVars, serverVars, whatVars, dying, leftBehind, goroutine,
                 connVars, tabVars, effects>>

\* A stopped worker finishes what it was at and what it finds in its queue ...
FinishDying(c) ==
  /\ c \in dying
  /\ dying' = dying \ {c}
  /\ results' = Append(results, c)
  /\ UNCHANGED <<frameVars, serverVars, whatVars, queue, leftBehind, goroutine,
                 connVars, tabVars, effects>>

\* ... unless its select sees the cancelled context first.
Abandon(c) ==
  /\ c \in dying
  /\ dying' = dying \ {c}
  /\ leftBehind' = leftBehind \cup {c}
  /\ UNCHANGED <<frameVars, serverVars, whatVars, queue, goroutine, results,
                 connVars, tabVars, effects>>

\* A goroutine reports, ...
Land(c) ==
  /\ c \in goroutine \ stalled
  /\ goroutine' = goroutine \ {c}
  /\ results' = Append(results, c)
  /\ UNCHANGED <<frameVars, serverVars, whatVars, queue, dying, leftBehind,
                 connVars, tabVars, effects>>

\* ... or never does: a reconnect shakes hands with an SSH jump host without any
\* bound, and nobody can cancel it.
Stall(c) ==
  /\ c \in goroutine \ stalled /\ kind[c] = "reconnect"
  /\ stalled' = stalled \cup {c}
  /\ UNCHANGED <<frameVars, serverVars, whatVars, travelVars, connVars, tabVars,
                 effects>>

-----------------------------------------------------------------------------
(* A frame: polling results, and the snapshot *)

Poll(c) ==
  /\ frame = "poll" /\ ~skipPoll
  /\ results # <<>> /\ c = Head(results)
  /\ results' = Tail(results)
  /\ UNCHANGED <<frameVars, commands, whatVars, dying, leftBehind>>

\* A run whose tab has moved on or is gone is answered like one that succeeded.
Stale(c) == place[c] \notin rail \/ genOf[c] # gen[place[c]]
IsRun(c) == kind[c] \in {"run", "click", "file"}

\* The answer goes to the command the result carries, if it carries one.
Reply(c, a) == IF kind[c] = "click" THEN Unanswered ELSE Respond(c, a)

AnswerStale_Dropped(c) == Unanswered
AnswerStale(c) == Reply(c, "ok")

PollStale(c) ==
  /\ Poll(c)
  /\ IsRun(c) /\ Stale(c)
  /\ AnswerStale(c)
  /\ UNCHANGED <<queue, goroutine, connVars, tabVars, effects>>

Undimmed_Kept(k) == dimmed
Undimmed(k) == dimmed \ {k}

PollRun(c, ok) ==
  /\ Poll(c)
  /\ IsRun(c) /\ ~Stale(c)
  /\ dimmed' = Undimmed(place[c])
  /\ effects' = IF ok THEN effects \cup {c} ELSE effects
  /\ Reply(c, IF ok THEN "ok" ELSE "error")
  /\ UNCHANGED <<queue, goroutine, connVars, gen, genOf, unserved>>

\* A file whose schema cannot be read: an error, and the grid stays dimmed.
PollUnreadable(c) ==
  /\ Poll(c)
  /\ kind[c] = "file" /\ ~Stale(c)
  /\ unserved' = unserved \cup {c}
  /\ Respond(c, "error")
  /\ UNCHANGED <<queue, goroutine, connVars, gen, genOf, dimmed, effects>>

\* The goroutine failed, ...
PollFailed(c) ==
  /\ Poll(c)
  /\ kind[c] \in {"open", "reconnect"}
  /\ Respond(c, "error")
  /\ UNCHANGED <<queue, goroutine, connVars, tabVars, effects>>

\* ... opened a database, which gets a place in the rail and the screen, ...
PollOpened(c) ==
  /\ Poll(c)
  /\ kind[c] = "open" /\ place[c] \notin rail
  /\ rail' = rail \cup {place[c]}
  /\ staffed' = staffed \cup {place[c]}
  /\ active' = place[c]
  /\ gen' = [gen EXCEPT ![place[c]] = NextGen(place[c])]  \* a new tab
  /\ genOf' = [genOf EXCEPT ![c] = NextGen(place[c])]
  /\ effects' = effects \cup {c}
  /\ Respond(c, "ok")
  /\ UNCHANGED <<queue, goroutine, remote, dimmed, unserved>>

\* ... or rebuilt a connection, if that is still there.  The worker a second
\* reconnect replaces is not stopped: it goes on, out of reach, with what it has.
PollReconnected(c) ==
  /\ Poll(c)
  /\ kind[c] = "reconnect"
  /\ IF place[c] \in rail
       THEN /\ staffed' = staffed \cup {place[c]}
            /\ goroutine' = goroutine \cup Range(queue[place[c]])
            /\ queue' = [queue EXCEPT ![place[c]] = <<>>]
            /\ effects' = effects \cup {c}
       ELSE UNCHANGED <<staffed, goroutine, queue, effects>>
  /\ Respond(c, "ok")
  /\ UNCHANGED <<remote, rail, active, tabVars>>

Cached_Later == snapshot
Cached == effects

SkipFrame_Sticky == skipPoll
SkipFrame == FALSE

\* Nothing more to poll: updateCachedState snapshots the state, then the commands
\* are drained.
PollDone ==
  /\ frame = "poll"
  /\ skipPoll \/ results = <<>>
  /\ frame' = "commands"
  /\ skipPoll' = SkipFrame
  /\ snapshot' = Cached
  /\ UNCHANGED <<serverVars, whatVars, travelVars, connVars, tabVars, effects>>

-----------------------------------------------------------------------------
FrameStep ==
  \/ CommandsDrained \/ PollDone
  \/ \E c \in Cmd :
       \/ HandleRefused(c) \/ HandleTab(c) \/ HandleRows(c) \/ HandleScreen(c)
       \/ HandlePanel(c) \/ HandleRead(c) \/ HandleCloseTab(c)
       \/ HandleRun(c) \/ HandleClick(c) \/ HandleOpenFile(c)
       \/ \E k \in Conn : \/ HandleSelect(c, k) \/ HandleOpenDB(c, k)
                          \/ HandleClose(c, k) \/ HandleReconnect(c, k)
       \/ PollStale(c) \/ PollUnreadable(c) \/ PollFailed(c) \/ PollOpened(c)
       \/ PollReconnected(c)
       \/ \E ok \in BOOLEAN : PollRun(c, ok)

Dies(c) == FinishDying(c) \/ Abandon(c)

Works == \/ \E k \in Conn : Finish(k)
         \/ \E c \in Cmd : Submit(c) \/ Dies(c) \/ Land(c)

Next ==
  \/ (FrameStep \/ Works) /\ UNCHANGED stalled
  \/ \E c \in Cmd : Stall(c)

\* Frames keep coming and goroutines run; the database calls and opens they make
\* end, in success or failure, and so does a dial that is not stalled.  Nothing
\* makes a client ask.
Fairness ==
  /\ WF_vars(FrameStep /\ UNCHANGED stalled)
  /\ \A k \in Conn : WF_vars(Finish(k) /\ UNCHANGED stalled)
  /\ \A c \in Cmd : /\ WF_vars(Dies(c) /\ UNCHANGED stalled)
                    /\ WF_vars(Land(c) /\ UNCHANGED stalled)

Spec == Init /\ [][Next]_vars /\ Fairness
-----------------------------------------------------------------------------
(* Properties *)

\* Types, and the window's connections: the in-memory one is there and has a
\* worker, and only open connections have one.
TypeOK ==
  /\ frame \in {"poll", "commands"} /\ skipPoll \in BOOLEAN
  /\ commands \in Seq(Cmd) /\ Len(commands) <= CmdCap
  /\ asked \subseteq Cmd
  /\ answer \in [Cmd -> {"none", "ok", "error"}]
  /\ kind \in [Cmd -> {"none", "step", "run", "click", "file", "fresh", "open",
                    "reconnect"}]
  /\ place \in [Cmd -> Conn]
  /\ queue \in [Conn -> Seq(Cmd)]
  /\ results \in Seq(Cmd)
  /\ {dying, leftBehind, goroutine, unserved, effects, snapshot} \subseteq SUBSET Cmd
  /\ stalled \subseteq Cmd
  /\ remote \subseteq Conn \ {Mem}
  /\ rail \subseteq Conn /\ staffed \subseteq rail /\ dimmed \subseteq rail
  /\ Mem \in staffed /\ active \in rail
  /\ gen \in [Conn -> Nat] /\ genOf \in [Cmd -> Nat]

\* The places a command can be between its submission and its return.
TimesIn(c, s) == Cardinality({i \in DOMAIN s : s[i] = c})
Flag(b) == IF b THEN 1 ELSE 0
Travels(c) ==
  TimesIn(c, results) + Cardinality({k \in Conn : c \in Range(queue[k])})
  + Flag(c \in dying) + Flag(c \in leftBehind) + Flag(c \in goroutine)
Places(c) ==
  TimesIn(c, commands) + Flag(answer[c] # "none")
  + (IF kind[c] = "click" THEN 0 ELSE Travels(c))

\* A command is in one place: the channel, a worker's queue, a goroutine, the
\* results, or its own answer.  In two it would be answered twice, and a second
\* Respond can block the main thread (control/server.go:313); in none its
\* client would wait for ever (server.go:709).
HeldInOnePlace ==
  \A c \in asked : Places(c) = 1

\* The same tab has been run again or replaced since, or its connection closed.
Superseded(c) ==
  \/ place[c] \notin rail
  \/ \E d \in Cmd : place[d] = place[c] /\ genOf[d] > genOf[c]

\* A run answered with success was shown, unless its tab has run something
\* newer or is gone (appwindow.go:2685).
OkMeansShown ==
  \A c \in Cmd :
    kind[c] \in {"run", "file"} /\ answer[c] = "ok" => c \in effects \/ Superseded(c)

\* A client that has the answer to a command answered from a result, and then
\* the answer to a later one, finds the first one's effect in GET /state: while
\* commands are handled, the snapshot has it (app.go:3105-3125).
AnsweredIsVisible ==
  \A c \in Cmd :
    /\ frame = "commands"
    /\ answer[c] # "none" /\ kind[c] # "click"
    /\ c \in effects
    => c \in snapshot

\* A run that will still come back for the tab as it is now.
OnItsWay(k) ==
  \E c \in Cmd :
    /\ IsRun(c) /\ place[c] = k /\ genOf[c] = gen[k]
    /\ c \in Range(queue[k]) \cup dying \cup goroutine \cup Range(results)

\* A run refused for want of a worker, left behind by a stopped one, or of a file
\* whose schema could not be read.
Unserved(k) ==
  \E c \in leftBehind \cup unserved : place[c] = k /\ genOf[c] = gen[k]

\* A dimmed tab has its result on its way, unless its last run met a connection
\* without a worker or one that was just being stopped, or opened a file that could
\* not be read (appwindow.go:2691, 2763-2772).
DimmedIsAwaited == \A k \in dimmed : OnItsWay(k) \/ Unserved(k)

\* Every command submitted is answered and its client released, except one left
\* in the channel of a worker stopped just then, and a reconnect whose jump host
\* says nothing; that one holds up no other command.
CommandsReturn ==
  \A c \in Cmd :
    (c \in asked) ~> (answer[c] # "none" \/ c \in leftBehind \/ c \in stalled)
=============================================================================
