----------------------------- MODULE McpServer -----------------------------
(***************************************************************************)
(* The headless MCP server (src/internal/mcpmode): its tool calls, the     *)
(* connections it keeps open, one slot per bookmark (conns.go), the AWS    *)
(* logins it starts (awslogin.go), and the bookmarks file the application  *)
(* rewrites meanwhile (models/bookmark.go).                                *)
(*                                                                         *)
(* A call reads its bookmark, takes the lock of the bookmark's slot, makes *)
(* sure of a connection, gives the lock back and only then queries.        *)
(*                                                                         *)
(* A login is known by the call that starts it.  Every AWS bookmark uses   *)
(* the one profile: logins of different profiles share nothing.  A version *)
(* of a bookmark stands for its UpdatedAt; 0 is a bookmark removed.        *)
(***************************************************************************)
EXTENDS Integers, FiniteSets

CONSTANTS
  Call,       \* the tool calls clients may make
  Label,      \* bookmarks
  AWS,        \* those behind an AWS bastion
  MaxVersion, \* bound on the edits of bookmarks
  No          \* no call, no bookmark, no connection, no login

\* A connection: who opened it, for which bookmark as of which version.
Connection == [by : Call, label : Label, version : 1 .. MaxVersion]

ASSUME McpServerAssumption ==
  /\ AWS \subseteq Label
  /\ MaxVersion \in Nat \ {0}
  /\ No \notin Call \cup Label \cup Connection

VARIABLES
  file,      \* bookmarks.json: per label, the version of the bookmark
  edits,     \* versions so far
  at,        \* per call, where it is
  label,     \* per call, its bookmark
  seen,      \* per call, the version it read
  using,     \* per call, the connection it was given
  awaits,    \* per call, the login it waits for
  lock,      \* slot.mu: per label, the call that holds it
  conn,      \* slot.conn
  updated,   \* slot.updated
  open,      \* connections not closed
  inFlight,  \* awsLogins.inFlight
  login,     \* per call, the login it started
  approved,  \* logins that ended well
  server,    \* "serving", "closing" (in closeAll, which holds conns.mu), "exited"
  toClose    \* slots that closeAll has not visited yet

fileVars   == <<file, edits>>
callVars   == <<at, label, seen, using, awaits>>
slotVars   == <<lock, conn, updated, open>>
loginVars  == <<inFlight, login, approved>>
serverVars == <<server, toClose>>
vars == <<fileVars, callVars, slotVars, loginVars, serverVars>>

Init ==
  /\ file = [l \in Label |-> 1] /\ edits = 1
  /\ at = [k \in Call |-> "idle"]
  /\ label = [k \in Call |-> No]
  /\ seen = [k \in Call |-> 0]
  /\ using = [k \in Call |-> No]
  /\ awaits = [k \in Call |-> No]
  /\ lock = [l \in Label |-> No]
  /\ conn = [l \in Label |-> No]
  /\ updated = [l \in Label |-> 0]
  /\ open = {}
  /\ inFlight = No
  /\ login = [k \in Call |-> "none"] /\ approved = {}
  /\ server = "serving" /\ toClose = {}

Goes(k, to) == at' = [at EXCEPT ![k] = to]

-----------------------------------------------------------------------------
(* The application edits bookmarks *)

\* BookmarkStore.Add and Remove: save rewrites the whole file in place.
Save(l) ==
  /\ \/ /\ edits < MaxVersion
        /\ edits' = edits + 1
        /\ file' = [file EXCEPT ![l] = edits + 1]
     \/ /\ file[l] # 0
        /\ file' = [file EXCEPT ![l] = 0]
        /\ UNCHANGED edits
  /\ UNCHANGED <<callVars, slotVars, loginVars, serverVars>>

-----------------------------------------------------------------------------
(* conns.get *)

\* The bookmark is read.  A file that the application is just rewriting has none
\* in it: the store takes what it cannot read for empty.
Read(k, l) ==
  /\ at[k] = "idle"
  /\ server = "serving"
  /\ \/ Goes(k, "returned") /\ UNCHANGED <<label, seen>>
     \/ /\ file[l] # 0
        /\ Goes(k, "slot")
        /\ label' = [label EXCEPT ![k] = l]
        /\ seen' = [seen EXCEPT ![k] = file[l]]
  /\ UNCHANGED <<fileVars, using, awaits, slotVars, loginVars, serverVars>>

\* The slot is looked up under conns.mu.
FindSlot(k) ==
  /\ at[k] = "slot"
  /\ server = "serving"
  /\ Goes(k, "lock")
  /\ UNCHANGED <<fileVars, label, seen, using, awaits, slotVars, loginVars,
                 serverVars>>

\* What the slot keeps still stands for the bookmark.
Current_Any(k) == TRUE
Current(k) == updated[label[k]] = seen[k]

\* Where a call goes on that has to connect: first to the AWS credentials.
Connecting(k) == IF label[k] \in AWS THEN "status" ELSE "open"

\* The slot's connection and the tunnel under it are closed, whoever uses them.
Dropped(l) ==
  /\ open' = open \ {conn[l]}
  /\ conn' = [conn EXCEPT ![l] = No]

Lock(k) ==
  LET l == label[k]
  IN  /\ at[k] = "lock"
      /\ lock[l] = No
      /\ lock' = [lock EXCEPT ![l] = k]
      /\ IF conn[l] # No /\ Current(k)
           THEN Goes(k, "ping") /\ UNCHANGED <<conn, open>>
           ELSE Goes(k, Connecting(k)) /\ Dropped(l)
      /\ UNCHANGED <<fileVars, label, seen, using, awaits, updated, loginVars,
                     serverVars>>

\* The deferred unlock of a call that returns a connection or an error.
Unlocked_OnSuccess(k, to) ==
  IF to = "query" THEN [lock EXCEPT ![label[k]] = No] ELSE lock
Unlocked(k, to) == [lock EXCEPT ![label[k]] = No]
Leave(k, to) == Goes(k, to) /\ lock' = Unlocked(k, to)

\* What a call that returns no longer knows.
Forget(k) ==
  /\ label' = [label EXCEPT ![k] = No]
  /\ seen' = [seen EXCEPT ![k] = 0]
  /\ using' = [using EXCEPT ![k] = No]
  /\ awaits' = [awaits EXCEPT ![k] = No]

PingAnswers(k) ==
  /\ at[k] = "ping"
  /\ Leave(k, "query")
  /\ using' = [using EXCEPT ![k] = conn[label[k]]]
  /\ UNCHANGED <<fileVars, label, seen, awaits, conn, updated, open, loginVars,
                 serverVars>>

\* The ping fails: the server is gone, the client of the call is, or the pool's
\* one connection is busy with a query for five seconds.
PingFails(k) ==
  /\ at[k] = "ping"
  /\ Goes(k, Connecting(k))
  /\ Dropped(label[k])
  /\ UNCHANGED <<fileVars, label, seen, using, awaits, lock, updated,
                 loginVars, serverVars>>

\* awsLogins.ensure: the credentials are valid, or they are not, or cannot be
\* asked about.
Status(k) ==
  /\ at[k] = "status"
  /\ \E to \in {"open", "join"} : Goes(k, to)
  /\ UNCHANGED <<fileVars, label, seen, using, awaits, slotVars, loginVars,
                 serverVars>>

\* awsLogins.login: the one that runs, else a new one.
Join(k) ==
  /\ at[k] = "join"
  /\ Goes(k, "wait")
  /\ IF inFlight # No
       THEN /\ awaits' = [awaits EXCEPT ![k] = inFlight]
            /\ UNCHANGED <<inFlight, login>>
       ELSE /\ awaits' = [awaits EXCEPT ![k] = k]
            /\ inFlight' = k
            /\ login' = [login EXCEPT ![k] = "running"]
  /\ UNCHANGED <<fileVars, label, seen, using, slotVars, approved, serverVars>>

\* The login is done.
Joined(k) ==
  /\ at[k] = "wait"
  /\ login[awaits[k]] = "done"
  /\ IF awaits[k] \in approved
       THEN Goes(k, "open") /\ UNCHANGED <<lock, label, seen, using, awaits>>
       ELSE Leave(k, "returned") /\ Forget(k)
  /\ UNCHANGED <<fileVars, conn, updated, open, loginVars, serverVars>>

\* 45 seconds have passed, or the client of the call has left.
GiveUp(k) ==
  /\ at[k] = "wait"
  /\ Leave(k, "returned")
  /\ Forget(k)
  /\ UNCHANGED <<fileVars, conn, updated, open, loginVars, serverVars>>

\* connect.Open; an AWS bookmark needs the credentials again.
Opened(k) ==
  LET l == label[k]
      new == [by |-> k, label |-> l, version |-> seen[k]]
  IN  /\ at[k] = "open"
      /\ Leave(k, "query")
      /\ open' = open \cup {new}
      /\ conn' = [conn EXCEPT ![l] = new]
      /\ updated' = [updated EXCEPT ![l] = seen[k]]
      /\ using' = [using EXCEPT ![k] = new]
      /\ UNCHANGED <<fileVars, label, seen, awaits, loginVars, serverVars>>

\* A peer that says nothing holds a call as long as its client waits: an SSH jump
\* host that does not shake hands, with the slot, or a database behind a tunnel that
\* answers no more, in its query.
Stall(k) ==
  /\ \/ at[k] = "open" /\ Goes(k, "stuck")
     \/ at[k] = "query" /\ Goes(k, "hung")
  /\ UNCHANGED <<fileVars, label, seen, using, awaits, slotVars, loginVars,
                 serverVars>>

\* It fails, or the client of the call cancels it.
OpenFails(k) ==
  /\ at[k] \in {"open", "stuck"}
  /\ Leave(k, "returned")
  /\ Forget(k)
  /\ UNCHANGED <<fileVars, conn, updated, open, loginVars, serverVars>>

-----------------------------------------------------------------------------
(* What a call does with its connection *)

\* The query ends, with rows or an error, and the call returns.
Return(k) ==
  /\ at[k] \in {"query", "hung"}
  /\ Goes(k, "returned")
  /\ Forget(k)
  /\ UNCHANGED <<fileVars, slotVars, loginVars, serverVars>>

Work(k) ==
  \/ FindSlot(k) \/ Lock(k) \/ PingAnswers(k) \/ PingFails(k)
  \/ Status(k) \/ Join(k) \/ Joined(k) \/ GiveUp(k)
  \/ Opened(k) \/ Stall(k) \/ OpenFails(k) \/ Return(k)

-----------------------------------------------------------------------------
(* The logins *)

\* The device flow ends: the user approves, or it fails or runs into its end
\* after five minutes.
FlowEnds(k) ==
  /\ login[k] = "running"
  /\ login' = [login EXCEPT ![k] = "ended"]
  /\ approved' \in {approved, approved \cup {k}}
  /\ UNCHANGED <<fileVars, callVars, slotVars, inFlight, serverVars>>

\* The login is taken off the list ...
Unlist(k) ==
  /\ login[k] = "ended"
  /\ login' = [login EXCEPT ![k] = "unlisted"]
  /\ inFlight' = No
  /\ UNCHANGED <<fileVars, callVars, slotVars, approved, serverVars>>

\* ... and then those that wait for it are told.
Announce(k) ==
  /\ login[k] = "unlisted"
  /\ login' = [login EXCEPT ![k] = "done"]
  /\ UNCHANGED <<fileVars, callVars, slotVars, inFlight, approved, serverVars>>

LogIn(k) == FlowEnds(k) \/ Unlist(k) \/ Announce(k)

-----------------------------------------------------------------------------
(* Run ends *)

\* The client closes stdin.  Calls may still be at work: closeAll takes conns.mu.
Disconnect ==
  /\ server = "serving"
  /\ server' = "closing"
  /\ toClose' = Label
  /\ UNCHANGED <<fileVars, callVars, slotVars, loginVars>>

\* A slot nobody holds is closed; one without a call yet does not exist.
CloseSlot(l) ==
  /\ server = "closing"
  /\ l \in toClose
  /\ lock[l] = No
  /\ toClose' = toClose \ {l}
  /\ Dropped(l)
  /\ UNCHANGED <<fileVars, callVars, lock, updated, loginVars, server>>

\* The process is gone, and every call, connection and login with it.
Exit ==
  /\ server = "closing" /\ toClose = {}
  /\ server' = "exited"
  /\ at' = [k \in Call |-> "returned"]
  /\ lock' = [l \in Label |-> No]
  /\ conn' = [l \in Label |-> No]
  /\ open' = {}
  /\ inFlight' = No
  /\ login' = [k \in Call |-> "none"] /\ approved' = {}
  /\ updated' = [l \in Label |-> 0]
  /\ label' = [k \in Call |-> No] /\ seen' = [k \in Call |-> 0]
  /\ using' = [k \in Call |-> No] /\ awaits' = [k \in Call |-> No]
  /\ UNCHANGED <<fileVars, toClose>>

Shutdown == Exit \/ \E l \in Label : CloseSlot(l)

Next ==
  \/ \E l \in Label : Save(l)
  \/ \E k \in Call :
       \/ \E l \in Label : Read(k, l)
       \/ Work(k) \/ LogIn(k)
  \/ Disconnect
  \/ Shutdown

\* Goroutines are scheduled and a mutex goes to one of those that wait for it;
\* pings and device flows have time limits.  Nothing makes a client call, cancel or
\* leave, a user edit or approve, or a silent peer speak.
Fairness ==
  /\ \A k \in Call : /\ WF_vars(at[k] \notin {"stuck", "hung"} /\ Work(k))
                     /\ WF_vars(LogIn(k))
  /\ WF_vars(Shutdown)

Spec == Init /\ [][Next]_vars
FairSpec == Spec /\ Fairness

-----------------------------------------------------------------------------
(* Properties *)

Holding == {"ping", "status", "join", "wait", "open", "stuck"}

\* Types, and the lock of a slot is held by the call that is in it.
TypeOK ==
  /\ file \in [Label -> 0 .. MaxVersion]
  /\ edits \in 1 .. MaxVersion
  /\ at \in [Call -> {"idle", "slot", "lock", "query", "hung", "returned"}
                     \cup Holding]
  /\ label \in [Call -> Label \cup {No}]
  /\ seen \in [Call -> 0 .. MaxVersion]
  /\ using \in [Call -> Connection \cup {No}]
  /\ awaits \in [Call -> Call \cup {No}]
  /\ lock \in [Label -> Call \cup {No}]
  /\ conn \in [Label -> Connection \cup {No}]
  /\ \A k \in Call : at[k] \in Holding <=> \E l \in Label : label[k] = l /\ lock[l] = k
  /\ updated \in [Label -> 0 .. MaxVersion]
  /\ open \subseteq Connection
  /\ inFlight \in Call \cup {No}
  /\ login \in [Call -> {"none", "running", "ended", "unlisted", "done"}]
  /\ approved \subseteq Call
  /\ server \in {"serving", "closing", "exited"} /\ toClose \subseteq Label

\* No connection is left open without a slot that will close it, and none is in
\* two slots: what is open is what the slots keep.
OpenIsKept ==
  /\ open = {conn[l] : l \in Label} \ {No}
  /\ \A l \in Label : conn[l] # No => conn[l].label = l

\* "A cached connection is reopened when ... the bookmark was edited since"
\* (conns.go:44): a call queries through a connection that was opened for its own
\* bookmark, as the call has read it, though others reopen and replace the
\* slot's connection from older and newer versions while it waits.
ServedAsRead ==
  \A k \in Call :
    at[k] = "query" => using[k].label = label[k] /\ using[k].version = seen[k]

\* "at most one per profile at a time, so a model retrying a tool call doesn't
\* open a browser tab per try" (awslogin.go:21).
OneLogin == \A j, k \in Call : login[j] = "running" /\ login[k] = "running" => j = k

\* A slot whose lock is held by a call that a silent peer holds.
Silent(l) == \E j \in Call : lock[l] = j /\ at[j] = "stuck"

\* Whom that keeps: the call itself, those of its bookmark, and, once closeAll
\* waits for the slot with conns.mu in its hand, every call that has yet to look
\* its slot up.
HeldUp(k) ==
  \/ at[k] \in {"stuck", "hung"}
  \/ at[k] = "lock" /\ Silent(label[k])
  \/ at[k] = "slot" /\ \E l \in toClose : Silent(l)

\* Every call returns, though a login that it waits for is never approved and
\* others hold its slot, and the server exits once its client has left; unless a
\* peer that says nothing holds them up for good.
CallsReturn ==
  /\ \A k \in Call : (at[k] # "idle") ~> (at[k] = "returned" \/ []HeldUp(k))
  /\ (server = "closing")
       ~> (server = "exited" \/ [](\E l \in toClose : Silent(l)))
=============================================================================
