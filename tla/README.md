# A verification of Bufflehead's concurrent core

Bufflehead is a desktop viewer for data files and databases: a Godot front end
written in Go, whose main thread owns every widget and all of the application's
state, and a number of goroutines that do the slow work (queries, tunnels,
logins, downloads) and report back. This directory holds TLA+ models of the parts
where the order of events decides whether the program is right, the TLC
configurations that check them on small instances, and theorems proved with
TLAPS for instances of every size.

Paths are those of the repository; `ui/` and the like stand for
`src/internal/ui/`.

## 1. The system

### Components

| Component | Source | State it keeps | Operations |
| --- | --- | --- | --- |
| Window | `ui/appwindow.go` | the rail of connections, the tabs, the active connection, each connection's last tab | open, select, close a tab or a connection; open a file; apply a result; `render` |
| Connection worker | `ui/connworker.go` | two bounded request channels, one shared results channel, the current request | send, take, answer, stop; polled by the main thread once a frame |
| Tab query | `ui/appwindow.go`, `models/state.go` | generation, `navigating`, the Back/Forward trail, what is on screen | run, back, forward, apply a result, drop a stale one |
| Gateway connection | `ui/gateway_connect.go`, `ui/app.go` | the pending slot, the config, forwards and pools of each connection | open, reconnect, switch database, close, apply an outcome |
| SSM tunnel | `aws/tunnel.go`, `aws/ssm_session.go`, `connect/connect.go` | status, attempt counter, contexts | start, retry, wait for readiness, stop |
| SSH tunnel | `sshtun/tunnel.go` | client, listener, closed, last error, tracked connections, wait group | start (dial, handshake, listen), cancel, accept, forward, keep alive, fail, stop |
| Database pool | `db/postgres.go`, `db/mysql.go`, `ui/connworker.go`, `ui/app.go` | one database session, who has it, whether it was made read-only | open, check, reset, query, list, close |
| Control server | `control/server.go`, `ui/app.go` | the command channel, the /sql semaphore, the snapshot of the state | dispatch a command, answer it from a result, run or cancel SQL |
| Connection screen | `ui/gateway_screen.go` | a card per saved connection, an SSO panel, the forms | connect, cancel, log in, pick account and role, save |
| Saved data | `models/bookmark.go`, `models/history.go`, `models/secret.go` | JSON files, the keychain | add, remove, load |
| Self-updater | `updater/`, `ui/update_modal.go` | the update phase, the staged download, the bundles on disk | check, download, install, swap, finish |
| MCP server | `mcpmode/` | a slot per bookmark, logins in flight | get a connection, log in, close all |
| Re-login | `ui/relogin_modal.go` | one dialog | log in again |
| AWS and SSH authentication | `aws/auth.go`, `sshtun/auth.go`, `sshtun/hostkey.go` | credentials, token cache, known hosts | check, log in, sign |
| Database engines | `db/` | the connections of DuckDB, SQLite, Postgres, MySQL; the running BigQuery job | query, page, list, cancel |
| Sandbox grants | `sandbox/` | granted folders | open, restore, close |
| The rest | `completion/`, `mcpsetup/`, `ui/theme.go`, menus, `cmd/`, `bin/`, `packaging/` | little or none | formatting, layout, scripts |

`PROJECT.json` lists them all with their status.

### How they interact

The main thread runs `App.Process` once a frame: it polls the results channel of
every window, drains finished update work, and takes commands from the control
server. It changes state only there and in widget callbacks, so an event handler
is atomic with respect to other handlers. It talks to a connection's worker
through a *blocking* send on a channel of sixteen; the workers of a window answer
into one results channel of sixteen that only the main thread empties. Opening,
reconnecting and switching run in goroutines of their own, which put what they
built (a forward, a pool) in a result and post it into the same channel. Tunnels run goroutines that outlive
these and are stopped through contexts and mutexes. HTTP handlers of the control
server send commands to the main thread and SQL requests straight to a worker.
A worker, the database switcher and the frame that notices a tunnel share the one
session of a pool. The goroutines of the connection screen write what they found
into a field of their card, or of the screen, and raise a flag that the next frame
lowers.

### What is hard

* **Interleaving.** Nothing keeps two opens of a window, a reconnect and a
  database switch of a connection, or a login and an attempt of a card from being
  in flight together.
* **Stale answers.** A result may reach a tab that has run something else, moved
  to another index, or closed; a list of roles may reach another account.
* **Renumbering.** Tabs name connections by position, and positions move.
* **Bounded channels with a shared consumer.** The main thread and a worker can
  block on each other.
* **Flags for several reports.** A flag stands for everything a goroutine has
  written, and a frame handles one report of it.
* **Replaced sessions.** What is set on a database session is lost with it, and
  the pool replaces sessions whenever it likes.
* **Teardown.** Stopping a tunnel makes each of its threads fail; those failures
  must not be taken for a lost connection, and no thread may be left behind.
* **Retries.** Ten attempts a round, a round per outage, six health checks, a card
  that gives up while the tunnel comes up.
* **Half-done saves.** A password and its bookmark go to two stores.

`PROJECT.json` lists each hazard at its line with the properties that watch it.

### What makes each component correct

* Window: every index means what it is used for; the active connection has a tab
  while any tab exists; a tab never changes connection.
* Worker: every UI request is answered once and in order; UI requests are not
  starved by SQL requests; a mutual wait needs more requests, opens, reconnects and
  switches than fit; every SQL call returns.
* Tab query: the screen never goes back to an older answer, the newest answer is
  never dropped, and the trail agrees with the screen.
* Gateway: a connection never holds a closed pool or one that belongs to another;
  nothing built is left without an owner; a pool reaches the server and database
  the connection names.
* SSM tunnel: each outage gets a full round of attempts; a tunnel handed over
  stands until stopped; an abandoned one ends.
* SSH tunnel: a start that fails or is cancelled leaves nothing, and a cancel ends
  it; a stopped tunnel leaves nothing; an orderly stop records no error; `Stop`
  returns; a loss is noticed.
* Database pool: no session that accepts writes is used; a session that died
  unnoticed costs no request; whoever waits for the session is answered, unless it
  is silent for good behind a tunnel.
* Control server: a command is held in one place until it is answered; success
  means that the result was shown; a client that has an answer and a later one is
  served a state with the effect of the first; a dimmed tab has a result on its way;
  every command returns that no silent jump host or stopped worker keeps.
* Connection screen: an attempt in flight can be cancelled; a tunnel that is up is
  noticed; buttons come back; a profile is of one account; a saved password stays
  with its server as long as the disk takes the bookmarks.
* Self-updater: whatever crashes, a whole release is in place or in the backup, or
  the verified copy beside them; every phase that waits has
  a goroutine to wait for; the application comes back after the swap.
* MCP server: a call queries the connection its bookmark as read asks for; what is
  open will be closed; one login runs at a time; a call returns unless a peer that
  says nothing holds it up.

## 2. Plan

Modules in the order of what matters most to a user: what is on screen and where
it comes from, then what it travels through, then what surrounds it.

| Module | Models | Status |
| --- | --- | --- |
| `Window` | tabs, rail, active connection of one window | done, proved in `TabsProofs` |
| `ConnWorker` | the channels between main thread, workers and `/sql` handlers | done, proved in `ConnWorkerProofs` |
| `RequestOrder` | abstract: one queue per connection | done; `ConnWorker` refines it (TLC and proof) |
| `TabQuery` | runs, Back and Forward, stale answers of a tab | done, proved in `TabsProofs` |
| `Gateway` | open, reconnect, switch, close of remote connections | done, proved in `GatewayProofs` |
| `Tunnel` | one SSM tunnel and the card that starts it | done, proved in `RemoteConnectionProofs` |
| `Supervisor` | abstract: what the owner of a tunnel may rely on | done; `Tunnel` refines it (TLC and proof) |
| `SSHTunnel` | one SSH forward from its start to its teardown | done, proved in `RemoteConnectionProofs` |
| `DatabasePool` | the one session of a Postgres or MySQL pool and those who share it | done, proved in `RemoteConnectionProofs` |
| `Commands` | the control server's commands from submission to answer, `Process` | done, proved in `CommandsProofs` |
| `ScreenState`, `Cards`, `SSOPanel`, `SavedConnections` | the connection screen | done, proved in `ScreenProofs` |
| `Updater` | self-update with crashes and power loss | done, proved in `UpdaterProofs` |
| `McpServer` | calls, connection slots and AWS logins of the headless server; bookmarks edited meanwhile | done, proved in `McpServerProofs` |
| `SavedData` | bookmarks and history rewritten by two processes, the history's cap | planned, to be composed with `McpServer` |
| `Windows` | several windows and the re-login dialog | planned, to be composed with `Commands` |
| `Engines` | the running BigQuery job and its cancel | planned |
| `Grants` | the folders the sandbox has granted | planned |

`MCTabs`, `MCConnWorker`, `MCGateway`, `RemoteConnection` and `ConnectionScreen`
put these together for the runs.

Every safety and action property that a passing run checks, and both refinements, are
proved. Still worth proving: that `Commands` implements an abstract control server (a
command is answered once, after its effect), and an update an abstract swap of releases.

## 3. From the code to the modules

The main thread of the program runs one event handler, widget callback or poll at
a time. So a handler is one action, whatever functions it calls, and only what
runs beside it (a worker, a goroutine, a helper process, an HTTP handler) has
actions of its own. `PROJECT.json` gives the source lines of every definition.

**Window.** `conns` is `w.connections`, `tabs` is `w.tabs` with the connection
index of each tab, `activeConn` is `activeConnIdx`, `lastTab` is the recorded tab
of each connection, `nextTabID` the process-wide counter. Positions are the
code's plus one. `render` is not an action: every handler ends with it and it
only derives a cache from this state. An action each: new tab, select tab, close
tab, select connection, open a file, a connection opened, close a connection; and
`ConsumeTabID` for the ids other windows take.

**ConnWorker.** `uiReqs`, `sqlReqs`, `results` are the channels. The main thread
is `main`, because it can block: in `Send`, and in `Stop` for up to three seconds.
A worker's loop is `pc`: its first select (`PollUI`), its second (`SelectUI`,
`SelectSQL`, `SelectDone`), and the end of a request. An HTTP handler of
`POST /sql` is `caller`: refused with 429 or admitted, sending, waiting, returned.
`oneShot` are the goroutines of opens, reconnects and switches, which post one result
each into `results` and may never end. What a request computes is left out.
`RequestOrder` is the one queue per connection this amounts to.

**TabQuery.** One tab of a window, or several. `generation`, `navigating`,
`navStack`, `navPos` are the fields of those names; `shown` is what the grid holds;
`inFlight` are requests out and answers not yet polled. Answers come back in any
order: one worker answers in order, but a reconnect gives the tab a new worker
while an old answer is still in the results channel. A query stands for its SQL
with sort, page and columns.

**Gateway.** `rail` maps a connection to its config and to what it holds: a
forward (SSM or SSH) and a pool. `ops` are the goroutines of opens, reconnects
and switches, at a stage each: capturing, building a forward, dialling, done. What
an operation builds carries its number. `pending` is the window's one
`pendingGateway` slot. `forwards` and `pools` are what exists, with the local port
each forward listens on. `disturbed` is a history variable: it records that
something happened that the code does not guard against. The AWS arm of a
reconnect is left out, and BigQuery entries are in the module but in no run.

**Tunnel.** Three threads: the run loop (`pc`, `attempt`, `status`), the
goroutine in `connect.SSMTunnel` (`waiter`, `outcome`), and the main thread
(`card`). `hook` is the `context.AfterFunc` that stops the tunnel with its
context. The session itself is external: it starts or fails, and ends when it
likes. `Supervisor` is what an owner sees: a status and whether it was stopped.

**SSHTunnel.** `Start` first, at the position `start`: it looks for credentials
and host keys, dials, shakes hands, takes back the callback that closes the socket
when the context is cancelled, and listens. `closer` is that callback, which runs
beside it. Then the accept loop, one goroutine per forwarded connection, the
keepalive loop and two callers of `Stop`. A mutex section is one action; each
close after it is one of its own, because the other threads go on meanwhile.

**DatabasePool.** The pool is the library's: `session` is its one connection,
`user` who has it, `guarded` whether that session was told to refuse writes. What
the library may do is a choice: to drop an idle session, to keep or drop the one a
statement failed on, to notice that the one it hands out is dead. A dead session may
be `"silent"`: through a tunnel the peer of its socket is this process, so that no
keepalive fails (`Hung`: who has no time-out of its own waits on it). The code's side
are the steps of the three users: the worker's request (`step`, `tries`), which
checks before it queries and not before it reloads the tables; the switcher's
goroutine (`lister`); the main thread, which resets the pool once the tunnel is back
and closes it. `hindered` is a history variable: something other than a dead session
has been in the way since the last reset.

**Commands.** A command is in the channel, in a worker's queue, with a goroutine,
among the results or answered; `kind` and `place` are what it turned out to be, `gen`
and `genOf` the generations. `frame` is where `Process` is: polling, then, after the
snapshot, draining commands. A worker is the queue that `ConnWorker` is shown to
implement, and each connection has one tab, for which connection a command means is
all that matters here. `stalled` are the reconnects that shake hands with a silent jump
host, `unserved` (history) the runs that found no worker and the files nobody could
read; commands that are answered on the spot and change nothing
that is awaited are one kind, whatever panel they open.

**ScreenState, Cards, SSOPanel, SavedConnections.** The three parts of the
connection screen, with what they share: whether it is up, and the user's clicks. A
click that starts a goroutine gives it its number. In `Cards`, `cancelled`,
`loginErr`, `connected` and `bastions` are the fields a goroutine writes,
`needsUpdate` the flag it then raises, `at` the card the frame has come to. In
`SSOPanel`, `reports` are the fields written, `Order` the fixed order in which a frame
looks for one. A press of a form in `SavedConnections` writes passwords to `keychain`,
then the bookmark to `bookmarks` and `file`; each write may fail, and the application
may die in between. A press's number stands for the server, the password and the jump
host typed. `overlapped`, `rushed`, `crossed` and `lapsed` are history variables: the
user did what the screen does not guard against (section 7), or the disk did not
take the bookmark.

**Updater.** `st` is `updater.State`, `jobs` the goroutines of check, download and
install, `app`, `copy` and `backup` the three bundles, `helper` the position in the
detached swap script. `proc.boot` is how far `FinishInstall` is in a started
application: it finds the bundle, looks for a backup, and removes it file by file, all
beside the helper. The script's `rm` may fail, and its `mv` then puts the application
inside the old backup (`"nested"`). `undercut` is a history variable: one of the two has
happened to this swap. The user may quit and launch at any time; the application, the
helper and the machine may stop between any two steps.

**McpServer.** A `Call` is one `run_sql` or `get_schema` of a client; `at` is where
it is in `conns.get`, and after it in its query; at `stuck` it opens a connection, at
`hung` it queries, and the peer says nothing. `lock`, `conn`, `updated` are the
fields of a slot; `open` is what was opened and not closed. `file` is
`bookmarks.json` with a version for each bookmark's `UpdatedAt`; the application
saves it in place, so a call may also read it half written and find no bookmark.
Credentials, pings, dials, the user's approval and the client's patience are
external. All AWS bookmarks use one profile, for logins of different profiles
share nothing; a login is known by the call that starts it. `closeAll` runs when
the client leaves, while calls may still be at work.

**Composites.** `MCTabs` is one window from its two sides, `RemoteConnection` what
a remote connection stands on, `ConnectionScreen` the screen. Their parts share no
variable but those of the screen, and what one does depends on no other: `side` or
`part` is chosen at the start and only that part moves, which checks each in one run
without multiplying their states. Where parts do depend on each other (workers and
the main thread, reconnects and switches, forwards and ports, server and editor of
the bookmarks) they are one module.

## 4. The runs

| Run | Instance | Distinct states |
| --- | --- | --- |
| `tabs` | memory and 2 more connections, tab ids up to 6; 1 tab, 3 queries of which 2 are SELECTs, 4 runs, trail of 2 | 393,583 |
| `worker` | 2 workers, 3 UI and 2 SQL requests, 1 one-shot, channels of 1, semaphore of 2 | 2.7 million |
| `worker_live` | 1 worker, 2 UI and 2 SQL requests, 1 one-shot, same capacities | 131,000 |
| `gateway` | an AWS and an SSH entry, 2 databases, 2 ports, 4 operations | 5.1 million |
| `gateway_wrong` | two SSH entries, 2 ports, 4 operations | stops at the violation |
| `remote` | 10 attempts and 6 health checks as in the code, 2 forwarded connections | 100,633 |
| `ssh_handshake` | the same SSH tunnel | stops at the violation |
| `postgres_writes` | the same pool | stops at the violation |
| `updater` | no bounds | 6,107 |
| `mcp` | 2 calls, an AWS and a direct bookmark, 3 versions | 403,809 |
| `commands` | 3 commands, memory and 1 more connection, a channel of 2 | 274,000 |
| `screen` | 3 clicks on one card of each kind or on a panel with 2 accounts; 2 presses of a form, 2 labels | 125,000 |

### What they show, and why the bounds are enough

**`tabs`.** `TabsKeepConnection` compares the tab with its connection's identity
before and after a step, so a wrong renumbering after a close breaks it. Three
connections give a closed one a neighbour on either side; six ids let a connection
have tabs before and after a closed one, and lists with gaps. `ShownNeverOlder` and
`NewestApplied`: the generation check drops exactly the answers that came too late.
`TrailMatchesScreen`: at rest, the trail's current entry is what is on screen. Four
runs let two answers overtake each other around a Back; a trail of two makes the cap
(100 in the code) drop entries; the query that is no SELECT is shown but not recorded.

**`worker`.** `UIOvertakenOnce` is the priority of the UI. `SQLAnsweredOnce`
guards the reply channel of one. `MutualWaitOnlyAtCapacity`: the main thread,
blocked on a full request channel, and a worker, blocked on the full results
channel, can wait on each other only when more is outstanding than one request channel, the
results channel and the worker hold together, 33 in the code: UI requests of all
connections, opens, reconnects and switches, which share the results channel.
Capacities of one make every channel full as often as possible; three UI requests
and a one-shot are one more than fit, so that the mutual wait does occur.

**`worker_live`.** With no more UI requests and one-shots than fit, the mutual wait
cannot happen, every request is served, although a one-shot may never report, and every
admitted `/sql` call returns.
`ImplementsRequestOrder` is the refinement: what is handled is what was sent, in
order, none passed over and none twice; that the last is not lost either is
`UIRequestsServed`.

**`gateway`.** `HeldPoolsAreOpen` and `NothingShared` hold for every overlap of
operations. `OwnedWhenUndisturbed` and `ReachesWhatItNames` hold unless one of the
overlaps listed under `disturbed` happened; the violations are in section 7. Four
operations are two opens and any two of reconnect and switch, on one connection
or two; two ports are the fewest with which a port can be reused by another
connection, and `FreePort` hands out any free one.

**`remote`.** `HandedOverStands`: the deferred cancel of the goroutine that built a
tunnel cancels the very context whose cancellation stops it. `AbandonedEnds`: no
reconnect loop is left behind. `ImplementsSupervisor` is the refinement, which a
counter of attempts that is not reset breaks. `StoppedLeavesNothing` quantifies over
every interleaving of start, cancel, teardown and traffic; `CancelEndsStart`,
`StopReturns` and `LossIsNoticed` are the liveness of the SSH tunnel. Two forwarded
connections can be at different points of being dialled, tracked and torn down; the
tracked set treats them alike, which is why the proof needs no bound.
`MySQLStaysReadOnly` goes through every replacement of the session.
`StaleSessionHeals`: the dead session is found, the pool reset and the check repeated,
and the six checks are used up only if something else was in the way. `PoolCallsEnd`:
worker and switcher both get the one session, or an error, even with the pool closed
under them or the server gone for good; it excepts a list or statement that waits for
ever on a silent session, which the code does not bound.

**`updater`.** `ReleaseRemains` is the crash-safety of the swap, with a relaunched
application's `FinishInstall` at any point beside the script: only a swap that was
undercut can leave neither place nor backup whole, and then the verified copy is still
there while nothing is in place. `AnswerAwaited`
relates the phase to the goroutine at work. `RestartComesBack` says the
application comes back after it quit for the swap.

**`mcp`.** `ServedAsRead`: between reading its bookmark and querying, a call may
wait for the slot while another reopens it from a newer version, or from an older
one that it read earlier; the check of `UpdatedAt` under the lock is what sorts
them out. `CallsReturn`: a call holds its slot while it waits for a login that may
never be approved, another waits for the slot, a third thing, `closeAll`, for both.
What a silent peer holds up for good it excepts, and no more than that: its call, the
others of the bookmark, and, once the client has left, those that `closeAll` keeps from
their slot. A call that only waits behind another still returns when that one does.
Two calls give each of these pairs, three versions an older and a newer one on
either side of a wait.

**`commands`.** `HeldInOnePlace`: answered twice, a command can block the main
thread; held nowhere, its client waits for ever. `OkMeansShown` and `DimmedIsAwaited`
tie answers and the "Running..." of a tab to results that may be of an older
generation, of a stopped worker, of a file that cannot be read, or of none. `AnsweredIsVisible`: a client that has the
answers to a command and to a later one finds the first one's effect in `GET /state`.
`CommandsReturn` is the liveness: a reconnect that a silent jump host holds is never
answered, and it holds up no other command. With three commands one can supersede another while
the third closes or reconnects the connection; a channel of two fills.

**`screen`.** `CancelAtHand`: a press, the goroutine's reports and the frame that
handles one of them race, and the button must still stand for the attempt under way.
`TunnelIsNoticed`: a tunnel that is up is handed over or about to be looked at.
`ProfileOfOneAccount`: the profile that is written has a role of its account, although
the lists come back in any order. `PasswordOfItsServer` survives a keychain that
refuses or keeps a password, restarts, and saves and removals of the same label; a label
whose bookmark the disk or a crash did not take (`lapsed`) is excepted until it is saved
again. `ButtonComesBack` and `LoginSettles` are
the liveness. Three clicks are a login, a connect and a cancel; two presses on two
labels a connection saved, and saved again or beside it.

`TypeOK` and its like of the modules with proofs are proved and need no run; so are
`IndicesValid`, `ActiveConnHasTab`, `ShownIsAsked`, `FullRoundBeforeGivingUp`,
`OrderlyStopNoError`, `OpenIsKept` and `OneLogin`.

Symmetry is used for runs without temporal properties that need more than one
step: requests and workers that are treated alike, the SELECT queries, the ports,
the connections other than the memory one. `CHECK_DEADLOCK FALSE` is set where a
finished system stops: all requests made and answered, operations used up, tabs
closed, tunnels stopped, the screen closed, the updated machine off.

Each property has a mutant in `PROJECT.json`: a definition changed as a plausible
slip would change it (`..._Kept`, `..._Never` and the like stand beside the
definitions they replace), under which TLC finds the property violated.

## 5. Fairness

Only what the runtime guarantees is assumed fair. Nothing makes a user click, a
client connect or leave, a network fail or recover.

* `ConnWorker`: frames keep coming while the main thread is not blocked;
  goroutines are scheduled; a worker's database call ends, with a result or an error
  (when it may not is what `DatabasePool` models). A one-shot need not end.
* `Tunnel`: threads are scheduled and frames keep coming. A session that starts or
  is up may last for ever, but not once its context is cancelled.
* `SSHTunnel`: goroutines are scheduled and the ticker ticks; a dial ends. An accept
  returns once the listener is closed, a pair of copies once its sockets are. A
  handshake ends once its socket is closed or dead: a host that stays silent may
  never answer.
* `DatabasePool`: the worker and the switcher's goroutine run; a health check ends
  after ten seconds, a statement over a dead session when the keepalives of TCP give up.
  Over a silent one no end is assumed: through a tunnel this process is the peer that
  answers the keepalives (`aws/ssm_session.go:27`). Getting the session is *strongly*
  fair: `database/sql` serves those who wait for a connection in their order, so who
  waits is not passed over for ever.
* `Commands`: frames keep coming, a worker finishes what it has begun, a stopped
  worker ends, and so do the database calls of a run and of an open. A reconnect reports unless a silent
  jump host holds it (`ui/gateway_connect.go:124` gives it no context that ends).
* `Cards`, `SSOPanel`: frames keep coming; a login gives up after five minutes, an
  attempt after one and at once when cancelled; AWS calls end. Nothing makes the
  user approve a login.
* `Updater`: goroutines and frames are scheduled, the helper runs, a quit under way
  ends.
* `McpServer`: goroutines are scheduled, and a mutex goes to one of those that wait
  for it; a ping ends after five seconds, a wait for a login after forty-five, a
  device flow after five minutes. An open and a query end unless their peer says nothing;
  then only the client can end them, which nothing makes it do.

But for the pool all of it is weak fairness: a Go select or mutex that is
continuously available is eventually taken. `Window`, `TabQuery`, `Gateway` and
`SavedConnections` have no liveness properties and assume none. In a composite the
assumptions are those of its parts.

## 6. The proofs

TLAPS proves these for every number of connections, tabs, requests, operations
and for every capacity. The only assumptions are the named ones on the constants,
beside their declarations; TLC evaluates them in every run.

Each proof module defines an inductive invariant, `IInv` (`WindowInv`, `QueryInv`,
`TunnelInv`, `SSHInv`, `PoolInv` where a proof module has several), and proves
`Init => IInv`, `IInv /\ [Next]_vars => IInv'` with a step per action, and the
properties from it. The invariant is a conjunction of named parts, and a part that
is not itself a property is there because a step would break a property without it.

* **`TabsProofs`, the window.** `TypeOK`, `IndicesValid`, `ActiveConnHasTab`,
  `RecordedTabIsOwn`, `FilesOnlyInMemory`. They need each
  other: the active connection has a tab after a close only because the indices
  of the tabs were valid before it, and a recorded tab is never another
  connection's because ids only grow. `TabsKeepConnection` is proved
  from it as an action property.
* **`TabsProofs`, a tab's queries.** `Requests` (every request in flight is of the
  generation and the tab it names), `ShownWasAsked`, `TrailAwaited` (while a Back is
  under way, the newest request asks for the trail's current entry), with the two
  properties. `NeverOlder` and `NewestIsApplied` follow from the first.
* **`ConnWorkerProofs`.** That answers keep the order of requests is stated by
  positions: `Positions` says where in the list of a worker's requests the queue,
  the request in hand and the one being sent stand, `Posts` the same of its
  answers in the shared channel, where the other workers' are in between.
  `SQLPlaces` says that a `/sql` request is in one place at most. `Types` adds to
  `TypeOK` that only a cancelled worker is being stopped. Three results follow.
  `UIAnswersInOrder`: what the main thread has taken of a worker's answers is a
  prefix of what it sent. `ImplementsOrder`, the refinement of `RequestOrder`: what
  is pending there is the part of a worker's list between what was handled and what
  was sent, so a send appends to it, taking a result removes its head, and every
  other step is a stutter. `WaitsOnlyAtCapacity`: while both wait, the requests whose
  answers are in the results channel, the one in the worker's hands, those that fill
  its channel and the one being sent stand at different positions, or in the lists of
  different workers, and the channel's other results are one each of different
  one-shots. `SentApart` (a second invariant: finitely many requests are sent, each to
  one worker) makes that an injection of as many numbers into what is outstanding.
* **`GatewayProofs`.** `OpsKnown`, `PoolsApart`, `ForwardsApart`, `ForwardsNew`:
  what an operation has built carries its number and nobody else's, and a
  connection holds what an operation that is over has built. These hold whatever
  overlaps. `UInv` is for a window in which nothing of what `disturbed` records has
  happened: then one open is in flight and one rebuild of a connection
  (`OneAtATime`), the pending slot is the open's (`PendingIsOpened`), a switch works
  with the forwards its connection has, or with none left if it was closed
  (`SwitchKeeps`), and a connection that is being rebuilt holds neither pool nor, in a
  reconnect, a forward (`TornMeanwhile`). Without the last two, a reconnect could put
  its forward under a pool that was dialled through another. `NothingLeaks` and
  `ReachesItsDatabase` are its last two parts, `AllOwned` and `AllReach`.
* **`RemoteConnectionProofs`, the SSM tunnel.** `StatusOfPlace` ties the status to
  the place of the run loop, `Counted` the code's counter to the history variable,
  `StoppedBySomeone` names who can have cancelled the context. `ImplementsSession` is
  the refinement of `Supervisor`, step by step.
* **`RemoteConnectionProofs`, the SSH tunnel.** `SocketsHeld` (a socket is open only
  while its goroutine has not left), `StartInOrder` (until `Start` returns, nothing
  exists but the connection to the jump host, in the state `Start` has brought it to),
  `TornDownInOrder` (where the first `Stop` is, and what is closed by then),
  `ErrorsHaveCauses`.
* **`RemoteConnectionProofs`, the pool.** `PoolShape` says who can have the session
  and when, `MySQLGuarded` that a session is guarded from its first moment, whoever
  opens it. `WayIsFree` is what makes a retry worth it: while the check is repeated and
  nothing has come in the way since the reset, the next check finds a live session or
  can open one. `StaleSessionHeals` follows, for any number of checks from two.
* **`CommandsProofs`.** `NowhereTwice` (no queue repeats a command and no two places
  share one), `Unhandled` (what is in the channel has no kind, place, generation or
  answer yet) and `AnsweredOrTravels` make `HeldOnce`. `Generations` says that a tab's
  generation is one that some command has given it and that none is ahead: that is
  why a result of the tab's own generation is the newest, which `OkShown` and
  `DimmedAwaited` rest on; the latter names the two ways in which a tab is left dimmed. `SnapshotIsFresh` gives `AnsweredVisible`.
* **`ScreenProofs`.** The cards: `OneJobEach` (a card has one job at a time) and
  `BusyIsSilent` (when a job starts, what an earlier one reported has been looked at)
  are why a report a frame finds is of the attempt under way; both except the cards
  where the user has done what the screen does not guard against. The panel: when
  nothing has crossed, one request is at work or one decisive report waits
  (`OneAtATime`), and what is picked and listed is of the session and the account
  (`PickedInSession`, `RolesOfPicked`). The saved connections: `OnDisk` (memory and
  disk differ only under labels whose write was lost) and `NoSecretOverAWS` (a bookmark
  over AWS names no password) carry `PasswordOfItsServer` through every save and restart.
* **`UpdaterProofs`.** `OneJob` and `PhaseAwaits` tie the phase to the goroutine in
  either direction. `Preparing` and `Swapping` say, for each place the installer and
  the helper can be at when something stops, and each step of a `FinishInstall` beside
  it, what the three bundles hold: the helper starts only with a verified copy, which
  stays until it is in place, and while no application is, the backup is complete unless
  it was undercut.
* **`McpServerProofs`.** `Vacated` (a call that is about to open holds the lock of an
  empty slot) is why opening never drops a connection unclosed; `PingsOwn` why a
  ping that is answered is of the version that was read; `KeptAsRecorded` ties
  `slot.updated` to the connection beside it; `Listed` says that a login under way
  is the one on the list. `ServedAsRead`, `OpenIsKept` and `OneLogin` follow.

`SidesKept` and `PartsKept` say that the compositions which the runs `tabs` and
`remote` check are behaviours of each of their parts, so that what is proved of a part
is proved of what is run; `ScreenProofs` is about the composition itself.

Only model-checked: the liveness properties (`UIRequestsServed` and its like), because
fairness and `ENABLED` are beyond the prover. The three runs of section 7 refute what they
check, which a proof cannot. The history variables that except a case (`disturbed`,
`overlapped`, `rushed`, `crossed`, `lapsed`, `hindered`, `undercut`, `interrupted`,
`unserved`) are part of what the
theorems state, not assumptions of theirs: where each is set is in the modules.

## 7. Where the code differs from what it says

Shown by a run, with the counterexample TLC prints:

* `gateway_wrong`: after a failed reconnect, a database switch dials the local
  port of the forward that was stopped (`ui/gateway_connect.go:274`), where another
  connection's forward may listen by then; `docs/ssh-tunnel.md:154` excludes that.
* `ssh_handshake`: the time-out of an SSH tunnel bounds its dial and not its
  handshake (`sshtun/tunnel.go:170`), for `ssh.NewClientConn` does not look at
  `ClientConfig.Timeout`; `sshtun/tunnel.go:46` says it "bounds the TCP dial and SSH
  handshake". Opening and reconnecting never cancel, so a jump host that accepts and
  stays silent holds them for ever.
* `postgres_writes`: a Postgres pool is made read-only by one statement on its first
  session (`db/postgres.go:92`, `db/postgres.go:134`); the sessions that follow, after
  a reset, three idle minutes or five of life, accept writes. `db/postgres.go:35`,
  `db/postgres.go:133` and `docs/mcp.md:33` say they do not. The MySQL connector does it
  for every session, and says why (`db/mysql.go:76`).

Noted while modelling, with no run of their own:

* A `/sql` client that disconnects frees its place in the semaphore while its
  request stays queued (`control/server.go:586`), so more than the two requests of
  the comment at `control/server.go:583` reach a worker.
* A query the user runs while a Back or Forward is under way is sent with the
  `navigating` flag (`ui/appwindow.go:1376`) and reaches neither the history nor the
  trail; the field is documented as "true during back/forward nav" (`ui/app.go:2286`).
* A second open before the first result is applied overwrites `pendingGateway`;
  the result that finds the slot empty is dropped with its forward
  (`ui/appwindow.go:2299`), against `docs/ssh-tunnel.md:133`.
* The outcome of an AWS reconnect carries no entry, so the worker keeps the
  `LocalPort` of the tunnel before (`ui/gateway_connect.go:199`,
  `ui/connworker.go:101`).
* Two database switches may be in flight at once and end out of order; the one
  that ends last names the pool (`ui/gateway_connect.go:347`).
* A Cancel on a card after its tunnel is ready, before the screen has noticed,
  still connects (`ui/gateway_screen.go:2559`).
* `maxReconnectAttempts` is 10 and the first attempt counts, so nine are retries
  (`aws/tunnel.go:183`; `docs/aws-ssm-gateway.md:63` says ten).
* The answer to a failed health check carries no navigating flag
  (`ui/connworker.go:269`), so a failed Back is recorded as a run.
* A second `Stop` of an SSH tunnel returns before the first has finished
  (`sshtun/tunnel.go:230`); nothing relies on it.
* The MCP server reads a bookmark before it has the slot's lock
  (`mcpmode/conns.go:49`), so a call that waited replaces the connection of a
  newer edit with one of the older.
* A pool of the MCP server has one connection, so a query of more than five seconds
  makes another call's ping of it time out, and a client that cancels makes its own
  ping fail; either way the pool is closed and its tunnel stopped under the query
  that uses them (`mcpmode/conns.go:77`), and the connection is not kept "open for
  the life of the process" (`mcpmode/conns.go:19`).
* The MCP server asks for the credentials before it looks for a login under way
  (`mcpmode/awslogin.go:59`), so a call that asked just before a login was approved
  may start another right after it; `docs/mcp.md:142` promises one browser tab.
* `docs/self-updater.md:101` offers "Try Again" after a failed install;
  `StartInstall` leaves only from `Ready`, so only the installer is offered.
* `FinishInstall` takes whatever starts for the new version (`updater/install.go:235`):
  an old one relaunched during the swap looks for itself before the script's `mv`
  (`updater/install.go:199`) and removes the backup after it (`updater/install.go:249`).
  When the second `mv` fails too, or the machine stops, no release is left in place or
  in the backup, and only the copy, which nothing restores, is whole. `rm -rf "$bak"`
  (`updater/install.go:198`) is not checked either: where it fails, `mv` puts the
  application inside the old backup, which a restore then puts in place as it is.
* The MySQL form leaves out the SSH settings typed in it
  (`ui/gateway_screen.go:1671`; `docs/ssh-tunnel.md:159` has them for both), and a
  password typed for the jump host is left in the keychain.
* An SSH agent without the right key does not fall through to the keys on disk, as
  `sshtun/auth.go:37` says: both are methods named `publickey`, and the library tries a
  method of one name once.
* Saving a connection again without its password leaves the old one in the keychain
  (`ui/gateway_screen.go:1370`); a bookmark that cannot be written is only reported on
  the console.
* A line of a login's output enables a card's button during the login
  (`ui/gateway_screen.go:2835`), so a second login may start; two reports that one
  frame finds leave a disabled "Cancelling…" behind; of two cards whose tunnels come
  up in one frame only the first is handed over; closing the screen leaves tunnels
  under way to themselves.
* Answers of an SSO session the user has left arrive in the next one
  (`ui/gateway_screen.go:818`): the roles of one account may be offered for another.
* A second reconnect installs its worker over the first's without stopping that one
  (`ui/gateway_connect.go:360`), and a request in the channel of a
  stopped worker is never answered (`ui/connworker.go:174`): its command waits for ever.
* A run on a connection without a worker dims its tab and nothing undims it
  (`ui/appwindow.go:1361`); nor does a file whose schema cannot be read
  (`ui/appwindow.go:2763`), which other failures do (`ui/appwindow.go:2691`).
* A reconnect through a jump host that says nothing is never answered, and cannot be
  cancelled (`ui/gateway_connect.go:124`). In the MCP server such an open holds its slot
  (`mcpmode/conns.go:91`), and `closeAll` waits for it (`mcpmode/conns.go:117`) after the
  client has left.
* After a failed reconnect `Gateway.Tunnel` is still the stopped tunnel, so the dot of
  the connection is green with no database behind it (`ui/appwindow.go:1694`), and the
  red of its tile is painted over (`ui/appwindow.go:996`).
* Two gateways whose login expires together get one dialog (`ui/relogin_modal.go:84`);
  the second's message is recorded as shown (`ui/app.go:3228`).
* The database switcher's list, and the reload of the tables, have no time-out and
  hold the one session (`ui/appwindow.go:1827`): read from a session that died with
  its tunnel they hold it until the keepalives give up, about two minutes, and the six
  health checks (about 105 seconds) fail meanwhile over a tunnel that is back. Through a
  tunnel the keepalives are answered by this process (`aws/ssm_session.go:27`): unless
  the tunnel itself breaks the connection off, the session is held for good.

## 8. Not modelled

* Layout, themes, menus, highlighting, the console, completion and the setup of
  MCP clients: pure display or text, or a single file written once.
* SQL text and drivers: the modules see a database call as one that answers,
  fails or takes for ever.
* The pixels of the connection screen, and its pickers of instances and database
  hosts; AWS and SSH credentials beyond the outcomes of checking them. Which commands
  the control server knows is in `Commands` by the way they are answered only.
* The re-login dialog, several windows, the running BigQuery job and its cancel,
  bookmarks and history written by two processes, the history's cap, the sandbox's
  grants. They keep state, and are planned in section 2.
* Other programs on the machine, except that `Gateway` lets a freed local port be
  taken by another forward of this one.
* Scripts, packaging and generated code.
