---------------------------- MODULE DatabasePool ----------------------------
(***************************************************************************)
(* The database/sql pool of one connection under a remote Postgres or      *)
(* MySQL database (db/postgres.go, db/mysql.go) and those who share it:    *)
(* the connection's worker, which pings before it queries and reloads the  *)
(* tables without (ui/connworker.go, handle); the goroutine of the         *)
(* database switcher (ui/appwindow.go, showDatabaseSwitcher); the frame    *)
(* that resets the pool once the tunnel is back (ui/app.go, Process).      *)
(*                                                                         *)
(* The pool itself is the library's: it hands out its one session, opens a *)
(* session when it has none, drops an idle one when it is old, and after a *)
(* statement fails on a dead session the driver may or may not discard it. *)
(***************************************************************************)
EXTENDS Naturals

CONSTANT MaxTries   \* maxHealthRetries

ASSUME PoolAssumption == MaxTries \in Nat /\ MaxTries >= 2

VARIABLES
  engine,    \* the backend: "postgres" or "mysql"
  handle,    \* the sql.DB: being opened, open, closed; "stopping": its worker is
  session,   \* the pool's one connection: none, live, dead and not known to be, or
             \* "silent": dead behind a tunnel that answers the keepalives itself
  guarded,   \* that connection was told to refuse writes
  user,      \* who has it: "free", "worker", "lister"
  link,      \* a connection can be made: the server is in reach and takes the login
  notice,    \* Gateway.LastTunnelMsg is not empty
  request,   \* what the worker was asked for
  step,      \* the statement the worker has come to
  tries,     \* health checks that failed
  left,      \* the client of the request has gone
  answer,    \* how the last request ended
  lister,    \* the switcher's goroutine: idle, waiting, reading
  hindered   \* since the pool was last reset, something else was in the way

requestVars == <<request, step, tries, left, answer>>
linkVars == <<engine, link, notice>>
poolVars == <<linkVars, handle, session, guarded, user, requestVars, lister, hindered>>

Statement == {"ping", "count", "page", "tables", "schemas", "again"}

PoolTypeOK ==
  /\ engine \in {"postgres", "mysql"}
  /\ handle \in {"ping", "set", "open", "failed", "stopping", "closed"}
  /\ session \in {"none", "live", "dead", "silent"}
  /\ guarded \in BOOLEAN /\ link \in BOOLEAN /\ notice \in BOOLEAN
  /\ left \in BOOLEAN /\ hindered \in BOOLEAN
  /\ user \in {"free", "worker", "lister"}
  /\ request \in {"query", "sql", "refresh"}
  /\ step \in Statement \cup {"idle", "backoff"}
  /\ tries \in 0 .. MaxTries
  /\ answer \in {"none", "ok", "error", "unhealthy"}
  /\ lister \in {"idle", "waiting", "reading"}

PoolInit ==
  /\ engine \in {"postgres", "mysql"}
  /\ handle = "ping" /\ session = "none" /\ guarded = FALSE /\ user = "free"
  /\ link = TRUE /\ notice = FALSE
  /\ request = "query" /\ step = "idle" /\ tries = 0 /\ left = FALSE /\ answer = "none"
  /\ lister = "idle" /\ hindered = FALSE
-----------------------------------------------------------------------------
\* A new physical connection.  The MySQL connector guards each one.
Connect_OneShot == session' = "live" /\ guarded' = (handle = "ping" /\ engine = "mysql")
Connect == session' = "live" /\ guarded' = (engine = "mysql")

Discard == session' = "none" /\ guarded' = FALSE
KeepSession == UNCHANGED <<session, guarded>>

\* SetMaxIdleConns(0) and back: closes the connection unless somebody has it.
ResetPool_Not == KeepSession
ResetPool == IF user' = "free" THEN Discard ELSE KeepSession

\* The pool gives its connection to u: the one it has, or a new one when it has
\* none or notices that the one it has is dead.
Take(u) ==
  /\ handle \in {"open", "stopping"} /\ user = "free" /\ user' = u
  /\ \/ session # "none" /\ KeepSession
     \/ session # "live" /\ link /\ Connect

\* There is no connection to be had.
Unreachable == \/ handle = "closed"
               \/ user = "free" /\ session # "live" /\ ~link

\* A connection goes back to the pool, unless the driver or the pool drops it.
GiveBack == \/ Discard
            \/ handle # "closed" /\ KeepSession
-----------------------------------------------------------------------------
\* newPostgres, NewPostgresIAM, NewMySQLDirect: Ping, and for Postgres one more
\* statement, which guards the connection it happens to get.
Open ==
  /\ handle = "ping"
  /\ \/ link /\ Connect /\ handle' = IF engine = "postgres" THEN "set" ELSE "open"
     \/ Discard /\ handle' = "failed"
  /\ UNCHANGED <<linkVars, user, requestVars, lister, hindered>>

SetReadOnly ==
  /\ handle = "set"
  /\ \/ /\ session = "live" \/ link
        /\ session' = "live" /\ guarded' = TRUE /\ handle' = "open"
     \/ Discard /\ handle' = "failed"
  /\ UNCHANGED <<linkVars, user, requestVars, lister, hindered>>

\* handle: a refresh resets the pool and asks for the tables; anything else
\* begins with a health check.
AskWorker(kind) ==
  /\ handle \in {"open", "stopping", "closed"} /\ step = "idle"
  /\ request' = kind /\ tries' = 0 /\ left' = FALSE /\ answer' = "none"
  /\ hindered' = TRUE
  /\ step' = IF kind = "refresh" THEN "tables" ELSE "ping"
  /\ UNCHANGED <<linkVars, handle, user, lister>>
  /\ IF kind = "refresh" THEN ResetPool ELSE KeepSession

WorkerTakes ==
  /\ step \in Statement /\ Take("worker")
  /\ UNCHANGED <<linkVars, handle, requestVars, lister, hindered>>

Answer(how) == answer' = how /\ step' = "idle"

\* The worker's statement is answered.
Answered(statement) ==
  /\ step = statement /\ user = "worker" /\ session = "live" /\ user' = "free"
  /\ UNCHANGED <<linkVars, handle, request, tries, left, lister, hindered>>

\* The context of the worker's statement: Tables and AllTableSchemas have none.
Cancelled == /\ step \in {"ping", "count", "page", "backoff"}
             /\ left \/ handle \in {"stopping", "closed"}

\* It fails, over the connection or for want of one.
Failing(statement) ==
  /\ step = statement
  /\ user = "worker" \/ Unreachable \/ Cancelled
  /\ user' = IF user = "worker" THEN "free" ELSE user

Returned == IF user = "worker" THEN GiveBack ELSE KeepSession

\* A health check ends in an error or after ten seconds.  All but the last are
\* followed by a reset, a pause, and another.
CheckOk == Answered("ping") /\ step' = "count" /\ UNCHANGED answer /\ GiveBack

LastTry_Never == FALSE
LastTry == tries + 1 >= MaxTries

CheckFails ==
  /\ \/ Failing("ping") /\ (user = "worker" => (session # "live" \/ Cancelled))
     \/ step = "ping" /\ user = "lister" /\ UNCHANGED user
  /\ tries' = IF tries < MaxTries THEN tries + 1 ELSE tries
  /\ IF LastTry
     THEN Answer("unhealthy") /\ Returned /\ UNCHANGED hindered
     ELSE /\ step' = "backoff" /\ UNCHANGED answer /\ ResetPool
          /\ hindered' = (~link \/ user' = "lister" \/ Cancelled)
  /\ UNCHANGED <<linkVars, handle, request, left, lister>>

BackedOff ==
  /\ step = "backoff"
  /\ IF Cancelled THEN Answer("unhealthy")
                  ELSE step' = "ping" /\ UNCHANGED answer
  /\ UNCHANGED <<linkVars, handle, session, guarded, user, request, tries, left,
                 lister, hindered>>

\* Query: the count, then the page.  handleSQL resets the pool under a client
\* that has left.
CountOk == Answered("count") /\ step' = "page" /\ UNCHANGED answer /\ GiveBack
PageOk == Answered("page") /\ Answer("ok") /\ GiveBack

QueryFails ==
  /\ Failing("count") \/ Failing("page")
  /\ Answer("error")
  /\ IF request = "sql" /\ Cancelled THEN ResetPool ELSE Returned
  /\ UNCHANGED <<linkVars, handle, request, tries, left, lister, hindered>>

\* handleRefresh: Tables, then AllTableSchemas unless there are none, which
\* resets the pool and asks once more when it fails.
TablesOk ==
  /\ Answered("tables") /\ GiveBack
  /\ \/ Answer("ok")
     \/ step' = "schemas" /\ UNCHANGED answer
SchemasOk == (Answered("schemas") \/ Answered("again")) /\ Answer("ok") /\ GiveBack

RefreshFails ==
  /\ \/ (Failing("tables") \/ Failing("again")) /\ Answer("error") /\ Returned
     \/ Failing("schemas") /\ step' = "again" /\ UNCHANGED answer /\ ResetPool
  /\ UNCHANGED <<linkVars, handle, request, tries, left, lister, hindered>>

Worker == \/ CheckOk \/ CheckFails \/ BackedOff \/ CountOk \/ PageOk \/ QueryFails
          \/ TablesOk \/ SchemasOk \/ RefreshFails

\* The client of POST /sql goes away.
ClientLeaves ==
  /\ request = "sql" /\ step # "idle" /\ left' = TRUE /\ hindered' = TRUE
  /\ UNCHANGED <<linkVars, handle, session, guarded, user, request, step, tries,
                 answer, lister>>
-----------------------------------------------------------------------------
\* showDatabaseSwitcher: Databases, in a goroutine of its own, without a context.
\* One at a time here.
OpenSwitcher ==
  /\ handle = "open" /\ lister = "idle" /\ lister' = "waiting"
  /\ UNCHANGED <<linkVars, handle, session, guarded, user, requestVars, hindered>>

ListerTakes ==
  /\ lister = "waiting" /\ Take("lister") /\ lister' = "reading" /\ hindered' = TRUE
  /\ UNCHANGED <<linkVars, handle, requestVars>>

ListerEnds ==
  /\ lister' = "idle"
  /\ \/ lister = "reading" /\ user' = "free" /\ GiveBack
     \/ lister = "waiting" /\ Unreachable /\ UNCHANGED user /\ KeepSession
  /\ UNCHANGED <<linkVars, handle, requestVars, hindered>>

\* Process: the status of the tunnel is shown; once it is back the pool is reset.
\* Only the gateways have a tunnel that comes back, and they are Postgres.
SeeTunnelDown ==
  /\ engine = "postgres" /\ handle = "open" /\ ~link /\ notice' = TRUE
  /\ UNCHANGED <<engine, link, handle, session, guarded, user, requestVars, lister,
                 hindered>>

SeeTunnelUp ==
  /\ handle = "open" /\ link /\ notice /\ notice' = FALSE
  /\ UNCHANGED <<engine, link, handle, user, requestVars, lister, hindered>>
  /\ ResetPool

\* closeConnection: the worker is stopped, then the pool is closed.
StopWorker ==
  /\ handle = "open" /\ handle' = "stopping" /\ hindered' = TRUE
  /\ UNCHANGED <<linkVars, session, guarded, user, requestVars, lister>>

Close ==
  /\ handle = "stopping" /\ handle' = "closed"
  /\ UNCHANGED <<linkVars, user, requestVars, lister, hindered>>
  /\ IF user = "free" THEN Discard ELSE KeepSession

\* ConnMaxIdleTime and ConnMaxLifetime.
Expire ==
  /\ user = "free" /\ session # "none" /\ handle \in {"open", "stopping"} /\ Discard
  /\ UNCHANGED <<linkVars, handle, user, requestVars, lister, hindered>>

\* The server closes a session, or the way to it is lost and with it the session.
\* Through a tunnel the peer of the session's socket is this process, and lives on.
Dying == {"dead", "silent"}

SessionDies ==
  /\ session = "live" /\ session' \in Dying /\ hindered' = TRUE
  /\ UNCHANGED <<linkVars, handle, guarded, user, requestVars, lister>>

LinkDrops ==
  /\ link /\ link' = FALSE /\ hindered' = TRUE
  /\ \/ UNCHANGED session
     \/ session = "live" /\ session' \in Dying
  /\ UNCHANGED <<engine, notice, handle, guarded, user, requestVars, lister>>

LinkReturns ==
  /\ ~link /\ link' = TRUE
  /\ UNCHANGED <<engine, notice, handle, session, guarded, user, requestVars, lister,
                 hindered>>

PoolNext ==
  \/ Open \/ SetReadOnly \/ (\E k \in {"query", "sql", "refresh"} : AskWorker(k))
  \/ WorkerTakes \/ Worker \/ ClientLeaves \/ OpenSwitcher \/ ListerTakes \/ ListerEnds
  \/ SeeTunnelDown \/ SeeTunnelUp \/ StopWorker \/ Close
  \/ Expire \/ SessionDies \/ LinkDrops \/ LinkReturns

\* A statement without a time-out waits on a silent session, which ends when the
\* tunnel under it does.
Hung(u) ==
  /\ user = u /\ session = "silent"
  /\ u = "worker" => step # "ping" /\ ~Cancelled

\* The goroutines run; a statement over a dead session fails when the keepalives
\* do; the pool serves those who wait for its connection in their order.
PoolFairness ==
  /\ WF_poolVars(~Hung("worker") /\ Worker) /\ SF_poolVars(WorkerTakes)
  /\ WF_poolVars(~Hung("lister") /\ ListerEnds) /\ SF_poolVars(ListerTakes)

PoolSpec == PoolInit /\ [][PoolNext]_poolVars
PoolFairSpec == PoolSpec /\ PoolFairness
-----------------------------------------------------------------------------
\* "Every new connection runs SET SESSION TRANSACTION READ ONLY before it is
\* handed to the pool ... it survives a pool reconnect" (mysql.go:76-79): no
\* statement of anybody runs over a MySQL session that accepts writes, however
\* many sessions the resets, the expiries and the retries have gone through.
MySQLStaysReadOnly == engine = "mysql" /\ user # "free" => guarded

\* The same of the user's own SQL over Postgres: "Enforce read-only at the session
\* level" (postgres.go:133), "The session is set to read-only for safety, matching
\* all other Bufflehead connections" (postgres.go:35-36).
PostgresStaysReadOnly ==
  engine = "postgres" /\ user = "worker" /\ step \in {"count", "page"} => guarded

\* A session that died while nobody looked costs no request: the health check
\* gives up only when, since the pool was last reset, the server was out of reach,
\* a session died, the switcher had the connection, or the request was cancelled.
StaleSessionHeals == answer = "unhealthy" => hindered

\* Whoever needs the one connection gets an answer: a request to the worker ends
\* and so does the switcher's list, with the server gone for good or the pool
\* closed under them, unless one of them waits for good on a silent session.
PoolCallsEnd ==
  LET HungForGood == [](Hung("worker") \/ Hung("lister"))
  IN  /\ step # "idle" ~> (step = "idle" \/ HungForGood)
      /\ lister # "idle" ~> (lister = "idle" \/ HungForGood)
=============================================================================
