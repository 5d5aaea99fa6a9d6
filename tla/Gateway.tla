------------------------------ MODULE Gateway -------------------------------
(***************************************************************************)
(* The life of a remote connection: opened from the connection screen,     *)
(* rebuilt by Reconnect, pointed at another database, closed               *)
(* (ui/gateway_connect.go; handleOpenGatewayResult and closeConnection in  *)
(* ui/appwindow.go; onGatewayConnected in ui/app.go; the RunOpen... of     *)
(* ui/connworker.go).                                                      *)
(*                                                                         *)
(* The main thread tears down at once and leaves the building to a         *)
(* goroutine, whose result it applies later.  What is built is a FORWARD   *)
(* (an SSM or SSH tunnel listening on a local port) and a POOL of database *)
(* connections dialled through it.  Nothing keeps two operations of a      *)
(* connection, or two opens of a window, from being in flight together.    *)
(*                                                                         *)
(* An operation is known by its number, and so is what it builds: at most  *)
(* one forward, one pool and, for an open, one rail connection.            *)
(***************************************************************************)
EXTENDS Integers, FiniteSets

CONSTANTS
  Entry,     \* saved connections
  SSM,       \* those behind an AWS bastion
  SSH,       \* those behind an SSH jump host; the others are dialled directly
  BigQuery,  \* those that are BigQuery projects, neither SSM nor SSH
  DB,        \* the databases (datasets) of a server
  HomeDB,    \* the one a saved connection names
  Port,      \* local ports
  MaxOps     \* bound on the operations started

ASSUME GatewayAssumption ==
  /\ SSM \cup SSH \cup BigQuery \subseteq Entry
  /\ SSM \cap SSH = {} /\ BigQuery \cap (SSM \cup SSH) = {}
  /\ HomeDB \in DB
  /\ 0 \notin Port
  /\ MaxOps \in Nat

VARIABLES
  rail,      \* connection -> [cfg, ssm, ssh, pool], of the rail
  pending,   \* w.pendingGateway: one slot, as a set of at most one element
  ops,       \* operations in flight
  forwards,  \* forwards that stand: [id, entry, port]
  pools,     \* pools that are open: [id, server, db]
  started,   \* operations started so far
  disturbed  \* history: something happened that the code has no guard against

vars == <<rail, pending, ops, forwards, pools, started, disturbed>>

No == 0  \* no forward, no pool, no port, no connection

Config  == [entry : Entry, db : DB, port : Port \cup {No}]
OpID    == 1 .. MaxOps
MaybeID == OpID \cup {No}
Op == [id : OpID, kind : {"open", "reconnect", "switch"}, conn : MaybeID,
       cfg : Config, stage : {"capture", "tunnel", "dial", "done"},
       ssm : MaybeID, ssh : MaybeID, pool : MaybeID]

Init ==
  /\ rail = <<>>
  /\ pending = {}
  /\ ops = {}
  /\ forwards = {}
  /\ pools = {}
  /\ started = 0
  /\ disturbed = FALSE

-----------------------------------------------------------------------------
(* Resources *)

FreePort == Port \ {f.port : f \in forwards}

\* The resources without those of the given numbers; stopping or closing twice,
\* or nothing, is harmless.
Standing(ids) == {f \in forwards : f.id \notin ids}
Open(ids)     == {p \in pools : p.id \notin ids}

Tunneled(e) == e \in SSM \cup SSH

\* The server a dial reaches: through a forward, whatever listens on the port.
Reached(cfg) ==
  IF Tunneled(cfg.entry) THEN {f.entry : f \in {g \in forwards : g.port = cfg.port}}
  ELSE {cfg.entry}

\* The result of an operation brings the config back, with the local port: only
\* from directly dialled databases (DBResult.Entry, ReconnectOutcome.Entry).
CarriesEntry(o) == o.cfg.entry \notin SSM \cup BigQuery

-----------------------------------------------------------------------------
(* The main thread starts operations *)

Start(kind, c, cfg, stage) ==
  /\ started < MaxOps
  /\ started' = started + 1
  /\ ops' = ops \cup
       {[id |-> started', kind |-> kind, conn |-> c, cfg |-> cfg, stage |-> stage,
         ssm |-> No, ssh |-> No, pool |-> No]}

Opening == \E o \in ops : o.kind = "open"
Rebuilding(c) == \E o \in ops : o.conn = c

\* onGatewayConnected for a card whose SSM tunnel has just come up.
OpenTunneled(e) ==
  \E p \in FreePort :
    LET cfg == [entry |-> e, db |-> HomeDB, port |-> p]
    IN  /\ e \in SSM
        /\ Start("open", No, cfg, "dial")
        /\ forwards' = forwards \cup {[id |-> started', entry |-> e, port |-> p]}
        /\ pending' = {[cfg |-> cfg, ssm |-> started']}
        /\ disturbed' = (disturbed \/ Opening)
        /\ UNCHANGED <<rail, pools>>

\* onGatewayConnected for every other kind of connection.
OpenDirect(e) ==
  LET cfg == [entry |-> e, db |-> HomeDB, port |-> No]
  IN  /\ e \notin SSM
      /\ Start("open", No, cfg, IF e \in SSH THEN "tunnel" ELSE "dial")
      /\ pending' = {[cfg |-> cfg, ssm |-> No]}
      /\ disturbed' = (disturbed \/ Opening)
      /\ UNCHANGED <<rail, forwards, pools>>

\* The connection between the teardown and the result of a reconnect.
TornDown_PoolKept(own) == own
TornDown(own) == [own EXCEPT !.pool = No]

\* reconnectConnection: close the pool, stop the forwards, build all anew.
Reconnect(c) ==
  LET own == rail[c]
  IN  /\ Start("reconnect", c, own.cfg,
               IF Tunneled(own.cfg.entry) THEN "tunnel" ELSE "dial")
      /\ rail' = [rail EXCEPT ![c] = TornDown(@)]
      /\ pools' = Open({own.pool})
      /\ forwards' = Standing({own.ssm, own.ssh})
      /\ disturbed' = (disturbed \/ Rebuilding(c))
      /\ UNCHANGED pending

\* The connection between the teardown and the result of a switch.
Renamed_Later(own, cfg) == [own EXCEPT !.pool = No]
Renamed(own, cfg) == [own EXCEPT !.cfg = cfg, !.pool = No]

\* switchDatabase: the config names the new database at once; the pool is
\* closed, the forwards are kept.
Switch(c, d) ==
  LET cfg == [rail[c].cfg EXCEPT !.db = d]
  IN  /\ rail[c].cfg.db # d
      /\ Start("switch", c, cfg, "capture")
      /\ rail' = [rail EXCEPT ![c] = Renamed(@, cfg)]
      /\ pools' = Open({rail[c].pool})
      /\ disturbed' = (disturbed \/ Rebuilding(c))
      /\ UNCHANGED <<pending, forwards>>

\* closeConnection, whatever is in flight.
Close(c) ==
  /\ rail' = [k \in DOMAIN rail \ {c} |-> rail[k]]
  /\ pools' = Open({rail[c].pool})
  /\ forwards' = Standing({rail[c].ssm, rail[c].ssh})
  /\ UNCHANGED <<pending, ops, started, disturbed>>

-----------------------------------------------------------------------------
(* The goroutines build *)

Becomes(o, new) == ops' = (ops \ {o}) \cup {new}

\* switchDatabase's goroutine picks up the forwards to hand back; those of a
\* connection closed meanwhile are stopped.
Capture(o) ==
  /\ o.stage = "capture"
  /\ Becomes(o, IF o.conn \in DOMAIN rail
                  THEN [o EXCEPT !.stage = "dial", !.ssm = rail[o.conn].ssm,
                                 !.ssh = rail[o.conn].ssh]
                  ELSE [o EXCEPT !.stage = "dial"])
  /\ UNCHANGED <<rail, pending, forwards, pools, started, disturbed>>

\* connect.SSMTunnel or connect.SSHTunnel: a new forward, on a new port.
BuildTunnel(o) ==
  /\ o.stage = "tunnel"
  /\ \E p \in FreePort :
       /\ forwards' = forwards \cup {[id |-> o.id, entry |-> o.cfg.entry, port |-> p]}
       /\ Becomes(o, [o EXCEPT !.stage = "dial", !.cfg.port = p,
                               !.ssm = IF o.cfg.entry \in SSM THEN o.id ELSE No,
                               !.ssh = IF o.cfg.entry \in SSH THEN o.id ELSE No])
  /\ UNCHANGED <<rail, pending, pools, started, disturbed>>

\* No credentials, no bastion, no jump host: nothing was built.
BuildFails(o) ==
  /\ o.stage = "tunnel"
  /\ Becomes(o, [o EXCEPT !.stage = "done"])
  /\ UNCHANGED <<rail, pending, forwards, pools, started, disturbed>>

Dial(o) ==
  /\ o.stage = "dial"
  /\ \E s \in Reached(o.cfg) :
       pools' = pools \cup {[id |-> o.id, server |-> s, db |-> o.cfg.db]}
  /\ Becomes(o, [o EXCEPT !.stage = "done", !.pool = o.id])
  /\ UNCHANGED <<rail, pending, forwards, started, disturbed>>

\* What is left of the forwards when a dial fails: the one the operation built
\* goes; a database switch leaves those it was given.
AfterFailedDial_Kept(o) == forwards
AfterFailedDial(o) ==
  IF o.kind = "switch" THEN forwards ELSE Standing({o.ssm, o.ssh})

\* The dial fails, or gives up after 30 seconds.  In the latter case the driver
\* may still connect later, for nobody.
DialFails(o) ==
  /\ o.stage = "dial"
  /\ forwards' = AfterFailedDial(o)
  /\ Becomes(o, [o EXCEPT !.stage = "done", !.ssm = No, !.ssh = No])
  /\ \/ UNCHANGED <<pools, disturbed>>
     \/ /\ o.cfg.entry \notin BigQuery
        /\ \E s \in Reached(o.cfg) :
             pools' = pools \cup {[id |-> o.id, server |-> s, db |-> o.cfg.db]}
        /\ disturbed' = TRUE
  /\ UNCHANGED <<rail, pending, started>>

\* An SSH forward is lost, or an SSM tunnel gives up: the port is free again,
\* whoever still names it.
LoseForward(f) ==
  /\ forwards' = forwards \ {f}
  /\ disturbed' = TRUE
  /\ UNCHANGED <<rail, pending, ops, pools, started>>

-----------------------------------------------------------------------------
(* The main thread applies the results *)

Failed(o) == o.stage = "done" /\ o.pool = No
Built(o)  == o.stage = "done" /\ o.pool # No

\* The rail with the connection that a result and the pending slot make.
WithOpened(o) ==
  LET gw == CHOOSE g \in pending : TRUE
      new == [cfg |-> IF CarriesEntry(o) THEN o.cfg ELSE gw.cfg,
              ssm |-> gw.ssm, ssh |-> o.ssh, pool |-> o.pool]
  IN  [c \in DOMAIN rail \cup {o.id} |-> IF c = o.id THEN new ELSE rail[c]]

PendingAfter_Kept(o) == IF Failed(o) THEN {} ELSE pending
PendingAfter(o) == {}

\* handleOpenGatewayResult.  A result with no pending connection is dropped.
OpenResult(o) ==
  /\ o.kind = "open"
  /\ ops' = ops \ {o}
  /\ pending' = PendingAfter(o)
  /\ \/ /\ Failed(o)
        /\ disturbed' = (disturbed \/ o.cfg.entry \in SSM)
        /\ UNCHANGED rail
     \/ /\ Built(o)
        /\ rail' = IF pending = {} THEN rail ELSE WithOpened(o)
        /\ UNCHANGED disturbed
  /\ UNCHANGED <<forwards, pools, started>>

\* What a rebuilt connection becomes.
Rebuilt(own, o) ==
  [cfg |-> IF CarriesEntry(o) THEN o.cfg ELSE own.cfg,
   ssm |-> o.ssm, ssh |-> o.ssh, pool |-> o.pool]

\* handleReconnectResult.  The result of a connection closed meanwhile is
\* released; a failure changes nothing.
RebuildResult(o) ==
  /\ o.kind # "open"
  /\ ops' = ops \ {o}
  /\ \/ /\ Failed(o)
        /\ UNCHANGED <<rail, forwards, pools>>
     \/ /\ Built(o) /\ o.conn \in DOMAIN rail
        /\ rail' = [rail EXCEPT ![o.conn] = Rebuilt(@, o)]
        /\ UNCHANGED <<forwards, pools>>
     \/ /\ Built(o) /\ o.conn \notin DOMAIN rail
        /\ pools' = Open({o.pool})
        /\ forwards' = Standing({o.ssm, o.ssh})
        /\ UNCHANGED rail
  /\ UNCHANGED <<pending, started, disturbed>>

-----------------------------------------------------------------------------
Next ==
  \/ \E e \in Entry : OpenTunneled(e) \/ OpenDirect(e)
  \/ \E c \in DOMAIN rail : Reconnect(c) \/ Close(c) \/ \E d \in DB : Switch(c, d)
  \/ \E o \in ops : \/ Capture(o) \/ BuildTunnel(o) \/ BuildFails(o)
                    \/ Dial(o) \/ DialFails(o)
                    \/ OpenResult(o) \/ RebuildResult(o)
  \/ \E f \in forwards : LoseForward(f)

Spec == Init /\ [][Next]_vars

-----------------------------------------------------------------------------
(* Properties *)

\* Types; what is built is known by the number of the operation that built it,
\* and a port has one listener.
TypeOK ==
  /\ DOMAIN rail \subseteq 1 .. started
  /\ rail \in [DOMAIN rail -> [cfg : Config, ssm : MaybeID, ssh : MaybeID,
                               pool : MaybeID]]
  /\ pending \subseteq [cfg : Config, ssm : MaybeID] /\ Cardinality(pending) <= 1
  /\ ops \subseteq Op
  /\ forwards \subseteq [id : OpID, entry : Entry, port : Port]
  /\ \A f, g \in forwards : f.port = g.port => f = g
  /\ pools \subseteq [id : OpID, server : Entry, db : DB]
  /\ started \in 0 .. MaxOps
  /\ disturbed \in BOOLEAN

IsOpen(i) == \E p \in pools : p.id = i

\* A connection on the rail, or about to be, never holds a closed pool, whatever
\* reconnects, switches and closes overlap: its worker would answer every query
\* with "database is closed".
HeldPoolsAreOpen ==
  /\ \A c \in DOMAIN rail : rail[c].pool # No => IsOpen(rail[c].pool)
  /\ \A o \in ops : o.pool # No => IsOpen(o.pool)

\* No pool and no forward belongs to two connections: closing or reconnecting
\* one would cut the other's queries.
NothingShared ==
  \A c, k \in DOMAIN rail : c # k =>
    /\ rail[c].pool # No => rail[c].pool # rail[k].pool
    /\ {rail[c].ssm, rail[c].ssh} \cap {rail[k].ssm, rail[k].ssh} \subseteq {No}

Owned(f) ==
  \/ \E c \in DOMAIN rail : f.id \in {rail[c].ssm, rail[c].ssh}
  \/ \E o \in ops : f.id \in {o.ssm, o.ssh}
  \/ \E g \in pending : g.ssm = f.id

\* "A failure anywhere after the tunnel is up stops it, so a half-open
\* connection never leaks a forward" (docs/ssh-tunnel.md:133).
\* Nothing is leaked but by what the code has no guard against: two operations
\* of a connection or two opens in flight together, a dial that succeeds after
\* it was given up, a failed open through a card's tunnel.  Any failure of a
\* step and any close in between are covered.
OwnedWhenUndisturbed ==
  ~disturbed =>
    /\ \A f \in forwards : Owned(f)
    /\ \A p \in pools : \/ \E c \in DOMAIN rail : rail[c].pool = p.id
                        \/ \E o \in ops : o.pool = p.id

PoolOf(c) == CHOOSE p \in pools : p.id = rail[c].pool
Connected == {c \in DOMAIN rail : rail[c].pool # No}

\* Undisturbed, a connection's pool is bound to the database it names, and while
\* its SSH forward stands, the pool goes through it, by the port its config
\* names: what a switch will dial.
ReachesWhatItNames ==
  ~disturbed => \A c \in Connected :
    /\ PoolOf(c).db = rail[c].cfg.db
    /\ \A f \in forwards : f.id = rail[c].ssh =>
         PoolOf(c).server = f.entry /\ rail[c].cfg.port = f.port

\* "A tunneled connection can now fail to connect, but it can never connect to
\* the wrong thing" (docs/ssh-tunnel.md:154).
NeverTheWrongServer ==
  ~disturbed => \A c \in Connected :
    rail[c].cfg.entry \in SSH => PoolOf(c).server = rail[c].cfg.entry

=============================================================================
