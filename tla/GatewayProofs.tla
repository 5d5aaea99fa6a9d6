--------------------------- MODULE GatewayProofs ----------------------------
(***************************************************************************)
(* Proofs about Gateway, for any saved connections, databases, ports and   *)
(* number of operations: whatever overlaps, a connection holds only open   *)
(* pools, and no two connections hold the same pool or forward; while      *)
(* nothing disturbs, nothing leaks, and a connection reaches the database  *)
(* it names.                                                               *)
(***************************************************************************)
EXTENDS Gateway, FiniteSetTheorems, TLAPS

-----------------------------------------------------------------------------
(* The inductive invariant *)

\* The forwards a connection or an operation names.
Names(x) == {x.ssm, x.ssh} \ {No}

\* Operations are told apart by their numbers, which no connection has yet, and
\* an operation names no pool but its own.
OpsKnown ==
  /\ \A o \in ops : /\ o.id \in 1 .. started
                    /\ o.id \notin DOMAIN rail
                    /\ o.pool \in {No, o.id}
                    /\ o.stage = "capture" => o.kind = "switch"
  /\ \A o, p \in ops : o.id = p.id => o = p

\* The pool of a connection was built by an operation that has ended, and not
\* for another connection.
PoolsApart ==
  /\ \A c \in DOMAIN rail : /\ rail[c].pool \in 0 .. started
                            /\ \A o \in ops : rail[c].pool # o.id
  /\ \A c, k \in DOMAIN rail :
       c # k /\ rail[c].pool # No => rail[c].pool # rail[k].pool

\* The operation rebuilds that connection.
Rebuilds(o, c) == o.kind # "open" /\ o.conn = c

\* A forward is named for one connection only: by it, by the operations that
\* rebuild it, or by the pending slot or the open it comes from.
ForwardsApart ==
  /\ \A c, k \in DOMAIN rail : c # k => Names(rail[c]) \cap Names(rail[k]) = {}
  /\ \A o \in ops, c \in DOMAIN rail :
       ~Rebuilds(o, c) => Names(o) \cap Names(rail[c]) = {}
  /\ \A o, p \in ops :
       o # p /\ ~(o.kind # "open" /\ Rebuilds(p, o.conn)) => Names(o) \cap Names(p) = {}
  /\ \A g \in pending : /\ \A c \in DOMAIN rail : g.ssm \notin Names(rail[c])
                        /\ \A o \in ops : g.ssm \notin Names(o)

\* Nobody names a forward that is not begun, or not built yet.
Unbuilt(i) ==
  /\ \A c \in DOMAIN rail : i \notin Names(rail[c])
  /\ \A o \in ops : i \notin Names(o)
  /\ \A g \in pending : i # g.ssm
ForwardsNew ==
  /\ \A i \in OpID : i > started => Unbuilt(i)
  /\ \A o \in ops : o.stage = "tunnel" => Unbuilt(o.id)

IInv ==
  /\ TypeOK
  /\ OpsKnown
  /\ PoolsApart
  /\ HeldPoolsAreOpen
  /\ ForwardsApart
  /\ ForwardsNew

\* What does not depend on the pools and forwards that stand.
NamesInv == OpsKnown /\ PoolsApart /\ ForwardsApart /\ ForwardsNew

-----------------------------------------------------------------------------
(* The inductive invariant of what is undisturbed *)

\* What an operation is at each stage; an open is for no connection yet, and the
\* connection of another is none that is still to be opened.
OpsShape ==
  \A o \in ops :
    /\ o.conn \in 0 .. started /\ (o.kind = "open" <=> o.conn = No)
    /\ \A p \in ops : o.conn # p.id
    /\ o.kind = "open" => o.ssm = No
    /\ o.stage \in {"capture", "tunnel"} \/ Failed(o) => o.ssm = No /\ o.ssh = No
    /\ o.stage # "done" => o.pool = No
    /\ o.stage = "tunnel" => /\ o.kind # "switch" /\ Tunneled(o.cfg.entry)
                             /\ o.kind = "open" => o.cfg.entry \in SSH

\* What stands was built by operations begun, and not by one still to build it.
NumbersNew ==
  /\ \A f \in forwards : f.id \in 1 .. started
  /\ \A p \in pools : p.id \in 1 .. started
  /\ \A o \in ops : /\ o.stage = "tunnel" => \A f \in forwards : f.id # o.id
                    /\ o.stage # "done" => \A p \in pools : p.id # o.id

\* Undisturbed: one open in flight, and one rebuild of a connection; ...
OneAtATime == \A o, p \in ops : o.conn = p.conn => o = p

\* ... the pending slot is of the open in flight; ...
PendingIsOpened ==
  /\ pending # {} => Opening
  /\ \A g, h \in pending : g = h
  /\ \A o \in ops : o.kind = "open" =>
       /\ pending # {}
       /\ \A g \in pending : /\ g.cfg.entry = o.cfg.entry /\ g.cfg.db = o.cfg.db
                             /\ g.ssm # No => o.cfg.entry \in SSM

\* ... a switch under way has the forwards of its connection, ...
HasForwards(o) ==
  IF o.conn \in DOMAIN rail
    THEN o.ssm = rail[o.conn].ssm /\ o.ssh = rail[o.conn].ssh
    ELSE \A f \in forwards : f.id \notin {o.ssm, o.ssh}
SwitchKeeps ==
  \A o \in ops :
    o.kind = "switch" /\ o.stage # "capture" /\ ~Failed(o) => HasForwards(o)

\* ... a connection being rebuilt has no pool, and none of the forwards it names
\* if they are rebuilt as well; ...
IsTorn(o) ==
  LET own == rail[o.conn]
  IN  /\ own.pool = No
      /\ own.cfg.entry = o.cfg.entry /\ own.cfg.db = o.cfg.db
      /\ o.kind = "switch" => own.cfg = o.cfg
      /\ o.kind = "reconnect" => \A f \in forwards : f.id \notin {own.ssm, own.ssh}
TornMeanwhile ==
  \A o \in ops : o.kind # "open" /\ o.conn \in DOMAIN rail => IsTorn(o)

\* ... and a pool is of the database, and goes through the SSH forward, that
\* whoever holds it names.
Reaches(x) ==
  /\ x.ssh # No => x.cfg.entry \in SSH
  /\ \A f \in forwards : f.id = x.ssh => f.port = x.cfg.port
  /\ \A p \in pools : p.id = x.pool =>
       /\ p.db = x.cfg.db
       /\ \A f \in forwards : f.id = x.ssh => p.server = f.entry
AllReach == (\A c \in DOMAIN rail : Reaches(rail[c])) /\ (\A o \in ops : Reaches(o))

AllOwned ==
  /\ \A f \in forwards : Owned(f)
  /\ \A p \in pools : \/ \E c \in DOMAIN rail : rail[c].pool = p.id
                      \/ \E o \in ops : o.pool = p.id

Undisturbed ==
  /\ OneAtATime
  /\ PendingIsOpened
  /\ SwitchKeeps
  /\ TornMeanwhile
  /\ AllReach
  /\ AllOwned

UInv == OpsShape /\ NumbersNew /\ (~disturbed => Undisturbed)

-----------------------------------------------------------------------------
(* Who names what: the four ways the operations change *)

\* Nothing is named at first.
LEMMA InitIInv == Init => IInv
<1> SUFFICES ASSUME Init PROVE IInv
  OBVIOUS
<1>1. TypeOK
  <2>1. Cardinality(pending) <= 1
    BY FS_EmptySet DEF Init
  <2>2. DOMAIN rail = {} /\ rail \in [DOMAIN rail -> [cfg : Config, ssm : MaybeID,
                                     ssh : MaybeID, pool : MaybeID]]
    BY DEF Init
  <2> QED
    <3>1. started \in 0 .. MaxOps /\ DOMAIN rail \subseteq 1 .. started
      BY <2>2, GatewayAssumption DEF Init
    <3> QED
      BY <2>1, <2>2, <3>1 DEF Init, TypeOK
<1>2. OpsKnown /\ PoolsApart /\ HeldPoolsAreOpen
  BY DEF Init, OpsKnown, PoolsApart, HeldPoolsAreOpen
<1>3. ForwardsApart /\ ForwardsNew
  BY DEF Init, ForwardsApart, ForwardsNew, Unbuilt
<1> QED
  BY <1>1, <1>2, <1>3 DEF IInv

\* An operation begins.  It names nothing yet; the connections name what they
\* named, or no pool; the pending slot is left alone or names a new forward.
LEMMA BeginNames ==
  ASSUME IInv, NEW n \in Op,
         started' = started + 1, started' \in OpID,
         n.id = started', n.pool = No, n.ssm = No, n.ssh = No,
         n.stage = "capture" => n.kind = "switch",
         ops' = ops \cup {n},
         DOMAIN rail' = DOMAIN rail,
         \A c \in DOMAIN rail : /\ Names(rail'[c]) = Names(rail[c])
                                /\ rail'[c].pool \in {rail[c].pool, No},
         \A g \in pending' : g \in pending \/ g.ssm = No
                             \/ (g.ssm = started' /\ n.stage # "tunnel")
  PROVE  NamesInv'
<1> USE DEF IInv
<1>0. started \in Nat /\ Names(n) = {} /\ No \notin OpID
  BY GatewayAssumption DEF TypeOK, Names, No, OpID
<1>1. OpsKnown'
  <2>1. \A o \in ops : o.id \in 1 .. started /\ o.id \in Nat
    BY <1>0 DEF OpsKnown
  <2>2. started' \notin DOMAIN rail
    BY <1>0 DEF TypeOK
  <2>3. \A o \in ops' : /\ o.id \in 1 .. started'
                        /\ o.id \notin DOMAIN rail'
                        /\ o.pool \in {No, o.id}
                        /\ o.stage = "capture" => o.kind = "switch"
    BY <1>0, <2>1, <2>2 DEF OpsKnown
  <2>4. \A o, p \in ops' : o.id = p.id => o = p
    BY <1>0, <2>1 DEF OpsKnown
  <2> QED
    BY <2>3, <2>4 DEF OpsKnown
<1>2. PoolsApart'
  <2>1. \A c \in DOMAIN rail : rail'[c].pool \in 0 .. started
    BY <1>0 DEF PoolsApart, No
  <2>2. \A c \in DOMAIN rail, o \in ops' : rail'[c].pool # o.id
    <3>1. \A c \in DOMAIN rail : rail'[c].pool # started'
      BY <1>0, <2>1
    <3>2. \A c \in DOMAIN rail, o \in ops : rail'[c].pool # o.id
      BY <1>0 DEF PoolsApart, OpsKnown, No
    <3> QED
      BY <3>1, <3>2
  <2>3. \A c, k \in DOMAIN rail :
          c # k /\ rail'[c].pool # No => rail'[c].pool # rail'[k].pool
    BY DEF PoolsApart
  <2> QED
    BY <1>0, <2>1, <2>2, <2>3 DEF PoolsApart
<1>3. Unbuilt(started')
  BY <1>0 DEF ForwardsNew
<1>4. \A c \in DOMAIN rail' : c \in DOMAIN rail /\ Names(rail'[c]) = Names(rail[c])
  OBVIOUS
<1>5. \A o \in ops' : o \in ops \/ Names(o) = {}
  BY <1>0
<1>6. ForwardsApart'
  <2>1. \A c, k \in DOMAIN rail' :
          c # k => Names(rail'[c]) \cap Names(rail'[k]) = {}
    BY <1>4 DEF ForwardsApart
  <2>2. \A o \in ops', c \in DOMAIN rail' :
          ~Rebuilds(o, c) => Names(o) \cap Names(rail'[c]) = {}
    BY <1>4, <1>5 DEF ForwardsApart
  <2>3. \A o, p \in ops' : o # p /\ ~(o.kind # "open" /\ Rebuilds(p, o.conn))
                           => Names(o) \cap Names(p) = {}
    BY <1>5 DEF ForwardsApart
  <2>4. \A g \in pending' : /\ \A c \in DOMAIN rail' : g.ssm \notin Names(rail'[c])
                            /\ \A o \in ops' : g.ssm \notin Names(o)
    <3> SUFFICES ASSUME NEW g \in pending'
                 PROVE  /\ \A c \in DOMAIN rail' : g.ssm \notin Names(rail'[c])
                        /\ \A o \in ops' : g.ssm \notin Names(o)
      OBVIOUS
    <3>1. CASE g \in pending
      BY <3>1, <1>4, <1>5 DEF ForwardsApart
    <3>2. CASE g.ssm = No
      BY <3>2 DEF Names
    <3>3. CASE g.ssm = started'
      BY <3>3, <1>3, <1>4, <1>5 DEF Unbuilt
    <3> QED
      BY <3>1, <3>2, <3>3
  <2> QED
    BY <2>1, <2>2, <2>3, <2>4 DEF ForwardsApart
<1>7. ForwardsNew'
  <2>1. ASSUME NEW i \in OpID, Unbuilt(i), \A g \in pending' : i # g.ssm
        PROVE  Unbuilt(i)'
    BY <2>1, <1>4, <1>5 DEF Unbuilt
  <2>2. ASSUME NEW i \in OpID, i > started' PROVE Unbuilt(i)'
    <3>1. Unbuilt(i) /\ i # No /\ i # started'
      BY <2>2, <1>0 DEF ForwardsNew, OpID
    <3> QED
      BY <3>1, <2>1 DEF Unbuilt
  <2>3. ASSUME NEW o \in ops', o.stage = "tunnel" PROVE Unbuilt(o.id)'
    <3>1. o.id \in OpID /\ o.id # No
      BY <1>0 DEF TypeOK, Op
    <3>2. CASE o \in ops
      <4>1. Unbuilt(o.id) /\ o.id # started'
        BY <2>3, <3>2, <1>0 DEF ForwardsNew, OpsKnown
      <4> QED
        BY <4>1, <3>1, <2>1 DEF Unbuilt
    <3>3. CASE o = n
      BY <2>3, <3>1, <3>3, <1>3, <2>1 DEF Unbuilt
    <3> QED
      BY <3>2, <3>3
  <2> QED
    BY <2>2, <2>3 DEF ForwardsNew
<1> QED
  BY <1>1, <1>2, <1>6, <1>7 DEF NamesInv

\* A goroutine goes on with operation o, which becomes n: it still names what it
\* named, or the forward it has just built, or those of its connection.
LEMMA ContinueNames ==
  ASSUME IInv, NEW o \in ops, NEW n \in Op,
         n.id = o.id, n.kind = o.kind, n.conn = o.conn,
         n.pool \in {No, o.id}, n.stage \notin {"tunnel", "capture"},
         ops' = (ops \ {o}) \cup {n},
         UNCHANGED <<rail, pending, started>>,
         \/ Names(n) \subseteq Names(o)
         \/ o.stage = "tunnel" /\ Names(n) \subseteq {o.id}
         \/ \E c \in DOMAIN rail : Rebuilds(o, c) /\ Names(n) \subseteq Names(rail[c])
  PROVE  NamesInv'
<1> USE DEF IInv
<1>1. OpsKnown'
  BY DEF OpsKnown
<1>2. PoolsApart'
  BY DEF PoolsApart
<1>3. \A p \in ops' : p = n \/ (p \in ops /\ p # o)
  OBVIOUS
<1>4. \A c \in DOMAIN rail : ~Rebuilds(n, c) => Names(n) \cap Names(rail[c]) = {}
  <2>1. CASE Names(n) \subseteq Names(o)
    BY <2>1 DEF ForwardsApart, Rebuilds
  <2>2. CASE o.stage = "tunnel" /\ Names(n) \subseteq {o.id}
    BY <2>2 DEF ForwardsNew, Unbuilt
  <2>3. CASE \E c \in DOMAIN rail : Rebuilds(o, c) /\ Names(n) \subseteq Names(rail[c])
    BY <2>3 DEF ForwardsApart, Rebuilds
  <2> QED
    BY <2>1, <2>2, <2>3
<1>5. \A p \in ops : p # o /\ ~(n.kind # "open" /\ Rebuilds(p, n.conn))
                    => Names(n) \cap Names(p) = {}
  <2>1. CASE Names(n) \subseteq Names(o)
    BY <2>1 DEF ForwardsApart
  <2>2. CASE o.stage = "tunnel" /\ Names(n) \subseteq {o.id}
    BY <2>2 DEF ForwardsNew, Unbuilt
  <2>3. CASE \E c \in DOMAIN rail : Rebuilds(o, c) /\ Names(n) \subseteq Names(rail[c])
    <3>1. PICK c \in DOMAIN rail : Rebuilds(o, c) /\ Names(n) \subseteq Names(rail[c])
      BY <2>3
    <3>2. \A p \in ops : ~Rebuilds(p, c) => Names(p) \cap Names(rail[c]) = {}
      BY DEF ForwardsApart
    <3> QED
      BY <3>1, <3>2 DEF Rebuilds
  <2> QED
    BY <2>1, <2>2, <2>3
<1>6. \A g \in pending : g.ssm \notin Names(n)
  <2>1. CASE Names(n) \subseteq Names(o)
    BY <2>1 DEF ForwardsApart
  <2>2. CASE o.stage = "tunnel" /\ Names(n) \subseteq {o.id}
    BY <2>2 DEF ForwardsNew, Unbuilt
  <2>3. CASE \E c \in DOMAIN rail : Rebuilds(o, c) /\ Names(n) \subseteq Names(rail[c])
    BY <2>3 DEF ForwardsApart
  <2> QED
    BY <2>1, <2>2, <2>3
<1>7. ForwardsApart'
  <2>1. \A p \in ops', c \in DOMAIN rail' :
          ~Rebuilds(p, c) => Names(p) \cap Names(rail'[c]) = {}
    BY <1>3, <1>4 DEF ForwardsApart
  <2>2. \A p, q \in ops' : p # q /\ ~(p.kind # "open" /\ Rebuilds(q, p.conn))
                           => Names(p) \cap Names(q) = {}
    <3> SUFFICES ASSUME NEW p \in ops', NEW q \in ops', p # q,
                        ~(p.kind # "open" /\ Rebuilds(q, p.conn))
                 PROVE  Names(p) \cap Names(q) = {}
      OBVIOUS
    <3>1. CASE p = n
      BY <3>1, <1>3, <1>5
    <3>2. CASE q = n
      BY <3>2, <1>3, <1>5 DEF Rebuilds
    <3>3. CASE p # n /\ q # n
      BY <3>3, <1>3 DEF ForwardsApart
    <3> QED
      BY <3>1, <3>2, <3>3
  <2>3. \A g \in pending' : /\ \A c \in DOMAIN rail' : g.ssm \notin Names(rail'[c])
                            /\ \A p \in ops' : g.ssm \notin Names(p)
    BY <1>3, <1>6 DEF ForwardsApart
  <2>4. \A c, k \in DOMAIN rail' :
          c # k => Names(rail'[c]) \cap Names(rail'[k]) = {}
    BY DEF ForwardsApart
  <2> QED
    BY <2>1, <2>2, <2>3, <2>4 DEF ForwardsApart
<1>8. ForwardsNew'
  <2>1. ASSUME NEW i, Unbuilt(i), i # o.id PROVE Unbuilt(i)'
    <3>1. i \notin Names(n)
      BY <2>1 DEF Unbuilt
    <3> QED
      BY <2>1, <3>1, <1>3 DEF Unbuilt
  <2>2. \A i \in OpID : i > started' => Unbuilt(i)'
    <3>1. started \in Nat /\ o.id \in 1 .. started
      BY GatewayAssumption DEF TypeOK, OpsKnown
    <3> QED
      BY <2>1, <3>1 DEF ForwardsNew, OpID
  <2>3. \A p \in ops' : p.stage = "tunnel" => Unbuilt(p.id)'
    BY <2>1, <1>3 DEF ForwardsNew, OpsKnown
  <2> QED
    BY <2>2, <2>3 DEF ForwardsNew
<1> QED
  BY <1>1, <1>2, <1>7, <1>8 DEF NamesInv

\* Connections, operations and pending slots only go.
LEMMA DropNames ==
  ASSUME IInv, ops' \subseteq ops, pending' \subseteq pending, started' = started,
         \A c \in DOMAIN rail' : c \in DOMAIN rail /\ rail'[c] = rail[c]
  PROVE  NamesInv'
<1> USE DEF IInv
<1>1. OpsKnown' /\ PoolsApart'
  BY DEF OpsKnown, PoolsApart
<1>2. ForwardsApart'
  BY DEF ForwardsApart
<1>3. ForwardsNew'
  <2>1. ASSUME NEW i, Unbuilt(i) PROVE Unbuilt(i)'
    BY <2>1 DEF Unbuilt
  <2> QED
    BY <2>1 DEF ForwardsNew
<1> QED
  BY <1>1, <1>2, <1>3 DEF NamesInv

\* The result of operation o makes or remakes connection c, which takes over
\* what the operation names and, if it is new, the pending forward.
LEMMA ApplyNames ==
  ASSUME IInv, NEW o \in ops, NEW c, c \in DOMAIN rail',
         ops' = ops \ {o}, started' = started, pending' \subseteq pending,
         \A k \in DOMAIN rail' : k = c \/ (k \in DOMAIN rail /\ rail'[k] = rail[k]),
         rail'[c].pool \in {No, o.id},
         \/ c \in DOMAIN rail /\ Rebuilds(o, c) /\ Names(rail'[c]) \subseteq Names(o)
         \/ /\ c = o.id /\ o.kind = "open" /\ pending' = {}
            /\ \E g \in pending : Names(rail'[c]) \subseteq Names(o) \cup {g.ssm}
  PROVE  NamesInv'
<1> USE DEF IInv
<1>0. started \in Nat /\ o.id \in 1 .. started
  BY GatewayAssumption DEF TypeOK, OpsKnown
<1>1. OpsKnown'
  BY DEF OpsKnown
<1>2. PoolsApart'
  <2>1. \A p \in ops' : rail'[c].pool # p.id
    BY <1>0 DEF OpsKnown, No
  <2>2. \A k \in DOMAIN rail' : k # c /\ rail'[c].pool # No => rail'[k].pool # rail'[c].pool
    BY DEF PoolsApart
  <2>3. rail'[c].pool \in 0 .. started
    BY <1>0 DEF No
  <2> QED
    BY <2>1, <2>2, <2>3 DEF PoolsApart
<1>3. /\ \A k \in DOMAIN rail' : k # c => Names(rail'[c]) \cap Names(rail'[k]) = {}
      /\ \A p \in ops' : ~Rebuilds(p, c) => Names(p) \cap Names(rail'[c]) = {}
      /\ \A g \in pending' : g.ssm \notin Names(rail'[c])
  <2>1. CASE c \in DOMAIN rail /\ Rebuilds(o, c) /\ Names(rail'[c]) \subseteq Names(o)
    BY <2>1 DEF ForwardsApart, Rebuilds
  <2>2. CASE /\ c = o.id /\ o.kind = "open" /\ pending' = {}
             /\ \E g \in pending : Names(rail'[c]) \subseteq Names(o) \cup {g.ssm}
    <3>1. PICK g \in pending : Names(rail'[c]) \subseteq Names(o) \cup {g.ssm}
      BY <2>2
    <3>2. \A k \in DOMAIN rail : /\ Names(o) \cap Names(rail[k]) = {}
                                /\ g.ssm \notin Names(rail[k])
      BY <2>2 DEF ForwardsApart, Rebuilds
    <3>3. \A p \in ops' : /\ Names(o) \cap Names(p) = {}
                          /\ g.ssm \notin Names(p)
      BY <2>2 DEF ForwardsApart
    <3>4. \A k \in DOMAIN rail' : k # c => Names(rail'[c]) \cap Names(rail'[k]) = {}
      BY <3>1, <3>2
    <3>5. \A p \in ops' : Names(p) \cap Names(rail'[c]) = {}
      BY <3>1, <3>3
    <3> QED
      BY <2>2, <3>4, <3>5
  <2> QED
    BY <2>1, <2>2
<1>4. ForwardsApart'
  BY <1>3 DEF ForwardsApart
<1>5. ForwardsNew'
  <2>1. ASSUME NEW i, Unbuilt(i) PROVE Unbuilt(i)'
    <3>1. i \notin Names(rail'[c])
      BY <2>1 DEF Unbuilt
    <3> QED
      BY <2>1, <3>1 DEF Unbuilt
  <2> QED
    BY <2>1 DEF ForwardsNew
<1> QED
  BY <1>1, <1>2, <1>4, <1>5 DEF NamesInv

-----------------------------------------------------------------------------
(* The main thread begins operations *)

\* The number of the next operation.
LEMMA NextNumber ==
  ASSUME TypeOK, started < MaxOps
  PROVE  /\ started + 1 \in OpID /\ started + 1 \in 0 .. MaxOps
         /\ started + 1 \in MaybeID
         /\ 1 .. started \subseteq 1 .. started + 1
  BY GatewayAssumption DEF TypeOK, OpID, MaybeID

\* One slot at most.
LEMMA OneSlot == ASSUME NEW g PROVE Cardinality({g}) <= 1
<1>1. Cardinality({g}) = 1
  BY FS_Singleton
<1> QED
  BY <1>1

\* An open through the tunnel of a card, which takes a port that is free.
LEMMA OpenTunneledStep ==
  ASSUME IInv, NEW e \in Entry, OpenTunneled(e)
  PROVE  IInv'
<1> USE DEF IInv
<1>1. PICK p \in FreePort :
        LET cfg == [entry |-> e, db |-> HomeDB, port |-> p]
        IN  /\ Start("open", No, cfg, "dial")
            /\ forwards' = forwards \cup {[id |-> started', entry |-> e, port |-> p]}
            /\ pending' = {[cfg |-> cfg, ssm |-> started']}
            /\ disturbed' = (disturbed \/ Opening)
            /\ UNCHANGED <<rail, pools>>
  BY DEF OpenTunneled
<1> DEFINE cfg == [entry |-> e, db |-> HomeDB, port |-> p]
           n == [id |-> started', kind |-> "open", conn |-> No, cfg |-> cfg,
                 stage |-> "dial", ssm |-> No, ssh |-> No, pool |-> No]
<1>2. /\ started < MaxOps /\ started' = started + 1 /\ ops' = ops \cup {n}
      /\ UNCHANGED <<rail, pools>>
  BY <1>1 DEF Start
<1>3. started' \in OpID /\ started' \in MaybeID /\ started' \in 0 .. MaxOps
  BY <1>2, NextNumber
<1>4. cfg \in Config /\ p \in Port
  BY GatewayAssumption DEF Config, FreePort
<1>5. n \in Op
  BY <1>3, <1>4 DEF Op, MaybeID
<1>6. NamesInv'
  BY <1>1, <1>2, <1>3, <1>5, BeginNames
<1>7. TypeOK'
  <2>1. Cardinality(pending') <= 1 /\ pending' \subseteq [cfg : Config, ssm : MaybeID]
    <3> DEFINE g == [cfg |-> cfg, ssm |-> started']
    <3>1. pending' = {g}
      BY <1>1
    <3>2. g \in [cfg : Config, ssm : MaybeID]
      BY <1>3, <1>4
    <3> HIDE DEF g
    <3>3. Cardinality({g}) <= 1
      BY OneSlot
    <3> QED
      BY <3>1, <3>2, <3>3
  <2>2. \A f, g \in forwards' : f.port = g.port => f = g
    BY <1>1 DEF TypeOK, FreePort
  <2>3. forwards' \subseteq [id : OpID, entry : Entry, port : Port]
    BY <1>1, <1>3, <1>4 DEF TypeOK
  <2>4. DOMAIN rail' \subseteq 1 .. started'
    BY <1>2, NextNumber DEF TypeOK
  <2>5. disturbed' \in BOOLEAN
    BY <1>1 DEF TypeOK
  <2> QED
    BY <1>2, <1>3, <1>5, <2>1, <2>2, <2>3, <2>4, <2>5 DEF TypeOK
<1>8. HeldPoolsAreOpen'
  BY <1>2 DEF HeldPoolsAreOpen, IsOpen
<1> QED
  BY <1>6, <1>7, <1>8 DEF NamesInv

\* An open that finds its tunnel, if it needs one, later.
LEMMA OpenDirectStep ==
  ASSUME IInv, NEW e \in Entry, OpenDirect(e)
  PROVE  IInv'
<1> USE DEF IInv
<1> DEFINE cfg == [entry |-> e, db |-> HomeDB, port |-> No]
           n == [id |-> started', kind |-> "open", conn |-> No, cfg |-> cfg,
                 stage |-> IF e \in SSH THEN "tunnel" ELSE "dial",
                 ssm |-> No, ssh |-> No, pool |-> No]
<1>1. /\ started < MaxOps /\ started' = started + 1 /\ ops' = ops \cup {n}
      /\ pending' = {[cfg |-> cfg, ssm |-> No]}
      /\ disturbed' = (disturbed \/ Opening)
      /\ UNCHANGED <<rail, forwards, pools>>
  BY DEF OpenDirect, Start
<1>2. started' \in OpID /\ started' \in 0 .. MaxOps
  BY <1>1, NextNumber
<1>3. cfg \in Config
  BY GatewayAssumption DEF Config
<1>4. n \in Op
  BY <1>2, <1>3 DEF Op, MaybeID
<1>5. NamesInv'
  BY <1>1, <1>2, <1>4, BeginNames
<1>6. TypeOK'
  <2>1. Cardinality(pending') <= 1 /\ pending' \subseteq [cfg : Config, ssm : MaybeID]
    <3> DEFINE g == [cfg |-> cfg, ssm |-> No]
    <3>1. pending' = {g}
      BY <1>1
    <3>2. g \in [cfg : Config, ssm : MaybeID]
      BY <1>3 DEF MaybeID
    <3> HIDE DEF g
    <3>3. Cardinality({g}) <= 1
      BY OneSlot
    <3> QED
      BY <3>1, <3>2, <3>3
  <2>2. DOMAIN rail' \subseteq 1 .. started'
    BY <1>1, NextNumber DEF TypeOK
  <2> QED
    BY <1>1, <1>2, <1>4, <2>1, <2>2 DEF TypeOK
<1>7. HeldPoolsAreOpen'
  BY <1>1 DEF HeldPoolsAreOpen, IsOpen
<1> QED
  BY <1>5, <1>6, <1>7 DEF NamesInv

\* Closing the pool of connection c closes no pool another one holds.
LEMMA ClosePool ==
  ASSUME IInv, NEW c \in DOMAIN rail, pools' = Open({rail[c].pool})
  PROVE  /\ \A k \in DOMAIN rail : k # c /\ rail[k].pool # No =>
              \E p \in pools' : p.id = rail[k].pool
         /\ \A o \in ops : o.pool # No => \E p \in pools' : p.id = o.pool
<1> USE DEF IInv
<1>1. \A i : IsOpen(i) /\ i # rail[c].pool => \E p \in pools' : p.id = i
  BY DEF IsOpen, Open
<1>2. \A k \in DOMAIN rail : k # c /\ rail[k].pool # No => rail[k].pool # rail[c].pool
  BY DEF PoolsApart
<1>3. \A o \in ops : o.pool # No => o.pool # rail[c].pool
  BY DEF PoolsApart, OpsKnown
<1> QED
  BY <1>1, <1>2, <1>3 DEF HeldPoolsAreOpen

\* Reconnect: the connection's pool and forwards go.
LEMMA ReconnectStep ==
  ASSUME IInv, NEW c \in DOMAIN rail, Reconnect(c)
  PROVE  IInv'
<1> USE DEF IInv
<1> DEFINE own == rail[c]
           n == [id |-> started', kind |-> "reconnect", conn |-> c, cfg |-> own.cfg,
                 stage |-> IF Tunneled(own.cfg.entry) THEN "tunnel" ELSE "dial",
                 ssm |-> No, ssh |-> No, pool |-> No]
<1>1. /\ started < MaxOps /\ started' = started + 1 /\ ops' = ops \cup {n}
      /\ rail' = [rail EXCEPT ![c] = [@ EXCEPT !.pool = No]]
      /\ pools' = Open({own.pool})
      /\ forwards' = Standing({own.ssm, own.ssh})
      /\ disturbed' = (disturbed \/ Rebuilding(c))
      /\ UNCHANGED pending
  BY DEF Reconnect, Start, TornDown
<1>2. started' \in OpID /\ started' \in 0 .. MaxOps
  BY <1>1, NextNumber
<1>3. own \in [cfg : Config, ssm : MaybeID, ssh : MaybeID, pool : MaybeID]
  BY DEF TypeOK
<1>4. n \in Op
  BY <1>2, <1>3, GatewayAssumption DEF Op, MaybeID, OpID, TypeOK
<1>5. /\ DOMAIN rail' = DOMAIN rail
      /\ rail'[c].pool = No /\ Names(rail'[c]) = Names(rail[c])
      /\ \A k \in DOMAIN rail : k # c => rail'[k] = rail[k]
      /\ rail' \in [DOMAIN rail' -> [cfg : Config, ssm : MaybeID, ssh : MaybeID,
                                    pool : MaybeID]]
  BY <1>1, <1>3 DEF Names, TypeOK, MaybeID
<1>6. NamesInv'
  BY <1>1, <1>2, <1>4, <1>5, BeginNames
<1>7. TypeOK'
  <2>1. DOMAIN rail' \subseteq 1 .. started'
    BY <1>1, <1>5, NextNumber DEF TypeOK
  <2>2. forwards' \subseteq forwards /\ pools' \subseteq pools
    BY <1>1 DEF Standing, Open
  <2>3. ops' \subseteq Op
    BY <1>1, <1>4 DEF TypeOK
  <2>4. disturbed' \in BOOLEAN
    BY <1>1 DEF TypeOK
  <2> QED
    BY <1>1, <1>2, <1>5, <2>1, <2>2, <2>3, <2>4 DEF TypeOK
<1>8. HeldPoolsAreOpen'
  <2>1. \A k \in DOMAIN rail' : rail'[k].pool # No => \E p \in pools' : p.id = rail'[k].pool
    BY <1>1, <1>5, ClosePool
  <2>2. \A o \in ops' : o.pool # No => \E p \in pools' : p.id = o.pool
    BY <1>1, ClosePool
  <2> QED
    BY <2>1, <2>2 DEF HeldPoolsAreOpen, IsOpen
<1> QED
  BY <1>6, <1>7, <1>8 DEF NamesInv

\* A switch to another database: the pool goes, the forwards stay.
LEMMA SwitchStep ==
  ASSUME IInv, NEW c \in DOMAIN rail, NEW d \in DB, Switch(c, d)
  PROVE  IInv'
<1> USE DEF IInv
<1> DEFINE own == rail[c]
           cfg == [own.cfg EXCEPT !.db = d]
           n == [id |-> started', kind |-> "switch", conn |-> c, cfg |-> cfg,
                 stage |-> "capture", ssm |-> No, ssh |-> No, pool |-> No]
<1>1. /\ started < MaxOps /\ started' = started + 1 /\ ops' = ops \cup {n}
      /\ rail' = [rail EXCEPT ![c] = [@ EXCEPT !.cfg = cfg, !.pool = No]]
      /\ pools' = Open({own.pool})
      /\ disturbed' = (disturbed \/ Rebuilding(c))
      /\ UNCHANGED <<pending, forwards>>
  BY DEF Switch, Start, Renamed
<1>2. started' \in OpID /\ started' \in 0 .. MaxOps
  BY <1>1, NextNumber
<1>3. own \in [cfg : Config, ssm : MaybeID, ssh : MaybeID, pool : MaybeID]
  BY DEF TypeOK
<1>4. cfg \in Config
  BY <1>3 DEF Config
<1> HIDE DEF cfg
<1>5. n \in Op
  BY <1>2, <1>4, GatewayAssumption DEF Op, MaybeID, OpID, TypeOK
<1>6. /\ DOMAIN rail' = DOMAIN rail
      /\ rail'[c].pool = No /\ Names(rail'[c]) = Names(rail[c])
      /\ \A k \in DOMAIN rail : k # c => rail'[k] = rail[k]
      /\ rail' \in [DOMAIN rail' -> [cfg : Config, ssm : MaybeID, ssh : MaybeID,
                                    pool : MaybeID]]
  BY <1>1, <1>3, <1>4 DEF Names, TypeOK, MaybeID
<1>7. NamesInv'
  BY <1>1, <1>2, <1>5, <1>6, BeginNames
<1>8. TypeOK'
  <2>1. DOMAIN rail' \subseteq 1 .. started'
    BY <1>1, <1>6, NextNumber DEF TypeOK
  <2>2. pools' \subseteq pools
    BY <1>1 DEF Open
  <2>3. ops' \subseteq Op
    BY <1>1, <1>5 DEF TypeOK
  <2>4. disturbed' \in BOOLEAN
    BY <1>1 DEF TypeOK
  <2> QED
    BY <1>1, <1>2, <1>6, <2>1, <2>2, <2>3, <2>4 DEF TypeOK
<1>9. HeldPoolsAreOpen'
  <2>1. \A k \in DOMAIN rail' : rail'[k].pool # No => \E p \in pools' : p.id = rail'[k].pool
    BY <1>1, <1>6, ClosePool
  <2>2. \A o \in ops' : o.pool # No => \E p \in pools' : p.id = o.pool
    <3>1. n.pool = No
      OBVIOUS
    <3>2. \A o \in ops : o.pool # No => \E p \in pools' : p.id = o.pool
      BY <1>1, ClosePool
    <3>3. \A o \in ops' : o \in ops \/ o = n
      BY <1>1
    <3> HIDE DEF n
    <3> QED
      BY <3>1, <3>2, <3>3
  <2> QED
    BY <2>1, <2>2 DEF HeldPoolsAreOpen, IsOpen
<1> QED
  BY <1>7, <1>8, <1>9 DEF NamesInv

\* Closing a connection, whatever rebuilds it.
LEMMA CloseStep ==
  ASSUME IInv, NEW c \in DOMAIN rail, Close(c)
  PROVE  IInv'
<1> USE DEF IInv
<1>1. /\ rail' = [k \in DOMAIN rail \ {c} |-> rail[k]]
      /\ pools' = Open({rail[c].pool})
      /\ forwards' \subseteq forwards
      /\ UNCHANGED <<pending, ops, started, disturbed>>
  BY DEF Close, Standing
<1>2. NamesInv'
  BY <1>1, DropNames
<1>3. TypeOK'
  <2>1. pools' \subseteq pools
    BY <1>1 DEF Open
  <2> QED
    BY <1>1, <2>1 DEF TypeOK
<1>4. HeldPoolsAreOpen'
  <2>1. \A k \in DOMAIN rail' : rail'[k].pool # No => \E p \in pools' : p.id = rail'[k].pool
    BY <1>1, ClosePool
  <2>2. \A o \in ops' : o.pool # No => \E p \in pools' : p.id = o.pool
    BY <1>1, ClosePool
  <2> QED
    BY <2>1, <2>2 DEF HeldPoolsAreOpen, IsOpen
<1> QED
  BY <1>2, <1>3, <1>4 DEF NamesInv

-----------------------------------------------------------------------------
(* The goroutines *)

\* A goroutine whose operation holds no new pool disturbs none.
LEMMA ContinuePools ==
  ASSUME IInv, NEW o \in ops, NEW n,
         ops' = (ops \ {o}) \cup {n}, rail' = rail, pools \subseteq pools',
         n.pool # No => n.pool = o.pool \/ \E p \in pools' : p.id = n.pool
  PROVE  HeldPoolsAreOpen'
<1>1. \A i : IsOpen(i) => \E p \in pools' : p.id = i
  BY DEF IsOpen
<1>2. \A c \in DOMAIN rail' : rail'[c].pool # No => \E p \in pools' : p.id = rail'[c].pool
  BY <1>1 DEF IInv, HeldPoolsAreOpen
<1>3. \A p \in ops' : p.pool # No => \E q \in pools' : q.id = p.pool
  BY <1>1 DEF IInv, HeldPoolsAreOpen
<1> QED
  BY <1>2, <1>3 DEF HeldPoolsAreOpen, IsOpen

\* The switch picks up the forwards of its connection.
LEMMA CaptureStep ==
  ASSUME IInv, NEW o \in ops, Capture(o)
  PROVE  IInv'
<1> USE DEF IInv
<1> DEFINE n == IF o.conn \in DOMAIN rail
                  THEN [o EXCEPT !.stage = "dial", !.ssm = rail[o.conn].ssm,
                                 !.ssh = rail[o.conn].ssh]
                  ELSE [o EXCEPT !.stage = "dial"]
<1>1. /\ ops' = (ops \ {o}) \cup {n} /\ o.stage = "capture"
      /\ UNCHANGED <<rail, pending, forwards, pools, started, disturbed>>
  BY DEF Capture, Becomes
<1>2. o \in Op /\ o.kind = "switch"
  BY <1>1 DEF TypeOK, OpsKnown
<1>3. /\ n \in Op /\ n.id = o.id /\ n.kind = o.kind /\ n.conn = o.conn
      /\ n.pool = o.pool /\ n.stage = "dial"
  <2>1. o.conn \in DOMAIN rail => rail[o.conn].ssm \in MaybeID /\ rail[o.conn].ssh \in MaybeID
    BY DEF TypeOK
  <2>2. CASE o.conn \in DOMAIN rail
    <3>1. n = [o EXCEPT !.stage = "dial", !.ssm = rail[o.conn].ssm,
                        !.ssh = rail[o.conn].ssh]
      BY <2>2
    <3> QED
      BY <1>2, <2>1, <2>2, <3>1 DEF Op
  <2>3. CASE o.conn \notin DOMAIN rail
    <3>1. n = [o EXCEPT !.stage = "dial"]
      BY <2>3
    <3> QED
      BY <1>2, <3>1 DEF Op
  <2> QED
    BY <2>2, <2>3
<1>4. \/ Names(n) \subseteq Names(o)
      \/ \E c \in DOMAIN rail : Rebuilds(o, c) /\ Names(n) \subseteq Names(rail[c])
  BY <1>2 DEF Names, Rebuilds, Op
<1> HIDE DEF n
<1>5. NamesInv'
  BY <1>1, <1>3, <1>4, ContinueNames DEF OpsKnown
<1>6. TypeOK'
  BY <1>1, <1>3 DEF TypeOK
<1>7. HeldPoolsAreOpen'
  BY <1>1, <1>3, ContinuePools
<1> QED
  BY <1>5, <1>6, <1>7 DEF NamesInv

\* A tunnel is built, on a port that is free.
LEMMA BuildTunnelStep ==
  ASSUME IInv, NEW o \in ops, BuildTunnel(o)
  PROVE  IInv'
<1> USE DEF IInv
<1>1. PICK p \in FreePort :
        /\ forwards' = forwards \cup {[id |-> o.id, entry |-> o.cfg.entry, port |-> p]}
        /\ ops' = (ops \ {o}) \cup
             {[o EXCEPT !.stage = "dial", !.cfg.port = p,
                        !.ssm = IF o.cfg.entry \in SSM THEN o.id ELSE No,
                        !.ssh = IF o.cfg.entry \in SSH THEN o.id ELSE No]}
  BY DEF BuildTunnel, Becomes
<1> DEFINE n == [o EXCEPT !.stage = "dial", !.cfg.port = p,
                          !.ssm = IF o.cfg.entry \in SSM THEN o.id ELSE No,
                          !.ssh = IF o.cfg.entry \in SSH THEN o.id ELSE No]
<1>2. o.stage = "tunnel" /\ UNCHANGED <<rail, pending, pools, started, disturbed>>
  BY DEF BuildTunnel
<1>3. o \in Op /\ p \in Port /\ o.cfg \in Config
  BY DEF TypeOK, Op, FreePort
<1>4. /\ n.id = o.id /\ n.kind = o.kind /\ n.conn = o.conn /\ n.pool = o.pool
      /\ n.stage = "dial" /\ Names(n) \subseteq {o.id}
  BY <1>3 DEF Op, Names
<1>5. n \in Op
  <2>1. [o.cfg EXCEPT !.port = p] \in Config
    BY <1>3 DEF Config
  <2>2. o.id \in MaybeID
    BY <1>3 DEF Op, MaybeID
  <2> QED
    BY <1>3, <2>1, <2>2 DEF Op, MaybeID
<1>6. ops' = (ops \ {o}) \cup {n}
  BY <1>1
<1> HIDE DEF n
<1>7. NamesInv'
  BY <1>2, <1>4, <1>5, <1>6, ContinueNames DEF OpsKnown
<1>8. TypeOK'
  <2>1. forwards' \subseteq [id : OpID, entry : Entry, port : Port]
    BY <1>1, <1>3 DEF TypeOK, Op, Config
  <2>2. \A f, g \in forwards' : f.port = g.port => f = g
    BY <1>1 DEF TypeOK, FreePort
  <2> QED
    BY <1>2, <1>5, <1>6, <2>1, <2>2 DEF TypeOK
<1>9. HeldPoolsAreOpen'
  BY <1>2, <1>4, <1>6, ContinuePools
<1> QED
  BY <1>7, <1>8, <1>9 DEF NamesInv

\* A tunnel that cannot be built.
LEMMA BuildFailsStep ==
  ASSUME IInv, NEW o \in ops, BuildFails(o)
  PROVE  IInv'
<1> USE DEF IInv
<1> DEFINE n == [o EXCEPT !.stage = "done"]
<1>1. /\ ops' = (ops \ {o}) \cup {n}
      /\ UNCHANGED <<rail, pending, forwards, pools, started, disturbed>>
  BY DEF BuildFails, Becomes
<1>2. /\ n \in Op /\ n.id = o.id /\ n.kind = o.kind /\ n.conn = o.conn
      /\ n.pool = o.pool /\ n.stage = "done" /\ Names(n) = Names(o)
  BY DEF TypeOK, Op, Names
<1> HIDE DEF n
<1>3. NamesInv'
  BY <1>1, <1>2, ContinueNames DEF OpsKnown
<1>4. TypeOK'
  BY <1>1, <1>2 DEF TypeOK
<1>5. HeldPoolsAreOpen'
  BY <1>1, <1>2, ContinuePools
<1> QED
  BY <1>3, <1>4, <1>5 DEF NamesInv

\* What a dial reaches is a saved connection.
LEMMA ReachedEntries == ASSUME TypeOK, NEW o \in ops PROVE Reached(o.cfg) \subseteq Entry
<1>1. o.cfg.entry \in Entry
  BY DEF TypeOK, Op, Config
<1> QED
  BY <1>1 DEF Reached, TypeOK

\* A dial succeeds.
LEMMA DialStep ==
  ASSUME IInv, NEW o \in ops, Dial(o)
  PROVE  IInv'
<1> USE DEF IInv
<1> DEFINE n == [o EXCEPT !.stage = "done", !.pool = o.id]
<1>1. /\ ops' = (ops \ {o}) \cup {n}
      /\ UNCHANGED <<rail, pending, forwards, started, disturbed>>
  BY DEF Dial, Becomes
<1>2. PICK s \in Reached(o.cfg) :
        pools' = pools \cup {[id |-> o.id, server |-> s, db |-> o.cfg.db]}
  BY DEF Dial
<1>3. o \in Op /\ o.cfg \in Config
  BY DEF TypeOK, Op
<1>4. /\ n \in Op /\ n.id = o.id /\ n.kind = o.kind /\ n.conn = o.conn
      /\ n.pool = o.id /\ n.stage = "done" /\ Names(n) = Names(o)
  BY <1>3 DEF Op, Names, MaybeID
<1> HIDE DEF n
<1>5. NamesInv'
  BY <1>1, <1>4, ContinueNames
<1>6. TypeOK'
  <2>1. pools' \subseteq [id : OpID, server : Entry, db : DB]
    BY <1>2, <1>3, ReachedEntries DEF TypeOK, Op, Config
  <2> QED
    BY <1>1, <1>4, <2>1 DEF TypeOK
<1>7. HeldPoolsAreOpen'
  <2>1. \E p \in pools' : p.id = n.pool
    <3> DEFINE new == [id |-> o.id, server |-> s, db |-> o.cfg.db]
    <3>1. new \in pools'
      BY <1>2
    <3>2. new.id = n.pool
      BY <1>4
    <3> QED
      BY <3>1, <3>2
  <2> QED
    BY <1>1, <1>2, <2>1, ContinuePools
<1> QED
  BY <1>5, <1>6, <1>7 DEF NamesInv

\* A dial fails; the driver may connect all the same, for nobody.
LEMMA DialFailsStep ==
  ASSUME IInv, NEW o \in ops, DialFails(o)
  PROVE  IInv'
<1> USE DEF IInv
<1> DEFINE n == [o EXCEPT !.stage = "done", !.ssm = No, !.ssh = No]
<1>1. /\ ops' = (ops \ {o}) \cup {n} /\ forwards' \subseteq forwards
      /\ UNCHANGED <<rail, pending, started>>
  BY DEF DialFails, Becomes, AfterFailedDial, Standing
<1>2. o \in Op /\ o.cfg \in Config
  BY DEF TypeOK, Op
<1>3. /\ n \in Op /\ n.id = o.id /\ n.kind = o.kind /\ n.conn = o.conn
      /\ n.pool = o.pool /\ n.stage = "done" /\ Names(n) = {}
  BY <1>2 DEF Op, Names, MaybeID
<1> HIDE DEF n
<1>4. NamesInv'
  BY <1>1, <1>3, ContinueNames DEF OpsKnown
<1>5. /\ pools \subseteq pools' /\ disturbed' \in BOOLEAN
      /\ pools' \subseteq [id : OpID, server : Entry, db : DB]
  <2>1. CASE UNCHANGED <<pools, disturbed>>
    BY <2>1 DEF TypeOK
  <2>2. CASE /\ \E s \in Reached(o.cfg) :
                  pools' = pools \cup {[id |-> o.id, server |-> s, db |-> o.cfg.db]}
             /\ disturbed' = TRUE
    BY <1>2, <2>2, ReachedEntries DEF TypeOK, Op, Config
  <2> QED
    BY <2>1, <2>2 DEF DialFails
<1>6. TypeOK'
  BY <1>1, <1>3, <1>5 DEF TypeOK
<1>7. HeldPoolsAreOpen'
  BY <1>1, <1>3, <1>5, ContinuePools
<1> QED
  BY <1>4, <1>6, <1>7 DEF NamesInv

\* A forward is lost.
LEMMA LoseForwardStep ==
  ASSUME IInv, NEW f \in forwards, LoseForward(f)
  PROVE  IInv'
<1>1. /\ forwards' \subseteq forwards /\ disturbed' \in BOOLEAN
      /\ UNCHANGED <<rail, pending, ops, pools, started>>
  BY DEF LoseForward
<1>2. NamesInv'
  BY <1>1, DropNames
<1>3. TypeOK' /\ HeldPoolsAreOpen'
  BY <1>1 DEF IInv, TypeOK, HeldPoolsAreOpen, IsOpen
<1> QED
  BY <1>2, <1>3 DEF NamesInv, IInv

-----------------------------------------------------------------------------
(* The main thread applies results *)

\* The pool operation o built passes to connection c.
LEMMA ApplyPools ==
  ASSUME IInv, NEW o \in ops, NEW c,
         ops' \subseteq ops, pools' = pools,
         \A k \in DOMAIN rail' :
           \/ k \in DOMAIN rail /\ rail'[k] = rail[k]
           \/ k = c /\ rail'[k].pool = o.pool
  PROVE  HeldPoolsAreOpen'
<1>1. \A k \in DOMAIN rail' : rail'[k].pool # No => \E p \in pools' : p.id = rail'[k].pool
  BY DEF IInv, HeldPoolsAreOpen, IsOpen
<1>2. \A p \in ops' : p.pool # No => \E q \in pools' : q.id = p.pool
  BY DEF IInv, HeldPoolsAreOpen, IsOpen
<1> QED
  BY <1>1, <1>2 DEF HeldPoolsAreOpen, IsOpen

\* The result of an open makes a connection of the pending slot, or is dropped.
LEMMA OpenResultStep ==
  ASSUME IInv, NEW o \in ops, OpenResult(o)
  PROVE  IInv'
<1> USE DEF IInv
<1>1. /\ o.kind = "open" /\ ops' = ops \ {o} /\ pending' = {}
      /\ UNCHANGED <<forwards, pools, started>>
  BY DEF OpenResult, PendingAfter
<1>2. disturbed' \in BOOLEAN
  BY DEF OpenResult, TypeOK
<1>3. Cardinality(pending') <= 1
  BY <1>1, FS_EmptySet
<1>4. CASE rail' = rail
  <2>1. NamesInv'
    BY <1>1, <1>4, DropNames
  <2>2. TypeOK'
    BY <1>1, <1>2, <1>3, <1>4 DEF TypeOK
  <2>3. HeldPoolsAreOpen'
    BY <1>1, <1>4, ApplyPools
  <2> QED
    BY <2>1, <2>2, <2>3 DEF NamesInv
<1>5. CASE pending # {} /\ rail' = WithOpened(o)
  <2>1. PICK g \in pending : g = CHOOSE h \in pending : TRUE
    BY <1>5
  <2> DEFINE new == [cfg |-> IF CarriesEntry(o) THEN o.cfg ELSE g.cfg,
                     ssm |-> g.ssm, ssh |-> o.ssh, pool |-> o.pool]
  <2>2. new \in [cfg : Config, ssm : MaybeID, ssh : MaybeID, pool : MaybeID]
    BY DEF TypeOK, Op
  <2>3. /\ new.pool = o.pool /\ Names(new) \subseteq Names(o) \cup {g.ssm}
    BY DEF Names
  <2>4. /\ DOMAIN rail' = DOMAIN rail \cup {o.id}
        /\ rail'[o.id] = new
        /\ \A k \in DOMAIN rail : rail'[k] = rail[k]
        /\ rail' \in [DOMAIN rail' -> [cfg : Config, ssm : MaybeID, ssh : MaybeID,
                                      pool : MaybeID]]
    <3> HIDE DEF new
    <3>1. rail' = [c \in DOMAIN rail \cup {o.id} |-> IF c = o.id THEN new ELSE rail[c]]
      BY <1>5, <2>1 DEF WithOpened, new
    <3>2. o.id \notin DOMAIN rail
      BY DEF OpsKnown
    <3> QED
      BY <2>2, <3>1, <3>2 DEF TypeOK
  <2> HIDE DEF new
  <2>5. NamesInv'
    BY <1>1, <2>3, <2>4, ApplyNames DEF OpsKnown
  <2>6. TypeOK'
    <3>1. DOMAIN rail' \subseteq 1 .. started'
      BY <1>1, <2>4 DEF TypeOK, OpsKnown
    <3> QED
      BY <1>1, <1>2, <1>3, <2>4, <3>1 DEF TypeOK
  <2>7. HeldPoolsAreOpen'
    BY <1>1, <2>3, <2>4, ApplyPools
  <2> QED
    BY <2>5, <2>6, <2>7 DEF NamesInv
<1> QED
  BY <1>4, <1>5 DEF OpenResult

\* The result of a reconnect or a switch: nothing, a rebuilt connection, or what
\* was built for a connection that is gone.
LEMMA RebuildResultStep ==
  ASSUME IInv, NEW o \in ops, RebuildResult(o)
  PROVE  IInv'
<1> USE DEF IInv
<1>1. /\ o.kind # "open" /\ ops' = ops \ {o}
      /\ UNCHANGED <<pending, started, disturbed>>
  BY DEF RebuildResult
<1>2. CASE UNCHANGED <<rail, forwards, pools>>
  <2>1. NamesInv'
    BY <1>1, <1>2, DropNames
  <2>2. TypeOK'
    BY <1>1, <1>2 DEF TypeOK
  <2>3. HeldPoolsAreOpen'
    BY <1>1, <1>2, ApplyPools
  <2> QED
    BY <2>1, <2>2, <2>3 DEF NamesInv
<1>3. CASE /\ o.conn \in DOMAIN rail
           /\ rail' = [rail EXCEPT ![o.conn] = Rebuilt(@, o)]
           /\ UNCHANGED <<forwards, pools>>
  <2> DEFINE c == o.conn
             new == Rebuilt(rail[c], o)
  <2>1. new \in [cfg : Config, ssm : MaybeID, ssh : MaybeID, pool : MaybeID]
    BY <1>3 DEF TypeOK, Op, Rebuilt
  <2>2. new.pool = o.pool /\ Names(new) = Names(o)
    BY DEF Rebuilt, Names
  <2> HIDE DEF new
  <2>3. /\ DOMAIN rail' = DOMAIN rail /\ rail'[c] = new
        /\ \A k \in DOMAIN rail : k # c => rail'[k] = rail[k]
        /\ rail' \in [DOMAIN rail' -> [cfg : Config, ssm : MaybeID, ssh : MaybeID,
                                      pool : MaybeID]]
    BY <1>3, <2>1 DEF TypeOK, new
  <2>4. NamesInv'
    <3>1. Rebuilds(o, c) /\ new.pool \in {No, o.id}
      BY <1>1, <2>2 DEF Rebuilds, OpsKnown
    <3> QED
      BY <1>1, <1>3, <2>2, <2>3, <3>1, ApplyNames
  <2>5. TypeOK'
    BY <1>1, <1>3, <2>3 DEF TypeOK
  <2>6. HeldPoolsAreOpen'
    BY <1>1, <1>3, <2>2, <2>3, ApplyPools
  <2> QED
    BY <2>4, <2>5, <2>6 DEF NamesInv
<1>4. CASE /\ pools' = Open({o.pool})
           /\ forwards' = Standing({o.ssm, o.ssh})
           /\ UNCHANGED rail
  <2>1. NamesInv'
    BY <1>1, <1>4, DropNames
  <2>2. TypeOK'
    BY <1>1, <1>4 DEF TypeOK, Open, Standing
  <2>3. HeldPoolsAreOpen'
    <3>1. \A i : IsOpen(i) /\ i # o.pool => \E p \in pools' : p.id = i
      BY <1>4 DEF IsOpen, Open
    <3>2. \A k \in DOMAIN rail : rail[k].pool # No => rail[k].pool # o.pool
      BY DEF PoolsApart, OpsKnown
    <3>3. \A p \in ops' : p.pool # No => p.pool # o.pool
      BY <1>1 DEF OpsKnown
    <3> QED
      BY <1>1, <1>4, <3>1, <3>2, <3>3 DEF HeldPoolsAreOpen, IsOpen
  <2> QED
    BY <2>1, <2>2, <2>3 DEF NamesInv
<1> QED
  BY <1>2, <1>3, <1>4 DEF RebuildResult

-----------------------------------------------------------------------------
(* What operations are, and what they have built *)

\* Nothing is under way or stands at first.
LEMMA InitUInv == Init => UInv
<1> SUFFICES ASSUME Init PROVE UInv
  OBVIOUS
<1> USE DEF Init
<1>1. OpsShape /\ NumbersNew
  BY DEF OpsShape, NumbersNew
<1>2. OneAtATime /\ PendingIsOpened /\ SwitchKeeps /\ TornMeanwhile
  BY DEF OneAtATime, PendingIsOpened, SwitchKeeps, TornMeanwhile
<1>3. AllReach /\ AllOwned
  BY DEF AllReach, AllOwned
<1> QED
  BY <1>1, <1>2, <1>3 DEF UInv, Undisturbed

\* An operation begins, for a connection on the rail or none.
LEMMA BeginShape ==
  ASSUME IInv, OpsShape, NumbersNew, NEW n \in Op,
         started' = started + 1, n.id = started', ops' = ops \cup {n},
         n.conn \in DOMAIN rail \cup {No}, n.kind = "open" <=> n.conn = No,
         n.pool = No, n.ssm = No, n.ssh = No, n.stage # "done",
         n.stage = "tunnel" => /\ n.kind # "switch" /\ Tunneled(n.cfg.entry)
                               /\ n.kind = "open" => n.cfg.entry \in SSH,
         \A f \in forwards' : f \in forwards \/ (f.id = started' /\ n.stage # "tunnel"),
         pools' \subseteq pools
  PROVE  OpsShape' /\ NumbersNew'
<1>0. /\ started \in Nat /\ No \notin 1 .. started
      /\ DOMAIN rail \subseteq 1 .. started
      /\ \A o \in ops : o.id \in 1 .. started /\ o.id \notin DOMAIN rail
  BY GatewayAssumption DEF IInv, TypeOK, OpsKnown, No
<1>1. /\ n.conn \in 0 .. started' /\ \A p \in ops' : n.conn # p.id
      /\ \A p \in ops : p.conn # n.id /\ p.conn \in 0 .. started'
  BY <1>0 DEF OpsShape, No
<1>2. OpsShape'
  <2> SUFFICES ASSUME NEW o \in ops'
               PROVE  OpsShape!(o)'
    BY DEF OpsShape
  <2>1. CASE o = n
    BY <1>1, <2>1 DEF Failed
  <2>2. CASE o \in ops
    BY <1>1, <2>2 DEF OpsShape, Failed
  <2> QED
    BY <2>1, <2>2
<1>3. NumbersNew'
  <2>1. (\A f \in forwards' : f.id \in 1 .. started') /\ (\A p \in pools' : p.id \in 1 .. started')
    BY <1>0 DEF NumbersNew
  <2>2. ASSUME NEW o \in ops'
        PROVE  /\ o.stage = "tunnel" => \A f \in forwards' : f.id # o.id
               /\ o.stage # "done" => \A p \in pools' : p.id # o.id
    <3>1. CASE o = n
      BY <1>0, <3>1 DEF NumbersNew
    <3>2. CASE o \in ops
      BY <1>0, <3>2 DEF NumbersNew
    <3> QED
      BY <3>1, <3>2
  <2> QED
    BY <2>1, <2>2 DEF NumbersNew
<1> QED
  BY <1>2, <1>3

\* A goroutine goes on with operation o, which becomes n, and may have built a
\* forward or a pool of that number.
LEMMA ContinueShape ==
  ASSUME IInv, OpsShape, NumbersNew, NEW o \in ops, NEW n \in Op,
         n.id = o.id, n.kind = o.kind, n.conn = o.conn,
         ops' = (ops \ {o}) \cup {n}, started' = started,
         n.stage \in {"dial", "done"}, n.kind = "open" => n.ssm = No,
         Failed(n) => n.ssm = No /\ n.ssh = No,
         n.stage # "done" => n.pool = No,
         \A f \in forwards' : f \in forwards \/ f.id = o.id,
         \A p \in pools' : p \in pools \/ (p.id = o.id /\ n.stage = "done"),
         n.stage # "done" => o.stage # "done"
  PROVE  OpsShape' /\ NumbersNew'
<1>0. \A q \in ops' : q = n \/ (q \in ops /\ q.id # o.id)
  BY DEF IInv, OpsKnown
<1>1. o.id \in 1 .. started
  BY DEF IInv, OpsKnown
<1>2. OpsShape'
  <2> SUFFICES ASSUME NEW q \in ops'
               PROVE  OpsShape!(q)'
    BY DEF OpsShape
  <2>1. CASE q = n
    BY <1>0, <2>1 DEF OpsShape
  <2>2. CASE q \in ops
    BY <1>0, <2>2 DEF OpsShape, Failed
  <2> QED
    BY <1>0, <2>1, <2>2
<1>3. NumbersNew'
  BY <1>0, <1>1 DEF NumbersNew
<1> QED
  BY <1>2, <1>3

\* Operations end; nothing is built.
LEMMA DropShape ==
  ASSUME OpsShape, NumbersNew, ops' \subseteq ops, started' = started,
         forwards' \subseteq forwards, pools' \subseteq pools
  PROVE  OpsShape' /\ NumbersNew'
<1>1. OpsShape'
  <2> SUFFICES ASSUME NEW q \in ops'
               PROVE  OpsShape!(q)'
    BY DEF OpsShape
  <2> QED
    BY DEF OpsShape, Failed
<1> QED
  BY <1>1 DEF NumbersNew

-----------------------------------------------------------------------------
(* What is undisturbed *)

\* Who names the same forwards, and the same pool or none, still reaches what it
\* names, unless a forward or a pool of those numbers is new.
LEMMA ReachesNext ==
  ASSUME NEW x, NEW y, Reaches(x),
         y.ssh = x.ssh, y.cfg.port = x.cfg.port, y.cfg.entry = x.cfg.entry,
         y.pool = No \/ (y.pool = x.pool /\ y.cfg.db = x.cfg.db),
         \A f \in forwards' : f.id = x.ssh => f \in forwards,
         \A p \in pools' : p.id = x.pool => p \in pools,
         \A p \in pools' : p.id # No
  PROVE  Reaches(y)'
  BY DEF Reaches

\* What stands has a number.
LEMMA Numbered ==
  ASSUME NumbersNew
  PROVE  (\A f \in forwards : f.id # No) /\ (\A p \in pools : p.id # No)
  BY DEF NumbersNew, No

\* A connection is opened, alone; its SSM forward may be there already.
LEMMA OpenUndisturbed ==
  ASSUME IInv, UInv, NumbersNew', ~disturbed, ~Opening,
         NEW n \in Op, n.id = started', n.kind = "open", n.conn = No,
         n.pool = No, n.ssm = No, n.ssh = No, n.stage # "capture",
         NEW g, g.cfg = n.cfg, g.ssm \in {No, started'},
         g.ssm # No => n.cfg.entry \in SSM,
         started' = started + 1, started' \in OpID,
         ops' = ops \cup {n}, pending' = {g}, UNCHANGED <<rail, pools>>,
         forwards \subseteq forwards',
         \A f \in forwards' : f \in forwards \/ (f.id = started' /\ g.ssm = started')
  PROVE  Undisturbed'
<1>0. /\ OneAtATime /\ PendingIsOpened /\ SwitchKeeps /\ TornMeanwhile
      /\ AllReach /\ AllOwned
      /\ OpsShape /\ NumbersNew
  BY DEF UInv, Undisturbed
<1>1. Unbuilt(started') /\ started \in Nat
  BY GatewayAssumption DEF IInv, TypeOK, ForwardsNew
<1>2. /\ \A o \in ops : o.kind # "open" /\ o.conn # No
      /\ \A o \in ops : started' \notin {o.ssm, o.ssh}
      /\ \A c \in DOMAIN rail : started' \notin {rail[c].ssm, rail[c].ssh}
  BY <1>0, <1>1 DEF Opening, OpsShape, Unbuilt, Names, No
<1>3. /\ \A f \in forwards' : f.id # No
      /\ \A p \in pools' : p.id # No
  BY Numbered DEF NumbersNew, No
<1>4. OneAtATime'
  BY <1>0, <1>2 DEF OneAtATime
<1>5. PendingIsOpened'
  <2>1. Opening'
    BY DEF Opening
  <2>2. \A o \in ops' : o.kind = "open" => o = n
    BY <1>2
  <2> QED
    BY <2>1, <2>2 DEF PendingIsOpened
<1>6. SwitchKeeps'
  <2>1. ASSUME NEW o \in ops, HasForwards(o)
        PROVE  HasForwards(o)'
    BY <1>2, <2>1 DEF HasForwards
  <2> QED
    BY <1>0, <2>1 DEF SwitchKeeps, Failed
<1>7. TornMeanwhile'
  <2>1. ASSUME NEW o \in ops, o.conn \in DOMAIN rail, IsTorn(o)
        PROVE  IsTorn(o)'
    BY <1>2, <2>1 DEF IsTorn
  <2> QED
    BY <1>0, <2>1 DEF TornMeanwhile
<1>8. AllReach'
  <2>1. ASSUME NEW c \in DOMAIN rail
        PROVE  Reaches(rail[c])'
    BY <1>0, <1>2, <1>3, <2>1, ReachesNext DEF AllReach
  <2>2. ASSUME NEW o \in ops
        PROVE  Reaches(o)'
    BY <1>0, <1>2, <1>3, <2>2, ReachesNext DEF AllReach
  <2>3. Reaches(n)'
    BY <1>3 DEF Reaches
  <2> QED
    BY <2>1, <2>2, <2>3 DEF AllReach
<1>9. AllOwned'
  <2>1. pending = {}
    BY <1>0 DEF PendingIsOpened
  <2>2. ASSUME NEW f \in forwards'
        PROVE  Owned(f)'
    <3>1. CASE f \in forwards
      BY <1>0, <2>1, <3>1 DEF AllOwned, Owned
    <3>2. CASE f.id = started' /\ g.ssm = started'
      BY <3>2 DEF Owned
    <3> QED
      BY <3>1, <3>2
  <2> QED
    BY <1>0, <2>2 DEF AllOwned
<1> QED
  BY <1>4, <1>5, <1>6, <1>7, <1>8, <1>9 DEF Undisturbed

\* A connection is taken apart, alone, to be rebuilt.
LEMMA RebuildUndisturbed ==
  ASSUME IInv, UInv, NumbersNew', ~disturbed,
         NEW c \in DOMAIN rail, ~Rebuilding(c),
         NEW n \in Op, n.kind # "open", n.conn = c,
         n.pool = No, n.ssm = No, n.ssh = No,
         n.kind = "switch" => n.stage = "capture",
         ops' = ops \cup {n}, pending' = pending,
         DOMAIN rail' = DOMAIN rail,
         \A k \in DOMAIN rail : k # c => rail'[k] = rail[k],
         rail'[c].ssm = rail[c].ssm, rail'[c].ssh = rail[c].ssh, rail'[c].pool = No,
         rail'[c].cfg = n.cfg,
         n.cfg.entry = rail[c].cfg.entry, n.cfg.port = rail[c].cfg.port,
         forwards' \subseteq forwards, pools' \subseteq pools,
         \A p \in pools' : p.id # rail[c].pool,
         n.kind = "reconnect" => \A f \in forwards' : f.id \notin {rail[c].ssm, rail[c].ssh}
  PROVE  Undisturbed'
<1>0. /\ OneAtATime /\ PendingIsOpened /\ SwitchKeeps /\ TornMeanwhile
      /\ AllReach /\ AllOwned
      /\ OpsShape /\ NumbersNew
  BY DEF UInv, Undisturbed
<1>1. \A o \in ops : o.conn # c
  BY DEF Rebuilding
<1>2. /\ \A f \in forwards' : f.id # No
      /\ \A p \in pools' : p.id # No
  BY Numbered DEF NumbersNew, No
<1>3. OneAtATime'
  BY <1>0, <1>1 DEF OneAtATime
<1>4. PendingIsOpened'
  <2>1. Opening => Opening'
    BY DEF Opening
  <2> QED
    BY <1>0, <2>1 DEF PendingIsOpened
<1>5. SwitchKeeps'
  <2>1. ASSUME NEW o \in ops, HasForwards(o)
        PROVE  HasForwards(o)'
    BY <1>1, <2>1 DEF HasForwards
  <2> QED
    BY <1>0, <2>1 DEF SwitchKeeps, Failed
<1>6. TornMeanwhile'
  <2>1. ASSUME NEW o \in ops, o.conn \in DOMAIN rail, IsTorn(o)
        PROVE  IsTorn(o)'
    BY <1>1, <2>1 DEF IsTorn
  <2>2. IsTorn(n)'
    BY DEF IsTorn
  <2> QED
    BY <1>0, <2>1, <2>2 DEF TornMeanwhile
<1>7. AllReach'
  <2>1. ASSUME NEW k \in DOMAIN rail
        PROVE  Reaches(rail[k])'
    <3>1. Reaches(rail[k])
      BY <1>0 DEF AllReach
    <3>2. PICK x : x = rail[k]
      OBVIOUS
    <3>3. PICK y : y = rail'[k]
      OBVIOUS
    <3>4. /\ y.ssh = x.ssh /\ y.cfg.port = x.cfg.port /\ y.cfg.entry = x.cfg.entry
          /\ y.pool = No \/ (y.pool = x.pool /\ y.cfg.db = x.cfg.db)
      BY <2>1, <3>2, <3>3
    <3>5. Reaches(y)'
      BY <1>2, <3>1, <3>2, <3>4, ReachesNext
    <3> QED
      BY <3>3, <3>5 DEF Reaches
  <2>2. ASSUME NEW o \in ops
        PROVE  Reaches(o)'
    BY <1>0, <1>2, <2>2, ReachesNext DEF AllReach
  <2>3. Reaches(n)'
    BY <1>2 DEF Reaches
  <2> QED
    BY <2>1, <2>2, <2>3 DEF AllReach
<1>8. AllOwned'
  <2>1. ASSUME NEW f \in forwards'
        PROVE  Owned(f)'
    <3>1. Owned(f)
      BY <1>0 DEF AllOwned
    <3> QED
      BY <3>1 DEF Owned
  <2>2. ASSUME NEW p \in pools'
        PROVE  \/ \E k \in DOMAIN rail' : rail'[k].pool = p.id
               \/ \E o \in ops' : o.pool = p.id
    BY <1>0 DEF AllOwned
  <2> QED
    BY <2>1, <2>2 DEF AllOwned
<1> QED
  BY <1>3, <1>4, <1>5, <1>6, <1>7, <1>8 DEF Undisturbed

\* A goroutine goes on with operation o, which becomes n: what it lets go of its
\* connection has, what it builds is its own.
LEMMA ContinueUndisturbed ==
  ASSUME IInv, UInv, NumbersNew', ~disturbed, NEW o \in ops, NEW n \in Op,
         n.id = o.id, n.kind = o.kind, n.conn = o.conn,
         n.cfg.entry = o.cfg.entry, n.cfg.db = o.cfg.db,
         n.kind = "switch" => n.cfg = o.cfg,
         o.stage # "done", n.stage # "capture",
         ops' = (ops \ {o}) \cup {n}, UNCHANGED <<rail, pending, started>>,
         \A f \in forwards' :
           f \in forwards \/ (f.id = o.id /\ o.stage = "tunnel" /\ o.id \in {n.ssm, n.ssh}),
         \A f \in forwards' : f.id \in {o.ssm, o.ssh} =>
           \/ f.id \in {n.ssm, n.ssh}
           \/ \E c \in DOMAIN rail : f.id \in {rail[c].ssm, rail[c].ssh},
         \A p \in pools' : p \in pools \/ (p.id = o.id /\ n.pool = o.id),
         n.kind = "switch" /\ ~Failed(n) => HasForwards(n)',
         Reaches(n)'
  PROVE  Undisturbed'
<1>0. /\ OneAtATime /\ PendingIsOpened /\ SwitchKeeps /\ TornMeanwhile
      /\ AllReach /\ AllOwned
      /\ OpsShape /\ NumbersNew /\ OpsKnown
  BY DEF UInv, Undisturbed, IInv
<1>1. \A q \in ops' : q = n \/ (q \in ops /\ q.id # o.id)
  BY <1>0 DEF OpsKnown
<1>2. \A q \in ops : q # o => q \in ops'
  OBVIOUS
<1>3. /\ o.stage = "tunnel" => \A c \in DOMAIN rail : o.id \notin {rail[c].ssm, rail[c].ssh}
      /\ o.stage = "tunnel" => \A q \in ops : o.id \notin {q.ssm, q.ssh}
      /\ o.id # No
  <2>1. o.id # No
    BY DEF IInv, TypeOK, Op, OpID, No
  <2> QED
    BY <2>1 DEF IInv, ForwardsNew, Unbuilt, Names
<1>4. /\ \A f \in forwards' : f.id # No
      /\ \A p \in pools' : p.id # No
  BY Numbered DEF NumbersNew, No
<1>5. OneAtATime'
  BY <1>0, <1>1 DEF OneAtATime
<1>6. PendingIsOpened'
  <2>1. Opening => Opening'
    BY DEF Opening
  <2> QED
    BY <1>0, <1>1, <2>1 DEF PendingIsOpened
<1>7. SwitchKeeps'
  <2>1. ASSUME NEW q \in ops, HasForwards(q)
        PROVE  HasForwards(q)'
    BY <1>3, <2>1 DEF HasForwards
  <2> QED
    BY <1>0, <1>1, <2>1 DEF SwitchKeeps, Failed
<1>8. TornMeanwhile'
  <2>1. ASSUME NEW q \in ops, q.conn \in DOMAIN rail, IsTorn(q)
        PROVE  IsTorn(q)'
    BY <1>3, <2>1 DEF IsTorn
  <2>2. ASSUME n.conn \in DOMAIN rail, IsTorn(o)
        PROVE  IsTorn(n)'
    BY <1>3, <2>2 DEF IsTorn
  <2> QED
    BY <1>0, <1>1, <2>1, <2>2 DEF TornMeanwhile
<1>9. AllReach'
  <2>1. ASSUME NEW c \in DOMAIN rail
        PROVE  Reaches(rail[c])'
    <3>1. rail[c].pool # o.id
      BY DEF IInv, PoolsApart
    <3> QED
      BY <1>0, <1>3, <1>4, <2>1, <3>1, ReachesNext DEF AllReach
  <2>2. ASSUME NEW q \in ops, q.id # o.id
        PROVE  Reaches(q)'
    <3>1. q.pool # o.id
      BY <1>0, <1>3, <2>2 DEF OpsKnown
    <3> QED
      BY <1>0, <1>3, <1>4, <2>2, <3>1, ReachesNext DEF AllReach
  <2> QED
    BY <1>1, <2>1, <2>2 DEF AllReach
<1>10. AllOwned'
  <2>1. ASSUME NEW f \in forwards'
        PROVE  Owned(f)'
    <3>1. CASE f \in forwards /\ f.id \notin {o.ssm, o.ssh}
      <4>1. Owned(f)
        BY <1>0, <3>1 DEF AllOwned
      <4> QED
        BY <1>2, <3>1, <4>1 DEF Owned
    <3>2. CASE \E c \in DOMAIN rail : f.id \in {rail[c].ssm, rail[c].ssh}
      BY <3>2 DEF Owned
    <3>3. CASE f.id \in {n.ssm, n.ssh}
      BY <3>3 DEF Owned
    <3> QED
      BY <3>1, <3>2, <3>3
  <2>2. ASSUME NEW p \in pools'
        PROVE  \/ \E k \in DOMAIN rail' : rail'[k].pool = p.id
               \/ \E q \in ops' : q.pool = p.id
    <3>1. CASE p \in pools
      <4>1. o.pool # p.id
        BY <1>0, <1>4 DEF OpsShape
      <4> QED
        BY <1>0, <1>2, <3>1, <4>1 DEF AllOwned
    <3>2. CASE p.id = o.id /\ n.pool = o.id
      BY <3>2
    <3> QED
      BY <3>1, <3>2
  <2> QED
    BY <2>1, <2>2 DEF AllOwned
<1> QED
  BY <1>5, <1>6, <1>7, <1>8, <1>9, <1>10 DEF Undisturbed

\* Operation o ends without a connection to give its forwards and its pool to:
\* neither stands.
LEMMA EndUndisturbed ==
  ASSUME UInv, NumbersNew', ~disturbed, NEW o \in ops,
         ops' = ops \ {o}, UNCHANGED <<rail, started>>,
         forwards' \subseteq forwards, pools' \subseteq pools,
         \A f \in forwards' : f.id \notin {o.ssm, o.ssh},
         \A p \in pools' : p.id # o.pool,
         \/ o.kind # "open" /\ pending' = pending
         \/ o.kind = "open" /\ pending' = {} /\ \A g \in pending : g.ssm = No
  PROVE  Undisturbed'
<1>0. /\ OneAtATime /\ PendingIsOpened /\ SwitchKeeps /\ TornMeanwhile
      /\ AllReach /\ AllOwned
      /\ OpsShape /\ NumbersNew
  BY DEF UInv, Undisturbed
<1>1. /\ \A f \in forwards' : f.id # No
      /\ \A p \in pools' : p.id # No
  BY Numbered DEF NumbersNew, No
<1>2. OneAtATime'
  BY <1>0 DEF OneAtATime
<1>3. PendingIsOpened'
  <2>1. CASE o.kind # "open" /\ pending' = pending
    BY <1>0, <2>1 DEF PendingIsOpened, Opening
  <2>2. CASE o.kind = "open" /\ pending' = {}
    <3>1. \A p \in ops' : p.kind # "open"
      BY <1>0, <2>2 DEF OneAtATime, OpsShape
    <3> QED
      BY <2>2, <3>1 DEF PendingIsOpened
  <2> QED
    BY <2>1, <2>2
<1>4. SwitchKeeps'
  <2>1. ASSUME NEW q \in ops, HasForwards(q)
        PROVE  HasForwards(q)'
    BY <2>1 DEF HasForwards
  <2> QED
    BY <1>0, <2>1 DEF SwitchKeeps, Failed
<1>5. TornMeanwhile'
  <2>1. ASSUME NEW q \in ops, q.conn \in DOMAIN rail, IsTorn(q)
        PROVE  IsTorn(q)'
    BY <2>1 DEF IsTorn
  <2> QED
    BY <1>0, <2>1 DEF TornMeanwhile
<1>6. AllReach'
  <2>1. ASSUME NEW c \in DOMAIN rail
        PROVE  Reaches(rail[c])'
    BY <1>0, <1>1, <2>1, ReachesNext DEF AllReach
  <2>2. ASSUME NEW q \in ops
        PROVE  Reaches(q)'
    BY <1>0, <1>1, <2>2, ReachesNext DEF AllReach
  <2> QED
    BY <2>1, <2>2 DEF AllReach
<1>7. AllOwned'
  <2>1. ASSUME NEW f \in forwards'
        PROVE  Owned(f)'
    <3>1. Owned(f) /\ f.id # No /\ f.id \notin {o.ssm, o.ssh}
      BY <1>0, <1>1 DEF AllOwned
    <3> QED
      BY <3>1 DEF Owned
  <2>2. ASSUME NEW p \in pools'
        PROVE  \/ \E k \in DOMAIN rail' : rail'[k].pool = p.id
               \/ \E q \in ops' : q.pool = p.id
    BY <1>0 DEF AllOwned
  <2> QED
    BY <2>1, <2>2 DEF AllOwned
<1> QED
  BY <1>2, <1>3, <1>4, <1>5, <1>6, <1>7 DEF Undisturbed

\* A connection is closed: nothing it has is left.
LEMMA CloseUndisturbed ==
  ASSUME UInv, NumbersNew', ~disturbed, NEW c \in DOMAIN rail, Close(c)
  PROVE  Undisturbed'
<1>0. /\ OneAtATime /\ PendingIsOpened /\ SwitchKeeps /\ TornMeanwhile
      /\ AllReach /\ AllOwned
      /\ OpsShape /\ NumbersNew
  BY DEF UInv, Undisturbed
<1>1. /\ \A f \in forwards' : f.id # No
      /\ \A p \in pools' : p.id # No
  BY Numbered DEF NumbersNew, No
<1>2. /\ DOMAIN rail' = DOMAIN rail \ {c}
      /\ \A k \in DOMAIN rail' : rail'[k] = rail[k]
      /\ forwards' \subseteq forwards /\ pools' \subseteq pools
      /\ \A f \in forwards' : f.id \notin {rail[c].ssm, rail[c].ssh}
      /\ \A p \in pools' : p.id # rail[c].pool
      /\ UNCHANGED <<pending, ops, started>>
  BY DEF Close, Open, Standing
<1>3. OneAtATime' /\ PendingIsOpened'
  BY <1>0, <1>2 DEF OneAtATime, PendingIsOpened, Opening
<1>4. SwitchKeeps'
  <2>1. ASSUME NEW q \in ops, HasForwards(q)
        PROVE  HasForwards(q)'
    BY <1>2, <2>1 DEF HasForwards
  <2> QED
    BY <1>0, <1>2, <2>1 DEF SwitchKeeps, Failed
<1>5. TornMeanwhile'
  <2>1. ASSUME NEW q \in ops, q.conn \in DOMAIN rail', IsTorn(q)
        PROVE  IsTorn(q)'
    BY <1>2, <2>1 DEF IsTorn
  <2> QED
    BY <1>0, <1>2, <2>1 DEF TornMeanwhile
<1>6. AllReach'
  <2>1. ASSUME NEW k \in DOMAIN rail'
        PROVE  Reaches(rail[k])'
    BY <1>0, <1>2, <2>1 DEF AllReach, Reaches
  <2>2. ASSUME NEW q \in ops
        PROVE  Reaches(q)'
    BY <1>0, <1>1, <1>2, <2>2, ReachesNext DEF AllReach
  <2> QED
    BY <1>2, <2>1, <2>2 DEF AllReach
<1>7. AllOwned'
  <2>1. ASSUME NEW f \in forwards'
        PROVE  Owned(f)'
    <3>1. Owned(f)
      BY <1>0, <1>2 DEF AllOwned
    <3> QED
      BY <1>2, <3>1 DEF Owned
  <2>2. ASSUME NEW p \in pools'
        PROVE  \/ \E k \in DOMAIN rail' : rail'[k].pool = p.id
               \/ \E q \in ops' : q.pool = p.id
    BY <1>0, <1>2 DEF AllOwned
  <2> QED
    BY <2>1, <2>2 DEF AllOwned
<1> QED
  BY <1>3, <1>4, <1>5, <1>6, <1>7 DEF Undisturbed

\* The result of operation o makes or remakes connection c, which takes over all
\* that is its own and all that the connection and the pending slot have.
LEMMA ApplyUndisturbed ==
  ASSUME UInv, NumbersNew', ~disturbed, NEW o \in ops, NEW c, c \in DOMAIN rail',
         ops' = ops \ {o}, UNCHANGED <<forwards, pools, started>>,
         DOMAIN rail' = DOMAIN rail \cup {c},
         \A k \in DOMAIN rail : k # c => rail'[k] = rail[k],
         rail'[c].ssh = o.ssh, rail'[c].pool = o.pool,
         o.ssh # No => rail'[c].cfg = o.cfg,
         rail'[c].cfg.db = o.cfg.db,
         \A f \in forwards : f.id = o.ssm => f.id = rail'[c].ssm,
         c \in DOMAIN rail => /\ rail[c].pool = No
                             /\ \A f \in forwards : f.id \in {rail[c].ssm, rail[c].ssh} =>
                                  f.id \in {o.ssm, o.ssh},
         \A p \in ops' : p.conn # c,
         \/ o.kind # "open" /\ pending' = pending
         \/ o.kind = "open" /\ pending' = {} /\ \A g \in pending : g.ssm = rail'[c].ssm
  PROVE  Undisturbed'
<1>0. /\ OneAtATime /\ PendingIsOpened /\ SwitchKeeps /\ TornMeanwhile
      /\ AllReach /\ AllOwned
      /\ OpsShape /\ NumbersNew
  BY DEF UInv, Undisturbed
<1>1. /\ \A f \in forwards' : f.id # No
      /\ \A p \in pools' : p.id # No
  BY Numbered DEF NumbersNew, No
<1>2. OneAtATime'
  BY <1>0 DEF OneAtATime
<1>3. PendingIsOpened'
  <2>1. CASE o.kind # "open" /\ pending' = pending
    BY <1>0, <2>1 DEF PendingIsOpened, Opening
  <2>2. CASE o.kind = "open" /\ pending' = {}
    <3>1. \A p \in ops' : p.kind # "open"
      BY <1>0, <2>2 DEF OneAtATime, OpsShape
    <3> QED
      BY <2>2, <3>1 DEF PendingIsOpened
  <2> QED
    BY <2>1, <2>2
<1>4. SwitchKeeps'
  <2>1. ASSUME NEW q \in ops', HasForwards(q)
        PROVE  HasForwards(q)'
    BY <2>1 DEF HasForwards
  <2> QED
    BY <1>0, <2>1 DEF SwitchKeeps, Failed
<1>5. TornMeanwhile'
  <2>1. ASSUME NEW q \in ops', q.conn \in DOMAIN rail, IsTorn(q)
        PROVE  IsTorn(q)'
    BY <2>1 DEF IsTorn
  <2> QED
    BY <1>0, <2>1 DEF TornMeanwhile
<1>6. AllReach'
  <2>1. ASSUME NEW k \in DOMAIN rail', k # c
        PROVE  Reaches(rail[k])'
    BY <1>0, <2>1 DEF AllReach, Reaches
  <2>2. Reaches(rail[c])'
    <3>1. Reaches(o)
      BY <1>0 DEF AllReach
    <3> QED
      BY <1>1, <3>1 DEF Reaches
  <2>3. ASSUME NEW q \in ops'
        PROVE  Reaches(q)'
    BY <1>0, <1>1, <2>3, ReachesNext DEF AllReach
  <2> QED
    BY <2>1, <2>2, <2>3 DEF AllReach
<1>7. AllOwned'
  <2>1. ASSUME NEW f \in forwards
        PROVE  Owned(f)'
    <3>1. CASE f.id \in {o.ssm, o.ssh}
      BY <3>1 DEF Owned
    <3>2. CASE \E k \in DOMAIN rail : f.id \in {rail[k].ssm, rail[k].ssh}
      <4>1. PICK k \in DOMAIN rail : f.id \in {rail[k].ssm, rail[k].ssh}
        BY <3>2
      <4>2. CASE k = c
        BY <3>1, <4>1, <4>2
      <4>3. CASE k # c
        BY <4>1, <4>3 DEF Owned
      <4> QED
        BY <4>2, <4>3
    <3>3. CASE \E q \in ops' : f.id \in {q.ssm, q.ssh}
      BY <3>3 DEF Owned
    <3>4. CASE \E g \in pending : g.ssm = f.id
      BY <3>4 DEF Owned
    <3> QED
      BY <1>0, <3>1, <3>2, <3>3, <3>4 DEF AllOwned, Owned
  <2>2. ASSUME NEW p \in pools
        PROVE  \/ \E k \in DOMAIN rail' : rail'[k].pool = p.id
               \/ \E q \in ops' : q.pool = p.id
    BY <1>0, <1>1 DEF AllOwned
  <2> QED
    BY <2>1, <2>2 DEF AllOwned
<1> QED
  BY <1>2, <1>3, <1>4, <1>5, <1>6, <1>7 DEF Undisturbed

-----------------------------------------------------------------------------
(* Every step keeps what is undisturbed *)

\* A card's tunnel is up: its connection is opened.
LEMMA OpenTunneledKeeps ==
  ASSUME IInv, UInv, NEW e \in Entry, OpenTunneled(e)
  PROVE  UInv'
<1>1. PICK p \in FreePort :
        LET cfg == [entry |-> e, db |-> HomeDB, port |-> p]
        IN  /\ e \in SSM
            /\ Start("open", No, cfg, "dial")
            /\ forwards' = forwards \cup {[id |-> started', entry |-> e, port |-> p]}
            /\ pending' = {[cfg |-> cfg, ssm |-> started']}
            /\ disturbed' = (disturbed \/ Opening)
            /\ UNCHANGED <<rail, pools>>
  BY DEF OpenTunneled
<1> DEFINE cfg == [entry |-> e, db |-> HomeDB, port |-> p]
           g == [cfg |-> cfg, ssm |-> started + 1]
           n == [id |-> started + 1, kind |-> "open", conn |-> No, cfg |-> cfg,
                 stage |-> "dial", ssm |-> No, ssh |-> No, pool |-> No]
<1>2. /\ started < MaxOps /\ started' = started + 1 /\ ops' = ops \cup {n}
      /\ pending' = {g} /\ disturbed' = (disturbed \/ Opening)
      /\ UNCHANGED <<rail, pools>>
  BY <1>1 DEF Start
<1>3. started' \in OpID
  BY <1>2, NextNumber DEF IInv
<1>4. cfg \in Config /\ No \in MaybeID
  BY <1>1, GatewayAssumption DEF Config, FreePort, MaybeID
<1>5. n \in Op
  BY <1>2, <1>3, <1>4 DEF Op
<1>6. /\ n.id = started' /\ n.kind = "open" /\ n.conn = No /\ n.pool = No
      /\ n.ssm = No /\ n.ssh = No /\ n.stage = "dial" /\ n.cfg = cfg
      /\ g.cfg = cfg /\ g.ssm = started' /\ cfg.entry \in SSM
  BY <1>1, <1>2
<1>7. forwards \subseteq forwards' /\ \A f \in forwards' : f \in forwards \/ f.id = started'
  BY <1>1
<1> HIDE DEF n, g, cfg
<1>8. OpsShape' /\ NumbersNew'
  BY <1>2, <1>5, <1>6, <1>7, BeginShape DEF UInv
<1>9. ASSUME ~disturbed'
      PROVE  Undisturbed'
  BY <1>2, <1>3, <1>5, <1>6, <1>7, <1>8, <1>9, OpenUndisturbed
<1> QED
  BY <1>8, <1>9 DEF UInv

\* A connection of another kind is opened.
LEMMA OpenDirectKeeps ==
  ASSUME IInv, UInv, NEW e \in Entry, OpenDirect(e)
  PROVE  UInv'
<1> DEFINE cfg == [entry |-> e, db |-> HomeDB, port |-> No]
           g == [cfg |-> cfg, ssm |-> No]
           n == [id |-> started + 1, kind |-> "open", conn |-> No, cfg |-> cfg,
                 stage |-> IF e \in SSH THEN "tunnel" ELSE "dial",
                 ssm |-> No, ssh |-> No, pool |-> No]
<1>1. /\ started < MaxOps /\ started' = started + 1 /\ ops' = ops \cup {n}
      /\ pending' = {g} /\ disturbed' = (disturbed \/ Opening)
      /\ UNCHANGED <<rail, forwards, pools>>
  BY DEF OpenDirect, Start
<1>2. started' \in OpID
  BY <1>1, NextNumber DEF IInv
<1>3. cfg \in Config /\ No \in MaybeID
  BY GatewayAssumption DEF Config, MaybeID
<1>4. n \in Op
  BY <1>1, <1>2, <1>3 DEF Op
<1>5. /\ n.id = started' /\ n.kind = "open" /\ n.conn = No /\ n.pool = No
      /\ n.ssm = No /\ n.ssh = No /\ n.stage \in {"tunnel", "dial"} /\ n.cfg = cfg
      /\ n.stage = "tunnel" => cfg.entry \in SSH
      /\ g.cfg = cfg /\ g.ssm = No
  BY <1>1
<1> HIDE DEF n, g, cfg
<1>6. OpsShape' /\ NumbersNew'
  BY <1>1, <1>4, <1>5, BeginShape DEF UInv, Tunneled
<1>7. ASSUME ~disturbed'
      PROVE  Undisturbed'
  <2>1. ~disturbed /\ ~Opening
    BY <1>1, <1>7
  <2> QED
    BY <1>1, <1>2, <1>4, <1>5, <1>6, <2>1, OpenUndisturbed DEF No
<1> QED
  BY <1>6, <1>7 DEF UInv

\* A connection is taken down, to be rebuilt.
LEMMA ReconnectKeeps ==
  ASSUME IInv, UInv, NEW c \in DOMAIN rail, Reconnect(c)
  PROVE  UInv'
<1> DEFINE own == rail[c]
           n == [id |-> started + 1, kind |-> "reconnect", conn |-> c, cfg |-> own.cfg,
                 stage |-> IF Tunneled(own.cfg.entry) THEN "tunnel" ELSE "dial",
                 ssm |-> No, ssh |-> No, pool |-> No]
<1>1. /\ started < MaxOps /\ started' = started + 1 /\ ops' = ops \cup {n}
      /\ rail' = [rail EXCEPT ![c] = TornDown(@)]
      /\ pools' = Open({own.pool}) /\ forwards' = Standing({own.ssm, own.ssh})
      /\ disturbed' = (disturbed \/ Rebuilding(c))
      /\ pending' = pending
  BY DEF Reconnect, Start
<1>2. started' \in OpID
  BY <1>1, NextNumber DEF IInv
<1>3. /\ own \in [cfg : Config, ssm : MaybeID, ssh : MaybeID, pool : MaybeID]
      /\ c \in 1 .. started /\ started \in 0 .. MaxOps
  BY DEF IInv, TypeOK
<1>4. c \in OpID /\ c # No /\ c \in MaybeID /\ No \in MaybeID
  BY <1>3, GatewayAssumption DEF OpID, MaybeID, No
<1>5. n \in Op
  BY <1>1, <1>2, <1>3, <1>4 DEF Op
<1>6. /\ n.id = started' /\ n.kind = "reconnect" /\ n.conn = c /\ n.pool = No
      /\ n.ssm = No /\ n.ssh = No /\ n.stage \in {"tunnel", "dial"} /\ n.cfg = own.cfg
      /\ n.stage = "tunnel" => Tunneled(own.cfg.entry)
  BY <1>1
<1>7. /\ DOMAIN rail' = DOMAIN rail
      /\ \A k \in DOMAIN rail : k # c => rail'[k] = rail[k]
      /\ rail'[c] = [own EXCEPT !.pool = No]
  BY <1>1 DEF TornDown
<1>8. /\ rail'[c].ssm = own.ssm /\ rail'[c].ssh = own.ssh /\ rail'[c].pool = No
      /\ rail'[c].cfg = own.cfg
  BY <1>3, <1>7
<1>9. /\ forwards' \subseteq forwards /\ pools' \subseteq pools
      /\ \A p \in pools' : p.id # own.pool
      /\ \A f \in forwards' : f.id \notin {own.ssm, own.ssh}
  BY <1>1 DEF Open, Standing
<1> HIDE DEF n
<1>10. OpsShape' /\ NumbersNew'
  BY <1>1, <1>4, <1>5, <1>6, <1>9, BeginShape DEF UInv
<1>11. ASSUME ~disturbed'
       PROVE  Undisturbed'
  BY <1>1, <1>5, <1>6, <1>7, <1>8, <1>9, <1>10, <1>11, RebuildUndisturbed
<1> QED
  BY <1>10, <1>11 DEF UInv

\* A connection is pointed at another database.
LEMMA SwitchKeepsAll ==
  ASSUME IInv, UInv, NEW c \in DOMAIN rail, NEW d \in DB, Switch(c, d)
  PROVE  UInv'
<1> DEFINE own == rail[c]
           cfg == [own.cfg EXCEPT !.db = d]
           n == [id |-> started + 1, kind |-> "switch", conn |-> c, cfg |-> cfg,
                 stage |-> "capture", ssm |-> No, ssh |-> No, pool |-> No]
<1>1. /\ started < MaxOps /\ started' = started + 1 /\ ops' = ops \cup {n}
      /\ rail' = [rail EXCEPT ![c] = Renamed(@, cfg)]
      /\ pools' = Open({own.pool})
      /\ disturbed' = (disturbed \/ Rebuilding(c))
      /\ UNCHANGED <<pending, forwards>>
  BY DEF Switch, Start
<1>2. started' \in OpID
  BY <1>1, NextNumber DEF IInv
<1>3. /\ own \in [cfg : Config, ssm : MaybeID, ssh : MaybeID, pool : MaybeID]
      /\ c \in 1 .. started /\ started \in 0 .. MaxOps
  BY DEF IInv, TypeOK
<1>4. c \in OpID /\ c # No /\ c \in MaybeID /\ No \in MaybeID
  BY <1>3, GatewayAssumption DEF OpID, MaybeID, No
<1>5. cfg \in Config /\ cfg.entry = own.cfg.entry /\ cfg.port = own.cfg.port
  BY <1>3 DEF Config
<1>6. n \in Op
  BY <1>1, <1>2, <1>4, <1>5 DEF Op
<1>7. /\ n.id = started' /\ n.kind = "switch" /\ n.conn = c /\ n.pool = No
      /\ n.ssm = No /\ n.ssh = No /\ n.stage = "capture" /\ n.cfg = cfg
  BY <1>1
<1>8. /\ DOMAIN rail' = DOMAIN rail
      /\ \A k \in DOMAIN rail : k # c => rail'[k] = rail[k]
      /\ rail'[c] = [own EXCEPT !.cfg = cfg, !.pool = No]
  BY <1>1 DEF Renamed
<1>9. /\ rail'[c].ssm = own.ssm /\ rail'[c].ssh = own.ssh /\ rail'[c].pool = No
      /\ rail'[c].cfg = cfg
  BY <1>3, <1>8
<1>10. pools' \subseteq pools /\ \A p \in pools' : p.id # own.pool
  BY <1>1 DEF Open
<1> HIDE DEF n, cfg
<1>11. OpsShape' /\ NumbersNew'
  BY <1>1, <1>4, <1>6, <1>7, <1>10, BeginShape DEF UInv
<1>12. ASSUME ~disturbed'
       PROVE  Undisturbed'
  BY <1>1, <1>5, <1>6, <1>7, <1>8, <1>9, <1>10, <1>11, <1>12, RebuildUndisturbed
<1> QED
  BY <1>11, <1>12 DEF UInv

\* A connection is closed.
LEMMA CloseKeeps ==
  ASSUME IInv, UInv, NEW c \in DOMAIN rail, Close(c)
  PROVE  UInv'
<1>1. OpsShape' /\ NumbersNew'
  BY DropShape DEF UInv, Close, Open, Standing
<1>2. disturbed' = disturbed
  BY DEF Close
<1> QED
  BY <1>1, <1>2, CloseUndisturbed DEF UInv

\* The switch picks up the forwards of its connection, if that is there.
LEMMA CaptureKeeps ==
  ASSUME IInv, UInv, NEW o \in ops, Capture(o)
  PROVE  UInv'
<1>0. PICK n : n = IF o.conn \in DOMAIN rail
                     THEN [o EXCEPT !.stage = "dial", !.ssm = rail[o.conn].ssm,
                                    !.ssh = rail[o.conn].ssh]
                     ELSE [o EXCEPT !.stage = "dial"]
  OBVIOUS
<1>1. /\ ops' = (ops \ {o}) \cup {n} /\ o.stage = "capture"
      /\ UNCHANGED <<rail, pending, forwards, pools, started, disturbed>>
  BY <1>0 DEF Capture, Becomes
<1>2. /\ o \in Op /\ o.kind = "switch" /\ o.pool = No /\ o.ssm = No /\ o.ssh = No
      /\ o.conn # No
  BY <1>1 DEF IInv, TypeOK, OpsKnown, UInv, OpsShape
<1>3. /\ n.id = o.id /\ n.kind = o.kind /\ n.conn = o.conn /\ n.cfg = o.cfg
      /\ n.pool = o.pool /\ n.stage = "dial"
      /\ o.conn \in DOMAIN rail => n.ssm = rail[o.conn].ssm /\ n.ssh = rail[o.conn].ssh
      /\ o.conn \notin DOMAIN rail => n.ssm = No /\ n.ssh = No
  BY <1>0, <1>2 DEF Op
<1>4. n \in Op
  <2>1. o.conn \in DOMAIN rail => rail[o.conn].ssm \in MaybeID /\ rail[o.conn].ssh \in MaybeID
    BY DEF IInv, TypeOK
  <2>2. CASE o.conn \in DOMAIN rail
    <3>1. n = [o EXCEPT !.stage = "dial", !.ssm = rail[o.conn].ssm, !.ssh = rail[o.conn].ssh]
      BY <1>0, <2>2
    <3> QED
      BY <1>2, <2>1, <2>2, <3>1 DEF Op
  <2>3. CASE o.conn \notin DOMAIN rail
    <3>1. n = [o EXCEPT !.stage = "dial"]
      BY <1>0, <2>3
    <3> QED
      BY <1>2, <3>1 DEF Op
  <2> QED
    BY <2>2, <2>3
<1>5. OpsShape' /\ NumbersNew'
  BY <1>1, <1>2, <1>3, <1>4, ContinueShape DEF UInv, Failed
<1>6. ASSUME ~disturbed'
      PROVE  Undisturbed'
  <2>1. /\ TornMeanwhile /\ AllReach /\ ~disturbed
        /\ \A f \in forwards' : f.id # No
        /\ \A p \in pools' : p.id # No
    BY <1>1, <1>5, <1>6, Numbered DEF UInv, Undisturbed, NumbersNew, No
  <2>2. HasForwards(n)'
    BY <1>1, <1>3, <2>1 DEF HasForwards
  <2>3. Reaches(n)'
    <3>1. CASE o.conn \in DOMAIN rail
      <4>1. rail[o.conn].cfg = o.cfg /\ Reaches(rail[o.conn])
        BY <1>2, <2>1, <3>1 DEF TornMeanwhile, IsTorn, AllReach
      <4> QED
        BY <1>1, <1>2, <1>3, <2>1, <3>1, <4>1 DEF Reaches
    <3>2. CASE o.conn \notin DOMAIN rail
      BY <1>2, <1>3, <2>1, <3>2 DEF Reaches
    <3> QED
      BY <3>1, <3>2
  <2>4. \A f \in forwards' : f.id \notin {o.ssm, o.ssh}
    BY <1>2, <2>1
  <2> QED
    BY <1>1, <1>2, <1>3, <1>4, <1>5, <2>1, <2>2, <2>3, <2>4, ContinueUndisturbed
<1> QED
  BY <1>5, <1>6 DEF UInv

\* A tunnel is built.
LEMMA BuildTunnelKeeps ==
  ASSUME IInv, UInv, NEW o \in ops, BuildTunnel(o)
  PROVE  UInv'
<1>1. PICK p \in FreePort :
        /\ forwards' = forwards \cup {[id |-> o.id, entry |-> o.cfg.entry, port |-> p]}
        /\ ops' = (ops \ {o}) \cup
             {[o EXCEPT !.stage = "dial", !.cfg.port = p,
                        !.ssm = IF o.cfg.entry \in SSM THEN o.id ELSE No,
                        !.ssh = IF o.cfg.entry \in SSH THEN o.id ELSE No]}
  BY DEF BuildTunnel, Becomes
<1> DEFINE n == [o EXCEPT !.stage = "dial", !.cfg.port = p,
                          !.ssm = IF o.cfg.entry \in SSM THEN o.id ELSE No,
                          !.ssh = IF o.cfg.entry \in SSH THEN o.id ELSE No]
           f == [id |-> o.id, entry |-> o.cfg.entry, port |-> p]
<1>2. o.stage = "tunnel" /\ UNCHANGED <<rail, pending, pools, started, disturbed>>
  BY DEF BuildTunnel
<1>3. /\ o \in Op /\ p \in Port /\ o.cfg \in Config /\ o.pool = No /\ o.ssm = No /\ o.ssh = No
      /\ o.kind # "switch" /\ o.cfg.entry \in SSM \cup SSH
      /\ o.kind = "open" => o.cfg.entry \in SSH
      /\ SSM \cap SSH = {}
  BY <1>2, GatewayAssumption DEF IInv, TypeOK, Op, FreePort, UInv, OpsShape, Tunneled
<1>4. /\ n.id = o.id /\ n.kind = o.kind /\ n.conn = o.conn /\ n.pool = No
      /\ n.stage = "dial"
      /\ n.ssm = (IF o.cfg.entry \in SSM THEN o.id ELSE No)
      /\ n.ssh = (IF o.cfg.entry \in SSH THEN o.id ELSE No)
      /\ n.cfg = [o.cfg EXCEPT !.port = p]
  BY <1>3 DEF Op
<1>5. /\ n.cfg \in Config /\ n.cfg.entry = o.cfg.entry /\ n.cfg.db = o.cfg.db
      /\ n.cfg.port = p
  BY <1>3, <1>4 DEF Config
<1>6. n \in Op
  <2>1. o.id \in MaybeID
    BY <1>3 DEF Op, MaybeID
  <2> QED
    BY <1>3, <1>5, <2>1 DEF Op, MaybeID
<1>7. /\ ops' = (ops \ {o}) \cup {n} /\ forwards' = forwards \cup {f}
      /\ f.id = o.id /\ f.entry = o.cfg.entry /\ f.port = p
  BY <1>1
<1> HIDE DEF n, f
<1>8. OpsShape' /\ NumbersNew'
  <2>1. n.kind = "open" => n.ssm = No
    BY <1>3, <1>4
  <2> QED
    BY <1>2, <1>4, <1>6, <1>7, <2>1, ContinueShape DEF UInv, Failed
<1>9. ASSUME ~disturbed'
      PROVE  Undisturbed'
  <2>1. ~disturbed /\ o.id \in {n.ssm, n.ssh}
    BY <1>2, <1>3, <1>4, <1>9
  <2>2. /\ \A h \in forwards' : h.id # No
        /\ \A q \in pools' : q.id # No
    BY <1>8, Numbered DEF NumbersNew, No
  <2>3. Reaches(n)'
    <3>1. \A h \in forwards : h.id # o.id
      BY <1>2 DEF UInv, NumbersNew
    <3>2. \A h \in forwards' : h.id = n.ssh => h = f
      BY <1>4, <1>7, <2>2, <3>1
    <3>3. n.ssh # No => n.cfg.entry \in SSH
      BY <1>4, <1>5
    <3>4. \A q \in pools' : q.id # n.pool
      BY <1>4, <2>2
    <3> QED
      BY <1>5, <1>7, <3>2, <3>3, <3>4 DEF Reaches
  <2>4. /\ \A h \in forwards' :
             h \in forwards \/ (h.id = o.id /\ o.stage = "tunnel" /\ o.id \in {n.ssm, n.ssh})
        /\ \A h \in forwards' : h.id \notin {o.ssm, o.ssh}
    BY <1>2, <1>3, <1>7, <2>1, <2>2
  <2> QED
    BY <1>2, <1>3, <1>4, <1>5, <1>6, <1>7, <1>8, <2>1, <2>3, <2>4, ContinueUndisturbed
<1> QED
  BY <1>8, <1>9 DEF UInv

\* A tunnel cannot be built.
LEMMA BuildFailsKeeps ==
  ASSUME IInv, UInv, NEW o \in ops, BuildFails(o)
  PROVE  UInv'
<1> DEFINE n == [o EXCEPT !.stage = "done"]
<1>1. /\ ops' = (ops \ {o}) \cup {n} /\ o.stage = "tunnel"
      /\ UNCHANGED <<rail, pending, forwards, pools, started, disturbed>>
  BY DEF BuildFails, Becomes
<1>2. /\ n \in Op /\ n.id = o.id /\ n.kind = o.kind /\ n.conn = o.conn /\ n.cfg = o.cfg
      /\ n.pool = No /\ n.ssm = No /\ n.ssh = No /\ n.stage = "done"
      /\ o.ssm = No /\ o.ssh = No
  BY <1>1 DEF IInv, TypeOK, Op, UInv, OpsShape
<1> HIDE DEF n
<1>3. OpsShape' /\ NumbersNew'
  BY <1>1, <1>2, ContinueShape DEF UInv
<1>4. ASSUME ~disturbed'
      PROVE  Undisturbed'
  <2>1. /\ ~disturbed /\ Failed(n)
        /\ \A h \in forwards' : h.id # No
        /\ \A q \in pools' : q.id # No
    BY <1>1, <1>2, <1>3, <1>4, Numbered DEF NumbersNew, No, Failed
  <2>2. Reaches(n)'
    BY <1>2, <2>1 DEF Reaches
  <2>3. \A h \in forwards' : h.id \notin {o.ssm, o.ssh}
    BY <1>2, <2>1
  <2> QED
    BY <1>1, <1>2, <1>3, <2>1, <2>2, <2>3, ContinueUndisturbed
<1> QED
  BY <1>3, <1>4 DEF UInv

\* A dial succeeds: where the forward it names stands, through that one.
LEMMA DialKeeps ==
  ASSUME IInv, UInv, NEW o \in ops, Dial(o)
  PROVE  UInv'
<1>1. PICK s \in Reached(o.cfg) :
        pools' = pools \cup {[id |-> o.id, server |-> s, db |-> o.cfg.db]}
  BY DEF Dial
<1>2. PICK n : n = [o EXCEPT !.stage = "done", !.pool = o.id]
  OBVIOUS
<1>3. PICK p : p = [id |-> o.id, server |-> s, db |-> o.cfg.db]
  OBVIOUS
<1>4. /\ ops' = (ops \ {o}) \cup {n} /\ o.stage = "dial" /\ pools' = pools \cup {p}
      /\ UNCHANGED <<rail, pending, forwards, started, disturbed>>
  BY <1>1, <1>2, <1>3 DEF Dial, Becomes
<1>5. o \in Op /\ o.id # No /\ o.id \in MaybeID
  BY DEF IInv, TypeOK, Op, OpID, MaybeID, No
<1>6. /\ n \in Op /\ n.id = o.id /\ n.kind = o.kind /\ n.conn = o.conn
      /\ n.cfg = o.cfg /\ n.ssm = o.ssm /\ n.ssh = o.ssh
      /\ n.pool = o.id /\ n.stage = "done"
      /\ p.id = o.id /\ p.server = s /\ p.db = o.cfg.db
  BY <1>2, <1>3, <1>5 DEF Op
<1>7. OpsShape' /\ NumbersNew'
  <2>1. n.kind = "open" => n.ssm = No
    BY <1>6 DEF UInv, OpsShape
  <2>2. ~Failed(n)
    BY <1>5, <1>6 DEF Failed
  <2> QED
    BY <1>4, <1>6, <2>1, <2>2, ContinueShape DEF UInv
<1>8. ASSUME ~disturbed'
      PROVE  Undisturbed'
  <2>1. /\ ~disturbed /\ SwitchKeeps /\ Reaches(o) /\ NumbersNew
        /\ \A f \in forwards : f.id # No
    BY <1>4, <1>7, <1>8, Numbered DEF UInv, Undisturbed, AllReach, NumbersNew, No
  <2>2. n.kind = "switch" => HasForwards(n)'
    <3>1. n.kind = "switch" => HasForwards(o)
      BY <1>4, <1>6, <2>1 DEF SwitchKeeps, Failed
    <3> QED
      BY <1>4, <1>6, <3>1 DEF HasForwards
  <2>3. Reaches(n)'
    <3>1. \A q \in pools' : q.id = o.id => q = p
      BY <1>4, <2>1 DEF NumbersNew
    <3>2. ASSUME NEW f \in forwards, f.id = o.ssh
          PROVE  s = f.entry
      <4>1. f.port = o.cfg.port /\ o.cfg.entry \in SSH
        BY <2>1, <3>2 DEF Reaches
      <4>2. \A h \in forwards : h.port = f.port => h = f
        BY DEF IInv, TypeOK
      <4> QED
        BY <1>1, <4>1, <4>2 DEF Reached, Tunneled
    <3> QED
      BY <1>4, <1>6, <2>1, <3>1, <3>2 DEF Reaches
  <2>4. n.ssm = o.ssm /\ n.ssh = o.ssh /\ n.kind = "switch" => n.cfg = o.cfg
    BY <1>6
  <2> QED
    BY <1>4, <1>6, <1>7, <2>1, <2>2, <2>3, <2>4, ContinueUndisturbed
<1> QED
  BY <1>7, <1>8 DEF UInv

\* A dial fails: the forwards an operation lets go of are its connection's, or
\* stand no more.  The driver that connects all the same is a disturbance.
LEMMA DialFailsKeeps ==
  ASSUME IInv, UInv, NEW o \in ops, DialFails(o)
  PROVE  UInv'
<1>1. PICK n : n = [o EXCEPT !.stage = "done", !.ssm = No, !.ssh = No]
  OBVIOUS
<1>2. /\ ops' = (ops \ {o}) \cup {n} /\ o.stage = "dial"
      /\ forwards' = AfterFailedDial(o)
      /\ UNCHANGED <<rail, pending, started>>
  BY <1>1 DEF DialFails, Becomes
<1>3. \/ UNCHANGED <<pools, disturbed>>
      \/ /\ \E s \in Reached(o.cfg) :
              pools' = pools \cup {[id |-> o.id, server |-> s, db |-> o.cfg.db]}
         /\ disturbed'
  BY DEF DialFails
<1>4. o \in Op /\ o.pool = No
  BY <1>2 DEF IInv, TypeOK, UInv, OpsShape
<1>5. /\ n \in Op /\ n.id = o.id /\ n.kind = o.kind /\ n.conn = o.conn
      /\ n.cfg = o.cfg /\ n.ssm = No /\ n.ssh = No /\ n.pool = No /\ n.stage = "done"
  BY <1>1, <1>4 DEF Op, MaybeID
<1>6. forwards' \subseteq forwards
  BY <1>2 DEF AfterFailedDial, Standing
<1>7. \A p \in pools' : p \in pools \/ p.id = o.id
  BY <1>3
<1>8. OpsShape' /\ NumbersNew'
  BY <1>2, <1>5, <1>6, <1>7, ContinueShape DEF UInv
<1>9. ASSUME ~disturbed'
      PROVE  Undisturbed'
  <2>1. ~disturbed /\ pools' = pools
    BY <1>3, <1>9
  <2>2. SwitchKeeps
    BY <2>1 DEF UInv, Undisturbed
  <2>3. /\ \A f \in forwards' : f.id # No
        /\ \A p \in pools' : p.id # No
    BY <1>8, Numbered DEF NumbersNew, No
  <2>4. \A f \in forwards' : f.id \in {o.ssm, o.ssh} =>
          \E c \in DOMAIN rail : f.id \in {rail[c].ssm, rail[c].ssh}
    <3>1. CASE o.kind = "switch"
      <4>1. HasForwards(o)
        BY <1>2, <2>2, <3>1 DEF SwitchKeeps, Failed
      <4> QED
        BY <1>6, <4>1 DEF HasForwards
    <3>2. CASE o.kind # "switch"
      BY <1>2, <3>2 DEF AfterFailedDial, Standing
    <3> QED
      BY <3>1, <3>2
  <2>5. Reaches(n)'
    BY <1>5, <2>3 DEF Reaches
  <2>6. Failed(n)
    BY <1>5 DEF Failed
  <2> QED
    BY <1>2, <1>5, <1>6, <1>8, <2>1, <2>4, <2>5, <2>6, ContinueUndisturbed
<1> QED
  BY <1>8, <1>9 DEF UInv

\* The result of an open: undisturbed, the pending slot is its own, and what it
\* built is the new connection's.
LEMMA OpenResultKeeps ==
  ASSUME IInv, UInv, NEW o \in ops, OpenResult(o)
  PROVE  UInv'
<1>1. /\ o.kind = "open" /\ ops' = ops \ {o} /\ pending' = {}
      /\ UNCHANGED <<forwards, pools, started>>
  BY DEF OpenResult, PendingAfter
<1>2. OpsShape' /\ NumbersNew'
  BY <1>1, DropShape DEF UInv
<1>3. ASSUME ~disturbed'
      PROVE  Undisturbed'
  <2>1. ~disturbed
    BY <1>3 DEF OpenResult
  <2>2. /\ OpsShape /\ PendingIsOpened /\ AllReach
    BY <2>1 DEF UInv, Undisturbed
  <2>3. /\ \A f \in forwards : f.id # No
        /\ \A p \in pools : p.id # No
    BY <1>1, <1>2, Numbered DEF NumbersNew, No
  <2>4. o.ssm = No
    BY <1>1, <2>2 DEF OpsShape
  <2>5. CASE Failed(o)
    <3>1. rail' = rail /\ o.cfg.entry \notin SSM
      BY <1>3, <2>5 DEF OpenResult, Failed, Built
    <3>2. \A g \in pending : g.ssm = No
      BY <1>1, <2>2, <3>1 DEF PendingIsOpened
    <3>3. o.ssh = No /\ o.pool = No
      BY <2>2, <2>5 DEF OpsShape, Failed
    <3> QED
      BY <1>1, <1>2, <2>1, <2>3, <2>4, <3>1, <3>2, <3>3, EndUndisturbed
  <2>6. CASE Built(o)
    <3>1. PICK g \in pending : g = CHOOSE h \in pending : TRUE
      BY <1>1, <2>2 DEF PendingIsOpened
    <3>2. /\ g.cfg.db = o.cfg.db
          /\ \A h \in pending : h = g
      BY <1>1, <2>2, <3>1 DEF PendingIsOpened
    <3>3. PICK new : new = [cfg |-> IF CarriesEntry(o) THEN o.cfg ELSE g.cfg,
                            ssm |-> g.ssm, ssh |-> o.ssh, pool |-> o.pool]
      OBVIOUS
    <3>4. /\ new.cfg = (IF CarriesEntry(o) THEN o.cfg ELSE g.cfg)
          /\ new.ssm = g.ssm /\ new.ssh = o.ssh /\ new.pool = o.pool
      BY <3>3
    <3>5. rail' = [c \in DOMAIN rail \cup {o.id} |-> IF c = o.id THEN new ELSE rail[c]]
      BY <2>6, <3>1, <3>3 DEF OpenResult, Failed, Built, WithOpened
    <3>6. o.id \notin DOMAIN rail
      BY DEF IInv, OpsKnown
    <3>7. /\ DOMAIN rail' = DOMAIN rail \cup {o.id} /\ rail'[o.id] = new
          /\ \A k \in DOMAIN rail : k # o.id => rail'[k] = rail[k]
      BY <3>5
    <3>8. o.ssh # No => new.cfg = o.cfg
      <4>1. Reaches(o) /\ SSM \cap SSH = {} /\ BigQuery \cap (SSM \cup SSH) = {}
        BY <2>2, GatewayAssumption DEF AllReach
      <4> QED
        BY <3>4, <4>1 DEF Reaches, CarriesEntry
    <3>9. new.cfg.db = o.cfg.db
      BY <3>2, <3>4
    <3>10. \A p \in ops' : p.conn # o.id
      BY <1>1, <2>2 DEF OpsShape
    <3>11. \A h \in pending : h.ssm = new.ssm
      BY <3>2, <3>4
    <3>12. \A f \in forwards : f.id # o.ssm
      BY <2>3, <2>4
    <3> QED
      BY <1>1, <1>2, <2>1, <3>4, <3>6, <3>7, <3>8, <3>9, <3>10, <3>11, <3>12,
         ApplyUndisturbed
  <2> QED
    BY <2>5, <2>6 DEF OpenResult
<1> QED
  BY <1>2, <1>3 DEF UInv

\* The result of a reconnect or a switch: undisturbed, nothing else rebuilds the
\* connection, and what that has is gone, or is what the switch hands back.
LEMMA RebuildResultKeeps ==
  ASSUME IInv, UInv, NEW o \in ops, RebuildResult(o)
  PROVE  UInv'
<1>1. /\ o.kind # "open" /\ ops' = ops \ {o}
      /\ UNCHANGED <<pending, started, disturbed>>
  BY DEF RebuildResult
<1>2. forwards' \subseteq forwards /\ pools' \subseteq pools
  BY DEF RebuildResult, Open, Standing
<1>3. OpsShape' /\ NumbersNew'
  BY <1>1, <1>2, DropShape DEF UInv
<1>4. ASSUME ~disturbed'
      PROVE  Undisturbed'
  <2>1. ~disturbed
    BY <1>1, <1>4
  <2>2. /\ OpsShape /\ OneAtATime /\ SwitchKeeps /\ TornMeanwhile /\ AllReach
    BY <2>1 DEF UInv, Undisturbed
  <2>3. /\ \A f \in forwards' : f.id # No
        /\ \A p \in pools' : p.id # No
    BY <1>3, Numbered DEF NumbersNew, No
  <2>4. CASE Failed(o) /\ UNCHANGED <<rail, forwards, pools>>
    <3>1. o.ssm = No /\ o.ssh = No /\ o.pool = No
      BY <2>2, <2>4 DEF OpsShape, Failed
    <3> QED
      BY <1>1, <1>2, <1>3, <2>1, <2>3, <2>4, <3>1, EndUndisturbed
  <2>5. CASE /\ Built(o) /\ o.conn \notin DOMAIN rail
             /\ pools' = Open({o.pool}) /\ forwards' = Standing({o.ssm, o.ssh})
             /\ UNCHANGED rail
    <3>1. /\ \A f \in forwards' : f.id \notin {o.ssm, o.ssh}
          /\ \A p \in pools' : p.id # o.pool
      BY <2>5 DEF Open, Standing
    <3> QED
      BY <1>1, <1>2, <1>3, <2>1, <2>5, <3>1, EndUndisturbed
  <2>6. CASE /\ Built(o) /\ o.conn \in DOMAIN rail
             /\ rail' = [rail EXCEPT ![o.conn] = Rebuilt(@, o)]
             /\ UNCHANGED <<forwards, pools>>
    <3>1. PICK c : c = o.conn
      OBVIOUS
    <3>2. PICK new : new = Rebuilt(rail[c], o)
      OBVIOUS
    <3>3. /\ new.cfg = (IF CarriesEntry(o) THEN o.cfg ELSE rail[c].cfg)
          /\ new.ssm = o.ssm /\ new.ssh = o.ssh /\ new.pool = o.pool
      BY <3>2 DEF Rebuilt
    <3>4. /\ c \in DOMAIN rail /\ DOMAIN rail' = DOMAIN rail /\ rail'[c] = new
          /\ \A k \in DOMAIN rail : k # c => rail'[k] = rail[k]
      BY <2>6, <3>1, <3>2
    <3>5. o.ssh # No => new.cfg = o.cfg
      <4>1. Reaches(o) /\ SSM \cap SSH = {} /\ BigQuery \cap (SSM \cup SSH) = {}
        BY <2>2, GatewayAssumption DEF AllReach
      <4> QED
        BY <3>3, <4>1 DEF Reaches, CarriesEntry
    <3>6. IsTorn(o)
      BY <1>1, <2>2, <2>6 DEF TornMeanwhile
    <3>7. new.cfg.db = o.cfg.db /\ rail[c].pool = No
      BY <3>1, <3>3, <3>6 DEF IsTorn
    <3>8. \A f \in forwards : f.id \in {rail[c].ssm, rail[c].ssh} => f.id \in {o.ssm, o.ssh}
      <4>1. CASE o.kind = "reconnect"
        BY <3>1, <3>6, <4>1 DEF IsTorn
      <4>2. CASE o.kind = "switch"
        <5>1. HasForwards(o)
          BY <2>2, <2>6, <4>2 DEF SwitchKeeps, Failed, Built
        <5> QED
          BY <2>6, <3>1, <5>1 DEF HasForwards
      <4>3. o.kind \in {"reconnect", "switch"}
        BY <1>1 DEF IInv, TypeOK, Op
      <4> QED
        BY <4>1, <4>2, <4>3
    <3>9. \A p \in ops' : p.conn # c
      BY <1>1, <2>2, <3>1 DEF OneAtATime
    <3> QED
      BY <1>1, <1>3, <2>1, <2>6, <3>3, <3>4, <3>5, <3>7, <3>8, <3>9, ApplyUndisturbed
  <2> QED
    BY <2>4, <2>5, <2>6 DEF RebuildResult
<1> QED
  BY <1>3, <1>4 DEF UInv

\* A forward is lost: from then on nothing is promised of who reaches what.
LEMMA LoseForwardKeeps ==
  ASSUME IInv, UInv, NEW f \in forwards, LoseForward(f)
  PROVE  UInv'
<1>1. disturbed'
  BY DEF LoseForward
<1>2. OpsShape' /\ NumbersNew'
  BY DropShape DEF UInv, LoseForward
<1> QED
  BY <1>1, <1>2 DEF UInv

-----------------------------------------------------------------------------
(* Theorems *)

\* Every step, of the main thread, a goroutine or the network, keeps the
\* invariant.
LEMMA Inductive == IInv /\ [Next]_vars => IInv'
<1> SUFFICES ASSUME IInv, [Next]_vars PROVE IInv'
  OBVIOUS
<1>1. CASE \E e \in Entry : OpenTunneled(e) \/ OpenDirect(e)
  BY <1>1, OpenTunneledStep, OpenDirectStep
<1>2. CASE \E c \in DOMAIN rail : Reconnect(c) \/ Close(c) \/ \E d \in DB : Switch(c, d)
  BY <1>2, ReconnectStep, CloseStep, SwitchStep
<1>3. CASE \E o \in ops : \/ Capture(o) \/ BuildTunnel(o) \/ BuildFails(o)
                         \/ Dial(o) \/ DialFails(o)
                         \/ OpenResult(o) \/ RebuildResult(o)
  BY <1>3, CaptureStep, BuildTunnelStep, BuildFailsStep, DialStep, DialFailsStep,
     OpenResultStep, RebuildResultStep
<1>4. CASE \E f \in forwards : LoseForward(f)
  BY <1>4, LoseForwardStep
<1>5. CASE UNCHANGED vars
  BY <1>5 DEF vars, IInv, TypeOK, OpsKnown, PoolsApart, HeldPoolsAreOpen, IsOpen,
     ForwardsApart, ForwardsNew, Unbuilt
<1> QED
  BY <1>1, <1>2, <1>3, <1>4, <1>5 DEF Next

\* Every reachable state satisfies the inductive invariant.
THEOREM Invariant == Spec => []IInv
  BY InitIInv, Inductive, PTL DEF Spec

\* Types; in particular no two forwards ever listen on one port.
THEOREM TypeCorrect == Spec => []TypeOK
<1>1. IInv => TypeOK
  BY DEF IInv
<1> QED
  BY <1>1, Invariant, PTL

\* However reconnects, switches, opens and closes overlap and fail, the worker of
\* a connection is never given a pool that was closed.
THEOREM NoClosedPoolHeld == Spec => []HeldPoolsAreOpen
<1>1. IInv => HeldPoolsAreOpen
  BY DEF IInv
<1> QED
  BY <1>1, Invariant, PTL

\* Closing or rebuilding one connection never cuts another one's pool or
\* forward, though opens take the pending slot whoever filled it.
THEOREM NothingIsShared == Spec => []NothingShared
<1>1. IInv => NothingShared
  <2> SUFFICES ASSUME IInv, NEW c \in DOMAIN rail, NEW k \in DOMAIN rail, c # k
               PROVE  /\ rail[c].pool # No => rail[c].pool # rail[k].pool
                      /\ {rail[c].ssm, rail[c].ssh} \cap {rail[k].ssm, rail[k].ssh}
                           \subseteq {No}
    BY DEF NothingShared
  <2>1. rail[c].pool # No => rail[c].pool # rail[k].pool
    BY DEF IInv, PoolsApart
  <2>2. Names(rail[c]) \cap Names(rail[k]) = {}
    BY DEF IInv, ForwardsApart
  <2> QED
    BY <2>1, <2>2 DEF Names
<1> QED
  BY <1>1, Invariant, PTL

\* Every step keeps the invariant of what is undisturbed too.
LEMMA UInductive == IInv /\ UInv /\ [Next]_vars => UInv'
<1> SUFFICES ASSUME IInv, UInv, [Next]_vars PROVE UInv'
  OBVIOUS
<1>1. CASE \E e \in Entry : OpenTunneled(e) \/ OpenDirect(e)
  BY <1>1, OpenTunneledKeeps, OpenDirectKeeps
<1>2. CASE \E c \in DOMAIN rail : Reconnect(c) \/ Close(c) \/ \E d \in DB : Switch(c, d)
  BY <1>2, ReconnectKeeps, CloseKeeps, SwitchKeepsAll
<1>3. CASE \E o \in ops : \/ Capture(o) \/ BuildTunnel(o) \/ BuildFails(o)
                         \/ Dial(o) \/ DialFails(o)
                         \/ OpenResult(o) \/ RebuildResult(o)
  BY <1>3, CaptureKeeps, BuildTunnelKeeps, BuildFailsKeeps, DialKeeps, DialFailsKeeps,
     OpenResultKeeps, RebuildResultKeeps
<1>4. CASE \E f \in forwards : LoseForward(f)
  BY <1>4, LoseForwardKeeps
<1>5. CASE UNCHANGED vars
  <2>1. OpsShape' /\ NumbersNew'
    BY <1>5, DropShape DEF vars, UInv
  <2>2. Undisturbed => Undisturbed'
    BY <1>5 DEF vars, Undisturbed, OneAtATime, PendingIsOpened, Opening, SwitchKeeps,
       HasForwards, Failed, TornMeanwhile, IsTorn, AllReach, Reaches, AllOwned, Owned
  <2> QED
    BY <1>5, <2>1, <2>2 DEF vars, UInv
<1> QED
  BY <1>1, <1>2, <1>3, <1>4, <1>5 DEF Next

\* Every reachable state that nothing has disturbed is in order: one open and one
\* rebuild of a connection at a time, each with the forwards of its own.
THEOREM UndisturbedInvariant == Spec => []UInv
  BY InitIInv, InitUInv, Inductive, UInductive, PTL DEF Spec

\* "A failure anywhere after the tunnel is up stops it, so a half-open connection
\* never leaks a forward" (docs/ssh-tunnel.md:133), nor a pool: whichever step of
\* an open, a reconnect or a switch fails and whichever connection is closed
\* meanwhile, what stands has an owner, unless what the code has no guard against
\* has happened.
THEOREM NothingLeaks == Spec => []OwnedWhenUndisturbed
<1>1. UInv => OwnedWhenUndisturbed
  BY DEF UInv, Undisturbed, AllOwned, OwnedWhenUndisturbed
<1> QED
  BY <1>1, UndisturbedInvariant, PTL

\* Undisturbed, a connection's pool is of the database its config names and goes
\* through its SSH forward, on the port its config names.
THEOREM ReachesItsDatabase == Spec => []ReachesWhatItNames
<1>1. IInv /\ UInv => ReachesWhatItNames
  <2> SUFFICES ASSUME IInv, UInv, ~disturbed, NEW c \in Connected
               PROVE  /\ PoolOf(c).db = rail[c].cfg.db
                      /\ \A f \in forwards : f.id = rail[c].ssh =>
                           PoolOf(c).server = f.entry /\ rail[c].cfg.port = f.port
    BY DEF ReachesWhatItNames
  <2>1. Reaches(rail[c])
    BY DEF UInv, Undisturbed, AllReach, Connected
  <2>2. \E p \in pools : p.id = rail[c].pool
    BY DEF IInv, HeldPoolsAreOpen, IsOpen, Connected
  <2>3. PoolOf(c) \in pools /\ PoolOf(c).id = rail[c].pool
    BY <2>2 DEF PoolOf
  <2> QED
    BY <2>1, <2>3 DEF Reaches
<1> QED
  BY <1>1, Invariant, UndisturbedInvariant, PTL
=============================================================================
