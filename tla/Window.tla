------------------------------- MODULE Window -------------------------------
(***************************************************************************)
(* The tab and connection state machine of one viewer window               *)
(* (src/internal/ui/appwindow.go).                                         *)
(*                                                                         *)
(* A window keeps an ordered rail of connections, an ordered list of tabs, *)
(* the index of the active connection and, per connection, the id of the   *)
(* tab last viewed.  A tab names its connection by INDEX into the rail, so *)
(* closing a connection renumbers the tabs of every later one.  Every      *)
(* event of the code mutates this state on the main thread and then calls  *)
(* render(), which only derives a cache from it: an event is one action.   *)
(*                                                                         *)
(* Rail positions are those of the code plus one.  The order of w.tabs is  *)
(* the order of the tab ids: tabs are only ever appended, under a fresh    *)
(* greater id, or removed; so the list is a function on the live ids.      *)
(***************************************************************************)
EXTENDS Integers, FiniteSets, FiniteSetsExt, Sequences, SequencesExt

CONSTANTS
  Conn,      \* identities of Connection objects
  Mem,       \* the in-memory DuckDB connection, created with the window
  MaxTabID   \* bound on the ids nextTabID hands out

ASSUME WindowAssumption ==
  /\ Mem \in Conn
  /\ MaxTabID \in Nat /\ MaxTabID > 1

VARIABLES
  conns,      \* w.connections: the rail, a sequence of connections
  tabs,       \* w.tabs: live tab id -> [conn: rail position, file: has a FilePath]
  activeConn, \* w.activeConnIdx: position of the active connection
  lastTab,    \* Connection.activeTabID: 0 means "none / first"
  nextTabID   \* the process-wide counter of tab ids; the first id is 0

vars == <<conns, tabs, activeConn, lastTab, nextTabID>>

memConnIdx == 1     \* rail position of Mem
NoTab == -1         \* no tab is shown: the empty view
None == 0           \* the "no recorded tab" value of lastTab

-----------------------------------------------------------------------------
(* Projections *)

\* connHasTab / visibleTabs for the connection at position c of tab list ts.
TabsOf(ts, c) == {t \in DOMAIN ts : ts[t].conn = c}

\* activeTabState(): the recorded tab if the connection still has it, else
\* its first tab.
TabShown(ts, c, recorded) ==
  LET vis == TabsOf(ts, c)
  IN  IF vis = {} THEN NoTab
      ELSE IF recorded # None /\ recorded \in vis THEN recorded
      ELSE Min(vis)

\* The tab connection k would show if it were the active one.
TabOf(k) == TabShown(tabs, CHOOSE i \in DOMAIN conns : conns[i] = k, lastTab[k])

ActiveTab == TabShown(tabs, activeConn, lastTab[conns[activeConn]])

\* The tab list with a new tab, whose id is nextTabID, on position c.
WithNewTab(ts, c, isFile) ==
  [t \in DOMAIN ts \cup {nextTabID} |->
     IF t = nextTabID THEN [conn |-> c, file |-> isFile] ELSE ts[t]]

-----------------------------------------------------------------------------
(* Events *)

\* buildUI creates Mem; the first tab follows.  In the main window it has id
\* 0, in a second window a later one.
Init ==
  /\ conns = <<Mem>>
  /\ activeConn = memConnIdx
  /\ \E first \in {0, 1} :
       /\ tabs = [t \in {first} |-> [conn |-> memConnIdx, file |-> FALSE]]
       /\ lastTab = [c \in Conn |-> IF c = Mem THEN first ELSE None]
       /\ nextTabID = first + 1

FreshTab == nextTabID < MaxTabID /\ nextTabID' = nextTabID + 1

\* Ids are also consumed by opens in flight and by the other windows.
ConsumeTabID ==
  /\ FreshTab
  /\ UNCHANGED <<conns, tabs, activeConn, lastTab>>

\* addNewTab: the new tab belongs to the active connection and is shown.
AddNewTab ==
  /\ FreshTab
  /\ tabs' = WithNewTab(tabs, activeConn, FALSE)
  /\ lastTab' = [lastTab EXCEPT ![conns[activeConn]] = nextTabID]
  /\ UNCHANGED <<conns, activeConn>>

\* selectTab: t may be any id, and a tab of a background connection.
SelectTab(t) ==
  /\ IF t \in DOMAIN tabs /\ t # ActiveTab
       THEN lastTab' = [lastTab EXCEPT ![conns[tabs[t].conn]] = t]
       ELSE UNCHANGED lastTab
  /\ UNCHANGED <<conns, tabs, activeConn, nextTabID>>

\* The tab that takes over from t among its siblings: the next, else the
\* previous, else none.
Neighbor(t) ==
  LET siblings == TabsOf(tabs, tabs[t].conn) \ {t}
      after  == {s \in siblings : s > t}
      before == {s \in siblings : s < t}
  IN  IF after # {} THEN Min(after) ELSE IF before # {} THEN Max(before) ELSE None

\* The active connection once the tabs ts are left: if it has none and another
\* connection has some, the connection of the first tab takes over.
ActiveAfter(ts) ==
  IF DOMAIN ts # {} /\ TabsOf(ts, activeConn) = {}
    THEN ts[Min(DOMAIN ts)].conn
    ELSE activeConn

\* closeTabByID: reached from the tab bar and from the close command, so t is
\* a tab of the active connection.
CloseTab(t) ==
  LET rest == [s \in DOMAIN tabs \ {t} |-> tabs[s]]
      own  == conns[tabs[t].conn]
  IN  /\ t \in TabsOf(tabs, activeConn)
      /\ tabs' = rest
      /\ lastTab' = IF lastTab[own] = t
                      THEN [lastTab EXCEPT ![own] = Neighbor(t)]
                      ELSE lastTab
      /\ activeConn' = ActiveAfter(rest)
      /\ UNCHANGED <<conns, nextTabID>>

\* selectConnection: a connection without tabs gets one.
SelectConnection(i) ==
  /\ i \in DOMAIN conns
  /\ activeConn' = i
  /\ IF TabsOf(tabs, i) = {}
       THEN /\ FreshTab
            /\ tabs' = WithNewTab(tabs, i, FALSE)
            /\ lastTab' = [lastTab EXCEPT ![conns[i]] = nextTabID]
       ELSE UNCHANGED <<tabs, lastTab, nextTabID>>
  /\ UNCHANGED conns

\* The connection a flat data file is opened in.
FileHome == memConnIdx

\* onFileSelectedWithCmd for a flat data file: Mem becomes active, and the file
\* lands in the tab Mem shows if that one is empty, else in a new tab.
OpenFile ==
  LET home  == FileHome
      shown == TabShown(tabs, home, lastTab[conns[home]])
      reuse == shown \in {t \in DOMAIN tabs : ~tabs[t].file}
  IN  /\ activeConn' = home
      /\ \/ /\ reuse
            /\ tabs' = [tabs EXCEPT ![shown].file = TRUE]
            /\ UNCHANGED <<lastTab, nextTabID>>
         \/ /\ ~reuse
            /\ FreshTab
            /\ tabs' = WithNewTab(tabs, home, TRUE)
            /\ lastTab' = [lastTab EXCEPT ![conns[home]] = nextTabID]
      /\ UNCHANGED conns

\* handleOpenDBResult and handleOpenGatewayResult: the new connection is
\* appended, made active and given its first tab.
OpenConnection(k) ==
  /\ \A i \in DOMAIN conns : conns[i] # k
  /\ FreshTab
  /\ conns' = Append(conns, k)
  /\ activeConn' = Len(conns) + 1
  /\ tabs' = WithNewTab(tabs, Len(conns) + 1, FALSE)
  /\ lastTab' = [lastTab EXCEPT ![k] = nextTabID]

\* Renumbering of position c when position i leaves the rail.
Shifted_Blind(c, i) == IF c > memConnIdx THEN c - 1 ELSE c
Shifted(c, i) == IF c > i THEN c - 1 ELSE c

\* The tab list without the tabs of position i, the later ones renumbered.
WithoutConn(ts, i) ==
  [t \in DOMAIN ts \ TabsOf(ts, i) |-> [ts[t] EXCEPT !.conn = Shifted(@, i)]]

\* closeConnection: drop the connection's tabs, take it off the rail, renumber,
\* fall back to Mem if it was active, and give the active connection a tab.
CloseConnection(i) ==
  LET kept == WithoutConn(tabs, i)
      next == IF activeConn = i THEN memConnIdx ELSE Shifted(activeConn, i)
  IN  /\ i \in DOMAIN conns /\ i # memConnIdx
      /\ conns' = RemoveAt(conns, i)
      /\ activeConn' = next
      /\ IF TabsOf(kept, next) = {}
           THEN /\ FreshTab
                /\ tabs' = WithNewTab(kept, next, FALSE)
                /\ lastTab' = [lastTab EXCEPT ![conns'[next]] = nextTabID]
           ELSE /\ tabs' = kept
                /\ UNCHANGED <<lastTab, nextTabID>>

Next ==
  \/ ConsumeTabID
  \/ AddNewTab
  \/ \E t \in 0 .. MaxTabID : SelectTab(t)
  \/ \E t \in DOMAIN tabs : CloseTab(t)
  \/ \E i \in DOMAIN conns : SelectConnection(i) \/ CloseConnection(i)
  \/ OpenFile
  \/ \E k \in Conn : OpenConnection(k)

Spec == Init /\ [][Next]_vars

-----------------------------------------------------------------------------
(* Properties *)

\* Types of the window's state.
TypeOK ==
  /\ conns \in Seq(Conn)
  /\ nextTabID \in 1 .. MaxTabID
  /\ DOMAIN tabs \subseteq 0 .. nextTabID - 1
  /\ tabs \in [DOMAIN tabs -> [conn : Nat \ {0}, file : BOOLEAN]]
  /\ activeConn \in Nat \ {0}
  /\ lastTab \in [Conn -> 0 .. nextTabID - 1]

\* Every index into the rail means what it is used for, across the renumbering
\* of a close: the active index and those of the tabs are in range, and the
\* memory connection never moves.  The code indexes connections with both the
\* active index (app.go:3757) and memConnIdx (appwindow.go:1323) unchecked.
IndicesValid ==
  /\ memConnIdx \in DOMAIN conns /\ conns[memConnIdx] = Mem
  /\ activeConn \in DOMAIN conns
  /\ \A t \in DOMAIN tabs : tabs[t].conn \in DOMAIN conns

\* "The active connection always has a visible tab as long as ANY tab exists"
\* (appwindow.go:936); render relies on it (appwindow.go:1034).
ActiveConnHasTab == DOMAIN tabs # {} => TabsOf(tabs, activeConn) # {}

\* The tab a connection records is one of its own; 0 also stands for none.
RecordedTabIsOwn ==
  \A i \in DOMAIN conns :
    lastTab[conns[i]] # None => lastTab[conns[i]] \in TabsOf(tabs, i)

\* A data file is only ever held by a tab of Mem: any other worker could not
\* read it when the tab is re-run, sorted or paged (appwindow.go:1285-1291).
FilesOnlyInMemory ==
  \A t \in DOMAIN tabs : tabs[t].file => tabs[t].conn = memConnIdx

\* A tab never changes connection, whatever opens or closes around it.
TabsKeepConnection ==
  [][\A t \in DOMAIN tabs \cap DOMAIN tabs' :
       conns'[tabs'[t].conn] = conns[tabs[t].conn]]_vars
=============================================================================
