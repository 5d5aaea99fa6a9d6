------------------------------ MODULE TabQuery ------------------------------
(***************************************************************************)
(* The queries of a tab: what it has asked, what it shows, and the trail   *)
(* its Back and Forward buttons walk (runCurrentQuery, handleQueryResult,  *)
(* navBackWithCmd in src/internal/ui/appwindow.go; NavPush and its kin in  *)
(* src/internal/models/state.go).                                          *)
(*                                                                         *)
(* A run raises the tab's generation and leaves; its result comes back     *)
(* later and is dropped if the tab has closed or run something else since. *)
(* Results may come back in any order: one worker answers in order, but a  *)
(* reconnect moves the tab to a new worker while an old answer is still on *)
(* its way.  A query stands for the SQL with its sort, page and columns.   *)
(***************************************************************************)
EXTENDS Integers, Sequences, SequencesExt

CONSTANTS
  Tab,        \* tabs
  Query,      \* what a user may run
  Select,     \* those that NavPush records: they start with SELECT
  Nothing,    \* no query yet
  NavCap,     \* entries kept for Back and Forward (100 in the code)
  MaxGen      \* bound on the runs of a tab

ASSUME TabQueryAssumption ==
  /\ Select \subseteq Query
  /\ Nothing \notin Query
  /\ NavCap \in Nat \ {0}
  /\ MaxGen \in Nat

VARIABLES
  live,       \* tabs not closed
  userSQL,    \* State.UserSQL with the sort, page and columns
  generation, \* runs of the tab so far
  navigating, \* a Back or Forward is under way
  navStack,   \* State.navStack
  navPos,     \* State.navPos plus one: 0 is "nothing recorded"
  inFlight,   \* requests sent and results not yet taken
  shown,      \* what the grid shows: [gen, query, error]
  history,    \* the results added to the query history
  overlapped  \* history variable: tabs whose user ran something while navigating

queryVars == <<live, userSQL, generation, navigating, navStack, navPos, inFlight,
               shown, history, overlapped>>

Request == [tab : Tab, gen : 1 .. MaxGen, query : Query, nav : BOOLEAN,
            kind : {"query", "open"}]

QueryInit ==
  /\ live = Tab
  /\ userSQL = [t \in Tab |-> Nothing]
  /\ generation = [t \in Tab |-> 0]
  /\ navigating = [t \in Tab |-> FALSE]
  /\ navStack = [t \in Tab |-> <<>>]
  /\ navPos = [t \in Tab |-> 0]
  /\ inFlight = {}
  /\ shown = [t \in Tab |-> [gen |-> 0, query |-> Nothing, error |-> FALSE]]
  /\ history = {}
  /\ overlapped = {}

-----------------------------------------------------------------------------
(* Asking *)

NextGen(t) == generation[t] + 1

\* The generation is raised and, unless the connection has no worker (it is
\* being rebuilt), the request leaves.
Ask(t, q, nav, kind) ==
  /\ generation[t] < MaxGen
  /\ generation' = [generation EXCEPT ![t] = NextGen(t)]
  /\ userSQL' = [userSQL EXCEPT ![t] = q]
  /\ \/ inFlight' = inFlight \cup
           {[tab |-> t, gen |-> NextGen(t), query |-> q, nav |-> nav,
             kind |-> kind]}
     \/ UNCHANGED inFlight

\* A new query, sort, page or column choice.
RunQuery(t, q) ==
  /\ t \in live
  /\ Ask(t, q, navigating[t], "query")
  /\ overlapped' = IF navigating[t] THEN overlapped \cup {t} ELSE overlapped
  /\ UNCHANGED <<live, navigating, navStack, navPos, shown, history>>

\* onFileSelectedWithCmd: a file is opened in the tab.  The request does not
\* carry the flag, and the flag is left alone.
OpenInTab(t, q) ==
  /\ t \in live
  /\ Ask(t, q, FALSE, "open")
  /\ UNCHANGED <<live, navigating, navStack, navPos, shown, history, overlapped>>

\* navBackWithCmd and navForwardWithCmd: the position moves at once.
Navigate(t, to) ==
  /\ t \in live
  /\ navPos' = [navPos EXCEPT ![t] = to]
  /\ navigating' = [navigating EXCEPT ![t] = TRUE]
  /\ Ask(t, navStack[t][to], TRUE, "query")
  /\ UNCHANGED <<live, navStack, shown, history, overlapped>>

NavBack(t) == navPos[t] > 1 /\ Navigate(t, navPos[t] - 1)
NavForward(t) == navPos[t] < Len(navStack[t]) /\ Navigate(t, navPos[t] + 1)

-----------------------------------------------------------------------------
(* Answering *)

\* NavPush: what followed the current entry is cut off, and the oldest entry
\* goes when the trail is full.
NavPushed(t, q) ==
  LET trail == Append(SubSeq(navStack[t], 1, navPos[t]), q)
  IN  IF q \notin Select THEN navStack[t]
      ELSE IF Len(trail) > NavCap THEN Tail(trail)
      ELSE trail

\* The new entry becomes the current one.
PosAfter_Kept(t, q) == IF navPos[t] = 0 THEN Len(NavPushed(t, q)) ELSE navPos[t]
PosAfter(t, q) == IF q \in Select THEN Len(NavPushed(t, q)) ELSE navPos[t]

\* A result that came too late.
Stale_Never(r) == r.tab \notin live
Stale_AllButNewest(r) == r.tab \notin live \/ generation[r.tab] <= r.gen
Stale(r) == r.tab \notin live \/ generation[r.tab] # r.gen

DropStale(r) ==
  /\ Stale(r)
  /\ inFlight' = inFlight \ {r}
  /\ UNCHANGED <<live, userSQL, generation, navigating, navStack, navPos, shown,
                 history, overlapped>>

\* handleQueryResult with an error.  The health check that precedes a query on
\* a remote connection builds its own result, without the navigating flag.
NavField(r, failedCheck) == r.nav /\ ~failedCheck

Fail(r, failedCheck) ==
  LET t == r.tab
  IN  /\ ~Stale(r)
      /\ failedCheck => r.kind = "query"
      /\ inFlight' = inFlight \ {r}
      /\ shown' = [shown EXCEPT ![t] =
                     [gen |-> r.gen, query |-> r.query, error |-> TRUE]]
      /\ history' = IF NavField(r, failedCheck) THEN history ELSE history \cup {r}
      /\ navigating' = [navigating EXCEPT ![t] = FALSE]
      /\ UNCHANGED <<live, userSQL, generation, navStack, navPos, overlapped>>

\* handleOpenFileResult when not even the schema could be read: nothing else is
\* touched.
FailOpen(r) ==
  LET t == r.tab
  IN  /\ ~Stale(r)
      /\ r.kind = "open"
      /\ inFlight' = inFlight \ {r}
      /\ shown' = [shown EXCEPT ![t] =
                     [gen |-> r.gen, query |-> r.query, error |-> TRUE]]
      /\ UNCHANGED <<live, userSQL, generation, navigating, navStack, navPos,
                     history, overlapped>>

\* handleQueryResult with rows.  What is pushed is the tab's query now.
Show(r) ==
  LET t == r.tab
  IN  /\ ~Stale(r)
      /\ inFlight' = inFlight \ {r}
      /\ shown' = [shown EXCEPT ![t] =
                     [gen |-> r.gen, query |-> r.query, error |-> FALSE]]
      /\ IF r.nav
           THEN UNCHANGED <<history, navStack, navPos>>
           ELSE /\ history' = history \cup {r}
                /\ navStack' = [navStack EXCEPT ![t] = NavPushed(t, userSQL[t])]
                /\ navPos' = [navPos EXCEPT ![t] = PosAfter(t, userSQL[t])]
      /\ navigating' = [navigating EXCEPT ![t] = FALSE]
      /\ overlapped' = IF r.nav THEN overlapped ELSE overlapped \ {t}
      /\ UNCHANGED <<live, userSQL, generation>>

TabCloses(t) ==
  /\ t \in live
  /\ live' = live \ {t}
  /\ UNCHANGED <<userSQL, generation, navigating, navStack, navPos, inFlight,
                 shown, history, overlapped>>

QueryNext ==
  \/ \E t \in Tab : \/ \E q \in Query : RunQuery(t, q) \/ OpenInTab(t, q)
                    \/ NavBack(t) \/ NavForward(t)
                    \/ TabCloses(t)
  \/ \E r \in inFlight : \/ DropStale(r) \/ Show(r) \/ FailOpen(r)
                         \/ \E failedCheck \in BOOLEAN : Fail(r, failedCheck)

QuerySpec == QueryInit /\ [][QueryNext]_queryVars

-----------------------------------------------------------------------------
(* Properties *)

\* Types; the trail is a capped sequence of SELECTs and the position lies in it.
QueryTypeOK ==
  /\ live \subseteq Tab
  /\ userSQL \in [Tab -> Query \cup {Nothing}]
  /\ generation \in [Tab -> 0 .. MaxGen]
  /\ navigating \in [Tab -> BOOLEAN]
  /\ navStack \in [Tab -> Seq(Select)]
  /\ \A t \in Tab : Len(navStack[t]) <= NavCap
  /\ navPos \in [Tab -> 0 .. NavCap]
  /\ \A t \in Tab : navPos[t] \in (IF navStack[t] = <<>> THEN {0}
                                  ELSE DOMAIN navStack[t])
  /\ inFlight \subseteq Request
  /\ shown \in [Tab -> [gen : 0 .. MaxGen, query : Query \cup {Nothing},
                        error : BOOLEAN]]
  /\ history \subseteq Request
  /\ overlapped \subseteq Tab

\* A tab never goes back to an older result: an answer overtaken by a later run
\* is dropped (appwindow.go:2684), whatever order the answers come in.
ShownNeverOlder == [][\A t \in Tab : shown'[t].gen >= shown[t].gen]_queryVars

\* The grid shows the tab's own query: what it shows for the newest run is what
\* the editor holds, so a later sort or page applies to the rows on screen.
ShownIsAsked ==
  \A t \in Tab : shown[t].gen = generation[t] => shown[t].query = userSQL[t]

\* A live tab whose newest request has come back shows its outcome: no answer
\* that still matters is dropped.
NewestApplied ==
  [][\A t \in live, r \in inFlight \ inFlight' :
       r.tab = t /\ r.gen = generation[t] => shown'[t].gen = r.gen]_queryVars

\* At rest after a successful SELECT, Back leads from the entry on screen: the
\* trail's current entry is what is shown.  (Not if the user ran something while
\* a Back or Forward was under way: that run is taken for navigation.)
TrailMatchesScreen ==
  \A t \in live \ overlapped :
    /\ shown[t].gen = generation[t] /\ generation[t] > 0
    /\ ~shown[t].error /\ shown[t].query \in Select
    => navStack[t][navPos[t]] = shown[t].query
=============================================================================
