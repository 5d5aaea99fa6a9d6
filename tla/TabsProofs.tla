------------------------------ MODULE TabsProofs ------------------------------
(***************************************************************************)
(* Proofs about the tabs of a window.  Window, for every set of            *)
(* connections and every bound on the tab ids: types, the soundness of     *)
(* every index into the rail, the invariant closeTabByID states for        *)
(* itself.  TabQuery, for any tabs and queries, any cap of the trail and   *)
(* any number of runs: the grid shows the tab's own query and never an     *)
(* older one, and the trail agrees with the grid.  What either side        *)
(* promises it promises in the composition of MCTabs as well.              *)
(***************************************************************************)
EXTENDS MCTabs, SequenceTheorems, WellFoundedInduction, TLAPS

-----------------------------------------------------------------------------
(* The window: least and greatest elements *)

\* A nonempty set of naturals has a least element: the first sibling, the first
\* tab of the list.
LEMMA MinOfNats ==
  ASSUME NEW S, S \subseteq Nat, S # {}
  PROVE  Min(S) \in S /\ \A x \in S : Min(S) <= x
<1>1. IsWellFoundedOn(OpToRel(<, Nat), Nat)
  BY NatLessThanWellFounded
<1>2. PICK m \in S : \A x \in S : ~ (<<x, m>> \in OpToRel(<, Nat))
  BY <1>1, WFMin
<1>3. \A x \in S : ~(x < m)
  <2>1. ASSUME NEW x \in S, x < m
        PROVE  <<x, m>> \in OpToRel(<, Nat)
    <3>1. <<x, m>> \in Nat \X Nat
      OBVIOUS
    <3>2. <<x, m>>[1] = x /\ <<x, m>>[2] = m
      OBVIOUS
    <3>3. <<x, m>>[1] < <<x, m>>[2]
      BY <2>1, <3>2
    <3> QED
      BY <3>1, <3>3, Zenon DEF OpToRel
  <2> QED
    BY <1>2, <2>1
<1>4. \A x \in S : m <= x
  BY <1>3
<1> QED
  BY <1>4 DEF Min

\* A nonempty set of naturals below a bound has a greatest element.
LEMMA MaxOfNats ==
  ASSUME NEW S, NEW b \in Nat, S \subseteq 0 .. b, S # {}
  PROVE  Max(S) \in S /\ \A x \in S : x <= Max(S)
<1> DEFINE D == {b - x : x \in S}
<1>1. D \subseteq Nat /\ D # {}
  <2>1. \A x \in S : b - x \in Nat
    OBVIOUS
  <2>2. PICK x \in S : TRUE
    OBVIOUS
  <2>3. b - x \in D
    OBVIOUS
  <2> QED
    BY <2>1, <2>3
<1>2. Min(D) \in D /\ \A y \in D : Min(D) <= y
  BY <1>1, MinOfNats
<1>3. PICK m \in S : Min(D) = b - m
  BY <1>2
<1>4. \A x \in S : x <= m
  BY <1>2, <1>3
<1> QED
  BY <1>4 DEF Max

\* Removing position i of the rail shifts the later positions down by one.
LEMMA RemoveAtProperties ==
  ASSUME NEW S, NEW s \in Seq(S), NEW i \in 1 .. Len(s)
  PROVE  /\ RemoveAt(s, i) \in Seq(S)
         /\ Len(RemoveAt(s, i)) = Len(s) - 1
         /\ \A j \in 1 .. Len(s) - 1 :
              RemoveAt(s, i)[j] = IF j < i THEN s[j] ELSE s[j + 1]
<1> DEFINE a == SubSeq(s, 1, i - 1)
           b == SubSeq(s, i + 1, Len(s))
<1>0. Len(s) \in Nat /\ \A j \in 1 .. Len(s) : s[j] \in S
  BY LenProperties, ElementOfSeq
<1>1. /\ a \in Seq(S) /\ Len(a) = i - 1
      /\ \A j \in 1 .. i - 1 : a[j] = s[j]
  <2>1. \A j \in 1 .. i - 1 : s[j] \in S
    BY <1>0
  <2> QED
    BY <1>0, <2>1, SubSeqProperties
<1>2. /\ b \in Seq(S) /\ Len(b) = Len(s) - i
      /\ \A j \in 1 .. Len(s) - i : b[j] = s[i + j]
  <2>1. \A j \in i + 1 .. Len(s) : s[j] \in S
    BY <1>0
  <2>2. /\ b \in Seq(S)
        /\ Len(b) = IF i + 1 <= Len(s) THEN Len(s) - (i + 1) + 1 ELSE 0
        /\ \A j \in 1 .. Len(s) - (i + 1) + 1 : b[j] = s[i + 1 + j - 1]
    BY <1>0, <2>1, SubSeqProperties
  <2>3. \A j \in 1 .. Len(s) - i : b[j] = s[i + j]
    BY <1>0, <2>2
  <2> QED
    BY <1>0, <2>2, <2>3
<1>3. /\ a \o b \in Seq(S)
      /\ Len(a \o b) = Len(a) + Len(b)
      /\ \A j \in 1 .. Len(a) + Len(b) :
           (a \o b)[j] = IF j <= Len(a) THEN a[j] ELSE b[j - Len(a)]
  BY <1>1, <1>2, ConcatProperties
<1>4. RemoveAt(s, i) = a \o b
  BY DEF RemoveAt
<1> HIDE DEF a, b
<1>5. Len(a \o b) = Len(s) - 1
  BY <1>0, <1>1, <1>2, <1>3
<1>6. ASSUME NEW j \in 1 .. Len(s) - 1
      PROVE  (a \o b)[j] = IF j < i THEN s[j] ELSE s[j + 1]
  <2>1. CASE j < i
    BY <2>1, <1>0, <1>1, <1>2, <1>3
  <2>2. CASE ~(j < i)
    <3>1. j - (i - 1) \in 1 .. Len(s) - i /\ i + (j - (i - 1)) = j + 1
      BY <2>2, <1>0
    <3>2. (a \o b)[j] = b[j - (i - 1)]
      BY <2>2, <1>0, <1>1, <1>2, <1>3
    <3>3. b[j - (i - 1)] = s[i + (j - (i - 1))]
      BY <3>1, <1>2
    <3> QED
      BY <2>2, <3>1, <3>2, <3>3
  <2> QED
    BY <2>1, <2>2
<1> QED
  BY <1>3, <1>4, <1>5, <1>6

-----------------------------------------------------------------------------
(* The inductive invariant *)

\* The rail: Mem first, no connection twice.
RailOK(cs) ==
  /\ cs \in Seq(Conn)
  /\ 1 \in DOMAIN cs /\ cs[1] = Mem
  /\ \A i, j \in DOMAIN cs : cs[i] = cs[j] => i = j

\* A tab list over the rail cs, with ids below n.
TabsOK(cs, ts, n) ==
  /\ DOMAIN ts \subseteq 0 .. n - 1
  /\ ts \in [DOMAIN ts -> [conn : Nat \ {0}, file : BOOLEAN]]
  /\ \A t \in DOMAIN ts : /\ ts[t].conn \in DOMAIN cs
                          /\ ts[t].file => ts[t].conn = 1

\* The recorded tabs lt of the connections of cs are tabs of ts, their own.
RecordsOK(cs, ts, lt, n) ==
  /\ lt \in [Conn -> 0 .. n - 1]
  /\ \A i \in DOMAIN cs : lt[cs[i]] # 0 => lt[cs[i]] \in TabsOf(ts, i)

Consistent(cs, ts, lt, n) ==
  /\ n \in 1 .. MaxTabID
  /\ RailOK(cs)
  /\ TabsOK(cs, ts, n)
  /\ RecordsOK(cs, ts, lt, n)

\* What every event preserves.
WindowInv ==
  /\ Consistent(conns, tabs, lastTab, nextTabID)
  /\ activeConn \in DOMAIN conns
  /\ ActiveConnHasTab

\* The invariant implies each property the model checker checks.
LEMMA WindowInvImplies ==
  WindowInv => /\ TypeOK /\ IndicesValid /\ ActiveConnHasTab
          /\ RecordedTabIsOwn /\ FilesOnlyInMemory
<1> SUFFICES ASSUME WindowInv
             PROVE  /\ TypeOK /\ IndicesValid /\ ActiveConnHasTab
                    /\ RecordedTabIsOwn /\ FilesOnlyInMemory
  OBVIOUS
<1> USE DEF WindowInv, Consistent, RailOK, TabsOK, RecordsOK
<1>1. activeConn \in Nat \ {0}
  BY LenProperties
<1>2. TypeOK
  BY <1>1 DEF TypeOK
<1>3. IndicesValid
  BY DEF IndicesValid, memConnIdx
<1>4. RecordedTabIsOwn
  BY DEF RecordedTabIsOwn, None
<1>5. FilesOnlyInMemory
  BY DEF FilesOnlyInMemory, memConnIdx
<1> QED
  BY <1>2, <1>3, <1>4, <1>5

\* Appending a tab to position c and recording it there keeps the state
\* consistent: the tail every event that opens a tab shares (addNewTab).
LEMMA NewTabConsistent ==
  ASSUME NEW cs, NEW ts, NEW lt, NEW c \in DOMAIN cs, NEW f \in BOOLEAN,
         Consistent(cs, ts, lt, nextTabID),
         FreshTab, f => c = 1
  PROVE  /\ Consistent(cs, WithNewTab(ts, c, f),
                       [lt EXCEPT ![cs[c]] = nextTabID], nextTabID')
         /\ nextTabID \in TabsOf(WithNewTab(ts, c, f), c)
<1> DEFINE nt == WithNewTab(ts, c, f)
           nl == [lt EXCEPT ![cs[c]] = nextTabID]
<1>1. nextTabID \in 1 .. MaxTabID /\ nextTabID' \in 1 .. MaxTabID
      /\ nextTabID' = nextTabID + 1
  BY WindowAssumption DEF FreshTab, Consistent
<1>2. /\ DOMAIN nt = DOMAIN ts \cup {nextTabID}
      /\ nextTabID \notin DOMAIN ts
      /\ nt[nextTabID] = [conn |-> c, file |-> f]
      /\ \A t \in DOMAIN ts : nt[t] = ts[t]
  BY <1>1 DEF WithNewTab, Consistent, TabsOK
<1>3. /\ cs \in [1 .. Len(cs) -> Conn] /\ c \in Nat \ {0} /\ cs[c] \in Conn
  BY LenProperties DEF Consistent, RailOK
<1>4. TabsOK(cs, nt, nextTabID')
  <2>1. DOMAIN nt \subseteq 0 .. nextTabID' - 1
    BY <1>1, <1>2 DEF Consistent, TabsOK
  <2>2. \A t \in DOMAIN nt : nt[t] \in [conn : Nat \ {0}, file : BOOLEAN]
    BY <1>2, <1>3 DEF Consistent, TabsOK
  <2>3. nt \in [DOMAIN nt -> [conn : Nat \ {0}, file : BOOLEAN]]
    BY <2>2 DEF WithNewTab
  <2>4. \A t \in DOMAIN nt : /\ nt[t].conn \in DOMAIN cs
                             /\ nt[t].file => nt[t].conn = 1
    BY <1>2 DEF Consistent, TabsOK
  <2> QED
    BY <2>1, <2>3, <2>4 DEF TabsOK
<1>5. RecordsOK(cs, nt, nl, nextTabID')
  <2>1. nl \in [Conn -> 0 .. nextTabID' - 1]
    BY <1>1, <1>3 DEF Consistent, RecordsOK
  <2>2. ASSUME NEW i \in DOMAIN cs, nl[cs[i]] # 0
        PROVE  nl[cs[i]] \in TabsOf(nt, i)
    <3>1. CASE i = c
      <4>1. nl[cs[i]] = nextTabID
        BY <3>1, <1>3 DEF Consistent, RecordsOK
      <4> QED
        BY <4>1, <3>1, <1>2 DEF TabsOf
    <3>2. CASE i # c
      <4>1. cs[i] # cs[c]
        BY <3>2 DEF Consistent, RailOK
      <4>2. nl[cs[i]] = lt[cs[i]]
        BY <4>1, <1>3 DEF Consistent, RecordsOK
      <4>3. lt[cs[i]] \in TabsOf(ts, i)
        BY <4>2, <2>2 DEF Consistent, RecordsOK
      <4> QED
        BY <4>2, <4>3, <1>2 DEF TabsOf
    <3> QED
      BY <3>1, <3>2
  <2> QED
    BY <2>1, <2>2 DEF RecordsOK
<1>6. nextTabID \in TabsOf(nt, c)
  BY <1>2 DEF TabsOf
<1> QED
  BY <1>1, <1>4, <1>5, <1>6 DEF Consistent

\* Taking the tabs of position i, then the position itself, out of a consistent
\* state and renumbering the rest leaves a consistent state (closeConnection).
LEMMA DroppedConsistent ==
  ASSUME NEW cs, NEW ts, NEW lt, NEW n, NEW i \in DOMAIN cs,
         Consistent(cs, ts, lt, n), i # 1
  PROVE  Consistent(RemoveAt(cs, i), WithoutConn(ts, i), lt, n)
<1> DEFINE rs == RemoveAt(cs, i)
           nt == WithoutConn(ts, i)
<1>1. /\ cs \in Seq(Conn) /\ Len(cs) \in Nat /\ DOMAIN cs = 1 .. Len(cs)
      /\ i \in 2 .. Len(cs)
  BY LenProperties DEF Consistent, RailOK
<1>2. /\ rs \in Seq(Conn) /\ Len(rs) = Len(cs) - 1
      /\ \A j \in 1 .. Len(cs) - 1 : rs[j] = IF j < i THEN cs[j] ELSE cs[j + 1]
  BY <1>1, RemoveAtProperties
<1>3. DOMAIN rs = 1 .. Len(cs) - 1
  BY <1>2, LenProperties
<1> HIDE DEF rs
<1>4. RailOK(rs)
  <2>1. 1 \in DOMAIN rs /\ rs[1] = Mem
    BY <1>1, <1>2, <1>3 DEF Consistent, RailOK
  <2>2. ASSUME NEW j \in DOMAIN rs, NEW k \in DOMAIN rs, rs[j] = rs[k]
        PROVE  j = k
    <3> DEFINE old(x) == IF x < i THEN x ELSE x + 1
    <3>1. old(j) \in DOMAIN cs /\ old(k) \in DOMAIN cs
      BY <1>1, <1>3
    <3>2. cs[old(j)] = cs[old(k)]
      BY <1>2, <1>3, <2>2
    <3>3. old(j) = old(k)
      BY <3>1, <3>2 DEF Consistent, RailOK
    <3> QED
      BY <3>3, <1>1, <1>3
  <2> QED
    BY <2>1, <2>2, <1>2 DEF RailOK
<1>5. /\ DOMAIN nt = DOMAIN ts \ TabsOf(ts, i)
      /\ \A t \in DOMAIN nt :
           /\ t \in DOMAIN ts /\ ts[t].conn \in DOMAIN cs /\ ts[t].conn # i
           /\ nt[t].conn = Shifted(ts[t].conn, i)
           /\ nt[t].file = ts[t].file
           /\ nt[t] \in [conn : {Shifted(ts[t].conn, i)}, file : BOOLEAN]
  BY DEF WithoutConn, TabsOf, Consistent, TabsOK
<1>6. \A c \in DOMAIN cs : c # i =>
        /\ Shifted(c, i) \in DOMAIN rs
        /\ Shifted(c, i) \in Nat \ {0}
        /\ rs[Shifted(c, i)] = cs[c]
        /\ c = 1 => Shifted(c, i) = 1
  BY <1>1, <1>2, <1>3 DEF Shifted
<1>7. TabsOK(rs, nt, n)
  <2>1. DOMAIN nt \subseteq 0 .. n - 1
    BY <1>5 DEF Consistent, TabsOK
  <2>2. \A t \in DOMAIN nt : nt[t] \in [conn : Nat \ {0}, file : BOOLEAN]
    BY <1>5, <1>6
  <2>3. nt \in [DOMAIN nt -> [conn : Nat \ {0}, file : BOOLEAN]]
    BY <2>2 DEF WithoutConn
  <2>4. \A t \in DOMAIN nt : /\ nt[t].conn \in DOMAIN rs
                             /\ nt[t].file => nt[t].conn = 1
    BY <1>5, <1>6 DEF Consistent, TabsOK
  <2> QED
    BY <2>1, <2>3, <2>4 DEF TabsOK
<1>8. RecordsOK(rs, nt, lt, n)
  <2>1. ASSUME NEW j \in DOMAIN rs, lt[rs[j]] # 0
        PROVE  lt[rs[j]] \in TabsOf(nt, j)
    <3> DEFINE k == IF j < i THEN j ELSE j + 1
    <3>1. k \in DOMAIN cs /\ k # i /\ Shifted(k, i) = j /\ rs[j] = cs[k]
      BY <1>1, <1>2, <1>3 DEF Shifted
    <3> HIDE DEF k
    <3>2. lt[cs[k]] \in TabsOf(ts, k)
      BY <3>1, <2>1 DEF Consistent, RecordsOK
    <3>3. lt[cs[k]] \in DOMAIN nt
      BY <3>1, <3>2, <1>5 DEF TabsOf
    <3>4. nt[lt[cs[k]]].conn = j
      BY <3>1, <3>2, <3>3, <1>5 DEF TabsOf
    <3> QED
      BY <3>1, <3>3, <3>4 DEF TabsOf
  <2> QED
    BY <2>1 DEF Consistent, RecordsOK
<1> QED
  BY <1>4, <1>7, <1>8 DEF Consistent, rs

-----------------------------------------------------------------------------
(* One lemma per event *)

\* The window starts consistent.
LEMMA WindowInvInit == Init => WindowInv
<1> SUFFICES ASSUME Init PROVE WindowInv
  OBVIOUS
<1>1. PICK first \in {0, 1} :
        /\ tabs = [t \in {first} |-> [conn |-> memConnIdx, file |-> FALSE]]
        /\ lastTab = [c \in Conn |-> IF c = Mem THEN first ELSE None]
        /\ nextTabID = first + 1
  BY DEF Init
<1>2. conns = <<Mem>> /\ activeConn = 1
  BY DEF Init, memConnIdx
<1>3. RailOK(conns)
  BY <1>2, WindowAssumption DEF RailOK
<1>4. TabsOK(conns, tabs, nextTabID)
  BY <1>1, <1>2 DEF TabsOK, memConnIdx
<1>5. RecordsOK(conns, tabs, lastTab, nextTabID)
  BY <1>1, <1>2, WindowAssumption DEF RecordsOK, TabsOf, memConnIdx, None
<1>6. nextTabID \in 1 .. MaxTabID
  BY <1>1, WindowAssumption
<1>7. ActiveConnHasTab
  BY <1>1, <1>2 DEF ActiveConnHasTab, TabsOf, memConnIdx
<1> QED
  BY <1>2, <1>3, <1>4, <1>5, <1>6, <1>7 DEF WindowInv, Consistent

\* Ids taken elsewhere (opens in flight, other windows) leave a gap, no more.
LEMMA ConsumeTabIDKeeps ==
  ASSUME WindowInv, ConsumeTabID PROVE WindowInv'
<1>1. nextTabID' = nextTabID + 1 /\ nextTabID' \in 1 .. MaxTabID
      /\ nextTabID \in 1 .. MaxTabID
  BY WindowAssumption DEF ConsumeTabID, FreshTab, WindowInv, Consistent
<1>2. TabsOK(conns, tabs, nextTabID')
  BY <1>1 DEF WindowInv, Consistent, TabsOK
<1>3. RecordsOK(conns, tabs, lastTab, nextTabID')
  BY <1>1 DEF WindowInv, Consistent, RecordsOK
<1> QED
  BY <1>1, <1>2, <1>3
  DEF WindowInv, Consistent, ConsumeTabID, ActiveConnHasTab

\* Any event that opens a tab on the position it makes active.
LEMMA OpenedTabKeeps ==
  ASSUME NEW cs, NEW ts, NEW lt, NEW c \in DOMAIN cs, NEW f \in BOOLEAN,
         Consistent(cs, ts, lt, nextTabID), FreshTab, f => c = 1,
         conns' = cs, activeConn' = c, tabs' = WithNewTab(ts, c, f),
         lastTab' = [lt EXCEPT ![cs[c]] = nextTabID]
  PROVE  WindowInv'
<1>1. /\ Consistent(conns', tabs', lastTab', nextTabID')
      /\ nextTabID \in TabsOf(tabs', c)
  BY NewTabConsistent
<1> QED
  BY <1>1 DEF WindowInv, ActiveConnHasTab

\* addNewTab opens its tab on the active connection.
LEMMA AddNewTabKeeps ==
  ASSUME WindowInv, AddNewTab PROVE WindowInv'
BY OpenedTabKeeps DEF AddNewTab, WindowInv

\* selectTab records a tab only with the connection that owns it.
LEMMA SelectTabKeeps ==
  ASSUME WindowInv, NEW u, SelectTab(u) PROVE WindowInv'
<1>1. CASE u \in DOMAIN tabs /\ u # ActiveTab
  <2> DEFINE c == tabs[u].conn
  <2>1. /\ c \in DOMAIN conns /\ conns[c] \in Conn /\ u \in 0 .. nextTabID - 1
        /\ u \in TabsOf(tabs, c)
        /\ lastTab' = [lastTab EXCEPT ![conns[c]] = u]
    BY <1>1, LenProperties, ElementOfSeq
    DEF SelectTab, WindowInv, Consistent, TabsOK, RailOK, TabsOf
  <2>2. RecordsOK(conns, tabs, lastTab', nextTabID)
    <3>1. lastTab' \in [Conn -> 0 .. nextTabID - 1]
      BY <2>1 DEF WindowInv, Consistent, RecordsOK
    <3>2. ASSUME NEW i \in DOMAIN conns, lastTab'[conns[i]] # 0
          PROVE  lastTab'[conns[i]] \in TabsOf(tabs, i)
      <4>1. CASE i = c
        BY <4>1, <2>1 DEF WindowInv, Consistent, RecordsOK
      <4>2. CASE i # c
        <5>1. conns[i] # conns[c]
          BY <4>2, <2>1 DEF WindowInv, Consistent, RailOK
        <5> QED
          BY <5>1, <2>1, <3>2 DEF WindowInv, Consistent, RecordsOK
      <4> QED
        BY <4>1, <4>2
    <3> QED
      BY <3>1, <3>2 DEF RecordsOK
  <2> QED
    BY <2>2 DEF SelectTab, WindowInv, Consistent, ActiveConnHasTab
<1>2. CASE ~(u \in DOMAIN tabs /\ u # ActiveTab)
  BY <1>2 DEF SelectTab, WindowInv, Consistent, ActiveConnHasTab
<1> QED
  BY <1>1, <1>2

\* The tab that takes over is a sibling of the closed one, if it has any.
LEMMA NeighborIsSibling ==
  ASSUME WindowInv, NEW u \in DOMAIN tabs
  PROVE  LET siblings == TabsOf(tabs, tabs[u].conn) \ {u}
         IN  IF siblings = {} THEN Neighbor(u) = None ELSE Neighbor(u) \in siblings
<1> DEFINE siblings == TabsOf(tabs, tabs[u].conn) \ {u}
           after    == {s \in siblings : s > u}
           before   == {s \in siblings : s < u}
<1>1. /\ siblings \subseteq 0 .. nextTabID - 1 /\ u \in 0 .. nextTabID - 1
      /\ nextTabID \in Nat
  BY DEF WindowInv, Consistent, TabsOK, TabsOf
<1>2. siblings = after \cup before
  BY <1>1
<1>3. after # {} => Min(after) \in after
  BY <1>1, MinOfNats
<1>4. before # {} => Max(before) \in before
  <2>1. before \subseteq 0 .. nextTabID
    BY <1>1
  <2> QED
    BY <1>1, <2>1, MaxOfNats
<1>5. Neighbor(u) = IF after # {} THEN Min(after)
                    ELSE IF before # {} THEN Max(before) ELSE None
  BY DEF Neighbor
<1> HIDE DEF after, before, siblings
<1>6. IF siblings = {} THEN Neighbor(u) = None ELSE Neighbor(u) \in siblings
  BY <1>2, <1>3, <1>4, <1>5
<1> QED
  BY <1>6 DEF siblings

\* closeTabByID hands a closed tab's record to a sibling, and the active role to
\* a connection that still has tabs.
LEMMA CloseTabKeeps ==
  ASSUME WindowInv, NEW u \in DOMAIN tabs, CloseTab(u) PROVE WindowInv'
<1> DEFINE rest == [s \in DOMAIN tabs \ {u} |-> tabs[s]]
           c == tabs[u].conn
<1>0. /\ DOMAIN rest = DOMAIN tabs \ {u}
      /\ \A s \in DOMAIN rest : rest[s] = tabs[s]
      /\ tabs' = rest
      /\ lastTab' = IF lastTab[conns[c]] = u
                      THEN [lastTab EXCEPT ![conns[c]] = Neighbor(u)]
                      ELSE lastTab
      /\ activeConn' = ActiveAfter(rest)
      /\ UNCHANGED <<conns, nextTabID>>
  BY DEF CloseTab
<1>1. /\ c \in DOMAIN conns /\ conns[c] \in Conn
      /\ u \in 0 .. nextTabID - 1 /\ nextTabID \in Nat \ {0}
      /\ u \in TabsOf(tabs, c)
  BY LenProperties, ElementOfSeq DEF WindowInv, Consistent, TabsOK, RailOK, TabsOf
<1>2. \A i : TabsOf(rest, i) = TabsOf(tabs, i) \ {u}
  BY <1>0 DEF TabsOf
<1>3. TabsOK(conns, rest, nextTabID)
  <2>1. rest \in [DOMAIN rest -> [conn : Nat \ {0}, file : BOOLEAN]]
    BY <1>0 DEF WindowInv, Consistent, TabsOK
  <2> QED
    BY <2>1, <1>0 DEF WindowInv, Consistent, TabsOK
<1>4. Neighbor(u) = 0 \/ Neighbor(u) \in TabsOf(rest, c)
  BY <1>2, NeighborIsSibling DEF None
<1>5. Neighbor(u) \in 0 .. nextTabID - 1
  BY <1>1, <1>3, <1>4 DEF TabsOf, TabsOK
<1> HIDE DEF rest
<1>6. RecordsOK(conns, rest, lastTab', nextTabID)
  <2>1. lastTab' \in [Conn -> 0 .. nextTabID - 1]
    BY <1>0, <1>1, <1>5 DEF WindowInv, Consistent, RecordsOK
  <2>2. ASSUME NEW i \in DOMAIN conns, lastTab'[conns[i]] # 0
        PROVE  lastTab'[conns[i]] \in TabsOf(rest, i)
    <3>1. CASE i = c /\ lastTab[conns[c]] = u
      <4>1. lastTab'[conns[i]] = Neighbor(u)
        BY <3>1, <1>0, <1>1 DEF WindowInv, Consistent, RecordsOK
      <4> QED
        BY <4>1, <3>1, <2>2, <1>4
    <3>2. CASE i = c /\ lastTab[conns[c]] # u
      <4>1. lastTab'[conns[i]] = lastTab[conns[i]]
        BY <3>2, <1>0
      <4> QED
        BY <4>1, <3>2, <2>2, <1>2 DEF WindowInv, Consistent, RecordsOK
    <3>3. CASE i # c
      <4>1. conns[i] # conns[c]
        BY <3>3, <1>1 DEF WindowInv, Consistent, RailOK
      <4>2. lastTab'[conns[i]] = lastTab[conns[i]]
        BY <4>1, <1>0, <1>1 DEF WindowInv, Consistent, RecordsOK
      <4>3. lastTab[conns[i]] \in TabsOf(tabs, i)
        BY <4>2, <2>2 DEF WindowInv, Consistent, RecordsOK
      <4>4. lastTab[conns[i]] # u
        BY <4>3, <3>3 DEF TabsOf
      <4> QED
        BY <4>2, <4>3, <4>4, <1>2
    <3> QED
      BY <3>1, <3>2, <3>3
  <2> QED
    BY <2>1, <2>2 DEF RecordsOK
<1>7. ActiveAfter(rest) \in DOMAIN conns
      /\ (DOMAIN rest # {} => TabsOf(rest, ActiveAfter(rest)) # {})
  <2>1. CASE DOMAIN rest # {} /\ TabsOf(rest, activeConn) = {}
    <3>1. DOMAIN rest \subseteq Nat
      BY <1>1, <1>3 DEF TabsOK
    <3>2. Min(DOMAIN rest) \in DOMAIN rest
      BY <2>1, <3>1, MinOfNats
    <3>3. ActiveAfter(rest) = rest[Min(DOMAIN rest)].conn
      BY <2>1 DEF ActiveAfter
    <3> QED
      BY <3>2, <3>3, <1>3 DEF TabsOK, TabsOf
  <2>2. CASE ~(DOMAIN rest # {} /\ TabsOf(rest, activeConn) = {})
    BY <2>2 DEF ActiveAfter, WindowInv
  <2> QED
    BY <2>1, <2>2
<1> QED
  BY <1>0, <1>3, <1>6, <1>7 DEF WindowInv, Consistent, ActiveConnHasTab

\* selectConnection never activates a connection without giving it a tab.
LEMMA SelectConnectionKeeps ==
  ASSUME WindowInv, NEW i, SelectConnection(i) PROVE WindowInv'
<1>1. CASE TabsOf(tabs, i) = {}
  BY <1>1, OpenedTabKeeps DEF SelectConnection, WindowInv
<1>2. CASE TabsOf(tabs, i) # {}
  BY <1>2 DEF SelectConnection, WindowInv, Consistent, ActiveConnHasTab
<1> QED
  BY <1>1, <1>2

\* A data file goes to a tab of the memory connection (onFileSelectedWithCmd).
LEMMA OpenFileKeeps ==
  ASSUME WindowInv, OpenFile PROVE WindowInv'
<1> DEFINE front == TabShown(tabs, 1, lastTab[conns[1]])
           reuse == front \in {t \in DOMAIN tabs : ~tabs[t].file}
<1>1. 1 \in DOMAIN conns /\ conns[1] = Mem /\ activeConn' = 1 /\ conns' = conns
  BY DEF WindowInv, Consistent, RailOK, OpenFile, FileHome, memConnIdx
<1>2. CASE reuse
  <2>1. front \in DOMAIN tabs /\ front # NoTab
    BY <1>2 DEF WindowInv, Consistent, TabsOK, NoTab
  <2>2. /\ tabs' = [tabs EXCEPT ![front].file = TRUE]
        /\ UNCHANGED <<lastTab, nextTabID>>
    BY <1>2 DEF OpenFile, FileHome, memConnIdx
  <2>3. front \in TabsOf(tabs, 1)
    <3> DEFINE vis == TabsOf(tabs, 1)
    <3>1. vis \subseteq Nat
      BY DEF TabsOf, WindowInv, Consistent, TabsOK
    <3>2. vis # {} => Min(vis) \in vis
      BY <3>1, MinOfNats
    <3> QED
      BY <3>2, <2>1 DEF TabShown
  <2>4. /\ DOMAIN tabs' = DOMAIN tabs
        /\ \A t \in DOMAIN tabs :
             /\ tabs'[t].conn = tabs[t].conn
             /\ tabs'[t].file => tabs[t].file \/ t = front
             /\ tabs'[t] \in [conn : Nat \ {0}, file : BOOLEAN]
    BY <2>1, <2>2 DEF WindowInv, Consistent, TabsOK
  <2>5. TabsOK(conns, tabs', nextTabID)
    <3>1. tabs' \in [DOMAIN tabs' -> [conn : Nat \ {0}, file : BOOLEAN]]
      BY <2>2, <2>4
    <3>2. tabs[front].conn = 1
      BY <2>3 DEF TabsOf
    <3> QED
      BY <3>1, <3>2, <2>4 DEF WindowInv, Consistent, TabsOK
  <2>6. \A j : TabsOf(tabs', j) = TabsOf(tabs, j)
    BY <2>4 DEF TabsOf
  <2>7. RecordsOK(conns, tabs', lastTab, nextTabID)
    BY <2>6 DEF WindowInv, Consistent, RecordsOK
  <2> QED
    BY <1>1, <2>2, <2>3, <2>5, <2>6, <2>7
    DEF WindowInv, Consistent, ActiveConnHasTab
<1>3. CASE ~reuse
  <2>1. /\ FreshTab
        /\ tabs' = WithNewTab(tabs, 1, TRUE)
        /\ lastTab' = [lastTab EXCEPT ![conns[1]] = nextTabID]
    BY <1>3 DEF OpenFile, FileHome, memConnIdx
  <2> QED
    BY <1>1, <2>1, OpenedTabKeeps DEF WindowInv
<1> QED
  BY <1>2, <1>3

\* handleOpenDBResult and handleOpenGatewayResult append to the rail.
LEMMA OpenConnectionKeeps ==
  ASSUME WindowInv, NEW k \in Conn, OpenConnection(k) PROVE WindowInv'
<1> DEFINE cs == Append(conns, k)
           c  == Len(conns) + 1
<1>1. /\ conns \in Seq(Conn) /\ DOMAIN conns = 1 .. Len(conns)
      /\ Len(conns) \in Nat /\ 1 \in DOMAIN conns
  BY LenProperties DEF WindowInv, Consistent, RailOK
<1>2. /\ cs \in Seq(Conn) /\ Len(cs) = c
      /\ \A i \in 1 .. Len(conns) : cs[i] = conns[i]
      /\ cs[c] = k
  BY <1>1, AppendProperties
<1>3. DOMAIN cs = 1 .. c
  BY <1>2, LenProperties
<1>4. \A i \in DOMAIN conns : conns[i] # k
  BY DEF OpenConnection
<1> HIDE DEF cs
<1>5. RailOK(cs)
  <2>1. \A i, j \in DOMAIN cs : cs[i] = cs[j] => i = j
    BY <1>1, <1>2, <1>3, <1>4 DEF WindowInv, Consistent, RailOK
  <2> QED
    BY <2>1, <1>1, <1>2, <1>3 DEF WindowInv, Consistent, RailOK
<1>6. DOMAIN conns \subseteq DOMAIN cs
  BY <1>1, <1>3
<1>7. TabsOK(cs, tabs, nextTabID)
  BY <1>6 DEF WindowInv, Consistent, TabsOK
<1> DEFINE lt == [lastTab EXCEPT ![k] = 0]
<1>8. RecordsOK(cs, tabs, lt, nextTabID)
  <2>1. lt \in [Conn -> 0 .. nextTabID - 1]
    BY DEF WindowInv, Consistent, RecordsOK
  <2>2. ASSUME NEW i \in DOMAIN cs, lt[cs[i]] # 0
        PROVE  lt[cs[i]] \in TabsOf(tabs, i)
    <3>1. cs[i] # k
      BY <2>2 DEF WindowInv, Consistent, RecordsOK
    <3>2. i \in DOMAIN conns /\ cs[i] = conns[i]
      BY <3>1, <1>1, <1>2, <1>3
    <3>3. lt[cs[i]] = lastTab[conns[i]]
      BY <3>1, <3>2 DEF WindowInv, Consistent, RecordsOK
    <3> QED
      BY <3>2, <3>3, <2>2 DEF WindowInv, Consistent, RecordsOK
  <2> QED
    BY <2>1, <2>2 DEF RecordsOK
<1>9. Consistent(cs, tabs, lt, nextTabID)
  BY <1>5, <1>7, <1>8 DEF WindowInv, Consistent
<1>10. [lt EXCEPT ![cs[c]] = nextTabID] = [lastTab EXCEPT ![k] = nextTabID]
  BY <1>2 DEF WindowInv, Consistent, RecordsOK
<1>11. /\ FreshTab /\ conns' = cs /\ activeConn' = c
       /\ tabs' = WithNewTab(tabs, c, FALSE)
       /\ lastTab' = [lt EXCEPT ![cs[c]] = nextTabID]
  BY <1>10 DEF OpenConnection, cs
<1>12. c \in DOMAIN cs
  BY <1>1, <1>3
<1> HIDE DEF c, lt
<1> QED
  BY <1>9, <1>11, <1>12, OpenedTabKeeps

\* closeConnection renumbers the tabs and the active index together.
LEMMA CloseConnectionKeeps ==
  ASSUME WindowInv, NEW i, CloseConnection(i) PROVE WindowInv'
<1> DEFINE kept == WithoutConn(tabs, i)
           next == IF activeConn = i THEN memConnIdx ELSE Shifted(activeConn, i)
           cs   == RemoveAt(conns, i)
<1>1. i \in DOMAIN conns /\ i # 1
  BY DEF CloseConnection, memConnIdx
<1>2. Consistent(cs, kept, lastTab, nextTabID)
  BY <1>1, DroppedConsistent DEF WindowInv
<1>3. next \in DOMAIN cs
  <2>1. /\ conns \in Seq(Conn) /\ DOMAIN conns = 1 .. Len(conns)
        /\ Len(conns) \in Nat
    BY LenProperties DEF WindowInv, Consistent, RailOK
  <2>2. cs \in Seq(Conn) /\ Len(cs) = Len(conns) - 1
    BY <1>1, <2>1, RemoveAtProperties
  <2>3. DOMAIN cs = 1 .. Len(conns) - 1
    BY <2>2, LenProperties
  <2> QED
    BY <1>1, <2>1, <2>3 DEF WindowInv, Shifted, memConnIdx
<1>4. conns' = cs /\ activeConn' = next
  BY DEF CloseConnection
<1>5. IF TabsOf(kept, next) = {}
        THEN /\ FreshTab
             /\ tabs' = WithNewTab(kept, next, FALSE)
             /\ lastTab' = [lastTab EXCEPT ![cs[next]] = nextTabID]
        ELSE /\ tabs' = kept
             /\ UNCHANGED <<lastTab, nextTabID>>
  BY DEF CloseConnection
<1> HIDE DEF kept, next, cs
<1>6. CASE TabsOf(kept, next) = {}
  BY <1>2, <1>3, <1>4, <1>5, <1>6, OpenedTabKeeps
<1>7. CASE TabsOf(kept, next) # {}
  BY <1>2, <1>3, <1>4, <1>5, <1>7 DEF WindowInv, ActiveConnHasTab
<1> QED
  BY <1>6, <1>7

\* Every step preserves the invariant.
LEMMA WindowInvStep == WindowInv /\ [Next]_vars => WindowInv'
<1> SUFFICES ASSUME WindowInv, [Next]_vars PROVE WindowInv'
  OBVIOUS
<1>1. CASE ConsumeTabID
  BY <1>1, ConsumeTabIDKeeps
<1>2. CASE AddNewTab
  BY <1>2, AddNewTabKeeps
<1>3. ASSUME NEW u \in 0 .. MaxTabID, SelectTab(u) PROVE WindowInv'
  BY <1>3, SelectTabKeeps
<1>4. ASSUME NEW u \in DOMAIN tabs, CloseTab(u) PROVE WindowInv'
  BY <1>4, CloseTabKeeps
<1>5. ASSUME NEW i \in DOMAIN conns, SelectConnection(i) PROVE WindowInv'
  BY <1>5, SelectConnectionKeeps
<1>6. ASSUME NEW i \in DOMAIN conns, CloseConnection(i) PROVE WindowInv'
  BY <1>6, CloseConnectionKeeps
<1>7. CASE OpenFile
  BY <1>7, OpenFileKeeps
<1>8. ASSUME NEW k \in Conn, OpenConnection(k) PROVE WindowInv'
  BY <1>8, OpenConnectionKeeps
<1>9. CASE UNCHANGED vars
  BY <1>9 DEF vars, WindowInv, ActiveConnHasTab
<1> QED
  BY <1>1, <1>2, <1>3, <1>4, <1>5, <1>6, <1>7, <1>8, <1>9 DEF Next

\* No step moves a surviving tab to another connection.
LEMMA NextKeepsConnection ==
  ASSUME WindowInv, Next
  PROVE  \A t \in DOMAIN tabs \cap DOMAIN tabs' :
           conns'[tabs'[t].conn] = conns[tabs[t].conn]
<1> SUFFICES ASSUME NEW t \in DOMAIN tabs, t \in DOMAIN tabs'
             PROVE  conns'[tabs'[t].conn] = conns[tabs[t].conn]
  OBVIOUS
<1> DEFINE p == tabs[t].conn
<1>0. /\ t # nextTabID /\ p \in DOMAIN conns
      /\ conns \in Seq(Conn) /\ Len(conns) \in Nat
      /\ DOMAIN conns = 1 .. Len(conns)
  BY LenProperties DEF WindowInv, Consistent, RailOK, TabsOK
<1>1. \A ts, c, f : t \in DOMAIN ts => WithNewTab(ts, c, f)[t] = ts[t]
  BY <1>0 DEF WithNewTab
<1>2. CASE ConsumeTabID
  BY <1>2 DEF ConsumeTabID
<1>3. CASE AddNewTab
  BY <1>1, <1>3 DEF AddNewTab
<1>4. CASE \E u \in 0 .. MaxTabID : SelectTab(u)
  BY <1>4 DEF SelectTab
<1>5. CASE \E u \in DOMAIN tabs : CloseTab(u)
  BY <1>5 DEF CloseTab
<1>6. ASSUME NEW i \in DOMAIN conns, SelectConnection(i)
      PROVE  conns'[tabs'[t].conn] = conns[p]
  <2>1. \/ tabs' = WithNewTab(tabs, i, FALSE)
        \/ tabs' = tabs
    BY <1>6 DEF SelectConnection
  <2>2. tabs'[t] = tabs[t]
    BY <1>1, <2>1
  <2> QED
    BY <1>6, <2>2 DEF SelectConnection
<1>7. ASSUME NEW i \in DOMAIN conns, CloseConnection(i)
      PROVE  conns'[tabs'[t].conn] = conns[p]
  <2> DEFINE kept == WithoutConn(tabs, i)
  <2>1. i # 1 /\ i \in 1 .. Len(conns)
    BY <1>0, <1>7 DEF CloseConnection, memConnIdx
  <2>2. /\ DOMAIN kept = DOMAIN tabs \ TabsOf(tabs, i)
        /\ \A u \in DOMAIN kept : kept[u].conn = Shifted(tabs[u].conn, i)
    BY DEF WithoutConn, WindowInv, Consistent, TabsOK
  <2> HIDE DEF kept
  <2>3. \/ tabs' = kept
        \/ \E c : tabs' = WithNewTab(kept, c, FALSE)
    BY <1>7 DEF CloseConnection, kept
  <2>4. t \in DOMAIN kept
    BY <1>0, <2>3 DEF WithNewTab
  <2>5. tabs'[t] = kept[t]
    BY <1>1, <2>3, <2>4
  <2>6. p # i /\ tabs'[t].conn = Shifted(p, i)
    BY <2>2, <2>4, <2>5 DEF TabsOf
  <2>7. conns' = RemoveAt(conns, i)
    BY <1>7 DEF CloseConnection
  <2>8. \A j \in 1 .. Len(conns) - 1 :
          conns'[j] = IF j < i THEN conns[j] ELSE conns[j + 1]
    BY <1>0, <2>1, <2>7, RemoveAtProperties
  <2>9. CASE p > i
    <3>1. Shifted(p, i) = p - 1 /\ p - 1 \in 1 .. Len(conns) - 1
      BY <1>0, <2>1, <2>9 DEF Shifted
    <3>2. conns'[p - 1] = conns[(p - 1) + 1] /\ (p - 1) + 1 = p
      BY <1>0, <2>1, <2>8, <2>9, <3>1
    <3> QED
      BY <2>6, <3>1, <3>2
  <2>10. CASE p < i
    <3>1. Shifted(p, i) = p /\ p \in 1 .. Len(conns) - 1
      BY <1>0, <2>1, <2>10 DEF Shifted
    <3>2. conns'[p] = conns[p]
      BY <2>8, <2>10, <3>1
    <3> QED
      BY <2>6, <3>1, <3>2
  <2> QED
    BY <1>0, <2>1, <2>6, <2>9, <2>10
<1>8. CASE OpenFile
  <2>1. \/ \E s : tabs' = [tabs EXCEPT ![s].file = TRUE]
        \/ \E c : tabs' = WithNewTab(tabs, c, TRUE)
    BY <1>8 DEF OpenFile
  <2>2. \A s : [tabs EXCEPT ![s].file = TRUE][t].conn = p
    BY DEF WindowInv, Consistent, TabsOK
  <2>3. \A c : WithNewTab(tabs, c, TRUE)[t].conn = p
    BY <1>1
  <2>4. tabs'[t].conn = p
    BY <2>1, <2>2, <2>3
  <2> QED
    BY <1>8, <2>4 DEF OpenFile
<1>9. ASSUME NEW k \in Conn, OpenConnection(k)
      PROVE  conns'[tabs'[t].conn] = conns[p]
  <2>1. tabs'[t] = tabs[t]
    BY <1>1, <1>9 DEF OpenConnection
  <2>2. Append(conns, k)[p] = conns[p]
    BY <1>0, AppendProperties
  <2> QED
    BY <1>9, <2>1, <2>2 DEF OpenConnection
<1> QED
  BY <1>2, <1>3, <1>4, <1>5, <1>6, <1>7, <1>8, <1>9 DEF Next

-----------------------------------------------------------------------------
(* Theorems *)

\* WindowInv holds throughout every behaviour of the window.
LEMMA WindowInvariant == Spec => []WindowInv
  BY WindowInvInit, WindowInvStep, PTL DEF Spec

\* The types of the window's state, for every set of connections.
THEOREM WindowTypes == Spec => []TypeOK
  BY WindowInvariant, WindowInvImplies, PTL

\* No close, however it renumbers the rail, leaves an index out of range or
\* moves the memory connection (appwindow.go:2228-2237).
THEOREM IndicesStayValid == Spec => []IndicesValid
  BY WindowInvariant, WindowInvImplies, PTL

\* "The active connection always has a visible tab as long as ANY tab exists"
\* (appwindow.go:936-938).
THEOREM ActiveConnectionHasTab == Spec => []ActiveConnHasTab
  BY WindowInvariant, WindowInvImplies, PTL

\* The recorded tab of a connection is never another connection's.
THEOREM RecordedTabs == Spec => []RecordedTabIsOwn
  BY WindowInvariant, WindowInvImplies, PTL

\* Data files stay with the memory connection (appwindow.go:1285-1291).
THEOREM FilesStayInMemory == Spec => []FilesOnlyInMemory
  BY WindowInvariant, WindowInvImplies, PTL

\* A tab never changes connection: its schema, its history scope and the worker
\* its queries go to stay those it was opened on.
THEOREM TabsNeverMove == Spec => TabsKeepConnection
<1>1. WindowInv /\ [Next]_vars =>
        [\A t \in DOMAIN tabs \cap DOMAIN tabs' :
           conns'[tabs'[t].conn] = conns[tabs[t].conn]]_vars
  BY NextKeepsConnection
<1> QED
  BY <1>1, WindowInvariant, PTL DEF Spec, TabsKeepConnection

-----------------------------------------------------------------------------
(* The queries of a tab *)

-----------------------------------------------------------------------------
(* The inductive invariant *)

\* A run has one request, and the newest one asks for the tab's query.
Requests ==
  /\ \A r \in inFlight : r.gen <= generation[r.tab]
  /\ \A r \in inFlight : r.gen = generation[r.tab] => r.query = userSQL[r.tab]
  /\ \A r, q \in inFlight : r.tab = q.tab /\ r.gen = q.gen => r = q

\* What is shown was asked before.
ShownWasAsked == \A t \in Tab : shown[t].gen <= generation[t]

\* The newest request of a Back or Forward asks for the entry they moved to,
\* unless the user ran something while they were under way.
TrailAwaited ==
  \A r \in inFlight :
    r.nav /\ r.gen = generation[r.tab] /\ r.tab \notin overlapped
      => navStack[r.tab][navPos[r.tab]] = r.query

QueryInv ==
  /\ QueryTypeOK
  /\ Requests
  /\ ShownWasAsked
  /\ ShownIsAsked
  /\ TrailAwaited
  /\ TrailMatchesScreen

-----------------------------------------------------------------------------
(* The trail *)

\* NavPush keeps a capped trail of SELECTs, the new entry last and current.
LEMMA NavPushKeepsTrail ==
  ASSUME QueryTypeOK, NEW t \in Tab, NEW q \in Query
  PROVE  /\ NavPushed(t, q) \in Seq(Select)
         /\ Len(NavPushed(t, q)) <= NavCap
         /\ PosAfter(t, q) \in 0 .. NavCap
         /\ PosAfter(t, q) \in (IF NavPushed(t, q) = <<>> THEN {0}
                               ELSE DOMAIN NavPushed(t, q))
         /\ q \in Select => NavPushed(t, q)[PosAfter(t, q)] = q
<1> DEFINE s == navStack[t]
           p == navPos[t]
           trail == Append(SubSeq(s, 1, p), q)
<1>1. /\ s \in Seq(Select) /\ Len(s) <= NavCap /\ Len(s) \in Nat
      /\ p \in (IF s = <<>> THEN {0} ELSE DOMAIN s) /\ p \in 0 .. NavCap
  BY LenProperties DEF QueryTypeOK
<1>2. CASE q \notin Select
  BY <1>1, <1>2 DEF NavPushed, PosAfter
<1>3. CASE q \in Select
  <2>1. p \in 0 .. Len(s)
    BY <1>1, LenProperties
  <2>2. SubSeq(s, 1, p) \in Seq(Select) /\ Len(SubSeq(s, 1, p)) = p
    <3>1. \A i \in 1 .. p : s[i] \in Select
      BY <1>1, <2>1, ElementOfSeq
    <3> QED
      BY <2>1, <3>1, SubSeqProperties
  <2>3. /\ trail \in Seq(Select) /\ Len(trail) = p + 1 /\ trail[p + 1] = q
    BY <1>3, <2>1, <2>2, AppendProperties
  <2> HIDE DEF trail
  <2>4. NavPushed(t, q) = IF Len(trail) > NavCap THEN Tail(trail) ELSE trail
    BY <1>3 DEF NavPushed, trail
  <2>5. PosAfter(t, q) = Len(NavPushed(t, q))
    BY <1>3 DEF PosAfter
  <2>6. CASE Len(trail) > NavCap
    <3>1. p = NavCap /\ p \in Nat \ {0}
      BY <1>1, <2>1, <2>3, <2>6, TabQueryAssumption
    <3>2. /\ Tail(trail) \in Seq(Select) /\ Len(Tail(trail)) = p
          /\ Tail(trail)[p] = trail[p + 1]
      BY <2>3, <3>1, HeadTailProperties, EmptySeq
    <3>3. NavPushed(t, q) = Tail(trail)
      BY <2>4, <2>6
    <3>4. Tail(trail) # <<>> /\ p \in DOMAIN Tail(trail)
      BY <3>1, <3>2, LenProperties, EmptySeq
    <3> QED
      BY <2>3, <2>5, <3>1, <3>2, <3>3, <3>4
  <2>7. CASE ~(Len(trail) > NavCap)
    <3>1. trail # <<>> /\ p + 1 \in DOMAIN trail
      BY <2>1, <2>3, LenProperties, EmptySeq
    <3>2. NavPushed(t, q) = trail
      BY <2>4, <2>7
    <3> QED
      BY <2>1, <2>3, <2>5, <2>7, <3>1, <3>2, TabQueryAssumption
  <2> QED
    BY <2>6, <2>7
<1> QED
  BY <1>2, <1>3

-----------------------------------------------------------------------------
(* Steps *)

\* No run, an empty trail and an empty grid at first.
LEMMA QueryInvInit == QueryInit => QueryInv
<1> SUFFICES ASSUME QueryInit PROVE QueryInv
  OBVIOUS
<1>1. QueryTypeOK
  <2>1. /\ navStack \in [Tab -> Seq(Select)]
        /\ \A t \in Tab : navStack[t] = <<>> /\ Len(navStack[t]) = 0
    BY EmptySeq DEF QueryInit
  <2>2. NavCap \in Nat \ {0} /\ 0 \in 0 .. MaxGen
    BY TabQueryAssumption
  <2> QED
    BY <2>1, <2>2 DEF QueryInit, QueryTypeOK
<1>2. Requests /\ ShownWasAsked /\ TrailAwaited
  BY TabQueryAssumption DEF QueryInit, Requests, ShownWasAsked, TrailAwaited
<1>3. ShownIsAsked /\ TrailMatchesScreen
  BY TabQueryAssumption DEF QueryInit, ShownIsAsked, TrailMatchesScreen
<1> QED
  BY <1>1, <1>2, <1>3 DEF QueryInv

\* What asking does: a new generation, and its only request.
LEMMA AskEffect ==
  ASSUME QueryInv, NEW t \in live, NEW q \in Query, NEW nav \in BOOLEAN,
         NEW kind \in {"query", "open"},
         Ask(t, q, nav, kind), UNCHANGED <<live, shown>>
  PROVE  /\ generation' \in [Tab -> 0 .. MaxGen]
         /\ generation'[t] = generation[t] + 1
         /\ \A u \in Tab : u # t => generation'[u] = generation[u]
         /\ userSQL' \in [Tab -> Query \cup {Nothing}]
         /\ userSQL'[t] = q
         /\ \A u \in Tab : u # t => userSQL'[u] = userSQL[u]
         /\ inFlight' \subseteq Request
         /\ \A r \in inFlight' :
              \/ r \in inFlight /\ (r.tab = t => r.gen # generation'[t])
              \/ /\ r.tab = t /\ r.gen = generation'[t] /\ r.query = q
                 /\ r.nav = nav
         /\ Requests' /\ ShownWasAsked' /\ ShownIsAsked'
<1> USE DEF QueryInv
<1> DEFINE n == [tab |-> t, gen |-> generation[t] + 1, query |-> q, nav |-> nav,
                 kind |-> kind]
<1>0. t \in Tab /\ generation \in [Tab -> 0 .. MaxGen] /\ MaxGen \in Nat
  BY TabQueryAssumption DEF QueryTypeOK
<1>1. /\ generation[t] < MaxGen
      /\ generation' = [generation EXCEPT ![t] = generation[t] + 1]
      /\ userSQL' = [userSQL EXCEPT ![t] = q]
      /\ inFlight' = inFlight \cup {n} \/ inFlight' = inFlight
  BY DEF Ask, NextGen
<1>2. /\ generation' \in [Tab -> 0 .. MaxGen]
      /\ generation'[t] = generation[t] + 1
      /\ \A u \in Tab : u # t => generation'[u] = generation[u]
  BY <1>0, <1>1
<1>3. /\ userSQL' \in [Tab -> Query \cup {Nothing}]
      /\ userSQL'[t] = q
      /\ \A u \in Tab : u # t => userSQL'[u] = userSQL[u]
  BY <1>0, <1>1 DEF QueryTypeOK
<1>4. n \in Request
  BY <1>0, <1>1 DEF Request
<1>5. \A r \in inFlight : r.tab \in Tab /\ r.gen \in Nat /\ r.gen <= generation[r.tab]
  BY DEF Requests, QueryTypeOK, Request
<1>6. \A r \in inFlight' : r \in inFlight \/ r = n
  BY <1>1
<1>7. \A r \in inFlight' :
        \/ r \in inFlight /\ (r.tab = t => r.gen # generation'[t])
        \/ r.tab = t /\ r.gen = generation'[t] /\ r.query = q /\ r.nav = nav
  BY <1>0, <1>2, <1>5, <1>6
<1>8. Requests'
  <2>1. \A r \in inFlight' : r.gen <= generation'[r.tab]
    BY <1>0, <1>2, <1>5, <1>6
  <2>2. \A r \in inFlight' : r.gen = generation'[r.tab] => r.query = userSQL'[r.tab]
    BY <1>2, <1>3, <1>5, <1>7 DEF Requests
  <2>3. \A r, p \in inFlight' : r.tab = p.tab /\ r.gen = p.gen => r = p
    BY <1>0, <1>2, <1>5, <1>6 DEF Requests
  <2> QED
    BY <2>1, <2>2, <2>3 DEF Requests
<1>9. ShownWasAsked' /\ ShownIsAsked'
  <2>1. \A u \in Tab : shown[u].gen \in Nat /\ shown[u].gen <= generation[u]
    BY <1>0 DEF ShownWasAsked, QueryTypeOK
  <2> QED
    BY <1>0, <1>2, <1>3, <2>1 DEF ShownWasAsked, ShownIsAsked
<1> QED
  BY <1>1, <1>2, <1>3, <1>4, <1>7, <1>8, <1>9 DEF QueryTypeOK

\* A query of the user's, or a file opened in the tab.
LEMMA UserAsksStep ==
  ASSUME QueryInv, NEW t \in Tab, NEW q \in Query, RunQuery(t, q) \/ OpenInTab(t, q)
  PROVE  QueryInv'
<1> USE DEF QueryInv
<1>1. PICK nav \in BOOLEAN, kind \in {"query", "open"} :
        /\ Ask(t, q, nav, kind) /\ t \in live
        /\ UNCHANGED <<live, navigating, navStack, navPos, shown, history>>
        /\ overlapped' \in SUBSET Tab /\ overlapped \subseteq overlapped'
        /\ nav => t \in overlapped'
  BY DEF RunQuery, OpenInTab, QueryTypeOK
<1>2. /\ generation' \in [Tab -> 0 .. MaxGen]
      /\ generation'[t] = generation[t] + 1
      /\ \A u \in Tab : u # t => generation'[u] = generation[u]
      /\ userSQL' \in [Tab -> Query \cup {Nothing}]
      /\ inFlight' \subseteq Request
      /\ \A r \in inFlight' :
           \/ r \in inFlight /\ (r.tab = t => r.gen # generation'[t])
           \/ /\ r.tab = t /\ r.gen = generation'[t] /\ r.query = q
              /\ r.nav = nav
      /\ Requests' /\ ShownWasAsked' /\ ShownIsAsked'
  BY <1>1, AskEffect
<1>3. QueryTypeOK'
  BY <1>1, <1>2 DEF QueryTypeOK
<1>4. TrailAwaited'
  BY <1>1, <1>2 DEF TrailAwaited, QueryTypeOK, Request
<1>5. TrailMatchesScreen'
  <2>1. shown[t].gen # generation'[t]
    BY <1>2 DEF ShownWasAsked, QueryTypeOK
  <2> QED
    BY <1>1, <1>2, <2>1 DEF TrailMatchesScreen, QueryTypeOK
<1> QED
  BY <1>2, <1>3, <1>4, <1>5

\* Back and Forward.
LEMMA NavigateStep ==
  ASSUME QueryInv, NEW t \in Tab, NavBack(t) \/ NavForward(t)
  PROVE  QueryInv'
<1> USE DEF QueryInv
<1>0. /\ navStack[t] \in Seq(Select) /\ Len(navStack[t]) \in Nat
      /\ DOMAIN navStack[t] = 1 .. Len(navStack[t])
      /\ navPos[t] \in (IF navStack[t] = <<>> THEN {0} ELSE DOMAIN navStack[t])
  BY LenProperties DEF QueryTypeOK
<1>1. PICK to \in DOMAIN navStack[t] : Navigate(t, to)
  <2>1. CASE NavBack(t)
    <3>1. navPos[t] - 1 \in DOMAIN navStack[t]
      BY <1>0, <2>1 DEF NavBack
    <3> QED
      BY <2>1, <3>1 DEF NavBack
  <2>2. CASE NavForward(t)
    <3>1. navPos[t] + 1 \in DOMAIN navStack[t]
      BY <1>0, <2>2, EmptySeq DEF NavForward
    <3> QED
      BY <2>2, <3>1 DEF NavForward
  <2> QED
    BY <2>1, <2>2
<1> DEFINE q == navStack[t][to]
<1>2. q \in Select /\ q \in Query
  BY <1>0, ElementOfSeq, TabQueryAssumption
<1>3. /\ navPos' = [navPos EXCEPT ![t] = to]
      /\ navigating' = [navigating EXCEPT ![t] = TRUE]
      /\ Ask(t, q, TRUE, "query") /\ t \in live
      /\ UNCHANGED <<live, navStack, shown, history, overlapped>>
  BY <1>1 DEF Navigate
<1> HIDE DEF q
<1>4. /\ generation' \in [Tab -> 0 .. MaxGen]
      /\ generation'[t] = generation[t] + 1
      /\ \A u \in Tab : u # t => generation'[u] = generation[u]
      /\ userSQL' \in [Tab -> Query \cup {Nothing}]
      /\ inFlight' \subseteq Request
      /\ \A r \in inFlight' :
           \/ r \in inFlight /\ (r.tab = t => r.gen # generation'[t])
           \/ /\ r.tab = t /\ r.gen = generation'[t] /\ r.query = q
              /\ r.nav = TRUE
      /\ Requests' /\ ShownWasAsked' /\ ShownIsAsked'
  BY <1>2, <1>3, AskEffect
<1>5. /\ navPos'[t] = to /\ \A u \in Tab : u # t => navPos'[u] = navPos[u]
  BY <1>3 DEF QueryTypeOK
<1>6. QueryTypeOK'
  <2>1. \A u \in Tab : navPos'[u] \in (IF navStack'[u] = <<>> THEN {0}
                                      ELSE DOMAIN navStack'[u])
    BY <1>0, <1>3, <1>5, EmptySeq DEF QueryTypeOK
  <2>2. to \in 0 .. NavCap
    BY <1>0, TabQueryAssumption DEF QueryTypeOK
  <2>3. navPos' \in [Tab -> 0 .. NavCap]
    BY <1>3, <2>2 DEF QueryTypeOK
  <2> QED
    BY <1>3, <1>4, <2>1, <2>3 DEF QueryTypeOK
<1>7. TrailAwaited'
  <2> SUFFICES ASSUME NEW r \in inFlight', r.nav, r.gen = generation'[r.tab],
                      r.tab \notin overlapped
               PROVE  navStack[r.tab][navPos'[r.tab]] = r.query
    BY <1>3 DEF TrailAwaited
  <2>1. r.tab \in Tab
    BY <1>4 DEF Request
  <2>2. CASE r.tab = t
    <3>1. r.query = q
      BY <1>4, <2>2
    <3> QED
      BY <1>5, <2>2, <3>1 DEF q
  <2>3. CASE r.tab # t
    <3>1. r \in inFlight /\ generation'[r.tab] = generation[r.tab]
      BY <1>4, <2>1, <2>3
    <3> QED
      BY <1>5, <2>1, <2>3, <3>1 DEF TrailAwaited
  <2> QED
    BY <2>2, <2>3
<1>8. TrailMatchesScreen'
  <2>1. shown[t].gen # generation'[t]
    BY <1>4 DEF ShownWasAsked, QueryTypeOK
  <2> QED
    BY <1>3, <1>4, <1>5, <2>1 DEF TrailMatchesScreen, QueryTypeOK
<1> QED
  BY <1>4, <1>6, <1>7, <1>8

\* A result that is dropped, and a tab that is closed.
LEMMA DropStep ==
  ASSUME QueryInv, (\E r \in inFlight : DropStale(r)) \/ (\E t \in Tab : TabCloses(t))
  PROVE  QueryInv'
<1>1. /\ inFlight' \subseteq inFlight /\ live' \subseteq live
      /\ UNCHANGED <<userSQL, generation, navigating, navStack, navPos, shown,
                     history, overlapped>>
  BY DEF DropStale, TabCloses
<1> QED
  BY <1>1 DEF QueryInv, QueryTypeOK, Requests, ShownWasAsked, ShownIsAsked, TrailAwaited,
     TrailMatchesScreen

\* A failed query or open: the grid shows the error.
LEMMA FailStep ==
  ASSUME QueryInv, NEW r \in inFlight, FailOpen(r) \/ \E b \in BOOLEAN : Fail(r, b)
  PROVE  QueryInv'
<1> USE DEF QueryInv
<1> DEFINE new == [gen |-> r.gen, query |-> r.query, error |-> TRUE]
<1>1. /\ r.gen = generation[r.tab] /\ inFlight' = inFlight \ {r}
      /\ shown' = [shown EXCEPT ![r.tab] = new]
      /\ UNCHANGED <<live, userSQL, generation, navStack, navPos, overlapped>>
  BY DEF FailOpen, Fail, Stale
<1>2. r \in Request /\ r.tab \in Tab /\ r.gen \in 0 .. MaxGen
  BY <1>1 DEF QueryTypeOK, Request
<1>3. /\ shown'[r.tab] = new /\ \A u \in Tab : u # r.tab => shown'[u] = shown[u]
      /\ shown' \in [Tab -> [gen : 0 .. MaxGen, query : Query \cup {Nothing},
                            error : BOOLEAN]]
  BY <1>1, <1>2 DEF QueryTypeOK, Request
<1>4. navigating' \in [Tab -> BOOLEAN] /\ history' \subseteq Request
  BY <1>2 DEF FailOpen, Fail, QueryTypeOK
<1>5. QueryTypeOK'
  BY <1>1, <1>3, <1>4 DEF QueryTypeOK
<1>6. Requests' /\ TrailAwaited'
  BY <1>1 DEF Requests, TrailAwaited
<1>7. ShownWasAsked' /\ ShownIsAsked'
  <2>1. r.gen <= generation[r.tab] /\ r.query = userSQL[r.tab]
    BY <1>1 DEF Requests
  <2> QED
    BY <1>1, <1>2, <1>3, <2>1 DEF ShownWasAsked, ShownIsAsked
<1>8. TrailMatchesScreen'
  BY <1>1, <1>3 DEF TrailMatchesScreen, QueryTypeOK
<1> QED
  BY <1>5, <1>6, <1>7, <1>8

\* A result with rows: shown and, unless it was navigation, recorded.
LEMMA ShowStep ==
  ASSUME QueryInv, NEW r \in inFlight, Show(r)
  PROVE  QueryInv'
<1> USE DEF QueryInv
<1> DEFINE t == r.tab
           new == [gen |-> r.gen, query |-> r.query, error |-> FALSE]
<1>1. /\ r.gen = generation[t] /\ inFlight' = inFlight \ {r}
      /\ shown' = [shown EXCEPT ![t] = new]
      /\ navigating' = [navigating EXCEPT ![t] = FALSE]
      /\ UNCHANGED <<live, userSQL, generation>>
  BY DEF Show, Stale
<1>2. r \in Request /\ t \in Tab /\ r.query \in Query /\ r.nav \in BOOLEAN
  BY DEF QueryTypeOK, Request
<1>3. r.query = userSQL[t] /\ r.gen <= generation[t]
  BY <1>1 DEF Requests
<1>4. /\ shown'[t] = new /\ \A u \in Tab : u # t => shown'[u] = shown[u]
      /\ shown' \in [Tab -> [gen : 0 .. MaxGen, query : Query \cup {Nothing},
                            error : BOOLEAN]]
  BY <1>1, <1>2 DEF QueryTypeOK, Request
<1>5. Requests' /\ ShownWasAsked' /\ ShownIsAsked'
  BY <1>1, <1>2, <1>3, <1>4 DEF Requests, ShownWasAsked, ShownIsAsked
<1>6. \A p \in inFlight' : p.tab = t => p.gen # generation[t]
  BY <1>1 DEF Requests
<1>7. CASE r.nav
  <2>1. UNCHANGED <<history, navStack, navPos, overlapped>>
    BY <1>7 DEF Show
  <2>2. QueryTypeOK'
    BY <1>1, <1>4, <2>1 DEF QueryTypeOK
  <2>3. TrailAwaited'
    BY <1>1, <2>1 DEF TrailAwaited
  <2>4. TrailMatchesScreen'
    <3>1. t \notin overlapped => navStack[t][navPos[t]] = r.query
      BY <1>1, <1>7 DEF TrailAwaited
    <3> QED
      BY <1>1, <1>4, <2>1, <3>1 DEF TrailMatchesScreen, QueryTypeOK
  <2> QED
    BY <1>5, <2>2, <2>3, <2>4
<1>8. CASE ~r.nav
  <2> DEFINE q == userSQL[t]
  <2>1. /\ history' = history \cup {r}
        /\ navStack' = [navStack EXCEPT ![t] = NavPushed(t, q)]
        /\ navPos' = [navPos EXCEPT ![t] = PosAfter(t, q)]
        /\ overlapped' = overlapped \ {t}
    BY <1>8 DEF Show
  <2>2. q \in Query
    BY <1>2, <1>3
  <2> HIDE DEF q
  <2>3. /\ NavPushed(t, q) \in Seq(Select)
        /\ Len(NavPushed(t, q)) <= NavCap
        /\ PosAfter(t, q) \in 0 .. NavCap
        /\ PosAfter(t, q) \in (IF NavPushed(t, q) = <<>> THEN {0}
                              ELSE DOMAIN NavPushed(t, q))
        /\ q \in Select => NavPushed(t, q)[PosAfter(t, q)] = q
    BY <1>2, <2>2, NavPushKeepsTrail
  <2>4. /\ navStack'[t] = NavPushed(t, q) /\ navPos'[t] = PosAfter(t, q)
        /\ \A u \in Tab : u # t => navStack'[u] = navStack[u] /\ navPos'[u] = navPos[u]
        /\ navStack' \in [Tab -> Seq(Select)] /\ navPos' \in [Tab -> 0 .. NavCap]
    BY <1>2, <2>1, <2>3 DEF QueryTypeOK
  <2>5. QueryTypeOK'
    <3>1. \A u \in Tab : /\ Len(navStack'[u]) <= NavCap
                         /\ navPos'[u] \in (IF navStack'[u] = <<>> THEN {0}
                                            ELSE DOMAIN navStack'[u])
      BY <2>3, <2>4 DEF QueryTypeOK
    <3> QED
      BY <1>1, <1>2, <1>4, <2>1, <2>4, <3>1 DEF QueryTypeOK
  <2>6. TrailAwaited'
    <3> SUFFICES ASSUME NEW p \in inFlight', p.nav, p.gen = generation[p.tab],
                        p.tab \notin overlapped'
                 PROVE  navStack'[p.tab][navPos'[p.tab]] = p.query
      BY <1>1 DEF TrailAwaited
    <3>1. p \in inFlight /\ p.tab \in Tab /\ p.tab # t
      BY <1>1, <1>6 DEF QueryTypeOK, Request
    <3> QED
      BY <2>1, <2>4, <3>1 DEF TrailAwaited
  <2>7. TrailMatchesScreen'
    <3>1. r.query \in Select => navStack'[t][navPos'[t]] = r.query
      BY <1>3, <2>3, <2>4 DEF q
    <3> QED
      BY <1>1, <1>4, <2>1, <2>4, <3>1 DEF TrailMatchesScreen, QueryTypeOK
  <2> QED
    BY <1>5, <2>5, <2>6, <2>7
<1> QED
  BY <1>7, <1>8

-----------------------------------------------------------------------------
(* Theorems *)

\* Every event of the tabs keeps the invariant.
LEMMA QueryInvStep == QueryInv /\ [QueryNext]_queryVars => QueryInv'
<1> SUFFICES ASSUME QueryInv, [QueryNext]_queryVars PROVE QueryInv'
  OBVIOUS
<1>1. CASE \E t \in Tab, q \in Query : RunQuery(t, q) \/ OpenInTab(t, q)
  BY <1>1, UserAsksStep
<1>2. CASE \E t \in Tab : NavBack(t) \/ NavForward(t)
  BY <1>2, NavigateStep
<1>3. CASE (\E r \in inFlight : DropStale(r)) \/ (\E t \in Tab : TabCloses(t))
  BY <1>3, DropStep
<1>4. CASE \E r \in inFlight : Show(r)
  BY <1>4, ShowStep
<1>5. CASE \E r \in inFlight : FailOpen(r) \/ \E b \in BOOLEAN : Fail(r, b)
  BY <1>5, FailStep
<1>6. CASE UNCHANGED queryVars
  BY <1>6 DEF queryVars, QueryInv, QueryTypeOK, Requests, ShownWasAsked, ShownIsAsked,
     TrailAwaited, TrailMatchesScreen
<1> QED
  BY <1>1, <1>2, <1>3, <1>4, <1>5, <1>6 DEF QueryNext

\* Every reachable state satisfies the inductive invariant.
THEOREM QueryInvariant == QuerySpec => []QueryInv
  BY QueryInvInit, QueryInvStep, PTL DEF QuerySpec

\* Types; whatever is run, gone back to and cut off, the trail stays within its
\* cap and its position within the trail.
THEOREM QueryTypes == QuerySpec => []QueryTypeOK
<1>1. QueryInv => QueryTypeOK
  BY DEF QueryInv
<1> QED
  BY <1>1, QueryInvariant, PTL

\* What the grid shows for the newest run is what the editor holds.
THEOREM GridShowsItsQuery == QuerySpec => []ShownIsAsked
<1>1. QueryInv => ShownIsAsked
  BY DEF QueryInv
<1> QED
  BY <1>1, QueryInvariant, PTL

\* The current entry of the trail is the query on screen, unless the user ran
\* something while a Back or Forward was under way.
THEOREM TrailIsOnScreen == QuerySpec => []TrailMatchesScreen
<1>1. QueryInv => TrailMatchesScreen
  BY DEF QueryInv
<1> QED
  BY <1>1, QueryInvariant, PTL

\* What becomes of an answer: it is dropped as stale, or it is the newest one
\* and shown.
LEMMA AnswerShown ==
  ASSUME QueryInv, NEW r \in inFlight,
         Show(r) \/ FailOpen(r) \/ \E b \in BOOLEAN : Fail(r, b)
  PROVE  /\ r.tab \in Tab /\ r.gen = generation[r.tab] /\ inFlight' = inFlight \ {r}
         /\ shown'[r.tab].gen = r.gen
         /\ \A t \in Tab : t # r.tab => shown'[t] = shown[t]
<1>1. r.tab \in Tab /\ r.gen = generation[r.tab] /\ inFlight' = inFlight \ {r}
  BY DEF QueryInv, QueryTypeOK, Request, Show, FailOpen, Fail, Stale
<1>2. \E e \in BOOLEAN :
        shown' = [shown EXCEPT ![r.tab] = [gen |-> r.gen, query |-> r.query, error |-> e]]
  BY DEF Show, FailOpen, Fail
<1> QED
  BY <1>1, <1>2 DEF QueryInv, QueryTypeOK

\* Every other event leaves the grids alone and drops no answer but a stale one.
LEMMA OtherwiseUntouched ==
  ASSUME [QueryNext]_queryVars,
         ~\E r \in inFlight : Show(r) \/ FailOpen(r) \/ \E b \in BOOLEAN : Fail(r, b)
  PROVE  /\ shown' = shown
         /\ \A r \in inFlight \ inFlight' : Stale(r)
<1>1. CASE \E t \in Tab, q \in Query : RunQuery(t, q) \/ OpenInTab(t, q)
  BY <1>1 DEF RunQuery, OpenInTab, Ask
<1>2. CASE \E t \in Tab : NavBack(t) \/ NavForward(t)
  BY <1>2 DEF NavBack, NavForward, Navigate, Ask
<1>3. CASE (\E r \in inFlight : DropStale(r)) \/ (\E t \in Tab : TabCloses(t))
  BY <1>3 DEF DropStale, TabCloses
<1>4. CASE UNCHANGED queryVars
  BY <1>4 DEF queryVars
<1> QED
  BY <1>1, <1>2, <1>3, <1>4 DEF QueryNext

\* No order of answers makes a tab go back to an older one.
THEOREM NeverOlder == QuerySpec => ShownNeverOlder
<1>1. ASSUME QueryInv, [QueryNext]_queryVars
      PROVE  \A t \in Tab : shown'[t].gen >= shown[t].gen
  <2>1. \A t \in Tab : shown[t].gen \in Nat /\ generation[t] \in Nat
                       /\ shown[t].gen <= generation[t]
    BY <1>1, TabQueryAssumption DEF QueryInv, QueryTypeOK, ShownWasAsked
  <2>2. CASE \E r \in inFlight : Show(r) \/ FailOpen(r) \/ \E b \in BOOLEAN : Fail(r, b)
    <3>1. PICK r \in inFlight : Show(r) \/ FailOpen(r) \/ \E b \in BOOLEAN : Fail(r, b)
      BY <2>2
    <3>2. /\ r.tab \in Tab /\ r.gen = generation[r.tab]
          /\ shown'[r.tab].gen = r.gen
          /\ \A t \in Tab : t # r.tab => shown'[t] = shown[t]
      BY <1>1, <3>1, AnswerShown
    <3> QED
      BY <2>1, <3>2
  <2>3. CASE ~\E r \in inFlight : Show(r) \/ FailOpen(r) \/ \E b \in BOOLEAN : Fail(r, b)
    BY <1>1, <2>1, <2>3, OtherwiseUntouched
  <2> QED
    BY <2>2, <2>3
<1> QED
  BY <1>1, QueryInvariant, PTL DEF QuerySpec, ShownNeverOlder

\* No answer of a live tab is dropped while it is the newest.
THEOREM NewestIsApplied == QuerySpec => NewestApplied
<1>1. ASSUME QueryInv, [QueryNext]_queryVars
      PROVE  \A t \in live, r \in inFlight \ inFlight' :
               r.tab = t /\ r.gen = generation[t] => shown'[t].gen = r.gen
  <2>1. CASE \E r \in inFlight : Show(r) \/ FailOpen(r) \/ \E b \in BOOLEAN : Fail(r, b)
    <3>1. PICK r \in inFlight : Show(r) \/ FailOpen(r) \/ \E b \in BOOLEAN : Fail(r, b)
      BY <2>1
    <3>2. inFlight' = inFlight \ {r} /\ shown'[r.tab].gen = r.gen
      BY <1>1, <3>1, AnswerShown
    <3> QED
      BY <3>2
  <2>2. CASE ~\E r \in inFlight : Show(r) \/ FailOpen(r) \/ \E b \in BOOLEAN : Fail(r, b)
    BY <1>1, <2>2, OtherwiseUntouched DEF Stale
  <2> QED
    BY <2>1, <2>2
<1> QED
  BY <1>1, QueryInvariant, PTL DEF QuerySpec, NewestApplied


-----------------------------------------------------------------------------
(* The two together *)

\* A step of the composition is a step of one side, or none, and leaves the other
\* where it is.
LEMMA SidesStep ==
  [TabsNext]_<<side, vars, queryVars>> => [Next]_vars /\ [QueryNext]_queryVars
<1>1. TabsNext => [Next]_vars /\ [QueryNext]_queryVars
  BY DEF TabsNext
<1> QED
  BY <1>1

\* Every theorem about a side holds of the composition that the runs check.
THEOREM SidesKept == TabsSpec => Spec /\ QuerySpec
<1>1. TabsInit => Init /\ QueryInit
  BY DEF TabsInit
<1> QED
  BY <1>1, SidesStep, PTL DEF TabsSpec, Spec, QuerySpec
=============================================================================
