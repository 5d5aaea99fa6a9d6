-------------------------- MODULE McpServerProofs --------------------------
(***************************************************************************)
(* Proofs about McpServer, for any number of calls, bookmarks and edits.   *)
(*                                                                         *)
(* That a call queries through a connection of the version it has read     *)
(* rests on the slot's lock: what the slot keeps is of the version the     *)
(* slot records (KeptAsRecorded), and while a call holds the lock the      *)
(* record is that of the call (PingsOwn).                                  *)
(***************************************************************************)
EXTENDS McpServer, TLAPS

\* A call past its first step knows its bookmark.
Knowing ==
  \A k \in Call :
    at[k] \in {"slot", "lock", "query", "hung"} \cup Holding
      => label[k] \in Label /\ seen[k] \in 1 .. MaxVersion

\* A call that waits for a login waits for some call's.
Awaiting == \A k \in Call : at[k] = "wait" => awaits[k] \in Call

\* A slot is locked by a call of its bookmark.
LocksOwn ==
  \A l \in Label :
    lock[l] # No => at[lock[l]] \in Holding /\ label[lock[l]] = l

\* A call connects when its slot has nothing to keep.
Vacated ==
  \A k \in Call :
    at[k] \in Holding \ {"ping"} => conn[label[k]] = No

\* What a slot keeps is of the version that it records.
KeptAsRecorded ==
  \A l \in Label : conn[l] # No => conn[l].version = updated[l]

\* A call pings a connection of the version that it has read.
PingsOwn ==
  \A k \in Call : at[k] = "ping" => conn[label[k]] # No /\ Current(k)

\* The login on the list is the one that runs or has just ended.
Listed == \A k \in Call : login[k] \in {"running", "ended"} => inFlight = k

IInv ==
  TypeOK /\ Knowing /\ Awaiting /\ LocksOwn /\ OpenIsKept /\ KeptAsRecorded
  /\ Vacated /\ PingsOwn /\ ServedAsRead /\ Listed

\* At first no call, connection or login exists.
LEMMA InitIInv == Init => IInv
  BY McpServerAssumption
  DEF Init, IInv, TypeOK, Holding, Knowing, Awaiting, LocksOwn, OpenIsKept,
      KeptAsRecorded, Vacated, PingsOwn, ServedAsRead, Listed

\* Every step keeps the types.
LEMMA TypesStep ==
  TypeOK /\ Knowing /\ Awaiting /\ LocksOwn /\ [Next]_vars => TypeOK'
<1> SUFFICES ASSUME TypeOK, Knowing, Awaiting, LocksOwn, [Next]_vars
             PROVE  TypeOK'
  OBVIOUS
<1> USE McpServerAssumption
    DEF TypeOK, Holding, Knowing, Awaiting, LocksOwn, Connection, fileVars,
        callVars, slotVars, loginVars, serverVars
<1>1. CASE \E l \in Label : Save(l)
  BY <1>1 DEF Save
<1>2. ASSUME NEW k \in Call, \E l \in Label : Read(k, l)
      PROVE  TypeOK'
  BY <1>2 DEF Read, Goes
<1>3. ASSUME NEW k \in Call, FindSlot(k)
      PROVE  TypeOK'
  BY <1>3 DEF FindSlot, Goes
<1>4. ASSUME NEW k \in Call, Lock(k)
      PROVE  TypeOK'
  BY <1>4 DEF Lock, Goes, Dropped, Connecting, Current
<1>5. ASSUME NEW k \in Call, PingAnswers(k)
      PROVE  TypeOK'
  BY <1>5 DEF PingAnswers, Goes, Leave, Unlocked
<1>6. ASSUME NEW k \in Call, PingFails(k)
      PROVE  TypeOK'
  BY <1>6 DEF PingFails, Goes, Dropped, Connecting
<1>7. ASSUME NEW k \in Call, Status(k)
      PROVE  TypeOK'
  BY <1>7 DEF Status, Goes
<1>8. ASSUME NEW k \in Call, Join(k)
      PROVE  TypeOK'
  BY <1>8 DEF Join, Goes
<1>9. ASSUME NEW k \in Call, Joined(k)
      PROVE  TypeOK'
  <2>1. CASE awaits[k] \in approved
    BY <1>9, <2>1 DEF Joined, Goes
  <2>2. CASE awaits[k] \notin approved
    <3>1. /\ at' = [at EXCEPT ![k] = "returned"]
          /\ lock' = [lock EXCEPT ![label[k]] = No]
          /\ label' = [label EXCEPT ![k] = No]
          /\ seen' = [seen EXCEPT ![k] = 0]
          /\ using' = [using EXCEPT ![k] = No]
          /\ awaits' = [awaits EXCEPT ![k] = No]
          /\ at[k] = "wait" /\ label[k] \in Label
      BY <1>9, <2>2 DEF Joined, Goes, Leave, Unlocked, Forget
    <3>2. \A j \in Call :
            at'[j] \in Holding
              <=> \E l \in Label : label'[j] = l /\ lock'[l] = j
      BY <3>1
    <3> QED
      BY <1>9, <3>1, <3>2 DEF Joined
  <2> QED
    BY <2>1, <2>2
<1>10. ASSUME NEW k \in Call, GiveUp(k)
      PROVE  TypeOK'
  BY <1>10 DEF GiveUp, Goes, Leave, Unlocked, Forget
<1>11. ASSUME NEW k \in Call, Opened(k)
      PROVE  TypeOK'
  BY <1>11 DEF Opened, Goes, Leave, Unlocked
<1>12. ASSUME NEW k \in Call, OpenFails(k)
      PROVE  TypeOK'
  BY <1>12 DEF OpenFails, Goes, Leave, Unlocked, Forget
<1>13. ASSUME NEW k \in Call, Return(k)
      PROVE  TypeOK'
  BY <1>13 DEF Return, Goes, Forget
<1>14. ASSUME NEW k \in Call, FlowEnds(k)
      PROVE  TypeOK'
  BY <1>14 DEF FlowEnds
<1>15. ASSUME NEW k \in Call, Unlist(k)
      PROVE  TypeOK'
  BY <1>15 DEF Unlist
<1>16. ASSUME NEW k \in Call, Announce(k)
      PROVE  TypeOK'
  BY <1>16 DEF Announce
<1>17. CASE Disconnect
  BY <1>17 DEF Disconnect
<1>18. CASE \E l \in Label : CloseSlot(l)
  BY <1>18 DEF CloseSlot, Dropped
<1>19. CASE Exit
  BY <1>19 DEF Exit
<1>20. CASE UNCHANGED vars
  BY <1>20 DEF vars
<1>21. ASSUME NEW k \in Call, Stall(k)
      PROVE  TypeOK'
  BY <1>21 DEF Stall, Goes
<1> QED
  BY <1>1, <1>2, <1>3, <1>4, <1>5, <1>6, <1>7, <1>8, <1>9, <1>10, <1>11,
     <1>12, <1>13, <1>14, <1>15, <1>16, <1>17, <1>18, <1>19, <1>20, <1>21
  DEF Next, Work, LogIn, Shutdown

\* A call learns its bookmark first and the login that it waits for.
LEMMA CallsStep ==
  TypeOK /\ Knowing /\ Awaiting /\ LocksOwn /\ [Next]_vars
    => (Knowing /\ Awaiting /\ LocksOwn)'
<1> SUFFICES ASSUME TypeOK, Knowing, Awaiting, LocksOwn, [Next]_vars
             PROVE  (Knowing /\ Awaiting /\ LocksOwn)'
  OBVIOUS
<1> USE McpServerAssumption
    DEF TypeOK, Holding, Knowing, Awaiting, LocksOwn, fileVars, callVars,
        slotVars, loginVars, serverVars
<1>1. CASE \E l \in Label : Save(l)
  BY <1>1 DEF Save
<1>2. ASSUME NEW k \in Call, \E l \in Label : Read(k, l)
      PROVE  (Knowing /\ Awaiting /\ LocksOwn)'
  BY <1>2 DEF Read, Goes
<1>3. ASSUME NEW k \in Call, FindSlot(k)
      PROVE  (Knowing /\ Awaiting /\ LocksOwn)'
  BY <1>3 DEF FindSlot, Goes
<1>4. ASSUME NEW k \in Call, Lock(k)
      PROVE  (Knowing /\ Awaiting /\ LocksOwn)'
  BY <1>4 DEF Lock, Goes, Dropped, Connecting, Current
<1>5. ASSUME NEW k \in Call, PingAnswers(k)
      PROVE  (Knowing /\ Awaiting /\ LocksOwn)'
  BY <1>5 DEF PingAnswers, Goes, Leave, Unlocked
<1>6. ASSUME NEW k \in Call, PingFails(k)
      PROVE  (Knowing /\ Awaiting /\ LocksOwn)'
  BY <1>6 DEF PingFails, Goes, Dropped, Connecting
<1>7. ASSUME NEW k \in Call, Status(k)
      PROVE  (Knowing /\ Awaiting /\ LocksOwn)'
  BY <1>7 DEF Status, Goes
<1>8. ASSUME NEW k \in Call, Join(k)
      PROVE  (Knowing /\ Awaiting /\ LocksOwn)'
  BY <1>8 DEF Join, Goes
<1>9. ASSUME NEW k \in Call, Joined(k)
      PROVE  (Knowing /\ Awaiting /\ LocksOwn)'
  BY <1>9 DEF Joined, Goes, Leave, Unlocked, Forget
<1>10. ASSUME NEW k \in Call, GiveUp(k)
      PROVE  (Knowing /\ Awaiting /\ LocksOwn)'
  BY <1>10 DEF GiveUp, Goes, Leave, Unlocked, Forget
<1>11. ASSUME NEW k \in Call, Opened(k)
      PROVE  (Knowing /\ Awaiting /\ LocksOwn)'
  BY <1>11 DEF Opened, Goes, Leave, Unlocked
<1>12. ASSUME NEW k \in Call, OpenFails(k)
      PROVE  (Knowing /\ Awaiting /\ LocksOwn)'
  BY <1>12 DEF OpenFails, Goes, Leave, Unlocked, Forget
<1>13. ASSUME NEW k \in Call, Return(k)
      PROVE  (Knowing /\ Awaiting /\ LocksOwn)'
  BY <1>13 DEF Return, Goes, Forget
<1>14. ASSUME NEW k \in Call, FlowEnds(k)
      PROVE  (Knowing /\ Awaiting /\ LocksOwn)'
  BY <1>14 DEF FlowEnds
<1>15. ASSUME NEW k \in Call, Unlist(k)
      PROVE  (Knowing /\ Awaiting /\ LocksOwn)'
  BY <1>15 DEF Unlist
<1>16. ASSUME NEW k \in Call, Announce(k)
      PROVE  (Knowing /\ Awaiting /\ LocksOwn)'
  BY <1>16 DEF Announce
<1>17. CASE Disconnect
  BY <1>17 DEF Disconnect
<1>18. CASE \E l \in Label : CloseSlot(l)
  BY <1>18 DEF CloseSlot, Dropped
<1>19. CASE Exit
  BY <1>19 DEF Exit
<1>20. CASE UNCHANGED vars
  BY <1>20 DEF vars
<1>21. ASSUME NEW k \in Call, Stall(k)
      PROVE  (Knowing /\ Awaiting /\ LocksOwn)'
  BY <1>21 DEF Stall, Goes
<1> QED
  BY <1>1, <1>2, <1>3, <1>4, <1>5, <1>6, <1>7, <1>8, <1>9, <1>10, <1>11,
     <1>12, <1>13, <1>14, <1>15, <1>16, <1>17, <1>18, <1>19, <1>20, <1>21
  DEF Next, Work, LogIn, Shutdown

\* What is open is what the slots keep, as they record it.
LEMMA KeptStep ==
  TypeOK /\ Knowing /\ LocksOwn /\ OpenIsKept /\ KeptAsRecorded /\ Vacated /\ [Next]_vars
    => (OpenIsKept /\ KeptAsRecorded /\ Vacated)'
<1> SUFFICES ASSUME TypeOK, Knowing, LocksOwn, OpenIsKept, KeptAsRecorded,
                    Vacated, [Next]_vars
             PROVE  (OpenIsKept /\ KeptAsRecorded /\ Vacated)'
  OBVIOUS
<1> USE McpServerAssumption
    DEF TypeOK, Holding, Knowing, LocksOwn, OpenIsKept, KeptAsRecorded,
        Vacated, Connection, fileVars, callVars, slotVars, loginVars,
        serverVars
<1>1. CASE \E l \in Label : Save(l)
  BY <1>1 DEF Save
<1>2. ASSUME NEW k \in Call, \E l \in Label : Read(k, l)
      PROVE  (OpenIsKept /\ KeptAsRecorded /\ Vacated)'
  BY <1>2 DEF Read, Goes
<1>3. ASSUME NEW k \in Call, FindSlot(k)
      PROVE  (OpenIsKept /\ KeptAsRecorded /\ Vacated)'
  BY <1>3 DEF FindSlot, Goes
<1>4. ASSUME NEW k \in Call, Lock(k)
      PROVE  (OpenIsKept /\ KeptAsRecorded /\ Vacated)'
  BY <1>4 DEF Lock, Goes, Dropped, Connecting, Current
<1>5. ASSUME NEW k \in Call, PingAnswers(k)
      PROVE  (OpenIsKept /\ KeptAsRecorded /\ Vacated)'
  BY <1>5 DEF PingAnswers, Goes, Leave, Unlocked
<1>6. ASSUME NEW k \in Call, PingFails(k)
      PROVE  (OpenIsKept /\ KeptAsRecorded /\ Vacated)'
  BY <1>6 DEF PingFails, Goes, Dropped, Connecting
<1>7. ASSUME NEW k \in Call, Status(k)
      PROVE  (OpenIsKept /\ KeptAsRecorded /\ Vacated)'
  BY <1>7 DEF Status, Goes
<1>8. ASSUME NEW k \in Call, Join(k)
      PROVE  (OpenIsKept /\ KeptAsRecorded /\ Vacated)'
  BY <1>8 DEF Join, Goes
<1>9. ASSUME NEW k \in Call, Joined(k)
      PROVE  (OpenIsKept /\ KeptAsRecorded /\ Vacated)'
  BY <1>9 DEF Joined, Goes, Leave, Unlocked, Forget
<1>10. ASSUME NEW k \in Call, GiveUp(k)
      PROVE  (OpenIsKept /\ KeptAsRecorded /\ Vacated)'
  BY <1>10 DEF GiveUp, Goes, Leave, Unlocked, Forget
<1>11. ASSUME NEW k \in Call, Opened(k)
      PROVE  (OpenIsKept /\ KeptAsRecorded /\ Vacated)'
  <2> DEFINE l == label[k]
             new == [by |-> k, label |-> l, version |-> seen[k]]
  <2>1. /\ l \in Label /\ conn[l] = No /\ new # No /\ seen[k] \in 1 .. MaxVersion
        /\ new.label = l /\ new.version = seen[k]
    BY <1>11 DEF Opened
  <2>2. /\ open' = open \cup {new}
        /\ conn' = [conn EXCEPT ![l] = new]
        /\ updated' = [updated EXCEPT ![l] = seen[k]]
        /\ at' = [at EXCEPT ![k] = "query"]
        /\ label' = label
    BY <1>11 DEF Opened, Goes, Leave
  <2>3. OpenIsKept'
    BY <2>1, <2>2
  <2>4. KeptAsRecorded'
    BY <2>1, <2>2
  <2>5. Vacated'
    <3> SUFFICES ASSUME NEW j \in Call, at'[j] \in Holding \ {"ping"}
                 PROVE  conn'[label'[j]] = No
      OBVIOUS
    <3>1. j # k /\ at[j] = at'[j]
      BY <2>2
    <3>2. label[j] # l
      BY <1>11, <3>1 DEF Opened
    <3> QED
      BY <2>1, <2>2, <3>1, <3>2
  <2> QED
    BY <2>3, <2>4, <2>5
<1>12. ASSUME NEW k \in Call, OpenFails(k)
      PROVE  (OpenIsKept /\ KeptAsRecorded /\ Vacated)'
  BY <1>12 DEF OpenFails, Goes, Leave, Unlocked, Forget
<1>13. ASSUME NEW k \in Call, Return(k)
      PROVE  (OpenIsKept /\ KeptAsRecorded /\ Vacated)'
  BY <1>13 DEF Return, Goes, Forget
<1>14. ASSUME NEW k \in Call, FlowEnds(k)
      PROVE  (OpenIsKept /\ KeptAsRecorded /\ Vacated)'
  BY <1>14 DEF FlowEnds
<1>15. ASSUME NEW k \in Call, Unlist(k)
      PROVE  (OpenIsKept /\ KeptAsRecorded /\ Vacated)'
  BY <1>15 DEF Unlist
<1>16. ASSUME NEW k \in Call, Announce(k)
      PROVE  (OpenIsKept /\ KeptAsRecorded /\ Vacated)'
  BY <1>16 DEF Announce
<1>17. CASE Disconnect
  BY <1>17 DEF Disconnect
<1>18. CASE \E l \in Label : CloseSlot(l)
  BY <1>18 DEF CloseSlot, Dropped
<1>19. CASE Exit
  BY <1>19 DEF Exit
<1>20. CASE UNCHANGED vars
  BY <1>20 DEF vars
<1>21. ASSUME NEW k \in Call, Stall(k)
      PROVE  (OpenIsKept /\ KeptAsRecorded /\ Vacated)'
  BY <1>21 DEF Stall, Goes
<1> QED
  BY <1>1, <1>2, <1>3, <1>4, <1>5, <1>6, <1>7, <1>8, <1>9, <1>10, <1>11,
     <1>12, <1>13, <1>14, <1>15, <1>16, <1>17, <1>18, <1>19, <1>20, <1>21
  DEF Next, Work, LogIn, Shutdown

\* A call pings and is given what it has read.
LEMMA ServedStep ==
  TypeOK /\ Knowing /\ OpenIsKept /\ KeptAsRecorded /\ PingsOwn /\ ServedAsRead /\ [Next]_vars
    => (PingsOwn /\ ServedAsRead)'
<1> SUFFICES ASSUME TypeOK, Knowing, OpenIsKept, KeptAsRecorded, PingsOwn,
                    ServedAsRead, [Next]_vars
             PROVE  (PingsOwn /\ ServedAsRead)'
  OBVIOUS
<1> USE McpServerAssumption
    DEF TypeOK, Holding, Knowing, OpenIsKept, KeptAsRecorded, PingsOwn,
        ServedAsRead, Current, fileVars, callVars, slotVars, loginVars,
        serverVars
<1>1. CASE \E l \in Label : Save(l)
  BY <1>1 DEF Save
<1>2. ASSUME NEW k \in Call, \E l \in Label : Read(k, l)
      PROVE  (PingsOwn /\ ServedAsRead)'
  BY <1>2 DEF Read, Goes
<1>3. ASSUME NEW k \in Call, FindSlot(k)
      PROVE  (PingsOwn /\ ServedAsRead)'
  BY <1>3 DEF FindSlot, Goes
<1>4. ASSUME NEW k \in Call, Lock(k)
      PROVE  (PingsOwn /\ ServedAsRead)'
  BY <1>4 DEF Lock, Goes, Dropped, Connecting, Current
<1>5. ASSUME NEW k \in Call, PingAnswers(k)
      PROVE  (PingsOwn /\ ServedAsRead)'
  BY <1>5 DEF PingAnswers, Goes, Leave, Unlocked
<1>6. ASSUME NEW k \in Call, PingFails(k)
      PROVE  (PingsOwn /\ ServedAsRead)'
  BY <1>6 DEF PingFails, Goes, Dropped, Connecting
<1>7. ASSUME NEW k \in Call, Status(k)
      PROVE  (PingsOwn /\ ServedAsRead)'
  BY <1>7 DEF Status, Goes
<1>8. ASSUME NEW k \in Call, Join(k)
      PROVE  (PingsOwn /\ ServedAsRead)'
  BY <1>8 DEF Join, Goes
<1>9. ASSUME NEW k \in Call, Joined(k)
      PROVE  (PingsOwn /\ ServedAsRead)'
  BY <1>9 DEF Joined, Goes, Leave, Unlocked, Forget
<1>10. ASSUME NEW k \in Call, GiveUp(k)
      PROVE  (PingsOwn /\ ServedAsRead)'
  BY <1>10 DEF GiveUp, Goes, Leave, Unlocked, Forget
<1>11. ASSUME NEW k \in Call, Opened(k)
      PROVE  (PingsOwn /\ ServedAsRead)'
  BY <1>11 DEF Opened, Goes, Leave, Unlocked
<1>12. ASSUME NEW k \in Call, OpenFails(k)
      PROVE  (PingsOwn /\ ServedAsRead)'
  BY <1>12 DEF OpenFails, Goes, Leave, Unlocked, Forget
<1>13. ASSUME NEW k \in Call, Return(k)
      PROVE  (PingsOwn /\ ServedAsRead)'
  BY <1>13 DEF Return, Goes, Forget
<1>14. ASSUME NEW k \in Call, FlowEnds(k)
      PROVE  (PingsOwn /\ ServedAsRead)'
  BY <1>14 DEF FlowEnds
<1>15. ASSUME NEW k \in Call, Unlist(k)
      PROVE  (PingsOwn /\ ServedAsRead)'
  BY <1>15 DEF Unlist
<1>16. ASSUME NEW k \in Call, Announce(k)
      PROVE  (PingsOwn /\ ServedAsRead)'
  BY <1>16 DEF Announce
<1>17. CASE Disconnect
  BY <1>17 DEF Disconnect
<1>18. CASE \E l \in Label : CloseSlot(l)
  BY <1>18 DEF CloseSlot, Dropped
<1>19. CASE Exit
  BY <1>19 DEF Exit
<1>20. CASE UNCHANGED vars
  BY <1>20 DEF vars
<1>21. ASSUME NEW k \in Call, Stall(k)
      PROVE  (PingsOwn /\ ServedAsRead)'
  BY <1>21 DEF Stall, Goes
<1> QED
  BY <1>1, <1>2, <1>3, <1>4, <1>5, <1>6, <1>7, <1>8, <1>9, <1>10, <1>11,
     <1>12, <1>13, <1>14, <1>15, <1>16, <1>17, <1>18, <1>19, <1>20, <1>21
  DEF Next, Work, LogIn, Shutdown

\* A login is started only when none is listed.
LEMMA ListedStep ==
  TypeOK /\ Listed /\ [Next]_vars => Listed'
<1> SUFFICES ASSUME TypeOK, Listed, [Next]_vars
             PROVE  Listed'
  OBVIOUS
<1> USE McpServerAssumption
    DEF TypeOK, Listed, fileVars, callVars, slotVars, loginVars, serverVars
<1>1. CASE \E l \in Label : Save(l)
  BY <1>1 DEF Save
<1>2. ASSUME NEW k \in Call, \E l \in Label : Read(k, l)
      PROVE  Listed'
  BY <1>2 DEF Read, Goes
<1>3. ASSUME NEW k \in Call, FindSlot(k)
      PROVE  Listed'
  BY <1>3 DEF FindSlot, Goes
<1>4. ASSUME NEW k \in Call, Lock(k)
      PROVE  Listed'
  BY <1>4 DEF Lock, Goes, Dropped, Connecting, Current
<1>5. ASSUME NEW k \in Call, PingAnswers(k)
      PROVE  Listed'
  BY <1>5 DEF PingAnswers, Goes, Leave, Unlocked
<1>6. ASSUME NEW k \in Call, PingFails(k)
      PROVE  Listed'
  BY <1>6 DEF PingFails, Goes, Dropped, Connecting
<1>7. ASSUME NEW k \in Call, Status(k)
      PROVE  Listed'
  BY <1>7 DEF Status, Goes
<1>8. ASSUME NEW k \in Call, Join(k)
      PROVE  Listed'
  BY <1>8 DEF Join, Goes
<1>9. ASSUME NEW k \in Call, Joined(k)
      PROVE  Listed'
  BY <1>9 DEF Joined, Goes, Leave, Unlocked, Forget
<1>10. ASSUME NEW k \in Call, GiveUp(k)
      PROVE  Listed'
  BY <1>10 DEF GiveUp, Goes, Leave, Unlocked, Forget
<1>11. ASSUME NEW k \in Call, Opened(k)
      PROVE  Listed'
  BY <1>11 DEF Opened, Goes, Leave, Unlocked
<1>12. ASSUME NEW k \in Call, OpenFails(k)
      PROVE  Listed'
  BY <1>12 DEF OpenFails, Goes, Leave, Unlocked, Forget
<1>13. ASSUME NEW k \in Call, Return(k)
      PROVE  Listed'
  BY <1>13 DEF Return, Goes, Forget
<1>14. ASSUME NEW k \in Call, FlowEnds(k)
      PROVE  Listed'
  BY <1>14 DEF FlowEnds
<1>15. ASSUME NEW k \in Call, Unlist(k)
      PROVE  Listed'
  BY <1>15 DEF Unlist
<1>16. ASSUME NEW k \in Call, Announce(k)
      PROVE  Listed'
  BY <1>16 DEF Announce
<1>17. CASE Disconnect
  BY <1>17 DEF Disconnect
<1>18. CASE \E l \in Label : CloseSlot(l)
  BY <1>18 DEF CloseSlot, Dropped
<1>19. CASE Exit
  BY <1>19 DEF Exit
<1>20. CASE UNCHANGED vars
  BY <1>20 DEF vars
<1>21. ASSUME NEW k \in Call, Stall(k)
      PROVE  Listed'
  BY <1>21 DEF Stall, Goes
<1> QED
  BY <1>1, <1>2, <1>3, <1>4, <1>5, <1>6, <1>7, <1>8, <1>9, <1>10, <1>11,
     <1>12, <1>13, <1>14, <1>15, <1>16, <1>17, <1>18, <1>19, <1>20, <1>21
  DEF Next, Work, LogIn, Shutdown

-----------------------------------------------------------------------------
(* Theorems *)

\* Every reachable state satisfies the inductive invariant.
THEOREM Invariant == Spec => []IInv
<1>1. ASSUME IInv, [Next]_vars PROVE IInv'
  <2>1. TypeOK'
    BY <1>1, TypesStep DEF IInv
  <2>2. (Knowing /\ Awaiting /\ LocksOwn)'
    BY <1>1, CallsStep DEF IInv
  <2>3. (OpenIsKept /\ KeptAsRecorded /\ Vacated)'
    BY <1>1, KeptStep DEF IInv
  <2>4. (PingsOwn /\ ServedAsRead)'
    BY <1>1, ServedStep DEF IInv
  <2>5. Listed'
    BY <1>1, ListedStep DEF IInv
  <2> QED
    BY <2>1, <2>2, <2>3, <2>4, <2>5 DEF IInv
<1> QED
  BY <1>1, InitIInv, PTL DEF Spec

\* Types; the lock of a slot is held by exactly the call that is in it.
THEOREM TypeCorrect == Spec => []TypeOK
<1>1. IInv => TypeOK
  BY DEF IInv
<1> QED
  BY <1>1, Invariant, PTL

\* No call, retry or shutdown leaves a connection open without its slot.
THEOREM NothingLeft == Spec => []OpenIsKept
<1>1. IInv => OpenIsKept
  BY DEF IInv
<1> QED
  BY <1>1, Invariant, PTL

\* Whoever edits and reconnects meanwhile, a call queries through a connection
\* of its bookmark as it has read it.
THEOREM CallsAreServed == Spec => []ServedAsRead
<1>1. IInv => ServedAsRead
  BY DEF IInv
<1> QED
  BY <1>1, Invariant, PTL

\* However many calls need credentials, one login is open in the browser.
THEOREM LoginsAreShared == Spec => []OneLogin
<1>1. IInv => OneLogin
  BY DEF IInv, Listed, OneLogin
<1> QED
  BY <1>1, Invariant, PTL
=============================================================================
