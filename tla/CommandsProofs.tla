--------------------------- MODULE CommandsProofs ---------------------------
(***************************************************************************)
(* Proofs about Commands, for any commands and connections and a channel   *)
(* of any capacity: a command is in one place at a time, a run answered    *)
(* with success was shown or superseded, what was answered is visible in   *)
(* GET /state, and a dimmed tab awaits its result, unless it has none.     *)
(***************************************************************************)
EXTENDS Commands, SequenceTheorems, FiniteSetTheorems, TLAPS

-----------------------------------------------------------------------------
(* The inductive invariant *)

NoRepeat(s) == \A i, j \in DOMAIN s : s[i] = s[j] => i = j

Queued == UNION {Range(queue[k]) : k \in Conn}
Travelling == Queued \cup dying \cup leftBehind \cup goroutine \cup Range(results)

\* What has left the channel is in one place, once.
TravelsApart ==
  /\ NoRepeat(results)
  /\ \A k \in Conn : NoRepeat(queue[k])
  /\ \A k, l \in Conn : k # l => Range(queue[k]) \cap Range(queue[l]) = {}
  /\ Queued \cap (dying \cup leftBehind \cup goroutine \cup Range(results)) = {}
  /\ dying \cap (leftBehind \cup goroutine \cup Range(results)) = {}
  /\ leftBehind \cap (goroutine \cup Range(results)) = {}
  /\ goroutine \cap Range(results) = {}

\* No command is queued, or on its way, twice, ...
NowhereTwice == NoRepeat(commands) /\ TravelsApart

\* ... what is in the channel has not been handled, ...
Handled == {c \in Cmd : kind[c] # "none"}
Unhandled ==
  /\ \A c \in Range(commands) : c \in asked /\ kind[c] = "none"
  /\ \A c \in Cmd \ Handled : answer[c] = "none" /\ genOf[c] = 0
  /\ Travelling \cup unserved \subseteq Handled
  /\ Handled \subseteq asked

\* ... and a handled command is answered or travels, a click both.
AnsweredOrTravels ==
  \A c \in Cmd :
    /\ kind[c] = "click" => answer[c] # "none"
    /\ c \in Travelling => answer[c] = "none" \/ kind[c] = "click"
    /\ c \in Handled => answer[c] # "none" \/ c \in Travelling
    /\ c \in asked => c \in Handled \/ c \in Range(commands)

\* A tab is at the generation some command has given it, and none is ahead.
Generations ==
  /\ \A c \in Cmd : genOf[c] <= gen[place[c]]
  /\ \A k \in Conn :
       gen[k] = 0 \/ \E c \in Handled : place[c] = k /\ genOf[c] = gen[k]

\* While commands are handled, the snapshot is of the window as it is.
SnapshotIsFresh == frame = "commands" => snapshot = effects

Placed == NowhereTwice /\ Unhandled /\ AnsweredOrTravels

IInv ==
  /\ TypeOK
  /\ Placed
  /\ Generations
  /\ SnapshotIsFresh
  /\ OkMeansShown
  /\ DimmedIsAwaited

-----------------------------------------------------------------------------
(* Sequences without repetition *)

\* Appending adds one element, and no repetition if it is new.
LEMMA AppendRange ==
  ASSUME NEW S, NEW s \in Seq(S), NEW e \in S
  PROVE  /\ Append(s, e) \in Seq(S)
         /\ Len(Append(s, e)) = Len(s) + 1
         /\ Range(Append(s, e)) = Range(s) \cup {e}
         /\ NoRepeat(s) /\ e \notin Range(s) => NoRepeat(Append(s, e))
<1>1. /\ Append(s, e) \in Seq(S) /\ Len(Append(s, e)) = Len(s) + 1
      /\ \A i \in 1 .. Len(s) : Append(s, e)[i] = s[i]
      /\ Append(s, e)[Len(s) + 1] = e
      /\ Len(s) \in Nat
  BY AppendProperties, LenProperties
<1>2. DOMAIN s = 1 .. Len(s) /\ DOMAIN Append(s, e) = 1 .. (Len(s) + 1)
  BY <1>1, LenProperties
<1>3. Range(Append(s, e)) = Range(s) \cup {e}
  <2>1. Range(Append(s, e)) \subseteq Range(s) \cup {e}
    BY <1>1, <1>2 DEF Range
  <2>2. e \in Range(Append(s, e))
    BY <1>1, <1>2 DEF Range
  <2>3. Range(s) \subseteq Range(Append(s, e))
    BY <1>1, <1>2 DEF Range
  <2> QED
    BY <2>1, <2>2, <2>3
<1>4. NoRepeat(s) /\ e \notin Range(s) => NoRepeat(Append(s, e))
  BY <1>1, <1>2 DEF NoRepeat, Range
<1> QED
  BY <1>1, <1>3, <1>4

\* Taking the head away removes that element.
LEMMA TailRange ==
  ASSUME NEW S, NEW s \in Seq(S), s # <<>>
  PROVE  /\ Tail(s) \in Seq(S) /\ Len(Tail(s)) = Len(s) - 1
         /\ Head(s) \in S /\ Head(s) \in Range(s)
         /\ NoRepeat(s) => NoRepeat(Tail(s)) /\ Range(Tail(s)) = Range(s) \ {Head(s)}
<1>1. /\ Tail(s) \in Seq(S) /\ Len(Tail(s)) = Len(s) - 1
      /\ Head(s) \in S /\ Head(s) = s[1]
      /\ \A i \in 1 .. Len(Tail(s)) : Tail(s)[i] = s[i + 1]
      /\ Len(s) \in Nat \ {0}
  BY HeadTailProperties, LenProperties, EmptySeq
<1>2. DOMAIN s = 1 .. Len(s) /\ DOMAIN Tail(s) = 1 .. (Len(s) - 1)
  BY <1>1, LenProperties
<1>3. Head(s) \in Range(s)
  BY <1>1, <1>2 DEF Range
<1>4. ASSUME NoRepeat(s)
      PROVE  NoRepeat(Tail(s)) /\ Range(Tail(s)) = Range(s) \ {Head(s)}
  <2>1. NoRepeat(Tail(s))
    <3> SUFFICES ASSUME NEW i \in DOMAIN Tail(s), NEW j \in DOMAIN Tail(s),
                        Tail(s)[i] = Tail(s)[j]
                 PROVE  i = j
      BY DEF NoRepeat
    <3>1. i + 1 \in DOMAIN s /\ j + 1 \in DOMAIN s /\ s[i + 1] = s[j + 1]
      BY <1>1, <1>2
    <3>2. i + 1 = j + 1
      BY <1>4, <3>1 DEF NoRepeat
    <3> QED
      BY <1>2, <3>2
  <2>2. Range(Tail(s)) \subseteq Range(s) \ {Head(s)}
    <3> SUFFICES ASSUME NEW i \in DOMAIN Tail(s)
                 PROVE  Tail(s)[i] \in Range(s) \ {Head(s)}
      BY DEF Range
    <3>1. i + 1 \in DOMAIN s /\ Tail(s)[i] = s[i + 1] /\ i + 1 # 1 /\ 1 \in DOMAIN s
      BY <1>1, <1>2
    <3>2. s[i + 1] # s[1]
      BY <1>4, <3>1 DEF NoRepeat
    <3> QED
      BY <1>1, <3>1, <3>2 DEF Range
  <2>3. Range(s) \ {Head(s)} \subseteq Range(Tail(s))
    <3> SUFFICES ASSUME NEW i \in DOMAIN s, s[i] # s[1]
                 PROVE  s[i] \in Range(Tail(s))
      BY <1>1 DEF Range
    <3>1. i - 1 \in DOMAIN Tail(s) /\ Tail(s)[i - 1] = s[i]
      BY <1>1, <1>2
    <3> QED
      BY <3>1 DEF Range
  <2> QED
    BY <2>1, <2>2, <2>3
<1> QED
  BY <1>1, <1>3, <1>4

\* Nothing is in the empty sequence, and it repeats nothing.
LEMMA EmptyRange == Range(<<>>) = {} /\ NoRepeat(<<>>)
  BY DEF Range, NoRepeat

\* An element of a sequence without repetition is there once.
LEMMA TimesInOnce ==
  ASSUME NEW S, NEW s \in Seq(S), NEW c, NoRepeat(s)
  PROVE  TimesIn(c, s) = Flag(c \in Range(s))
<1>1. CASE c \in Range(s)
  <2>1. PICK i \in DOMAIN s : s[i] = c
    BY <1>1 DEF Range
  <2>2. {j \in DOMAIN s : s[j] = c} = {i}
    BY <2>1 DEF NoRepeat
  <2> QED
    BY <1>1, <2>2, FS_Singleton DEF TimesIn, Flag
<1>2. CASE c \notin Range(s)
  <2>1. {j \in DOMAIN s : s[j] = c} = {}
    BY <1>2 DEF Range
  <2> QED
    BY <1>2, <2>1, FS_EmptySet DEF TimesIn, Flag
<1> QED
  BY <1>1, <1>2

\* The elements of a sequence over a set are in the set.
LEMMA RangeIn == ASSUME NEW S, NEW s \in Seq(S) PROVE Range(s) \subseteq S
  BY ElementOfSeq, LenProperties DEF Range

-----------------------------------------------------------------------------
(* What the steps do to the places a command travels through *)

\* Where the results of connection k's runs may still come from.
OnWay(k) == Range(queue[k]) \cup dying \cup goroutine \cup Range(results)

\* A command taken from the channel has not been seen by anyone.
LEMMA TakeFacts ==
  ASSUME TypeOK, NowhereTwice, Unhandled,
         NEW c, NEW k, NEW at, k # "none", Take(c, k, at)
  PROVE  /\ c \in Cmd /\ c \in asked /\ c \in Range(commands)
         /\ kind[c] = "none" /\ answer[c] = "none" /\ genOf[c] = 0
         /\ c \notin Handled /\ c \notin Travelling /\ c \notin unserved
         /\ commands' \in Seq(Cmd) /\ Len(commands') <= CmdCap
         /\ NoRepeat(commands') /\ Range(commands') = Range(commands) \ {c}
         /\ Handled' = Handled \cup {c}
         /\ kind'[c] = k /\ place'[c] = at
         /\ \A d \in Cmd \ {c} : kind'[d] = kind[d] /\ place'[d] = place[d]
<1>1. commands \in Seq(Cmd) /\ commands # <<>> /\ c = Head(commands)
  BY DEF TypeOK, Take
<1>2. /\ c \in Cmd /\ c \in Range(commands)
      /\ commands' \in Seq(Cmd) /\ Len(commands') = Len(commands) - 1
      /\ NoRepeat(commands') /\ Range(commands') = Range(commands) \ {c}
  BY <1>1, TailRange DEF Take, NowhereTwice
<1>3. Len(commands) \in Nat /\ CmdCap \in Nat /\ Len(commands) <= CmdCap
  BY <1>1, LenProperties, CommandsAssumption DEF TypeOK
<1>4. /\ c \in asked /\ kind[c] = "none" /\ c \notin Handled
      /\ answer[c] = "none" /\ genOf[c] = 0
      /\ c \notin Travelling /\ c \notin unserved
  BY <1>2 DEF Unhandled, Handled
<1>5. /\ kind'[c] = k /\ place'[c] = at
      /\ \A d \in Cmd \ {c} : kind'[d] = kind[d] /\ place'[d] = place[d]
  BY <1>2 DEF Take, TypeOK
<1>6. Handled' = Handled \cup {c}
  BY <1>2, <1>5 DEF Handled
<1> QED
  BY <1>2, <1>3, <1>4, <1>5, <1>6

\* A command is sent to a worker.
LEMMA Sent ==
  ASSUME TypeOK, TravelsApart, NEW c \in Cmd, c \notin Travelling, NEW k \in Conn,
         queue' = [queue EXCEPT ![k] = Append(@, c)],
         UNCHANGED <<dying, leftBehind, goroutine, results>>
  PROVE  /\ TravelsApart' /\ Travelling' = Travelling \cup {c}
         /\ queue' \in [Conn -> Seq(Cmd)] /\ c \in OnWay(k)'
         /\ \A l \in Conn : OnWay(l) \subseteq OnWay(l)'
<1>1. queue[k] \in Seq(Cmd) /\ c \notin Range(queue[k]) /\ NoRepeat(queue[k])
  BY DEF TypeOK, Travelling, Queued, TravelsApart
<1>2. /\ queue'[k] = Append(queue[k], c)
      /\ \A l \in Conn \ {k} : queue'[l] = queue[l]
  BY DEF TypeOK
<1>3. /\ queue'[k] \in Seq(Cmd) /\ NoRepeat(queue'[k])
      /\ Range(queue'[k]) = Range(queue[k]) \cup {c}
  BY <1>1, <1>2, AppendRange
<1>4. queue' \in [Conn -> Seq(Cmd)]
  BY <1>1, <1>2, <1>3 DEF TypeOK
<1>5. Queued' = Queued \cup {c}
  BY <1>2, <1>3 DEF Queued
<1>6. Travelling' = Travelling \cup {c}
  BY <1>5 DEF Travelling
<1>7. TravelsApart'
  <2>1. \A l \in Conn : NoRepeat(queue'[l])
    BY <1>2, <1>3 DEF TravelsApart
  <2>2. \A l, m \in Conn : l # m => Range(queue'[l]) \cap Range(queue'[m]) = {}
    BY <1>2, <1>3 DEF TravelsApart, Travelling, Queued
  <2>3. (Queued' \cap (dying \cup leftBehind \cup goroutine \cup Range(results))) = {}
    BY <1>5 DEF TravelsApart, Travelling
  <2> QED
    BY <2>1, <2>2, <2>3 DEF TravelsApart
<1>8. c \in OnWay(k)' /\ \A l \in Conn : OnWay(l) \subseteq OnWay(l)'
  BY <1>2, <1>3 DEF OnWay
<1> QED
  BY <1>4, <1>6, <1>7, <1>8

\* A worker is stopped; a goroutine may start.
LEMMA Stopped ==
  ASSUME TypeOK, TravelsApart, NEW k \in Conn, StopWorker(k),
         NEW G \in SUBSET Cmd, G \cap Travelling = {}, goroutine' = goroutine \cup G,
         UNCHANGED <<leftBehind, results>>
  PROVE  /\ TravelsApart' /\ Travelling' = Travelling \cup G
         /\ queue' \in [Conn -> Seq(Cmd)] /\ dying' \subseteq Cmd
         /\ \A l \in Conn : OnWay(l) \subseteq OnWay(l)'
<1>1. queue[k] \in Seq(Cmd) /\ Range(queue[k]) \subseteq Cmd
  BY RangeIn DEF TypeOK
<1>2. queue'[k] = <<>> /\ \A l \in Conn \ {k} : queue'[l] = queue[l]
  BY DEF TypeOK, StopWorker
<1>3. <<>> \in Seq(Cmd) /\ Range(queue'[k]) = {} /\ NoRepeat(queue'[k])
  BY <1>2, EmptyRange
<1>4. queue' \in [Conn -> Seq(Cmd)] /\ dying' \subseteq Cmd
  BY <1>1, <1>2, <1>3 DEF TypeOK, StopWorker
<1>5. /\ Queued = Queued' \cup Range(queue[k])
      /\ Queued' \cap Range(queue[k]) = {}
  BY <1>2, <1>3 DEF Queued, TravelsApart
<1>6. dying' = dying \cup Range(queue[k])
  BY DEF StopWorker
<1>7. Travelling' = Travelling \cup G
  BY <1>5, <1>6 DEF Travelling
<1>8. TravelsApart'
  <2>1. \A l \in Conn : NoRepeat(queue'[l])
    BY <1>2, <1>3 DEF TravelsApart
  <2>2. \A l, m \in Conn : l # m => Range(queue'[l]) \cap Range(queue'[m]) = {}
    BY <1>2, <1>3 DEF TravelsApart
  <2>3. (Queued' \cap (dying' \cup leftBehind \cup goroutine' \cup Range(results))) = {}
    BY <1>5, <1>6 DEF TravelsApart, Travelling
  <2>4. /\ dying' \cap (leftBehind \cup goroutine' \cup Range(results)) = {}
        /\ leftBehind \cap (goroutine' \cup Range(results)) = {}
        /\ goroutine' \cap Range(results) = {}
    BY <1>5, <1>6 DEF TravelsApart, Travelling
  <2> QED
    BY <2>1, <2>2, <2>3, <2>4 DEF TravelsApart
<1>9. \A l \in Conn : OnWay(l) \subseteq OnWay(l)'
  BY <1>2, <1>3, <1>6 DEF OnWay
<1> QED
  BY <1>4, <1>7, <1>8, <1>9

\* A goroutine starts for a command.
LEMMA Started ==
  ASSUME TravelsApart, NEW c \in Cmd, c \notin Travelling,
         goroutine' = goroutine \cup {c},
         UNCHANGED <<queue, dying, leftBehind, results>>
  PROVE  /\ TravelsApart' /\ Travelling' = Travelling \cup {c}
         /\ \A l \in Conn : OnWay(l) \subseteq OnWay(l)'
  BY DEF TravelsApart, Travelling, Queued, OnWay

\* Work ends, or is abandoned: the command only changes place.
LEMMA Moved ==
  ASSUME TypeOK, TravelsApart,
         \/ \E k \in Conn : Finish(k)
         \/ \E c \in Cmd : FinishDying(c) \/ Abandon(c) \/ Land(c)
  PROVE  /\ TravelsApart' /\ Travelling' = Travelling
         /\ queue' \in [Conn -> Seq(Cmd)] /\ results' \in Seq(Cmd)
         /\ \A l \in Conn : OnWay(l) \subseteq OnWay(l)' \cup leftBehind'
<1>1. ASSUME NEW k \in Conn, Finish(k)
      PROVE  /\ TravelsApart' /\ Travelling' = Travelling
             /\ queue' \in [Conn -> Seq(Cmd)] /\ results' \in Seq(Cmd)
             /\ \A l \in Conn : OnWay(l) \subseteq OnWay(l)' \cup leftBehind'
  <2> DEFINE c == Head(queue[k])
  <2>1. /\ queue[k] \in Seq(Cmd) /\ queue[k] # <<>> /\ NoRepeat(queue[k])
        /\ results \in Seq(Cmd) /\ NoRepeat(results)
    BY <1>1 DEF TypeOK, Finish, TravelsApart
  <2>2. /\ queue'[k] = Tail(queue[k])
        /\ \A l \in Conn \ {k} : queue'[l] = queue[l]
        /\ results' = Append(results, c)
    BY <1>1 DEF TypeOK, Finish
  <2>3. /\ c \in Cmd /\ c \in Range(queue[k])
        /\ queue'[k] \in Seq(Cmd) /\ NoRepeat(queue'[k])
        /\ Range(queue'[k]) = Range(queue[k]) \ {c}
    BY <2>1, <2>2, TailRange
  <2>4. c \notin Range(results)
    BY <2>3 DEF TravelsApart, Queued
  <2>5. /\ results' \in Seq(Cmd) /\ NoRepeat(results')
        /\ Range(results') = Range(results) \cup {c}
    BY <2>1, <2>2, <2>3, <2>4, AppendRange
  <2>6. UNCHANGED <<dying, leftBehind, goroutine>>
    BY <1>1 DEF Finish
  <2> HIDE DEF c
  <2>7. queue' \in [Conn -> Seq(Cmd)]
    BY <1>1, <2>2, <2>3 DEF TypeOK, Finish
  <2>8. Queued' = Queued \ {c}
    <3>1. \A l \in Conn \ {k} : c \notin Range(queue[l])
      BY <2>3 DEF TravelsApart
    <3> QED
      BY <2>2, <2>3, <3>1 DEF Queued
  <2>9. Travelling' = Travelling /\ c \in Queued
    BY <2>3, <2>5, <2>6, <2>8 DEF Travelling, Queued
  <2>10. TravelsApart'
    <3>1. \A l \in Conn : NoRepeat(queue'[l])
      BY <2>2, <2>3 DEF TravelsApart
    <3>2. \A l, m \in Conn : l # m => Range(queue'[l]) \cap Range(queue'[m]) = {}
      BY <2>2, <2>3 DEF TravelsApart
    <3>3. (Queued' \cap (dying' \cup leftBehind' \cup goroutine' \cup Range(results'))) = {}
      BY <2>5, <2>6, <2>8 DEF TravelsApart
    <3>4. c \notin dying \cup leftBehind \cup goroutine
      BY <2>9 DEF TravelsApart
    <3> QED
      BY <2>5, <2>6, <3>1, <3>2, <3>3, <3>4 DEF TravelsApart
  <2>11. \A l \in Conn : OnWay(l) \subseteq OnWay(l)'
    BY <2>2, <2>3, <2>5, <2>6 DEF OnWay
  <2> QED
    BY <2>5, <2>7, <2>9, <2>10, <2>11
<1>2. ASSUME NEW c \in Cmd, FinishDying(c) \/ Land(c)
      PROVE  /\ TravelsApart' /\ Travelling' = Travelling
             /\ queue' \in [Conn -> Seq(Cmd)] /\ results' \in Seq(Cmd)
             /\ \A l \in Conn : OnWay(l) \subseteq OnWay(l)' \cup leftBehind'
  <2>1. /\ c \notin Range(results) /\ results' = Append(results, c)
        /\ results \in Seq(Cmd) /\ NoRepeat(results)
        /\ UNCHANGED <<queue, leftBehind>> /\ queue \in [Conn -> Seq(Cmd)]
    BY <1>2 DEF TravelsApart, FinishDying, Land, TypeOK
  <2>2. /\ results' \in Seq(Cmd) /\ NoRepeat(results')
        /\ Range(results') = Range(results) \cup {c}
    BY <2>1, AppendRange
  <2>3. Queued' = Queued
    BY <2>1 DEF Queued
  <2>4. \/ c \in dying /\ dying' = dying \ {c} /\ goroutine' = goroutine
        \/ c \in goroutine /\ goroutine' = goroutine \ {c} /\ dying' = dying
    BY <1>2 DEF FinishDying, Land
  <2>5. Travelling' = Travelling
    BY <2>1, <2>2, <2>3, <2>4 DEF Travelling
  <2>6. TravelsApart'
    BY <2>1, <2>2, <2>3, <2>4 DEF TravelsApart
  <2>7. \A l \in Conn : OnWay(l) \subseteq OnWay(l)'
    BY <2>1, <2>2, <2>4 DEF OnWay
  <2> QED
    BY <2>1, <2>2, <2>5, <2>6, <2>7
<1>3. ASSUME NEW c \in Cmd, Abandon(c)
      PROVE  /\ TravelsApart' /\ Travelling' = Travelling
             /\ queue' \in [Conn -> Seq(Cmd)] /\ results' \in Seq(Cmd)
             /\ \A l \in Conn : OnWay(l) \subseteq OnWay(l)' \cup leftBehind'
  <2>1. /\ c \in dying /\ dying' = dying \ {c} /\ leftBehind' = leftBehind \cup {c}
        /\ UNCHANGED <<queue, goroutine, results>>
        /\ queue \in [Conn -> Seq(Cmd)] /\ results \in Seq(Cmd)
    BY <1>3 DEF Abandon, TypeOK
  <2>2. Travelling' = Travelling
    BY <2>1 DEF Travelling, Queued
  <2>3. TravelsApart'
    BY <2>1 DEF TravelsApart, Queued
  <2>4. \A l \in Conn : OnWay(l) \subseteq OnWay(l)' \cup leftBehind'
    BY <2>1 DEF OnWay
  <2> QED
    BY <2>1, <2>2, <2>3, <2>4
<1> QED
  BY <1>1, <1>2, <1>3

\* Polling takes one command from the results.
LEMMA Polled ==
  ASSUME TypeOK, TravelsApart, NEW c, Poll(c), UNCHANGED <<queue, goroutine>>
  PROVE  /\ TravelsApart' /\ Travelling' = Travelling \ {c} /\ c \in Travelling
         /\ results' \in Seq(Cmd) /\ c \in Cmd
         /\ \A l \in Conn : OnWay(l) \ {c} \subseteq OnWay(l)'
<1>1. /\ results \in Seq(Cmd) /\ results # <<>> /\ c = Head(results)
      /\ NoRepeat(results) /\ results' = Tail(results)
      /\ UNCHANGED <<queue, dying, leftBehind, goroutine>>
  BY DEF Poll, TypeOK, TravelsApart
<1>2. /\ results' \in Seq(Cmd) /\ NoRepeat(results') /\ c \in Cmd
      /\ c \in Range(results) /\ Range(results') = Range(results) \ {c}
  BY <1>1, TailRange
<1>3. Queued' = Queued
  BY <1>1 DEF Queued
<1>4. Travelling' = Travelling \ {c} /\ c \in Travelling
  BY <1>1, <1>2, <1>3 DEF Travelling, TravelsApart
<1>5. TravelsApart'
  BY <1>1, <1>2, <1>3 DEF TravelsApart
<1>6. \A l \in Conn : OnWay(l) \ {c} \subseteq OnWay(l)'
  BY <1>1, <1>2 DEF OnWay
<1> QED
  BY <1>2, <1>4, <1>5, <1>6

\* ... and what the worker replaced by a reconnect had goes on without it.
LEMMA PolledReplaced ==
  ASSUME TypeOK, TravelsApart, NEW c, Poll(c), NEW k \in Conn,
         goroutine' = goroutine \cup Range(queue[k]),
         queue' = [queue EXCEPT ![k] = <<>>]
  PROVE  /\ TravelsApart' /\ Travelling' = Travelling \ {c} /\ c \in Travelling
         /\ results' \in Seq(Cmd) /\ c \in Cmd
         /\ queue' \in [Conn -> Seq(Cmd)] /\ goroutine' \subseteq Cmd
         /\ \A l \in Conn : OnWay(l) \ {c} \subseteq OnWay(l)'
<1>1. /\ results \in Seq(Cmd) /\ results # <<>> /\ c = Head(results)
      /\ NoRepeat(results) /\ results' = Tail(results)
      /\ UNCHANGED <<dying, leftBehind>>
  BY DEF Poll, TypeOK, TravelsApart
<1>2. /\ results' \in Seq(Cmd) /\ NoRepeat(results') /\ c \in Cmd
      /\ c \in Range(results) /\ Range(results') = Range(results) \ {c}
  BY <1>1, TailRange
<1>3. Range(queue[k]) \subseteq Cmd
  BY RangeIn DEF TypeOK
<1>4. queue'[k] = <<>> /\ \A l \in Conn \ {k} : queue'[l] = queue[l]
  BY DEF TypeOK
<1>5. <<>> \in Seq(Cmd) /\ Range(queue'[k]) = {} /\ NoRepeat(queue'[k])
  BY <1>4, EmptyRange
<1>6. queue' \in [Conn -> Seq(Cmd)] /\ goroutine' \subseteq Cmd
  BY <1>3, <1>4, <1>5 DEF TypeOK
<1>7. /\ Queued = Queued' \cup Range(queue[k])
      /\ Queued' \cap Range(queue[k]) = {}
  BY <1>4, <1>5 DEF Queued, TravelsApart
<1>8. Travelling' = Travelling \ {c} /\ c \in Travelling
  BY <1>1, <1>2, <1>7 DEF Travelling, TravelsApart
<1>9. TravelsApart'
  <2>1. \A l \in Conn : NoRepeat(queue'[l])
    BY <1>4, <1>5 DEF TravelsApart
  <2>2. \A l, m \in Conn : l # m => Range(queue'[l]) \cap Range(queue'[m]) = {}
    BY <1>4, <1>5 DEF TravelsApart
  <2>3. /\ Queued' \cap (dying \cup leftBehind \cup goroutine' \cup Range(results')) = {}
        /\ dying \cap (leftBehind \cup goroutine' \cup Range(results')) = {}
        /\ leftBehind \cap (goroutine' \cup Range(results')) = {}
        /\ goroutine' \cap Range(results') = {}
    BY <1>2, <1>7 DEF TravelsApart
  <2> QED
    BY <1>1, <1>2, <2>1, <2>2, <2>3 DEF TravelsApart
<1>10. \A l \in Conn : OnWay(l) \ {c} \subseteq OnWay(l)'
  BY <1>1, <1>2, <1>4, <1>5 DEF OnWay
<1> QED
  BY <1>2, <1>6, <1>8, <1>9, <1>10

-----------------------------------------------------------------------------
(* The steps *)

\* What only touches the window: done, or refused, and answered.
OnTheSpot(c) ==
  /\ Take(c, "step", Mem)
  /\ Respond(c, "ok") \/ Respond(c, "error")
  /\ active' \in rail
  /\ UNCHANGED <<skipPoll, travelVars, remote, rail, staffed, tabVars, effects>>

\* A run of k's tab: one that no worker takes is an error, and a click does not wait.
RunsFor(c, what, k) ==
  /\ Take(c, what, k)
  /\ k \in rail
  /\ Run(c, k)
  /\ \/ what # "click" /\ k \in staffed /\ Unanswered
     \/ what # "click" /\ k \notin staffed /\ Respond(c, "error")
     \/ what = "click" /\ Respond(c, "ok")
  /\ active' \in rail
  /\ UNCHANGED <<remote, rail, staffed>>

\* Nothing happens that anybody but a stalled goroutine would notice.
Quiet == UNCHANGED <<frameVars, serverVars, whatVars, travelVars, connVars, tabVars, effects>>

\* Every step is one of these.
LEMMA Steps ==
  ASSUME TypeOK, [Next]_vars
  PROVE  \/ Quiet
         \/ CommandsDrained \/ PollDone
         \/ \E c \in Cmd :
              \/ Submit(c)
              \/ OnTheSpot(c) \/ HandleCloseTab(c)
              \/ \E what \in {"run", "click", "file"}, k \in Conn : RunsFor(c, what, k)
              \/ \E k \in Conn : HandleOpenDB(c, k) \/ HandleClose(c, k)
                                \/ HandleReconnect(c, k)
              \/ PollStale(c) \/ PollUnreadable(c) \/ PollFailed(c)
              \/ PollOpened(c) \/ PollReconnected(c)
              \/ \E ok \in BOOLEAN : PollRun(c, ok)
         \/ \E k \in Conn : Finish(k)
         \/ \E c \in Cmd : FinishDying(c) \/ Abandon(c) \/ Land(c)
<1>1. active \in Conn /\ active \in rail /\ Mem \in Conn /\ Mem \in rail /\ Mem \in staffed
  BY DEF TypeOK
<1>2. ASSUME NEW c \in Cmd,
             \/ HandleRefused(c) \/ HandleTab(c) \/ HandleRows(c) \/ HandleScreen(c)
             \/ HandlePanel(c) \/ HandleRead(c)
      PROVE  OnTheSpot(c)
  BY <1>1, <1>2 DEF OnTheSpot, HandleRefused, HandleTab, HandleRows, HandleScreen,
     HandlePanel, HandleRead, Done, connVars
<1>3. ASSUME NEW c \in Cmd, NEW k \in Conn, HandleSelect(c, k)
      PROVE  OnTheSpot(c)
  BY <1>3 DEF OnTheSpot, HandleSelect
<1>4. ASSUME NEW c \in Cmd, HandleRun(c)
      PROVE  RunsFor(c, "run", active)
  BY <1>1, <1>4 DEF RunsFor, HandleRun, connVars
<1>5. ASSUME NEW c \in Cmd, HandleClick(c)
      PROVE  RunsFor(c, "click", active)
  BY <1>1, <1>5 DEF RunsFor, HandleClick, connVars
<1>6. ASSUME NEW c \in Cmd, HandleOpenFile(c)
      PROVE  RunsFor(c, "file", Mem)
  BY <1>1, <1>6 DEF RunsFor, HandleOpenFile
<1>7. ASSUME UNCHANGED vars \/ \E c \in Cmd : Stall(c)
      PROVE  Quiet
  BY <1>7 DEF Quiet, vars, Stall
<1> QED
  BY <1>1, <1>2, <1>3, <1>4, <1>5, <1>6, <1>7 DEF Next, FrameStep, Works, Dies

-----------------------------------------------------------------------------
(* Types *)

\* Every step keeps the types.
LEMMA TypeStep ==
  ASSUME TypeOK, NowhereTwice, Unhandled, [Next]_vars
  PROVE  TypeOK'
<1>0. stalled' \subseteq Cmd
  BY DEF TypeOK, Next, Stall, vars
<1> USE <1>0
<1>1. CASE Quiet
  BY <1>1 DEF TypeOK, Quiet, frameVars, serverVars, whatVars, travelVars, connVars, tabVars
<1>2. CASE CommandsDrained
  BY <1>2 DEF TypeOK, CommandsDrained, serverVars, whatVars, travelVars, connVars, tabVars
<1>3. CASE PollDone
  BY <1>3 DEF TypeOK, PollDone, Cached, SkipFrame, serverVars, whatVars, travelVars,
     connVars, tabVars
<1>4. ASSUME NEW c \in Cmd, Submit(c)
      PROVE  TypeOK'
  <2>1. commands' \in Seq(Cmd) /\ Len(commands') <= CmdCap
    <3>1. commands \in Seq(Cmd) /\ Len(commands) \in Nat /\ Len(commands) < CmdCap
      BY <1>4, LenProperties DEF TypeOK, Submit
    <3>2. Len(commands') = Len(commands) + 1 /\ commands' \in Seq(Cmd)
      BY <1>4, <3>1, AppendRange DEF Submit
    <3> QED
      BY <3>1, <3>2, CommandsAssumption
  <2> QED
    BY <1>4, <2>1 DEF TypeOK, Submit, frameVars, whatVars, travelVars, connVars, tabVars
<1>5. ASSUME NEW c, NEW k \in {"step", "run", "click", "file", "fresh", "open", "reconnect"},
             NEW at \in Conn, Take(c, k, at)
      PROVE  /\ frame' \in {"poll", "commands"} /\ snapshot' \subseteq Cmd
             /\ commands' \in Seq(Cmd) /\ Len(commands') <= CmdCap
             /\ kind' \in [Cmd -> {"none", "step", "run", "click", "file", "fresh", "open",
                                  "reconnect"}]
             /\ place' \in [Cmd -> Conn]
             /\ c \in Cmd /\ c \notin Travelling
  <2>1. c \in Cmd /\ c \notin Travelling /\ commands' \in Seq(Cmd) /\ Len(commands') <= CmdCap
    BY <1>5, TakeFacts
  <2> QED
    BY <1>5, <2>1 DEF Take, TypeOK
<1>6. ASSUME NEW c \in Cmd, NEW a \in {"ok", "error"}, Respond(c, a)
      PROVE  asked' \subseteq Cmd /\ answer' \in [Cmd -> {"none", "ok", "error"}]
  BY <1>6 DEF Respond, TypeOK
<1>7. ASSUME Unanswered
      PROVE  asked' \subseteq Cmd /\ answer' \in [Cmd -> {"none", "ok", "error"}]
  BY <1>7 DEF Unanswered, TypeOK
<1>8. ASSUME NEW c \in Cmd, OnTheSpot(c)
      PROVE  TypeOK'
  <2>1. Mem \in Conn /\ Take(c, "step", Mem)
    BY <1>8, CommandsAssumption DEF OnTheSpot
  <2>2. asked' \subseteq Cmd /\ answer' \in [Cmd -> {"none", "ok", "error"}]
    BY <1>6, <1>8 DEF OnTheSpot
  <2> QED
    BY <1>5, <1>8, <2>1, <2>2 DEF TypeOK, OnTheSpot, travelVars, tabVars
<1>9. ASSUME NEW c \in Cmd, HandleCloseTab(c)
      PROVE  TypeOK'
  <2>1. active \in Conn /\ NextGen(active) \in Nat /\ Take(c, "fresh", active)
    BY <1>9 DEF TypeOK, HandleCloseTab, NextGen
  <2>2. asked' \subseteq Cmd /\ answer' \in [Cmd -> {"none", "ok", "error"}]
    BY <1>6, <1>9 DEF HandleCloseTab
  <2>3. gen' \in [Conn -> Nat] /\ genOf' \in [Cmd -> Nat] /\ dimmed' \subseteq rail
    BY <1>9, <2>1 DEF TypeOK, HandleCloseTab
  <2> QED
    BY <1>5, <1>9, <2>1, <2>2, <2>3 DEF TypeOK, HandleCloseTab, travelVars, connVars
<1>10. ASSUME NEW c \in Cmd, NEW what \in {"run", "click", "file"}, NEW k \in Conn,
              RunsFor(c, what, k)
       PROVE  TypeOK'
  <2>1. NextGen(k) \in Nat /\ Take(c, what, k) /\ Run(c, k) /\ k \in rail
    BY <1>10 DEF TypeOK, RunsFor, NextGen
  <2>2. asked' \subseteq Cmd /\ answer' \in [Cmd -> {"none", "ok", "error"}]
    BY <1>6, <1>7, <1>10 DEF RunsFor
  <2>3. gen' \in [Conn -> Nat] /\ genOf' \in [Cmd -> Nat] /\ dimmed' \subseteq rail
    BY <2>1 DEF TypeOK, Run, Carried
  <2>4. queue' \in [Conn -> Seq(Cmd)] /\ unserved' \subseteq Cmd
    <3>1. CASE k \in staffed
      <4>1. c \notin Travelling /\ TravelsApart
        BY <1>5, <2>1 DEF NowhereTwice
      <4>2. /\ queue' = [queue EXCEPT ![k] = Append(@, c)] /\ unserved' = unserved
            /\ UNCHANGED <<dying, leftBehind, goroutine, results>>
        BY <2>1, <3>1 DEF Run
      <4>3. queue' \in [Conn -> Seq(Cmd)]
        BY <4>1, <4>2, Sent
      <4> QED
        BY <4>2, <4>3 DEF TypeOK
    <3>2. CASE k \notin staffed
      BY <2>1, <3>2 DEF Run, TypeOK
    <3> QED
      BY <3>1, <3>2
  <2>5. /\ skipPoll' \in BOOLEAN /\ active' \in rail /\ UNCHANGED <<remote, rail, staffed>>
        /\ UNCHANGED <<dying, leftBehind, goroutine, results, effects>>
    BY <1>10, <2>1 DEF RunsFor, Run
  <2>6. /\ frame' \in {"poll", "commands"} /\ snapshot' \subseteq Cmd
        /\ commands' \in Seq(Cmd) /\ Len(commands') <= CmdCap
        /\ kind' \in [Cmd -> {"none", "step", "run", "click", "file", "fresh", "open",
                             "reconnect"}]
        /\ place' \in [Cmd -> Conn]
    BY <1>5, <2>1
  <2> QED
    BY <2>2, <2>3, <2>4, <2>5, <2>6 DEF TypeOK
<1>11. ASSUME NEW c \in Cmd, NEW k \in Conn, HandleOpenDB(c, k)
       PROVE  TypeOK'
  BY <1>5, <1>7, <1>11 DEF TypeOK, HandleOpenDB, connVars, tabVars
<1>12. ASSUME NEW c \in Cmd, NEW k \in Conn, HandleClose(c, k)
       PROVE  TypeOK'
  <2>1. Mem \in Conn /\ Take(c, "step", Mem) /\ StopWorker(k) /\ Respond(c, "ok")
    BY <1>12, CommandsAssumption DEF HandleClose
  <2>2. queue' \in [Conn -> Seq(Cmd)] /\ dying' \subseteq Cmd
    <3>1. /\ {} \in SUBSET Cmd /\ {} \cap Travelling = {}
          /\ goroutine' = goroutine \cup {} /\ UNCHANGED <<leftBehind, results>>
      BY <1>12 DEF HandleClose
    <3> QED
      BY <2>1, <3>1, Stopped DEF NowhereTwice
  <2>3. asked' \subseteq Cmd /\ answer' \in [Cmd -> {"none", "ok", "error"}]
    BY <1>6, <2>1
  <2> QED
    BY <1>5, <1>12, <2>1, <2>2, <2>3 DEF TypeOK, HandleClose, StopWorker
<1>13. ASSUME NEW c \in Cmd, NEW k \in Conn, HandleReconnect(c, k)
       PROVE  TypeOK'
  <2>1. Take(c, "reconnect", k) /\ StopWorker(k) /\ Unanswered /\ k # Mem
    BY <1>13 DEF HandleReconnect, TypeOK
  <2>2. queue' \in [Conn -> Seq(Cmd)] /\ dying' \subseteq Cmd
    <3>1. /\ {c} \in SUBSET Cmd /\ {c} \cap Travelling = {}
          /\ goroutine' = goroutine \cup {c} /\ UNCHANGED <<leftBehind, results>>
      BY <1>5, <1>13, <2>1 DEF HandleReconnect
    <3> QED
      BY <2>1, <3>1, Stopped DEF NowhereTwice
  <2>3. /\ frame' \in {"poll", "commands"} /\ snapshot' \subseteq Cmd
        /\ commands' \in Seq(Cmd) /\ Len(commands') <= CmdCap
        /\ kind' \in [Cmd -> {"none", "step", "run", "click", "file", "fresh", "open",
                             "reconnect"}]
        /\ place' \in [Cmd -> Conn]
    BY <1>5, <2>1
  <2>4. /\ asked' \subseteq Cmd /\ answer' \in [Cmd -> {"none", "ok", "error"}]
    BY <1>7, <2>1
  <2>5. staffed' = staffed \ {k} /\ staffed' \subseteq rail /\ Mem \in staffed'
    BY <2>1 DEF StopWorker, TypeOK
  <2>6. /\ goroutine' = goroutine \cup {c} /\ goroutine' \subseteq Cmd
        /\ UNCHANGED <<skipPoll, leftBehind, results, remote, rail, active, gen, genOf>>
        /\ UNCHANGED <<dimmed, unserved, effects>>
    BY <1>13 DEF HandleReconnect, tabVars, TypeOK
  <2> QED
    BY <2>2, <2>3, <2>4, <2>5, <2>6 DEF TypeOK
<1>14. ASSUME NEW c, Poll(c), UNCHANGED <<queue, goroutine>>
       PROVE  c \in Cmd /\ results' \in Seq(Cmd) /\ place[c] \in Conn
  BY <1>14, Polled DEF NowhereTwice, TypeOK
<1>15. ASSUME NEW c \in Cmd, NEW a \in {"ok", "error"}, Reply(c, a)
       PROVE  asked' \subseteq Cmd /\ answer' \in [Cmd -> {"none", "ok", "error"}]
  BY <1>6, <1>7, <1>15 DEF Reply
<1>16. ASSUME NEW c \in Cmd, PollStale(c)
       PROVE  TypeOK'
  BY <1>14, <1>15, <1>16 DEF TypeOK, PollStale, AnswerStale, Poll, frameVars, whatVars,
     connVars, tabVars
<1>17. ASSUME NEW c \in Cmd, NEW ok \in BOOLEAN, PollRun(c, ok)
       PROVE  TypeOK'
  <2>1. asked' \subseteq Cmd /\ answer' \in [Cmd -> {"none", "ok", "error"}]
    BY <1>15, <1>17 DEF PollRun
  <2>2. effects' \subseteq Cmd /\ dimmed' \subseteq rail
    BY <1>17 DEF PollRun, TypeOK, Undimmed
  <2> QED
    BY <1>14, <1>17, <2>1, <2>2 DEF TypeOK, PollRun, Poll, frameVars, whatVars, connVars
<1>18. ASSUME NEW c \in Cmd, PollFailed(c)
       PROVE  TypeOK'
  BY <1>6, <1>14, <1>18 DEF TypeOK, PollFailed, Poll, frameVars, whatVars, connVars, tabVars
<1>19. ASSUME NEW c \in Cmd, PollOpened(c)
       PROVE  TypeOK'
  <2>1. asked' \subseteq Cmd /\ answer' \in [Cmd -> {"none", "ok", "error"}]
    BY <1>6, <1>19 DEF PollOpened
  <2>2. results' \in Seq(Cmd) /\ place[c] \in Conn /\ NextGen(place[c]) \in Nat
    BY <1>14, <1>19 DEF PollOpened, TypeOK, NextGen
  <2>3. gen' \in [Conn -> Nat] /\ genOf' \in [Cmd -> Nat]
    BY <1>19, <2>2 DEF PollOpened, TypeOK
  <2>4. /\ rail' \subseteq Conn /\ staffed' \subseteq rail' /\ Mem \in staffed'
        /\ active' \in rail' /\ dimmed' \subseteq rail' /\ effects' \subseteq Cmd
    BY <1>19, <2>2 DEF PollOpened, TypeOK
  <2>5. /\ UNCHANGED <<frame, skipPoll, snapshot, commands, kind, place>>
        /\ UNCHANGED <<queue, dying, leftBehind, goroutine, remote, unserved>>
    BY <1>19 DEF PollOpened, Poll, frameVars, whatVars
  <2> QED
    BY <2>1, <2>2, <2>3, <2>4, <2>5 DEF TypeOK
<1>20. ASSUME NEW c \in Cmd, PollReconnected(c)
       PROVE  TypeOK'
  <2>1. asked' \subseteq Cmd /\ answer' \in [Cmd -> {"none", "ok", "error"}]
    BY <1>6, <1>20 DEF PollReconnected
  <2>2. place[c] \in Conn /\ Poll(c)
    BY <1>20 DEF PollReconnected, TypeOK
  <2>3. /\ results' \in Seq(Cmd) /\ queue' \in [Conn -> Seq(Cmd)]
        /\ goroutine' \subseteq Cmd
    <3>1. CASE place[c] \in rail
      BY <1>20, <2>2, <3>1, PolledReplaced DEF PollReconnected, NowhereTwice
    <3>2. CASE place[c] \notin rail
      BY <1>14, <1>20, <2>2, <3>2 DEF PollReconnected, TypeOK
    <3> QED
      BY <3>1, <3>2
  <2>4. staffed' \subseteq rail /\ Mem \in staffed' /\ effects' \subseteq Cmd
    BY <1>20, <2>2 DEF PollReconnected, TypeOK
  <2> QED
    BY <1>20, <2>1, <2>2, <2>3, <2>4 DEF TypeOK, PollReconnected, Poll, frameVars, whatVars,
       tabVars
<1>21. CASE \/ \E k \in Conn : Finish(k)
            \/ \E c \in Cmd : FinishDying(c) \/ Abandon(c) \/ Land(c)
  <2>1. queue' \in [Conn -> Seq(Cmd)] /\ results' \in Seq(Cmd)
    BY <1>21, Moved DEF NowhereTwice
  <2>2. dying' \subseteq Cmd /\ leftBehind' \subseteq Cmd /\ goroutine' \subseteq Cmd
    BY <1>21 DEF TypeOK, Finish, FinishDying, Abandon, Land
  <2>3. UNCHANGED <<frameVars, serverVars, whatVars, connVars, tabVars, effects>>
    BY <1>21 DEF Finish, FinishDying, Abandon, Land
  <2> QED
    BY <2>1, <2>2, <2>3 DEF TypeOK, frameVars, serverVars, whatVars, connVars, tabVars
<1>22. ASSUME NEW c \in Cmd, PollUnreadable(c)
       PROVE  TypeOK'
  BY <1>6, <1>14, <1>22 DEF TypeOK, PollUnreadable, Poll, frameVars, whatVars, connVars
<1> QED
  BY Steps, <1>1, <1>2, <1>3, <1>4, <1>8, <1>9, <1>10, <1>11, <1>12, <1>13, <1>16, <1>17,
     <1>18, <1>19, <1>20, <1>21, <1>22

-----------------------------------------------------------------------------
(* Each command is in one place *)

\* A command taken is answered or on its way, a click both.
LEMMA Taken ==
  ASSUME TypeOK, Placed,
         NEW c, NEW k, NEW at, k # "none", Take(c, k, at),
         TravelsApart', asked' = asked,
         \A d \in Cmd \ {c} : answer'[d] = answer[d] /\ genOf'[d] = genOf[d],
         Travelling \subseteq Travelling', Travelling' \subseteq Travelling \cup {c},
         unserved' \subseteq unserved \cup {c},
         k = "click" => answer'[c] # "none",
         c \in Travelling' => answer'[c] = "none" \/ k = "click",
         answer'[c] # "none" \/ c \in Travelling'
  PROVE  Placed'
<1>1. /\ c \in Cmd /\ c \in asked /\ c \in Range(commands)
      /\ c \notin Handled /\ c \notin Travelling
      /\ NoRepeat(commands') /\ Range(commands') = Range(commands) \ {c}
      /\ Handled' = Handled \cup {c}
      /\ kind'[c] = k
      /\ \A d \in Cmd \ {c} : kind'[d] = kind[d]
  BY TakeFacts DEF Placed
<1>2. Range(commands) \subseteq Cmd
  BY RangeIn DEF TypeOK
<1>3. NowhereTwice'
  BY <1>1 DEF NowhereTwice
<1>4. Unhandled'
  <2>1. \A d \in Range(commands') : d \in asked' /\ kind'[d] = "none"
    BY <1>1, <1>2 DEF Placed, Unhandled
  <2>2. \A d \in Cmd \ Handled' : answer'[d] = "none" /\ genOf'[d] = 0
    BY <1>1 DEF Placed, Unhandled
  <2>3. (Travelling' \cup unserved') \subseteq Handled' /\ Handled' \subseteq asked'
    BY <1>1 DEF Placed, Unhandled
  <2> QED
    BY <2>1, <2>2, <2>3 DEF Unhandled
<1>5. AnsweredOrTravels'
  <2> SUFFICES ASSUME NEW d \in Cmd
               PROVE  /\ kind'[d] = "click" => answer'[d] # "none"
                      /\ d \in Travelling' => answer'[d] = "none" \/ kind'[d] = "click"
                      /\ d \in Handled' => answer'[d] # "none" \/ d \in Travelling'
                      /\ d \in asked' => d \in Handled' \/ d \in Range(commands')
    BY DEF AnsweredOrTravels
  <2>1. CASE d = c
    BY <1>1, <2>1
  <2>2. CASE d # c
    BY <1>1, <2>2 DEF Placed, AnsweredOrTravels
  <2> QED
    BY <2>1, <2>2
<1> QED
  BY <1>3, <1>4, <1>5 DEF Placed

\* A command polled is answered, and travels no more.
LEMMA PolledOnce ==
  ASSUME TypeOK, Placed, NEW c \in Cmd,
         TravelsApart', c \in Travelling, Travelling' = Travelling \ {c},
         UNCHANGED <<commands, asked, kind>>, unserved' \subseteq unserved \cup {c},
         \A d \in Cmd \ {c} : answer'[d] = answer[d] /\ genOf'[d] = genOf[d],
         answer'[c] # "none"
  PROVE  Placed'
<1>1. c \in Handled /\ Handled' = Handled
  BY DEF Placed, Unhandled, Handled
<1>2. NowhereTwice' /\ Unhandled'
  BY <1>1 DEF Placed, NowhereTwice, Unhandled
<1>3. AnsweredOrTravels'
  <2> SUFFICES ASSUME NEW d \in Cmd
               PROVE  /\ kind'[d] = "click" => answer'[d] # "none"
                      /\ d \in Travelling' => answer'[d] = "none" \/ kind'[d] = "click"
                      /\ d \in Handled' => answer'[d] # "none" \/ d \in Travelling'
                      /\ d \in asked' => d \in Handled' \/ d \in Range(commands')
    BY DEF AnsweredOrTravels
  <2>1. CASE d = c
    BY <1>1, <2>1 DEF Placed, AnsweredOrTravels
  <2>2. CASE d # c
    BY <1>1, <2>2 DEF Placed, AnsweredOrTravels
  <2> QED
    BY <2>1, <2>2
<1> QED
  BY <1>2, <1>3 DEF Placed

\* What travels may change place.
LEMMA StillPlaced ==
  ASSUME Placed, TravelsApart', Travelling' = Travelling,
         UNCHANGED <<commands, asked, kind, answer, genOf, unserved>>
  PROVE  Placed'
  BY DEF Placed, NowhereTwice, Unhandled, AnsweredOrTravels, Handled

\* Nothing changes place when nothing that holds commands changes.
LEMMA NoneMoves ==
  ASSUME TravelsApart, UNCHANGED travelVars
  PROVE  TravelsApart' /\ Travelling' = Travelling
  BY DEF TravelsApart, Travelling, Queued, travelVars

\* Every step leaves each command in one place.
LEMMA PlacesStep ==
  ASSUME TypeOK, Placed, [Next]_vars
  PROVE  Placed'
<1> USE DEF Placed
<1>0. TravelsApart /\ NowhereTwice /\ Unhandled /\ AnsweredOrTravels
  BY DEF NowhereTwice
<1>1. CASE Quiet
  <2>1. UNCHANGED travelVars /\ UNCHANGED <<commands, asked, kind, answer, genOf, unserved>>
    BY <1>1 DEF Quiet, serverVars, whatVars, tabVars
  <2> QED
    BY <1>0, <2>1, NoneMoves, StillPlaced
<1>2. CASE CommandsDrained \/ PollDone
  <2>1. UNCHANGED travelVars /\ UNCHANGED <<commands, asked, kind, answer, genOf, unserved>>
    BY <1>2 DEF CommandsDrained, PollDone, serverVars, whatVars, tabVars
  <2> QED
    BY <1>0, <2>1, NoneMoves, StillPlaced
<1>4. ASSUME NEW c \in Cmd, Submit(c)
      PROVE  Placed'
  <2>1. TravelsApart' /\ Travelling' = Travelling
    BY <1>0, <1>4, NoneMoves DEF Submit
  <2>2. UNCHANGED <<kind, answer, genOf, unserved>> /\ Handled' = Handled
    BY <1>4 DEF Submit, whatVars, tabVars, Handled
  <2>3. /\ c \notin asked /\ asked' = asked \cup {c}
        /\ commands' = Append(commands, c) /\ commands \in Seq(Cmd)
    BY <1>4 DEF Submit, Routed, TypeOK
  <2>4. c \notin Range(commands) /\ c \notin Handled
    BY <2>3 DEF Unhandled
  <2>5. NoRepeat(commands') /\ Range(commands') = Range(commands) \cup {c}
    BY <1>0, <2>3, <2>4, AppendRange DEF NowhereTwice
  <2>6. NowhereTwice'
    BY <2>1, <2>5 DEF NowhereTwice
  <2>7. Unhandled'
    BY <1>0, <2>1, <2>2, <2>3, <2>4, <2>5 DEF Unhandled, Handled
  <2>8. AnsweredOrTravels'
    BY <1>0, <2>1, <2>2, <2>3, <2>5 DEF AnsweredOrTravels
  <2> QED
    BY <2>6, <2>7, <2>8
<1>5. ASSUME NEW c \in Cmd, OnTheSpot(c)
      PROVE  Placed'
  <2>1. Take(c, "step", Mem) /\ UNCHANGED <<genOf, unserved>>
    BY <1>5 DEF OnTheSpot, tabVars
  <2>2. c \notin Travelling
    BY <1>0, <2>1, TakeFacts
  <2>3. TravelsApart' /\ Travelling' = Travelling
    BY <1>0, <1>5, NoneMoves DEF OnTheSpot
  <2>4. /\ asked' = asked /\ answer'[c] # "none"
        /\ \A d \in Cmd \ {c} : answer'[d] = answer[d]
    BY <1>5 DEF OnTheSpot, Respond, TypeOK
  <2> QED
    BY <2>1, <2>2, <2>3, <2>4, Taken
<1>6. ASSUME NEW c \in Cmd, HandleCloseTab(c)
      PROVE  Placed'
  <2>1. Take(c, "fresh", active) /\ unserved' = unserved
    BY <1>6 DEF HandleCloseTab
  <2>2. c \notin Travelling
    BY <1>0, <2>1, TakeFacts
  <2>3. TravelsApart' /\ Travelling' = Travelling
    BY <1>0, <1>6, NoneMoves DEF HandleCloseTab
  <2>4. /\ asked' = asked /\ answer'[c] # "none"
        /\ \A d \in Cmd \ {c} : answer'[d] = answer[d] /\ genOf'[d] = genOf[d]
    BY <1>6 DEF HandleCloseTab, Respond, TypeOK
  <2> QED
    BY <2>1, <2>2, <2>3, <2>4, Taken
<1>7. ASSUME NEW c \in Cmd, NEW what \in {"run", "click", "file"}, NEW k \in Conn,
             RunsFor(c, what, k)
      PROVE  Placed'
  <2>1. Take(c, what, k) /\ Run(c, k) /\ what # "none"
    BY <1>7 DEF RunsFor
  <2>2. c \notin Travelling /\ answer[c] = "none"
    BY <1>0, <2>1, TakeFacts
  <2>3. asked' = asked /\ \A d \in Cmd \ {c} : answer'[d] = answer[d] /\ genOf'[d] = genOf[d]
    BY <1>7 DEF RunsFor, Run, Respond, Unanswered, TypeOK
  <2>4. CASE k \in staffed
    <3>1. /\ queue' = [queue EXCEPT ![k] = Append(@, c)] /\ unserved' = unserved
          /\ UNCHANGED <<dying, leftBehind, goroutine, results>>
      BY <2>1, <2>4 DEF Run
    <3>2. TravelsApart' /\ Travelling' = Travelling \cup {c}
      BY <1>0, <2>2, <3>1, Sent
    <3>3. \/ what # "click" /\ answer'[c] = "none"
          \/ what = "click" /\ answer'[c] # "none"
      <4>1. CASE what # "click" /\ k \in staffed /\ Unanswered
        BY <2>2, <4>1 DEF Unanswered
      <4>2. CASE what = "click" /\ Respond(c, "ok")
        BY <4>2 DEF Respond, TypeOK
      <4>3. CASE what # "click" /\ k \notin staffed /\ Respond(c, "error")
        BY <2>4, <4>3
      <4> QED
        BY <1>7, <4>1, <4>2, <4>3 DEF RunsFor
    <3> QED
      BY <2>1, <2>3, <3>1, <3>2, <3>3, Taken
  <2>5. CASE k \notin staffed
    <3>1. unserved' = unserved \cup {c} /\ UNCHANGED travelVars
      BY <2>1, <2>5 DEF Run, travelVars
    <3>2. TravelsApart' /\ Travelling' = Travelling
      BY <1>0, <3>1, NoneMoves
    <3>3. answer'[c] # "none"
      BY <1>7, <2>5 DEF RunsFor, Respond, TypeOK
    <3> QED
      BY <2>1, <2>2, <2>3, <3>1, <3>2, <3>3, Taken
  <2> QED
    BY <2>4, <2>5
<1>8. ASSUME NEW c \in Cmd, NEW k \in Conn, HandleOpenDB(c, k)
      PROVE  Placed'
  <2>1. Take(c, "open", k) /\ UNCHANGED <<genOf, unserved, asked, answer>>
    BY <1>8 DEF HandleOpenDB, tabVars, Unanswered
  <2>2. c \notin Travelling /\ answer[c] = "none"
    BY <1>0, <2>1, TakeFacts
  <2>3. TravelsApart' /\ Travelling' = Travelling \cup {c}
    BY <1>0, <1>8, <2>2, Started DEF HandleOpenDB
  <2> QED
    BY <2>1, <2>2, <2>3, Taken
<1>9. ASSUME NEW c \in Cmd, NEW k \in Conn, HandleClose(c, k)
      PROVE  Placed'
  <2>1. Take(c, "step", Mem) /\ UNCHANGED <<genOf, unserved>> /\ StopWorker(k)
    BY <1>9 DEF HandleClose
  <2>2. c \notin Travelling
    BY <1>0, <2>1, TakeFacts
  <2>3. TravelsApart' /\ Travelling' = Travelling
    <3>1. /\ {} \in SUBSET Cmd /\ {} \cap Travelling = {}
          /\ goroutine' = goroutine \cup {} /\ UNCHANGED <<leftBehind, results>>
      BY <1>9 DEF HandleClose
    <3>2. TravelsApart' /\ Travelling' = Travelling \cup {}
      BY <1>0, <2>1, <3>1, Stopped
    <3> QED
      BY <3>2
  <2>4. /\ asked' = asked /\ answer'[c] # "none"
        /\ \A d \in Cmd \ {c} : answer'[d] = answer[d]
    BY <1>9 DEF HandleClose, Respond, TypeOK
  <2> QED
    BY <2>1, <2>2, <2>3, <2>4, Taken
<1>10. ASSUME NEW c \in Cmd, NEW k \in Conn, HandleReconnect(c, k)
       PROVE  Placed'
  <2>1. /\ Take(c, "reconnect", k) /\ StopWorker(k)
        /\ UNCHANGED <<genOf, unserved, asked, answer, leftBehind, results>>
        /\ goroutine' = goroutine \cup {c}
    BY <1>10 DEF HandleReconnect, tabVars, Unanswered
  <2>2. c \notin Travelling /\ answer[c] = "none"
    BY <1>0, <2>1, TakeFacts
  <2>3. TravelsApart' /\ Travelling' = Travelling \cup {c}
    <3>1. {c} \in SUBSET Cmd /\ {c} \cap Travelling = {}
      BY <2>2
    <3> QED
      BY <1>0, <2>1, <3>1, Stopped
  <2> QED
    BY <2>1, <2>2, <2>3, Taken
<1>11. ASSUME NEW c \in Cmd, c \in Travelling, NEW a \in {"ok", "error"}, Reply(c, a)
       PROVE  /\ asked' = asked /\ answer'[c] # "none"
              /\ \A d \in Cmd \ {c} : answer'[d] = answer[d]
  BY <1>0, <1>11 DEF Reply, Respond, Unanswered, TypeOK, AnsweredOrTravels
<1>12. ASSUME NEW c \in Cmd, NEW a \in {"ok", "error"}, Respond(c, a)
       PROVE  /\ asked' = asked /\ answer'[c] # "none"
              /\ \A d \in Cmd \ {c} : answer'[d] = answer[d]
  BY <1>12 DEF Respond, TypeOK
<1>13. ASSUME NEW c \in Cmd, PollStale(c)
       PROVE  Placed'
  <2>1. /\ Poll(c) /\ UNCHANGED <<queue, goroutine, genOf, unserved, commands, kind>>
        /\ Reply(c, "ok")
    BY <1>13 DEF PollStale, AnswerStale, Poll, whatVars, tabVars
  <2>2. TravelsApart' /\ c \in Travelling /\ Travelling' = Travelling \ {c}
    BY <1>0, <2>1, Polled
  <2> QED
    BY <1>11, <2>1, <2>2, PolledOnce
<1>14. ASSUME NEW c \in Cmd, NEW ok \in BOOLEAN, PollRun(c, ok)
       PROVE  Placed'
  <2>1. /\ Poll(c) /\ UNCHANGED <<queue, goroutine, genOf, unserved, commands, kind>>
        /\ Reply(c, "ok") \/ Reply(c, "error")
    BY <1>14 DEF PollRun, Poll, whatVars
  <2>2. TravelsApart' /\ c \in Travelling /\ Travelling' = Travelling \ {c}
    BY <1>0, <2>1, Polled
  <2> QED
    BY <1>11, <2>1, <2>2, PolledOnce
<1>15. ASSUME NEW c \in Cmd, PollFailed(c)
       PROVE  Placed'
  <2>1. /\ Poll(c) /\ UNCHANGED <<queue, goroutine, genOf, unserved, commands, kind>>
        /\ Respond(c, "error")
    BY <1>15 DEF PollFailed, Poll, whatVars, tabVars
  <2>2. TravelsApart' /\ c \in Travelling /\ Travelling' = Travelling \ {c}
    BY <1>0, <2>1, Polled
  <2> QED
    BY <1>12, <2>1, <2>2, PolledOnce
<1>16. ASSUME NEW c \in Cmd, PollOpened(c)
       PROVE  Placed'
  <2>1. /\ Poll(c) /\ UNCHANGED <<queue, goroutine, unserved, commands, kind>>
        /\ Respond(c, "ok") /\ \A d \in Cmd \ {c} : genOf'[d] = genOf[d]
    BY <1>16 DEF PollOpened, Poll, whatVars, TypeOK
  <2>2. TravelsApart' /\ c \in Travelling /\ Travelling' = Travelling \ {c}
    BY <1>0, <2>1, Polled
  <2> QED
    BY <1>12, <2>1, <2>2, PolledOnce
<1>17. ASSUME NEW c \in Cmd, PollReconnected(c)
       PROVE  Placed'
  <2>1. /\ Poll(c) /\ UNCHANGED <<genOf, unserved, commands, kind>>
        /\ Respond(c, "ok") /\ place[c] \in Conn
    BY <1>17 DEF PollReconnected, Poll, whatVars, tabVars, TypeOK
  <2>2. TravelsApart' /\ c \in Travelling /\ Travelling' = Travelling \ {c}
    <3>1. CASE place[c] \in rail
      BY <1>0, <1>17, <2>1, <3>1, PolledReplaced DEF PollReconnected
    <3>2. CASE place[c] \notin rail
      BY <1>0, <1>17, <2>1, <3>2, Polled DEF PollReconnected
    <3> QED
      BY <3>1, <3>2
  <2> QED
    BY <1>12, <2>1, <2>2, PolledOnce
<1>18. CASE \/ \E k \in Conn : Finish(k)
            \/ \E c \in Cmd : FinishDying(c) \/ Abandon(c) \/ Land(c)
  <2>1. TravelsApart' /\ Travelling' = Travelling
    BY <1>0, <1>18, Moved
  <2>2. UNCHANGED <<commands, asked, kind, answer, genOf, unserved>>
    BY <1>18 DEF Finish, FinishDying, Abandon, Land, serverVars, whatVars, tabVars
  <2> QED
    BY <2>1, <2>2, StillPlaced
<1>19. ASSUME NEW c \in Cmd, PollUnreadable(c)
       PROVE  Placed'
  <2>1. /\ Poll(c) /\ UNCHANGED <<queue, goroutine, genOf, commands, kind>>
        /\ unserved' = unserved \cup {c} /\ Respond(c, "error")
    BY <1>19 DEF PollUnreadable, Poll, whatVars
  <2>2. TravelsApart' /\ c \in Travelling /\ Travelling' = Travelling \ {c}
    BY <1>0, <2>1, Polled
  <2> QED
    BY <1>12, <2>1, <2>2, PolledOnce
<1> QED
  BY Steps, <1>1, <1>2, <1>4, <1>5, <1>6, <1>7, <1>8, <1>9, <1>10, <1>13, <1>14, <1>15,
     <1>16, <1>17, <1>18, <1>19

-----------------------------------------------------------------------------
(* A run answered with success was shown, or is superseded *)

\* A command that is taken is at the generation its tab now has, or at none.
LEMMA GenerationTaken ==
  ASSUME TypeOK, Placed, Generations, OkMeansShown,
         NEW c, NEW k, NEW at \in Conn, k # "none", Take(c, k, at),
         \A d \in Cmd \ {c} : answer'[d] = answer[d] /\ genOf'[d] = genOf[d],
         \/ gen' = gen /\ genOf'[c] = genOf[c]
         \/ gen' = [gen EXCEPT ![at] = gen[at] + 1] /\ genOf'[c] = gen[at] + 1,
         rail' \subseteq rail, effects' = effects,
         k \in {"run", "file"} => answer'[c] # "ok"
  PROVE  Generations' /\ OkMeansShown'
<1>1. /\ c \in Cmd /\ genOf[c] = 0 /\ c \notin Handled /\ Handled' = Handled \cup {c}
      /\ kind'[c] = k /\ place'[c] = at
      /\ \A d \in Cmd \ {c} : kind'[d] = kind[d] /\ place'[d] = place[d]
  BY TakeFacts DEF Placed
<1>2. /\ \A l \in Conn : gen[l] \in Nat /\ gen'[l] \in Nat /\ gen[l] <= gen'[l]
      /\ \A l \in Conn \ {at} : gen'[l] = gen[l]
      /\ \/ genOf'[c] = gen'[at]
         \/ genOf'[c] = 0 /\ gen'[at] = gen[at]
      /\ genOf'[c] \in Nat
      /\ \A d \in Cmd : genOf[d] \in Nat /\ place[d] \in Conn
  <2>1. gen \in [Conn -> Nat] /\ genOf \in [Cmd -> Nat] /\ place \in [Cmd -> Conn]
    BY DEF TypeOK
  <2>2. CASE gen' = gen /\ genOf'[c] = genOf[c]
    BY <1>1, <2>1, <2>2
  <2>3. CASE gen' = [gen EXCEPT ![at] = gen[at] + 1] /\ genOf'[c] = gen[at] + 1
    <3>1. gen'[at] = gen[at] + 1 /\ \A l \in Conn \ {at} : gen'[l] = gen[l]
      BY <2>1, <2>3
    <3>2. \A l \in Conn : gen[l] \in Nat
      BY <2>1
    <3>3. \A l \in Conn : gen'[l] \in Nat /\ gen[l] <= gen'[l]
      BY <3>1, <3>2
    <3> QED
      BY <2>1, <2>3, <3>1, <3>2, <3>3
  <2> QED
    BY <2>2, <2>3
<1>3. Generations'
  <2>1. ASSUME NEW d \in Cmd
        PROVE  genOf'[d] <= gen'[place'[d]]
    BY <1>1, <1>2 DEF Generations
  <2>2. ASSUME NEW l \in Conn
        PROVE  gen'[l] = 0 \/ \E d \in Handled' : place'[d] = l /\ genOf'[d] = gen'[l]
    <3>1. CASE l = at /\ genOf'[c] = gen'[at]
      BY <1>1, <3>1
    <3>2. CASE gen'[l] = gen[l]
      <4>1. \A d \in Handled : d \in Cmd \ {c}
        BY <1>1 DEF Handled
      <4> QED
        BY <1>1, <3>2, <4>1 DEF Generations
    <3> QED
      BY <1>2, <3>1, <3>2
  <2> QED
    BY <2>1, <2>2 DEF Generations
<1>4. ASSUME NEW d \in Cmd, kind'[d] \in {"run", "file"} /\ answer'[d] = "ok"
      PROVE  d \in effects' \/ Superseded(d)'
  <2>1. d # c /\ kind[d] \in {"run", "file"} /\ answer[d] = "ok" /\ place'[d] = place[d] /\ genOf'[d] = genOf[d]
    BY <1>1, <1>4
  <2>2. d \in effects \/ Superseded(d)
    BY <2>1 DEF OkMeansShown
  <2>3. ASSUME NEW e \in Cmd, place[e] = place[d], genOf[e] > genOf[d]
        PROVE  place'[e] = place'[d] /\ genOf'[e] > genOf'[d]
    <3>1. e # c
      BY <1>1, <1>2, <2>3
    <3> QED
      BY <1>1, <2>1, <2>3, <3>1
  <2> QED
    BY <2>1, <2>2, <2>3 DEF Superseded
<1> QED
  BY <1>3, <1>4 DEF OkMeansShown

\* A stale run is superseded: some command has given its tab a newer generation.
LEMMA StaleIsSuperseded ==
  ASSUME TypeOK, Generations, NEW c \in Cmd, Stale(c)
  PROVE  Superseded(c)
<1>1. genOf[c] \in Nat /\ place[c] \in Conn /\ gen[place[c]] \in Nat
  BY DEF TypeOK
<1>2. CASE genOf[c] # gen[place[c]]
  <2>1. genOf[c] < gen[place[c]]
    BY <1>1, <1>2 DEF Generations
  <2>2. PICK d \in Handled : place[d] = place[c] /\ genOf[d] = gen[place[c]]
    BY <1>1, <2>1 DEF Generations
  <2> QED
    BY <2>1, <2>2 DEF Superseded, Handled
<1> QED
  BY <1>2 DEF Stale, Superseded

\* Without a new generation, only the answers can make a difference.
LEMMA GenerationKept ==
  ASSUME TypeOK, Generations, OkMeansShown,
         UNCHANGED <<kind, place, gen, genOf, rail>>, effects \subseteq effects',
         \A d \in Cmd : kind[d] \in {"run", "file"} /\ answer'[d] = "ok" =>
           answer[d] = "ok" \/ d \in effects' \/ Stale(d)
  PROVE  Generations' /\ OkMeansShown'
<1>1. \A d \in Cmd : Superseded(d)' <=> Superseded(d)
  BY DEF Superseded
<1>2. Generations'
  BY DEF Generations, Handled
<1>3. OkMeansShown'
  BY <1>1, StaleIsSuperseded DEF OkMeansShown
<1> QED
  BY <1>2, <1>3

\* Every step keeps it.
LEMMA ShownStep ==
  ASSUME TypeOK, Placed, Generations, OkMeansShown, [Next]_vars
  PROVE  Generations' /\ OkMeansShown'
<1>1. CASE Quiet
  BY <1>1, GenerationKept DEF Quiet, serverVars, whatVars, connVars, tabVars
<1>2. CASE CommandsDrained \/ PollDone
  BY <1>2, GenerationKept DEF CommandsDrained, PollDone, serverVars, whatVars, connVars, tabVars
<1>3. ASSUME NEW c \in Cmd, Submit(c)
      PROVE  Generations' /\ OkMeansShown'
  BY <1>3, GenerationKept DEF Submit, whatVars, connVars, tabVars
<1>4. CASE \/ \E k \in Conn : Finish(k)
           \/ \E c \in Cmd : FinishDying(c) \/ Abandon(c) \/ Land(c)
  <2>1. UNCHANGED <<kind, place, gen, genOf, rail, effects, answer>>
    BY <1>4 DEF Finish, FinishDying, Abandon, Land, serverVars, whatVars, connVars, tabVars
  <2> QED
    BY <2>1, GenerationKept
<1>5. ASSUME NEW c \in Cmd, NEW a \in {"ok", "error"}, Respond(c, a)
      PROVE  answer'[c] = a /\ \A d \in Cmd \ {c} : answer'[d] = answer[d]
  BY <1>5 DEF Respond, TypeOK
<1>6. ASSUME NEW c \in Cmd, OnTheSpot(c)
      PROVE  Generations' /\ OkMeansShown'
  <2>1. /\ Take(c, "step", Mem) /\ Mem \in Conn
        /\ UNCHANGED <<gen, genOf, rail, effects>>
    BY <1>6, CommandsAssumption DEF OnTheSpot, tabVars
  <2>2. \A d \in Cmd \ {c} : answer'[d] = answer[d]
    BY <1>5, <1>6 DEF OnTheSpot
  <2> QED
    BY <2>1, <2>2, GenerationTaken
<1>7. ASSUME NEW c \in Cmd, HandleCloseTab(c)
      PROVE  Generations' /\ OkMeansShown'
  <2>1. /\ Take(c, "fresh", active) /\ active \in Conn
        /\ gen' = [gen EXCEPT ![active] = gen[active] + 1] /\ genOf'[c] = gen[active] + 1
        /\ \A d \in Cmd \ {c} : genOf'[d] = genOf[d]
        /\ rail' = rail /\ effects' = effects
    BY <1>7 DEF HandleCloseTab, NextGen, connVars, TypeOK
  <2>2. \A d \in Cmd \ {c} : answer'[d] = answer[d]
    BY <1>5, <1>7 DEF HandleCloseTab
  <2> QED
    BY <2>1, <2>2, GenerationTaken
<1>8. ASSUME NEW c \in Cmd, NEW what \in {"run", "click", "file"}, NEW k \in Conn,
             RunsFor(c, what, k)
      PROVE  Generations' /\ OkMeansShown'
  <2>1. /\ Take(c, what, k) /\ what # "none"
        /\ gen' = [gen EXCEPT ![k] = gen[k] + 1] /\ genOf'[c] = gen[k] + 1
        /\ \A d \in Cmd \ {c} : genOf'[d] = genOf[d]
        /\ rail' = rail /\ effects' = effects
    BY <1>8 DEF RunsFor, Run, Carried, NextGen, TypeOK
  <2>2. answer[c] = "none"
    BY <2>1, TakeFacts DEF Placed
  <2>3. /\ \A d \in Cmd \ {c} : answer'[d] = answer[d]
        /\ what # "click" => answer'[c] # "ok"
    <3>1. \/ Unanswered
          \/ Respond(c, "error")
          \/ what = "click" /\ Respond(c, "ok")
      BY <1>8 DEF RunsFor
    <3> QED
      BY <1>5, <2>2, <3>1 DEF Unanswered
  <2> QED
    BY <2>1, <2>3, GenerationTaken
<1>9. ASSUME NEW c \in Cmd, NEW k \in Conn, HandleOpenDB(c, k)
      PROVE  Generations' /\ OkMeansShown'
  BY <1>9, GenerationTaken DEF HandleOpenDB, Unanswered, connVars, tabVars
<1>10. ASSUME NEW c \in Cmd, NEW k \in Conn, HandleClose(c, k)
       PROVE  Generations' /\ OkMeansShown'
  <2>1. /\ Take(c, "step", Mem) /\ Mem \in Conn
        /\ UNCHANGED <<gen, genOf, effects>> /\ rail' \subseteq rail
    BY <1>10, CommandsAssumption DEF HandleClose
  <2>2. \A d \in Cmd \ {c} : answer'[d] = answer[d]
    BY <1>5, <1>10 DEF HandleClose
  <2> QED
    BY <2>1, <2>2, GenerationTaken
<1>11. ASSUME NEW c \in Cmd, NEW k \in Conn, HandleReconnect(c, k)
       PROVE  Generations' /\ OkMeansShown'
  BY <1>11, GenerationTaken DEF HandleReconnect, Unanswered, tabVars
<1>12. ASSUME NEW c \in Cmd, PollStale(c)
       PROVE  Generations' /\ OkMeansShown'
  <2>1. /\ UNCHANGED <<kind, place, gen, genOf, rail, effects>>
        /\ Stale(c) /\ Reply(c, "ok")
    BY <1>12 DEF PollStale, AnswerStale, Poll, whatVars, connVars, tabVars
  <2>2. \A d \in Cmd \ {c} : answer'[d] = answer[d]
    BY <1>5, <2>1 DEF Reply, Unanswered
  <2> QED
    BY <2>1, <2>2, GenerationKept
<1>13. ASSUME NEW c \in Cmd, NEW ok \in BOOLEAN, PollRun(c, ok)
       PROVE  Generations' /\ OkMeansShown'
  <2>1. /\ UNCHANGED <<kind, place, gen, genOf, rail>>
        /\ Reply(c, IF ok THEN "ok" ELSE "error")
        /\ effects' = IF ok THEN effects \cup {c} ELSE effects
    BY <1>13 DEF PollRun, Poll, whatVars, connVars
  <2>2. /\ \A d \in Cmd \ {c} : answer'[d] = answer[d]
        /\ kind[c] \in {"run", "file"} /\ answer'[c] = "ok" => c \in effects'
    <3>1. CASE kind[c] = "click"
      BY <2>1, <3>1 DEF Reply, Unanswered
    <3>2. CASE kind[c] # "click" /\ ok
      BY <1>5, <2>1, <3>2 DEF Reply
    <3>3. CASE kind[c] # "click" /\ ~ok
      BY <1>5, <2>1, <3>3 DEF Reply
    <3> QED
      BY <3>1, <3>2, <3>3
  <2> QED
    BY <2>1, <2>2, GenerationKept
<1>14. ASSUME NEW c \in Cmd, PollUnreadable(c)
       PROVE  Generations' /\ OkMeansShown'
  <2>1. /\ UNCHANGED <<kind, place, gen, genOf, rail, effects>> /\ Respond(c, "error")
    BY <1>14 DEF PollUnreadable, Poll, whatVars, connVars
  <2> QED
    BY <1>5, <2>1, GenerationKept
<1>15. ASSUME NEW c \in Cmd, PollFailed(c) \/ PollReconnected(c)
       PROVE  Generations' /\ OkMeansShown'
  <2>1. /\ UNCHANGED <<kind, place, gen, genOf, rail>> /\ effects \subseteq effects'
        /\ Respond(c, "ok") \/ Respond(c, "error")
        /\ kind[c] \notin {"run", "file"}
    BY <1>15 DEF PollFailed, PollReconnected, Poll, whatVars, connVars, tabVars
  <2>2. \A d \in Cmd \ {c} : answer'[d] = answer[d]
    BY <1>5, <2>1
  <2> QED
    BY <2>1, <2>2, GenerationKept
<1>16. ASSUME NEW c \in Cmd, PollOpened(c)
       PROVE  Generations' /\ OkMeansShown'
  <2> DEFINE k == place[c]
  <2>1. /\ k \in Conn /\ k \notin rail /\ rail' = rail \cup {k} /\ kind[c] = "open"
        /\ gen' = [gen EXCEPT ![k] = gen[k] + 1] /\ genOf' = [genOf EXCEPT ![c] = gen[k] + 1]
        /\ UNCHANGED <<kind, place>> /\ effects' = effects \cup {c}
        /\ Respond(c, "ok")
    BY <1>16 DEF PollOpened, Poll, NextGen, whatVars, TypeOK
  <2>2. \A d \in Cmd \ {c} : answer'[d] = answer[d] /\ genOf'[d] = genOf[d]
    BY <1>5, <2>1 DEF TypeOK
  <2>3. /\ gen'[k] = gen[k] + 1 /\ genOf'[c] = gen'[k]
        /\ \A l \in Conn \ {k} : gen'[l] = gen[l]
        /\ \A l \in Conn : gen[l] \in Nat
        /\ \A d \in Cmd : genOf[d] \in Nat /\ place[d] \in Conn
        /\ \A d \in Cmd : genOf[d] <= gen[place[d]]
    BY <2>1 DEF TypeOK, Generations
  <2>4. Handled' = Handled /\ c \in Handled /\ place'[c] = k
    BY <2>1 DEF Handled
  <2> HIDE DEF k
  <2>5. Generations'
    <3>1. ASSUME NEW d \in Cmd
          PROVE  genOf'[d] <= gen'[place'[d]]
      BY <2>1, <2>2, <2>3, <2>4
    <3>2. ASSUME NEW l \in Conn
          PROVE  gen'[l] = 0 \/ \E d \in Handled' : place'[d] = l /\ genOf'[d] = gen'[l]
      <4>1. CASE l = k
        BY <2>3, <2>4, <4>1
      <4>2. CASE l # k
        <5>1. gen'[l] = gen[l]
          BY <2>3, <4>2
        <5>2. CASE gen[l] = 0
          BY <5>1, <5>2
        <5>3. CASE gen[l] # 0
          <6>1. PICK d \in Handled : place[d] = l /\ genOf[d] = gen[l]
            BY <5>3 DEF Generations
          <6>2. d \in Cmd /\ d # c /\ d \in Handled' /\ place'[d] = l
            BY <2>1, <2>4, <4>2, <6>1 DEF Handled, k
          <6> QED
            BY <2>2, <5>1, <6>1, <6>2
        <5> QED
          BY <5>2, <5>3
      <4> QED
        BY <4>1, <4>2
    <3> QED
      BY <3>1, <3>2 DEF Generations
  <2>6. ASSUME NEW d \in Cmd, kind'[d] \in {"run", "file"} /\ answer'[d] = "ok"
        PROVE  d \in effects' \/ Superseded(d)'
    <3>1. d # c /\ kind[d] \in {"run", "file"} /\ answer[d] = "ok" /\ place'[d] = place[d] /\ genOf'[d] = genOf[d]
      BY <2>1, <2>2, <2>6
    <3>2. d \in effects \/ Superseded(d)
      BY <3>1 DEF OkMeansShown
    <3>3. CASE place[d] = k
      <4>1. genOf'[c] > genOf'[d] /\ place'[c] = place'[d]
        BY <2>3, <2>4, <3>1, <3>3
      <4> QED
        BY <4>1 DEF Superseded
    <3>4. CASE place[d] # k
      <4>1. ASSUME NEW e \in Cmd, place[e] = place[d], genOf[e] > genOf[d]
            PROVE  place'[e] = place'[d] /\ genOf'[e] > genOf'[d]
        BY <2>1, <2>2, <2>4, <3>1, <3>4, <4>1
      <4> QED
        BY <2>1, <3>1, <3>2, <3>4, <4>1 DEF Superseded
    <3> QED
      BY <3>3, <3>4
  <2> QED
    BY <2>5, <2>6 DEF OkMeansShown
<1> QED
  BY Steps, <1>1, <1>2, <1>3, <1>4, <1>6, <1>7, <1>8, <1>9, <1>10, <1>11, <1>12, <1>13,
     <1>14, <1>15, <1>16

-----------------------------------------------------------------------------
(* A dimmed tab awaits its result *)

Awaited(k) == OnItsWay(k) \/ Unserved(k)

\* The runs of the tab as it is now.
Current(k) == {c \in Cmd : IsRun(c) /\ place[c] = k /\ genOf[c] = gen[k]}

\* What a tab awaits stays awaited, as long as it is not polled.
LEMMA StillAwaited ==
  ASSUME TypeOK, Placed, NEW k \in Conn, Awaited(k), gen'[k] = gen[k],
         \A d \in Handled : kind'[d] = kind[d] /\ place'[d] = place[d],
         \A d \in Handled : place[d] = k => genOf'[d] = genOf[d],
         OnWay(k) \cap Current(k) \subseteq OnWay(k)' \cup leftBehind',
         leftBehind \subseteq leftBehind', unserved \subseteq unserved'
  PROVE  Awaited(k)'
<1>1. /\ OnWay(k) \subseteq Handled
      /\ leftBehind \cup unserved \subseteq Handled
      /\ Handled \subseteq Cmd
  BY DEF OnWay, Placed, Unhandled, Travelling, Queued, Handled
<1>2. ASSUME NEW c \in Cmd, IsRun(c), place[c] = k, genOf[c] = gen[k], c \in OnWay(k)
      PROVE  Awaited(k)'
  <2>1. c \in OnWay(k)' \cup leftBehind' /\ c \in Handled
    BY <1>1, <1>2 DEF Current
  <2>2. IsRun(c)' /\ place'[c] = k /\ genOf'[c] = gen'[k]
    BY <1>2, <2>1 DEF IsRun
  <2>3. CASE c \in OnWay(k)'
    BY <2>2, <2>3 DEF Awaited, OnItsWay, OnWay
  <2>4. CASE c \in leftBehind'
    BY <2>2, <2>4 DEF Awaited, Unserved
  <2> QED
    BY <2>1, <2>3, <2>4
<1>3. ASSUME NEW c \in leftBehind \cup unserved, place[c] = k, genOf[c] = gen[k]
      PROVE  Awaited(k)'
  <2>1. c \in leftBehind' \cup unserved' /\ place'[c] = k /\ genOf'[c] = gen'[k]
    BY <1>1, <1>3
  <2> QED
    BY <2>1 DEF Awaited, Unserved
<1>4. \/ \E c \in Cmd : IsRun(c) /\ place[c] = k /\ genOf[c] = gen[k] /\ c \in OnWay(k)
      \/ \E c \in leftBehind \cup unserved : place[c] = k /\ genOf[c] = gen[k]
  BY DEF Awaited, OnItsWay, Unserved, OnWay
<1> QED
  BY <1>2, <1>3, <1>4

\* Taking a command leaves the others as they are.
LEMMA TakenIsNew ==
  ASSUME TypeOK, Placed, NEW c, NEW k, NEW at, k # "none", Take(c, k, at)
  PROVE  /\ \A d \in Handled : kind'[d] = kind[d] /\ place'[d] = place[d]
         /\ \A d \in Handled : d # c
         /\ c \in Cmd /\ c \notin Travelling
         /\ kind'[c] = k /\ place'[c] = at
  BY TakeFacts DEF Placed, Handled

\* Every step keeps it.
LEMMA DimmedStep ==
  ASSUME TypeOK, Placed, DimmedIsAwaited, [Next]_vars
  PROVE  DimmedIsAwaited'
<1>0. /\ NowhereTwice /\ TravelsApart /\ Unhandled
      /\ dimmed \subseteq Conn /\ dimmed \subseteq rail
      /\ \A k \in dimmed : Awaited(k)
  BY DEF Placed, NowhereTwice, TypeOK, DimmedIsAwaited, Awaited
<1> SUFFICES ASSUME NEW k \in dimmed'
             PROVE  Awaited(k)'
  BY DEF DimmedIsAwaited, Awaited
<1>1. CASE Quiet
  <2>1. k \in dimmed /\ k \in Conn /\ Awaited(k)
    BY <1>0, <1>1 DEF Quiet, tabVars
  <2> QED
    BY <1>1, <2>1 DEF Quiet, frameVars, serverVars, whatVars, travelVars, connVars, tabVars,
       Awaited, OnItsWay, Unserved, IsRun
<1>2. CASE CommandsDrained \/ PollDone \/ \E c \in Cmd : Submit(c)
  <2>1. UNCHANGED <<kind, place, gen, genOf, dimmed, leftBehind, unserved>> /\ UNCHANGED travelVars
    BY <1>2 DEF CommandsDrained, PollDone, Submit, whatVars, travelVars, tabVars
  <2>2. k \in dimmed /\ k \in Conn /\ Awaited(k)
    BY <1>0, <2>1
  <2> QED
    BY <2>1, <2>2 DEF travelVars, Awaited, OnItsWay, Unserved, IsRun
<1>3. CASE \/ \E l \in Conn : Finish(l)
           \/ \E c \in Cmd : FinishDying(c) \/ Abandon(c) \/ Land(c)
  <2>1. UNCHANGED <<kind, place, gen, genOf, dimmed, unserved>> /\ leftBehind \subseteq leftBehind'
    BY <1>3 DEF Finish, FinishDying, Abandon, Land, whatVars, tabVars
  <2>2. k \in Conn /\ Awaited(k)
    BY <1>0, <2>1
  <2>3. OnWay(k) \subseteq OnWay(k)' \cup leftBehind'
    BY <1>0, <1>3, <2>2, Moved
  <2>9. OnWay(k) \cap Current(k) \subseteq OnWay(k)' \cup leftBehind'
    BY <2>1, <2>2, <2>3 DEF Current
  <2> QED
    BY <2>1, <2>2, <2>3, <2>9, StillAwaited
<1>4. ASSUME NEW c \in Cmd, OnTheSpot(c)
      PROVE  Awaited(k)'
  <2>1. /\ Take(c, "step", Mem) /\ UNCHANGED <<gen, genOf, dimmed, unserved, leftBehind>>
        /\ UNCHANGED travelVars
    BY <1>4 DEF OnTheSpot, tabVars, travelVars
  <2>2. k \in Conn /\ Awaited(k) /\ OnWay(k) \subseteq OnWay(k)'
    BY <1>0, <2>1 DEF OnWay, travelVars
  <2>9. OnWay(k) \cap Current(k) \subseteq OnWay(k)' \cup leftBehind'
    BY <2>1, <2>2 DEF Current
  <2> QED
    BY <2>1, <2>2, <2>9, TakenIsNew, StillAwaited
<1>5. ASSUME NEW c \in Cmd, HandleCloseTab(c)
      PROVE  Awaited(k)'
  <2>1. /\ Take(c, "fresh", active) /\ UNCHANGED <<unserved, leftBehind>>
        /\ UNCHANGED travelVars /\ k \in dimmed /\ k # active
    BY <1>5 DEF HandleCloseTab, travelVars
  <2>2. /\ k \in Conn /\ Awaited(k) /\ OnWay(k) \subseteq OnWay(k)'
        /\ gen'[k] = gen[k]
    BY <1>0, <1>5, <2>1 DEF OnWay, travelVars, HandleCloseTab, TypeOK
  <2>3. \A d \in Handled : genOf'[d] = genOf[d]
    <3>1. \A d \in Handled : d # c /\ d \in Cmd
      BY <2>1, TakenIsNew DEF Handled
    <3> QED
      BY <1>5, <3>1 DEF HandleCloseTab, TypeOK
  <2>9. OnWay(k) \cap Current(k) \subseteq OnWay(k)' \cup leftBehind'
    BY <2>1, <2>2, <2>3 DEF Current
  <2> QED
    BY <2>1, <2>2, <2>3, <2>9, TakenIsNew, StillAwaited
<1>6. ASSUME NEW c \in Cmd, NEW what \in {"run", "click", "file"}, NEW l \in Conn,
             RunsFor(c, what, l)
      PROVE  Awaited(k)'
  <2>1. /\ Take(c, what, l) /\ what # "none" /\ dimmed' = dimmed \cup {l}
        /\ UNCHANGED <<dying, leftBehind, goroutine, results>>
        /\ unserved \subseteq unserved'
    BY <1>6 DEF RunsFor, Run
  <2>2. c \in Cmd /\ c \notin Travelling /\ kind'[c] = what /\ place'[c] = l
    BY <2>1, TakenIsNew
  <2>3. /\ gen'[l] = gen[l] + 1 /\ genOf'[c] = gen'[l]
        /\ \A m \in Conn \ {l} : gen'[m] = gen[m]
        /\ \A d \in Cmd \ {c} : genOf'[d] = genOf[d]
    BY <1>6 DEF RunsFor, Run, Carried, NextGen, TypeOK
  <2>4. /\ \A m \in Conn : OnWay(m) \subseteq OnWay(m)'
        /\ c \in OnWay(l)' \/ c \in unserved'
    <3>1. CASE l \in staffed
      <4>1. queue' = [queue EXCEPT ![l] = Append(@, c)]
        BY <1>6, <3>1 DEF RunsFor, Run
      <4> QED
        BY <1>0, <2>1, <2>2, <4>1, Sent
    <3>2. CASE l \notin staffed
      <4>1. queue' = queue /\ unserved' = unserved \cup {c}
        BY <1>6, <3>2 DEF RunsFor, Run
      <4> QED
        BY <2>1, <4>1 DEF OnWay
    <3> QED
      BY <3>1, <3>2
  <2>5. CASE k = l
    <3>1. IsRun(c)'
      BY <2>2 DEF IsRun
    <3> QED
      BY <2>2, <2>3, <2>4, <2>5, <3>1 DEF Awaited, OnItsWay, Unserved, OnWay
  <2>6. CASE k # l
    <3>1. k \in Conn /\ Awaited(k) /\ OnWay(k) \subseteq OnWay(k)' /\ gen'[k] = gen[k]
      BY <1>0, <2>1, <2>3, <2>4, <2>6
    <3>2. \A d \in Handled : genOf'[d] = genOf[d]
      BY <2>1, <2>3, TakenIsNew DEF Handled
    <3>9. OnWay(k) \cap Current(k) \subseteq OnWay(k)' \cup leftBehind'
      BY <2>1, <3>1, <3>2 DEF Current
    <3> QED
      BY <2>1, <3>1, <3>2, <3>9, TakenIsNew, StillAwaited
  <2> QED
    BY <2>5, <2>6
<1>7. ASSUME NEW c \in Cmd, NEW l \in Conn, HandleOpenDB(c, l)
      PROVE  Awaited(k)'
  <2>1. /\ Take(c, "open", l) /\ UNCHANGED <<gen, genOf, dimmed, unserved, leftBehind>>
    BY <1>7 DEF HandleOpenDB, tabVars
  <2>2. k \in Conn /\ Awaited(k) /\ OnWay(k) \subseteq OnWay(k)'
    BY <1>0, <1>7, <2>1 DEF OnWay, HandleOpenDB
  <2>9. OnWay(k) \cap Current(k) \subseteq OnWay(k)' \cup leftBehind'
    BY <2>1, <2>2 DEF Current
  <2> QED
    BY <2>1, <2>2, <2>9, TakenIsNew, StillAwaited
<1>8. ASSUME NEW c \in Cmd, NEW l \in Conn, HandleClose(c, l)
      PROVE  Awaited(k)'
  <2>1. /\ Take(c, "step", Mem) /\ StopWorker(l)
        /\ UNCHANGED <<gen, genOf, unserved, leftBehind, goroutine, results>> /\ k \in dimmed
    BY <1>8 DEF HandleClose
  <2>2. k \in Conn /\ Awaited(k)
    BY <1>0, <2>1
  <2>3. OnWay(k) \subseteq OnWay(k)'
    <3>1. {} \in SUBSET Cmd /\ {} \cap Travelling = {} /\ goroutine' = goroutine \cup {}
      BY <2>1
    <3>2. OnWay(k) \subseteq OnWay(k)'
      BY <1>0, <2>1, <2>2, <3>1, Stopped
    <3> QED
      BY <3>2
  <2>9. OnWay(k) \cap Current(k) \subseteq OnWay(k)' \cup leftBehind'
    BY <2>1, <2>2, <2>3 DEF Current
  <2> QED
    BY <2>1, <2>2, <2>3, <2>9, TakenIsNew, StillAwaited
<1>9. ASSUME NEW c \in Cmd, NEW l \in Conn, HandleReconnect(c, l)
      PROVE  Awaited(k)'
  <2>1. /\ Take(c, "reconnect", l) /\ StopWorker(l) /\ goroutine' = goroutine \cup {c}
        /\ UNCHANGED <<gen, genOf, dimmed, unserved, leftBehind, results>>
    BY <1>9 DEF HandleReconnect, tabVars
  <2>2. k \in Conn /\ Awaited(k)
    BY <1>0, <2>1
  <2>3. OnWay(k) \subseteq OnWay(k)'
    <3>1. {c} \in SUBSET Cmd /\ {c} \cap Travelling = {}
      BY <2>1, TakenIsNew
    <3>2. OnWay(k) \subseteq OnWay(k)'
      BY <1>0, <2>1, <2>2, <3>1, Stopped
    <3> QED
      BY <3>2
  <2>9. OnWay(k) \cap Current(k) \subseteq OnWay(k)' \cup leftBehind'
    BY <2>1, <2>2, <2>3 DEF Current
  <2> QED
    BY <2>1, <2>2, <2>3, <2>9, TakenIsNew, StillAwaited
<1>10. ASSUME NEW c \in Cmd, PollStale(c)
       PROVE  Awaited(k)'
  <2>1. /\ Poll(c) /\ Stale(c)
        /\ UNCHANGED <<kind, place, gen, genOf, dimmed, unserved, leftBehind, queue, goroutine>>
    BY <1>10 DEF PollStale, Poll, whatVars, tabVars
  <2>2. k \in Conn /\ Awaited(k) /\ k \in rail
    BY <1>0, <2>1
  <2>3. OnWay(k) \ {c} \subseteq OnWay(k)'
    BY <1>0, <2>1, <2>2, Polled
  <2>4. ~(IsRun(c) /\ place[c] = k /\ genOf[c] = gen[k])
    BY <2>1, <2>2 DEF Stale
  <2>9. OnWay(k) \cap Current(k) \subseteq OnWay(k)' \cup leftBehind'
    BY <2>1, <2>2, <2>3, <2>4 DEF Current
  <2> QED
    BY <2>1, <2>2, <2>3, <2>4, <2>9, StillAwaited
<1>11. ASSUME NEW c \in Cmd, NEW ok \in BOOLEAN, PollRun(c, ok)
       PROVE  Awaited(k)'
  <2>1. /\ Poll(c) /\ k \in dimmed /\ k # place[c]
        /\ UNCHANGED <<kind, place, gen, genOf, unserved, leftBehind, queue, goroutine>>
    BY <1>11 DEF PollRun, Poll, Undimmed, whatVars
  <2>2. k \in Conn /\ Awaited(k)
    BY <1>0, <2>1
  <2>3. OnWay(k) \ {c} \subseteq OnWay(k)'
    BY <1>0, <2>1, <2>2, Polled
  <2>9. OnWay(k) \cap Current(k) \subseteq OnWay(k)' \cup leftBehind'
    BY <2>1, <2>2, <2>3 DEF Current
  <2> QED
    BY <2>1, <2>2, <2>3, <2>9, StillAwaited
<1>12. ASSUME NEW c \in Cmd, PollFailed(c)
       PROVE  Awaited(k)'
  <2>1. /\ Poll(c) /\ ~IsRun(c)
        /\ UNCHANGED <<kind, place, gen, genOf, dimmed, unserved, leftBehind, queue, goroutine>>
    BY <1>12 DEF PollFailed, Poll, IsRun, whatVars, tabVars
  <2>2. k \in Conn /\ Awaited(k)
    BY <1>0, <2>1
  <2>3. OnWay(k) \ {c} \subseteq OnWay(k)'
    BY <1>0, <2>1, <2>2, Polled
  <2>9. OnWay(k) \cap Current(k) \subseteq OnWay(k)' \cup leftBehind'
    BY <2>1, <2>2, <2>3 DEF Current
  <2> QED
    BY <2>1, <2>2, <2>3, <2>9, StillAwaited
<1>13. ASSUME NEW c \in Cmd, PollOpened(c)
       PROVE  Awaited(k)'
  <2>1. /\ Poll(c) /\ ~IsRun(c) /\ place[c] \notin rail
        /\ UNCHANGED <<kind, place, dimmed, unserved, leftBehind, queue, goroutine>>
    BY <1>13 DEF PollOpened, Poll, IsRun, whatVars
  <2>2. k \in Conn /\ Awaited(k) /\ k # place[c]
    BY <1>0, <2>1
  <2>3. OnWay(k) \ {c} \subseteq OnWay(k)'
    BY <1>0, <2>1, <2>2, Polled
  <2>4. gen'[k] = gen[k] /\ \A d \in Cmd : place[d] = k => genOf'[d] = genOf[d]
    BY <1>13, <2>2 DEF PollOpened, TypeOK
  <2>9. OnWay(k) \cap Current(k) \subseteq OnWay(k)' \cup leftBehind'
    BY <2>1, <2>2, <2>3, <2>4 DEF Current
  <2> QED
    BY <2>1, <2>2, <2>3, <2>4, <2>9, StillAwaited DEF Handled
<1>14. ASSUME NEW c \in Cmd, PollReconnected(c)
       PROVE  Awaited(k)'
  <2>1. /\ Poll(c) /\ ~IsRun(c) /\ place[c] \in Conn
        /\ UNCHANGED <<kind, place, gen, genOf, dimmed, unserved, leftBehind>>
    BY <1>14 DEF PollReconnected, Poll, IsRun, whatVars, tabVars, TypeOK
  <2>2. k \in Conn /\ Awaited(k)
    BY <1>0, <2>1
  <2>3. OnWay(k) \ {c} \subseteq OnWay(k)'
    <3>1. CASE place[c] \in rail
      BY <1>0, <1>14, <2>1, <2>2, <3>1, PolledReplaced DEF PollReconnected
    <3>2. CASE place[c] \notin rail
      BY <1>0, <1>14, <2>1, <2>2, <3>2, Polled DEF PollReconnected
    <3> QED
      BY <3>1, <3>2
  <2>9. OnWay(k) \cap Current(k) \subseteq OnWay(k)' \cup leftBehind'
    BY <2>1, <2>2, <2>3 DEF Current
  <2> QED
    BY <2>1, <2>2, <2>3, <2>9, StillAwaited
<1>15. ASSUME NEW c \in Cmd, PollUnreadable(c)
       PROVE  Awaited(k)'
  <2>1. /\ Poll(c) /\ ~Stale(c) /\ unserved' = unserved \cup {c}
        /\ UNCHANGED <<kind, place, gen, genOf, dimmed, leftBehind, queue, goroutine>>
    BY <1>15 DEF PollUnreadable, Poll, whatVars
  <2>2. CASE k = place[c]
    <3>1. c \in unserved' /\ place'[c] = k /\ genOf'[c] = gen'[k]
      BY <2>1, <2>2 DEF Stale
    <3> QED
      BY <3>1 DEF Awaited, Unserved
  <2>3. CASE k # place[c]
    <3>1. k \in Conn /\ Awaited(k)
      BY <1>0, <2>1
    <3>2. OnWay(k) \ {c} \subseteq OnWay(k)'
      BY <1>0, <2>1, <3>1, Polled
    <3>3. OnWay(k) \cap Current(k) \subseteq OnWay(k)' \cup leftBehind'
      BY <2>3, <3>2 DEF Current
    <3> QED
      BY <2>1, <3>1, <3>3, StillAwaited
  <2> QED
    BY <2>2, <2>3
<1> QED
  BY Steps, <1>1, <1>2, <1>3, <1>4, <1>5, <1>6, <1>7, <1>8, <1>9, <1>10, <1>11, <1>12,
     <1>13, <1>14, <1>15

-----------------------------------------------------------------------------
(* The snapshot of GET /state, and the theorems *)

\* Handling commands changes nothing the snapshot is of; polling happens before it.
LEMMA SnapshotStep ==
  ASSUME TypeOK, SnapshotIsFresh, [Next]_vars
  PROVE  SnapshotIsFresh'
<1>1. CASE Quiet
  BY <1>1 DEF SnapshotIsFresh, Quiet, frameVars
<1>2. CASE CommandsDrained \/ PollDone
  BY <1>2 DEF SnapshotIsFresh, CommandsDrained, PollDone, Cached
<1>3. ASSUME NEW c \in Cmd,
             \/ OnTheSpot(c) \/ HandleCloseTab(c)
             \/ \E what \in {"run", "click", "file"}, k \in Conn : RunsFor(c, what, k)
             \/ \E k \in Conn : \/ HandleOpenDB(c, k) \/ HandleClose(c, k)
                               \/ HandleReconnect(c, k)
      PROVE  SnapshotIsFresh'
  <2>1. UNCHANGED <<frame, snapshot, effects>>
    BY <1>3 DEF OnTheSpot, HandleCloseTab, RunsFor, Run, HandleOpenDB, HandleClose,
       HandleReconnect, Take
  <2> QED
    BY <2>1 DEF SnapshotIsFresh
<1>4. ASSUME NEW c \in Cmd, Submit(c)
      PROVE  SnapshotIsFresh'
  BY <1>4 DEF Submit, SnapshotIsFresh, frameVars
<1>5. ASSUME NEW c \in Cmd,
             \/ PollStale(c) \/ PollUnreadable(c) \/ PollFailed(c)
             \/ PollOpened(c) \/ PollReconnected(c)
             \/ \E ok \in BOOLEAN : PollRun(c, ok)
      PROVE  SnapshotIsFresh'
  <2>1. frame' = "poll"
    BY <1>5 DEF PollStale, PollUnreadable, PollFailed, PollOpened, PollReconnected, PollRun,
       Poll, frameVars
  <2> QED
    BY <2>1 DEF SnapshotIsFresh
<1>6. CASE \/ \E k \in Conn : Finish(k)
           \/ \E c \in Cmd : FinishDying(c) \/ Abandon(c) \/ Land(c)
  <2>1. UNCHANGED <<frameVars, effects>>
    BY <1>6 DEF Finish, FinishDying, Abandon, Land
  <2> QED
    BY <2>1 DEF SnapshotIsFresh, frameVars
<1> QED
  BY Steps, <1>1, <1>2, <1>3, <1>4, <1>5, <1>6

\* Nothing has been asked yet.
LEMMA InitIInv == ASSUME Init PROVE IInv
<1> USE DEF Init
<1>1. /\ Mem \in Conn /\ CmdCap \in Nat \ {0}
      /\ <<>> \in Seq(Cmd) /\ Len(<<>>) = 0
      /\ Range(<<>>) = {} /\ NoRepeat(<<>>)
  BY CommandsAssumption, EmptyRange
<1>2. TypeOK
  <2>1. /\ commands \in Seq(Cmd) /\ Len(commands) <= CmdCap /\ results \in Seq(Cmd)
        /\ queue \in [Conn -> Seq(Cmd)]
    BY <1>1
  <2>2. /\ answer \in [Cmd -> {"none", "ok", "error"}]
        /\ kind \in [Cmd -> {"none", "step", "run", "click", "file", "fresh", "open",
                            "reconnect"}]
        /\ place \in [Cmd -> Conn]
        /\ gen \in [Conn -> Nat] /\ genOf \in [Cmd -> Nat]
    BY <1>1
  <2>3. /\ remote \subseteq Conn \ {Mem} /\ rail \subseteq Conn /\ staffed \subseteq rail
        /\ dimmed \subseteq rail /\ Mem \in staffed /\ active \in rail
    BY <1>1
  <2>4. {dying, leftBehind, goroutine, unserved, effects, snapshot} \subseteq SUBSET Cmd
    OBVIOUS
  <2> QED
    BY <2>1, <2>2, <2>3, <2>4 DEF TypeOK
<1>3. \A k \in Conn : queue[k] = <<>>
  OBVIOUS
<1>4. Queued = {} /\ Travelling = {}
  BY <1>1, <1>3 DEF Queued, Travelling
<1>5. Handled = {}
  BY DEF Handled
<1>6. NowhereTwice
  BY <1>1, <1>3, <1>4 DEF NowhereTwice, TravelsApart
<1>7. Unhandled /\ AnsweredOrTravels
  BY <1>1, <1>4, <1>5 DEF Unhandled, AnsweredOrTravels
<1>8. Generations
  BY <1>1 DEF Generations
<1>9. SnapshotIsFresh /\ OkMeansShown /\ DimmedIsAwaited
  BY DEF SnapshotIsFresh, OkMeansShown, DimmedIsAwaited
<1> QED
  BY <1>2, <1>6, <1>7, <1>8, <1>9 DEF IInv, Placed

\* Every step keeps the inductive invariant.
LEMMA Inductive == ASSUME IInv, [Next]_vars PROVE IInv'
<1>1. TypeOK'
  BY TypeStep DEF IInv, Placed
<1>2. Placed'
  BY PlacesStep DEF IInv
<1>3. Generations' /\ OkMeansShown'
  BY ShownStep DEF IInv
<1>4. DimmedIsAwaited'
  BY DimmedStep DEF IInv
<1>5. SnapshotIsFresh'
  BY SnapshotStep DEF IInv
<1> QED
  BY <1>1, <1>2, <1>3, <1>4, <1>5 DEF IInv

\* The commands, their answers and the tabs keep to the inductive invariant.
THEOREM Invariant == Spec => []IInv
  BY InitIInv, Inductive, PTL DEF Spec

\* Types are invariant: the channel keeps to its capacity, and only open
\* connections have a worker or a dimmed tab.
THEOREM TypeCorrect == Spec => []TypeOK
<1>1. IInv => TypeOK
  BY DEF IInv
<1> QED
  BY Invariant, <1>1, PTL

\* At most one worker has a command.
LEMMA QueuedOnce ==
  ASSUME TravelsApart, NEW c
  PROVE  Cardinality({k \in Conn : c \in Range(queue[k])}) = Flag(c \in Queued)
<1>1. CASE c \in Queued
  <2>1. PICK k \in Conn : c \in Range(queue[k])
    BY <1>1 DEF Queued
  <2>2. {l \in Conn : c \in Range(queue[l])} = {k}
    BY <2>1 DEF TravelsApart
  <2> QED
    BY <1>1, <2>2, FS_Singleton DEF Flag
<1>2. CASE c \notin Queued
  <2>1. {l \in Conn : c \in Range(queue[l])} = {}
    BY <1>2 DEF Queued
  <2> QED
    BY <1>2, <2>1, FS_EmptySet DEF Flag
<1> QED
  BY <1>1, <1>2

\* A command that has been asked is in one place: never in two, where it would
\* be answered twice, and never in none, where its client waits for ever.
THEOREM HeldOnce == Spec => []HeldInOnePlace
<1>1. ASSUME IInv, NEW c \in asked
      PROVE  Places(c) = 1
  <2>1. /\ c \in Cmd /\ commands \in Seq(Cmd) /\ results \in Seq(Cmd)
        /\ NoRepeat(commands) /\ NoRepeat(results) /\ TravelsApart
    BY <1>1 DEF IInv, TypeOK, Placed, NowhereTwice, TravelsApart
  <2>2. TimesIn(c, commands) = Flag(c \in Range(commands))
    BY <2>1, TimesInOnce
  <2>3. TimesIn(c, results) = Flag(c \in Range(results))
    BY <2>1, TimesInOnce
  <2>4. Travels(c) = Flag(c \in Travelling)
    <3>1. Cardinality({k \in Conn : c \in Range(queue[k])}) = Flag(c \in Queued)
      BY <2>1, QueuedOnce
    <3>2. Travels(c) = Flag(c \in Range(results)) + Flag(c \in Queued) + Flag(c \in dying)
                       + Flag(c \in leftBehind) + Flag(c \in goroutine)
      BY <2>3, <3>1 DEF Travels
    <3>3. CASE c \in Queued
      <4>1. c \notin dying \cup leftBehind \cup goroutine \cup Range(results)
        BY <2>1, <3>3 DEF TravelsApart
      <4> QED
        BY <3>2, <3>3, <4>1 DEF Flag, Travelling
    <3>4. CASE c \in dying
      <4>1. c \notin Queued \cup leftBehind \cup goroutine \cup Range(results)
        BY <2>1, <3>4 DEF TravelsApart
      <4> QED
        BY <3>2, <3>4, <4>1 DEF Flag, Travelling
    <3>5. CASE c \in leftBehind
      <4>1. c \notin Queued \cup dying \cup goroutine \cup Range(results)
        BY <2>1, <3>5 DEF TravelsApart
      <4> QED
        BY <3>2, <3>5, <4>1 DEF Flag, Travelling
    <3>6. CASE c \in goroutine
      <4>1. c \notin Queued \cup dying \cup leftBehind \cup Range(results)
        BY <2>1, <3>6 DEF TravelsApart
      <4> QED
        BY <3>2, <3>6, <4>1 DEF Flag, Travelling
    <3>7. CASE c \in Range(results)
      <4>1. c \notin Queued \cup dying \cup leftBehind \cup goroutine
        BY <2>1, <3>7 DEF TravelsApart
      <4> QED
        BY <3>2, <3>7, <4>1 DEF Flag, Travelling
    <3>8. CASE c \notin Travelling
      BY <3>2, <3>8 DEF Flag, Travelling
    <3> QED
      BY <3>3, <3>4, <3>5, <3>6, <3>7, <3>8 DEF Travelling
  <2>5. CASE c \in Range(commands)
    <3>1. kind[c] = "none" /\ c \notin Handled
      BY <1>1, <2>5 DEF IInv, Placed, Unhandled, Handled
    <3>2. answer[c] = "none" /\ c \notin Travelling
      BY <1>1, <2>1, <3>1 DEF IInv, Placed, Unhandled
    <3> QED
      BY <2>2, <2>4, <2>5, <3>1, <3>2 DEF Places, Flag
  <2>6. CASE c \notin Range(commands)
    <3>1. c \in Handled
      BY <1>1, <2>1, <2>6 DEF IInv, Placed, AnsweredOrTravels
    <3>2. CASE kind[c] = "click"
      <4>1. answer[c] # "none"
        BY <1>1, <2>1, <3>2 DEF IInv, Placed, AnsweredOrTravels
      <4> QED
        BY <2>2, <2>6, <3>2, <4>1 DEF Places, Flag
    <3>3. CASE kind[c] # "click"
      <4>1. answer[c] # "none" <=> c \notin Travelling
        BY <1>1, <2>1, <3>1, <3>3 DEF IInv, Placed, AnsweredOrTravels
      <4> QED
        BY <2>2, <2>4, <2>6, <3>3, <4>1 DEF Places, Flag
    <3> QED
      BY <3>2, <3>3
  <2> QED
    BY <2>5, <2>6
<1>2. IInv => HeldInOnePlace
  BY <1>1 DEF HeldInOnePlace
<1> QED
  BY Invariant, <1>2, PTL

\* A run answered with success was shown, or its tab has moved on.
THEOREM OkShown == Spec => []OkMeansShown
<1>1. IInv => OkMeansShown
  BY DEF IInv
<1> QED
  BY Invariant, <1>1, PTL

\* What was answered from a result is in the snapshot while commands are handled.
THEOREM AnsweredVisible == Spec => []AnsweredIsVisible
<1>1. IInv => AnsweredIsVisible
  BY DEF IInv, SnapshotIsFresh, AnsweredIsVisible
<1> QED
  BY Invariant, <1>1, PTL

\* A dimmed tab awaits a result, or its run met a worker that was gone, or opened a
\* file that could not be read.
THEOREM DimmedAwaited == Spec => []DimmedIsAwaited
<1>1. IInv => DimmedIsAwaited
  BY DEF IInv
<1> QED
  BY Invariant, <1>1, PTL
=============================================================================
