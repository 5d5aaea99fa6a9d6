---------------------------- MODULE ScreenProofs ----------------------------
(***************************************************************************)
(* Proofs about ConnectionScreen, for any cards, accounts and labels and   *)
(* any number of presses: no password goes to the server of another, a     *)
(* profile is of one account, Cancel is at hand while a card connects and  *)
(* a tunnel that is up is noticed.                                         *)
(***************************************************************************)
EXTENDS ConnectionScreen, TLAPS

-----------------------------------------------------------------------------
(* The saved connections *)

Bookmark == [kind : Kind \cup {"none"}, from : Nat, secret : BOOLEAN, ssh : BOOLEAN,
             sshSecret : BOOLEAN]

SavedTypeOK ==
  /\ bookmarks \in [Label -> Bookmark] /\ file \in [Label -> Bookmark]
  /\ keychain \in [Label -> [db : Nat, ssh : Nat]]
  /\ saves \in Nat
  /\ lapsed \subseteq Label

\* AWS has no password to keep, in memory and on disk.
NoSecretOverAWS ==
  \A l \in Label :
    /\ bookmarks[l].kind = "aws" => ~bookmarks[l].secret /\ ~bookmarks[l].sshSecret
    /\ file[l].kind = "aws" => ~file[l].secret /\ ~file[l].sshSecret

\* A bookmark that has reached the disk is the one in memory.
OnDisk == \A l \in Label \ lapsed : bookmarks[l] = file[l]

SavedInv == SavedTypeOK /\ NoSecretOverAWS /\ OnDisk /\ PasswordOfItsServer

-----------------------------------------------------------------------------
(* The SSO panel *)

\* The jobs that have yet to write their report, and the reports that decide what
\* the panel shows next.
Waiting == {j \in Request : request[j].doing \in {"login", "accounts", "roles", "profile"}}
Turning == reports \cap {"loginErr", "accountsErr", "accounts", "roles"}

\* The session asks one thing at a time, with the picker cleared meanwhile.
OneAtATime ==
  /\ \A j, k \in Waiting : j = k
  /\ \A r, s \in Turning : r = s
  /\ Waiting # {} => Turning = {}
  /\ Waiting # {} \/ Turning # {} => picker = "none"

\* Accounts and roles are picked in a session.
PickedInSession ==
  /\ picker # "none" => mode = "in"
  /\ "roles" \in reports => mode = "in"
  /\ \A j \in Waiting : request[j].doing = "roles" => mode = "in"

\* The roles asked for, fetched or shown are of the account picked.
RolesOfPicked ==
  /\ "roles" \in reports \/ picker = "roles" => rolesOf = picked
  /\ \A j \in Request : request[j].doing = "roles" => request[j].account = picked
  /\ \A j \in Request :
       request[j].doing = "profile" => request[j].account = request[j].roleOf

PanelInv ==
  /\ PanelTypeOK
  /\ \A j \in Request : j > clicks => request[j] = NoRequest
  /\ \A j \in Request : request[j].doing = "profile" => request[j].roleOf # Nobody
  /\ ~crossed => OneAtATime /\ PickedInSession /\ RolesOfPicked
  /\ ProfileOfOneAccount

-----------------------------------------------------------------------------
(* The cards *)

\* A card's job that has yet to write its report.
Busy(j) == job[j].doing \in {"check", "login", "connect"}

\* Jobs are numbered by the clicks that start them, and only one that is over or
\* about to raise its card has brought a tunnel up.
JobsNumbered ==
  /\ \A j \in Job : j > clicks => job[j] = NoJob
  /\ \A j \in Job : job[j].doing # "none" => job[j].card \in Card
  /\ \A j \in up : job[j].doing \in {"raise", "over"}

\* A button that reads Cancel has an attempt to cancel.
CancelIsOfAttempt == \A c \in connecting : cancelOf[c] # 0

\* A card that reports success holds a tunnel that is up.
ConnectedIsUp == \A c \in connected : tunnel[c] \in up

\* A card that has never had a job has no report.
Silent(c) == loginErr[c] = "none" /\ c \notin cancelled \cup connected
SilentUntilPressed ==
  \A c \in Card : (\A j \in Job : job[j].card # c) => Silent(c) /\ bastions[c] = "none"

\* A card has one job at a time, unless it was pressed too often, ...
OneJobEach ==
  \A j, k \in Job :
    /\ job[j].card = job[k].card /\ job[j].card \notin overlapped
    /\ job[j].doing \notin {"none", "over"} /\ job[k].doing \notin {"none", "over"}
    => j = k

\* ... and what an earlier one reported has been looked at when it starts.
BusyIsSilent ==
  \A j \in Job :
    Busy(j) /\ job[j].card \notin overlapped =>
      /\ Silent(job[j].card)
      /\ job[j].card \notin rushed => bastions[job[j].card] = "none"

\* Success is the only report of its card.
ConnectedAlone ==
  \A c \in connected \ (overlapped \cup rushed) :
    loginErr[c] = "none" /\ c \notin cancelled /\ bastions[c] = "none"

CardsInv ==
  /\ CardsTypeOK
  /\ JobsNumbered
  /\ CancelIsOfAttempt
  /\ ConnectedIsUp
  /\ SilentUntilPressed
  /\ OneJobEach
  /\ BusyIsSilent
  /\ ConnectedAlone
  /\ CancelAtHand
  /\ TunnelIsNoticed

IInv == SavedInv /\ PanelInv /\ CardsInv /\ part \in {"cards", "panel", "saved"}
-----------------------------------------------------------------------------
(* The saved connections *)

\* BookmarkStore.Add of a bookmark without a secret over AWS keeps what is in
\* memory apart from what is on disk only under labels whose write was lost.
LEMMA AddKeeps ==
  ASSUME SavedInv, NEW l \in Label, NEW b \in Bookmark, NEW written \in BOOLEAN,
         b.kind = "aws" => ~b.secret /\ ~b.sshSecret,
         Add(l, b, written)
  PROVE  /\ bookmarks' \in [Label -> Bookmark] /\ file' \in [Label -> Bookmark]
         /\ lapsed' \subseteq Label
         /\ bookmarks'[l] = b
         /\ \A m \in Label \ {l} : bookmarks'[m] = bookmarks[m]
         /\ lapsed \ {l} \subseteq lapsed' /\ lapsed' \subseteq lapsed \cup {l}
         /\ NoSecretOverAWS' /\ OnDisk'
<1>1. /\ bookmarks' \in [Label -> Bookmark] /\ file' \in [Label -> Bookmark]
      /\ bookmarks'[l] = b
      /\ \A m \in Label \ {l} : bookmarks'[m] = bookmarks[m]
  BY DEF SavedInv, SavedTypeOK, Add
<1>2. /\ lapsed' \subseteq Label
      /\ lapsed \ {l} \subseteq lapsed' /\ lapsed' \subseteq lapsed \cup {l}
  BY DEF SavedInv, SavedTypeOK, Add
<1>3. NoSecretOverAWS'
  BY <1>1 DEF SavedInv, NoSecretOverAWS, Add
<1>4. OnDisk'
  BY <1>1 DEF SavedInv, OnDisk, Add
<1> QED
  BY <1>1, <1>2, <1>3, <1>4

\* Whatever a form's fields say, a password goes with the press it was typed in.
LEMMA FieldsOfPress ==
  ASSUME SavedTypeOK, NEW kind \in Kind, NEW f \in Typed(kind),
         NEW db \in BOOLEAN, NEW ssh \in BOOLEAN
  PROVE  /\ f \in Bookmark /\ f.from = saves + 1 /\ f.kind = kind
         /\ Recorded(f, db, ssh) \in Bookmark
         /\ Recorded(f, db, ssh).from = saves + 1
         /\ Recorded(f, db, ssh).kind = kind
         /\ Recorded(f, db, ssh).secret => f.secret /\ db
         /\ Recorded(f, db, ssh).sshSecret => f.sshSecret /\ ssh
<1>1. PICK p, s, q \in BOOLEAN :
        f = [kind |-> kind, from |-> ThisSave, secret |-> p, ssh |-> s, sshSecret |-> q]
  BY DEF Typed, Fields
<1>2. ThisSave = saves + 1 /\ ThisSave \in Nat
  BY DEF ThisSave, SavedTypeOK
<1>3. f \in Bookmark /\ f.from = saves + 1 /\ f.kind = kind
  BY <1>1, <1>2 DEF Bookmark
<1>4. /\ (f.secret /\ db) \in BOOLEAN
      /\ (f.sshSecret /\ ssh) \in BOOLEAN
  OBVIOUS
<1> QED
  BY <1>3, <1>4 DEF Recorded, Bookmark

\* No step on the saved connections breaks their invariant.
LEMMA SavedStep ==
  ASSUME SavedInv, SavedNext
  PROVE  SavedInv'
<1> USE DEF SavedInv
<1>1. CASE Restart
  <2>1. SavedTypeOK' /\ NoSecretOverAWS' /\ OnDisk'
    BY <1>1 DEF Restart, SavedTypeOK, NoSecretOverAWS, OnDisk
  <2>2. PasswordOfItsServer'
    BY <1>1 DEF Restart, OnDisk, PasswordOfItsServer
  <2> QED
    BY <2>1, <2>2
<1>2. ASSUME NEW l \in Label, ConnectSaved(l)
      PROVE  SavedInv'
  BY <1>2 DEF ConnectSaved, SavedTypeOK, NoSecretOverAWS, OnDisk, PasswordOfItsServer
<1>3. ASSUME NEW l \in Label, NEW written \in BOOLEAN, PickBastion(l, written)
      PROVE  SavedInv'
  <2>1. /\ bookmarks[l] \in Bookmark /\ Add(l, bookmarks[l], written)
        /\ ~bookmarks[l].secret /\ ~bookmarks[l].sshSecret
        /\ keychain' = keychain /\ saves' = saves
    BY <1>3 DEF PickBastion, SavedTypeOK, NoSecretOverAWS
  <2>2. PasswordOfItsServer'
    BY <2>1, AddKeeps DEF PasswordOfItsServer
  <2> QED
    BY <2>1, <2>2, AddKeeps DEF SavedTypeOK
<1>4. ASSUME NEW l \in Label, NEW deleted \in BOOLEAN, NEW written \in BOOLEAN,
             Remove(l, deleted, written)
      PROVE  SavedInv'
  <2>1. NoBookmark \in Bookmark /\ NoBookmark.kind = "none"
        /\ ~NoBookmark.secret /\ ~NoBookmark.sshSecret
    BY DEF NoBookmark, Bookmark
  <2>2. Add(l, NoBookmark, written) /\ saves' = saves
    BY <1>4 DEF Remove
  <2>3. /\ keychain' \in [Label -> [db : Nat, ssh : Nat]]
        /\ \A m \in Label \ {l} : keychain'[m] = keychain[m]
    BY <1>4 DEF Remove, SavedTypeOK
  <2>4. PasswordOfItsServer'
    BY <2>1, <2>2, <2>3, AddKeeps DEF PasswordOfItsServer
  <2> QED
    BY <2>1, <2>2, <2>3, <2>4, AddKeeps DEF SavedTypeOK
<1>5. ASSUME NEW l \in Label, NEW kind \in Kind, NEW written \in BOOLEAN,
             ConnectOther(l, kind, written)
      PROVE  SavedInv'
  <2> DEFINE f == [NoBookmark EXCEPT !.kind = kind, !.from = ThisSave]
  <2>1. f \in Bookmark /\ ~f.secret /\ ~f.sshSecret
    <3>1. NoBookmark \in Bookmark /\ ~NoBookmark.secret /\ ~NoBookmark.sshSecret
      BY DEF NoBookmark, Bookmark
    <3>2. ThisSave \in Nat /\ kind \in Kind
      BY DEF SavedTypeOK, ThisSave
    <3> QED
      BY <3>1, <3>2 DEF Bookmark
  <2>2. Add(l, f, written) /\ keychain' = keychain /\ saves' = saves + 1
    BY <1>5 DEF ConnectOther, NextSave, ThisSave
  <2> HIDE DEF f
  <2>3. PasswordOfItsServer'
    BY <2>1, <2>2, AddKeeps DEF PasswordOfItsServer
  <2> QED
    BY <2>1, <2>2, <2>3, AddKeeps DEF SavedTypeOK
<1>6. ASSUME NEW l \in Label, NEW db \in BOOLEAN, NEW ssh \in BOOLEAN,
             NEW written \in BOOLEAN, NEW f \in Typed("postgres"),
             ConnectPostgres(l, f, db, ssh, written)
      PROVE  SavedInv'
  <2> DEFINE b == Recorded(f, db, ssh)
  <2>1. /\ b \in Bookmark /\ b.from = saves + 1 /\ b.kind = "postgres"
        /\ b.secret => f.secret /\ db
        /\ b.sshSecret => f.sshSecret /\ ssh
        /\ f.secret \in BOOLEAN /\ f.sshSecret \in BOOLEAN
    BY FieldsOfPress DEF Kind, Bookmark
  <2>2. keychain' = Stored(l, f.secret /\ db, f.sshSecret /\ ssh)
    BY <1>6 DEF ConnectPostgres
  <2>3. Add(l, b, written) /\ saves' = saves + 1
    BY <1>6 DEF ConnectPostgres, NextSave, ThisSave
  <2>4. /\ keychain' \in [Label -> [db : Nat, ssh : Nat]]
        /\ b.secret => keychain'[l].db = saves + 1
        /\ b.sshSecret => keychain'[l].ssh = saves + 1
        /\ \A m \in Label \ {l} : keychain'[m] = keychain[m]
    <3> DEFINE x == IF f.secret /\ db THEN saves + 1 ELSE keychain[l].db
               y == IF f.sshSecret /\ ssh THEN saves + 1 ELSE keychain[l].ssh
    <3>1. keychain' = [keychain EXCEPT ![l].db = x, ![l].ssh = y]
      BY <2>2, Zenon DEF Stored, ThisSave
    <3>2. /\ x \in Nat /\ y \in Nat
          /\ b.secret => x = saves + 1
          /\ b.sshSecret => y = saves + 1
      BY <2>1 DEF SavedTypeOK
    <3> HIDE DEF b, x, y
    <3> QED
      BY <3>1, <3>2 DEF SavedTypeOK
  <2> HIDE DEF b
  <2>5. PasswordOfItsServer'
    BY <2>1, <2>3, <2>4, AddKeeps DEF PasswordOfItsServer
  <2> QED
    BY <2>1, <2>3, <2>4, <2>5, AddKeeps DEF SavedTypeOK
<1>7. ASSUME NEW l \in Label, NEW db \in BOOLEAN, NEW ssh \in BOOLEAN,
             NEW written \in BOOLEAN, NEW f \in Typed("mysql"),
             ConnectMySQL(l, f, db, ssh, written)
      PROVE  SavedInv'
  <2> DEFINE b == WithoutSSH(Recorded(f, db, ssh))
  <2>1. /\ b \in Bookmark /\ b.from = saves + 1 /\ b.kind = "mysql"
        /\ b.secret => f.secret /\ db
        /\ ~b.sshSecret
        /\ f.secret \in BOOLEAN /\ f.sshSecret \in BOOLEAN
    <3>1. /\ Recorded(f, db, ssh) \in Bookmark /\ f \in Bookmark
          /\ Recorded(f, db, ssh).from = saves + 1
          /\ Recorded(f, db, ssh).kind = "mysql"
          /\ Recorded(f, db, ssh).secret => f.secret /\ db
      BY FieldsOfPress DEF Kind
    <3> QED
      BY <3>1 DEF Bookmark, WithoutSSH
  <2>2. keychain' = Stored(l, f.secret /\ db, f.sshSecret /\ ssh)
    BY <1>7 DEF ConnectMySQL
  <2>3. Add(l, b, written) /\ saves' = saves + 1
    BY <1>7 DEF ConnectMySQL, NextSave, ThisSave
  <2>4. /\ keychain' \in [Label -> [db : Nat, ssh : Nat]]
        /\ b.secret => keychain'[l].db = saves + 1
        /\ b.sshSecret => keychain'[l].ssh = saves + 1
        /\ \A m \in Label \ {l} : keychain'[m] = keychain[m]
    <3> DEFINE x == IF f.secret /\ db THEN saves + 1 ELSE keychain[l].db
               y == IF f.sshSecret /\ ssh THEN saves + 1 ELSE keychain[l].ssh
    <3>1. keychain' = [keychain EXCEPT ![l].db = x, ![l].ssh = y]
      BY <2>2, Zenon DEF Stored, ThisSave
    <3>2. /\ x \in Nat /\ y \in Nat
          /\ b.secret => x = saves + 1
          /\ b.sshSecret => y = saves + 1
      BY <2>1 DEF SavedTypeOK
    <3> HIDE DEF b, x, y
    <3> QED
      BY <3>1, <3>2 DEF SavedTypeOK
  <2> HIDE DEF b
  <2>5. PasswordOfItsServer'
    BY <2>1, <2>3, <2>4, AddKeeps DEF PasswordOfItsServer
  <2> QED
    BY <2>1, <2>3, <2>4, <2>5, AddKeeps DEF SavedTypeOK
<1>8. ASSUME NEW l \in Label, NEW f \in Typed("postgres") \cup Typed("mysql"),
             DieSaving(l, f)
      PROVE  SavedInv'
  <2>1. f.secret \in BOOLEAN /\ f.sshSecret \in BOOLEAN
    BY FieldsOfPress DEF Kind, Bookmark
  <2>2. keychain' = Stored(l, f.secret, f.sshSecret)
    BY <1>8 DEF DieSaving
  <2>3. /\ saves' = saves + 1 /\ bookmarks' = file /\ file' = file
        /\ lapsed' = lapsed \cup {l}
    BY <1>8 DEF DieSaving, NextSave, ThisSave
  <2>4. /\ keychain' \in [Label -> [db : Nat, ssh : Nat]]
        /\ \A m \in Label \ {l} : keychain'[m] = keychain[m]
    <3> DEFINE x == IF f.secret THEN saves + 1 ELSE keychain[l].db
               y == IF f.sshSecret THEN saves + 1 ELSE keychain[l].ssh
    <3>1. keychain' = [keychain EXCEPT ![l].db = x, ![l].ssh = y]
      BY <2>2, Zenon DEF Stored, ThisSave
    <3>2. x \in Nat /\ y \in Nat
      BY DEF SavedTypeOK
    <3> HIDE DEF x, y
    <3> QED
      BY <3>1, <3>2 DEF SavedTypeOK
  <2>5. NoSecretOverAWS' /\ OnDisk'
    BY <2>3 DEF NoSecretOverAWS, OnDisk
  <2>6. PasswordOfItsServer'
    BY <2>3, <2>4 DEF OnDisk, PasswordOfItsServer
  <2> QED
    BY <2>3, <2>4, <2>5, <2>6 DEF SavedTypeOK
<1> QED
  BY <1>1, <1>2, <1>3, <1>4, <1>5, <1>6, <1>7, <1>8 DEF SavedNext

-----------------------------------------------------------------------------
(* The SSO panel *)

\* The reports, as a set.
LEMMA OrderNames ==
  {Order[n] : n \in DOMAIN Order} =
    {"loginErr", "profileDone", "profileErr", "rolesErr", "roles", "accountsErr",
     "accounts", "done", "log"}
  BY DEF Order

\* A frame handles one of the reports, if there is any.
LEMMA FrameHandles ==
  ASSUME PanelFrame
  PROVE  \/ reports = {} /\ mode' = mode /\ picker' = picker /\ reports' = reports
         \/ \E what \in reports :
              /\ reports' = reports \ With(what)
              /\ mode' = ModeAfter(what) /\ picker' = PickerAfter(what)
  BY DEF PanelFrame

\* A click that starts a job gives it a number that no job has.
LEMMA NewJob ==
  ASSUME clicks \in 0..MaxClicks, Click
  PROVE  /\ ThisJob \in Job /\ ThisJob \in Request /\ ThisJob > clicks
         /\ clicks' = ThisJob /\ clicks' \in 0..MaxClicks
         /\ \A j \in Request : j > clicks' => j > clicks /\ j # ThisJob
  BY ClicksAssumption DEF Click, ThisJob, Job, Request

\* The part of the invariant that needs no history.
PanelBase ==
  /\ PanelTypeOK
  /\ clicks \in 0..MaxClicks
  /\ \A j \in Request : j > clicks => request[j] = NoRequest
  /\ \A j \in Request : request[j].doing = "profile" => request[j].roleOf # Nobody

\* A click on the panel keeps the types and the numbers of the jobs.
LEMMA ClickKeepsBase ==
  ASSUME PanelBase, PanelClick
  PROVE  PanelBase'
<1> USE DEF PanelBase
<1>1. Click
  BY DEF PanelClick, Login, Logout, BackToAccounts, PickRole, PickAccount
<1>2. ThisJob \in Request /\ clicks' \in 0..MaxClicks
      /\ \A j \in Request : j > clicks' => j > clicks /\ j # ThisJob
  BY <1>1, NewJob
<1>3. CASE Login
  BY <1>2, <1>3 DEF Login, Ask, Asks, NoRequest, PanelTypeOK, Crossing, UnderWay
<1>4. CASE Logout
  BY <1>2, <1>4 DEF Logout, PanelTypeOK, Crossing, UnderWay
<1>5. CASE BackToAccounts
  BY <1>2, <1>5 DEF BackToAccounts, PanelTypeOK
<1>6. CASE PickRole
  BY <1>2, <1>6 DEF PickRole, Ask, PanelTypeOK
<1>7. ASSUME NEW a \in Account, PickAccount(a)
      PROVE  PanelBase'
  BY <1>2, <1>7 DEF PickAccount, PickerWhileLoading, Ask, Asks, NoRequest, PanelTypeOK
<1> QED
  BY <1>3, <1>4, <1>5, <1>6, <1>7 DEF PanelClick

\* A job that goes on stays a job for the same account.
LEMMA GoesOn ==
  ASSUME PanelTypeOK, NEW j \in Request,
         NEW x \in {"accounts", "raise", "over"},
         request' = [request EXCEPT ![j].doing = x]
  PROVE  /\ request' \in [Request ->
              [doing : {"none", "login", "accounts", "roles", "profile", "raise", "over"},
               account : Account \cup {Nobody}, roleOf : Account \cup {Nobody}]]
         /\ request'[j].doing = x
         /\ \A k \in Request : request'[k].account = request[k].account
                             /\ request'[k].roleOf = request[k].roleOf
         /\ \A k \in Request \ {j} : request'[k] = request[k]
  BY DEF PanelTypeOK

\* What a goroutine of the panel does: it writes a report, or goes on.
LEMMA RequestMoves ==
  ASSUME PanelBase, NEW j \in Request, RequestStep(j) \/ LoginLine(j)
  PROVE  /\ UNCHANGED <<screenVars, mode, picker, picked, crossed>>
         /\ request[j].doing # "none"
         /\ \/ request' = request
            \/ \E x \in {"accounts", "raise", "over"} :
                 request' = [request EXCEPT ![j].doing = x]
         /\ accounts' \in BOOLEAN /\ ssoUpdate' \in BOOLEAN
         /\ rolesOf' \in Account \cup {Nobody}
         /\ reports' \subseteq {Order[n] : n \in DOMAIN Order}
         /\ request[j].doing # "profile" => profiles' = profiles
         /\ request[j].doing = "profile" =>
              profiles' \subseteq profiles \cup
                {[account |-> request[j].account, roleOf |-> request[j].roleOf]}
<1> USE OrderNames DEF PanelBase
<1>1. CASE LoginFailed(j) \/ NoAccounts(j) \/ NoRoles(j) \/ ProfileFails(j)
  BY <1>1 DEF LoginFailed, NoAccounts, NoRoles, ProfileFails, Doing, Write, Reported,
              PanelTypeOK, screenVars
<1>2. CASE AccountsListed(j)
  BY <1>2 DEF AccountsListed, Doing, Write, Reported, PanelTypeOK, screenVars
<1>3. CASE RolesListed(j)
  BY <1>3 DEF RolesListed, Doing, Write, Reported, PanelTypeOK, screenVars
<1>4. CASE ProfileWritten(j)
  BY <1>4 DEF ProfileWritten, Doing, Write, Reported, PanelTypeOK, screenVars
<1>5. CASE LoginSucceeds(j)
  BY <1>5 DEF LoginSucceeds, Doing, PanelTypeOK, screenVars
<1>6. CASE RaiseUpdate(j)
  BY <1>6 DEF RaiseUpdate, Doing, PanelTypeOK, screenVars
<1>7. CASE LoginLine(j)
  BY <1>7 DEF LoginLine, Doing, PanelTypeOK, screenVars
<1> QED
  BY <1>1, <1>2, <1>3, <1>4, <1>5, <1>6, <1>7 DEF RequestStep

\* A goroutine of the panel keeps the types and the numbers too.
LEMMA RequestKeepsBase ==
  ASSUME PanelBase, NEW j \in Request, RequestStep(j) \/ LoginLine(j)
  PROVE  PanelBase'
<1> USE DEF PanelBase
<1>1. j \in 0..clicks /\ UNCHANGED screenVars
  BY RequestMoves DEF NoRequest, Request, Job
<1>2. /\ request' \in [Request ->
           [doing : {"none", "login", "accounts", "roles", "profile", "raise", "over"},
            account : Account \cup {Nobody}, roleOf : Account \cup {Nobody}]]
      /\ \A k \in Request : request'[k].roleOf = request[k].roleOf
      /\ \A k \in Request \ {j} : request'[k] = request[k]
      /\ request'[j].doing = "profile" => request[j].doing = "profile"
  <2>1. CASE request' = request
    BY <2>1 DEF PanelTypeOK
  <2>2. ASSUME NEW x \in {"accounts", "raise", "over"},
               request' = [request EXCEPT ![j].doing = x]
        PROVE  <1>2!1 /\ <1>2!2 /\ <1>2!3 /\ <1>2!4
    BY <2>2, GoesOn
  <2> QED
    BY <2>1, <2>2, RequestMoves
<1>3. profiles' \subseteq [account : Account \cup {Nobody}, roleOf : Account]
  BY RequestMoves DEF PanelTypeOK
<1>4. PanelTypeOK'
  BY <1>1, <1>2, <1>3, RequestMoves DEF PanelTypeOK, screenVars
<1> QED
  BY <1>1, <1>2, <1>4 DEF screenVars, Request, Job

\* And so does a frame.
LEMMA FrameKeepsBase ==
  ASSUME PanelBase, PanelFrame
  PROVE  PanelBase'
<1>1. /\ mode' \in {"out", "busy", "in"} /\ picker' \in {"none", "accounts", "roles"}
      /\ reports' \subseteq reports
  BY FrameHandles DEF ModeAfter, PickerAfter, PanelBase, PanelTypeOK
<1> QED
  BY <1>1 DEF PanelBase, PanelTypeOK, PanelFrame, screenVars

-----------------------------------------------------------------------------
(* The session *)

Session == ~crossed => OneAtATime /\ PickedInSession /\ RolesOfPicked

\* Who logs in or out without crossing a request finds none under way, and a panel
\* that awaits nothing.
LEMMA ClickKeepsSession ==
  ASSUME PanelBase, Session, PanelClick
  PROVE  Session'
<1> SUFFICES ASSUME ~crossed'
             PROVE  OneAtATime' /\ PickedInSession' /\ RolesOfPicked'
  BY DEF Session
<1>1. Click
  BY DEF PanelClick, Login, Logout, BackToAccounts, PickRole, PickAccount
<1>2. ThisJob \in Request
  BY <1>1, NewJob DEF PanelBase
<1>3. ~crossed
  BY DEF PanelClick, Login, Logout, BackToAccounts, PickRole, PickAccount, Crossing
<1>4. OneAtATime /\ PickedInSession /\ RolesOfPicked
  BY <1>3 DEF Session
<1>5. Waiting \subseteq UnderWay
  BY DEF Waiting, UnderWay
<1> USE DEF OneAtATime, PickedInSession, RolesOfPicked
<1>6. CASE Login
  <2>1. Waiting = {} /\ reports' = {} /\ Turning' = {} /\ picker' = "none"
    BY <1>4, <1>5, <1>6 DEF Login, Crossing, Turning
  <2>2. Waiting' = {ThisJob} /\ request'[ThisJob] = Asks("login")
        /\ \A j \in Request \ {ThisJob} : request'[j] = request[j]
    BY <1>2, <1>6, <2>1 DEF Login, Ask, Waiting, Asks, NoRequest, PanelBase, PanelTypeOK
  <2> QED
    BY <1>4, <2>1, <2>2 DEF Waiting, Asks, NoRequest
<1>7. CASE Logout
  <2>1. Waiting = {} /\ reports \subseteq {"log"} /\ reports' = reports /\ picker' = "none"
        /\ request' = request /\ Waiting' = {} /\ Turning' = {}
    BY <1>5, <1>7 DEF Logout, Crossing, Turning, Waiting
  <2> QED
    BY <2>1, <1>4 DEF Waiting
<1>8. CASE BackToAccounts
  <2>1. Waiting' = Waiting /\ Turning' = Turning /\ request' = request
    BY <1>8 DEF BackToAccounts, Waiting, Turning
  <2> QED
    BY <1>4, <1>8, <2>1 DEF BackToAccounts
<1>9. CASE PickRole
  <2>1. Waiting = {} /\ Turning' = {} /\ picker' = "none" /\ rolesOf = picked
        /\ mode' = "in"
    BY <1>4, <1>9 DEF PickRole, Turning
  <2>2. /\ Waiting' = {ThisJob}
        /\ request'[ThisJob] = [doing |-> "profile", account |-> picked, roleOf |-> rolesOf]
        /\ \A j \in Request \ {ThisJob} : request'[j] = request[j]
    BY <1>2, <1>9, <2>1 DEF PickRole, Ask, Waiting, PanelBase, PanelTypeOK
  <2> QED
    BY <1>4, <1>9, <2>1, <2>2 DEF Waiting, PickRole
<1>10. ASSUME NEW a \in Account, PickAccount(a)
       PROVE  OneAtATime' /\ PickedInSession' /\ RolesOfPicked'
  <2>1. Waiting = {} /\ Turning = {} /\ Turning' = {} /\ picker' = "none" /\ mode' = "in"
        /\ reports' = reports
    BY <1>4, <1>10 DEF PickAccount, PickerWhileLoading, Turning
  <2>2. /\ Waiting' = {ThisJob}
        /\ request'[ThisJob].doing = "roles" /\ request'[ThisJob].account = picked'
        /\ \A j \in Request \ {ThisJob} : request'[j] = request[j]
    BY <1>2, <1>10, <2>1
       DEF PickAccount, Ask, Asks, NoRequest, Waiting, PanelBase, PanelTypeOK
  <2> QED
    BY <1>4, <2>1, <2>2 DEF Waiting, Turning
<1> QED
  BY <1>6, <1>7, <1>8, <1>9, <1>10 DEF PanelClick

\* The one goroutine under way reports, or goes on, to a panel that awaits it.
LEMMA RequestKeepsSession ==
  ASSUME PanelBase, Session, NEW j \in Request, RequestStep(j) \/ LoginLine(j)
  PROVE  Session'
<1> SUFFICES ASSUME ~crossed'
             PROVE  OneAtATime' /\ PickedInSession' /\ RolesOfPicked'
  BY DEF Session
<1>1. OneAtATime /\ PickedInSession /\ RolesOfPicked
  BY RequestMoves DEF Session
<1> USE DEF OneAtATime, PickedInSession, RolesOfPicked
<1>2. /\ mode' = mode /\ picker' = picker /\ picked' = picked
      /\ \A k \in Request : request'[k].account = request[k].account
                          /\ request'[k].roleOf = request[k].roleOf
      /\ \A k \in Request \ {j} : request'[k] = request[k]
  BY RequestMoves, GoesOn DEF PanelBase
<1>3. ASSUME j \in Waiting, request'[j].doing = "raise",
             NEW w \in {"loginErr", "accountsErr", "accounts", "rolesErr", "roles",
                       "profileErr", "profileDone"},
             reports' = reports \cup {w},
             w = "roles" => mode = "in" /\ rolesOf' = picked,
             w # "roles" => rolesOf' = rolesOf
      PROVE  OneAtATime' /\ PickedInSession' /\ RolesOfPicked'
  <2>1. Waiting = {j} /\ Waiting' = {} /\ Turning = {} /\ Turning' \subseteq {w}
        /\ picker' = "none"
    BY <1>1, <1>2, <1>3 DEF Waiting, Turning
  <2>2. \A k \in Request : request'[k].doing \notin {"roles", "profile"}
    BY <2>1 DEF Waiting
  <2>3. "roles" \in reports' => w = "roles"
    BY <1>3, <2>1 DEF Turning
  <2> QED
    BY <1>1, <1>2, <1>3, <2>1, <2>2, <2>3
<1>4. CASE RolesListed(j)
  <2>1. j \in Waiting /\ request[j].doing = "roles" /\ rolesOf' = picked /\ mode = "in"
        /\ reports' = reports \cup {"roles"}
    BY <1>1, <1>4 DEF RolesListed, Doing, Write, Waiting
  <2>2. request'[j].doing = "raise"
    BY <1>4, GoesOn DEF RolesListed, Write, Reported, PanelBase
  <2> QED
    BY <1>3, <2>1, <2>2
<1>5. ASSUME NEW w \in {"loginErr", "accountsErr", "accounts", "rolesErr", "profileErr",
                       "profileDone"},
             NEW d \in {"login", "accounts", "roles", "profile"},
             Doing(j, d), Write(j, w), rolesOf' = rolesOf
      PROVE  OneAtATime' /\ PickedInSession' /\ RolesOfPicked'
  <2>1. j \in Waiting /\ reports' = reports \cup {w}
    BY <1>5 DEF Doing, Write, Waiting
  <2>2. request'[j].doing = "raise"
    BY <1>5, GoesOn DEF Write, Reported, PanelBase
  <2> QED
    BY <1>3, <1>5, <2>1, <2>2
<1>6. CASE LoginSucceeds(j)
  <2>1. request[j].doing = "login" /\ reports' = reports \cup {"done"} /\ rolesOf' = rolesOf
    BY <1>6 DEF LoginSucceeds, Doing
  <2>2. request'[j].doing = "accounts"
    BY <1>6, GoesOn DEF LoginSucceeds, PanelBase
  <2>3. Waiting' = Waiting /\ Turning' = Turning
    BY <1>2, <2>1, <2>2 DEF Waiting, Turning
  <2>4. \A k \in Request : request'[k].doing \in {"roles", "profile"}
                           => request'[k].doing = request[k].doing
    BY <1>2, <2>2
  <2>5. "roles" \in reports' => "roles" \in reports
    BY <2>1
  <2>6. OneAtATime'
    BY <1>1, <1>2, <2>3
  <2>7. PickedInSession'
    BY <1>1, <1>2, <2>3, <2>4, <2>5 DEF Waiting
  <2>8. RolesOfPicked'
    BY <1>1, <1>2, <2>1, <2>4, <2>5
  <2> QED
    BY <2>6, <2>7, <2>8
<1>7. CASE RaiseUpdate(j)
  <2>1. request[j].doing = "raise" /\ reports' = reports /\ rolesOf' = rolesOf
    BY <1>7 DEF RaiseUpdate, Doing
  <2>2. request'[j].doing = "over"
    BY <1>7, GoesOn DEF RaiseUpdate, PanelBase
  <2>3. Waiting' = Waiting /\ Turning' = Turning
    BY <1>2, <2>1, <2>2 DEF Waiting, Turning
  <2>4. \A k \in Request : request'[k].doing \in {"roles", "profile"}
                           => request'[k].doing = request[k].doing
    BY <1>2, <2>2
  <2>5. "roles" \in reports' => "roles" \in reports
    BY <2>1
  <2>6. OneAtATime'
    BY <1>1, <1>2, <2>3
  <2>7. PickedInSession'
    BY <1>1, <1>2, <2>3, <2>4, <2>5 DEF Waiting
  <2>8. RolesOfPicked'
    BY <1>1, <1>2, <2>1, <2>4, <2>5
  <2> QED
    BY <2>6, <2>7, <2>8
<1>8. CASE LoginLine(j)
  <2>1. Waiting' = Waiting /\ Turning' = Turning /\ request' = request
        /\ rolesOf' = rolesOf /\ ("roles" \in reports' => "roles" \in reports)
    BY <1>8 DEF LoginLine, Waiting, Turning
  <2> QED
    BY <1>1, <1>2, <2>1
<1> QED
  BY <1>4, <1>5, <1>6, <1>7, <1>8
     DEF RequestStep, LoginFailed, NoAccounts, AccountsListed, NoRoles, ProfileFails,
         ProfileWritten

\* A frame shows what the only report that turns the panel says.
LEMMA FrameKeepsSession ==
  ASSUME PanelBase, Session, PanelFrame
  PROVE  Session'
<1> SUFFICES ASSUME ~crossed'
             PROVE  OneAtATime' /\ PickedInSession' /\ RolesOfPicked'
  BY DEF Session
<1>1. /\ UNCHANGED <<accounts, picked, rolesOf, request, crossed>>
      /\ Waiting' = Waiting
  BY DEF PanelFrame, Waiting
<1>2. OneAtATime /\ PickedInSession /\ RolesOfPicked
  BY <1>1 DEF Session
<1> USE DEF OneAtATime, PickedInSession, RolesOfPicked
<1>3. CASE reports = {} /\ mode' = mode /\ picker' = picker /\ reports' = reports
  BY <1>1, <1>2, <1>3 DEF Turning
<1>4. ASSUME NEW what \in reports,
             reports' = reports \ With(what),
             mode' = ModeAfter(what), picker' = PickerAfter(what)
      PROVE  OneAtATime' /\ PickedInSession' /\ RolesOfPicked'
  <2>1. reports' \subseteq reports /\ Turning' \subseteq Turning
    BY <1>4 DEF Turning
  <2>2. CASE what \in {"loginErr", "accountsErr", "accounts", "roles"}
    <3>1. Turning = {what} /\ Waiting = {} /\ picker = "none"
      BY <1>2, <2>2 DEF Turning
    <3>2. what \notin reports'
      BY <1>4, <2>2 DEF With
    <3>3. Turning' = {} /\ "roles" \notin reports'
      BY <2>1, <3>1, <3>2 DEF Turning
    <3>4. \A k \in Request : request[k].doing \notin {"roles", "profile"}
      BY <3>1 DEF Waiting
    <3>5. picker' # "none" => picker' = what /\ mode' = "in"
      BY <1>2, <1>4, <2>2, <3>1 DEF PickerAfter, ModeAfter, Turning
    <3>6. picker' = "roles" => rolesOf = picked
      BY <1>2, <1>4, <3>5
    <3> QED
      BY <1>1, <3>1, <3>3, <3>4, <3>5, <3>6
  <2>3. CASE what \notin {"loginErr", "accountsErr", "accounts", "roles"}
    <3>1. picker' = picker /\ mode' \in {mode, "in"}
      BY <1>4, <2>3 DEF PickerAfter, ModeAfter
    <3> QED
      BY <1>1, <1>2, <2>1, <3>1
  <2> QED
    BY <2>2, <2>3
<1> QED
  BY <1>3, <1>4, FrameHandles

-----------------------------------------------------------------------------

\* No step on the panel breaks its invariant.
LEMMA PanelStep ==
  ASSUME PanelBase, PanelInv, PanelNext
  PROVE  PanelInv'
<1>1. PanelBase'
  BY ClickKeepsBase, FrameKeepsBase, RequestKeepsBase DEF PanelNext
<1>2. Session'
  BY ClickKeepsSession, FrameKeepsSession, RequestKeepsSession DEF PanelNext, PanelInv, Session
<1>3. ProfileOfOneAccount'
  <2>1. CASE PanelClick
    <3>1. profiles' = profiles
      BY <2>1 DEF PanelClick, Login, Logout, BackToAccounts, PickRole, PickAccount
    <3>2. crossed => crossed'
      BY <2>1 DEF PanelClick, Login, Logout, BackToAccounts, PickRole, PickAccount, Crossing
    <3> QED
      BY <3>1, <3>2 DEF PanelInv, ProfileOfOneAccount
  <2>2. CASE PanelFrame
    BY <2>2 DEF PanelFrame, PanelInv, ProfileOfOneAccount
  <2>3. ASSUME NEW j \in Request, RequestStep(j) \/ LoginLine(j)
        PROVE  ProfileOfOneAccount'
    <3>1. CASE request[j].doing # "profile"
      BY <2>3, <3>1, RequestMoves DEF PanelInv, ProfileOfOneAccount
    <3>2. CASE request[j].doing = "profile"
      <4>1. crossed \/ request[j].account = request[j].roleOf
        BY <3>2 DEF PanelInv, RolesOfPicked
      <4>2. crossed' = crossed
            /\ profiles' \subseteq profiles \cup
                {[account |-> request[j].account, roleOf |-> request[j].roleOf]}
        BY <2>3, <3>2, RequestMoves
      <4> QED
        BY <4>1, <4>2 DEF PanelInv, ProfileOfOneAccount
    <3> QED
      BY <3>1, <3>2
  <2> QED
    BY <2>1, <2>2, <2>3 DEF PanelNext
<1> QED
  BY <1>1, <1>2, <1>3 DEF PanelInv, PanelBase, Session

-----------------------------------------------------------------------------
(* The cards: clicks *)

CardJob == [card : Card \cup {0},
            doing : {"none", "check", "login", "connect", "raise", "over"}]

\* Cards are numbered from one.
LEMMA CardNotZero == 0 \notin Card
  BY CardsAssumption DEF Card

\* A press that starts a job, of a card with nothing to be heard of unless history
\* notes it, keeps what is known of jobs and reports.
LEMMA StartKeeps ==
  ASSUME CardsInv, NEW c \in Card, NEW what \in {"check", "login", "connect"},
         Click, Start(c, what),
         UNCHANGED <<open, needsUpdate, reportVars, up, handed>>,
         overlapped \subseteq overlapped', rushed \subseteq rushed',
         c \notin overlapped' => ~Unreported(c),
         c \notin rushed' => bastions[c] = "none"
  PROVE  /\ clicks' \in 0..MaxClicks /\ ThisJob \in Job /\ ThisJob > clicks
         /\ job' \in [Job -> CardJob]
         /\ job'[ThisJob] = [card |-> c, doing |-> what]
         /\ \A j \in Job \ {ThisJob} : job'[j] = job[j]
         /\ JobsNumbered' /\ SilentUntilPressed' /\ OneJobEach' /\ BusyIsSilent'
         /\ ConnectedAlone' /\ ConnectedIsUp' /\ TunnelIsNoticed'
<1> USE CardNotZero DEF CardsInv
<1>1. /\ ThisJob \in Job /\ ThisJob > clicks
      /\ clicks' \in 0..MaxClicks
      /\ \A j \in Job : j > clicks' => j > clicks /\ j # ThisJob
  BY NewJob DEF CardsTypeOK, Request
<1>2. job \in [Job -> CardJob] /\ job[ThisJob] = NoJob
  BY <1>1 DEF CardsTypeOK, CardJob, JobsNumbered
<1>3. /\ job' \in [Job -> CardJob]
      /\ job'[ThisJob] = [card |-> c, doing |-> what]
      /\ \A j \in Job \ {ThisJob} : job'[j] = job[j]
  BY <1>1, <1>2 DEF Start, CardJob
<1>4. ThisJob \notin up
  BY <1>2 DEF JobsNumbered, NoJob
<1>5. UNCHANGED <<cancelled, loginErr, connected, bastions, tunnel>>
  BY DEF reportVars
<1>6. JobsNumbered'
  <2>1. \A j \in Job : j > clicks' => job'[j] = NoJob
    BY <1>1, <1>3 DEF JobsNumbered, Job
  <2>2. \A j \in Job : job'[j].doing # "none" => job'[j].card \in Card
    BY <1>3 DEF JobsNumbered
  <2>3. \A j \in up' : job'[j].doing \in {"raise", "over"}
    BY <1>3, <1>4 DEF JobsNumbered, CardsTypeOK
  <2> QED
    BY <2>1, <2>2, <2>3 DEF JobsNumbered
<1>7. SilentUntilPressed'
  BY <1>1, <1>2, <1>3, <1>5 DEF SilentUntilPressed, Silent, NoJob
<1>8. OneJobEach'
  BY <1>1, <1>2, <1>3 DEF OneJobEach, Unreported, JobsOf
<1>9. BusyIsSilent'
  <2> SUFFICES ASSUME NEW j \in Job, Busy(j)', job'[j].card \notin overlapped'
               PROVE  /\ Silent(job[j].card)'
                      /\ job'[j].card \notin rushed' => bastions'[job'[j].card] = "none"
    BY DEF BusyIsSilent
  <2>1. CASE j = ThisJob
    BY <2>1, <1>3, <1>5 DEF Unreported, Silent
  <2>2. CASE j # ThisJob
    BY <2>2, <1>3, <1>5 DEF BusyIsSilent, Busy, Silent
  <2> QED
    BY <2>1, <2>2
<1>10. ConnectedAlone'
  BY <1>5 DEF ConnectedAlone
<1>11. TunnelIsNoticed'
  <2> SUFFICES ASSUME NEW j \in up' \ handed', open',
                      job'[j].card \notin overlapped' \cup rushed'
               PROVE  /\ job'[j].card \in connected' /\ tunnel'[job'[j].card] = j
                      /\ job'[j].card \in needsUpdate' \/ At(j, "raise")'
    BY DEF TunnelIsNoticed
  <2>1. j \in Job /\ j # ThisJob
    BY <1>4 DEF CardsTypeOK
  <2> QED
    BY <2>1, <1>3, <1>5 DEF TunnelIsNoticed, At
<1>12. ConnectedIsUp'
  BY <1>5 DEF ConnectedIsUp
<1> QED
  BY <1>1, <1>3, <1>6, <1>7, <1>8, <1>9, <1>10, <1>11, <1>12

\* A press that starts a login or an attempt, and history notes whether it came too
\* early.
LEMMA PressKeepsCards ==
  ASSUME CardsInv, NEW c \in Saved, PressLogin(c) \/ PressConnect(c)
  PROVE  CardsInv'
<1> USE DEF CardsInv
<1>1. /\ Click /\ c \in Card /\ c \notin disabled \cup connecting
      /\ Noted(c) /\ UNCHANGED <<open, needsUpdate, reportVars, stopped, at>>
  BY DEF PressLogin, PressConnect, Pressed, Card
<1>2. /\ overlapped' \subseteq Card /\ rushed' \subseteq Card
      /\ overlapped \subseteq overlapped' /\ rushed \subseteq rushed'
      /\ c \notin overlapped' => ~Unreported(c)
      /\ c \notin rushed' => bastions[c] = "none"
      /\ up' = up /\ handed' = handed
  BY <1>1 DEF Noted, CardsTypeOK
<1>3. UNCHANGED <<cancelled, loginErr, connected, bastions, tunnel>>
  BY <1>1 DEF reportVars
<1>4. \A k \in Job : job[k].card = c /\ At(k, "connect") => c \in overlapped'
  BY <1>2 DEF Unreported, JobsOf, At
<1>5. CASE PressLogin(c)
  <2>1. Start(c, "login") /\ disabled' = disabled \cup {c}
        /\ UNCHANGED <<connecting, cancelOf>>
    BY <1>5 DEF PressLogin
  <2>2. /\ clicks' \in 0..MaxClicks /\ ThisJob \in Job
        /\ job' \in [Job -> CardJob]
        /\ job'[ThisJob] = [card |-> c, doing |-> "login"]
        /\ \A j \in Job \ {ThisJob} : job'[j] = job[j]
        /\ JobsNumbered' /\ SilentUntilPressed' /\ OneJobEach' /\ BusyIsSilent'
        /\ ConnectedAlone' /\ ConnectedIsUp' /\ TunnelIsNoticed'
    BY <1>1, <1>2, <2>1, StartKeeps
  <2>3. CardsTypeOK'
    BY <1>1, <1>2, <1>3, <2>1, <2>2 DEF CardsTypeOK, CardJob
  <2>4. CancelAtHand'
    BY <1>1, <1>2, <1>4, <2>1, <2>2 DEF CancelAtHand, At
  <2>5. CancelIsOfAttempt'
    BY <2>1 DEF CancelIsOfAttempt
  <2> QED
    BY <2>2, <2>3, <2>4, <2>5
<1>6. CASE PressConnect(c)
  <2>1. /\ Start(c, "connect") /\ disabled' = disabled /\ connecting' = connecting \cup {c}
        /\ cancelOf' = [cancelOf EXCEPT ![c] = ThisJob]
    BY <1>6 DEF PressConnect, ButtonWhileConnecting
  <2>2. /\ clicks' \in 0..MaxClicks /\ ThisJob \in Job
        /\ job' \in [Job -> CardJob]
        /\ job'[ThisJob] = [card |-> c, doing |-> "connect"]
        /\ \A j \in Job \ {ThisJob} : job'[j] = job[j]
        /\ JobsNumbered' /\ SilentUntilPressed' /\ OneJobEach' /\ BusyIsSilent'
        /\ ConnectedAlone' /\ ConnectedIsUp' /\ TunnelIsNoticed'
    BY <1>1, <1>2, <2>1, StartKeeps
  <2>3. CardsTypeOK'
    BY <1>1, <1>2, <1>3, <2>1, <2>2 DEF CardsTypeOK, CardJob
  <2>4. CancelAtHand'
    <3> SUFFICES ASSUME NEW j \in Job, open', At(j, "connect")',
                        job'[j].card \in Saved \ overlapped', j \notin stopped'
                 PROVE  /\ job'[j].card \in connecting' \ disabled'
                        /\ cancelOf'[job'[j].card] = j
      BY DEF CancelAtHand
    <3>1. CASE j = ThisJob
      BY <1>1, <2>1, <2>2, <3>1 DEF CardsTypeOK
    <3>2. CASE j # ThisJob
      BY <1>1, <1>2, <1>4, <2>1, <2>2, <3>2 DEF CancelAtHand, CardsTypeOK, At
    <3> QED
      BY <3>1, <3>2
  <2>5. CancelIsOfAttempt'
    <3>1. ThisJob # 0
      BY <2>2, ClicksAssumption DEF Job
    <3>2. cancelOf \in [Card -> Job \cup {0}] /\ connecting \subseteq Card
      BY DEF CardsTypeOK, Card
    <3> QED
      BY <1>1, <2>1, <3>1, <3>2 DEF CancelIsOfAttempt
  <2> QED
    BY <2>2, <2>3, <2>4, <2>5
<1> QED
  BY <1>5, <1>6

\* The form's Connect, whose card has had no job.
LEMMA FormKeepsCards ==
  ASSUME CardsInv, NEW c \in Form, PressForm(c)
  PROVE  CardsInv'
<1> USE DEF CardsInv
<1>1. /\ Click /\ c \in Card /\ c \notin Saved /\ Start(c, "check")
      /\ \A j \in Job : job[j].card # c
      /\ UNCHANGED <<open, buttonVars, needsUpdate, reportVars, stopped, at, historyVars>>
  BY CardsAssumption DEF PressForm, Card
<1>2. ~Unreported(c) /\ bastions[c] = "none"
  BY <1>1 DEF SilentUntilPressed, Silent, Unreported, JobsOf
<1>3. UNCHANGED <<disabled, connecting, cancelOf, cancelled, loginErr, connected, bastions,
                  tunnel, up, handed, overlapped, rushed>>
  BY <1>1 DEF buttonVars, reportVars, historyVars
<1>4. /\ clicks' \in 0..MaxClicks /\ ThisJob \in Job
      /\ job' \in [Job -> CardJob]
      /\ job'[ThisJob] = [card |-> c, doing |-> "check"]
      /\ \A j \in Job \ {ThisJob} : job'[j] = job[j]
      /\ JobsNumbered' /\ SilentUntilPressed' /\ OneJobEach' /\ BusyIsSilent'
      /\ ConnectedAlone' /\ ConnectedIsUp' /\ TunnelIsNoticed'
  BY <1>1, <1>2, <1>3, StartKeeps
<1>5. CardsTypeOK'
  BY <1>1, <1>3, <1>4 DEF CardsTypeOK, CardJob
<1>6. CancelAtHand'
  BY <1>1, <1>3, <1>4 DEF CancelAtHand, At
<1>7. CancelIsOfAttempt'
  BY <1>3 DEF CancelIsOfAttempt
<1> QED
  BY <1>4, <1>5, <1>6, <1>7

\* The clicks that start nothing.
LEMMA OtherClicksKeepCards ==
  ASSUME CardsInv, Close \/ \E c \in Card : PressCancel(c) \/ PressDirect(c)
  PROVE  CardsInv'
<1> USE DEF CardsInv
<1>1. /\ Click /\ UNCHANGED <<connecting, cancelOf, needsUpdate, reportVars, job, at, up,
                             overlapped, rushed>>
      /\ handed \subseteq handed' /\ handed' \subseteq handed \cup {}
  BY DEF Close, PressCancel, PressDirect, Pressed, HandOver, cardVars, buttonVars, historyVars
<1>2. clicks' \in 0..MaxClicks /\ \A j \in Job : j > clicks' => j > clicks
  BY <1>1, NewJob DEF CardsTypeOK, Request
<1>3. UNCHANGED <<cancelled, loginErr, connected, bastions, tunnel>>
  BY <1>1 DEF reportVars
<1>4. /\ JobsNumbered' /\ SilentUntilPressed' /\ OneJobEach' /\ BusyIsSilent'
      /\ ConnectedAlone' /\ CancelIsOfAttempt' /\ ConnectedIsUp'
  BY <1>1, <1>2, <1>3 DEF JobsNumbered, CancelIsOfAttempt, ConnectedIsUp, SilentUntilPressed, OneJobEach, BusyIsSilent,
                          ConnectedAlone, Silent, Busy
<1>5. CASE Close \/ \E c \in Card : PressDirect(c)
  <2>1. open' = FALSE /\ disabled' \subseteq Card /\ stopped' = stopped
    BY <1>5 DEF Close, PressDirect, HandOver, CardsTypeOK, cardVars, buttonVars
  <2>2. CardsTypeOK'
    BY <1>1, <1>2, <1>3, <2>1 DEF CardsTypeOK
  <2> QED
    BY <1>4, <2>1, <2>2 DEF CancelAtHand, TunnelIsNoticed
<1>6. ASSUME NEW c \in Card, PressCancel(c)
      PROVE  CardsInv'
  <2>1. /\ c \in Saved /\ disabled' = disabled \cup {c} /\ open' = open
        /\ stopped' = stopped \cup {cancelOf[c]}
    BY <1>6 DEF PressCancel
  <2>2. CardsTypeOK'
    <3>1. c \in connecting /\ cancelOf[c] \in Job
      BY <1>6 DEF PressCancel, CancelIsOfAttempt, CardsTypeOK
    <3> QED
      BY <1>1, <1>2, <1>3, <2>1, <3>1 DEF CardsTypeOK
  <2>3. CancelAtHand'
    BY <1>1, <2>1 DEF CancelAtHand, At
  <2>4. TunnelIsNoticed'
    BY <1>1, <1>3, <2>1 DEF TunnelIsNoticed, At
  <2> QED
    BY <1>4, <2>2, <2>3, <2>4
<1> QED
  BY <1>5, <1>6

-----------------------------------------------------------------------------
(* The cards: goroutines *)

\* What no goroutine touches.
Apart == UNCHANGED <<screenVars, disabled, connecting, stopped, at, overlapped, rushed, handed>>

\* A job that goes on keeps its card, and the jobs their numbers.
LEMMA JobMoves ==
  ASSUME CardsInv, NEW j \in Job, job[j].doing \notin {"none", "over"},
         NEW x \in {"login", "connect", "raise", "over"},
         job' = [job EXCEPT ![j].doing = x],
         Apart, up \subseteq up', up' \subseteq up \cup {j},
         j \in up' => x \in {"raise", "over"}
  PROVE  /\ job' \in [Job -> CardJob]
         /\ job'[j].card = job[j].card /\ job'[j].doing = x
         /\ \A k \in Job \ {j} : job'[k] = job[k]
         /\ \A k \in Job : job'[k].card = job[k].card
         /\ job[j].card \in Card
         /\ up' \subseteq Job
         /\ JobsNumbered' /\ OneJobEach'
<1> USE DEF CardsInv
<1>1. job \in [Job -> CardJob] /\ job[j].card \in Card /\ ~(j > clicks)
  BY DEF CardsTypeOK, CardJob, JobsNumbered, NoJob
<1>2. /\ job' \in [Job -> CardJob]
      /\ job'[j].card = job[j].card /\ job'[j].doing = x
      /\ \A k \in Job \ {j} : job'[k] = job[k]
  BY <1>1 DEF CardJob
<1>3. \A k \in Job : job'[k].card = job[k].card
  BY <1>2
<1>4. up' \subseteq Job
  BY DEF CardsTypeOK
<1>5. JobsNumbered'
  BY <1>1, <1>2, <1>4 DEF JobsNumbered, Apart, screenVars
<1>6. OneJobEach'
  BY <1>2, <1>3 DEF OneJobEach, Apart
<1> QED
  BY <1>1, <1>2, <1>3, <1>4, <1>5, <1>6

\* A job that has told nothing yet and is of a card not pressed too often is the
\* card's only one, and the card has no tunnel to notice.
LEMMA BusyAlone ==
  ASSUME CardsInv, NEW j \in Job, Busy(j), job[j].card \notin overlapped
  PROVE  /\ Silent(job[j].card)
         /\ job[j].card \notin rushed => bastions[job[j].card] = "none"
         /\ \A k \in Job \ {j} : job[k].card = job[j].card =>
              job[k].doing \in {"none", "over"}
         /\ job[j].card \notin rushed /\ open =>
              \A k \in up \ handed : job[k].card # job[j].card
<1>1. /\ Silent(job[j].card)
      /\ job[j].card \notin rushed => bastions[job[j].card] = "none"
  BY DEF CardsInv, BusyIsSilent
<1>2. \A k \in Job \ {j} : job[k].card = job[j].card => job[k].doing \in {"none", "over"}
  BY DEF CardsInv, OneJobEach, Busy
<1>3. job[j].card \notin rushed /\ open => \A k \in up \ handed : job[k].card # job[j].card
  BY <1>1 DEF CardsInv, TunnelIsNoticed, Silent
<1> QED
  BY <1>1, <1>2, <1>3

\* A line for the log, and the list of bastions.
LEMMA NewsKeepsCards ==
  ASSUME CardsInv, (\E j \in Job : Line(j)) \/ \E c \in Card : Listed(c)
  PROVE  CardsInv'
<1> USE DEF CardsInv
<1>1. /\ UNCHANGED <<screenVars, buttonVars, stopped, at, overlapped, rushed, handed, up, job,
                  cancelled, loginErr, connected, tunnel>>
      /\ needsUpdate \subseteq needsUpdate' /\ needsUpdate' \subseteq Card
      /\ bastions' \in [Card -> {"none", "loading", "ready"}]
      /\ \A c \in Card : bastions[c] = "none" => bastions'[c] = "none"
  <2>1. ASSUME NEW j \in Job, Line(j)
        PROVE  <1>1!:
    <3>1. job[j].card \in Card
      BY <2>1 DEF Line, At, JobsNumbered
    <3> QED
      BY <2>1, <3>1 DEF Line, Background, reportVars, CardsTypeOK
  <2>2. ASSUME NEW c \in Card, Listed(c)
        PROVE  <1>1!:
    BY <2>2 DEF Listed, Background, CardsTypeOK
  <2> QED
    BY <2>1, <2>2
<1>2. /\ UNCHANGED <<open, clicks, disabled, connecting, cancelOf>>
  BY <1>1 DEF screenVars, buttonVars
<1>3. CardsTypeOK'
  BY <1>1, <1>2 DEF CardsTypeOK
<1>4. /\ JobsNumbered' /\ CancelIsOfAttempt' /\ ConnectedIsUp'
      /\ SilentUntilPressed' /\ OneJobEach'
  BY <1>1, <1>2
     DEF JobsNumbered, CancelIsOfAttempt, ConnectedIsUp, SilentUntilPressed, OneJobEach, Silent
<1>5. BusyIsSilent'
  BY <1>1 DEF BusyIsSilent, Busy, Silent, JobsNumbered
<1>6. ConnectedAlone'
  BY <1>1 DEF ConnectedAlone, CardsTypeOK
<1>7. CancelAtHand' /\ TunnelIsNoticed'
  BY <1>1, <1>2 DEF CancelAtHand, TunnelIsNoticed, At
<1> QED
  BY <1>3, <1>4, <1>5, <1>6, <1>7

\* A job that goes on or raises its card, without a report.
LEMMA GoingOnKeepsCards ==
  ASSUME CardsInv, NEW j \in Job,
         Raise(j) \/ LoginEnds(j) \/ FormLogsIn(j) \/ FormConnects(j)
  PROVE  CardsInv'
<1> USE DEF CardsInv
<1>1. PICK x \in {"login", "connect", "raise", "over"} :
        /\ job' = [job EXCEPT ![j].doing = x]
        /\ x \in {"login", "connect"} => Busy(j)
        /\ x = "connect" => job[j].card \notin Saved
        /\ job[j].doing = "raise" => x = "over"
        /\ x = "over" => needsUpdate' = needsUpdate \cup {job[j].card}
    BY CardsAssumption DEF Raise, LoginEnds, Report, FormLogsIn, FormConnects, At, Busy
<1>2. /\ Apart /\ up' = up /\ job[j].doing \in {"check", "login", "raise"}
      /\ UNCHANGED <<cancelled, loginErr, connected, bastions, tunnel>>
      /\ needsUpdate' \in {needsUpdate, needsUpdate \cup {job[j].card}}
      /\ \/ cancelOf' = cancelOf
         \/ job[j].card \in Form /\ cancelOf' = [cancelOf EXCEPT ![job[j].card] = j]
  BY DEF Raise, LoginEnds, Report, FormLogsIn, FormConnects, At, Background, Apart,
         reportVars, buttonVars, historyVars
<1>3. j \in up => x \in {"raise", "over"}
  BY <1>1, <1>2 DEF JobsNumbered
<1>4. /\ job' \in [Job -> CardJob]
      /\ job'[j].card = job[j].card /\ job'[j].doing = x
      /\ \A k \in Job \ {j} : job'[k] = job[k]
      /\ \A k \in Job : job'[k].card = job[k].card
      /\ job[j].card \in Card
      /\ JobsNumbered' /\ OneJobEach'
  BY <1>1, <1>2, <1>3, JobMoves
<1>5. /\ UNCHANGED <<open, clicks, disabled, connecting, stopped, at, overlapped, rushed, handed>>
  BY <1>2 DEF Apart, screenVars
<1>6. /\ cancelOf' \in [Card -> Job \cup {0}]
      /\ \A c \in Saved : cancelOf'[c] = cancelOf[c]
      /\ CancelIsOfAttempt'
  <2>1. Saved \cap Form = {} /\ connecting \subseteq Saved /\ Saved \subseteq Card
        /\ cancelOf \in [Card -> Job \cup {0}]
    BY CardsAssumption DEF CardsTypeOK, Card
  <2> QED
    BY <1>2, <1>4, <1>5, <2>1 DEF CancelIsOfAttempt
<1>7. CardsTypeOK'
  BY <1>2, <1>4, <1>5, <1>6 DEF CardsTypeOK, CardJob
<1>8. SilentUntilPressed' /\ ConnectedAlone' /\ ConnectedIsUp'
  BY <1>2, <1>4, <1>5 DEF SilentUntilPressed, ConnectedAlone, ConnectedIsUp, Silent
<1>9. BusyIsSilent'
  <2>1. \A k \in Job : Busy(k)' => Busy(k)
    BY <1>1, <1>4 DEF Busy
  <2> QED
    BY <1>2, <1>4, <1>5, <2>1 DEF BusyIsSilent, Silent
<1>10. CancelAtHand'
  BY <1>1, <1>4, <1>5, <1>6 DEF CancelAtHand, At
<1>11. TunnelIsNoticed'
  <2> SUFFICES ASSUME NEW k \in up' \ handed', open',
                      job'[k].card \notin overlapped' \cup rushed'
               PROVE  /\ job'[k].card \in connected' /\ tunnel'[job'[k].card] = k
                      /\ job'[k].card \in needsUpdate' \/ At(k, "raise")'
    BY DEF TunnelIsNoticed
  <2>1. k \in Job /\ k \in up \ handed
    BY <1>2, <1>5 DEF CardsTypeOK
  <2>2. /\ job[k].card \in connected /\ tunnel[job[k].card] = k
        /\ job[k].card \in needsUpdate \/ At(k, "raise")
    BY <1>4, <1>5, <2>1 DEF TunnelIsNoticed
  <2>3. CASE k = j
    BY <1>1, <1>2, <1>4, <2>2, <2>3 DEF At
  <2>4. CASE k # j
    BY <1>2, <1>4, <1>5, <2>1, <2>2, <2>4 DEF At
  <2> QED
    BY <1>2, <1>4, <2>2, <2>3, <2>4
<1> QED
  BY <1>4, <1>6, <1>7, <1>8, <1>9, <1>10, <1>11

\* A job that ends with a report.
LEMMA ReportKeepsCards ==
  ASSUME CardsInv, NEW j \in Job,
         \/ LoginFails(j) \/ AttemptCancelled(j) \/ AttemptSucceeds(j)
         \/ \E why \in {"error", "ambiguous"} : AttemptFails(j, why)
  PROVE  CardsInv'
<1> DEFINE c == job[j].card
<1> USE DEF CardsInv
<1>1. /\ job' = [job EXCEPT ![j].doing = "raise"] /\ needsUpdate' = needsUpdate
      /\ Busy(j) /\ Apart /\ cancelOf' = cancelOf /\ bastions' = bastions
      /\ up \subseteq up' /\ up' \subseteq up \cup {j}
  BY DEF LoginFails, AttemptCancelled, AttemptSucceeds, AttemptFails, Failed, Report, At,
         Busy, Background, Apart, buttonVars
<1>2. /\ job' \in [Job -> CardJob]
      /\ job'[j].card = c /\ job'[j].doing = "raise"
      /\ \A k \in Job \ {j} : job'[k] = job[k]
      /\ \A k \in Job : job'[k].card = job[k].card
      /\ c \in Card /\ up' \subseteq Job
      /\ JobsNumbered' /\ OneJobEach'
  BY <1>1, JobMoves DEF Busy
<1>3. UNCHANGED <<open, clicks, disabled, connecting, stopped, at, overlapped, rushed, handed>>
  BY <1>1 DEF Apart, screenVars
<1>4. /\ loginErr' \in [Card -> {"none", "error", "ambiguous"}]
      /\ tunnel' \in [Card -> Job \cup {0}]
      /\ cancelled' \in {cancelled, cancelled \cup {c}}
      /\ connected' \in {connected, connected \cup {c}}
      /\ \A d \in Card \ {c} : loginErr'[d] = loginErr[d] /\ tunnel'[d] = tunnel[d]
  BY <1>2 DEF LoginFails, AttemptCancelled, AttemptSucceeds, AttemptFails, Failed, CardsTypeOK
<1>5. \/ up' = up /\ connected' = connected /\ tunnel' = tunnel
      \/ /\ cancelled' = cancelled /\ loginErr' = loginErr
         /\ connected' = connected \cup {c} /\ tunnel'[c] = j /\ up' = up \cup {j}
  BY <1>2 DEF LoginFails, AttemptCancelled, AttemptSucceeds, AttemptFails, Failed, CardsTypeOK
<1>6. CardsTypeOK'
  BY <1>1, <1>2, <1>3, <1>4 DEF CardsTypeOK, CardJob
<1>7. CancelIsOfAttempt' /\ ConnectedIsUp'
  BY <1>1, <1>3, <1>4, <1>5 DEF CancelIsOfAttempt, ConnectedIsUp, CardsTypeOK
<1>8. SilentUntilPressed'
  BY <1>1, <1>2, <1>4 DEF SilentUntilPressed, Silent
<1>9. c \notin overlapped =>
        /\ Silent(c) /\ (c \notin rushed => bastions[c] = "none")
        /\ \A k \in Job \ {j} : job[k].card = c => job[k].doing \in {"none", "over"}
        /\ c \notin rushed /\ open => \A k \in up \ handed : job[k].card # c
  BY <1>1, BusyAlone
<1>10. BusyIsSilent'
  <2> SUFFICES ASSUME NEW k \in Job, Busy(k)', job'[k].card \notin overlapped'
               PROVE  /\ Silent(job[k].card)'
                      /\ job'[k].card \notin rushed' => bastions'[job'[k].card] = "none"
    BY DEF BusyIsSilent
  <2>1. k # j /\ Busy(k) /\ job'[k].card = job[k].card /\ job[k].card # c
    BY <1>2, <1>3, <1>9 DEF Busy
  <2>2. job[k].card \in Card
    BY <2>1 DEF JobsNumbered, Busy
  <2> QED
    BY <1>1, <1>3, <1>4, <2>1, <2>2 DEF BusyIsSilent, Silent
<1>11. ConnectedAlone'
  BY <1>1, <1>3, <1>4, <1>5, <1>9 DEF ConnectedAlone, Silent, CardsTypeOK
<1>12. CancelAtHand'
  BY <1>1, <1>2, <1>3 DEF CancelAtHand, At
<1>13. TunnelIsNoticed'
  <2> SUFFICES ASSUME NEW k \in up' \ handed', open',
                      job'[k].card \notin overlapped' \cup rushed'
               PROVE  /\ job'[k].card \in connected' /\ tunnel'[job'[k].card] = k
                      /\ job'[k].card \in needsUpdate' \/ At(k, "raise")'
    BY DEF TunnelIsNoticed
  <2>1. k \in Job /\ job'[k].card = job[k].card /\ open
        /\ job[k].card \notin overlapped \cup rushed
    BY <1>2, <1>3
  <2>2. CASE k \in up
    <3>1. job[k].card # c /\ k # j
      BY <1>3, <1>9, <2>1, <2>2
    <3>2. job[k].card \in Card
      BY <2>1, <2>2 DEF JobsNumbered
    <3> QED
      BY <1>1, <1>2, <1>3, <1>4, <2>1, <2>2, <3>1, <3>2 DEF TunnelIsNoticed, At
  <2>3. CASE k \notin up
    BY <1>1, <1>2, <1>3, <1>5, <2>1, <2>3 DEF At
  <2> QED
    BY <2>2, <2>3
<1> QED
  BY <1>2, <1>6, <1>7, <1>8, <1>10, <1>11, <1>12, <1>13

-----------------------------------------------------------------------------
(* The cards: a frame *)


\* Looking at a card takes one report of it, and touches no other card.
LEMMA LookTakes ==
  ASSUME CardsInv, NEW c \in Card,
         \/ LookCancelled(c) \/ LookListed(c) \/ LookFailed(c)
         \/ LookConnected(c) \/ LookRefreshed(c)
  PROVE  /\ CardsTypeOK' /\ CancelIsOfAttempt'
         /\ UNCHANGED <<job, clicks, stopped, up, overlapped, rushed, tunnel>>
         /\ needsUpdate' = needsUpdate \ {c}
         /\ cancelled' \subseteq cancelled /\ connected' \subseteq connected
         /\ \A d \in Card : loginErr[d] = "none" =>
              loginErr'[d] = "none" /\ (bastions[d] = "none" => bastions'[d] = "none")
         /\ open' => open /\ handed' = handed /\ connected' = connected
         /\ \A d \in Card \ {c} : cancelOf'[d] = cancelOf[d]
         /\ (connecting \ disabled) \ {c} \subseteq connecting' \ disabled'
<1> USE DEF CardsInv
<1>1. /\ needsUpdate' = needsUpdate \ {c} /\ at' \in Nat
      /\ UNCHANGED <<job, stopped, clicks, up, overlapped, rushed, tunnel>>
  <2>1. c + 1 \in Nat
    BY CardsAssumption DEF Card
  <2> QED
    BY <2>1 DEF LookCancelled, LookListed, LookFailed, LookConnected, LookRefreshed, Look,
                Looked, reportVars
<1>2. CASE LookCancelled(c)
  BY <1>1, <1>2 DEF LookCancelled, Idle, Enabled, CardsTypeOK, CancelIsOfAttempt
<1>3. CASE LookListed(c)
  BY <1>1, <1>3 DEF LookListed, buttonVars, CardsTypeOK, CancelIsOfAttempt
<1>4. CASE LookFailed(c)
  BY <1>1, <1>4 DEF LookFailed, Idle, Enabled, CardsTypeOK, CancelIsOfAttempt
<1>5. CASE LookConnected(c)
  <2>1. /\ c \in connected /\ tunnel[c] \in up /\ connected' = connected \ {c}
        /\ connecting' = connecting \ {c} /\ cancelOf' = [cancelOf EXCEPT ![c] = 0]
        /\ disabled' = disabled \cup {c}
        /\ open' = FALSE /\ handed' = handed \cup {tunnel[c]}
        /\ UNCHANGED <<cancelled, loginErr, bastions>>
    BY <1>5 DEF LookConnected, Idle, HandOver, ConnectedIsUp
  <2>2. CardsTypeOK'
    BY <1>1, <2>1 DEF CardsTypeOK
  <2>3. CancelIsOfAttempt'
    BY <2>1 DEF CardsTypeOK, CancelIsOfAttempt
  <2>4. /\ \A d \in Card \ {c} : cancelOf'[d] = cancelOf[d]
        /\ (connecting \ disabled) \ {c} \subseteq connecting' \ disabled'
    BY <2>1 DEF CardsTypeOK
  <2> QED
    BY <1>1, <2>1, <2>2, <2>3, <2>4
<1>6. CASE LookRefreshed(c)
  BY <1>1, <1>6 DEF LookRefreshed, Refreshed, Enabled, reportVars, CardsTypeOK, CancelIsOfAttempt
<1> QED
  BY <1>2, <1>3, <1>4, <1>5, <1>6

\* A card that is connecting stays so, and one that is connected is not passed over.
LEMMA LookSpares ==
  ASSUME CardsInv, NEW c \in Card, c \notin overlapped, open',
         \/ LookCancelled(c) \/ LookListed(c) \/ LookFailed(c)
         \/ LookConnected(c) \/ LookRefreshed(c)
  PROVE  /\ Silent(c) /\ c \in connecting \ disabled =>
              c \in connecting' \ disabled' /\ cancelOf'[c] = cancelOf[c]
         /\ c \notin rushed => c \notin connected
<1>1. CASE LookCancelled(c)
  BY <1>1 DEF LookCancelled, Silent, ConnectedAlone, CardsInv
<1>2. CASE LookListed(c)
  BY <1>2 DEF LookListed, buttonVars, ConnectedAlone, CardsInv
<1>3. CASE LookFailed(c)
  BY <1>3 DEF LookFailed, Silent, ConnectedAlone, CardsInv
<1>4. CASE LookConnected(c)
  BY <1>4 DEF LookConnected, HandOver
<1>5. CASE LookRefreshed(c)
  BY <1>5 DEF LookRefreshed, Refreshed, NoReport
<1> QED
  BY <1>1, <1>2, <1>3, <1>4, <1>5

\* A frame, looking at a card or ending, keeps the invariant.
LEMMA FrameKeepsCards ==
  ASSUME CardsInv, FrameStep
  PROVE  CardsInv'
<1> USE DEF CardsInv
<1>1. CASE FrameEnds
  <2>1. /\ UNCHANGED <<screenVars, buttonVars, needsUpdate, reportVars, job, stopped, historyVars>>
        /\ at' = 0
    BY <1>1 DEF FrameEnds
  <2>2. UNCHANGED <<open, clicks, disabled, connecting, cancelOf, cancelled, loginErr,
                    connected, bastions, tunnel, up, handed, overlapped, rushed>>
    BY <2>1 DEF screenVars, buttonVars, reportVars, historyVars
  <2>3. CardsTypeOK'
    BY <2>1, <2>2 DEF CardsTypeOK
  <2>4. /\ JobsNumbered' /\ CancelIsOfAttempt' /\ ConnectedIsUp' /\ SilentUntilPressed'
        /\ OneJobEach' /\ ConnectedAlone'
    BY <2>1, <2>2 DEF JobsNumbered, CancelIsOfAttempt, ConnectedIsUp, SilentUntilPressed,
                      OneJobEach, ConnectedAlone, Silent
  <2>5. BusyIsSilent' /\ CancelAtHand' /\ TunnelIsNoticed'
    BY <2>1, <2>2 DEF BusyIsSilent, Busy, Silent, CancelAtHand, TunnelIsNoticed, At
  <2> QED
    BY <2>3, <2>4, <2>5
<1>2. ASSUME NEW c \in Card,
             \/ LookCancelled(c) \/ LookListed(c) \/ LookFailed(c)
             \/ LookConnected(c) \/ LookRefreshed(c)
      PROVE  CardsInv'
  <2>1. /\ CardsTypeOK' /\ CancelIsOfAttempt'
        /\ UNCHANGED <<job, clicks, stopped, up, overlapped, rushed, tunnel>>
        /\ needsUpdate' = needsUpdate \ {c}
        /\ cancelled' \subseteq cancelled /\ connected' \subseteq connected
        /\ \A d \in Card : loginErr[d] = "none" =>
             loginErr'[d] = "none" /\ (bastions[d] = "none" => bastions'[d] = "none")
        /\ open' => open /\ handed' = handed /\ connected' = connected
        /\ \A d \in Card \ {c} : cancelOf'[d] = cancelOf[d]
        /\ (connecting \ disabled) \ {c} \subseteq connecting' \ disabled'
    BY <1>2, LookTakes
  <2>2. \A d \in Card : Silent(d) => Silent(d)'
    BY <2>1 DEF Silent
  <2>3. JobsNumbered' /\ OneJobEach' /\ ConnectedIsUp'
    BY <2>1 DEF JobsNumbered, OneJobEach, ConnectedIsUp
  <2>4. SilentUntilPressed'
    BY <2>1, <2>2 DEF SilentUntilPressed, Silent
  <2>5. BusyIsSilent'
    BY <2>1, <2>2 DEF BusyIsSilent, Busy, JobsNumbered, Silent
  <2>6. ConnectedAlone'
    BY <2>1 DEF ConnectedAlone, CardsTypeOK
  <2>7. CancelAtHand'
    <3> SUFFICES ASSUME NEW j \in Job, open', At(j, "connect")',
                        job'[j].card \in Saved \ overlapped', j \notin stopped'
                 PROVE  /\ job'[j].card \in connecting' \ disabled'
                        /\ cancelOf'[job'[j].card] = j
      BY DEF CancelAtHand
    <3>1. /\ job' = job /\ At(j, "connect") /\ job[j].card \in Saved \ overlapped
          /\ job[j].card \in Card /\ Busy(j)
      BY <2>1 DEF At, Busy, Card
    <3>2. /\ job[j].card \in connecting \ disabled /\ cancelOf[job[j].card] = j
          /\ Silent(job[j].card)
      BY <2>1, <3>1 DEF CancelAtHand, BusyIsSilent, At
    <3>3. CASE job[j].card = c
      BY <1>2, <3>1, <3>2, <3>3, LookSpares
    <3>4. CASE job[j].card # c
      <4>1. /\ cancelOf'[job[j].card] = cancelOf[job[j].card]
            /\ job[j].card \in connecting' \ disabled'
        BY <2>1, <3>1, <3>2, <3>4
      <4> QED
        BY <3>1, <3>2, <4>1
    <3> QED
      BY <3>3, <3>4
  <2>8. TunnelIsNoticed'
    <3> SUFFICES ASSUME NEW j \in up' \ handed', open',
                        job'[j].card \notin overlapped' \cup rushed'
                 PROVE  /\ job'[j].card \in connected' /\ tunnel'[job'[j].card] = j
                        /\ job'[j].card \in needsUpdate' \/ At(j, "raise")'
      BY DEF TunnelIsNoticed
    <3>1. /\ j \in up \ handed /\ open /\ job' = job
          /\ job[j].card \notin overlapped \cup rushed
      BY <2>1
    <3>2. /\ job[j].card \in connected /\ tunnel[job[j].card] = j
          /\ job[j].card \in needsUpdate \/ At(j, "raise")
      BY <3>1 DEF TunnelIsNoticed
    <3>3. job[j].card # c
      BY <1>2, <3>1, <3>2, LookSpares
    <3> QED
      BY <2>1, <3>1, <3>2, <3>3 DEF At
  <2> QED
    BY <2>1, <2>3, <2>4, <2>5, <2>6, <2>7, <2>8
<1> QED
  BY <1>1, <1>2 DEF FrameStep

\* No step on the cards breaks their invariant.
LEMMA CardsStep ==
  ASSUME CardsInv, CardsNext
  PROVE  CardsInv'
<1>1. ASSUME NEW c \in Card, Press(c)
      PROVE  CardsInv'
  <2>1. CASE PressLogin(c) \/ PressConnect(c)
    <3>1. c \in Saved
      BY <2>1 DEF PressLogin, PressConnect
    <3> QED
      BY <2>1, <3>1, PressKeepsCards
  <2>2. CASE PressCancel(c) \/ PressDirect(c)
    BY <2>2, OtherClicksKeepCards
  <2> QED
    BY <1>1, <2>1, <2>2 DEF Press
<1>2. ASSUME NEW c \in Card, PressForm(c)
      PROVE  CardsInv'
  <2>1. c \in Form
    BY <1>2 DEF PressForm
  <2> QED
    BY <1>2, <2>1, FormKeepsCards
<1>3. ASSUME NEW j \in Job, JobStep(j)
      PROVE  CardsInv'
  <2>1. \/ Raise(j) \/ LoginEnds(j) \/ FormLogsIn(j) \/ FormConnects(j)
        \/ LoginFails(j) \/ AttemptCancelled(j) \/ AttemptSucceeds(j)
        \/ \E why \in {"error", "ambiguous"} : AttemptFails(j, why)
    BY <1>3 DEF JobStep
  <2> QED
    BY <2>1, GoingOnKeepsCards, ReportKeepsCards
<1>4. CASE Close
  BY <1>4, OtherClicksKeepCards
<1>5. CASE (\E j \in Job : Line(j)) \/ \E c \in Card : Listed(c)
  BY <1>5, NewsKeepsCards
<1>6. CASE FrameStep
  BY <1>6, FrameKeepsCards
<1> QED
  BY <1>1, <1>2, <1>3, <1>4, <1>5, <1>6 DEF CardsNext

-----------------------------------------------------------------------------
(* The screen *)

\* The parts share the clicks, and only the cards take the screen down.
LEMMA ScreenSteps ==
  ASSUME clicks \in 0..MaxClicks
  PROVE  /\ CardsNext => clicks' \in {clicks, clicks + 1} /\ clicks' \in 0..MaxClicks
         /\ PanelNext => clicks' \in {clicks, clicks + 1} /\ clicks' \in 0..MaxClicks
         /\ PanelNext => open' = open
<1>1. /\ Click => clicks' \in {clicks, clicks + 1} /\ clicks' \in 0..MaxClicks
      /\ UNCHANGED clicks => clicks' \in {clicks, clicks + 1} /\ clicks' \in 0..MaxClicks
  BY NewJob DEF ThisJob
<1>2. CardsNext => Click \/ UNCHANGED clicks
  BY DEF CardsNext, Close, FrameStep, FrameEnds, LookCancelled, LookListed, LookFailed,
         LookConnected, LookRefreshed, Looked, Press, PressCancel, PressLogin, PressConnect,
         PressDirect, Pressed, PressForm, Listed, JobStep, LoginFails, LoginEnds, FormLogsIn,
         FormConnects, AttemptFails, AttemptCancelled, AttemptSucceeds, Failed, Raise, Line,
         Background, screenVars
<1>3. PanelNext => (Click \/ UNCHANGED clicks) /\ open' = open
  BY DEF PanelNext, PanelClick, Login, Logout, BackToAccounts, PickRole, PickAccount,
         PanelFrame, RequestStep, LoginFailed, LoginSucceeds, NoAccounts, AccountsListed,
         NoRoles, RolesListed, ProfileFails, ProfileWritten, RaiseUpdate, LoginLine, Write,
         screenVars
<1> QED
  BY <1>1, <1>2, <1>3

\* What the user does elsewhere on the screen leaves the panel as it was, ...
LEMMA PanelElsewhere ==
  ASSUME PanelInv, clicks \in 0..MaxClicks, clicks' \in {clicks, clicks + 1},
         UNCHANGED panelVars
  PROVE  PanelInv'
<1>1. UNCHANGED <<mode, picker, accounts, picked, rolesOf, reports, ssoUpdate, request,
                  profiles, crossed>>
  BY DEF panelVars
<1>2. \A j \in Request : j > clicks' => j > clicks
  BY DEF Request, Job
<1>3. PanelTypeOK' /\ ProfileOfOneAccount'
  BY <1>1 DEF PanelInv, PanelTypeOK, ProfileOfOneAccount
<1>4. Waiting' = Waiting /\ Turning' = Turning
  BY <1>1 DEF Waiting, Turning
<1>5. ~crossed => OneAtATime' /\ PickedInSession' /\ RolesOfPicked'
  BY <1>1, <1>4 DEF PanelInv, OneAtATime, PickedInSession, RolesOfPicked
<1> QED
  BY <1>1, <1>2, <1>3, <1>5 DEF PanelInv

\* ... and the cards.
LEMMA CardsElsewhere ==
  ASSUME CardsInv, clicks' \in {clicks, clicks + 1}, clicks' \in 0..MaxClicks,
         UNCHANGED <<open, cardVars>>
  PROVE  CardsInv'
<1>1. UNCHANGED <<disabled, connecting, cancelOf, needsUpdate, cancelled, loginErr, connected,
                  bastions, tunnel, job, stopped, at, up, handed, overlapped, rushed>>
  BY DEF cardVars, buttonVars, reportVars, historyVars
<1>2. \A j \in Job : j > clicks' => j > clicks
  BY DEF Job, CardsInv, CardsTypeOK
<1>3. CardsTypeOK' /\ JobsNumbered' /\ CancelIsOfAttempt' /\ ConnectedIsUp'
  BY <1>1, <1>2 DEF CardsInv, CardsTypeOK, JobsNumbered, CancelIsOfAttempt, ConnectedIsUp
<1>4. SilentUntilPressed' /\ OneJobEach' /\ BusyIsSilent' /\ ConnectedAlone'
  BY <1>1 DEF CardsInv, SilentUntilPressed, OneJobEach, BusyIsSilent, ConnectedAlone, Silent,
              Busy
<1>5. CancelAtHand' /\ TunnelIsNoticed'
  BY <1>1 DEF CardsInv, CancelAtHand, TunnelIsNoticed, At
<1> QED
  BY <1>3, <1>4, <1>5 DEF CardsInv

\* A step of the panel does not need the clicks of its invariant apart.
LEMMA PanelBaseHolds ==
  ASSUME PanelInv, clicks \in 0..MaxClicks
  PROVE  PanelBase
  BY DEF PanelInv, PanelBase

\* The screen comes up with no card pressed, the panel asking for at most one thing
\* and nothing saved.
LEMMA InitIInv == Init => IInv
<1> SUFFICES ASSUME Init PROVE IInv
  OBVIOUS
<1>1. SavedInv
  BY DEF Init, SavedInit, SavedInv, SavedTypeOK, NoSecretOverAWS, OnDisk, PasswordOfItsServer,
         NoBookmark, Bookmark
<1>2. PanelInv
  <2>1. /\ reports = {} /\ profiles = {} /\ picker = "none"
        /\ \A j \in Request : request[j] \in {Asks("accounts"), NoRequest}
        /\ \A j \in Request \ {0} : request[j] = NoRequest
    BY DEF Init, PanelInit
  <2>2. \A j \in Request : request[j].doing \in {"none", "accounts"}
    BY <2>1 DEF Asks, NoRequest
  <2>3. PanelTypeOK
    <3> DEFINE R == [doing : {"none", "login", "accounts", "roles", "profile", "raise", "over"},
                     account : Account \cup {Nobody}, roleOf : Account \cup {Nobody}]
    <3>1. NoRequest \in R /\ Asks("accounts") \in R
      BY DEF Asks, NoRequest
    <3> HIDE DEF R
    <3>2. request \in [Request -> R]
      BY <3>1 DEF Init, PanelInit
    <3>3. /\ mode \in {"out", "busy", "in"} /\ picker \in {"none", "accounts", "roles"}
          /\ accounts \in BOOLEAN /\ ssoUpdate \in BOOLEAN /\ crossed \in BOOLEAN
          /\ picked \in Account \cup {Nobody} /\ rolesOf \in Account \cup {Nobody}
          /\ reports = {} /\ profiles = {}
      BY DEF Init, PanelInit
    <3> QED
      BY <3>2, <3>3 DEF PanelTypeOK, R
  <2>4. Waiting \subseteq {0} /\ Turning = {}
    BY <2>1 DEF Waiting, Turning, NoRequest
  <2>5. OneAtATime /\ PickedInSession /\ RolesOfPicked
    BY <2>1, <2>2, <2>4 DEF OneAtATime, PickedInSession, RolesOfPicked, Waiting
  <2>6. \A j \in Request : j > clicks => request[j] = NoRequest
    BY <2>1 DEF Init, ScreenInit
  <2> QED
    BY <2>1, <2>2, <2>3, <2>5, <2>6 DEF PanelInv, ProfileOfOneAccount
<1>3. CardsInv
  <2>1. CardsTypeOK
    BY ClicksAssumption DEF Init, ScreenInit, CardsInit, CardsTypeOK, NoJob
  <2>2. JobsNumbered /\ CancelIsOfAttempt /\ ConnectedIsUp /\ SilentUntilPressed
    BY DEF Init, CardsInit, JobsNumbered, CancelIsOfAttempt, ConnectedIsUp,
           SilentUntilPressed, Silent, NoJob
  <2>3. OneJobEach /\ BusyIsSilent /\ ConnectedAlone /\ CancelAtHand /\ TunnelIsNoticed
    BY DEF Init, CardsInit, OneJobEach, BusyIsSilent, Busy, ConnectedAlone, CancelAtHand,
           TunnelIsNoticed, At, NoJob
  <2> QED
    BY <2>1, <2>2, <2>3 DEF CardsInv
<1> QED
  BY <1>1, <1>2, <1>3 DEF IInv, Init

\* The invariant is inductive, whichever part of the screen the user works at.
LEMMA Inductive == IInv /\ [Next]_vars => IInv'
<1> SUFFICES ASSUME IInv, [Next]_vars PROVE IInv'
  OBVIOUS
<1>1. clicks \in 0..MaxClicks /\ clicks \in {clicks, clicks + 1}
  BY DEF IInv, CardsInv, CardsTypeOK
<1>2. SavedInv /\ UNCHANGED savedVars => SavedInv'
  BY DEF savedVars, SavedInv, SavedTypeOK, NoSecretOverAWS, OnDisk, PasswordOfItsServer
<1>3. CASE part = "cards" /\ CardsNext /\ UNCHANGED <<panelVars, savedVars, part>>
  BY <1>1, <1>2, <1>3, CardsStep, ScreenSteps, PanelElsewhere DEF IInv
<1>4. CASE part = "panel" /\ PanelNext /\ UNCHANGED <<cardVars, savedVars, part>>
  BY <1>1, <1>2, <1>4, PanelBaseHolds, PanelStep, ScreenSteps, CardsElsewhere DEF IInv
<1>5. CASE part = "saved" /\ SavedNext /\ UNCHANGED <<screenVars, cardVars, panelVars, part>>
  BY <1>1, <1>5, SavedStep, PanelElsewhere, CardsElsewhere DEF IInv, screenVars
<1>6. CASE UNCHANGED vars
  BY <1>1, <1>2, <1>6, PanelElsewhere, CardsElsewhere DEF IInv, vars, screenVars
<1> QED
  BY <1>3, <1>4, <1>5, <1>6 DEF Next

\* The inductive invariant holds throughout.
THEOREM Invariant == Spec => []IInv
  BY InitIInv, Inductive, PTL DEF Spec

\* The screen's variables keep their types (gateway_screen.go).
THEOREM TypeCorrect == Spec => [](CardsTypeOK /\ PanelTypeOK)
<1>1. IInv => CardsTypeOK /\ PanelTypeOK
  BY DEF IInv, CardsInv, PanelInv
<1> QED
  BY <1>1, Invariant, PTL

\* No password is kept for another server or jump host than the one it was typed
\* with, whatever the keychain refuses, unless the bookmark was lost on its way to
\* the disk (onPGConnect and onMySQLConnect).
THEOREM PasswordSafe == Spec => []PasswordOfItsServer
<1>1. IInv => PasswordOfItsServer
  BY DEF IInv, SavedInv
<1> QED
  BY <1>1, Invariant, PTL

\* A profile is written of an account and a role of that account, in whatever order
\* the answers come and the frames find them, unless the user logged in or out with
\* a request under way (onPickAccount, onPickRole and Process).
THEOREM ProfileSafe == Spec => []ProfileOfOneAccount
<1>1. IInv => ProfileOfOneAccount
  BY DEF IInv, PanelInv
<1> QED
  BY <1>1, Invariant, PTL

\* While a card connects its button aborts that very attempt, unless the card was
\* pressed with another still to be heard of (onCardAction).
THEOREM CancelSafe == Spec => []CancelAtHand
<1>1. IInv => CancelAtHand
  BY DEF IInv, CardsInv
<1> QED
  BY <1>1, Invariant, PTL

\* A tunnel that is up is held by its card, which will be looked at, until it is
\* handed to the application (startGatewayConnection and Process).
THEOREM TunnelNoticed == Spec => []TunnelIsNoticed
<1>1. IInv => TunnelIsNoticed
  BY DEF IInv, CardsInv
<1> QED
  BY <1>1, Invariant, PTL
=============================================================================
