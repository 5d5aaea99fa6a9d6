-------------------------- MODULE SavedConnections --------------------------
(***************************************************************************)
(* The connections the forms of the connection screen save: a bookmark in  *)
(* bookmarks.json, its passwords in the keychain of the system             *)
(* (src/internal/ui/gateway_screen.go, onPGConnect, onMySQLConnect,        *)
(* onBQConnect and onFormConnect; src/internal/models/bookmark.go and      *)
(* secret.go).                                                             *)
(*                                                                         *)
(* A form writes the passwords first, then the bookmark, in memory and on  *)
(* disk.  The keychain may be out of reach, the disk full; the application *)
(* may die in between, and reads the file when it comes back.  Each press  *)
(* of a form's Connect has a number, which stands for the server, the      *)
(* password and the jump host typed in it.                                 *)
(***************************************************************************)
EXTENDS Integers

CONSTANTS
  Label,     \* the names connections are saved under
  MaxSaves   \* bound on the presses

ASSUME SavesAssumption == MaxSaves \in Nat

VARIABLES
  bookmarks, \* BookmarkStore: per label, the bookmark
  file,      \* bookmarks.json
  keychain,  \* per label and use, the press whose password is stored, or 0
  saves,     \* the presses so far
  entry,     \* the entry handed to OnConnect last
  lapsed     \* history: labels whose last bookmark did not reach the disk

savedVars == <<bookmarks, file, keychain, saves, entry, lapsed>>

Kind == {"aws", "postgres", "mysql", "bigquery"}
Save == 1..MaxSaves

\* A bookmark or an entry: whether its passwords are in the keychain, and whether
\* it goes through a jump host.
NoBookmark == [kind |-> "none", from |-> 0, secret |-> FALSE, ssh |-> FALSE,
               sshSecret |-> FALSE]

SavedInit ==
  /\ bookmarks = [l \in Label |-> NoBookmark]
  /\ file = bookmarks
  /\ keychain = [l \in Label |-> [db |-> 0, ssh |-> 0]]
  /\ saves = 0
  /\ entry = NoBookmark
  /\ lapsed = {}

ThisSave == saves + 1
-----------------------------------------------------------------------------
\* BookmarkStore.Add: in place of the one of that label, if any.  A failed write is
\* only printed.
Add(l, b, written) ==
  /\ bookmarks' = [bookmarks EXCEPT ![l] = b]
  /\ file' = IF written THEN bookmarks' ELSE file
  /\ lapsed' = IF written THEN lapsed \ {l} ELSE lapsed \cup {l}

\* SetSecret, of the passwords the keychain accepts.
Stored(l, db, ssh) ==
  [keychain EXCEPT ![l].db  = IF db THEN ThisSave ELSE @,
                   ![l].ssh = IF ssh THEN ThisSave ELSE @]

NextSave == saves < MaxSaves /\ saves' = ThisSave

\* What a form's fields say: whether a password is given, whether to go via SSH
\* and with a secret for it.
Fields(kind) ==
  {[kind |-> kind, from |-> ThisSave, secret |-> p, ssh |-> s, sshSecret |-> q] :
     p \in BOOLEAN, s \in BOOLEAN, q \in BOOLEAN}
Typed(kind) == {f \in Fields(kind) : f.sshSecret => f.ssh}

\* Only what the keychain has taken is recorded as being there.
Recorded_AsTyped(f, db, ssh) == f
Recorded(f, db, ssh) == [f EXCEPT !.secret = f.secret /\ db, !.sshSecret = f.sshSecret /\ ssh]

\* onPGConnect keeps the tunnel in the entry and in the bookmark; ...
ConnectPostgres(l, f, db, ssh, written) ==
  /\ NextSave /\ f \in Typed("postgres")
  /\ keychain' = Stored(l, f.secret /\ db, f.sshSecret /\ ssh)
  /\ Add(l, Recorded(f, db, ssh), written)
  /\ entry' = Recorded(f, db, ssh)

\* ... onMySQLConnect stores the tunnel's secret, and the tunnel nowhere.
WithoutSSH(f) == [f EXCEPT !.ssh = FALSE, !.sshSecret = FALSE]

ConnectMySQL(l, f, db, ssh, written) ==
  /\ NextSave /\ f \in Typed("mysql")
  /\ keychain' = Stored(l, f.secret /\ db, f.sshSecret /\ ssh)
  /\ Add(l, WithoutSSH(Recorded(f, db, ssh)), written)
  /\ entry' = WithoutSSH(Recorded(f, db, ssh))

\* BigQuery and AWS have no password to keep.  The AWS form hands its entry over
\* once its tunnel is up.
ConnectOther(l, kind, written) ==
  /\ NextSave /\ kind \in {"bigquery", "aws"}
  /\ LET f == [NoBookmark EXCEPT !.kind = kind, !.from = ThisSave] IN
     /\ Add(l, f, written)
     /\ entry' = f
  /\ UNCHANGED keychain

\* The application dies after the passwords and before the bookmark.
DieSaving(l, f) ==
  /\ NextSave /\ f \in Typed("postgres") \cup Typed("mysql")
  /\ keychain' = Stored(l, f.secret, f.sshSecret)
  /\ bookmarks' = file
  /\ lapsed' = lapsed \cup {l}
  /\ UNCHANGED <<file, entry>>

\* A card connects what its bookmark says.
ConnectSaved(l) ==
  /\ bookmarks[l] # NoBookmark
  /\ entry' = bookmarks[l]
  /\ UNCHANGED <<bookmarks, file, keychain, saves, lapsed>>

\* A bastion picked on a card goes into its bookmark, which is saved again.
PickBastion(l, written) ==
  /\ bookmarks[l].kind = "aws"
  /\ Add(l, bookmarks[l], written)
  /\ UNCHANGED <<keychain, saves, entry>>

\* Remove takes along the passwords the bookmark says are there, if it can.
Remove(l, deleted, written) ==
  /\ bookmarks[l] # NoBookmark
  /\ keychain' = [keychain EXCEPT
       ![l].db  = IF bookmarks[l].secret /\ deleted THEN 0 ELSE @,
       ![l].ssh = IF bookmarks[l].sshSecret /\ deleted THEN 0 ELSE @]
  /\ Add(l, NoBookmark, written)
  /\ UNCHANGED <<saves, entry>>

\* The application ends and is started again.
Restart ==
  /\ bookmarks' = file
  /\ UNCHANGED <<file, keychain, saves, entry, lapsed>>

SavedNext ==
  \/ Restart
  \/ \E l \in Label :
       \/ ConnectSaved(l)
       \/ \E written \in BOOLEAN :
            \/ PickBastion(l, written)
            \/ \E deleted \in BOOLEAN : Remove(l, deleted, written)
            \/ \E kind \in Kind : ConnectOther(l, kind, written)
            \/ \E db, ssh \in BOOLEAN :
                 \/ \E f \in Typed("postgres") : ConnectPostgres(l, f, db, ssh, written)
                 \/ \E f \in Typed("mysql") : ConnectMySQL(l, f, db, ssh, written)
       \/ \E f \in Typed("postgres") \cup Typed("mysql") : DieSaving(l, f)

SavedSpec == SavedInit /\ [][SavedNext]_savedVars
-----------------------------------------------------------------------------
(* Properties *)

\* A bookmark that keeps a password in the keychain has there the one that was typed
\* with its server and its jump host: no password goes to another server.  A
\* bookmark that did not reach the disk, or not before the application died,
\* may leave the password of the new server with the bookmark of the old.
PasswordOfItsServer ==
  \A l \in Label \ lapsed :
    /\ bookmarks[l].secret => keychain[l].db = bookmarks[l].from
    /\ bookmarks[l].sshSecret => keychain[l].ssh = bookmarks[l].from
=============================================================================
