------------------------------ MODULE SSOPanel ------------------------------
(***************************************************************************)
(* The SSO panel of the connection screen: log in to AWS, pick an account, *)
(* pick a role, and a profile of the two is written to ~/.aws/config       *)
(* (src/internal/ui/gateway_screen.go, tryRestoreSession to onPickRole and *)
(* Process; src/internal/aws/auth.go).                                     *)
(*                                                                         *)
(* Each click starts a goroutine that writes what it has into fields of    *)
(* the screen and then raises ssoUpdate.  A frame that finds it raised     *)
(* lowers it and handles one report, the first in a fixed order.           *)
(***************************************************************************)
EXTENDS ScreenState

CONSTANT Account   \* the AWS accounts of the user

Nobody == "nobody"
ASSUME AccountAssumption == Nobody \notin Account

VARIABLES
  mode,      \* "out": Login; "busy": Login, disabled; "in": Logout
  picker,    \* "none", "accounts" or "roles": the buttons in the picker box
  accounts,  \* ssoAccounts are loaded
  picked,    \* ssoPickedAcct
  rolesOf,   \* the account whose roles ssoRoles are
  reports,   \* the fields goroutines have written and no frame has handled
  ssoUpdate, \* raised
  request,   \* per job: what it is at and for which account
  profiles,  \* the profiles written: the account and whose role
  crossed    \* history: Login or Logout with a request of before under way

panelVars == <<mode, picker, accounts, picked, rolesOf, reports, ssoUpdate,
               request, profiles, crossed>>

\* Job 0 is the goroutine the screen starts itself.
Request == Job \cup {0}
NoRequest == [doing |-> "none", account |-> Nobody, roleOf |-> Nobody]

Asks(what) == [NoRequest EXCEPT !.doing = what]

\* The screen comes up: with a saved start URL and a token still valid in the cache,
\* the accounts are fetched.
PanelInit ==
  /\ picker = "none" /\ accounts = FALSE
  /\ picked = Nobody /\ rolesOf = Nobody
  /\ reports = {} /\ ssoUpdate = FALSE
  /\ profiles = {} /\ crossed = FALSE
  /\ \/ /\ mode = "out"
        /\ request = [j \in Request |-> NoRequest]
     \/ /\ mode = "in"
        /\ request = [j \in Request |-> IF j = 0 THEN Asks("accounts") ELSE NoRequest]

UnderWay == {j \in Request : request[j].doing \notin {"none", "over"}}
Crossing == crossed \/ UnderWay # {} \/ reports \ {"log"} # {}
-----------------------------------------------------------------------------
(* Clicks *)

Ask(r) == request' = [request EXCEPT ![ThisJob] = r]

\* onSSOLogin: the settings are saved and what an earlier login left is forgotten.
Login ==
  /\ mode = "out" /\ Click
  /\ mode' = "busy"
  /\ reports' = reports \ {"loginErr", "done", "log"}
  /\ Ask(Asks("login"))
  /\ crossed' = Crossing
  /\ UNCHANGED <<open, picker, accounts, picked, rolesOf, ssoUpdate, profiles>>

Logout ==
  /\ mode = "in" /\ Click
  /\ mode' = "out"
  /\ picker' = "none"
  /\ accounts' = FALSE /\ rolesOf' = Nobody
  /\ crossed' = Crossing
  /\ UNCHANGED <<open, picked, reports, ssoUpdate, request, profiles>>

\* onPickAccount clears the picker, so nothing else can be picked meanwhile.
PickerWhileLoading_Kept == picker
PickerWhileLoading == "none"

PickAccount(a) ==
  /\ picker = "accounts" /\ accounts /\ Click
  /\ picked' = a
  /\ picker' = PickerWhileLoading
  /\ Ask([Asks("roles") EXCEPT !.account = a])
  /\ UNCHANGED <<open, mode, accounts, rolesOf, reports, ssoUpdate, profiles, crossed>>

BackToAccounts ==
  /\ picker = "roles" /\ Click
  /\ picker' = "accounts"
  /\ UNCHANGED <<open, mode, accounts, picked, rolesOf, reports, ssoUpdate, request,
                 profiles, crossed>>

PickRole ==
  /\ picker = "roles" /\ rolesOf # Nobody /\ Click
  /\ picker' = "none"
  /\ Ask([doing |-> "profile", account |-> picked, roleOf |-> rolesOf])
  /\ UNCHANGED <<open, mode, accounts, picked, rolesOf, reports, ssoUpdate, profiles, crossed>>
-----------------------------------------------------------------------------
(* Goroutines *)

Doing(j, what) == open /\ request[j].doing = what

\* A report is written, ...
Reported_Unraised(j) == request' = [request EXCEPT ![j].doing = "over"]
Reported(j) == request' = [request EXCEPT ![j].doing = "raise"]

Write(j, what) ==
  /\ reports' = reports \cup {what}
  /\ Reported(j)
  /\ UNCHANGED <<screenVars, mode, picker, picked, ssoUpdate, crossed>>

\* ... and ssoUpdate raised.
RaiseUpdate(j) ==
  /\ Doing(j, "raise")
  /\ ssoUpdate' = TRUE
  /\ request' = [request EXCEPT ![j].doing = "over"]
  /\ UNCHANGED <<screenVars, mode, picker, accounts, picked, rolesOf, reports, profiles, crossed>>

\* The device flow: lines for the log, then an error, ...
LoginLine(j) ==
  /\ Doing(j, "login")
  /\ reports' = reports \cup {"log"}
  /\ ssoUpdate' = TRUE
  /\ UNCHANGED <<screenVars, mode, picker, accounts, picked, rolesOf, request, profiles, crossed>>

LoginFailed(j) ==
  /\ Doing(j, "login")
  /\ Write(j, "loginErr")
  /\ UNCHANGED <<accounts, rolesOf, profiles>>

\* ... or a token, with which the same goroutine fetches the accounts.
LoginSucceeds(j) ==
  /\ Doing(j, "login")
  /\ reports' = reports \cup {"done"}
  /\ ssoUpdate' = TRUE
  /\ request' = [request EXCEPT ![j].doing = "accounts"]
  /\ UNCHANGED <<screenVars, mode, picker, accounts, picked, rolesOf, profiles, crossed>>

\* No token, no answer, or no accounts.
NoAccounts(j) ==
  /\ Doing(j, "accounts")
  /\ Write(j, "accountsErr")
  /\ UNCHANGED <<accounts, rolesOf, profiles>>

AccountsListed(j) ==
  /\ Doing(j, "accounts")
  /\ accounts' = TRUE
  /\ Write(j, "accounts")
  /\ UNCHANGED <<rolesOf, profiles>>

NoRoles(j) ==
  /\ Doing(j, "roles")
  /\ Write(j, "rolesErr")
  /\ UNCHANGED <<accounts, rolesOf, profiles>>

RolesListed(j) ==
  /\ Doing(j, "roles")
  /\ rolesOf' = request[j].account
  /\ Write(j, "roles")
  /\ UNCHANGED <<accounts, profiles>>

ProfileFails(j) ==
  /\ Doing(j, "profile")
  /\ Write(j, "profileErr")
  /\ UNCHANGED <<accounts, rolesOf, profiles>>

ProfileWritten(j) ==
  /\ Doing(j, "profile")
  /\ profiles' = profiles \cup {[account |-> request[j].account, roleOf |-> request[j].roleOf]}
  /\ Write(j, "profileDone")
  /\ UNCHANGED <<accounts, rolesOf>>
-----------------------------------------------------------------------------
(* A frame *)

\* The reports in the order Process looks for them; an error goes with the list it
\* was written for.
Order == <<"loginErr", "profileDone", "profileErr", "rolesErr", "roles",
           "accountsErr", "accounts", "done", "log">>
With(what) ==
  CASE what = "rolesErr"    -> {"rolesErr", "roles"}
    [] what = "accountsErr" -> {"accountsErr", "accounts"}
    [] what = "log"         -> {}
    [] OTHER                -> {what}

\* A failed login or list of accounts brings Login back, a session Logout.  Accounts
\* that a logout has cleared since count as none.
ModeAfter(what) ==
  CASE what \in {"loginErr", "accountsErr"} -> "out"
    [] what \in {"profileDone", "done"}     -> "in"
    [] what = "accounts"                    -> IF accounts THEN "in" ELSE "out"
    [] OTHER                                -> mode
PickerAfter(what) ==
  IF what = "roles" \/ (what = "accounts" /\ accounts) THEN what ELSE picker

PanelFrame ==
  /\ open /\ ssoUpdate
  /\ ssoUpdate' = FALSE
  /\ \/ /\ reports = {}
        /\ UNCHANGED <<mode, picker, reports>>
     \/ \E n \in DOMAIN Order :
          /\ Order[n] \in reports
          /\ \A k \in 1..n - 1 : Order[k] \notin reports
          /\ reports' = reports \ With(Order[n])
          /\ mode' = ModeAfter(Order[n])
          /\ picker' = PickerAfter(Order[n])
  /\ UNCHANGED <<screenVars, accounts, picked, rolesOf, request, profiles, crossed>>
-----------------------------------------------------------------------------
PanelClick ==
  Login \/ Logout \/ BackToAccounts \/ PickRole \/ \E a \in Account : PickAccount(a)

RequestStep(j) ==
  \/ LoginFailed(j) \/ LoginSucceeds(j) \/ NoAccounts(j) \/ AccountsListed(j)
  \/ NoRoles(j) \/ RolesListed(j) \/ ProfileFails(j) \/ ProfileWritten(j)
  \/ RaiseUpdate(j)

PanelNext ==
  \/ PanelClick \/ PanelFrame
  \/ \E j \in Request : RequestStep(j) \/ LoginLine(j)

\* Frames keep coming; a login gives up after five minutes, an AWS call ends.
PanelFairness ==
  /\ WF_panelVars(PanelFrame)
  /\ \A j \in Request : WF_panelVars(RequestStep(j))
-----------------------------------------------------------------------------
(* Properties *)

PanelTypeOK ==
  /\ mode \in {"out", "busy", "in"}
  /\ picker \in {"none", "accounts", "roles"}
  /\ accounts \in BOOLEAN /\ ssoUpdate \in BOOLEAN /\ crossed \in BOOLEAN
  /\ picked \in Account \cup {Nobody} /\ rolesOf \in Account \cup {Nobody}
  /\ reports \subseteq {Order[n] : n \in DOMAIN Order}
  /\ request \in [Request ->
       [doing : {"none", "login", "accounts", "roles", "profile", "raise", "over"},
        account : Account \cup {Nobody}, roleOf : Account \cup {Nobody}]]
  /\ profiles \subseteq [account : Account \cup {Nobody}, roleOf : Account]

\* A profile that is written is of one account and a role of that account, unless
\* the user logged in or out with a request still under way: then an answer of the
\* session before may come in between.
ProfileOfOneAccount ==
  \A p \in profiles : p.account = p.roleOf \/ crossed

\* After Login is pressed the panel comes back with a session or with Login, unless
\* the user crossed a request of the session before: two reports that one frame
\* finds are one too many, for nobody raises ssoUpdate again for the second.
LoginSettles == (mode = "busy") ~> (mode # "busy" \/ ~open \/ crossed)
=============================================================================
