------------------------------ MODULE Updater -------------------------------
(***************************************************************************)
(* The self-update of an installed macOS copy: the phases of the flow      *)
(* (updater/state.go), the goroutines behind them (ui/update_modal.go),    *)
(* the preparation of the new bundle and the helper that swaps bundles     *)
(* once the application has exited (updater/install.go).                   *)
(*                                                                         *)
(* Four parties: the main thread, one goroutine at a time, the detached    *)
(* helper, and the user, who may quit and launch the application at any    *)
(* moment.  Any of them, and the whole machine, may stop between two       *)
(* steps; what is left is what is on disk.                                 *)
(*                                                                         *)
(* One instance runs at a time, and the helper, which polls five times a   *)
(* second and then renames, is done before a relaunched instance has       *)
(* checked, downloaded and been told to install.  What that instance does  *)
(* when it starts runs beside the helper, step by step.                    *)
(***************************************************************************)
EXTENDS Naturals, FiniteSets

VARIABLES
  proc,       \* the application: [run, version, boot, launcher]
  st,         \* updater.State: [phase, manual, open, found, staged, blocked]
  jobs,       \* update goroutines: [kind, at, outcome]
  app,        \* the bundle in place
  copy,       \* .Bufflehead-update.app beside it
  backup,     \* .Bufflehead-backup.app
  helper,     \* where the swap helper is
  interrupted, \* history: the swap did not run to its end
  undercut    \* history: the swap's backup was removed while nothing else was
              \* in place, or was put into the rest of an older one

disk == <<app, copy, backup>>
history == <<interrupted, undercut>>
vars == <<proc, st, jobs, disk, helper, history>>

Release == {"old", "new"}
\* What a bundle's place may hold: "bad" fails verification, "nested" is the rest
\* of a bundle with another one inside.
Bundle == Release \cup {"none", "partial", "bad", "nested"}

Complete(b) == b \in Release

Idle == [phase |-> "Idle", manual |-> FALSE, open |-> FALSE, found |-> FALSE,
         staged |-> FALSE, blocked |-> FALSE]

\* boot: how far FinishInstall is; launcher: it has launched the helper, which
\* waits for it to exit.
Off == [run |-> "off", version |-> "none", boot |-> "due", launcher |-> FALSE]
Up(v) == [run |-> "up", version |-> v, boot |-> "due", launcher |-> FALSE]

Init ==
  /\ proc = Up("old")
  /\ st = Idle
  /\ jobs = {}
  /\ app = "old" /\ copy = "none" /\ backup = "none"
  /\ helper = "none"
  /\ interrupted = FALSE /\ undercut = FALSE

Running == proc.run = "up"
\* Frames come, and with them the user, once FinishInstall has returned.
InFrames == Running /\ proc.boot = "done"

-----------------------------------------------------------------------------
(* The phases *)

Job(kind) == [kind |-> kind, at |-> "begin", outcome |-> "none"]

\* The phases in which a lookup is not started.
Busy_Checks == {"Checking", "Available", "Ready", "Installing", "Restarting"}
Busy == {"Checking", "Downloading", "Available", "Ready", "Installing", "Restarting"}

\* StartCheck: while something is known or under way, a manual request reopens
\* the modal; else everything starts anew.
StartCheck(manual) ==
  IF st.phase \in Busy
    THEN /\ st' = IF manual
                    THEN [st EXCEPT !.open = TRUE,
                                    !.manual = @ \/ st.phase \in {"Checking", "Downloading"}]
                    ELSE st
         /\ UNCHANGED jobs
    ELSE /\ st' = [Idle EXCEPT !.phase = "Checking", !.manual = manual, !.open = manual]
         /\ jobs' = jobs \cup {Job("check")}

CheckForUpdates ==
  /\ InFrames
  /\ StartCheck(TRUE)
  /\ UNCHANGED <<proc, disk, helper, history>>

\* downloadUpdate: also the retry of a failed download.
DownloadUpdate ==
  /\ InFrames
  /\ st.found /\ ~st.staged /\ st.phase \in {"Available", "Failed"}
  /\ st' = [st EXCEPT !.phase = "Downloading"]
  /\ jobs' = jobs \cup {Job("download")}
  /\ UNCHANGED <<proc, disk, helper, history>>

\* installUpdate; a relaunched instance gets here after the helper has ended.
InstallUpdate ==
  /\ InFrames /\ helper = "none"
  /\ st.phase = "Ready" /\ st.staged /\ ~st.blocked
  /\ st' = [st EXCEPT !.phase = "Installing", !.open = TRUE]
  /\ jobs' = jobs \cup {Job("install")}
  /\ UNCHANGED <<proc, disk, helper, history>>

Dismiss ==
  /\ InFrames
  /\ st.phase \notin {"Installing", "Restarting"}
  /\ st' = [st EXCEPT !.open = FALSE]
  /\ UNCHANGED <<proc, jobs, disk, helper, history>>

\* The flow after an outcome; none of these looks at a result it does not wait for.
CheckDone(o) ==
  LET next == CASE o = "error" -> "Failed" [] o = "same" -> "UpToDate" [] OTHER -> "Available"
  IN  IF st.phase # "Checking" THEN st
      ELSE [st EXCEPT !.phase = next, !.found = next = "Available",
                      !.open = st.manual \/ next = "Available"]

DownloadDone(o) ==
  IF st.phase # "Downloading" THEN st
  ELSE IF o = "error" THEN [st EXCEPT !.phase = "Failed", !.open = TRUE]
  ELSE [st EXCEPT !.phase = "Ready", !.open = TRUE, !.staged = TRUE,
                  !.blocked = o = "blocked"]

InstallDone(o) ==
  IF st.phase # "Installing" THEN st
  ELSE [st EXCEPT !.phase = IF o = "error" THEN "Failed" ELSE "Restarting",
                  !.open = TRUE]

\* A frame drains the outcome and, once the helper is launched, quits.
Drain(j) ==
  /\ InFrames
  /\ j.at = "end"
  /\ jobs' = jobs \ {j}
  /\ st' = CASE j.kind = "check"    -> CheckDone(j.outcome)
             [] j.kind = "download" -> DownloadDone(j.outcome)
             [] j.kind = "install"  -> InstallDone(j.outcome)
  /\ proc' = IF st'.phase = "Restarting" THEN [proc EXCEPT !.run = "quitting"] ELSE proc
  /\ UNCHANGED <<disk, helper, history>>

-----------------------------------------------------------------------------
(* The goroutines *)

Becomes(j, new) == jobs' = (jobs \ {j}) \cup {new}
Ends(j, outcome) == Becomes(j, [j EXCEPT !.at = "end", !.outcome = outcome])

\* Client.Check.  The newest release is the one called new.
LookUp(j) ==
  /\ j.kind = "check" /\ j.at = "begin"
  /\ \E o \in {"error", "same", "newer"} :
       /\ o = "newer" => proc.version = "old"
       /\ Ends(j, o)
  /\ UNCHANGED <<proc, st, disk, helper, history>>

\* StageNamed and InstallBlocker: verified under its name, or nothing.
Download(j) ==
  /\ j.kind = "download" /\ j.at = "begin"
  /\ \E o \in {"error", "blocked", "ok"} :
       /\ o = "ok" => app # "none"
       /\ Ends(j, o)
  /\ UNCHANGED <<proc, st, disk, helper, history>>

\* PrepareInstall up to ditto: the bundle is found, the image mounted, an old
\* copy removed.  Without a bundle nothing is touched.
BeginCopy(j) ==
  /\ j.kind = "install" /\ j.at = "begin"
  /\ \/ /\ app # "none"
        /\ copy' = "partial"
        /\ Becomes(j, [j EXCEPT !.at = "copying"])
     \/ /\ \/ copy' = copy
           \/ app # "none" /\ copy' = "none"
           \/ app # "none" /\ copy # "none" /\ copy' = "partial"
        /\ Ends(j, "error")
  /\ UNCHANGED <<proc, st, app, backup, helper, history>>

EndCopy(j) ==
  /\ j.kind = "install" /\ j.at = "copying"
  /\ \/ /\ copy' \in {"new", "bad"}
        /\ Becomes(j, [j EXCEPT !.at = "copied"])
     \/ /\ copy' = "none"
        /\ Ends(j, "error")
  /\ UNCHANGED <<proc, st, app, backup, helper, history>>

\* verifyApp looks at the copy, not at the image.
Accepted_Any == TRUE
Accepted == copy = "new"

Verify(j) ==
  /\ j.kind = "install" /\ j.at = "copied"
  /\ \/ /\ Accepted
        /\ Becomes(j, [j EXCEPT !.at = "verified"])
        /\ UNCHANGED copy
     \/ /\ copy' = "none"
        /\ Ends(j, "error")
  /\ UNCHANGED <<proc, st, app, backup, helper, history>>

\* Pending.Launch: the helper is started, or the copy is left lying.
Launch(j) ==
  /\ j.kind = "install" /\ j.at = "verified"
  /\ \/ /\ helper' = "wait"
        /\ proc' = [proc EXCEPT !.launcher = TRUE]
        /\ undercut' = (undercut /\ ~Complete(app))
        /\ Ends(j, "ok")
     \/ /\ Ends(j, "error")
        /\ UNCHANGED <<helper, proc, undercut>>
  /\ UNCHANGED <<st, disk, interrupted>>

Work(j) ==
  LookUp(j) \/ Download(j) \/ BeginCopy(j) \/ EndCopy(j) \/ Verify(j) \/ Launch(j)

-----------------------------------------------------------------------------
(* The application's life *)

\* The process is gone: what it knew and its goroutines are lost.
Gone == proc' = Off /\ st' = Idle /\ jobs' = {}

Started == proc' = Up(app) /\ st' = Idle /\ jobs' = {}

\* The user quits, the application crashes, or a quit under way ends.
Exit ==
  /\ proc.run # "off"
  /\ Gone
  /\ UNCHANGED <<disk, helper, history>>

UserLaunch ==
  /\ proc.run = "off" /\ Complete(app)
  /\ Started
  /\ UNCHANGED <<disk, helper, history>>

\* autoCheckForUpdates, once, runs FinishInstall and then looks for a release,
\* unless there is no screen or the user has opted out.
AtBoot(next) == proc' = [proc EXCEPT !.boot = next] /\ UNCHANGED <<st, jobs>>
BootDone ==
  /\ proc' = [proc EXCEPT !.boot = "done"]
  /\ StartCheck(FALSE) \/ UNCHANGED <<st, jobs>>

\* runningBundle: the path the process was started from must still be there.
FindBundle ==
  /\ Running /\ proc.boot = "due"
  /\ \/ app # "none" /\ AtBoot("look")
     \/ ~Complete(app) /\ BootDone
  /\ UNCHANGED <<disk, helper, history>>

FindBackup ==
  /\ Running /\ proc.boot = "look"
  /\ \/ backup # "none" /\ AtBoot("removing")
     \/ backup = "none" /\ BootDone
  /\ UNCHANGED <<disk, helper, history>>

\* The backup goes file by file, whatever it is by now; an error is ignored.
DropBackup ==
  /\ Running /\ proc.boot = "removing"
  /\ \/ /\ backup # "none" /\ backup' = "partial"
        /\ UNCHANGED <<proc, st, jobs>>
     \/ backup' \in {backup, "none"} /\ BootDone
  /\ undercut' = (undercut \/ (app = "none" /\ backup' # backup))
  /\ UNCHANGED <<app, copy, helper, interrupted>>

Boot == FindBundle \/ FindBackup \/ DropBackup

\* The machine goes down.
PowerLoss ==
  /\ Gone
  /\ interrupted' = (interrupted \/ helper # "none")
  /\ helper' = "none"
  /\ UNCHANGED <<disk, undercut>>

-----------------------------------------------------------------------------
(* The helper *)

\* It waits while the process that launched it is alive, and after a minute
\* discards the copy and leaves.
Wait ==
  /\ helper = "wait"
  /\ \/ /\ ~proc.launcher
        /\ helper' = "clear"
        /\ UNCHANGED <<copy, interrupted>>
     \/ /\ proc.launcher
        /\ helper' = "none" /\ copy' = "none" /\ interrupted' = TRUE
  /\ UNCHANGED <<proc, st, jobs, app, backup, undercut>>

\* rm -rf "$bak", which may fail: nobody looks.
ClearBackup ==
  /\ helper = "clear"
  /\ helper' = "out"
  /\ backup' \in {"none", backup} \cup (IF backup = "none" THEN {} ELSE {"partial"})
  /\ UNCHANGED <<proc, st, jobs, app, copy, history>>

\* mv "$app" "$bak", which moves the application INTO a backup that is still there,
\* or a failure that leaves the application as it was.
AfterFailedMove_Silent == "none"
AfterFailedMove == "open"

MoveOut ==
  /\ helper = "out"
  /\ \/ /\ app # "none"
        /\ backup' = IF backup = "none" THEN app ELSE "nested"
        /\ app' = "none"
        /\ undercut' = (undercut \/ backup # "none")
        /\ helper' = "in"
        /\ UNCHANGED copy
     \/ /\ copy' = "none"
        /\ helper' = AfterFailedMove
        /\ UNCHANGED <<app, backup, undercut>>
  /\ UNCHANGED <<proc, st, jobs, interrupted>>

\* mv "$new" "$app".
MoveIn ==
  /\ helper = "in"
  /\ \/ /\ copy # "none"
        /\ app' = copy /\ copy' = "none"
        /\ helper' = "open"
     \/ /\ helper' = "restore"
        /\ UNCHANGED <<app, copy>>
  /\ UNCHANGED <<proc, st, jobs, backup, history>>

\* mv "$bak" "$app"; a removal that has opened the backup goes on inside it.
Restore ==
  /\ helper = "restore"
  /\ helper' = "open"
  /\ \/ /\ backup # "none"
        /\ app' \in {backup} \cup (IF proc.boot = "removing" THEN {"partial"} ELSE {})
        /\ backup' = "none"
        /\ interrupted' = (interrupted \/ ~Complete(app'))
        /\ undercut' = (undercut \/ app' # backup)
     \/ /\ interrupted' = TRUE
        /\ UNCHANGED <<app, backup, undercut>>
  /\ UNCHANGED <<proc, st, jobs, copy>>

\* open "$app": an instance that runs already is brought to the front.
Open ==
  /\ helper = "open"
  /\ helper' = "none"
  /\ IF proc.run = "off" /\ Complete(app) THEN Started ELSE UNCHANGED <<proc, st, jobs>>
  /\ UNCHANGED <<disk, history>>

Swap == Wait \/ ClearBackup \/ MoveOut \/ MoveIn \/ Restore \/ Open

-----------------------------------------------------------------------------
Next ==
  \/ CheckForUpdates \/ DownloadUpdate \/ InstallUpdate \/ Dismiss
  \/ \E j \in jobs : Drain(j) \/ Work(j)
  \/ Exit \/ UserLaunch \/ Boot \/ PowerLoss
  \/ Swap

\* Goroutines and frames are scheduled, the helper runs, and a quit under way
\* ends.  Nothing makes the user quit or launch.
Fairness ==
  /\ WF_vars(\E j \in jobs : Drain(j)) /\ WF_vars(\E j \in jobs : Work(j))
  /\ WF_vars(Exit /\ proc.run = "quitting")
  /\ WF_vars(Boot) /\ WF_vars(Swap)

Spec == Init /\ [][Next]_vars
FairSpec == Spec /\ Fairness

-----------------------------------------------------------------------------
(* Properties *)

\* Types; a flow that is past the download has a verified file staged.
TypeOK ==
  /\ proc \in [run : {"off", "up", "quitting"}, version : Release \cup {"none"},
               boot : {"due", "look", "removing", "done"}, launcher : BOOLEAN]
  /\ st \in [phase : Busy \cup {"Idle", "UpToDate", "Failed"}, manual : BOOLEAN,
             open : BOOLEAN, found : BOOLEAN, staged : BOOLEAN, blocked : BOOLEAN]
  /\ st.phase \in {"Ready", "Installing", "Restarting"} => st.found /\ st.staged
  /\ jobs \subseteq [kind : {"check", "download", "install"},
                     at : {"begin", "copying", "copied", "verified", "end"},
                     outcome : {"none", "error", "same", "newer", "blocked", "ok"}]
  /\ {app, copy, backup} \subseteq Bundle
  /\ helper \in {"none", "wait", "clear", "out", "in", "restore", "open"}
  /\ interrupted \in BOOLEAN /\ undercut \in BOOLEAN

PhaseOf == [check |-> "Checking", download |-> "Downloading", install |-> "Installing"]

\* The flow waits for exactly the goroutine that is at work: an outcome that
\* comes in any other phase is thrown away (state.go:71, 99, 124), and a phase
\* that waits for nobody never ends and cannot be checked again.
AnswerAwaited ==
  /\ Cardinality(jobs) <= 1
  /\ Running => \A p \in {"check", "download", "install"} :
       st.phase = PhaseOf[p] <=> \E j \in jobs : j.kind = p

\* Wherever the application, the helper or the machine stops, a complete and
\* verified release is in place, or none is and the backup holds one (install.go:
\* 180-206); unless an instance launched during the swap dropped the backup while
\* nothing else was in place, or the script moved the application into the rest of
\* an older backup.  Even then the verified copy is there while nothing is in place.
ReleaseRemains ==
  \/ Complete(app)
  \/ app = "none" /\ Complete(backup)
  \/ undercut /\ (app = "none" => copy = "new")

\* Once the flow has quit the application for the swap, it comes back, whichever
\* release the swap ends with; unless the swap itself is cut short: the machine
\* stops, the application takes more than a minute to exit, or the restore fails
\* or puts back what is no longer whole.
RestartComesBack ==
  (st.phase = "Restarting") ~> ((Running /\ ~proc.launcher) \/ interrupted)
=============================================================================
