---------------------------- MODULE UpdaterProofs ----------------------------
(***************************************************************************)
(* Proofs about Updater: the flow waits for exactly the goroutine that is  *)
(* at work, and wherever the application, the helper or the machine stops, *)
(* a complete and verified release remains, unless the swap's backup was   *)
(* undercut.                                                               *)
(***************************************************************************)
EXTENDS Updater, FiniteSetTheorems, TLAPS

-----------------------------------------------------------------------------
(* The inductive invariant *)

\* One goroutine at a time, and none without the application; once the flow quits
\* the application nothing is under way.
OneJob ==
  /\ \A i, j \in jobs : i = j
  /\ proc.run = "off" => jobs = {}
  /\ proc.run = "quitting" => jobs = {} /\ st.phase = "Restarting"

\* Its phase is the one that waits for it.
PhaseAwaits ==
  /\ \A j \in jobs : st.phase = PhaseOf[j.kind]
  /\ Running /\ st.phase = "Checking" => \E j \in jobs : j.kind = "check"
  /\ Running /\ st.phase = "Downloading" => \E j \in jobs : j.kind = "download"
  /\ Running /\ st.phase = "Installing" => \E j \in jobs : j.kind = "install"

\* What is downloaded has been found.
DownloadIsFound == st.phase = "Downloading" => st.found

\* What each place holds while the copy is prepared, ...
Preparing ==
  \A j \in jobs :
    j.kind = "install" =>
      /\ j.at # "end" => helper = "none"
      /\ j.at \in {"copying", "copied", "verified"} => app # "none"
      /\ j.at = "verified" => copy = "new"

\* ... and while the helper swaps it in.
Swapping ==
  /\ helper \in {"wait", "clear", "out"} => app # "none" /\ copy = "new"
  /\ helper \in {"in", "restore"} => app = "none"
  /\ app = "none" => copy = "new"

IInv ==
  /\ TypeOK
  /\ OneJob
  /\ PhaseAwaits
  /\ DownloadIsFound
  /\ Preparing
  /\ Swapping
  /\ ReleaseRemains

-----------------------------------------------------------------------------
(* Types *)

Process == [run : {"off", "up", "quitting"}, version : Release \cup {"none"},
            boot : {"due", "look", "removing", "done"}, launcher : BOOLEAN]
Flow == [phase : Busy \cup {"Idle", "UpToDate", "Failed"}, manual : BOOLEAN,
         open : BOOLEAN, found : BOOLEAN, staged : BOOLEAN, blocked : BOOLEAN]
Goroutine == [kind : {"check", "download", "install"},
              at : {"begin", "copying", "copied", "verified", "end"},
              outcome : {"none", "error", "same", "newer", "blocked", "ok"}]

\* A check that starts anew, or reopens what is known, is a flow, with its goroutine.
LEMMA StartCheckKeeps ==
  ASSUME TypeOK, OneJob, PhaseAwaits, DownloadIsFound, Running, NEW manual \in BOOLEAN,
         StartCheck(manual)
  PROVE  /\ st' \in Flow /\ jobs' \subseteq Goroutine
         /\ st'.phase \in {"Ready", "Installing", "Restarting"} => st'.found /\ st'.staged
         /\ st'.phase = "Downloading" => st'.found
         /\ \/ jobs' = jobs /\ st'.phase = st.phase
            \/ jobs = {} /\ jobs' = {Job("check")} /\ st'.phase = "Checking"
<1>1. st \in Flow /\ Idle \in Flow
  BY DEF TypeOK, Flow, Idle
<1>2. CASE st.phase \in Busy
  <2>1. jobs' = jobs /\ st'.phase = st.phase
        /\ st'.found = st.found /\ st'.staged = st.staged /\ st' \in Flow
    BY <1>1, <1>2 DEF StartCheck, Flow
  <2> QED
    BY <2>1 DEF TypeOK, DownloadIsFound, Goroutine
<1>3. CASE st.phase \notin Busy
  <2>1. st' = [Idle EXCEPT !.phase = "Checking", !.manual = manual, !.open = manual]
        /\ jobs' = jobs \cup {Job("check")}
    BY <1>3 DEF StartCheck
  <2>2. st' \in Flow /\ st'.phase = "Checking"
    BY <1>1, <2>1 DEF Flow, Busy
  <2>3. jobs = {}
    BY <1>3 DEF PhaseAwaits, PhaseOf, TypeOK, Busy
  <2>4. Job("check") \in Goroutine
    BY DEF Job, Goroutine
  <2> QED
    BY <2>1, <2>2, <2>3, <2>4
<1> QED
  BY <1>2, <1>3

-----------------------------------------------------------------------------
(* The flow *)

FlowInv == TypeOK /\ OneJob /\ PhaseAwaits /\ DownloadIsFound

\* What the user starts on the main thread.
LEMMA ClickKeepsFlow ==
  ASSUME FlowInv, CheckForUpdates \/ DownloadUpdate \/ InstallUpdate \/ Dismiss \/ Boot
  PROVE  FlowInv'
<1> USE DEF FlowInv
<1>1. CASE CheckForUpdates \/ Boot
  <2>1. /\ Running /\ proc' \in Process /\ proc'.run = "up"
        /\ UNCHANGED <<app, copy, helper, interrupted>>
        /\ backup' \in {backup, "none", "partial"} /\ undercut' \in BOOLEAN
    BY <1>1 DEF CheckForUpdates, InFrames, Boot, FindBundle, FindBackup, DropBackup, AtBoot,
                BootDone, disk, history, Running, Process, TypeOK
  <2>2. \/ st' = st /\ jobs' = jobs
        \/ StartCheck(TRUE) \/ StartCheck(FALSE)
    BY <1>1 DEF CheckForUpdates, Boot, FindBundle, FindBackup, DropBackup, AtBoot, BootDone
  <2>3. /\ st' \in Flow /\ jobs' \subseteq Goroutine
        /\ st'.phase \in {"Ready", "Installing", "Restarting"} => st'.found /\ st'.staged
        /\ st'.phase = "Downloading" => st'.found
        /\ \/ jobs' = jobs /\ st'.phase = st.phase
           \/ jobs = {} /\ jobs' = {Job("check")} /\ st'.phase = "Checking"
    BY <2>1, <2>2, StartCheckKeeps DEF TypeOK, DownloadIsFound, Flow, Goroutine
  <2>4. TypeOK'
    BY <2>1, <2>3 DEF TypeOK, Flow, Goroutine, Process, Bundle
  <2>5. OneJob' /\ DownloadIsFound'
    BY <2>1, <2>3 DEF OneJob, DownloadIsFound, Running
  <2>6. PhaseAwaits'
    <3>1. CASE jobs' = jobs /\ st'.phase = st.phase
      BY <2>1, <3>1 DEF PhaseAwaits, Running
    <3>2. CASE jobs' = {Job("check")} /\ st'.phase = "Checking"
      <4>1. Job("check").kind = "check" /\ PhaseOf["check"] = "Checking"
        BY DEF Job, PhaseOf
      <4> QED
        BY <3>2, <4>1 DEF PhaseAwaits
    <3> QED
      BY <2>3, <3>1, <3>2
  <2> QED
    BY <2>4, <2>5, <2>6
<1>2. CASE DownloadUpdate
  <2>1. jobs = {} /\ jobs' = {Job("download")} /\ st' \in Flow
        /\ st'.phase = "Downloading" /\ st'.found /\ Running
    BY <1>2 DEF DownloadUpdate, InFrames, PhaseAwaits, PhaseOf, TypeOK, Flow, Busy
  <2>2. Job("download") \in Goroutine /\ Job("download").kind = "download"
    BY DEF Job, Goroutine
  <2>3. TypeOK'
    BY <1>2, <2>1, <2>2 DEF DownloadUpdate, TypeOK, Flow, Goroutine, disk, history
  <2> QED
    BY <1>2, <2>1, <2>2, <2>3
       DEF DownloadUpdate, OneJob, PhaseAwaits, DownloadIsFound, Running, PhaseOf
<1>3. CASE InstallUpdate
  <2>1. jobs = {} /\ jobs' = {Job("install")} /\ st' \in Flow
        /\ st'.phase = "Installing" /\ st'.found /\ st'.staged /\ Running
    <3>1. st \in Flow /\ Running /\ st.phase = "Ready" /\ st.staged /\ st.found
          /\ st' = [st EXCEPT !.phase = "Installing", !.open = TRUE]
          /\ jobs' = jobs \cup {Job("install")}
      BY <1>3 DEF InstallUpdate, InFrames, TypeOK, Flow
    <3>2. jobs = {}
      BY <3>1 DEF PhaseAwaits, PhaseOf, TypeOK
    <3> QED
      BY <3>1, <3>2 DEF Flow, Busy
  <2>2. Job("install") \in Goroutine /\ Job("install").kind = "install"
    BY DEF Job, Goroutine
  <2>3. TypeOK'
    BY <1>3, <2>1, <2>2 DEF InstallUpdate, TypeOK, Flow, Goroutine, disk, history
  <2> QED
    BY <1>3, <2>1, <2>2, <2>3
       DEF InstallUpdate, OneJob, PhaseAwaits, DownloadIsFound, Running, PhaseOf
<1>4. CASE Dismiss
  <2>1. st' \in Flow /\ st'.phase = st.phase /\ st'.found = st.found /\ st'.staged = st.staged
    BY <1>4 DEF Dismiss, TypeOK, Flow
  <2>2. TypeOK'
    BY <1>4, <2>1 DEF Dismiss, TypeOK, Flow, disk, history
  <2> QED
    BY <1>4, <2>1, <2>2 DEF Dismiss, OneJob, PhaseAwaits, DownloadIsFound, Running
<1> QED
  BY <1>1, <1>2, <1>3, <1>4

\* A frame drains the one outcome there is, in the phase that waits for it.
LEMMA DrainKeepsFlow ==
  ASSUME FlowInv, NEW j \in jobs, Drain(j)
  PROVE  FlowInv'
<1> USE DEF FlowInv
<1>1. /\ Running /\ j \in Goroutine /\ jobs' = {} /\ st.phase = PhaseOf[j.kind]
      /\ st \in Flow /\ proc \in Process
  BY DEF Drain, InFrames, OneJob, PhaseAwaits, TypeOK, Goroutine, Flow, Process
<1>2. /\ st' \in Flow /\ st'.phase \in {"Failed", "UpToDate", "Available", "Ready", "Restarting"}
      /\ st'.phase \in {"Ready", "Installing", "Restarting"} => st'.found /\ st'.staged
  <2>1. CASE j.kind = "check"
    <3>1. st.phase = "Checking" /\ st' = CheckDone(j.outcome)
      BY <1>1, <2>1 DEF Drain, PhaseOf
    <3> QED
      BY <1>1, <3>1 DEF CheckDone, Flow, Busy
  <2>2. CASE j.kind = "download"
    <3>1. st.phase = "Downloading" /\ st' = DownloadDone(j.outcome) /\ st.found
      BY <1>1, <2>2 DEF Drain, PhaseOf, DownloadIsFound
    <3> QED
      BY <1>1, <3>1 DEF DownloadDone, Flow, Busy
  <2>3. CASE j.kind = "install"
    <3>1. st.phase = "Installing" /\ st' = InstallDone(j.outcome) /\ st.found /\ st.staged
      BY <1>1, <2>3 DEF Drain, PhaseOf, TypeOK
    <3> QED
      BY <1>1, <3>1 DEF InstallDone, Flow, Busy
  <2> QED
    BY <1>1, <2>1, <2>2, <2>3 DEF Goroutine
<1>3. /\ proc' \in Process
      /\ proc'.run = IF st'.phase = "Restarting" THEN "quitting" ELSE "up"
  BY <1>1 DEF Drain, Process, Running
<1>4. TypeOK'
  BY <1>1, <1>2, <1>3 DEF Drain, TypeOK, Flow, Goroutine, Process, disk, history
<1>5. OneJob' /\ PhaseAwaits' /\ DownloadIsFound'
  BY <1>1, <1>2, <1>3 DEF OneJob, PhaseAwaits, DownloadIsFound
<1> QED
  BY <1>4, <1>5

\* The goroutine goes on, or ends.
LEMMA WorkMoves ==
  ASSUME FlowInv, NEW j \in jobs, Work(j)
  PROVE  /\ j \in Goroutine /\ jobs = {j}
         /\ \E new \in Goroutine : jobs' = {new} /\ new.kind = j.kind
         /\ st' = st /\ proc'.run = proc.run /\ proc' \in Process
         /\ app' = app /\ backup' = backup /\ interrupted' = interrupted
         /\ undercut' \in {undercut, undercut /\ ~Complete(app)}
         /\ copy' \in {copy, "none", "partial", "new", "bad"} /\ helper' \in {helper, "wait"}
<1> USE DEF FlowInv
<1>1. j \in Goroutine /\ jobs = {j} /\ proc \in Process
  BY DEF OneJob, TypeOK, Goroutine, Process
<1>2. \A at \in {"begin", "copying", "copied", "verified", "end"} :
      \A o \in {"none", "error", "same", "newer", "blocked", "ok"} :
        /\ [j EXCEPT !.at = at] \in Goroutine
        /\ [j EXCEPT !.at = at].kind = j.kind
        /\ [j EXCEPT !.at = at, !.outcome = o] \in Goroutine
        /\ [j EXCEPT !.at = at, !.outcome = o].kind = j.kind
  BY <1>1 DEF Goroutine
<1>3. \A new : Becomes(j, new) => jobs' = {new}
  BY <1>1 DEF Becomes
<1>4. \E new \in Goroutine : jobs' = {new} /\ new.kind = j.kind
  <2>1. CASE LookUp(j)
    BY <1>2, <1>3, <2>1 DEF LookUp, Ends
  <2>2. CASE Download(j)
    BY <1>2, <1>3, <2>2 DEF Download, Ends
  <2>3. CASE BeginCopy(j)
    BY <1>2, <1>3, <2>3 DEF BeginCopy, Ends
  <2>4. CASE EndCopy(j)
    BY <1>2, <1>3, <2>4 DEF EndCopy, Ends
  <2>5. CASE Verify(j)
    BY <1>2, <1>3, <2>5 DEF Verify, Ends
  <2>6. CASE Launch(j)
    BY <1>2, <1>3, <2>6 DEF Launch, Ends
  <2> QED
    BY <2>1, <2>2, <2>3, <2>4, <2>5, <2>6 DEF Work
<1>5. /\ st' = st /\ proc'.run = proc.run /\ proc' \in Process
      /\ app' = app /\ backup' = backup /\ interrupted' = interrupted
      /\ undercut' \in {undercut, undercut /\ ~Complete(app)}
      /\ copy' \in {copy, "none", "partial", "new", "bad"} /\ helper' \in {helper, "wait"}
  BY <1>1 DEF Work, LookUp, Download, BeginCopy, EndCopy, Verify, Launch, disk, history,
              Process
<1> QED
  BY <1>1, <1>4, <1>5

\* So the phase still waits for it.
LEMMA WorkKeepsFlow ==
  ASSUME FlowInv, NEW j \in jobs, Work(j)
  PROVE  FlowInv'
<1> USE DEF FlowInv
<1>1. PICK new \in Goroutine : jobs' = {new} /\ new.kind = j.kind
  BY WorkMoves
<1>2. /\ jobs = {j} /\ st' = st /\ proc'.run = proc.run /\ proc' \in Process
      /\ app' = app /\ backup' = backup /\ interrupted' = interrupted
      /\ undercut' \in {undercut, undercut /\ ~Complete(app)}
      /\ copy' \in {copy, "none", "partial", "new", "bad"} /\ helper' \in {helper, "wait"}
  BY WorkMoves
<1>3. undercut' \in BOOLEAN
  BY <1>2 DEF TypeOK
<1>4. TypeOK'
  BY <1>1, <1>2, <1>3 DEF TypeOK, Goroutine, Process, Bundle, Release
<1>5. OneJob' /\ PhaseAwaits' /\ DownloadIsFound'
  BY <1>1, <1>2 DEF OneJob, PhaseAwaits, DownloadIsFound, Running
<1> QED
  BY <1>4, <1>5

\* The application comes and goes with all it knew.
LEMMA LifeKeepsFlow ==
  ASSUME FlowInv, Exit \/ UserLaunch \/ PowerLoss \/ Swap
  PROVE  FlowInv'
<1> USE DEF FlowInv
<1>1. {app', copy', backup'} \subseteq Bundle
      /\ helper' \in {"none", "wait", "clear", "out", "in", "restore", "open"}
      /\ interrupted' \in BOOLEAN /\ undercut' \in BOOLEAN
  BY DEF Exit, UserLaunch, PowerLoss, Swap, Wait, ClearBackup, MoveOut, AfterFailedMove,
         MoveIn, Restore, Open, TypeOK, Bundle, disk, history
<1>2. \/ Gone
      \/ Started /\ Complete(app)
      \/ UNCHANGED <<proc, st, jobs>>
  BY DEF Exit, UserLaunch, PowerLoss, Swap, Wait, ClearBackup, MoveOut, MoveIn, Restore, Open
<1>3. CASE Gone \/ (Started /\ Complete(app))
  <2>1. /\ proc' \in Process /\ proc'.run \in {"off", "up"} /\ st' = Idle /\ jobs' = {}
    <3>1. Off \in Process /\ Off.run = "off"
      BY DEF Off, Process
    <3>2. Complete(app) => Up(app) \in Process /\ Up(app).run = "up"
      BY DEF Complete, Up, Process
    <3> QED
      BY <1>3, <3>1, <3>2 DEF Gone, Started
  <2>2. Idle \in Flow /\ Idle.phase = "Idle"
    BY DEF Idle, Flow, Busy
  <2>3. TypeOK'
    BY <1>1, <2>1, <2>2 DEF TypeOK, Process, Flow
  <2> QED
    BY <2>1, <2>2, <2>3 DEF OneJob, PhaseAwaits, DownloadIsFound
<1>4. CASE UNCHANGED <<proc, st, jobs>>
  <2>1. TypeOK'
    BY <1>1, <1>4 DEF TypeOK
  <2> QED
    BY <1>4, <2>1 DEF OneJob, PhaseAwaits, DownloadIsFound, Running
<1> QED
  BY <1>2, <1>3, <1>4

-----------------------------------------------------------------------------
(* What is on disk *)

DiskInv == Preparing /\ Swapping /\ ReleaseRemains

\* What an instance does when it starts may undercut the swap; no click touches the
\* disk.
LEMMA MainKeepsDisk ==
  ASSUME IInv,
         \/ CheckForUpdates \/ DownloadUpdate \/ InstallUpdate \/ Dismiss \/ Boot
         \/ Exit \/ UserLaunch \/ \E j \in jobs : Drain(j)
  PROVE  DiskInv'
<1>1. /\ UNCHANGED <<app, copy, helper>>
      /\ undercut' = (undercut \/ (app = "none" /\ backup' # backup))
  BY DEF IInv, TypeOK, CheckForUpdates, DownloadUpdate, InstallUpdate, Dismiss, Boot,
         FindBundle, FindBackup, DropBackup, Exit, UserLaunch, Drain, disk, history
<1>2. \A j \in jobs' : j \in jobs \/ (j.at = "begin" /\ (j.kind = "install" => helper = "none"))
  <2>1. CASE CheckForUpdates \/ Boot
    BY <2>1 DEF CheckForUpdates, Boot, FindBundle, FindBackup, DropBackup, AtBoot, BootDone,
                StartCheck, Job
  <2>2. CASE DownloadUpdate
    BY <2>2 DEF DownloadUpdate, Job
  <2>3. CASE InstallUpdate
    BY <2>3 DEF InstallUpdate, Job
  <2>4. CASE Dismiss \/ Exit \/ UserLaunch \/ \E j \in jobs : Drain(j)
    BY <2>4 DEF Dismiss, Exit, Gone, UserLaunch, Started, Drain
  <2> QED
    BY <2>1, <2>2, <2>3, <2>4
<1>3. Preparing'
  BY <1>1, <1>2 DEF IInv, Preparing, Complete
<1>4. Swapping'
  BY <1>1 DEF IInv, Swapping, Complete, Release
<1>5. ReleaseRemains'
  BY <1>1 DEF IInv, Swapping, ReleaseRemains, Complete, Release
<1> QED
  BY <1>3, <1>4, <1>5 DEF DiskInv

\* A goroutine prepares the copy beside an application, while no helper is about,
\* and launches the helper with a copy that is verified.
LEMMA WorkKeepsDisk ==
  ASSUME IInv, NEW j \in jobs, Work(j)
  PROVE  DiskInv'
<1> USE DEF IInv
<1>1. /\ FlowInv /\ jobs = {j} /\ j \in Goroutine /\ app' = app /\ backup' = backup
      /\ undercut' \in {undercut, undercut /\ ~Complete(app)}
  BY WorkMoves DEF FlowInv
<1>2. app = "none" => copy' = copy
  <2>1. j.at \in {"copying", "copied"} /\ j.kind = "install" => app # "none"
    BY DEF Preparing
  <2> QED
    BY <2>1 DEF Work, LookUp, Download, BeginCopy, EndCopy, Verify, Launch, disk
<1>3. ReleaseRemains'
  BY <1>1, <1>2 DEF ReleaseRemains, Swapping, Complete
<1>4. ASSUME NEW x, Becomes(j, [j EXCEPT !.at = x])
      PROVE  \A i \in jobs' : i.at = x
  <2>1. jobs' = {[j EXCEPT !.at = x]}
    BY <1>1, <1>4, Zenon DEF Becomes
  <2>2. [j EXCEPT !.at = x].at = x
    BY <1>1 DEF Goroutine
  <2> QED
    BY <2>1, <2>2, Zenon
<1>5. ASSUME NEW o, Ends(j, o)
      PROVE  \A i \in jobs' : i.at = "end"
  <2>1. jobs' = {[j EXCEPT !.at = "end", !.outcome = o]}
    BY <1>1, <1>5, Zenon DEF Ends, Becomes
  <2>2. [j EXCEPT !.at = "end", !.outcome = o].at = "end"
    BY <1>1 DEF Goroutine
  <2> QED
    BY <2>1, <2>2, Zenon
<1>6. CASE LookUp(j) \/ Download(j)
  <2>1. helper' = helper /\ copy' = copy /\ \A i \in jobs' : i.at = "end"
    BY <1>5, <1>6 DEF LookUp, Download, disk
  <2> QED
    BY <1>1, <1>2, <1>3, <2>1 DEF Preparing, Swapping, DiskInv, Complete
<1>7. CASE BeginCopy(j) \/ EndCopy(j) \/ Verify(j)
  <2>1. helper = "none" /\ helper' = "none"
    BY <1>7 DEF BeginCopy, EndCopy, Verify, Preparing
  <2>2. \A i \in jobs' : \/ i.at = "end"
                         \/ app # "none" /\ (i.at = "verified" => copy' = "new")
    <3>1. CASE BeginCopy(j)
      <4>1. CASE app # "none" /\ Becomes(j, [j EXCEPT !.at = "copying"])
        BY <1>4, <4>1
      <4> QED
        BY <1>5, <3>1, <4>1 DEF BeginCopy
    <3>2. CASE EndCopy(j)
      <4>1. CASE Becomes(j, [j EXCEPT !.at = "copied"])
        BY <1>4, <3>2, <4>1 DEF EndCopy, Preparing
      <4> QED
        BY <1>5, <3>2, <4>1 DEF EndCopy
    <3>3. CASE Verify(j)
      <4>1. CASE Becomes(j, [j EXCEPT !.at = "verified"]) /\ Accepted /\ copy' = copy
        <5>1. app # "none" /\ copy' = "new"
          BY <3>3, <4>1 DEF Verify, Accepted, Preparing
        <5> QED
          BY <5>1
      <4> QED
        BY <1>5, <3>3, <4>1 DEF Verify
    <3> QED
      BY <1>7, <3>1, <3>2, <3>3
  <2> QED
    BY <1>1, <1>2, <1>3, <2>1, <2>2 DEF Preparing, Swapping, DiskInv, Complete
<1>8. CASE Launch(j)
  <2>1. app # "none" /\ copy = "new" /\ helper = "none"
    BY <1>8 DEF Launch, Preparing
  <2>2. copy' = copy /\ helper' \in {"none", "wait"} /\ \A i \in jobs' : i.at = "end"
    BY <1>5, <1>8, <2>1 DEF Launch, disk
  <2> QED
    BY <1>1, <1>2, <1>3, <2>1, <2>2 DEF Preparing, Swapping, DiskInv, Complete
<1> QED
  BY <1>6, <1>7, <1>8 DEF Work

\* No job prepares a copy while a helper is about.
LEMMA HelperAlone ==
  ASSUME IInv, helper # "none"
  PROVE  \A j \in jobs : j.kind = "install" => j.at = "end"
  BY DEF IInv, Preparing

\* The helper swaps the bundles, and the machine may stop anywhere in between.
LEMMA SwapKeepsDisk ==
  ASSUME IInv, Swap \/ PowerLoss
  PROVE  DiskInv'
<1> USE DEF IInv
<1>1. \A j \in jobs' : j.kind = "install" => j.at = "end"
  BY HelperAlone DEF Swap, Wait, ClearBackup, MoveOut, MoveIn, Restore, Open, PowerLoss, Gone,
                     Started
<1>2. Preparing'
  BY <1>1 DEF Preparing
<1>3. Swapping' /\ ReleaseRemains'
  <2>1. CASE Wait
    BY <2>1 DEF Wait, history, Swapping, ReleaseRemains, Complete
  <2>2. CASE ClearBackup
    BY <2>2 DEF ClearBackup, history, Swapping, ReleaseRemains, Complete
  <2>3. CASE MoveOut
    BY <2>3 DEF MoveOut, AfterFailedMove, Swapping, ReleaseRemains, Complete
  <2>4. CASE MoveIn
    BY <2>4 DEF MoveIn, history, Swapping, ReleaseRemains, Complete, Release
  <2>5. CASE Restore
    BY <2>5 DEF Restore, Swapping, ReleaseRemains, Complete, Release
  <2>6. CASE Open
    BY <2>6 DEF Open, Swapping, ReleaseRemains, Complete, disk, history
  <2>7. CASE PowerLoss
    BY <2>7 DEF PowerLoss, Swapping, ReleaseRemains, Complete, disk
  <2> QED
    BY <2>1, <2>2, <2>3, <2>4, <2>5, <2>6, <2>7 DEF Swap
<1> QED
  BY <1>2, <1>3 DEF DiskInv

-----------------------------------------------------------------------------
(* The theorems *)

\* An old release is in place, and nothing is under way.
LEMMA InitIInv == Init => IInv
<1> SUFFICES ASSUME Init PROVE IInv
  OBVIOUS
<1>1. TypeOK
  BY DEF Init, TypeOK, Up, Idle, Release, Bundle, Busy
<1> QED
  BY <1>1 DEF Init, IInv, OneJob, PhaseAwaits, DownloadIsFound, Preparing, Swapping,
              ReleaseRemains, Up, Idle, Running, Complete, Release

\* Every step keeps the flow and the disk in order.
LEMMA Inductive == IInv /\ [Next]_vars => IInv'
<1> SUFFICES ASSUME IInv, [Next]_vars PROVE IInv'
  OBVIOUS
<1>1. FlowInv
  BY DEF IInv, FlowInv
<1>2. CASE Next
  <2>1. FlowInv'
    BY <1>1, <1>2, ClickKeepsFlow, DrainKeepsFlow, WorkKeepsFlow, LifeKeepsFlow DEF Next
  <2>2. DiskInv'
    BY <1>2, MainKeepsDisk, WorkKeepsDisk, SwapKeepsDisk DEF Next
  <2> QED
    BY <2>1, <2>2 DEF FlowInv, DiskInv, IInv
<1>3. CASE UNCHANGED vars
  BY <1>3 DEF vars, disk, history, IInv, TypeOK, OneJob, PhaseAwaits, DownloadIsFound, Preparing,
              Swapping, ReleaseRemains, Running, Complete
<1> QED
  BY <1>2, <1>3

\* The inductive invariant holds throughout.
THEOREM Invariant == Spec => []IInv
  BY InitIInv, Inductive, PTL DEF Spec

\* The updater's variables keep their types, and a flow past the download has a
\* verified file (updater/state.go).
THEOREM TypeCorrect == Spec => []TypeOK
<1>1. IInv => TypeOK
  BY DEF IInv
<1> QED
  BY <1>1, Invariant, PTL

\* The flow waits for exactly the goroutine that is at work: no outcome is thrown
\* away and no phase waits for nobody (StartCheck to InstallDone).
THEOREM AnswersAwaited == Spec => []AnswerAwaited
<1>1. IInv => AnswerAwaited
  <2> SUFFICES ASSUME IInv PROVE AnswerAwaited
    OBVIOUS
  <2>1. Cardinality(jobs) <= 1
    <3>1. CASE jobs = {}
      BY <3>1, FS_EmptySet
    <3>2. ASSUME NEW j \in jobs PROVE Cardinality(jobs) <= 1
      <4>1. jobs = {j}
        BY DEF IInv, OneJob
      <4> QED
        BY <4>1, FS_Singleton
    <3> QED
      BY <3>1, <3>2
  <2>2. ASSUME Running, NEW p \in {"check", "download", "install"}
        PROVE  st.phase = PhaseOf[p] <=> \E j \in jobs : j.kind = p
    BY <2>2 DEF IInv, PhaseAwaits, PhaseOf
  <2> QED
    BY <2>1, <2>2 DEF AnswerAwaited
<1> QED
  BY <1>1, Invariant, PTL

\* Wherever the application, the helper or the machine stops, a complete and
\* verified release is in place, or nothing is and the backup holds one; a backup that
\* FinishInstall or the script's own failed removal undercut leaves at least the
\* verified copy while nothing is in place (install.go: prepareInstall, the swap
\* script and FinishInstall, step by step beside each other).
THEOREM ReleaseSafe == Spec => []ReleaseRemains
<1>1. IInv => ReleaseRemains
  BY DEF IInv
<1> QED
  BY <1>1, Invariant, PTL
=============================================================================
