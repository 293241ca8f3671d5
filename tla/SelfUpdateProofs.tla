--------------------------- MODULE SelfUpdateProofs --------------------------
(***************************************************************************)
(* SelfUpdate for any targets, versions and number of faults: it is the    *)
(* loop of PushRound, and what can be started was completed.               *)
(***************************************************************************)
EXTENDS SelfUpdate, PushRoundProofs

\* What ApplyStep and the next process do is part of PushRound.
LEMMA StepIsRound ==
  ASSUME FilesOK, StepsPlaced, OnlyCompleted, TypeOK, [NextNode]_allVars
  PROVE  [Next]_vars
<1>1. CASE RoundStep
  <2>1. ASSUME NEW t \in Targets, NEW m \in Served, Accepted(t, m) PROVE Next
    <3>1. m \in Manifests \cup {None}
      BY DEF Served, FilesOK, Offers
    <3> QED BY <2>1, <3>1 DEF Next, Round, Send
  <2> QED BY <1>1, <2>1 DEF RoundStep, Next, Round, Send
<1>2. CASE Signal
  BY <1>2 DEF Signal, Next, Round
<1>3. CASE ApplyStep
  <2>1. CASE Skip \/ AlreadyActive \/ SwitchFails \/ DownloadFails \/ ListFails
    <3>1. Applied(FALSE)
      BY <2>1 DEF Skip, AlreadyActive, SwitchFails, DownloadFails, ListFails
    <3> QED BY <3>1 DEF Next
  <2>2. CASE Switch \/ List
    <3>1. Applied(TRUE)
      BY <2>2 DEF Switch, List
    <3> QED BY <3>1 DEF Next
  <2>3. CASE Install \/ Unlist \/ Clear \/ Place
    BY <2>3 DEF Install, Unlist, Clear, Place
  <2> QED BY <1>3, <2>1, <2>2, <2>3 DEF ApplyStep
<1>4. ASSUME NEW b \in Manifests, Starts(b) PROVE Next
  BY <1>4 DEF Starts, Next, Manifests
<1>5. CASE UnixStarts
  <2>1. release[current] \in Manifests
    BY <1>5 DEF UnixStarts, FilesOK, Offers
  <2> QED BY <1>4, <1>5, <2>1 DEF UnixStarts
<1>6. CASE WindowsStarts
  BY <1>4, <1>6 DEF WindowsStarts, FilesOK, Offers
<1>7. CASE RunnerStep
  BY <1>7 DEF RunnerStep, Runner, NothingStaged, CleanUp, Verify, DropBackup, MoveOld,
              MoveOldFails, MoveNew, MoveNewFails, Finish
<1>8. CASE Crash
  BY <1>8 DEF Crash, Next
<1>9. CASE Agree
  BY <1>9 DEF Agree
<1>10. CASE UNCHANGED allVars
  BY <1>10 DEF allVars
<1> QED
  BY <1>1, <1>2, <1>3, <1>5, <1>6, <1>7, <1>8, <1>9, <1>10 DEF NextNode

\* The invariant of the files alone.
FilesInv == FilesOK /\ StepsPlaced /\ OnlyCompleted /\ MissingIsStaged

LEMMA InitFiles == InitNode => FilesInv
<1> SUFFICES ASSUME InitNode PROVE FilesInv
  OBVIOUS
<1>1. \A v \in Versions : Release(v) \in Manifests /\ Release(v) # None
  BY RoundAssumption DEF Release, Manifests
<1>2. FilesOK /\ OnlyCompleted
  BY <1>1, FaultAssumption DEF InitNode, FilesOK, OnlyCompleted, Offers
<1>3. StepsPlaced
  BY DEF InitNode, Fresh, NoUpdate, StepsPlaced, Update, Installing, Replacing
<1>4. MissingIsStaged
  BY <1>1 DEF InitNode, MissingIsStaged
<1> QED BY <1>2, <1>3, <1>4 DEF FilesInv

\* The loop goes on between updates: no file changes, and an update that begins has
\* a manifest.
LEMMA LoopGoesOn ==
  ASSUME TypeOK, FilesInv, RoundStep \/ Signal PROVE FilesInv'
<1>1. UNCHANGED <<files, rest, step>> /\ faults' \in 0..MaxFaults /\ faults' >= faults
  BY FaultAssumption DEF RoundStep, Signal, Fine, Fault, FilesInv, FilesOK
<1>2. loop' = "update" <=> Update' # None
  <2>1. CASE Decide
    BY <2>1 DEF Decide, FilesInv, StepsPlaced, Update
  <2>2. CASE ~Decide
    <3>1. \/ UNCHANGED <<loop, todo>>
          \/ loop \notin {"update"} /\ loop' \notin {"update"} /\ UNCHANGED todo
      BY <2>2 DEF RoundStep, Signal, Cancel, StartRound, SeeCancel, ReadResult, Accepted, Rejected,
                  Fails, Return, Deadline, Report, loopVars
    <3> QED BY <3>1 DEF FilesInv, StepsPlaced, Update
  <2> QED BY <2>1, <2>2
<1>3. /\ loop = "update" => UNCHANGED <<loop, todo>>
      /\ loop = "ended" => loop' = "ended"
  BY DEF RoundStep, Signal, Cancel, StartRound, SeeCancel, ReadResult, Decide, Accepted,
         Rejected, Fails, Return, Deadline, Report, loopVars
<1>4. FilesOK' /\ OnlyCompleted'
  BY <1>1 DEF files, unixFiles, winFiles, rest, FilesInv, FilesOK, OnlyCompleted
<1>5. StepsPlaced'
  BY <1>1, <1>2, <1>3 DEF files, unixFiles, winFiles, rest, FilesInv, StepsPlaced, Update, Active,
                          Installing, Replacing
<1>6. MissingIsStaged'
  BY <1>1, <1>3 DEF files, unixFiles, winFiles, rest, FilesInv, FilesOK, MissingIsStaged
<1> QED BY <1>4, <1>5, <1>6 DEF FilesInv

\* Apply gives up, or the node crashes: no file changes and no step is under way.
LEMMA GivesUp ==
  ASSUME FilesInv, UNCHANGED <<files, rest>>, step' = "none", loop' # "update",
         Update' = None, faults' \in {faults, faults + 1}, faults' \in 0..MaxFaults,
         step = "moved" => faults' = faults + 1, bin = None => loop' = "ended"
  PROVE  FilesInv'
<1>1. FilesOK' /\ OnlyCompleted'
  BY DEF files, unixFiles, winFiles, rest, FilesInv, FilesOK, OnlyCompleted
<1>2. StepsPlaced'
  BY DEF StepsPlaced, Installing, Replacing
<1>3. MissingIsStaged'
  BY DEF files, unixFiles, winFiles, rest, FilesInv, FilesOK, MissingIsStaged
<1> QED BY <1>1, <1>2, <1>3 DEF FilesInv

LEMMA GivingUp ==
  ASSUME FilesInv, Skip \/ AlreadyActive \/ SwitchFails \/ DownloadFails \/ ListFails \/ Crash
  PROVE  FilesInv'
<1>1. UNCHANGED <<files, rest>> /\ step' = "none"
  BY DEF Skip, AlreadyActive, SwitchFails, DownloadFails, ListFails, Crash, Staging
<1>2. loop' # "update" /\ Update' = None
  BY DEF Skip, AlreadyActive, SwitchFails, DownloadFails, ListFails, Crash, Applied, Die,
         NoUpdate, Update
<1>3. faults' \in {faults, faults + 1} /\ faults' \in 0..MaxFaults
  <2>1. Fine \/ Fault
    BY DEF Skip, AlreadyActive, SwitchFails, DownloadFails, ListFails, Crash
  <2> QED BY <2>1, FaultAssumption DEF Fine, Fault, FilesInv, FilesOK
<1>4. step = "moved" => faults' = faults + 1
  BY DEF Skip, AlreadyActive, SwitchFails, DownloadFails, ListFails, Crash, Staging, Fault
<1>5. \/ loop = "update"
      \/ loop' = "ended"
  BY DEF Skip, AlreadyActive, SwitchFails, DownloadFails, ListFails, Crash, Applied, Die
<1>6. bin = None => loop = "ended"
  BY DEF FilesInv, MissingIsStaged
<1> QED BY <1>1, <1>2, <1>3, <1>4, <1>5, <1>6, GivesUp

-----------------------------------------------------------------------------
(* unix *)

\* Only a release that is not the active one is written, and it is completed when the
\* link points to it.
LEMMA UnixSteps ==
  ASSUME TypeOK, FilesInv, Install \/ Switch \/ UnixStarts PROVE FilesInv'
<1> USE DEF FilesInv, Fine
<1>1. CASE Install
  <2>1. Update \in Manifests /\ Update.version \in Versions
    BY <1>1 DEF Install, StepsPlaced, TypeOK, Updates, Offers, Update, Manifests
  <2>2. UNCHANGED <<loop, todo, current, bin, backup, staged, note, os, running, completed, goal,
                    faults>> /\ step = "none"
    BY <1>1 DEF Install, vars, loopVars, winFiles, rest
  <2>3. /\ release' = [release EXCEPT ![Update.version] = Update] /\ step' = "installed"
        /\ Update.version # current /\ loop = "update" /\ os = "unix"
    BY <1>1 DEF Install, Installed, Active
  <2>4. FilesOK' /\ OnlyCompleted'
    BY <2>1, <2>2, <2>3 DEF FilesOK, OnlyCompleted, Offers
  <2>5. StepsPlaced'
    BY <2>1, <2>2, <2>3 DEF StepsPlaced, Update, Active, Installing, Replacing, FilesOK
  <2>6. MissingIsStaged'
    BY <2>2, <2>3 DEF MissingIsStaged
  <2> QED BY <2>4, <2>5, <2>6
<1>2. CASE Switch
  <2>1. /\ Update \in Manifests /\ Update.version \in Versions /\ loop = "update"
        /\ release[Update.version] = Update
    BY <1>2 DEF Switch, StepsPlaced, TypeOK, Updates, Offers, Update, Manifests
  <2>2. /\ UNCHANGED <<release, bin, backup, staged, note, os, running, goal, faults>>
        /\ current' = Update.version /\ completed' = completed \cup {Update}
        /\ os = "unix" /\ step' = "none"
    BY <1>2 DEF Switch, winFiles
  <2>3. loop' = "ended" /\ Update' = None
    BY <1>2 DEF Switch, Applied, Update, NoUpdate
  <2>4. FilesOK' /\ OnlyCompleted'
    BY <2>1, <2>2 DEF FilesOK, OnlyCompleted
  <2>5. StepsPlaced'
    BY <2>2, <2>3 DEF StepsPlaced, Installing, Replacing
  <2>6. MissingIsStaged'
    BY <2>1, <2>2 DEF MissingIsStaged
  <2> QED BY <2>4, <2>5, <2>6
<1>3. CASE UnixStarts
  <2>1. /\ UNCHANGED <<release, current, bin, backup, staged, note, os, completed, goal, faults,
                       step>>
        /\ running' = release[current] /\ loop = "ended" /\ os = "unix" /\ release[current] # None
    BY <1>3 DEF UnixStarts, Starts, Reborn, files, unixFiles, winFiles
  <2>2. loop' = "wait" /\ Update' = None
    BY <1>3 DEF UnixStarts, Starts, Reborn, Update, NoUpdate
  <2>3. FilesOK' /\ OnlyCompleted'
    BY <2>1 DEF FilesOK, OnlyCompleted, Offers
  <2>4. StepsPlaced' /\ MissingIsStaged'
    BY <2>1, <2>2 DEF StepsPlaced, Installing, Replacing, MissingIsStaged
  <2> QED BY <2>3, <2>4
<1> QED BY <1>1, <1>2, <1>3

-----------------------------------------------------------------------------
(* windows *)

\* Removing a file counts a fault when it fails.
LEMMA Removing ==
  ASSUME FilesOK, NEW file, NEW new, Removes(file, new)
  PROVE  new \in {file, None} /\ faults' \in 0..MaxFaults /\ faults' >= faults
BY FaultAssumption DEF Removes, Fine, Fault, FilesOK

\* Between the removal of the old manifest and the new one nothing is installed from
\* the staging directory: the node runs.
LEMMA WindowsStages ==
  ASSUME TypeOK, FilesInv, Unlist \/ Clear \/ Place \/ List PROVE FilesInv'
<1> USE DEF FilesInv
<1>1. /\ Update \in Manifests /\ loop = "update" /\ os = "windows" /\ bin # None
  BY DEF Unlist, Clear, Place, List, Staging, StepsPlaced, MissingIsStaged, TypeOK, Updates,
         Offers, Update
<1>2. UNCHANGED <<release, current, bin, backup, os, running, goal>>
  BY DEF Unlist, Clear, Place, List, vars, loopVars, unixFiles, rest
<1>3. CASE Unlist \/ Clear \/ Place
  <2>1. UNCHANGED <<loop, todo, completed>>
    BY <1>3 DEF Unlist, Clear, Place, vars, loopVars, rest
  <2>2. step' \in {"unlisted", "cleared", "placed"} /\ faults' \in 0..MaxFaults
    BY <1>3, Removing DEF Unlist, Clear, Place, Staging, Fine, FilesOK
  <2>3. note' \in {note, None} /\ staged' \in {staged, None, Update}
    BY <1>3, Removing DEF Unlist, Clear, Place
  <2> QED
    BY <1>1, <1>2, <2>1, <2>2, <2>3
       DEF FilesOK, StepsPlaced, OnlyCompleted, MissingIsStaged, Installing, Replacing, Offers,
           Update
<1>4. CASE List
  <2>1. /\ note' = Update /\ completed' = completed \cup {Update} /\ step' = "none"
        /\ UNCHANGED <<staged, faults>>
    BY <1>4 DEF List, Staging, Fine
  <2>2. loop' = "ended" /\ Update' = None
    BY <1>4 DEF List, Applied, Update, NoUpdate
  <2> QED
    BY <1>1, <1>2, <2>1, <2>2
       DEF FilesOK, StepsPlaced, OnlyCompleted, MissingIsStaged, Installing, Replacing, Offers
<1> QED BY <1>3, <1>4

\* The runner works between two processes.
LEMMA RunnerAlone ==
  ASSUME FilesInv, NEW from, NEW to, Runner(from, to)
  PROVE  /\ os = "windows" /\ loop = "ended" /\ step = from /\ step' = to
         /\ UNCHANGED <<version, loop, todo, release, current, os, running, completed, goal>>
         /\ Update = None /\ Update' = None
<1>1. os = "windows" /\ loop = "ended" /\ step = from /\ step' = to
      /\ UNCHANGED <<version, loop, todo, release, current, os, running, completed, goal>>
  BY DEF Runner, vars, loopVars, unixFiles, rest
<1> QED BY <1>1 DEF FilesInv, StepsPlaced, Update

\* The staged file is installed only while the manifest is there and describes it, and
\* one of the two or the backup is always left unless two things went wrong.
LEMMA RunnerKeeps ==
  ASSUME FilesInv, RunnerStep PROVE FilesInv'
<1> USE RunnerAlone DEF FilesInv
<1>1. CASE NothingStaged
  BY <1>1 DEF NothingStaged, winFiles, Fine, FilesOK, StepsPlaced, OnlyCompleted,
              MissingIsStaged, Installing, Replacing
<1>2. CASE CleanUp
  <2>1. /\ note' \in {note, None} /\ staged' \in {staged, None} /\ UNCHANGED <<bin, backup>>
        /\ faults' \in 0..MaxFaults /\ faults' >= faults
        /\ (Verified => faults' = faults + 1)
    BY <1>2, FaultAssumption DEF CleanUp, Fine, Fault, FilesOK
  <2>2. step = "none" /\ step' = "start"
    BY <1>2 DEF CleanUp
  <2>3. bin = None => faults' >= 2
    BY <2>1, <2>2 DEF MissingIsStaged, Verified, FilesOK
  <2>4. /\ os = "windows" /\ loop = "ended" /\ Update = None /\ Update' = None
        /\ UNCHANGED <<loop, release, current, os, running, completed, goal>>
    BY <1>2 DEF CleanUp
  <2>5. FilesOK' /\ OnlyCompleted'
    BY <2>1, <2>2, <2>4 DEF FilesOK, OnlyCompleted, Offers
  <2>6. StepsPlaced'
    BY <2>2, <2>4 DEF StepsPlaced, Installing, Replacing
  <2>7. MissingIsStaged'
    BY <2>1, <2>3, <2>4 DEF MissingIsStaged
  <2> QED BY <2>5, <2>6, <2>7
<1>3. CASE Verify
  BY <1>3 DEF Verify, Verified, winFiles, Fine, FilesOK, StepsPlaced, OnlyCompleted,
              MissingIsStaged, Installing, Replacing
<1>4. CASE DropBackup
  <2>1. backup' \in {backup, None} /\ faults' \in 0..MaxFaults /\ faults' >= faults
    BY <1>4, Removing DEF DropBackup
  <2>2. /\ os = "windows" /\ loop = "ended" /\ Update = None /\ Update' = None
        /\ UNCHANGED <<loop, release, current, bin, staged, note, os, running, completed, goal>>
        /\ step = "verified" /\ step' = "clear"
    BY <1>4 DEF DropBackup
  <2>3. FilesOK' /\ OnlyCompleted'
    BY <2>1, <2>2 DEF FilesOK, OnlyCompleted, Offers
  <2>4. StepsPlaced'
    BY <2>2 DEF StepsPlaced, Installing, Replacing
  <2>5. MissingIsStaged'
    BY <2>1, <2>2, FaultAssumption DEF MissingIsStaged, FilesOK
  <2> QED BY <2>3, <2>4, <2>5
<1>5. CASE MoveOld
  <2>1. /\ backup' \in {backup, bin} /\ bin' = None /\ UNCHANGED <<staged, note, faults>>
        /\ step = "clear" /\ step' = "moved"
    BY <1>5 DEF MoveOld, Fine
  <2>2. staged = note /\ note # None
    BY <2>1 DEF StepsPlaced, Replacing
  <2> QED
    BY <1>5, <2>1, <2>2 DEF MoveOld, FilesOK, StepsPlaced, OnlyCompleted, MissingIsStaged,
       Installing, Replacing, Offers
<1>6. CASE MoveOldFails
  <2>1. faults' \in 0..MaxFaults /\ faults' = faults + 1
    BY <1>6, FaultAssumption DEF MoveOldFails, Fault, FilesOK
  <2> QED
    BY <1>6, <2>1 DEF MoveOldFails, winFiles, FilesOK, StepsPlaced, OnlyCompleted,
       MissingIsStaged, Installing, Replacing
<1>7. CASE MoveNew
  <2>1. /\ bin' = staged /\ staged' = None /\ UNCHANGED <<backup, note, faults>>
        /\ step = "moved" /\ step' = "placed"
    BY <1>7 DEF MoveNew, Fine
  <2>2. staged = note /\ note # None
    BY <2>1 DEF StepsPlaced, Replacing
  <2> QED
    BY <1>7, <2>1, <2>2 DEF MoveNew, FilesOK, StepsPlaced, OnlyCompleted, MissingIsStaged,
       Installing, Replacing, Offers
<1>8. CASE MoveNewFails
  <2>1. /\ bin' \in {bin, backup} /\ backup' \in {backup, None} /\ UNCHANGED <<staged, note>>
        /\ faults' \in 0..MaxFaults /\ faults' = faults + 1 /\ faults' >= 1
        /\ step = "moved" /\ step' = "start"
    BY <1>8, FaultAssumption DEF MoveNewFails, winFiles, Fault, FilesOK
  <2>2. staged = note /\ note # None
    BY <2>1 DEF StepsPlaced, Replacing
  <2> QED
    BY <1>8, <2>1, <2>2 DEF MoveNewFails, FilesOK, StepsPlaced, OnlyCompleted, MissingIsStaged,
       Installing, Replacing
<1>9. CASE Finish
  <2>1. /\ backup' \in {backup, None} /\ note' \in {note, None} /\ UNCHANGED <<bin, staged>>
        /\ faults' \in 0..MaxFaults /\ faults' >= faults
    BY <1>9, FaultAssumption DEF Finish, Fine, Fault, FilesOK
  <2>2. /\ os = "windows" /\ loop = "ended" /\ Update = None /\ Update' = None
        /\ UNCHANGED <<loop, release, current, os, running, completed, goal>>
        /\ step = "placed" /\ step' = "start"
    BY <1>9 DEF Finish
  <2>3. FilesOK' /\ OnlyCompleted'
    BY <2>1, <2>2 DEF FilesOK, OnlyCompleted, Offers
  <2>4. StepsPlaced'
    BY <2>2 DEF StepsPlaced, Installing, Replacing
  <2>5. MissingIsStaged'
    BY <2>1, <2>2 DEF StepsPlaced, MissingIsStaged
  <2> QED BY <2>3, <2>4, <2>5
<1> QED
  BY <1>1, <1>2, <1>3, <1>4, <1>5, <1>6, <1>7, <1>8, <1>9 DEF RunnerStep

LEMMA WindowsStartsKeeps == ASSUME FilesInv, WindowsStarts PROVE FilesInv'
<1> USE DEF FilesInv
<1>1. /\ UNCHANGED <<release, current, bin, backup, staged, note, os, completed, goal, faults>>
      /\ os = "windows" /\ loop = "ended" /\ step = "start" /\ step' = "none"
  BY DEF WindowsStarts, Starts, files, unixFiles, winFiles, rest, Fine
<1>2. \/ bin # None /\ running' = bin /\ loop' = "wait" /\ Update' = None
      \/ bin = None /\ UNCHANGED <<running, loop, todo>>
  BY DEF WindowsStarts, Starts, Reborn, Update, NoUpdate, vars, loopVars, rest
<1>3. FilesOK' /\ OnlyCompleted'
  BY <1>1, <1>2 DEF FilesOK, OnlyCompleted, Offers
<1>4. StepsPlaced'
  BY <1>1, <1>2 DEF StepsPlaced, Installing, Replacing, Update
<1>5. MissingIsStaged'
  BY <1>1, <1>2 DEF MissingIsStaged, FilesOK
<1> QED BY <1>3, <1>4, <1>5

-----------------------------------------------------------------------------

LEMMA FilesStep ==
  ASSUME TypeOK, FilesInv, [NextNode]_allVars PROVE FilesInv'
<1>1. CASE RoundStep \/ Signal
  BY <1>1, LoopGoesOn
<1>2. CASE ApplyStep
  BY <1>2, GivingUp, UnixSteps, WindowsStages DEF ApplyStep
<1>3. CASE UnixStarts
  BY <1>3, UnixSteps
<1>4. CASE RunnerStep
  BY <1>4, RunnerKeeps
<1>5. CASE WindowsStarts
  BY <1>5, WindowsStartsKeeps
<1>6. CASE Crash
  BY <1>6, GivingUp
<1>7. CASE Agree
  <2>1. Release(goal'.version) = goal' /\ goal' \in Manifests
    BY <1>7 DEF Agree, Release, Manifests
  <2> QED
    BY <1>7, <2>1 DEF Agree, vars, loopVars, files, unixFiles, winFiles, Fine, FilesInv, FilesOK,
       StepsPlaced, OnlyCompleted, MissingIsStaged, Installing, Replacing, Update, Active, Offers
<1>8. CASE UNCHANGED allVars
  BY <1>8 DEF allVars, vars, loopVars, files, unixFiles, winFiles, rest, FilesInv, FilesOK,
     StepsPlaced, OnlyCompleted, MissingIsStaged, Installing, Replacing, Update, Active
<1> QED
  BY <1>1, <1>2, <1>3, <1>4, <1>5, <1>6, <1>7, <1>8 DEF NextNode

\* The node is the report loop: what holds of PushRound holds while it updates itself.
THEOREM IsPushRound == SpecNode => Spec /\ []FilesInv
<1>1. InitNode => Init /\ IInv /\ FilesInv
  BY InitIInv, InitFiles DEF InitNode, Init
<1>2. IInv /\ FilesInv /\ [NextNode]_allVars => [Next]_vars /\ IInv' /\ FilesInv'
  BY StepIsRound, StepIInv, FilesStep DEF IInv, FilesInv
<1> QED BY <1>1, <1>2, PTL DEF SpecNode, Spec

\* The steps of Apply and of the runner (update.go, runner_windows.go) keep what they
\* rely on.
THEOREM InductiveNode == SpecNode => []IInvNode
<1>1. IInv /\ FilesInv => IInvNode
  BY DEF IInv, FilesInv, IInvNode, TypeOKNode
<1> QED BY <1>1, IsPushRound, Inductive, PTL

\* Whatever is started was completed: no crash makes half an update take effect.
THEOREM Completed == SpecNode => []StartsCompleted
<1>1. IInvNode => StartsCompleted
  BY DEF IInvNode, OnlyCompleted, StartsCompleted
<1> QED BY <1>1, InductiveNode, PTL

\* A single fault never leaves a host without a node to start or to install.
THEOREM Startable == SpecNode => []OneFaultLosesNothing
<1>1. IInvNode => OneFaultLosesNothing
  BY RoundAssumption
     DEF IInvNode, TypeOKNode, FilesOK, OnlyCompleted, MissingIsStaged, OneFaultLosesNothing, Lost
<1> QED BY <1>1, InductiveNode, PTL

\* The agreement on updates holds through restarts and crashes.
THEOREM AgreementNode == SpecNode => UpdateIffAgreed
BY IsPushRound, Agreement, PTL

-----------------------------------------------------------------------------
(* no file operation fails *)

\* What is staged is installed before the next process starts, so nothing is staged
\* and listed while one stages; and a missing binary is staged.
Orderly ==
  os = "windows" =>
    /\ loop \in {"wait", "round"} => step = "none"
    /\ Pending => loop = "ended" /\ step \in {"none"} \cup Replacing
    /\ loop = "update" /\ step \in Installing \cup {"placed"} => note = None
    /\ loop = "update" /\ step = "placed" => staged = Update
    /\ bin = None => Pending

CrashInv == FilesInv /\ Orderly

view == <<loop # "ended", running, InForce, Update>>

\* What of the state the two above depend on.
kept == <<os, running, release, current, bin, backup, staged, note>>

LEMMA KeptInForce == ASSUME UNCHANGED kept PROVE InForce' = InForce /\ Pending' = Pending
BY DEF kept, InForce, Pending, Verified

\* Only a crash and a signal count as faults.
LEMMA NoFault == ASSUME FilesOK, Fine PROVE ~Fault
BY FaultAssumption DEF Fine, Fault, FilesOK

\* Something can be started whenever the runner is done.
LEMMA SomethingInForce == ASSUME CrashInv PROVE InForce \in Manifests
<1>1. CASE os = "unix"
  <2>1. release[current] \in completed /\ completed \subseteq Manifests
    BY DEF CrashInv, FilesInv, OnlyCompleted, FilesOK
  <2> QED BY <1>1, <2>1 DEF InForce
<1>2. CASE os = "windows" /\ Pending
  BY <1>2 DEF CrashInv, FilesInv, FilesOK, InForce, Pending, Verified, Offers
<1>3. CASE os = "windows" /\ ~Pending
  BY <1>3 DEF CrashInv, Orderly, FilesInv, FilesOK, InForce, Offers
<1> QED BY <1>1, <1>2, <1>3 DEF CrashInv, FilesInv, FilesOK

\* The loop between updates, where Orderly is about the files alone.
LEMMA RoundIsAtomic ==
  ASSUME TypeOK, CrashInv, RoundStep \/ Signal
  PROVE  Orderly' /\ [Atomic!Next]_view
<1>1. UNCHANGED kept /\ step' = step
  BY DEF RoundStep, Signal, files, unixFiles, winFiles, rest, kept
<1>2. InForce' = InForce /\ Pending' = Pending
  BY <1>1, KeptInForce
<1>3. CASE UNCHANGED <<loop, todo>>
  BY <1>1, <1>2, <1>3 DEF kept, view, CrashInv, Orderly, Update
<1>4. CASE ~UNCHANGED <<loop, todo>>
  <2>1. /\ loop \in {"wait", "round"}
        /\ \/ loop' \in {"wait", "round", "ended"} /\ Update' = Update
           \/ loop' = "update" /\ Update' \in Manifests
    <3>1. CASE Decide
      BY <3>1 DEF Decide, TypeOK, Plans, Offers, Update
    <3>2. CASE StartRound \/ SeeCancel \/ ReadResult
      BY <3>2 DEF StartRound, SeeCancel, ReadResult, Update
    <3> QED
      BY <1>4, <3>1, <3>2 DEF RoundStep, Signal, Cancel, Accepted, Rejected, Fails, Return, Deadline,
                              Report, loopVars
  <2>2. Update = None /\ (os = "windows" => step = "none" /\ ~Pending)
    BY <2>1 DEF CrashInv, FilesInv, StepsPlaced, Orderly
  <2>3. Orderly'
    BY <1>1, <1>2, <2>1, <2>2 DEF kept, CrashInv, Orderly, Installing
  <2>4. CASE loop' \in {"wait", "round"}
    <3>1. (loop # "ended") = TRUE /\ (loop # "ended")' = TRUE
      BY <2>1, <2>4
    <3>2. Update' = Update /\ running' = running
      BY <1>1, <2>1, <2>4 DEF kept
    <3> QED BY <1>2, <2>3, <3>1, <3>2 DEF view
  <2>5. CASE loop' = "update"
    <3>1. Update' \in Manifests /\ running' = running
      BY <1>1, <2>1, <2>5 DEF kept
    <3>2. Atomic!Begin(Update')
      BY <1>2, <2>1, <2>2, <2>5, <3>1 DEF Atomic!Begin
    <3> QED BY <2>3, <3>1, <3>2 DEF Atomic!Next
  <2>6. CASE loop' = "ended"
    <3>1. Update' = None /\ running' = running
      BY <1>1, <2>1, <2>2, <2>6 DEF kept
    <3>2. Atomic!End
      BY <1>2, <2>1, <2>6, <3>1 DEF Atomic!End
    <3> QED BY <2>3, <3>2 DEF Atomic!Next
  <2> QED BY <2>1, <2>3, <2>4, <2>5, <2>6
<1> QED BY <1>3, <1>4

\* Apply gives up, or the process dies: the files stay as they are, and a later process
\* is the same as if nothing had been begun.
LEMMA NothingIsAtomic ==
  ASSUME CrashInv, Skip \/ AlreadyActive \/ DownloadFails \/ Crash
  PROVE  Orderly' /\ [Atomic!Next]_view
<1>1. UNCHANGED kept /\ step' = "none" /\ Update' = None
  BY DEF Skip, AlreadyActive, DownloadFails, Crash, Staging, Applied, Die, NoUpdate, Update,
         files, unixFiles, winFiles, rest, kept
<1>2. InForce' = InForce /\ Pending' = Pending
  BY <1>1, KeptInForce
<1>3. \/ loop = "update" /\ loop' = "wait"
      \/ loop' = "ended"
  BY DEF Skip, AlreadyActive, DownloadFails, Crash, Staging, Applied, Die
<1>4. Orderly'
  BY <1>1, <1>2, <1>3 DEF kept, CrashInv, Orderly
<1>5. CASE loop = "ended"
  <2>1. Update = None /\ loop' = "ended"
    BY <1>3, <1>5 DEF CrashInv, FilesInv, StepsPlaced
  <2> QED BY <1>1, <1>2, <1>4, <1>5, <2>1 DEF kept, view
<1>6. CASE loop # "ended"
  BY <1>1, <1>2, <1>3, <1>4, <1>6 DEF kept, Atomic!Next, Atomic!GiveUp, Atomic!End
<1> QED BY <1>5, <1>6

\* Downloading and staging change files that nothing is started from.
LEMMA StagingIsAtomic ==
  ASSUME TypeOK, CrashInv, Fine, Install \/ Unlist \/ Clear \/ Place
  PROVE  Orderly' /\ UNCHANGED view
<1>1. ~Fault
  BY NoFault DEF CrashInv, FilesInv
<1>2. CASE Install
  <2>1. /\ UNCHANGED <<os, running, current, bin, backup, staged, note, loop, todo>>
        /\ os = "unix" /\ release' = [release EXCEPT ![Update.version] = Update]
        /\ Update.version # current
    BY <1>2 DEF Install, Installed, Active, vars, loopVars, winFiles, rest
  <2>2. release'[current] = release[current]
    BY <2>1 DEF CrashInv, FilesInv, FilesOK
  <2> QED BY <2>1, <2>2 DEF Orderly, view, InForce, Update
<1>3. CASE Unlist \/ Clear \/ Place
  <2>1. /\ UNCHANGED <<os, running, release, current, bin, backup, loop, todo>>
        /\ os = "windows" /\ loop = "update"
    BY <1>3 DEF Unlist, Clear, Place, Staging, vars, loopVars, unixFiles, rest
  <2>2. ~Pending /\ bin # None
    BY <2>1 DEF CrashInv, Orderly
  <2>3. /\ note' = None /\ step' \in {"unlisted", "cleared", "placed"}
        /\ step' = "placed" => staged' = Update
    BY <1>1, <1>3 DEF Unlist, Clear, Place, Staging, Removes, CrashInv, Orderly, Installing
  <2>4. ~Pending'
    BY <2>3 DEF Pending
  <2> QED BY <2>1, <2>2, <2>3, <2>4 DEF Orderly, view, InForce, Update, Installing
<1> QED BY <1>2, <1>3

\* The link is switched, or the manifest is there: the one step that decides what is
\* started, and the last one of the process.
LEMMA CommitIsAtomic ==
  ASSUME TypeOK, CrashInv, Switch \/ List PROVE Orderly' /\ [Atomic!Next]_view
<1>1. Update # None /\ Update' = None /\ loop = "update" /\ loop' = "ended" /\ running' = running
      /\ step' = "none"
  BY DEF Switch, List, Staging, Applied, NoUpdate, Update, CrashInv, FilesInv, StepsPlaced
<1>2. CASE Switch
  <2>1. /\ os = "unix" /\ os' = os /\ current' = Update.version /\ release' = release
        /\ release[Update.version] = Update
    BY <1>2 DEF Switch, CrashInv, FilesInv, StepsPlaced
  <2>2. Orderly' /\ InForce' = Update
    BY <2>1 DEF Orderly, InForce
  <2> QED BY <1>1, <2>2 DEF Atomic!Next, Atomic!Commit
<1>3. CASE List
  <2>1. /\ os = "windows" /\ os' = os /\ note' = Update /\ staged' = staged /\ bin' = bin
        /\ step = "placed"
    BY <1>3 DEF List, Staging
  <2>2. staged = Update
    BY <1>1, <2>1 DEF CrashInv, Orderly
  <2>3. Pending' /\ InForce' = Update
    BY <1>1, <2>1, <2>2 DEF Pending, Verified, InForce
  <2>4. Orderly'
    BY <1>1, <2>3 DEF Orderly
  <2> QED BY <1>1, <2>3, <2>4 DEF Atomic!Next, Atomic!Commit
<1> QED BY <1>2, <1>3

\* The runner moves the files of what is in force and no other.
LEMMA RunnerIsAtomic ==
  ASSUME CrashInv, Fine, RunnerStep PROVE Orderly' /\ UNCHANGED view
<1>1. ~Fault
  BY NoFault DEF CrashInv, FilesInv
<1>2. /\ os = "windows" /\ os' = os /\ loop = "ended" /\ loop' = loop /\ running' = running
      /\ Update = None /\ Update' = None
  BY RunnerAlone DEF CrashInv, RunnerStep, NothingStaged, CleanUp, Verify, DropBackup, MoveOld,
     MoveOldFails, MoveNew, MoveNewFails, Finish
<1>3. CASE NothingStaged \/ Verify
  BY <1>2, <1>3 DEF NothingStaged, Verify, Runner, winFiles, CrashInv, Orderly, Pending,
                    Verified, InForce, view, Replacing
<1>4. CASE CleanUp
  BY <1>1, <1>2, <1>4 DEF CleanUp, Runner, CrashInv, Orderly, Pending, Verified, InForce, view,
                          Replacing
<1>5. CASE DropBackup
  BY <1>2, <1>5 DEF DropBackup, Runner, CrashInv, Orderly, Pending, Verified, InForce, view,
                    Replacing
<1>6. CASE MoveOld
  <2>1. Pending
    BY <1>6 DEF MoveOld, Runner, CrashInv, FilesInv, StepsPlaced, Replacing, Pending, Verified
  <2> QED BY <1>2, <1>6, <2>1 DEF MoveOld, Runner, Orderly, Pending, Verified, InForce, view,
                                  Replacing
<1>7. CASE MoveNew
  <2>1. Pending
    BY <1>7 DEF MoveNew, Runner, CrashInv, FilesInv, StepsPlaced, Replacing, Pending, Verified
  <2> QED BY <1>2, <1>7, <2>1 DEF MoveNew, Runner, Orderly, Pending, Verified, InForce, view,
                                  Replacing
<1>8. CASE Finish
  BY <1>1, <1>2, <1>8 DEF Finish, Runner, CrashInv, FilesInv, StepsPlaced, Orderly, Pending,
                          Verified, InForce, view, Replacing
<1> QED
  BY <1>1, <1>3, <1>4, <1>5, <1>6, <1>7, <1>8 DEF RunnerStep, MoveOldFails, MoveNewFails

\* The next process is what is in force.
LEMMA StartIsAtomic ==
  ASSUME CrashInv, UnixStarts \/ WindowsStarts PROVE Orderly' /\ [Atomic!Next]_view
<1>1. InForce \in Manifests /\ InForce # None
  BY SomethingInForce, RoundAssumption
<1>2. CASE UnixStarts
  <2>1. /\ os = "unix" /\ loop = "ended" /\ loop' = "wait" /\ running' = release[current]
        /\ UNCHANGED <<os, release, current>> /\ Update' = None
    BY <1>2 DEF UnixStarts, Starts, Reborn, files, unixFiles, Update, NoUpdate
  <2>2. Update = None
    BY <2>1 DEF CrashInv, FilesInv, StepsPlaced
  <2> QED BY <2>1, <2>2 DEF Orderly, InForce, Atomic!Next, Atomic!Start
<1>3. CASE WindowsStarts
  <2>1. /\ os = "windows" /\ loop = "ended" /\ step = "start" /\ step' = "none"
        /\ UNCHANGED <<os, bin, staged, note>>
    BY <1>3 DEF WindowsStarts, Starts, files, winFiles, rest
  <2>2. ~Pending /\ bin # None
    BY <2>1 DEF CrashInv, Orderly, Replacing
  <2>3. running' = bin /\ loop' = "wait" /\ Update' = None
    BY <1>3, <2>2 DEF WindowsStarts, Starts, Reborn, Update, NoUpdate
  <2>4. Update = None
    BY <2>1 DEF CrashInv, FilesInv, StepsPlaced
  <2>5. ~Pending' /\ InForce' = InForce /\ InForce = bin
    BY <2>1, <2>2 DEF Pending, Verified, InForce
  <2> QED BY <2>1, <2>2, <2>3, <2>4, <2>5 DEF Orderly, Installing, Atomic!Next, Atomic!Start
<1> QED BY <1>2, <1>3

LEMMA CrashStep ==
  ASSUME TypeOK, CrashInv, [NextCrash]_allVars PROVE Orderly' /\ [Atomic!Next]_view
<1>1. CASE RoundStep \/ Signal
  BY <1>1, RoundIsAtomic
<1>2. CASE Crash
  BY <1>2, NothingIsAtomic
<1>3. CASE Fine /\ ApplyStep
  <2>1. ~Fault
    BY <1>3, NoFault DEF CrashInv, FilesInv
  <2>2. \/ Skip \/ AlreadyActive \/ DownloadFails
        \/ Install \/ Unlist \/ Clear \/ Place
        \/ Switch \/ List
    BY <1>3, <2>1 DEF ApplyStep, SwitchFails, ListFails
  <2> QED BY <1>3, <2>2, NothingIsAtomic, StagingIsAtomic, CommitIsAtomic
<1>4. CASE Fine /\ RunnerStep
  BY <1>4, RunnerIsAtomic
<1>5. CASE UnixStarts \/ WindowsStarts
  BY <1>5, StartIsAtomic
<1>6. CASE Agree \/ UNCHANGED allVars
  <2>1. UNCHANGED kept /\ UNCHANGED <<loop, todo, step>>
    BY <1>6 DEF Agree, allVars, vars, loopVars, files, unixFiles, winFiles, rest, kept
  <2>2. InForce' = InForce /\ Pending' = Pending
    BY <2>1, KeptInForce
  <2> QED BY <2>1, <2>2 DEF kept, view, CrashInv, Orderly, Update
<1> QED
  BY <1>1, <1>2, <1>3, <1>4, <1>5, <1>6 DEF NextCrash, NextNode

\* As long as no file operation fails (SwitchFails, ListFails and what the runner and
\* stageWindows cannot remove or rename) Apply and the runner together are atomic,
\* whenever and however often the processes die: the next one is that of the last
\* update whose Apply returned ErrRestart.
THEOREM Atomicity == SpecCrash => ImplementsAtomic
<1>1. InitNode => Init /\ IInv /\ CrashInv /\ Atomic!Init
  <2> SUFFICES ASSUME InitNode PROVE Init /\ IInv /\ CrashInv /\ Atomic!Init
    OBVIOUS
  <2>1. Init /\ IInv /\ FilesInv
    BY InitIInv, InitFiles DEF InitNode, Init
  <2>2. /\ note = None /\ loop = "wait" /\ step = "none" /\ Update = None
        /\ bin = running /\ release[current] = running /\ running \in Manifests
    BY DEF InitNode, Fresh, NoUpdate, Update, Release, Manifests
  <2>3. ~Pending /\ InForce = running /\ running # None
    BY <2>2, RoundAssumption DEF Pending, InForce
  <2> QED BY <2>1, <2>2, <2>3 DEF CrashInv, Orderly, Installing, Atomic!Init
<1>2. IInv /\ CrashInv /\ [NextCrash]_allVars => IInv' /\ CrashInv' /\ [Atomic!Next]_view
  <2> SUFFICES ASSUME IInv, CrashInv, [NextCrash]_allVars
               PROVE  IInv' /\ CrashInv' /\ [Atomic!Next]_view
    OBVIOUS
  <2>1. TypeOK /\ FilesInv /\ [NextNode]_allVars
    BY DEF IInv, CrashInv, NextCrash
  <2>2. IInv' /\ FilesInv'
    BY <2>1, StepIsRound, StepIInv, FilesStep DEF FilesInv
  <2> QED BY <2>1, <2>2, CrashStep DEF CrashInv
<1>3. view = <<loop # "ended", running, InForce, Update>>
  BY DEF view
<1> QED BY <1>1, <1>2, <1>3, PTL DEF SpecCrash, ImplementsAtomic, Atomic!Spec, view
=============================================================================
