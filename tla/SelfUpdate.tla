------------------------------ MODULE SelfUpdate ------------------------------
(***************************************************************************)
(* Self update (internal/selfupdate, internal/runner, internal/app): the   *)
(* loop of PushRound applies an update file by file and ends; the next     *)
(* process is whatever the files say.  Linux and macOS switch a link to a  *)
(* release and exec it, Windows stages a file that the runner installs     *)
(* between two processes.                                                  *)
(*                                                                         *)
(* A binary is named by the manifest that describes it.  Files get their   *)
(* final names by renaming, so none is ever seen half written.             *)
(***************************************************************************)
EXTENDS PushRound

CONSTANT MaxFaults   \* bound on crashes, signals and failing file operations

ASSUME FaultAssumption == MaxFaults \in Nat

VARIABLES
  os,
  running,        \* the binary of the running process
  release,        \* unix: releases/<version>/ithiltir-node
  current,        \* unix: the release the link current points to
  bin, backup,    \* windows: bin\ithiltir-node.exe and its .old
  staged, note,   \* windows: staging\ithiltir-node.exe.new, manifest.json
  step,           \* where Apply or the runner is between two file operations
  completed,      \* the updates whose Apply returned ErrRestart
  goal,           \* the release all servers agree on from some time on
  faults

unixFiles == <<release, current>>
winFiles == <<bin, backup, staged, note>>
files == <<unixFiles, winFiles>>
rest == <<os, running, completed, goal>>
allVars == <<vars, files, rest, step, faults>>

Release(v) == [version |-> v, reports |-> v]

InitNode ==
  /\ os \in {"unix", "windows"}
  /\ \E v \in Versions :
       /\ Fresh(v) /\ running = Release(v)
       /\ current = v /\ release = [w \in Versions |-> IF w = v THEN Release(v) ELSE None]
       /\ bin = Release(v)
  /\ backup = None /\ staged = None /\ note = None
  /\ step = "none" /\ completed = {running} /\ goal = None /\ faults = 0

Fault == faults < MaxFaults /\ faults' = faults + 1
Fine == UNCHANGED faults

-----------------------------------------------------------------------------
(* the report loop *)

Served == IF goal = None THEN Offers ELSE {goal}

RoundStep ==
  /\ \/ StartRound \/ SeeCancel \/ ReadResult \/ Decide
     \/ \E t \in Targets :
          (\E m \in Served : Accepted(t, m)) \/ Rejected(t) \/ Fails(t) \/ Deadline(t) \/ Report(t)
  /\ UNCHANGED <<files, rest, step>> /\ Fine

Signal == Cancel /\ Fault /\ UNCHANGED <<files, rest, step>>

-----------------------------------------------------------------------------
(* Apply *)

Update == todo.manifest

\* Apply returns without ErrRestart: the update is disabled or invalid, ...
Skip ==
  /\ step = "none" /\ Applied(FALSE)
  /\ UNCHANGED <<files, rest, step>> /\ Fine

\* ... the release is the active one (Linux looks at the path of the running binary,
\* macOS at the link: the process ends whenever the link is switched), ...
Active_Never == FALSE
Active == current = Update.version

AlreadyActive ==
  /\ os = "unix" /\ loop = "update" /\ step = "none" /\ Active
  /\ Applied(FALSE)
  /\ UNCHANGED <<files, rest, step>> /\ Fine

\* ... or the link cannot be switched.
SwitchFails ==
  /\ os = "unix" /\ step = "installed" /\ Fault
  /\ Applied(FALSE) /\ step' = "none"
  /\ UNCHANGED <<files, rest>>

\* The binary is downloaded, checked and renamed.
Installed_Not(m) == release
Installed(m) == [release EXCEPT ![m.version] = m]

Install ==
  /\ os = "unix" /\ loop = "update" /\ step = "none" /\ ~Active
  /\ release' = Installed(Update)
  /\ step' = "installed"
  /\ UNCHANGED <<vars, current, winFiles, rest>> /\ Fine

Switch ==
  /\ os = "unix" /\ step = "installed"
  /\ current' = Update.version
  /\ completed' = completed \cup {Update}
  /\ Applied(TRUE) /\ step' = "none"
  /\ UNCHANGED <<release, winFiles, os, running, goal>> /\ Fine

\* A file is removed, unless the removal fails, which the code ignores.
Removes(file, new) ==
  \/ new = None /\ Fine
  \/ file # None /\ new = file /\ Fault

Staging(from, to) ==
  /\ os = "windows" /\ loop = "update"
  /\ step = from /\ step' = to

Unlist ==
  /\ Staging("none", "unlisted")
  /\ Removes(note, note')
  /\ UNCHANGED <<vars, unixFiles, bin, backup, staged, rest>>

Clear ==
  /\ Staging("unlisted", "cleared")
  /\ Removes(staged, staged')
  /\ UNCHANGED <<vars, unixFiles, bin, backup, note, rest>>

DownloadFails ==
  /\ Staging("cleared", "none")
  /\ Applied(FALSE)
  /\ UNCHANGED <<files, rest>> /\ Fine

Place ==
  /\ Staging("cleared", "placed")
  /\ staged' = Update
  /\ UNCHANGED <<vars, unixFiles, bin, backup, note, rest>> /\ Fine

ListFails ==
  /\ Staging("placed", "none") /\ Fault
  /\ Applied(FALSE)
  /\ UNCHANGED <<files, rest>>

List ==
  /\ Staging("placed", "none")
  /\ note' = Update
  /\ completed' = completed \cup {Update}
  /\ Applied(TRUE)
  /\ UNCHANGED <<unixFiles, bin, backup, staged, os, running, goal>> /\ Fine

-----------------------------------------------------------------------------
(* the next process *)

Starts(b) ==
  /\ Reborn(b.reports) /\ running' = b
  /\ UNCHANGED <<files, os, completed, goal>> /\ Fine

\* restartForUpdate, or the service manager.
UnixStarts ==
  /\ os = "unix" /\ release[current] # None
  /\ Starts(release[current])
  /\ UNCHANGED step

Runner(from, to) ==
  /\ os = "windows" /\ loop = "ended"
  /\ step = from /\ step' = to
  /\ UNCHANGED <<vars, unixFiles, rest>>

NothingStaged ==
  /\ Runner("none", "start") /\ note = None
  /\ UNCHANGED winFiles /\ Fine

Verified == staged = note

\* The file is missing or is not what the manifest says; with a fault, either is
\* unreadable or is not removed.
CleanUp ==
  /\ Runner("none", "start") /\ note # None
  /\ \/ ~Verified /\ Fine /\ note' = None /\ staged' = None
     \/ Fault /\ note' \in {note, None} /\ staged' \in {staged, None}
  /\ UNCHANGED <<bin, backup>>

Verify ==
  /\ Runner("none", "verified") /\ note # None /\ staged # None /\ Verified
  /\ UNCHANGED winFiles /\ Fine

DropBackup ==
  /\ Runner("verified", "clear")
  /\ Removes(backup, backup')
  /\ UNCHANGED <<bin, staged, note>>

MoveOld ==
  /\ Runner("clear", "moved")
  /\ IF bin = None THEN UNCHANGED backup ELSE backup' = bin
  /\ bin' = None
  /\ UNCHANGED <<staged, note>> /\ Fine

MoveOldFails ==
  /\ Runner("clear", "start") /\ bin # None /\ Fault
  /\ UNCHANGED winFiles

MoveNew ==
  /\ Runner("moved", "placed")
  /\ bin' = staged /\ staged' = None
  /\ UNCHANGED <<backup, note>> /\ Fine

\* Then the old one is moved back, if that works.
MoveNewFails ==
  /\ Runner("moved", "start") /\ Fault
  /\ \/ UNCHANGED winFiles
     \/ bin' = backup /\ backup' = None /\ UNCHANGED <<staged, note>>

Finish ==
  /\ Runner("placed", "start")
  /\ \/ backup' = None /\ note' = None /\ Fine
     \/ backup' \in {backup, None} /\ note' \in {note, None} /\ Fault
  /\ UNCHANGED <<bin, staged>>

WindowsStarts ==
  /\ os = "windows" /\ loop = "ended" /\ step = "start"
  /\ step' = "none"
  /\ \/ bin # None /\ Starts(bin)
     \/ bin = None /\ UNCHANGED <<vars, files, rest>> /\ Fine

RunnerStep ==
  \/ NothingStaged \/ CleanUp \/ Verify \/ DropBackup \/ MoveOld \/ MoveOldFails
  \/ MoveNew \/ MoveNewFails \/ Finish

-----------------------------------------------------------------------------
(* the environment *)

\* The files stay as they are.
Crash ==
  /\ Fault /\ Die
  /\ step' = "none"
  /\ UNCHANGED <<files, rest>>

Agree ==
  /\ goal = None /\ \E v \in Versions : goal' = Release(v)
  /\ UNCHANGED <<vars, files, os, running, completed, step>> /\ Fine

-----------------------------------------------------------------------------
ApplyStep ==
  \/ Skip \/ AlreadyActive \/ SwitchFails \/ Install \/ Switch
  \/ Unlist \/ Clear \/ DownloadFails \/ Place \/ ListFails \/ List

NextNode ==
  \/ RoundStep \/ Signal \/ ApplyStep
  \/ UnixStarts \/ RunnerStep \/ WindowsStarts
  \/ Crash \/ Agree

SpecNode == InitNode /\ [][NextNode]_allVars

\* The part of it in which processes die and no file operation fails.
NextCrash == NextNode /\ (Fine \/ Crash \/ Signal)

SpecCrash == InitNode /\ [][NextCrash]_allVars

\* Rounds go on, every process that ended is started again, and a server that
\* is asked again and again answers and lets its release be downloaded.
FairNode ==
  /\ WF_allVars(RoundStep) /\ WF_allVars(ApplyStep)
  /\ WF_allVars(UnixStarts) /\ WF_allVars(RunnerStep) /\ WF_allVars(WindowsStarts)
  /\ \A t \in Targets :
       SF_allVars((\E m \in Served : Accepted(t, m)) /\ UNCHANGED <<files, rest, step>> /\ Fine)
  /\ SF_allVars(Install) /\ SF_allVars(Unlist) /\ SF_allVars(Place)

FairSpecNode == SpecNode /\ FairNode

-----------------------------------------------------------------------------
(* Properties *)

FilesOK ==
  /\ os \in {"unix", "windows"} /\ running \in Manifests
  /\ release \in [Versions -> Offers] /\ current \in Versions
  /\ bin \in Offers /\ backup \in Offers /\ staged \in Offers /\ note \in Offers
  /\ step \in {"none", "installed", "unlisted", "cleared", "placed", "verified", "clear",
               "moved", "start"}
  /\ completed \subseteq Manifests /\ goal \in Offers /\ faults \in 0..MaxFaults

TypeOKNode == TypeOK /\ FilesOK

Installing == {"unlisted", "cleared"}
Replacing == {"verified", "clear", "moved"}

\* Where the steps are taken, and what Apply and the runner rely on between them.
StepsPlaced ==
  /\ loop = "update" <=> Update # None
  /\ os = "unix" => step \in {"none", "installed"}
  /\ step = "installed" =>
       os = "unix" /\ loop = "update" /\ ~Active /\ release[Update.version] = Update
  /\ step \in Installing => loop = "update"
  /\ step \in Replacing \cup {"start"} => loop = "ended"
  /\ step \in Replacing => staged = note /\ note # None
  /\ step = "moved" => bin = None
  /\ step = "placed" => bin # None

\* What can be started was completed.
OnlyCompleted ==
  /\ running \in completed
  /\ release[current] \in completed
  /\ {bin, backup, note} \subseteq completed \cup {None}

\* The node is missing during a replacement, or after a fault in one: then the staged
\* one is there, unless there was another.
MissingIsStaged ==
  bin = None =>
    /\ os = "windows" /\ loop = "ended"
    /\ \/ staged = note /\ note # None /\ (step = "moved" \/ faults >= 1)
       \/ faults >= 2

\* The inductive invariant of the files.
IInvNode == TypeOKNode /\ StepsPlaced /\ OnlyCompleted /\ MissingIsStaged

\* The node can be started: unix never links to a release without its binary, and
\* Windows has one to start or to install unless two things went wrong (a crash
\* between the two renames, say, and then an unreadable file).
Lost ==
  IF os = "unix" THEN release[current] = None
  ELSE bin = None /\ (staged = None \/ note = None)
OneFaultLosesNothing == Lost => os = "windows" /\ faults >= 2

\* An update takes effect only when it was staged to the end: after a crash in the
\* middle the node that starts is one that ran before or was to.
StartsCompleted == running \in completed

\* The process that starts next if only processes die from here on: what the link
\* points to, or what the runner finds staged and verified, else the binary in place.
Pending == note # None /\ Verified
InForce ==
  IF os = "unix" THEN release[current] ELSE IF Pending THEN staged ELSE bin

Atomic == INSTANCE AtomicUpdate
            WITH Binaries <- Manifests, up <- loop # "ended", inForce <- InForce,
                 update <- Update

\* As long as no file operation fails an update is atomic: whenever processes die, in
\* Apply or in the runner, and however often, the next one is that of the last update
\* that was completed.
ImplementsAtomic == Atomic!Spec

\* When all servers agree on a release the node ends up reporting its version and
\* stops updating, through failing downloads, crashes and leftovers of earlier
\* updates; unless, on unix, a release under that name that reports another version
\* is the active one already, or the node is lost, which takes Windows and
\* two faults (OneFaultLosesNothing).
UpdateConverges ==
  \A v \in Versions :
    <>[](goal = Release(v)) =>
      \/ <>[](version = v /\ loop # "update")
      \/ <>[](os = "unix" /\ current = v /\ version # v)
      \/ <>[]Lost
=============================================================================
