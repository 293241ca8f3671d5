------------------------------ MODULE FsUsage ------------------------------
(***************************************************************************)
(* Filesystem usage (internal/collect/disk_usage.go) as the slow pass of   *)
(* the sampler reads it (storage_linux.go, storage_disk_linux.go).  statfs *)
(* on a mount that is gone may never return, so each mount is probed by a  *)
(* goroutine that its reader does not wait for longer than a timeout: from *)
(* then on the mount is stuck until that goroutine returns, and what is    *)
(* cached of it stands in.                                                 *)
(*                                                                         *)
(* The usage of a mount is a number that grows with every change of it.    *)
(***************************************************************************)
EXTENDS Naturals, FiniteSets

CONSTANTS Mounts, Workers, Main, Nothing,
          MaxUsage,      \* the usage no longer changes when a mount has that much
          MaxProbes      \* bound on the probes of a mount at a time

ASSUME UsageAssumption ==
  /\ IsFiniteSet(Mounts) /\ IsFiniteSet(Workers)
  /\ Main \notin Workers
  /\ Nothing \notin Nat \cup Mounts
  /\ MaxUsage \in Nat /\ MaxProbes \in Nat \ {0}

\* Main is the goroutine of the slow pass itself.
Readers == Workers \cup {Main}

VARIABLES
  mount,    \* what a mount does: it answers, fails or hangs, or is not there
  usage,    \* of each mount
  entry,    \* fsUsageReader.entries
  flying,   \* the probes of each mount that have not returned
  since,    \* the usage when they began
  reader,   \* what each reader is doing
  pass,     \* where collectSlow is
  jobs,     \* mounts to be handed to a worker
  rest,     \* mounts of block devices to be read again
  got,      \* what the pass has read
  listed,   \* what of it is listed as filesystems
  slow      \* the slow cache: filesystems, and the usage of storages

passVars == <<pass, jobs, rest, listed, slow>>
usageVars == <<mount, usage, entry, flying, since, reader, got, passVars>>

Usages == (0..MaxUsage) \cup {Nothing}
Probes == 1..MaxProbes
NoReading == [m \in Mounts |-> Nothing]

\* entry.probe is 0 where it is nil.
NewEntry == [cached |-> Nothing, probe |-> 0, stuck |-> FALSE]
Idle == [path |-> Nothing, at |-> "idle", probe |-> 0, cached |-> Nothing, answer |-> Nothing]

InitUsage ==
  /\ mount \in [Mounts -> {"ok", "bad"}] /\ usage = [m \in Mounts |-> 0]
  /\ entry = [m \in Mounts |-> NewEntry] /\ flying = [m \in Mounts |-> {}]
  /\ since = [m \in Mounts |-> [p \in Probes |-> Nothing]]
  /\ reader = [r \in Readers |-> Idle]
  /\ pass = "idle" /\ jobs = {} /\ rest = {}
  /\ got = NoReading /\ listed = NoReading
  /\ slow = [filesystems |-> NoReading, storages |-> NoReading]

-----------------------------------------------------------------------------
(* read, runProbe, waitProbe *)

\* r reads m.
Call(r, m) == reader' = [reader EXCEPT ![r] = [Idle EXCEPT !.path = m, !.at = "read"]]

\* r has an answer for its mount: an error is none.
Return(r, value) ==
  /\ got' = [got EXCEPT ![reader[r].path] = value]
  /\ reader' = [reader EXCEPT ![r] = Idle]

Running(e) == e.probe # 0

\* A probe that nobody waits for and that has returned is garbage.
FreeProbe(m) ==
  {p \in Probes : p \notin flying[m]
                  /\ \A r \in Readers : reader[r].path = m => reader[r].probe # p}

\* With a probe running, what is cached is returned at once.
UseCached(r) ==
  LET m == reader[r].path  e == entry[m] IN
    /\ reader[r].at = "read"
    /\ e.stuck \/ (Running(e) /\ e.cached # Nothing)
    /\ Return(r, e.cached)
    /\ UNCHANGED <<mount, usage, entry, flying, since, passVars>>

\* The probe to wait for: the one that is running, or a new one.
ProbeOf(m) ==
  IF Running(entry[m]) THEN {entry[m].probe}
  ELSE {p \in FreeProbe(m) : \A q \in FreeProbe(m) : p <= q}

\* Otherwise r waits for a probe, which it starts if there is none.
Await(r) ==
  LET m == reader[r].path  e == entry[m] IN
    /\ reader[r].at = "read" /\ ~e.stuck /\ ~(Running(e) /\ e.cached # Nothing)
    /\ \E p \in ProbeOf(m) :
         /\ entry' = [entry EXCEPT ![m].probe = p]
         /\ flying' = [flying EXCEPT ![m] = @ \cup {p}]
         /\ since' = [since EXCEPT ![m][p] = IF p \in flying[m] THEN @ ELSE usage[m]]
         /\ reader' = [reader EXCEPT ![r].at = "wait", ![r].probe = p, ![r].cached = e.cached]
    /\ UNCHANGED <<mount, usage, got, passVars>>

\* runProbe: what statfs returned goes to the entry and to those who wait.
ProbeEnds(m, p, value) ==
  /\ p \in flying[m]
  /\ flying' = [flying EXCEPT ![m] = @ \ {p}] /\ since' = [since EXCEPT ![m][p] = Nothing]
  /\ entry' = [entry EXCEPT ![m] = [cached |-> IF value = Nothing THEN @.cached ELSE value,
                                    probe |-> 0, stuck |-> FALSE]]
  /\ reader' = [r \in Readers |->
                  IF reader[r].path = m /\ reader[r].probe = p
                  THEN [reader[r] EXCEPT !.at = "done", !.answer = value]
                  ELSE reader[r]]
  /\ UNCHANGED <<mount, usage, got, passVars>>

\* statfs looks at the mount at some time before it returns.
Answers(m) ==
  /\ mount[m] = "ok"
  /\ \E p \in flying[m] : \E v \in since[m][p]..usage[m] : ProbeEnds(m, p, v)
Fails(m) == mount[m] # "ok" /\ \E p \in Probes : ProbeEnds(m, p, Nothing)

\* probe.done is closed.
Done(r) ==
  /\ reader[r].at = "done"
  /\ Return(r, reader[r].answer)
  /\ UNCHANGED <<mount, usage, entry, flying, since, passVars>>

StillMine_Unchecked(r) == TRUE
StillMine(r) == entry[reader[r].path].probe = reader[r].probe

GivenUp_Retried(r) == [entry[reader[r].path] EXCEPT !.probe = 0]
GivenUp(r) == [entry[reader[r].path] EXCEPT !.stuck = @ \/ StillMine(r)]

\* The timer, which may win against a probe that has just returned.
Timeout(r) ==
  /\ reader[r].at \in {"wait", "done"}
  /\ entry' = [entry EXCEPT ![reader[r].path] = GivenUp(r)]
  /\ Return(r, reader[r].cached)
  /\ UNCHANGED <<mount, usage, flying, since, passVars>>

-----------------------------------------------------------------------------
(* collectSlow *)

\* The ticker: the mount table lists what is mounted.
StartPass ==
  /\ pass = "idle"
  /\ pass' = "collect" /\ jobs' = {m \in Mounts : mount[m] # "gone"}
  /\ UNCHANGED <<mount, usage, entry, flying, since, reader, rest, got, listed, slow>>

TakeJob(w) ==
  /\ pass = "collect" /\ reader[w] = Idle
  /\ \E m \in jobs : jobs' = jobs \ {m} /\ Call(w, m)
  /\ UNCHANGED <<mount, usage, entry, flying, since, pass, rest, got, listed, slow>>

\* The workers are done.  lsblk, unless it fails, names the mounts of block devices:
\* those without an answer are read again.
Collected ==
  /\ pass = "collect" /\ jobs = {} /\ \A w \in Workers : reader[w] = Idle
  /\ pass' = "blocks" /\ listed' = got
  /\ rest' \in {{}, {m \in Mounts : mount[m] # "gone" /\ got[m] = Nothing}}
  /\ UNCHANGED <<mount, usage, entry, flying, since, reader, jobs, got, slow>>

\* mountUsage
ReadAgain ==
  /\ pass = "blocks" /\ reader[Main] = Idle
  /\ \E m \in rest : rest' = rest \ {m} /\ Call(Main, m)
  /\ UNCHANGED <<mount, usage, entry, flying, since, pass, jobs, got, listed, slow>>

Store ==
  /\ pass = "blocks" /\ rest = {} /\ reader[Main] = Idle
  /\ pass' = "idle"
  /\ slow' = [filesystems |-> listed, storages |-> got]
  /\ got' = NoReading /\ listed' = NoReading
  /\ UNCHANGED <<mount, usage, entry, flying, since, reader, jobs, rest>>

-----------------------------------------------------------------------------
(* the host *)

\* A mount begins or ceases to answer, or is mounted or unmounted; its usage
\* changes.
MountChanges(m) ==
  /\ mount' \in [Mounts -> {"ok", "bad", "gone"}]
  /\ \A n \in Mounts \ {m} : mount'[n] = mount[n]
  /\ UNCHANGED <<usage, entry, flying, since, reader, got, passVars>>

UsageChanges(m) ==
  /\ \A n \in Mounts : usage[n] < MaxUsage
  /\ usage' = [usage EXCEPT ![m] = @ + 1]
  /\ UNCHANGED <<mount, entry, flying, since, reader, got, passVars>>

ReadMount(r) == UseCached(r) \/ Await(r) \/ Done(r) \/ Timeout(r)
Pass == StartPass \/ (\E w \in Workers : TakeJob(w)) \/ Collected \/ ReadAgain \/ Store

NextUsage ==
  \/ (\E r \in Readers : ReadMount(r)) \/ Pass
  \/ \E m \in Mounts : Answers(m) \/ Fails(m) \/ MountChanges(m) \/ UsageChanges(m)

SpecUsage == InitUsage /\ [][NextUsage]_usageVars

\* Goroutines run, tickers and timers fire, and statfs returns where a mount
\* answers; nothing is said of one that does not.
FairUsage ==
  /\ \A r \in Readers : WF_usageVars(ReadMount(r))
  /\ WF_usageVars(Pass)
  /\ \A m \in Mounts : WF_usageVars(Answers(m))

FairSpecUsage == SpecUsage /\ FairUsage

-----------------------------------------------------------------------------
(* Properties *)

\* What is known of a mount or was: cached, read by the pass, or with a reader.
Held(m) ==
  LET here == {r \in Readers : reader[r].path = m} IN
    {entry[m].cached, got[m], listed[m]}
      \cup {reader[r].cached : r \in here} \cup {reader[r].answer : r \in here}

Displayed(m) == {slow.filesystems[m], slow.storages[m]} \ {Nothing}

\* What may be shown of a mount next.
InHand(m) == (Held(m) \cup {since[m][p] : p \in flying[m]}) \ {Nothing}

\* However long a mount hangs it costs one goroutine, so readings come in order: a
\* probe that returns late, or a reader that gave up, never holds an older one than
\* is shown.
ReadingsInOrder ==
  \A m \in Mounts :
    /\ Cardinality(flying[m]) <= 1
    /\ \A shown \in Displayed(m), v \in InHand(m) : shown <= v

\* The usage of a mount that is shown never goes back to an older one, of the mount
\* and of the storage it is on, and whether there was none in between or not.
ShownAdvances ==
  \A m \in Mounts, u \in 0..MaxUsage :
    /\ [](slow.filesystems[m] = u => [](slow.filesystems[m] \in {Nothing} \cup u..MaxUsage))
    /\ [](slow.storages[m] = u => [](slow.storages[m] \in {Nothing} \cup u..MaxUsage))

\* A mount is stuck only as long as there is a probe that will free it.
StuckIsProbed ==
  \A m \in Mounts :
    /\ entry[m].stuck => entry[m].probe # 0
    /\ entry[m].probe # 0 => flying[m] = {entry[m].probe}

\* Whatever other mounts do, and whatever it did before, a mount that answers from
\* some time on is shown with its usage.
HealthyIsShown ==
  \A m \in Mounts, u \in 0..MaxUsage :
    <>[](mount[m] = "ok" /\ usage[m] = u) => <>[](slow.filesystems[m] = u)
=============================================================================
