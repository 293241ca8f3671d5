----------------------------- MODULE HostProofs -----------------------------
(***************************************************************************)
(* Proofs about StaticSync with a single target: there a fingerprint that  *)
(* equals the current snapshot means that the server has it.  HostStatic,  *)
(* where snapshots come from a sampler that many ask, implements it.  Then *)
(* proofs about FsUsage, for any mounts and readers, and Sampling, for any *)
(* devices.                                                                *)
(***************************************************************************)
EXTENDS HostStatic, FsUsage, Sampling, FiniteSetTheorems, TLAPS

\* The parts of TypeOK that say of a variable that it is Boolean; provers treat
\* them apart from the rest.
Flags == fpSet \in BOOLEAN /\ failed \in [Targets -> BOOLEAN]

Places ==
  /\ static \in Snapshots \cup {None} /\ fp \in Snapshots \cup {None}
  /\ at \in [Targets -> {"start", "idle", "retry", "read", "send", "record"}]
  /\ snap \in [Targets -> Snapshots \cup {None}]
  /\ stored \in [Targets -> Snapshots \cup {None}]
  /\ wake \in [Targets -> 0..1]
  /\ watcher \in {"idle", "compare", "wake"} /\ seen \in Snapshots \cup {None}

\* Type correctness of the initial states ...
LEMMA TypeInit == Init => TypeOK
<1> SUFFICES ASSUME Init PROVE Flags /\ Places
  BY DEF TypeOK, Flags, Places
<1>1. fpSet \in BOOLEAN
  BY DEF Init
<1>2. failed \in [Targets -> BOOLEAN]
  BY DEF Init
<1>3. Places
  BY DEF Init, Places
<1> QED BY <1>1, <1>2, <1>3 DEF Flags

\* ... of a step of the goroutine of a target ...
LEMMA TypeSync ==
  ASSUME NEW t \in Targets, Sync(t), Flags, Places PROVE Flags' /\ Places'
<1> USE DEF targetVars, Places
<1>1. UNCHANGED failed
  BY DEF Sync, Startup, Woken, RetryTimer, Read, SendOk, SendFails, Record
<1>2. UNCHANGED fpSet \/ fpSet' = TRUE
  BY DEF Sync, Startup, Woken, RetryTimer, Read, SendOk, SendFails, Record
<1>3. Flags'
  BY <1>1, <1>2 DEF Flags
<1> SUFFICES Places'
  BY <1>3
<1>4. CASE Startup(t) \/ RetryTimer(t)
  BY <1>4 DEF Startup, RetryTimer
<1>5. CASE Woken(t)
  BY <1>5 DEF Woken
<1>6. CASE Read(t)
  BY <1>6 DEF Read
<1>7. CASE SendOk(t)
  BY <1>7 DEF SendOk
<1>8. CASE SendFails(t)
  BY <1>8 DEF SendFails, RetryAfterError
<1>9. CASE Record(t)
  BY <1>9 DEF Record, Recorded
<1> QED BY <1>4, <1>5, <1>6, <1>7, <1>8, <1>9 DEF Sync

\* ... and of every step.
LEMMA TypeStep == TypeOK /\ [Next]_vars => TypeOK'
<1> SUFFICES ASSUME Flags, Places, [Next]_vars PROVE Flags' /\ Places'
  BY DEF TypeOK, Flags, Places
<1> USE DEF targetVars
<1>1. ASSUME NEW t \in Targets, MetricsFail(t) PROVE Flags' /\ Places'
  <2>1. failed' \in [Targets -> BOOLEAN]
    BY <1>1 DEF MetricsFail, Flags
  <2>2. Places' /\ UNCHANGED fpSet
    BY <1>1 DEF MetricsFail, Places
  <2> QED BY <2>1, <2>2 DEF Flags
<1>2. ASSUME NEW t \in Targets, Recover(t) PROVE Flags' /\ Places'
  <2>1. failed' \in [Targets -> BOOLEAN]
    BY <1>2 DEF Recover, Flags
  <2>2. Places' /\ UNCHANGED fpSet
    BY <1>2 DEF Recover, Places, Signal
  <2> QED BY <2>1, <2>2 DEF Flags
<1>3. CASE Look \/ Compare
  <2>1. UNCHANGED failed /\ (UNCHANGED fpSet \/ fpSet' = TRUE)
    BY <1>3 DEF Look, Compare
  <2>2. Places'
    BY <1>3 DEF Look, Compare, Places
  <2> QED BY <2>1, <2>2 DEF Flags
<1>4. CASE WakeAll \/ Change
  <2>1. UNCHANGED <<failed, fpSet>>
    BY <1>4 DEF WakeAll, Change
  <2>2. Places'
    BY <1>4 DEF WakeAll, Change, Places, Signal
  <2> QED BY <2>1, <2>2 DEF Flags
<1>5. CASE UNCHANGED vars
  BY <1>5 DEF vars, Flags, Places
<1> QED BY <1>1, <1>2, <1>3, <1>4, <1>5, TypeSync DEF Next

\* Type correctness: in particular a wake-up channel holds one wake-up at most.
THEOREM TypeCorrect == Spec => []TypeOK
BY TypeInit, TypeStep, PTL DEF Spec

\* With one target nobody else records a fingerprint.
LEMMA RecordedStep ==
  ASSUME NEW u, Targets = {u}, TypeOK, RecordedIsStored, [Next]_vars
  PROVE  RecordedIsStored'
<1> USE DEF TypeOK, RecordedIsStored, targetVars
<1>1. CASE Sync(u)
  BY <1>1 DEF Sync, Startup, Woken, RetryTimer, Read, SendOk, SendFails,
              RetryAfterError, Record, Recorded
<1>2. CASE MetricsFail(u) \/ Recover(u)
  BY <1>2 DEF MetricsFail, Recover, Signal
<1>3. CASE Look
  BY <1>3 DEF Look
<1>4. CASE Compare
  BY <1>4 DEF Compare
<1>5. CASE WakeAll
  BY <1>5 DEF WakeAll, Signal
<1>6. CASE Change
  BY <1>6 DEF Change
<1>7. CASE UNCHANGED vars
  BY <1>7 DEF vars
<1> QED BY <1>1, <1>2, <1>3, <1>4, <1>5, <1>6, <1>7 DEF Next

\* The fingerprint a node with one target keeps is honest: staticChanged cannot
\* miss a change that the target has not been sent.
THEOREM OneTargetRecorded ==
  ASSUME NEW u, Targets = {u}
  PROVE  Spec => []RecordedIsStored
<1>1. Init => RecordedIsStored
  BY DEF Init, RecordedIsStored
<1>2. TypeOK /\ RecordedIsStored /\ [Next]_vars => RecordedIsStored'
  BY RecordedStep
<1> QED BY <1>1, <1>2, TypeCorrect, PTL DEF Spec

\* "posted again when the static snapshot changes" holds of a node with one
\* target: when nothing is left to be done the server has the current snapshot.
THEOREM OneTargetCurrent ==
  ASSUME NEW u, Targets = {u}
  PROVE  Spec => []SettledIsCurrent
<1>1. RecordedIsStored => SettledIsCurrent
  BY DEF RecordedIsStored, SettledIsCurrent, Settled
<1> QED BY <1>1, OneTargetRecorded, PTL

-----------------------------------------------------------------------------
(* HostStatic *)

LEMMA StaticTypeInit == InitStatic => TypeOKStatic
BY HostAssumption DEF InitStatic, TypeOKStatic

\* What a call of Static() merges leaves a snapshot.
LEMMA Merged ==
  ASSUME TypeOKStatic, NEW c \in Callers, Refresh(c)
  PROVE  /\ static' \in Snapshots
         /\ static.sys # Unknown => static'.sys # Unknown
BY HostAssumption DEF TypeOKStatic, Refresh, Merge

LEMMA RestChanged ==
  ASSUME TypeOKStatic, RestChanges
  PROVE  static' \in Snapshots /\ static'.sys = static.sys
BY HostAssumption DEF TypeOKStatic, RestChanges

\* The steps that leave the sampler's fields alone.
LEMMA OtherSteps ==
  ASSUME [NextStatic]_staticVars,
         ~RestChanges, \A c \in Callers : ~Refresh(c)
  PROVE  UNCHANGED static
<1> USE DEF vars, hostVars, staticVars, syncVars, targetVars
<1>1. CASE \E c \in Callers : ReadHost(c)
  BY <1>1 DEF ReadHost
<1>2. CASE \E t \in Targets : ReadStatic(t)
  BY <1>2 DEF ReadStatic, Read
<1>3. CASE LookStatic \/ HostChanges \/ Watch
  BY <1>3 DEF LookStatic, Look, HostChanges, Watch, Compare, WakeAll
<1>4. CASE \E t \in Targets : SyncOther(t)
  BY <1>4 DEF SyncOther, Startup, Woken, RetryTimer, SendOk, SendFails, Record
<1>5. CASE \E t \in Targets : MetricsFail(t) \/ Recover(t)
  BY <1>5 DEF MetricsFail, Recover
<1>6. CASE UNCHANGED staticVars
  BY <1>6
<1> QED BY <1>1, <1>2, <1>3, <1>4, <1>5, <1>6 DEF NextStatic

LEMMA StaticTypeStep == TypeOKStatic /\ [NextStatic]_staticVars => TypeOKStatic'
<1> SUFFICES ASSUME TypeOKStatic, [NextStatic]_staticVars PROVE TypeOKStatic'
  OBVIOUS
<1>1. static' \in Snapshots
  <2>1. CASE \E c \in Callers : Refresh(c)
    BY <2>1, Merged
  <2>2. CASE RestChanges
    BY <2>2, RestChanged
  <2>3. CASE ~RestChanges /\ \A c \in Callers : ~Refresh(c)
    BY <2>3, OtherSteps DEF TypeOKStatic
  <2> QED BY <2>1, <2>2, <2>3
<1>2. host' \in Names \cup {Unknown}
  <2>1. host' \in (Names \cup {Unknown}) \/ UNCHANGED host
    BY DEF NextStatic, ReadHost, Refresh, ReadStatic, LookStatic, RestChanges, HostChanges,
           SyncOther, Watch, hostVars, staticVars
  <2> QED BY <2>1 DEF TypeOKStatic
<1>3. /\ asked' \in [Callers -> {"no", "read", "merged"}]
      /\ heard' \in [Callers -> Names \cup {Unknown}]
  <2>1. CASE \E c \in Callers : ReadHost(c) \/ Refresh(c)
    BY <2>1 DEF ReadHost, Refresh, TypeOKStatic
  <2>2. CASE (\E t \in Targets : ReadStatic(t)) \/ LookStatic
    BY <2>2 DEF ReadStatic, LookStatic, TypeOKStatic
  <2>3. CASE UNCHANGED <<asked, heard>>
    BY <2>3 DEF TypeOKStatic
  <2>4. \/ \E c \in Callers : ReadHost(c) \/ Refresh(c)
        \/ (\E t \in Targets : ReadStatic(t)) \/ LookStatic
        \/ UNCHANGED <<asked, heard>>
    BY DEF NextStatic, RestChanges, HostChanges, SyncOther, Watch, hostVars, staticVars
  <2> QED BY <2>1, <2>2, <2>3, <2>4
<1> QED BY <1>1, <1>2, <1>3 DEF TypeOKStatic

\* Type correctness: there is always a snapshot.
THEOREM StaticTyped == SpecStatic => []TypeOKStatic
BY StaticTypeInit, StaticTypeStep, PTL DEF SpecStatic

\* Every step of a host is one of StaticSync or none of its business.
LEMMA StaticStepMaps ==
  TypeOKStatic /\ [NextStatic]_staticVars => [Next]_vars
<1> SUFFICES ASSUME TypeOKStatic, [NextStatic]_staticVars PROVE Next \/ UNCHANGED vars
  OBVIOUS
<1> USE DEF vars, hostVars, staticVars, syncVars, targetVars
<1>1. CASE \E c \in Callers : ReadHost(c)
  BY <1>1 DEF ReadHost
<1>2. CASE \E c \in Callers : Refresh(c)
  <2>1. static' \in Snapshots /\ UNCHANGED syncVars
    BY <1>2, Merged DEF Refresh
  <2> QED BY <2>1 DEF Next, Change
<1>3. CASE RestChanges
  <2>1. static' \in Snapshots /\ UNCHANGED syncVars
    BY <1>3, RestChanged DEF RestChanges
  <2> QED BY <2>1 DEF Next, Change
<1>4. CASE HostChanges
  BY <1>4 DEF HostChanges
<1>5. CASE \E t \in Targets : ReadStatic(t) \/ SyncOther(t)
  BY <1>5 DEF ReadStatic, SyncOther, Next, Sync
<1>6. CASE LookStatic \/ Watch
  BY <1>6 DEF LookStatic, Watch, Next
<1>7. CASE \E t \in Targets : MetricsFail(t) \/ Recover(t)
  BY <1>7 DEF Next
<1>8. CASE UNCHANGED staticVars
  BY <1>8
<1> QED BY <1>1, <1>2, <1>3, <1>4, <1>5, <1>6, <1>7, <1>8 DEF NextStatic

\* The sampler's snapshots are those that StaticSync reports: overlapping calls of
\* Static() and changes of the host show as changes of one snapshot.
THEOREM HostImplementsSync == SpecStatic => Spec
<1>1. InitStatic => Init
  BY DEF InitStatic
<1> QED BY <1>1, StaticTyped, StaticStepMaps, PTL DEF SpecStatic, Spec

\* "posted again when the static snapshot changes", of a node with one target whose
\* sampler is asked by several goroutines.
THEOREM OneTargetCurrentOnHost ==
  ASSUME NEW u, Targets = {u}
  PROVE  SpecStatic => []SettledIsCurrent
BY OneTargetCurrent, HostImplementsSync, PTL

-----------------------------------------------------------------------------
(* KnownStays *)

Known(s) == s # None /\ s.sys # Unknown

\* What a server knows the sampler knows, and what is on its way to that server
\* says it, too.
KnownInv ==
  \A t \in Targets :
    /\ Known(snap[t]) \/ Known(stored[t]) => static.sys # Unknown
    /\ at[t] \in {"send", "record"} => snap[t] \in Snapshots
    /\ at[t] \in {"send", "record"} /\ Known(stored[t]) => Known(snap[t])

\* A sync either keeps what it knows of its server or replaces it by what it sent.
LEMMA KnownSync ==
  ASSUME TypeOK, TypeOKStatic, KnownInv, NEW u \in Targets,
         ReadStatic(u) \/ SyncOther(u), UNCHANGED static
  PROVE  /\ KnownInv'
         /\ \A t \in Targets : Known(stored[t]) => Known(stored'[t])
<1> USE StaticAssumption, HostAssumption DEF TypeOK, TypeOKStatic, KnownInv, Known, targetVars
<1>1. CASE ReadStatic(u)
  BY <1>1 DEF ReadStatic, Read
<1>2. CASE Startup(u) \/ RetryTimer(u)
  BY <1>2 DEF Startup, RetryTimer
<1>3. CASE Woken(u)
  BY <1>3 DEF Woken
<1>4. CASE SendOk(u)
  BY <1>4 DEF SendOk
<1>5. CASE SendFails(u)
  BY <1>5 DEF SendFails, RetryAfterError
<1>6. CASE Record(u)
  BY <1>6 DEF Record
<1> QED BY <1>1, <1>2, <1>3, <1>4, <1>5, <1>6 DEF SyncOther

LEMMA KnownStep ==
  ASSUME TypeOK, TypeOKStatic, KnownInv, [NextStatic]_staticVars
  PROVE  /\ KnownInv'
         /\ \A t \in Targets : Known(stored[t]) => Known(stored'[t])
<1>1. CASE \E t \in Targets : ReadStatic(t) \/ SyncOther(t)
  <2>1. PICK u \in Targets : ReadStatic(u) \/ SyncOther(u)
    BY <1>1
  <2>2. UNCHANGED static
    BY <2>1 DEF ReadStatic, SyncOther, Read, Startup, Woken, RetryTimer, SendOk, SendFails, Record
  <2> QED BY <2>1, <2>2, KnownSync
<1>2. CASE ~ \E t \in Targets : ReadStatic(t) \/ SyncOther(t)
  <2>1. UNCHANGED <<at, snap, stored>>
    BY <1>2 DEF NextStatic, ReadHost, Refresh, LookStatic, Look, RestChanges, HostChanges, Watch,
                Compare, WakeAll, MetricsFail, Recover, vars, staticVars, syncVars, targetVars
  <2>2. static.sys # Unknown => static'.sys # Unknown
    BY Merged, RestChanged, OtherSteps
  <2> QED BY <2>1, <2>2 DEF KnownInv, Known
<1> QED BY <1>1, <1>2

\* For any targets, names and callers: what a host has once said of itself is not
\* reported as missing again.
THEOREM KnownIsNeverLost == SpecStatic => KnownStays
<1>1. InitStatic => KnownInv
  BY DEF InitStatic, Init, KnownInv, Known
<1>2. TypeOK /\ TypeOKStatic /\ KnownInv /\ [NextStatic]_staticVars => KnownInv'
  BY KnownStep
<1>3. TypeOK /\ TypeOKStatic /\ KnownInv /\ [NextStatic]_staticVars
        => [\A t \in Targets :
              stored[t] # None /\ stored[t].sys # Unknown => stored'[t].sys # Unknown]_staticVars
  BY KnownStep DEF Known
<1>4. SpecStatic => []TypeOK
  BY HostImplementsSync, TypeCorrect, PTL
<1> QED BY <1>1, <1>2, <1>3, <1>4, StaticTyped, PTL DEF SpecStatic, KnownStays

-----------------------------------------------------------------------------
(* FsUsage *)

Entries == [cached : Usages, probe : 0..MaxProbes, stuck : BOOLEAN]
Readings == [path : Mounts \cup {Nothing}, at : {"idle", "read", "wait", "done"},
             probe : 0..MaxProbes, cached : Usages, answer : Usages]

UsageTyped ==
  /\ usage \in [Mounts -> 0..MaxUsage]
  /\ entry \in [Mounts -> Entries] /\ flying \in [Mounts -> SUBSET Probes]
  /\ reader \in [Readers -> Readings]

\* A reader that does anything has a mount, and one that waits has a probe.
Busy(e) == e.at # "idle" => e.path \in Mounts
Waiting(e) == e.at \in {"wait", "done"} => e.probe # 0

\* The inductive invariant: the probe of an entry is the only one, and without it
\* there is none.
UsageInv ==
  /\ UsageTyped
  /\ \A r \in Readers : Busy(reader[r]) /\ Waiting(reader[r])
  /\ StuckIsProbed
  /\ \A m \in Mounts : entry[m].probe = 0 => flying[m] = {}

LEMMA ProbeNumbers == MaxProbes \in Nat /\ MaxUsage \in Nat /\ Nothing \notin Mounts
BY UsageAssumption

LEMMA UsageInit == InitUsage => UsageInv
<1> SUFFICES ASSUME InitUsage PROVE UsageInv
  OBVIOUS
<1> USE ProbeNumbers DEF InitUsage, NewEntry, Idle
<1>1. NewEntry \in Entries /\ Idle \in Readings
  BY DEF Entries, Readings, Usages
<1>2. UsageTyped
  BY <1>1 DEF UsageTyped
<1>3. \A r \in Readers : Busy(reader[r]) /\ Waiting(reader[r])
  BY DEF Busy, Waiting
<1>4. StuckIsProbed /\ \A m \in Mounts : entry[m].probe = 0 => flying[m] = {}
  BY DEF StuckIsProbed
<1> QED BY <1>2, <1>3, <1>4 DEF UsageInv

\* What a reader does to its own record.
LEMMA OwnRecord ==
  ASSUME UsageInv, NEW r \in Readers, NEW e \in Readings,
         Busy(e), Waiting(e), reader' = [reader EXCEPT ![r] = e]
  PROVE  /\ reader' \in [Readers -> Readings]
         /\ \A q \in Readers : Busy(reader'[q]) /\ Waiting(reader'[q])
BY DEF UsageInv, UsageTyped

LEMMA IdleRecord == Idle \in Readings /\ Busy(Idle) /\ Waiting(Idle)
BY ProbeNumbers DEF Idle, Readings, Usages, Busy, Waiting

\* The record of one who begins to read.
LEMMA CallRecord ==
  ASSUME NEW m \in Mounts
  PROVE  LET e == [Idle EXCEPT !.path = m, !.at = "read"]
         IN  e \in Readings /\ e.path = m /\ e.at = "read"
<1>1. Idle \in Readings
  BY IdleRecord
<1> QED BY <1>1 DEF Readings

\* The probe a reader waits for is the only one.
LEMMA ProbeOfOne ==
  ASSUME UsageInv, NEW m \in Mounts, NEW p \in ProbeOf(m)
  PROVE  p \in Probes /\ flying[m] \subseteq {p}
<1>1. CASE Running(entry[m])
  <2>1. p = entry[m].probe /\ p # 0
    BY <1>1 DEF ProbeOf, Running
  <2>2. p \in 0..MaxProbes /\ flying[m] = {p}
    BY <2>1 DEF UsageInv, UsageTyped, Entries, StuckIsProbed
  <2> QED BY <2>1, <2>2, ProbeNumbers DEF Probes
<1>2. CASE ~Running(entry[m])
  BY <1>2 DEF ProbeOf, FreeProbe, Running, UsageInv
<1> QED BY <1>1, <1>2

\* Probes start where there is none, and one that ends was the only one.
LEMMA UsageRead ==
  ASSUME UsageInv, NEW r \in Readers, ReadMount(r)
  PROVE  UsageInv'
<1> DEFINE m == reader[r].path
<1> USE ProbeNumbers
<1>1. CASE UseCached(r) \/ Done(r)
  <2>1. reader' = [reader EXCEPT ![r] = Idle] /\ UNCHANGED <<usage, entry, flying>>
    BY <1>1 DEF UseCached, Done, Return
  <2> QED BY <2>1, OwnRecord, IdleRecord DEF UsageInv, UsageTyped, StuckIsProbed
<1>2. CASE Await(r)
  <2>1. PICK p \in ProbeOf(m) :
          /\ entry' = [entry EXCEPT ![m].probe = p]
          /\ flying' = [flying EXCEPT ![m] = @ \cup {p}]
          /\ reader' = [reader EXCEPT ![r].at = "wait", ![r].probe = p,
                                      ![r].cached = entry[m].cached]
    BY <1>2 DEF Await
  <2>2. m \in Mounts /\ ~entry[m].stuck /\ UNCHANGED usage
    BY <1>2 DEF Await, UsageInv, Busy
  <2>3. p \in Probes /\ flying[m] \subseteq {p}
    BY <2>2, ProbeOfOne
  <2> DEFINE e == [reader[r] EXCEPT !.at = "wait", !.probe = p, !.cached = entry[m].cached]
  <2>4. reader' = [reader EXCEPT ![r] = e]
    BY <2>1 DEF UsageInv, UsageTyped, Readings
  <2>5. e \in Readings /\ Busy(e) /\ Waiting(e)
    <3> DEFINE x == reader[r]  c == entry[m].cached
    <3>1. x \in Readings /\ entry[m] \in Entries
      BY <2>2 DEF UsageInv, UsageTyped
    <3>2. c \in Usages /\ x.path = m
      BY <3>1 DEF Entries
    <3>3. e = [x EXCEPT !.at = "wait", !.probe = p, !.cached = c]
      OBVIOUS
    <3> HIDE DEF e, x, c, m
    <3>4. e \in Readings /\ e.path = m /\ e.at = "wait" /\ e.probe # 0
      <4>1. p \in 0..MaxProbes /\ p # 0
        BY <2>3 DEF Probes
      <4> QED BY <3>1, <3>2, <3>3, <4>1 DEF Readings
    <3> QED BY <2>2, <3>4 DEF Busy, Waiting
  <2>6. /\ entry' \in [Mounts -> Entries] /\ entry'[m].probe = p
        /\ \A n \in Mounts : n # m => entry'[n] = entry[n]
    BY <2>1, <2>2, <2>3 DEF UsageInv, UsageTyped, Entries, Probes
  <2>7. entry'[m].stuck = entry[m].stuck
    BY <2>1, <2>2 DEF UsageInv, UsageTyped, Entries
  <2>8. /\ flying' \in [Mounts -> SUBSET Probes] /\ flying'[m] = {p}
        /\ \A n \in Mounts : n # m => flying'[n] = flying[n]
    BY <2>1, <2>2, <2>3 DEF UsageInv, UsageTyped
  <2>9. \A n \in Mounts : /\ entry'[n].stuck => entry'[n].probe # 0
                          /\ entry'[n].probe # 0 => flying'[n] = {entry'[n].probe}
                          /\ entry'[n].probe = 0 => flying'[n] = {}
    BY <2>2, <2>3, <2>6, <2>7, <2>8 DEF UsageInv, StuckIsProbed, Probes
  <2> QED BY <2>2, <2>4, <2>5, <2>6, <2>8, <2>9, OwnRecord DEF UsageInv, UsageTyped, StuckIsProbed
<1>3. CASE Timeout(r)
  <2>1. /\ reader' = [reader EXCEPT ![r] = Idle] /\ UNCHANGED <<usage, flying>>
        /\ entry' = [entry EXCEPT ![m].stuck = @ \/ StillMine(r)]
    BY <1>3 DEF Timeout, GivenUp, Return
  <2>2. m \in Mounts /\ reader[r].probe # 0
    BY <1>3 DEF Timeout, UsageInv, Busy, Waiting
  <2>3. /\ entry' \in [Mounts -> Entries]
        /\ \A n \in Mounts : entry'[n].probe = entry[n].probe
    BY <2>1, <2>2 DEF UsageInv, UsageTyped, Entries
  <2>4. \A n \in Mounts : n # m => entry'[n] = entry[n]
    BY <2>1, <2>2 DEF UsageInv, UsageTyped
  <2>5. entry'[m].stuck => entry[m].stuck \/ StillMine(r)
    BY <2>1, <2>2 DEF UsageInv, UsageTyped, Entries
  <2>6. \A n \in Mounts : entry'[n].stuck => entry'[n].probe # 0
    BY <2>2, <2>3, <2>4, <2>5 DEF UsageInv, StuckIsProbed, StillMine
  <2> QED BY <2>1, <2>3, <2>6, OwnRecord, IdleRecord DEF UsageInv, UsageTyped, StuckIsProbed
<1> QED BY <1>1, <1>2, <1>3 DEF ReadMount

LEMMA UsageProbeEnds ==
  ASSUME UsageInv, NEW m \in Mounts, NEW p \in Probes, NEW v \in Usages, ProbeEnds(m, p, v)
  PROVE  UsageInv'
<1> USE ProbeNumbers
<1>1. /\ flying' = [flying EXCEPT ![m] = @ \ {p}] /\ p \in flying[m] /\ UNCHANGED usage
      /\ entry' = [entry EXCEPT ![m] = [cached |-> IF v = Nothing THEN @.cached ELSE v,
                                        probe |-> 0, stuck |-> FALSE]]
  BY DEF ProbeEnds
<1>2. flying[m] = {p}
  BY <1>1 DEF UsageInv, StuckIsProbed
<1>3. /\ flying' \in [Mounts -> SUBSET Probes] /\ flying'[m] = {}
      /\ \A n \in Mounts : n # m => flying'[n] = flying[n]
  BY <1>1, <1>2 DEF UsageInv, UsageTyped
<1>4. /\ entry' \in [Mounts -> Entries] /\ entry'[m].probe = 0 /\ ~entry'[m].stuck
      /\ \A n \in Mounts : n # m => entry'[n] = entry[n]
  BY <1>1 DEF UsageInv, UsageTyped, Entries
<1>5. \A r \in Readers :
        reader'[r] = reader[r] \/ (/\ reader'[r] = [reader[r] EXCEPT !.at = "done", !.answer = v]
                                  /\ reader[r].path = m /\ reader[r].probe = p)
  BY DEF ProbeEnds
<1>6. /\ reader' \in [Readers -> Readings]
      /\ \A r \in Readers : Busy(reader'[r]) /\ Waiting(reader'[r])
  <2>1. \A r \in Readers : /\ reader'[r] \in Readings
                          /\ Busy(reader'[r]) /\ Waiting(reader'[r])
    <3> SUFFICES ASSUME NEW r \in Readers
                 PROVE  reader'[r] \in Readings /\ Busy(reader'[r]) /\ Waiting(reader'[r])
      OBVIOUS
    <3>1. reader[r] \in Readings /\ Busy(reader[r]) /\ Waiting(reader[r])
      BY DEF UsageInv, UsageTyped
    <3>2. CASE reader'[r] = reader[r]
      BY <3>1, <3>2
    <3>3. CASE /\ reader'[r] = [reader[r] EXCEPT !.at = "done", !.answer = v]
               /\ reader[r].path = m /\ reader[r].probe = p
      <4>1. reader'[r] = [path |-> m, at |-> "done", probe |-> p, cached |-> reader[r].cached,
                          answer |-> v]
        BY <3>1, <3>3 DEF Readings
      <4>2. p \in 0..MaxProbes /\ p # 0
        BY DEF Probes
      <4>3. reader[r].cached \in Usages
        BY <3>1 DEF Readings
      <4> QED BY <4>1, <4>2, <4>3 DEF Readings, Busy, Waiting
    <3> QED BY <1>5, <3>2, <3>3
  <2> QED BY <2>1 DEF ProbeEnds
<1>7. StuckIsProbed' /\ \A n \in Mounts : entry'[n].probe = 0 => flying'[n] = {}
  BY <1>3, <1>4 DEF UsageInv, StuckIsProbed
<1> QED BY <1>1, <1>3, <1>4, <1>6, <1>7 DEF UsageInv, UsageTyped

\* What is read is mounted.
JobsListed == jobs \subseteq Mounts /\ rest \subseteq Mounts

LEMMA JobsStep == JobsListed /\ [NextUsage]_usageVars => JobsListed'
<1> SUFFICES ASSUME JobsListed, [NextUsage]_usageVars PROVE JobsListed'
  OBVIOUS
<1>1. CASE Pass
  BY <1>1 DEF Pass, StartPass, TakeJob, Collected, ReadAgain, Store, JobsListed
<1>2. CASE UNCHANGED passVars
  BY <1>2 DEF passVars, JobsListed
<1>3. Pass \/ UNCHANGED passVars
  BY DEF NextUsage, ReadMount, UseCached, Await, Done, Timeout, Answers, Fails,
         ProbeEnds, MountChanges, UsageChanges, usageVars, passVars
<1> QED BY <1>1, <1>2, <1>3

\* A probe knows the usage it began with.
SinceInv ==
  /\ since \in [Mounts -> [Probes -> Usages]]
  /\ \A m \in Mounts, p \in Probes : since[m][p] = Nothing <=> p \notin flying[m]

LEMMA SinceStep == UsageInv /\ SinceInv /\ [NextUsage]_usageVars => SinceInv'
<1> SUFFICES ASSUME UsageInv, SinceInv, [NextUsage]_usageVars PROVE SinceInv'
  OBVIOUS
<1> USE UsageAssumption
<1>1. CASE UNCHANGED <<since, flying>>
  BY <1>1 DEF SinceInv
<1>2. ASSUME NEW r \in Readers, Await(r) PROVE SinceInv'
  <2> DEFINE m == reader[r].path
  <2>1. PICK p \in ProbeOf(m) :
          /\ flying' = [flying EXCEPT ![m] = @ \cup {p}]
          /\ since' = [since EXCEPT ![m][p] = IF p \in flying[m] THEN @ ELSE usage[m]]
    BY <1>2 DEF Await
  <2>2. m \in Mounts
    BY <1>2 DEF Await, UsageInv, Busy
  <2>3. p \in Probes
    BY <2>2, ProbeOfOne
  <2>4. usage[m] \in Usages /\ usage[m] # Nothing
    BY <2>2 DEF UsageInv, UsageTyped, Usages
  <2>5. \A n \in Mounts, q \in Probes :
          /\ q \in flying'[n] <=> q \in flying[n] \/ (n = m /\ q = p)
          /\ since'[n][q] = IF n = m /\ q = p /\ p \notin flying[m] THEN usage[m] ELSE since[n][q]
    BY <2>1, <2>2, <2>3 DEF SinceInv, UsageInv, UsageTyped
  <2>6. since' \in [Mounts -> [Probes -> Usages]]
    BY <2>1, <2>2, <2>3, <2>4 DEF SinceInv
  <2> QED BY <2>4, <2>5, <2>6 DEF SinceInv
<1>3. ASSUME NEW m \in Mounts, NEW p, NEW v, ProbeEnds(m, p, v) PROVE SinceInv'
  <2>1. /\ p \in flying[m] /\ flying' = [flying EXCEPT ![m] = @ \ {p}]
        /\ since' = [since EXCEPT ![m][p] = Nothing]
    BY <1>3 DEF ProbeEnds
  <2>2. p \in Probes
    BY <2>1 DEF UsageInv, UsageTyped
  <2>3. \A n \in Mounts, q \in Probes :
          /\ q \in flying'[n] <=> q \in flying[n] /\ ~(n = m /\ q = p)
          /\ since'[n][q] = IF n = m /\ q = p THEN Nothing ELSE since[n][q]
    BY <2>1, <2>2 DEF SinceInv, UsageInv, UsageTyped
  <2>4. since' \in [Mounts -> [Probes -> Usages]]
    BY <2>1, <2>2 DEF SinceInv, Usages
  <2> QED BY <2>3, <2>4 DEF SinceInv
<1>4. CASE \E m \in Mounts : Answers(m) \/ Fails(m)
  BY <1>4, <1>3 DEF Answers, Fails
<1> QED
  BY <1>1, <1>2, <1>4 DEF NextUsage, ReadMount, UseCached, Done, Timeout, Pass, StartPass, TakeJob,
     Collected, ReadAgain, Store, MountChanges, UsageChanges, usageVars

LEMMA UsageStep == UsageInv /\ SinceInv /\ JobsListed /\ [NextUsage]_usageVars => UsageInv'
<1> SUFFICES ASSUME UsageInv, SinceInv, JobsListed, [NextUsage]_usageVars PROVE UsageInv'
  OBVIOUS
<1> USE ProbeNumbers
<1>1. CASE \E r \in Readers : ReadMount(r)
  BY <1>1, UsageRead
<1>2. CASE \E m \in Mounts : Answers(m) \/ Fails(m)
  <2>1. PICK m \in Mounts : \/ Fails(m)
                            \/ \E p \in flying[m] : \E v \in since[m][p]..usage[m] : ProbeEnds(m, p, v)
    BY <1>2 DEF Answers
  <2>2. CASE Fails(m)
    BY <2>2, UsageProbeEnds DEF Fails, Usages
  <2>3. CASE \E p \in flying[m] : \E v \in since[m][p]..usage[m] : ProbeEnds(m, p, v)
    <3>1. PICK p \in flying[m] : \E v \in since[m][p]..usage[m] : ProbeEnds(m, p, v)
      BY <2>3
    <3>2. p \in Probes /\ since[m][p] \in 0..MaxUsage
      BY DEF UsageInv, UsageTyped, SinceInv, Usages
    <3>3. usage[m] \in 0..MaxUsage
      BY DEF UsageInv, UsageTyped
    <3>4. \A v \in since[m][p]..usage[m] : v \in Usages
      BY <3>2, <3>3 DEF Usages
    <3> QED BY <3>1, <3>2, <3>4, UsageProbeEnds
  <2> QED BY <2>1, <2>2, <2>3
<1>3. CASE \E r \in Readers, m \in Mounts : reader[r] = Idle /\ Call(r, m) /\ UNCHANGED <<usage, entry, flying>>
  <2>1. PICK r \in Readers, m \in Mounts : Call(r, m)
    BY <1>3
  <2> DEFINE e == [Idle EXCEPT !.path = m, !.at = "read"]
  <2>2. e \in Readings /\ Busy(e) /\ Waiting(e)
    <3>1. e \in Readings /\ e.path = m /\ e.at = "read"
      BY CallRecord
    <3> HIDE DEF e
    <3> QED BY <3>1 DEF Busy, Waiting
  <2>3. reader' = [reader EXCEPT ![r] = e]
    BY <2>1 DEF Call
  <2> QED BY <1>3, <2>2, <2>3, OwnRecord DEF UsageInv, UsageTyped, StuckIsProbed
<1>4. CASE UNCHANGED <<usage, entry, flying, reader>>
  BY <1>4 DEF UsageInv, UsageTyped, StuckIsProbed
<1>5. CASE \E m \in Mounts : UsageChanges(m)
  <2>1. usage' \in [Mounts -> 0..MaxUsage] /\ UNCHANGED <<entry, flying, reader>>
    BY <1>5 DEF UsageChanges, UsageInv, UsageTyped
  <2> QED BY <2>1 DEF UsageInv, UsageTyped, StuckIsProbed
<1>6. CASE Pass
  <2>1. CASE StartPass \/ Collected \/ Store
    BY <2>1, <1>4 DEF StartPass, Collected, Store
  <2>2. CASE \E w \in Workers : TakeJob(w)
    BY <2>2, <1>3 DEF TakeJob, Readers, JobsListed
  <2>3. CASE ReadAgain
    BY <2>3, <1>3 DEF ReadAgain, Readers, JobsListed
  <2> QED BY <1>6, <2>1, <2>2, <2>3 DEF Pass
<1>7. CASE \E m \in Mounts : MountChanges(m)
  BY <1>7, <1>4 DEF MountChanges
<1>8. CASE UNCHANGED usageVars
  BY <1>8, <1>4 DEF usageVars
<1> QED BY <1>1, <1>2, <1>5, <1>6, <1>7, <1>8 DEF NextUsage

\* For any mounts, workers and probes: the invariant of fsUsageReader.entries.
THEOREM ProbesOwned == SpecUsage => [](UsageInv /\ SinceInv /\ JobsListed)
<1>1. InitUsage => JobsListed /\ SinceInv
  BY DEF InitUsage, JobsListed, SinceInv, Usages
<1> QED BY <1>1, UsageInit, UsageStep, SinceStep, JobsStep, PTL DEF SpecUsage

-----------------------------------------------------------------------------
(* readings in order *)

\* Who reads when, and what may be read.
PassInv ==
  /\ pass # "collect" => \A w \in Workers : reader[w] = Idle
  /\ pass # "blocks" => reader[Main] = Idle
  /\ got \in [Mounts -> Usages] /\ listed \in [Mounts -> Usages]
  /\ slow \in [filesystems : [Mounts -> Usages], storages : [Mounts -> Usages]]

\* A reader in the middle of a read, so that its pass is where it is.
LEMMA ReaderReads ==
  ASSUME UsageInv, PassInv, NEW r \in Readers, ReadMount(r)
  PROVE  /\ reader[r] # Idle /\ UNCHANGED <<pass, listed, slow, jobs, rest>>
         /\ got' \in [Mounts -> Usages]
         /\ \A q \in Readers \ {r} : reader'[q] = reader[q]
<1>1. reader[r] \in Readings /\ reader[r] # Idle
  <2>1. reader[r].at # "idle"
    BY DEF ReadMount, UseCached, Await, Done, Timeout
  <2>2. reader[r] \in Readings
    BY DEF UsageInv, UsageTyped
  <2> QED BY <2>1, <2>2 DEF Idle
<1>2. CASE UseCached(r) \/ Done(r) \/ Timeout(r)
  <2>1. \E v \in {entry[reader[r].path].cached, reader[r].answer, reader[r].cached} : Return(r, v)
    BY <1>2 DEF UseCached, Done, Timeout
  <2>2. reader[r].path \in Mounts
    BY <1>2 DEF UsageInv, Busy, UseCached, Done, Timeout
  <2>3. {entry[reader[r].path].cached, reader[r].answer, reader[r].cached} \subseteq Usages
    BY <1>1, <2>2 DEF Readings, Entries, UsageInv, UsageTyped
  <2>4. UNCHANGED <<pass, listed, slow, jobs, rest>>
    BY <1>2 DEF UseCached, Done, Timeout, passVars
  <2> QED BY <1>1, <2>1, <2>3, <2>4 DEF Return, PassInv, UsageInv, UsageTyped
<1>3. CASE Await(r)
  <2>1. PICK p : reader' = [reader EXCEPT ![r].at = "wait", ![r].probe = p,
                                          ![r].cached = entry[reader[r].path].cached]
    BY <1>3 DEF Await
  <2>2. \A q \in Readers \ {r} : reader'[q] = reader[q]
    BY <2>1 DEF UsageInv, UsageTyped
  <2> QED BY <1>1, <1>3, <2>2 DEF Await, passVars, PassInv
<1> QED BY <1>2, <1>3 DEF ReadMount

LEMMA PassStep ==
  ASSUME UsageInv, JobsListed, PassInv, [NextUsage]_usageVars PROVE PassInv'
<1> USE UsageAssumption DEF Readers
<1>1. CASE \E r \in Readers : ReadMount(r)
  <2>1. PICK r \in Readers : ReadMount(r)
    BY <1>1
  <2>2. /\ reader[r] # Idle /\ UNCHANGED <<pass, listed, slow, jobs, rest>>
        /\ got' \in [Mounts -> Usages]
        /\ \A q \in Readers \ {r} : reader'[q] = reader[q]
    BY <2>1, ReaderReads
  <2> QED BY <2>2 DEF PassInv
<1>2. CASE \E m \in Mounts : Answers(m) \/ Fails(m)
  <2>m. PICK m \in Mounts : \E p, v : ProbeEnds(m, p, v)
    BY <1>2 DEF Answers, Fails
  <2>1. PICK p, v : ProbeEnds(m, p, v)
    BY <2>m
  <2>2. \A r \in Readers : reader[r] = Idle => reader'[r] = Idle
    <3>1. Idle.path = Nothing /\ m # Nothing
      BY DEF Idle
    <3> QED BY <2>1, <3>1 DEF ProbeEnds
  <2> QED BY <2>1, <2>2 DEF ProbeEnds, passVars, PassInv
<1>3. CASE Pass
  <2>1. NoReading \in [Mounts -> Usages]
    BY DEF NoReading, Usages
  <2>2. CASE StartPass \/ Collected \/ Store
    BY <2>1, <2>2 DEF StartPass, Collected, Store, PassInv
  <2>3. CASE (\E w \in Workers : TakeJob(w)) \/ ReadAgain
    BY <2>3 DEF TakeJob, ReadAgain, Call, PassInv, UsageInv, UsageTyped
  <2> QED BY <1>3, <2>2, <2>3 DEF Pass
<1>4. CASE UNCHANGED <<passVars, reader, got>>
  BY <1>4 DEF passVars, PassInv
<1> QED
  BY <1>1, <1>2, <1>3, <1>4 DEF NextUsage, MountChanges, UsageChanges, usageVars

\* What a step finds out about the readings of a mount: at most the value that its probe
\* returns, if it does, and that is what it has then.
Found(m, v) ==
  /\ Held(m)' \subseteq Held(m) \cup {v, Nothing}
  /\ entry'[m].cached = IF v = Nothing THEN entry[m].cached ELSE v
  /\ usage'[m] >= usage[m]
  /\ v # Nothing =>
       /\ flying'[m] = {}
       /\ \E p \in flying[m] : v \in since[m][p]..usage[m]
  /\ \A p \in flying'[m] : since'[m][p] = IF p \in flying[m] THEN since[m][p] ELSE usage[m]

LEMMA HeldIs ==
  ASSUME NEW m, NEW v
  PROVE  v \in Held(m) <=> \/ v \in {entry[m].cached, got[m], listed[m]}
                           \/ \E r \in Readers : /\ reader[r].path = m
                                                 /\ v \in {reader[r].cached, reader[r].answer}
BY DEF Held

LEMMA HeldIsNext ==
  ASSUME NEW m, NEW v
  PROVE  v \in Held(m)' <=> \/ v \in {entry'[m].cached, got'[m], listed'[m]}
                            \/ \E r \in Readers : /\ reader'[r].path = m
                                                  /\ v \in {reader'[r].cached, reader'[r].answer}
BY DEF Held

\* A step that has at most one reader go on, with what is known of its mount.
LEMMA OwnHeld ==
  ASSUME NEW m \in Mounts, NEW r \in Readers, reader \in [Readers -> Readings],
         \A q \in Readers \ {r} : reader'[q] = reader[q],
         reader'[r].path = m =>
           {reader'[r].cached, reader'[r].answer} \subseteq Held(m) \cup {Nothing},
         {got'[m], listed'[m]} \subseteq Held(m) \cup {Nothing},
         entry'[m].cached = entry[m].cached
  PROVE  Held(m)' \subseteq Held(m) \cup {Nothing}
<1> SUFFICES ASSUME NEW v \in Held(m)' PROVE v \in Held(m) \cup {Nothing}
  OBVIOUS
<1>1. CASE v \in {entry'[m].cached, got'[m], listed'[m]}
  BY <1>1, HeldIs
<1>2. CASE \E q \in Readers : /\ reader'[q].path = m
                              /\ v \in {reader'[q].cached, reader'[q].answer}
  BY <1>2, HeldIs
<1> QED BY <1>1, <1>2, HeldIsNext

\* The same, of a step that has no probe return.
LEMMA QuietFound ==
  ASSUME NEW m \in Mounts, Held(m)' \subseteq Held(m) \cup {Nothing},
         entry'[m].cached = entry[m].cached, usage'[m] >= usage[m],
         \A p \in flying'[m] : since'[m][p] = IF p \in flying[m] THEN since[m][p] ELSE usage[m]
  PROVE  Found(m, Nothing)
BY DEF Found

LEMMA ReadFound ==
  ASSUME UsageInv, SinceInv, PassInv, NEW m \in Mounts, NEW r \in Readers, ReadMount(r)
  PROVE  Found(m, Nothing)
<1> DEFINE n == reader[r].path  e == entry[reader[r].path]
<1>1. /\ reader \in [Readers -> Readings] /\ usage \in [Mounts -> 0..MaxUsage]
      /\ UNCHANGED <<listed, usage>>
      /\ \A q \in Readers \ {r} : reader'[q] = reader[q]
  <2>1. UNCHANGED <<listed, usage>>
    BY ReaderReads DEF ReadMount, UseCached, Done, Timeout, Await
  <2> QED BY <2>1, ReaderReads DEF UsageInv, UsageTyped
<1>2. usage'[m] >= usage[m]
  BY <1>1, ProbeNumbers
<1>3. {got[m], listed[m]} \subseteq Held(m)
  BY HeldIs
<1>4. n = m => {e.cached, reader[r].cached, reader[r].answer} \subseteq Held(m)
  BY HeldIs
<1>5. CASE UseCached(r) \/ Done(r) \/ Timeout(r)
  <2>1. PICK x \in {e.cached, reader[r].cached, reader[r].answer} : Return(r, x)
    BY <1>5 DEF UseCached, Done, Timeout
  <2>2. n \in Mounts
    BY <1>5 DEF UsageInv, Busy, UseCached, Done, Timeout
  <2>3. got'[m] = IF n = m THEN x ELSE got[m]
    BY <2>1, <2>2 DEF Return, PassInv
  <2>4. reader'[r] = Idle /\ Idle.path # m
    BY <1>1, <2>1, ProbeNumbers DEF Return, Idle
  <2>5. entry'[m].cached = entry[m].cached
    BY <1>5, <2>2 DEF UseCached, Done, Timeout, GivenUp, UsageInv, UsageTyped, Entries
  <2>6. {got'[m], listed'[m]} \subseteq Held(m) \cup {Nothing}
    BY <1>1, <1>3, <1>4, <2>3
  <2>7. Held(m)' \subseteq Held(m) \cup {Nothing}
    BY <1>1, <2>4, <2>5, <2>6, OwnHeld
  <2>8. UNCHANGED <<flying, since>>
    BY <1>5 DEF UseCached, Done, Timeout
  <2> QED BY <1>2, <2>5, <2>7, <2>8, QuietFound
<1>6. CASE Await(r)
  <2>1. PICK p \in ProbeOf(n) :
          /\ entry' = [entry EXCEPT ![n].probe = p]
          /\ flying' = [flying EXCEPT ![n] = @ \cup {p}]
          /\ since' = [since EXCEPT ![n][p] = IF p \in flying[n] THEN @ ELSE usage[n]]
          /\ reader' = [reader EXCEPT ![r].at = "wait", ![r].probe = p, ![r].cached = e.cached]
    BY <1>6 DEF Await
  <2>2. n \in Mounts /\ got' = got
    BY <1>6 DEF Await, UsageInv, Busy
  <2>3. p \in Probes
    BY <2>2, ProbeOfOne
  <2>4. entry'[m].cached = entry[m].cached
    BY <2>1, <2>2 DEF UsageInv, UsageTyped, Entries
  <2>5. reader'[r].path = n /\ reader'[r].cached = e.cached /\ reader'[r].answer = reader[r].answer
    <3> HIDE DEF n, e
    <3>1. reader[r] \in Readings
      BY <1>1
    <3>2. reader'[r] = [[[reader[r] EXCEPT !.at = "wait"] EXCEPT !.probe = p] EXCEPT !.cached = e.cached]
      BY <1>1, <2>1
    <3> QED BY <3>1, <3>2 DEF Readings, n
  <2>6. {got'[m], listed'[m]} \subseteq Held(m) \cup {Nothing}
    BY <1>1, <1>3, <2>2
  <2>7. reader'[r].path = m =>
          {reader'[r].cached, reader'[r].answer} \subseteq Held(m) \cup {Nothing}
    BY <1>4, <2>5
  <2>8. Held(m)' \subseteq Held(m) \cup {Nothing}
    BY <1>1, <2>4, <2>6, <2>7, OwnHeld
  <2>9. \A q \in flying'[m] : since'[m][q] = IF q \in flying[m] THEN since[m][q] ELSE usage[m]
    BY <2>1, <2>2, <2>3 DEF SinceInv, UsageInv, UsageTyped
  <2> QED BY <1>2, <2>4, <2>8, <2>9, QuietFound
<1> QED BY <1>5, <1>6 DEF ReadMount

LEMMA ProbeFound ==
  ASSUME UsageInv, SinceInv, PassInv, NEW m \in Mounts, NEW n \in Mounts,
         NEW p \in flying[n], NEW v \in Usages, ProbeEnds(n, p, v),
         v # Nothing => v \in since[n][p]..usage[n]
  PROVE  \E x \in Usages : Found(m, x)
<1>1. /\ UNCHANGED <<usage, got, listed>>
      /\ flying' = [flying EXCEPT ![n] = @ \ {p}] /\ since' = [since EXCEPT ![n][p] = Nothing]
      /\ entry' = [entry EXCEPT ![n] = [cached |-> IF v = Nothing THEN @.cached ELSE v,
                                        probe |-> 0, stuck |-> FALSE]]
      /\ \A r \in Readers :
           \/ reader'[r] = reader[r]
           \/ reader[r].path = n /\ reader'[r] = [reader[r] EXCEPT !.at = "done", !.answer = v]
  BY DEF ProbeEnds, passVars
<1>2. flying[n] = {p} /\ p \in Probes
  BY DEF UsageInv, UsageTyped, StuckIsProbed
<1>3. flying'[n] = {} /\ (n # m => flying'[m] = flying[m] /\ since'[m] = since[m])
  BY <1>1, <1>2 DEF UsageInv, UsageTyped, SinceInv
<1>4. entry'[m].cached = IF n = m /\ v # Nothing THEN v ELSE entry[m].cached
  BY <1>1 DEF UsageInv, UsageTyped, Entries
<1>5. \A r \in Readers : /\ reader'[r].path = reader[r].path
                         /\ reader'[r].cached = reader[r].cached
                         /\ \/ reader'[r].answer = reader[r].answer
                            \/ reader'[r].answer = v /\ reader[r].path = n
  <2> TAKE r \in Readers
  <2>1. reader[r] \in Readings
    BY DEF UsageInv, UsageTyped
  <2> QED BY <1>1, <2>1 DEF Readings
<1>6. Held(m)' \subseteq Held(m) \cup {IF n = m THEN v ELSE Nothing, Nothing}
  <2> SUFFICES ASSUME NEW x \in Held(m)', x \notin Held(m), x # Nothing PROVE n = m /\ x = v
    OBVIOUS
  <2>1. CASE x \in {entry'[m].cached, got'[m], listed'[m]}
    BY <1>1, <1>4, <2>1, HeldIs
  <2>2. CASE \E r \in Readers : reader'[r].path = m /\ x \in {reader'[r].cached, reader'[r].answer}
    BY <1>5, <2>2, HeldIs
  <2> QED BY <2>1, <2>2, HeldIsNext
<1>7. usage[m] \in Nat /\ usage'[m] = usage[m]
  <2>1. usage[m] \in 0..MaxUsage
    BY DEF UsageInv, UsageTyped
  <2>2. usage' = usage
    BY <1>1
  <2> QED BY <2>1, <2>2, ProbeNumbers
<1>8. CASE n = m
  <2>1. Found(m, v)
    BY <1>2, <1>3, <1>4, <1>6, <1>7, <1>8 DEF Found
  <2> QED BY <2>1
<1>9. CASE n # m
  <2>1. Found(m, Nothing)
    BY <1>3, <1>4, <1>6, <1>7, <1>9 DEF Found
  <2> QED BY <2>1 DEF Usages
<1> QED BY <1>8, <1>9

LEMMA StepFound ==
  ASSUME UsageInv, SinceInv, JobsListed, PassInv, NEW m \in Mounts, [NextUsage]_usageVars
  PROVE  \E v \in Usages : Found(m, v)
<1> USE DEF Readers
<1>1. CASE \E r \in Readers : ReadMount(r)
  BY <1>1, ReadFound DEF Usages
<1>2. CASE \E n \in Mounts : Answers(n) \/ Fails(n)
  <2>1. CASE \E n \in Mounts : Fails(n)
    <3>1. PICK n \in Mounts, p \in Probes : ProbeEnds(n, p, Nothing)
      BY <2>1 DEF Fails
    <3>2. p \in flying[n]
      BY <3>1 DEF ProbeEnds
    <3> QED BY <3>1, <3>2, ProbeFound DEF Usages
  <2>2. CASE \E n \in Mounts : Answers(n)
    <3>1. PICK n \in Mounts : \E p \in flying[n] : \E v \in since[n][p]..usage[n] : ProbeEnds(n, p, v)
      BY <2>2 DEF Answers
    <3>2. PICK p \in flying[n] : \E v \in since[n][p]..usage[n] : ProbeEnds(n, p, v)
      BY <3>1
    <3>3. PICK v \in since[n][p]..usage[n] : ProbeEnds(n, p, v)
      BY <3>2
    <3>4. p \in Probes /\ since[n][p] \in 0..MaxUsage /\ usage[n] \in 0..MaxUsage
      BY DEF UsageInv, UsageTyped, SinceInv, Usages
    <3>5. v \in Usages
      BY <3>4, ProbeNumbers DEF Usages
    <3> QED BY <3>3, <3>5, ProbeFound
  <2> QED BY <1>2, <2>1, <2>2
<1>3. usage[m] \in Nat
  <2>1. usage[m] \in 0..MaxUsage
    BY DEF UsageInv, UsageTyped
  <2> QED BY <2>1, ProbeNumbers
<1>4. {got[m], listed[m]} \subseteq Held(m)
  BY HeldIs
<1>5. CASE Pass
  <2>1. UNCHANGED <<usage, entry, flying, since>>
    BY <1>5 DEF Pass, StartPass, TakeJob, Collected, ReadAgain, Store
  <2>2. {got'[m], listed'[m]} \subseteq {got[m], listed[m], Nothing}
    BY <1>5 DEF Pass, StartPass, TakeJob, Collected, ReadAgain, Store, NoReading
  <2>3. \E r \in Readers : /\ \A q \in Readers \ {r} : reader'[q] = reader[q]
                           /\ \/ reader'[r] = reader[r]
                              \/ reader'[r].cached = Nothing /\ reader'[r].answer = Nothing
    <3>1. CASE (\E w \in Workers : TakeJob(w)) \/ ReadAgain
      <4>0. PICK r \in Readers : \E n : Call(r, n)
        BY <3>1 DEF TakeJob, ReadAgain
      <4>1. PICK n : Call(r, n)
        BY <4>0
      <4> QED BY <4>1 DEF Call, Idle, UsageInv, UsageTyped
    <3>2. CASE StartPass \/ Collected \/ Store
      BY <3>2 DEF StartPass, Collected, Store
    <3> QED BY <1>5, <3>1, <3>2 DEF Pass
  <2>4. PICK r \in Readers : /\ \A q \in Readers \ {r} : reader'[q] = reader[q]
                             /\ \/ reader'[r] = reader[r]
                                \/ reader'[r].cached = Nothing /\ reader'[r].answer = Nothing
    BY <2>3
  <2>5. reader'[r].path = m =>
          {reader'[r].cached, reader'[r].answer} \subseteq Held(m) \cup {Nothing}
    BY <2>4, HeldIs
  <2>6. Held(m)' \subseteq Held(m) \cup {Nothing}
    <3>1. {got'[m], listed'[m]} \subseteq Held(m) \cup {Nothing}
      BY <1>4, <2>2
    <3>2. entry'[m].cached = entry[m].cached /\ reader \in [Readers -> Readings]
      BY <2>1 DEF UsageInv, UsageTyped
    <3> QED BY <2>4, <2>5, <3>1, <3>2, OwnHeld
  <2>7. Found(m, Nothing)
    BY <1>3, <2>1, <2>6, QuietFound
  <2> QED BY <2>7 DEF Usages
<1>6. CASE UNCHANGED <<entry, flying, since, reader, got, listed>> /\ usage'[m] >= usage[m]
  <2>1. Held(m)' = Held(m)
    BY <1>6 DEF Held
  <2>2. Found(m, Nothing)
    BY <1>6, <2>1, QuietFound
  <2> QED BY <2>2 DEF Usages
<1>7. CASE \E n \in Mounts : MountChanges(n) \/ UsageChanges(n)
  <2>1. usage'[m] >= usage[m]
    BY <1>3, <1>7 DEF MountChanges, UsageChanges, UsageInv, UsageTyped
  <2> QED BY <1>6, <1>7, <2>1 DEF MountChanges, UsageChanges, passVars
<1>8. CASE UNCHANGED usageVars
  BY <1>3, <1>6, <1>8 DEF usageVars, passVars
<1> QED BY <1>1, <1>2, <1>5, <1>7, <1>8 DEF NextUsage

\* What is held of a mount is no newer than what is cached, what is cached no newer than
\* what a running probe may find, and that no newer than the mount.
Order(m) ==
  /\ \A v \in Held(m) : v # Nothing => entry[m].cached # Nothing /\ v <= entry[m].cached
  /\ entry[m].cached # Nothing =>
       /\ entry[m].cached <= usage[m]
       /\ \A p \in flying[m] : entry[m].cached <= since[m][p]
  /\ \A p \in flying[m] : since[m][p] <= usage[m]

\* Nothing that is held of m, and nothing that will be read, is older than u.
Floor(m, u) ==
  /\ u <= usage[m]
  /\ \A v \in Held(m) : v # Nothing => u <= v
  /\ \A p \in flying[m] : u <= since[m][p]

\* The types of what these two are about.
LEMMA ReadingsTyped ==
  ASSUME UsageInv, SinceInv, PassInv, NEW m \in Mounts
  PROVE  /\ usage[m] \in Nat /\ entry[m].cached \in Nat \cup {Nothing}
         /\ Held(m) \subseteq Nat \cup {Nothing}
         /\ \A p \in flying[m] : since[m][p] \in Nat
<1>1. Usages \subseteq Nat \cup {Nothing} /\ 0..MaxUsage \subseteq Nat
  BY ProbeNumbers DEF Usages
<1>2. usage[m] \in 0..MaxUsage /\ entry[m].cached \in Usages
  BY DEF UsageInv, UsageTyped, Entries
<1>3. \A v \in Held(m) : v \in Usages
  <2>1. \A r \in Readers : reader[r].cached \in Usages /\ reader[r].answer \in Usages
    BY DEF UsageInv, UsageTyped, Readings
  <2>2. got[m] \in Usages /\ listed[m] \in Usages
    BY DEF PassInv
  <2> QED BY <1>2, <2>1, <2>2, HeldIs
<1>4. \A p \in flying[m] : since[m][p] \in Usages \ {Nothing}
  BY DEF SinceInv, UsageInv, UsageTyped
<1> QED BY <1>1, <1>2, <1>3, <1>4

LEMMA OrderStep ==
  ASSUME UsageInv, SinceInv, PassInv, UsageInv', SinceInv', PassInv', NEW m \in Mounts,
         NEW v \in Usages, Found(m, v), Order(m)
  PROVE  Order(m)'
<1>1. /\ usage[m] \in Nat /\ usage'[m] \in Nat
      /\ entry[m].cached \in Nat \cup {Nothing} /\ v \in Nat \cup {Nothing}
      /\ Held(m) \subseteq Nat \cup {Nothing} /\ Nothing \notin Nat
      /\ \A p \in flying[m] : since[m][p] \in Nat
  BY ReadingsTyped, UsageAssumption DEF UsageInv, UsageTyped, Usages
<1> DEFINE old == entry[m].cached  new == entry'[m].cached
<1>2. CASE v = Nothing
  <2>1. new = old /\ Held(m)' \subseteq Held(m) \cup {Nothing} /\ usage'[m] >= usage[m]
    BY <1>2 DEF Found
  <2>2. \A w \in Held(m)' : w # Nothing => new # Nothing /\ w <= new
    BY <2>1 DEF Order
  <2>3. \A p \in flying'[m] : since'[m][p] <= usage'[m] /\ (new # Nothing => new <= since'[m][p])
    BY <1>1, <2>1 DEF Order, Found
  <2>4. new # Nothing => new <= usage'[m]
    BY <1>1, <2>1 DEF Order
  <2> QED BY <2>2, <2>3, <2>4 DEF Order
<1>3. CASE v # Nothing
  <2>1. PICK p \in flying[m] : v \in since[m][p]..usage[m]
    BY <1>3 DEF Found
  <2>2. new = v /\ flying'[m] = {} /\ Held(m)' \subseteq Held(m) \cup {v, Nothing}
        /\ usage'[m] >= usage[m]
    BY <1>3 DEF Found
  <2>3. v <= usage'[m] /\ (old # Nothing => old <= v)
    BY <1>1, <1>3, <2>1, <2>2 DEF Order
  <2>4. \A w \in Held(m)' : w # Nothing => w <= v
    <3> SUFFICES ASSUME NEW w \in Held(m)', w # Nothing PROVE w <= v
      OBVIOUS
    <3>1. CASE w = v
      BY <1>1, <1>3, <3>1
    <3>2. CASE w \in Held(m)
      <4>1. old # Nothing /\ w <= old /\ w \in Nat
        BY <1>1, <3>2 DEF Order
      <4> QED BY <1>1, <1>3, <2>3, <4>1
    <3> QED BY <2>2, <3>1, <3>2
  <2> QED BY <1>3, <2>2, <2>3, <2>4 DEF Order
<1> QED BY <1>2, <1>3

LEMMA FloorStep ==
  ASSUME UsageInv, SinceInv, PassInv, UsageInv', NEW m \in Mounts, NEW u \in Nat,
         NEW v \in Usages, Found(m, v), Floor(m, u)
  PROVE  Floor(m, u)'
<1>1. /\ usage[m] \in Nat /\ usage'[m] \in Nat /\ v \in Nat \cup {Nothing}
      /\ \A p \in flying[m] : since[m][p] \in Nat
  BY ReadingsTyped, ProbeNumbers DEF UsageInv, UsageTyped, Usages
<1>2. u <= usage'[m]
  BY <1>1 DEF Floor, Found
<1>3. v # Nothing => u <= v
  BY <1>1 DEF Floor, Found
<1>4. \A w \in Held(m)' : w # Nothing => u <= w
  BY <1>3 DEF Floor, Found
<1>5. \A p \in flying'[m] : u <= since'[m][p]
  BY <1>1 DEF Floor, Found
<1> QED BY <1>2, <1>4, <1>5 DEF Floor

\* What is shown of m, and in which of the two fields.
ShownFloor(m) ==
  /\ slow.filesystems[m] # Nothing => Floor(m, slow.filesystems[m])
  /\ slow.storages[m] # Nothing => Floor(m, slow.storages[m])

\* When a pass ends nobody reads, so all that is left is what is cached.
LEMMA StoreFloor ==
  ASSUME UsageInv, SinceInv, PassInv, PassInv', NEW m \in Mounts, Order(m), Store
  PROVE  ShownFloor(m)'
<1>1. /\ UNCHANGED <<usage, entry, flying, since, reader>>
      /\ got'[m] = Nothing /\ listed'[m] = Nothing
      /\ slow'.filesystems[m] = listed[m] /\ slow'.storages[m] = got[m]
  BY DEF Store, NoReading
<1>2. \A r \in Readers : reader[r] = Idle
  BY DEF Store, PassInv, Readers
<1>3. Held(m)' \subseteq {entry[m].cached, Nothing}
  <2> SUFFICES ASSUME NEW v \in Held(m)' PROVE v \in {entry[m].cached, Nothing}
    OBVIOUS
  <2> QED BY <1>1, <1>2, HeldIsNext DEF Idle
<1>4. ASSUME NEW u \in Held(m), u # Nothing PROVE Floor(m, u)'
  <2>1. /\ usage[m] \in Nat /\ entry[m].cached \in Nat \cup {Nothing} /\ u \in Nat
        /\ \A p \in flying[m] : since[m][p] \in Nat
    BY <1>4, ReadingsTyped
  <2>2. entry[m].cached # Nothing /\ u <= entry[m].cached
    BY <1>4 DEF Order
  <2>3. u <= usage[m] /\ \A p \in flying[m] : u <= since[m][p]
    BY <2>1, <2>2 DEF Order
  <2> QED BY <1>1, <1>3, <2>2, <2>3 DEF Floor
<1>5. got[m] \in Held(m) /\ listed[m] \in Held(m)
  BY HeldIs
<1> QED BY <1>1, <1>4, <1>5 DEF ShownFloor

\* The inductive invariant of what the slow pass shows.
OrderInv == PassInv /\ \A m \in Mounts : Order(m) /\ ShownFloor(m)

LEMMA OrderInvInit == InitUsage => OrderInv
<1> SUFFICES ASSUME InitUsage PROVE OrderInv
  OBVIOUS
<1>1. PassInv
  BY DEF InitUsage, PassInv, Readers, NoReading, Usages
<1>2. ASSUME NEW m \in Mounts PROVE Order(m) /\ ShownFloor(m)
  <2>1. \A v \in Held(m) : v = Nothing
    BY HeldIs DEF InitUsage, NoReading, NewEntry, Idle
  <2>2. entry[m].cached = Nothing /\ flying[m] = {}
    BY DEF InitUsage, NewEntry
  <2>3. slow.filesystems[m] = Nothing /\ slow.storages[m] = Nothing
    BY DEF InitUsage, NoReading
  <2> QED BY <2>1, <2>2, <2>3 DEF Order, ShownFloor
<1> QED BY <1>1, <1>2 DEF OrderInv

\* A field that a step other than Store leaves as it is.
LEMMA SlowKept == ASSUME [NextUsage]_usageVars, ~Store PROVE slow' = slow
BY DEF NextUsage, ReadMount, UseCached, Await, Done, Timeout, Answers, Fails, ProbeEnds, Pass,
       StartPass, TakeJob, Collected, ReadAgain, MountChanges, UsageChanges, passVars, usageVars

LEMMA OrderInvStep ==
  ASSUME UsageInv, SinceInv, JobsListed, OrderInv, [NextUsage]_usageVars, UsageInv', SinceInv'
  PROVE  OrderInv'
<1>1. PassInv /\ PassInv'
  BY PassStep DEF OrderInv
<1>2. ASSUME NEW m \in Mounts PROVE Order(m)' /\ ShownFloor(m)'
  <2>1. Order(m) /\ ShownFloor(m)
    BY DEF OrderInv
  <2>2. PICK v \in Usages : Found(m, v)
    BY <1>1, StepFound
  <2>3. Order(m)'
    BY <1>1, <2>1, <2>2, OrderStep
  <2>4. CASE Store
    BY <1>1, <2>1, <2>3, <2>4, StoreFloor
  <2>5. CASE ~Store
    <3>1. slow' = slow
      BY <2>5, SlowKept
    <3>2. \A u \in {slow.filesystems[m], slow.storages[m]} : u # Nothing => u \in Nat
      BY <1>1, ProbeNumbers DEF PassInv, Usages
    <3>3. \A u \in Nat : Floor(m, u) => Floor(m, u)'
      BY <1>1, <2>2, FloorStep
    <3> QED BY <2>1, <2>3, <3>1, <3>2, <3>3 DEF ShownFloor
  <2> QED BY <2>4, <2>5
<1> QED BY <1>1, <1>2 DEF OrderInv

\* The readings of fsUsageReader come in order, for any mounts and workers.
THEOREM ReadingsOrdered == SpecUsage => []OrderInv
<1>1. /\ UsageInv /\ SinceInv /\ JobsListed /\ OrderInv /\ UsageInv' /\ SinceInv'
      /\ [NextUsage]_usageVars
      => OrderInv'
  BY OrderInvStep
<1> QED BY <1>1, OrderInvInit, ProbesOwned, PTL DEF SpecUsage

\* For any mounts and workers, however long a mount hangs and however many ask: one
\* goroutine is in statfs, and no reading older than the one that is shown is about.
THEOREM SingleProbe == SpecUsage => []ReadingsInOrder
<1>1. UsageInv /\ SinceInv /\ OrderInv => ReadingsInOrder
  <2> SUFFICES ASSUME UsageInv, SinceInv, OrderInv, NEW m \in Mounts
               PROVE  /\ Cardinality(flying[m]) <= 1
                      /\ \A shown \in Displayed(m), v \in InHand(m) : shown <= v
    BY DEF ReadingsInOrder
  <2>1. flying[m] = {} \/ flying[m] = {entry[m].probe}
    BY DEF UsageInv, StuckIsProbed
  <2>2. Cardinality({}) = 0 /\ Cardinality({entry[m].probe}) = 1
    BY FS_EmptySet, FS_Singleton
  <2>3. flying[m] = {} => Cardinality(flying[m]) <= 1
    BY <2>2
  <2>4. flying[m] = {entry[m].probe} => Cardinality(flying[m]) <= 1
    BY <2>2
  <2>5. \A shown \in Displayed(m) : Floor(m, shown)
    BY DEF OrderInv, ShownFloor, Displayed
  <2>6. \A shown \in Displayed(m), v \in InHand(m) : shown <= v
    BY <2>5 DEF Floor, InHand
  <2>7. Cardinality(flying[m]) <= 1
    BY <2>1, <2>3, <2>4
  <2> QED BY <2>6, <2>7
<1> QED BY <1>1, ProbesOwned, ReadingsOrdered, PTL

\* Nothing below the floor is shown: whatever is stored was held.
LEMMA ShownAboveFloor ==
  ASSUME UsageInv, SinceInv, OrderInv, OrderInv', NEW m \in Mounts, NEW u \in Nat, Floor(m, u),
         [NextUsage]_usageVars
  PROVE  /\ slow'.filesystems[m] \in {slow.filesystems[m], Nothing} \cup {w \in Usages : u <= w}
         /\ slow'.storages[m] \in {slow.storages[m], Nothing} \cup {w \in Usages : u <= w}
<1>1. CASE Store
  <2>1. slow'.filesystems[m] = listed[m] /\ slow'.storages[m] = got[m]
    BY <1>1 DEF Store
  <2>2. got[m] \in Held(m) /\ listed[m] \in Held(m) /\ got[m] \in Usages /\ listed[m] \in Usages
    BY HeldIs DEF OrderInv, PassInv
  <2> QED BY <2>1, <2>2 DEF Floor
<1>2. CASE ~Store
  BY <1>2, SlowKept
<1> QED BY <1>1, <1>2

\* The usage that is shown of a mount, or of its storage, never goes back: a probe that
\* returns late, a reader that timed out and a pass that reads again all bring a reading
\* at least as new.
THEOREM NeverOlder == SpecUsage => ShownAdvances
<1> SUFFICES ASSUME NEW m \in Mounts, NEW u \in 0..MaxUsage
    PROVE SpecUsage =>
      /\ [](slow.filesystems[m] = u => [](slow.filesystems[m] \in {Nothing} \cup u..MaxUsage))
      /\ [](slow.storages[m] = u => [](slow.storages[m] \in {Nothing} \cup u..MaxUsage))
  BY DEF ShownAdvances
<1> DEFINE Inv == UsageInv /\ SinceInv /\ JobsListed /\ OrderInv
           Fs == Floor(m, u) /\ slow.filesystems[m] \in {Nothing} \cup u..MaxUsage
           St == Floor(m, u) /\ slow.storages[m] \in {Nothing} \cup u..MaxUsage
<1>1. SpecUsage => []Inv
  BY ProbesOwned, ReadingsOrdered, PTL
<1>2. u \in Nat /\ u # Nothing /\ MaxUsage \in Nat /\ u \in u..MaxUsage
  BY UsageAssumption
<1>3. Inv /\ slow.filesystems[m] = u => Fs
  BY <1>2 DEF OrderInv, ShownFloor
<1>4. Inv /\ slow.storages[m] = u => St
  BY <1>2 DEF OrderInv, ShownFloor
<1>5. Inv /\ Inv' /\ [NextUsage]_usageVars /\ Floor(m, u) => Floor(m, u)'
  <2> SUFFICES ASSUME Inv, Inv', [NextUsage]_usageVars, Floor(m, u) PROVE Floor(m, u)'
    OBVIOUS
  <2>1. PICK v \in Usages : Found(m, v)
    BY StepFound DEF OrderInv
  <2> QED BY <1>2, <2>1, FloorStep DEF OrderInv
<1>6. \A w \in Usages : u <= w => w \in {Nothing} \cup u..MaxUsage
  BY <1>2 DEF Usages
<1>7. Inv /\ Inv' /\ [NextUsage]_usageVars /\ Fs => Fs'
  <2> SUFFICES ASSUME Inv, Inv', [NextUsage]_usageVars, Fs PROVE Fs'
    OBVIOUS
  <2>1. slow'.filesystems[m] \in {slow.filesystems[m], Nothing} \cup {w \in Usages : u <= w}
    BY <1>2, ShownAboveFloor
  <2> QED BY <1>5, <1>6, <2>1
<1>8. Inv /\ Inv' /\ [NextUsage]_usageVars /\ St => St'
  <2> SUFFICES ASSUME Inv, Inv', [NextUsage]_usageVars, St PROVE St'
    OBVIOUS
  <2>1. slow'.storages[m] \in {slow.storages[m], Nothing} \cup {w \in Usages : u <= w}
    BY <1>2, ShownAboveFloor
  <2> QED BY <1>5, <1>6, <2>1
<1>9. /\ Fs => slow.filesystems[m] \in {Nothing} \cup u..MaxUsage
      /\ St => slow.storages[m] \in {Nothing} \cup u..MaxUsage
  OBVIOUS
<1> HIDE DEF Inv, Fs, St
<1> QED BY <1>1, <1>3, <1>4, <1>7, <1>8, <1>9, PTL DEF SpecUsage

-----------------------------------------------------------------------------
(* Sampling *)

\* Until it is reset a counter is the last reading and what moved since; after that
\* it is no more than what moved.
Accounted ==
  \A d \in Devices :
    lastIO[d] # Absent =>
      IF reset[d] THEN count[d] <= moved[d] ELSE count[d] = lastIO[d] + moved[d]

IOTyped ==
  /\ count \in [Devices -> Nat] /\ moved \in [Devices -> Nat] /\ reset \in [Devices -> BOOLEAN]
  /\ lastIO \in [Devices -> Nat \cup {Absent}]

IOInv == IOTyped /\ Accounted

LEMMA IOInit == InitSampling => IOInv
BY DEF InitSampling, NewSampler, IOInv, IOTyped, Accounted

\* A sample reads what moved, and the next one starts from what it read.
LEMMA SampleReads ==
  ASSUME IOInv, SampleIO
  PROVE  /\ IOInv'
         /\ \A d \in Devices :
              LET compared == timed /\ lastIO[d] # Absent /\ rate'[d] # Absent IN
                /\ compared => rate'[d] <= moved[d]
                /\ ~compared => rate'[d] \in {0, Absent}
                /\ compared /\ rate'[d] # 0 /\ ~reset[d] => rate'[d] = moved[d]
<1> USE SamplingAssumption
<1> DEFINE Prev(d, ticked) ==
      IF ticked /\ timed /\ lastIO[d] # Absent THEN lastIO[d] ELSE count[d]
<1>1. PICK visible \in SUBSET Devices, ticked \in BOOLEAN :
        /\ rate' = [d \in Devices |->
                      IF d \in visible THEN SafeDiff(count[d], Prev(d, ticked)) ELSE Absent]
        /\ lastIO' = LastIO(visible) /\ moved' = [d \in Devices |-> 0]
        /\ reset' = [d \in Devices |-> FALSE] /\ UNCHANGED count
  BY DEF SampleIO
<1>2. IOInv'
  <2>1. IOTyped'
    BY <1>1 DEF IOInv, IOTyped, LastIO
  <2>2. \A d \in Devices : lastIO'[d] # Absent => count'[d] = lastIO'[d] + moved'[d] /\ ~reset'[d]
    BY <1>1 DEF IOInv, IOTyped, LastIO
  <2> QED BY <2>1, <2>2 DEF IOInv, Accounted
<1>3. ASSUME NEW d \in Devices
      PROVE  LET compared == timed /\ lastIO[d] # Absent /\ rate'[d] # Absent IN
               /\ compared => rate'[d] <= moved[d]
               /\ ~compared => rate'[d] \in {0, Absent}
               /\ compared /\ rate'[d] # 0 /\ ~reset[d] => rate'[d] = moved[d]
  <2>1. count[d] \in Nat /\ moved[d] \in Nat /\ (lastIO[d] # Absent => lastIO[d] \in Nat)
    BY DEF IOInv, IOTyped
  <2>2. CASE d \notin visible
    <3>1. rate'[d] = Absent
      BY <1>1, <2>2
    <3> QED BY <3>1
  <2>3. CASE d \in visible
    <3>1. rate'[d] = SafeDiff(count[d], Prev(d, ticked))
      BY <1>1, <2>3
    <3>2. CASE ticked /\ timed /\ lastIO[d] # Absent
      <4>1. rate'[d] = IF count[d] >= lastIO[d] THEN count[d] - lastIO[d] ELSE 0
        BY <3>1, <3>2 DEF SafeDiff
      <4>2. IF reset[d] THEN count[d] <= moved[d] ELSE count[d] = lastIO[d] + moved[d]
        BY <3>2 DEF IOInv, Accounted
      <4>3. lastIO[d] \in Nat
        BY <2>1, <3>2
      <4>4. rate'[d] <= moved[d] /\ (rate'[d] # 0 /\ ~reset[d] => rate'[d] = moved[d])
        BY <2>1, <4>1, <4>2, <4>3
      <4>5. rate'[d] \in Nat
        BY <2>1, <4>1, <4>3
      <4> QED BY <3>2, <4>4, <4>5
    <3>3. CASE ~(ticked /\ timed /\ lastIO[d] # Absent)
      <4>1. rate'[d] = 0
        BY <2>1, <3>1, <3>3 DEF SafeDiff
      <4> QED BY <2>1, <4>1
    <3> QED BY <3>2, <3>3
  <2> QED BY <2>2, <2>3
<1> QED BY <1>2, <1>3

LEMMA IOStep == IOInv /\ [NextSampling]_samplerVars => IOInv'
<1> SUFFICES ASSUME IOInv, [NextSampling]_samplerVars PROVE IOInv'
  OBVIOUS
<1>1. CASE Sample
  BY <1>1, SampleReads DEF Sample
<1>2. ASSUME NEW d \in Devices, Traffic(d) PROVE IOInv'
  <2>1. IOTyped'
    BY <1>2 DEF Traffic, IOInv, IOTyped
  <2>2. Accounted'
    BY <1>2 DEF Traffic, IOInv, IOTyped, Accounted
  <2> QED BY <2>1, <2>2 DEF IOInv
<1>3. ASSUME NEW d \in Devices, Reset(d) PROVE IOInv'
  <2>1. IOTyped'
    BY <1>3 DEF Reset, IOInv, IOTyped
  <2>2. Accounted'
    BY <1>3 DEF Reset, IOInv, IOTyped, Accounted
  <2> QED BY <2>1, <2>2 DEF IOInv
<1>4. CASE UNCHANGED ioVars
  BY <1>4 DEF ioVars, IOInv, IOTyped, Accounted
<1>5. CASE Publish \/ (\E b \in Builders : GetSnapshot(b) \/ GetTime(b)) \/ UNCHANGED samplerVars
  BY <1>4, <1>5 DEF Publish, GetSnapshot, GetTime, ioVars, samplerVars
<1> QED BY <1>1, <1>2, <1>3, <1>5 DEF NextSampling, HostIO

\* For any devices, resets and clocks: what a sample shows as traffic is traffic.
THEOREM RatesTrue == SpecSampling => RatesAreTraffic
<1> DEFINE Reads ==
      samples' # samples =>
        \A d \in Devices :
          LET compared == timed /\ lastIO[d] # Absent /\ rate'[d] # Absent IN
            /\ compared => rate'[d] <= moved[d]
            /\ ~compared => rate'[d] \in {0, Absent}
            /\ compared /\ rate'[d] # 0 /\ ~reset[d] => rate'[d] = moved[d]
<1>1. IOInv /\ [NextSampling]_samplerVars => [Reads]_samplerVars
  <2> SUFFICES ASSUME IOInv, [NextSampling]_samplerVars, samples' # samples PROVE Reads
    BY DEF samplerVars
  <2>1. Sample
    BY DEF NextSampling, HostIO, Traffic, Reset, Publish, GetSnapshot, GetTime, samplerVars
  <2> QED BY <2>1, SampleReads DEF Sample
<1> QED BY <1>1, IOInit, IOStep, PTL DEF SpecSampling, RatesAreTraffic
=============================================================================
