----------------------------- MODULE HostStatic -----------------------------
(***************************************************************************)
(* What StaticSync reports (internal/collect/sampler.go): Static() reads   *)
(* the host without the lock, merges what it read into the sampler's       *)
(* fields under it, and puts the snapshot together from these fields, the  *)
(* memory and the slow cache.  The goroutines of the targets and the       *)
(* watcher do this concurrently.                                           *)
(*                                                                         *)
(* A snapshot is a record: sys stands for the fields of the system and the *)
(* CPU, rest for what is not merged: the memory, the latest sample and the *)
(* slow cache, which any pass of collectSlow may replace.                  *)
(***************************************************************************)
EXTENDS StaticSync

CONSTANTS Names,      \* what the host may say of itself
          Unknown,    \* a host that does not answer
          Rests,      \* memory, slow cache and latest sample
          NoMemory,   \* those without the total of the memory
          Watcher     \* watchStaticChanges, a caller of Static() like the targets

\* missingCompleteFields
Missing(s) == s.sys = Unknown \/ s.rest \in NoMemory

ASSUME HostAssumption ==
  /\ Unknown \notin Names /\ NoMemory \subseteq Rests
  /\ Watcher \notin Targets
  /\ Snapshots = [sys : Names \cup {Unknown}, rest : Rests]
  /\ Partial = {s \in Snapshots : Missing(s)}

VARIABLES
  host,     \* what the host says of itself now
  asked,    \* where the call of each caller is
  heard     \* what it read of the host

hostVars == <<host, asked, heard>>
syncVars == <<fp, fpSet, targetVars, wake, failed, watcher, seen>>
staticVars == <<vars, hostVars>>

Callers == Targets \cup {Watcher}

Merge_Overwrites(dst, src) == src
Merge_FillsIn(dst, src) == IF dst = Unknown THEN src ELSE dst
\* mergeSystem, mergeCPU: what could not be read does not count.
Merge(dst, src) == IF src = Unknown THEN dst ELSE src

\* NewSampler has called refreshStatic.
InitStatic ==
  /\ Init
  /\ host \in Names \cup {Unknown}
  /\ static \in [sys : {host}, rest : Rests]
  /\ asked = [c \in Callers |-> "no"] /\ heard = [c \in Callers |-> Unknown]

-----------------------------------------------------------------------------
\* c has called Static().
Calls(c) == IF c = Watcher THEN watcher = "idle" ELSE at[c] = "read"

\* readSystem, readCPUInfo: without the lock.
ReadHost(c) ==
  /\ Calls(c) /\ asked[c] = "no"
  /\ asked' = [asked EXCEPT ![c] = "read"] /\ heard' = [heard EXCEPT ![c] = host]
  /\ UNCHANGED <<static, host, syncVars>>

\* refreshStatic: under the lock.
Refresh(c) ==
  /\ asked[c] = "read"
  /\ asked' = [asked EXCEPT ![c] = "merged"] /\ heard' = [heard EXCEPT ![c] = Unknown]
  /\ static' = [static EXCEPT !.sys = Merge(@, heard[c])]
  /\ UNCHANGED <<host, syncVars>>

\* The fields are read, and the call returns to syncStatic ...
ReadStatic(t) ==
  /\ asked[t] = "merged" /\ Read(t)
  /\ asked' = [asked EXCEPT ![t] = "no"]
  /\ UNCHANGED <<host, heard>>

\* ... or to staticChanged.
LookStatic ==
  /\ asked[Watcher] = "merged" /\ Look
  /\ asked' = [asked EXCEPT ![Watcher] = "no"]
  /\ UNCHANGED <<host, heard>>

\* A pass of collectSlow ends, or memory can or cannot be read.
RestChanges ==
  /\ \E r \in Rests \ {static.rest} : static' = [static EXCEPT !.rest = r]
  /\ UNCHANGED <<hostVars, syncVars>>

\* The host is renamed or upgraded, or does not answer.
HostChanges ==
  /\ host' \in (Names \cup {Unknown}) \ {host}
  /\ UNCHANGED <<vars, asked, heard>>

\* The steps of a sync that do not call Static().
SyncOther(t) ==
  /\ Startup(t) \/ Woken(t) \/ RetryTimer(t) \/ SendOk(t) \/ SendFails(t) \/ Record(t)
  /\ UNCHANGED hostVars

\* Those of the watcher.
Watch == (Compare \/ WakeAll) /\ UNCHANGED hostVars

NextStatic ==
  \/ \E c \in Callers : ReadHost(c) \/ Refresh(c)
  \/ \E t \in Targets : ReadStatic(t)
  \/ LookStatic \/ RestChanges \/ HostChanges
  \/ \E t \in Targets : SyncOther(t)
  \/ Watch
  \/ (\E t \in Targets : MetricsFail(t) \/ Recover(t)) /\ UNCHANGED hostVars

SpecStatic == InitStatic /\ [][NextStatic]_staticVars

\* Goroutines run, timers and tickers fire, and a server that is asked again
\* and again answers in the end.
FairStatic ==
  /\ \A c \in Callers : WF_staticVars(ReadHost(c)) /\ WF_staticVars(Refresh(c))
  /\ \A t \in Targets :
       /\ WF_staticVars(ReadStatic(t)) /\ WF_staticVars(SyncOther(t))
       /\ SF_staticVars(SendOk(t) /\ UNCHANGED hostVars)
  /\ WF_staticVars(LookStatic) /\ WF_staticVars(Watch)

FairSpecStatic == SpecStatic /\ FairStatic

-----------------------------------------------------------------------------
(* Properties *)

\* Once the sampler is there, so is a snapshot.
TypeOKStatic ==
  /\ static \in Snapshots
  /\ host \in Names \cup {Unknown}
  /\ asked \in [Callers -> {"no", "read", "merged"}]
  /\ heard \in [Callers -> Names \cup {Unknown}]

\* What a host has once said of itself is never reported as missing again, however
\* the calls of Static() overlap and fail.
KnownStays ==
  [][\A t \in Targets :
       stored[t] # None /\ stored[t].sys # Unknown => stored'[t].sys # Unknown]_staticVars

\* The state of the host reaches every server once it stays: when a call merges an older
\* reading after a newer one, and the older is sent or compared, that is made good.
HostReachesServers ==
  \A t \in Targets, h \in Names, r \in Rests :
    <>[](host = h /\ static.rest = r) => <>[](stored[t] = [sys |-> h, rest |-> r])
=============================================================================
