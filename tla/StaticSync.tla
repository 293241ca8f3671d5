----------------------------- MODULE StaticSync -----------------------------
(***************************************************************************)
(* Reporting of static metadata (internal/push/push.go): one goroutine per *)
(* target (runStatic, syncStatic), the watcher that compares fingerprints  *)
(* (watchStaticChanges, staticChanged) and the wake-ups a recovered target *)
(* gets from the rounds of metrics (sendTarget).                           *)
(*                                                                         *)
(* A snapshot stands for its fingerprint: the hash of everything but the   *)
(* timestamp.  stored[t] is what the server of target t has.               *)
(***************************************************************************)
EXTENDS Naturals, FiniteSets

CONSTANTS Targets,
          Snapshots,   \* contents of a static snapshot
          Partial,     \* those that missingCompleteFields complains about
          None         \* no snapshot yet

ASSUME StaticAssumption ==
  /\ Partial \subseteq Snapshots
  /\ None \notin Snapshots

VARIABLES
  static,    \* what the sampler's Static() returns
  fp, fpSet, \* a.staticFP, a.staticFPSet: one for all targets
  at,        \* where runStatic of each target is
  snap,      \* the snapshot a sync works with
  stored,    \* what each server last accepted
  wake,      \* len(target.staticWake)
  failed,    \* rpcFailed, or connRefusedSuppressed, of each target
  watcher,   \* where watchStaticChanges is
  seen       \* the fingerprint the watcher computed

targetVars == <<at, snap, stored>>
vars == <<static, fp, fpSet, targetVars, wake, failed, watcher, seen>>

Init ==
  /\ static \in Snapshots \cup {None}
  /\ fp = None /\ fpSet = FALSE
  /\ at = [t \in Targets |-> "start"]
  /\ snap = [t \in Targets |-> None] /\ stored = [t \in Targets |-> None]
  /\ wake = [t \in Targets |-> 0]
  /\ failed = [t \in Targets |-> FALSE]
  /\ watcher = "idle" /\ seen = None

-----------------------------------------------------------------------------
(* runStatic and syncStatic *)

\* A sync starts at startup, ...
Startup(t) ==
  /\ at[t] = "start"
  /\ at' = [at EXCEPT ![t] = "read"]
  /\ UNCHANGED <<static, fp, fpSet, snap, stored, wake, failed, watcher, seen>>

\* ... with a wake-up, whether a retry is due or not, ...
Woken(t) ==
  /\ at[t] \in {"idle", "retry"} /\ wake[t] > 0
  /\ wake' = [wake EXCEPT ![t] = @ - 1]
  /\ at' = [at EXCEPT ![t] = "read"]
  /\ UNCHANGED <<static, fp, fpSet, snap, stored, failed, watcher, seen>>

\* ... or 10 s after one that asked for a retry.
RetryTimer(t) ==
  /\ at[t] = "retry"
  /\ at' = [at EXCEPT ![t] = "read"]
  /\ UNCHANGED <<static, fp, fpSet, snap, stored, wake, failed, watcher, seen>>

\* The snapshot is collected; without a valid one the sync asks for a retry.
Read(t) ==
  /\ at[t] = "read"
  /\ snap' = [snap EXCEPT ![t] = static]
  /\ at' = [at EXCEPT ![t] = IF static = None THEN "retry" ELSE "send"]
  /\ UNCHANGED <<static, fp, fpSet, stored, wake, failed, watcher, seen>>

\* The server has the snapshot and the node learns that it does.
SendOk(t) ==
  /\ at[t] = "send"
  /\ stored' = [stored EXCEPT ![t] = snap[t]]
  /\ at' = [at EXCEPT ![t] = "record"]
  /\ UNCHANGED <<static, fp, fpSet, snap, wake, failed, watcher, seen>>

RetryAfterError_Not == "idle"
RetryAfterError == "retry"

\* An error, after the plaintext fallback of fallbackHTTP failed, too, if there
\* was one; the server may have stored the snapshot nevertheless.
SendFails(t) ==
  /\ at[t] = "send"
  /\ stored' \in {stored, [stored EXCEPT ![t] = snap[t]]}
  /\ at' = [at EXCEPT ![t] = RetryAfterError]
  /\ snap' = [snap EXCEPT ![t] = None]
  /\ UNCHANGED <<static, fp, fpSet, wake, failed, watcher, seen>>

Recorded(t) == snap[t]

\* recordStaticFingerprint; a partial snapshot is sent again later.
Record(t) ==
  /\ at[t] = "record"
  /\ fp' = Recorded(t) /\ fpSet' = TRUE
  /\ at' = [at EXCEPT ![t] = IF snap[t] \in Partial THEN "retry" ELSE "idle"]
  /\ snap' = [snap EXCEPT ![t] = None]
  /\ UNCHANGED <<static, stored, wake, failed, watcher, seen>>

-----------------------------------------------------------------------------
(* watchStaticChanges *)

\* The ticker: staticChanged collects a snapshot before it takes the lock.
Look ==
  /\ watcher = "idle"
  /\ static # None
  /\ seen' = static /\ watcher' = "compare"
  /\ UNCHANGED <<static, fp, fpSet, targetVars, wake, failed>>

\* The comparison under staticMu.  The first fingerprint is adopted silently.
Compare ==
  /\ watcher = "compare"
  /\ fp' = seen /\ fpSet' = TRUE
  /\ watcher' = IF fpSet /\ fp # seen THEN "wake" ELSE "idle"
  /\ seen' = None
  /\ UNCHANGED <<static, targetVars, wake, failed>>

\* wakeStatic: the channel holds one wake-up, further ones are dropped.
Signal(n) == IF n = 0 THEN 1 ELSE n

WakeAll ==
  /\ watcher = "wake"
  /\ wake' = [t \in Targets |-> Signal(wake[t])]
  /\ watcher' = "idle"
  /\ UNCHANGED <<static, fp, fpSet, targetVars, failed, seen>>

-----------------------------------------------------------------------------
(* sendTarget, and the host *)

\* A round fails to report metrics to t: one failed RPC, or the third refused
\* connection.
MetricsFail(t) ==
  /\ failed' = [failed EXCEPT ![t] = TRUE]
  /\ UNCHANGED <<static, fp, fpSet, targetVars, wake, watcher, seen>>

\* The round in which t recovers wakes its sync.
Recover(t) ==
  /\ failed[t]
  /\ failed' = [failed EXCEPT ![t] = FALSE]
  /\ wake' = [wake EXCEPT ![t] = Signal(@)]
  /\ UNCHANGED <<static, fp, fpSet, targetVars, watcher, seen>>

\* The host's hardware or software changes, or more of it is collected.
Change ==
  /\ static' \in Snapshots \ {static}
  /\ UNCHANGED <<fp, fpSet, targetVars, wake, failed, watcher, seen>>

-----------------------------------------------------------------------------
Sync(t) ==
  \/ Startup(t) \/ Woken(t) \/ RetryTimer(t) \/ Read(t)
  \/ SendOk(t) \/ SendFails(t) \/ Record(t)

Next ==
  \/ \E t \in Targets : Sync(t) \/ MetricsFail(t) \/ Recover(t)
  \/ Look \/ Compare \/ WakeAll \/ Change

Spec == Init /\ [][Next]_vars

-----------------------------------------------------------------------------
(* Properties *)

TypeOK ==
  /\ static \in Snapshots \cup {None}
  /\ fp \in Snapshots \cup {None} /\ fpSet \in BOOLEAN
  /\ at \in [Targets -> {"start", "idle", "retry", "read", "send", "record"}]
  /\ snap \in [Targets -> Snapshots \cup {None}]
  /\ stored \in [Targets -> Snapshots \cup {None}]
  /\ wake \in [Targets -> 0..1] /\ failed \in [Targets -> BOOLEAN]
  /\ watcher \in {"idle", "compare", "wake"} /\ seen \in Snapshots \cup {None}

\* Nothing is left to be done: no sync is running, due or asked for, and the
\* watcher finds the fingerprint it looks for.
Settled ==
  /\ \A t \in Targets : at[t] = "idle" /\ wake[t] = 0
  /\ watcher = "idle" /\ fp = static

\* "Static metadata is posted on startup and posted again when the static
\* snapshot changes": once nothing is left to be done, every server has the
\* current snapshot.
SettledIsCurrent == Settled => \A t \in Targets : stored[t] = static

\* Why that holds for a single target: while nothing is asked of its sync, the
\* fingerprint is that of the snapshot its server accepted last.
RecordedIsStored ==
  \A t \in Targets :
    /\ at[t] = "record" => stored[t] = snap[t]
    /\ at[t] = "idle" /\ wake[t] = 0 /\ watcher # "wake" => fpSet /\ fp = stored[t]
=============================================================================
