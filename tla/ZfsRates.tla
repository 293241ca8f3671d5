------------------------------ MODULE ZfsRates ------------------------------
(***************************************************************************)
(* Rates of ZFS pools (internal/collect/zfs_io_sampler.go): a goroutine    *)
(* runs zpool iostat, which takes longer than a sample may, on a ticker    *)
(* and when the slow pass asks for it; the fast pass shows what was read   *)
(* last of the pools that the slow pass found last.                        *)
(***************************************************************************)
EXTENDS Naturals

CONSTANTS Pools

VARIABLES
  pools,      \* those the host has
  zpool,      \* the command works
  slowAt,     \* where collectSlow is
  found,      \* the pools it lists
  known,      \* those in the slow cache
  zfsAt,      \* where zfsIOSampler.run is
  refresh,    \* len(refreshCh)
  sampled,    \* the pools in the first sample of zpool iostat
  rates       \* the pools with rates

slowPart == <<slowAt, found, known>>
zfsPart == <<zfsAt, refresh, sampled, rates>>
zfsVars == <<pools, zpool, slowPart, zfsPart>>

InitZfs ==
  /\ pools \in SUBSET Pools /\ zpool \in BOOLEAN
  /\ slowAt = "idle" /\ found = {} /\ known = {}
  /\ zfsAt = "idle" /\ refresh = 0 /\ sampled = {} /\ rates = {}

-----------------------------------------------------------------------------
(* collectSlow *)

Listed == IF zpool THEN pools ELSE {}

\* zpool list
List ==
  /\ slowAt = "idle" /\ slowAt' = "listed" /\ found' = Listed
  /\ UNCHANGED <<pools, zpool, known, zfsPart>>

\* The slow cache is replaced under the lock.
StorePools ==
  /\ slowAt = "listed" /\ slowAt' = "stored" /\ known' = found
  /\ UNCHANGED <<pools, zpool, found, zfsPart>>

\* trigger: a refresh that is waiting already will do.
Trigger ==
  /\ slowAt = "stored" /\ slowAt' = "idle" /\ found' = {}
  /\ refresh' = IF found # {} /\ rates = {} THEN 1 ELSE refresh
  /\ UNCHANGED <<pools, zpool, known, zfsAt, sampled, rates>>

-----------------------------------------------------------------------------
(* run *)

Ticking_Never == FALSE
Ticking == TRUE

Wake ==
  /\ zfsAt = "idle" /\ zfsAt' = "woken"
  /\ \/ refresh = 1 /\ refresh' = 0
     \/ Ticking /\ UNCHANGED refresh
  /\ UNCHANGED <<pools, zpool, slowPart, sampled, rates>>

\* enabled() is hasZFS of the slow cache.
Disabled ==
  /\ zfsAt = "woken" /\ known = {} /\ zfsAt' = "off"
  /\ UNCHANGED <<pools, zpool, slowPart, refresh, sampled, rates>>

\* zpool iostat begins; its first sample of a pool is an average over its lifetime.
FirstSample ==
  /\ zfsAt = "woken" /\ known # {} /\ zfsAt' = "reading" /\ sampled' = Listed
  /\ UNCHANGED <<pools, zpool, slowPart, refresh, rates>>

\* parseZFSIORates: a pool needs a second sample.
Rated == sampled \cap Listed

SetRates(next) ==
  /\ zfsAt' = "idle" /\ rates' = next /\ sampled' = {}
  /\ UNCHANGED <<pools, zpool, slowPart, refresh>>

Read2 == zfsAt = "reading" /\ SetRates(Rated)
Off == zfsAt = "off" /\ SetRates({})

\* Pools come and go, the command fails or works again.
PoolsChange ==
  /\ pools' \in SUBSET Pools /\ zpool' \in BOOLEAN
  /\ UNCHANGED <<slowPart, zfsPart>>

SlowSteps == List \/ StorePools \/ Trigger
ZfsSteps == Wake \/ Disabled \/ FirstSample \/ Read2 \/ Off
NextZfs == SlowSteps \/ ZfsSteps \/ PoolsChange

SpecZfs == InitZfs /\ [][NextZfs]_zfsVars

\* Tickers fire and commands return.
FairSpecZfs == SpecZfs /\ WF_zfsVars(SlowSteps) /\ WF_zfsVars(ZfsSteps)

-----------------------------------------------------------------------------
(* Properties *)

\* collectFast
Shown == known \cap rates

\* The fast pass ends up showing the rates of the pools there are, and of no others,
\* although triggers are dropped and readings overlap with passes.
RatesFollowPools ==
  \A P \in SUBSET Pools : <>[](pools = P /\ zpool) => <>[](Shown = P)
=============================================================================
