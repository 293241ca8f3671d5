------------------------------ MODULE Sampling ------------------------------
(***************************************************************************)
(* The fast pass of the sampler (internal/collect/sampler.go, io.go) and   *)
(* the reports that are built from its snapshots, by the agent             *)
(* (push.go), by the local server (server.go) and by the debug page        *)
(* (run.go).  A snapshot and its time are stored together and read apart.  *)
(*                                                                         *)
(* A snapshot is the number of its sample.  Devices stand for disks and    *)
(* network interfaces, which sampleIO treats alike: a counter that only    *)
(* grows, until it is reset.                                               *)
(***************************************************************************)
EXTENDS Integers

CONSTANTS Devices, Builders, Absent,
          MaxSamples, MaxCount     \* bounds of the samples and of the counters

ASSUME SamplingAssumption ==
  /\ MaxSamples \in Nat /\ MaxCount \in Nat
  /\ Absent \notin Nat

VARIABLES
  count,     \* the counter of each device
  moved,     \* what it moved since the last sample
  reset,     \* whether the counter was reset since then
  lastIO,    \* ioSampler.lastDiskIO, lastNetIO
  timed,     \* lastIOTimestamp is set
  rate,      \* what the last sample says of each device
  samples,   \* how many there were
  fast,      \* where the fast goroutine is
  latest,    \* Sampler.latest and latestTS
  draft,     \* the snapshot of a report that is being built
  made       \* the report built last

ioVars == <<count, moved, reset, lastIO, timed, rate>>
reportVars == <<draft, made>>
samplerVars == <<ioVars, samples, fast, latest, reportVars>>

NoReport == [metrics |-> 0, stamp |-> 0]
NoDraft == [b \in Builders |-> 0]

\* A process has begun: Start samples once before it returns.
NewSampler ==
  /\ lastIO = [d \in Devices |-> Absent] /\ timed = FALSE
  /\ rate = [d \in Devices |-> Absent]
  /\ fast = "new" /\ latest = 0
  /\ draft = NoDraft /\ made = NoReport

InitSampling ==
  /\ NewSampler
  /\ count = [d \in Devices |-> 0] /\ moved = [d \in Devices |-> 0]
  /\ reset = [d \in Devices |-> FALSE]
  /\ samples = 0

Started == fast \in {"idle", "sampling"}

-----------------------------------------------------------------------------
(* collectFast *)

\* safeDiffUint64
SafeDiff(curr, prev) == IF curr >= prev THEN curr - prev ELSE 0

LastIO_Kept(seen) == [d \in Devices |-> IF d \in seen THEN count[d] ELSE lastIO[d]]
\* A device that is not seen is forgotten.
LastIO(seen) == [d \in Devices |-> IF d \in seen THEN count[d] ELSE Absent]

\* sampleIO reads the counters of the devices it sees: the others are gone, filtered
\* out or could not be read.  Without a previous reading a counter is compared with
\* itself, and so are all of them when the clock stands still.
SampleIO ==
  \E seen \in SUBSET Devices, ticked \in BOOLEAN :
    LET prev(d) == IF ticked /\ timed /\ lastIO[d] # Absent THEN lastIO[d] ELSE count[d] IN
      /\ rate' = [d \in Devices |->
                    IF d \in seen THEN SafeDiff(count[d], prev(d)) ELSE Absent]
      /\ lastIO' = LastIO(seen) /\ timed' = TRUE
      /\ moved' = [d \in Devices |-> 0] /\ reset' = [d \in Devices |-> FALSE]
      /\ UNCHANGED count

\* The time is taken before anything is read ...
Sample ==
  /\ fast \in {"new", "idle"} /\ samples < MaxSamples
  /\ samples' = samples + 1
  /\ fast' = IF fast = "new" THEN "starting" ELSE "sampling"
  /\ SampleIO
  /\ UNCHANGED <<latest, reportVars>>

\* ... and stored with the snapshot.
Publish ==
  /\ fast \in {"starting", "sampling"}
  /\ fast' = "idle" /\ latest' = samples
  /\ UNCHANGED <<ioVars, samples, reportVars>>

-----------------------------------------------------------------------------
(* buildReport, metricsHandler, localReport *)

\* Snapshot(): without one there is no report.
GetSnapshot(b) ==
  /\ Started /\ latest # 0 /\ draft[b] = 0
  /\ draft' = [draft EXCEPT ![b] = latest]
  /\ UNCHANGED <<ioVars, samples, fast, latest, made>>

Built_Swapped(first, second) == [metrics |-> second, stamp |-> first]
Built(first, second) == [metrics |-> first, stamp |-> second]

\* Time()
GetTime(b) ==
  /\ draft[b] # 0
  /\ made' = Built(draft[b], latest)
  /\ draft' = [draft EXCEPT ![b] = 0]
  /\ UNCHANGED <<ioVars, samples, fast, latest>>

-----------------------------------------------------------------------------
(* the host *)

Traffic(d) ==
  /\ count[d] < MaxCount /\ moved[d] < MaxCount
  /\ count' = [count EXCEPT ![d] = @ + 1] /\ moved' = [moved EXCEPT ![d] = @ + 1]
  /\ UNCHANGED <<reset, lastIO, timed, rate, samples, fast, latest, reportVars>>

\* The device is replaced, or its counter wraps.
Reset(d) ==
  /\ count' = [count EXCEPT ![d] = 0] /\ reset' = [reset EXCEPT ![d] = TRUE]
  /\ UNCHANGED <<moved, lastIO, timed, rate, samples, fast, latest, reportVars>>

HostIO == \E d \in Devices : Traffic(d) \/ Reset(d)

NextSampling ==
  \/ Sample \/ Publish \/ HostIO
  \/ \E b \in Builders : GetSnapshot(b) \/ GetTime(b)

SpecSampling == InitSampling /\ [][NextSampling]_samplerVars

-----------------------------------------------------------------------------
(* Properties *)

\* A sample reports what a device moved since the sample before, and nothing for one
\* that was not in that sample: devices that come back, counters that are reset and
\* a clock that stands still never show as traffic.
RatesAreTraffic ==
  [][samples' # samples =>
       \A d \in Devices :
         LET compared == timed /\ lastIO[d] # Absent /\ rate'[d] # Absent IN
           /\ compared => rate'[d] <= moved[d]
           /\ ~compared => rate'[d] \in {0, Absent}
           /\ compared /\ rate'[d] # 0 /\ ~reset[d] => rate'[d] = moved[d]]_samplerVars
=============================================================================
