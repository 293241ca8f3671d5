----------------------------- MODULE ReportLoop -----------------------------
(***************************************************************************)
(* A node that reports (runPush in internal/app/run.go): the sampler, the  *)
(* rounds of PushRound that send its snapshots, and the debug page, which  *)
(* shows what was pushed (internal/push/last.go).                          *)
(***************************************************************************)
EXTENDS PushRound, Sampling

CONSTANTS Agent, Page    \* who builds reports

ASSUME LoopAssumption == Builders = {Agent, Page} /\ Agent # Page

VARIABLES
  report,    \* what the current round sends
  oks,       \* the targets whose result is ok
  cached,    \* push.Cache
  acked      \* what each server took last, as the node knows

agentVars == <<report, oks, cached, acked>>
reportLoopVars == <<vars, samplerVars, agentVars>>

InitLoop ==
  /\ Init /\ InitSampling
  /\ report = NoReport /\ oks = {} /\ cached = NoReport
  /\ acked = [t \in Targets |-> NoReport]

-----------------------------------------------------------------------------
(* rounds *)

\* The timer fires, and buildReport looks at the sampler twice.
BuildReport ==
  /\ loop = "wait" /\ Targets # {} /\ GetSnapshot(Agent)
  /\ UNCHANGED <<vars, agentVars>>

SendRound ==
  /\ GetTime(Agent) /\ StartRound
  /\ report' = made' /\ oks' = {}
  /\ UNCHANGED <<cached, acked>>

\* A server answers with status 200.
Takes(t) ==
  /\ \E m \in Manifests \cup {None} : Accepted(t, m)
  /\ oks' = oks \cup {t} /\ acked' = [acked EXCEPT ![t] = report]
  /\ UNCHANGED <<samplerVars, report, cached>>

\* What came too late is not ok.
Reports(t) ==
  /\ Report(t)
  /\ oks' = IF TimedOut(t) THEN oks \ {t} ELSE oks
  /\ UNCHANGED <<samplerVars, report, cached, acked>>

\* The other steps of a round.
OtherRoundSteps ==
  /\ \/ SeeCancel /\ draft[Agent] = 0
     \/ Cancel \/ ReadResult
     \/ \E t \in Targets : Rejected(t) \/ Fails(t) \/ Deadline(t)
  /\ UNCHANGED <<samplerVars, agentVars>>

Cached_Always == report
\* A round without success leaves the cache alone.
Cached == IF oks # {} THEN report ELSE cached

\* A round that goes back to waiting has set the cache.
EndRound ==
  /\ \/ Decide \/ \E restart \in BOOLEAN : Applied(restart)
  /\ cached' = IF loop' = "wait" THEN Cached ELSE cached
  /\ IF loop' = "update" THEN UNCHANGED <<report, oks>> ELSE report' = NoReport /\ oks' = {}
  /\ UNCHANGED <<samplerVars, acked>>

-----------------------------------------------------------------------------
(* the debug page, the sampler and processes *)

\* localReport: without a report in the cache it builds one.
PageLooks == cached = NoReport /\ GetSnapshot(Page) /\ UNCHANGED <<vars, agentVars>>
PageStamps == GetTime(Page) /\ UNCHANGED <<vars, agentVars>>

Samples == (Sample \/ Publish \/ HostIO) /\ UNCHANGED <<vars, agentVars>>

\* The sampler and the cache end with the process.
SamplerEnds ==
  /\ lastIO' = [d \in Devices |-> Absent] /\ timed' = FALSE
  /\ rate' = [d \in Devices |-> Absent]
  /\ fast' = "new" /\ latest' = 0
  /\ draft' = NoDraft /\ made' = NoReport
  /\ UNCHANGED <<count, moved, reset, samples>>
  /\ report' = NoReport /\ oks' = {} /\ cached' = NoReport /\ UNCHANGED acked

Ends == Die /\ SamplerEnds
Begins == (\E v \in Versions : Reborn(v)) /\ SamplerEnds

NextLoop ==
  \/ BuildReport \/ SendRound \/ (\E t \in Targets : Takes(t) \/ Reports(t)) \/ OtherRoundSteps \/ EndRound
  \/ PageLooks \/ PageStamps \/ Samples
  \/ Ends \/ Begins

SpecLoop == InitLoop /\ [][NextLoop]_reportLoopVars

-----------------------------------------------------------------------------
(* Properties *)

\* "Each round reads the latest snapshot without queuing old reports or overlapping
\* rounds": what a server takes never goes back in time, through failing rounds,
\* deadlines and restarts, and its stamp is never that of an older sample than its
\* metrics, whatever sample is stored while it is built.  (It may be that of a newer one.)
ServersAdvance ==
  [][\A t \in Targets : /\ acked'[t].metrics >= acked[t].metrics
                        /\ acked'[t].stamp >= acked[t].stamp
                        /\ acked'[t].stamp >= acked'[t].metrics]_reportLoopVars

\* "Returns the last successfully pushed report when available": what the page has
\* in its cache, a server took.
PageShowsPushed ==
  cached # NoReport =>
    \E t \in Targets : acked[t].metrics >= cached.metrics /\ acked[t].stamp >= cached.stamp
=============================================================================
