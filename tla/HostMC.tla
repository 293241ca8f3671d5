------------------------------- MODULE HostMC -------------------------------
(***************************************************************************)
(* The parts of the sampler that share no variable, each explored for      *)
(* itself: what one of them does is no concern of the others, which stay   *)
(* in an initial state.  Where they meet in the code is the slow cache,    *)
(* and HostStatic lets that change at any time.                            *)
(***************************************************************************)
EXTENDS HostStatic, FsUsage, ZfsRates, Sampling

VARIABLE part

MCSnapshots == [sys : Names \cup {Unknown}, rest : Rests]
MCPartial == {s \in MCSnapshots : Missing(s)}

\* The static fields have two parts: in one the host is renamed, and a call may merge
\* an older name after a newer one; in the other it has one name, or none, and the rest
\* of the snapshot changes.
StaticParts == {"names", "rests"}
OneName == CHOOSE n \in Names : TRUE
OneRest == CHOOSE r \in Rests : r \notin NoMemory

partVars == <<staticVars, usageVars, zfsVars, samplerVars, part>>

\* A part that is not explored is one of a host that answers nothing.
MCInit ==
  /\ InitStatic /\ InitUsage /\ InitZfs /\ InitSampling
  /\ part \in StaticParts \cup {"usage", "zfs", "io"}
  /\ part \notin StaticParts => host = Unknown
  /\ part # "rests" => static.rest = OneRest
  /\ part = "rests" => host \in {OneName, Unknown}
  /\ part # "usage" => \A m \in Mounts : mount[m] = "bad"
  /\ part # "zfs" => pools = {} /\ ~zpool

In(p) == part = p /\ UNCHANGED part
InStatic == part \in StaticParts /\ UNCHANGED part
StaticStep ==
  /\ InStatic /\ NextStatic /\ UNCHANGED <<usageVars, zfsVars, samplerVars>>
  /\ part = "names" => static'.rest = OneRest
  /\ part = "rests" => host' \in {OneName, Unknown}
UsageOnly == In("usage") /\ UNCHANGED <<staticVars, zfsVars, samplerVars>>
ZfsOnly == In("zfs") /\ UNCHANGED <<staticVars, usageVars, samplerVars>>
SamplingOnly == In("io") /\ UNCHANGED <<staticVars, usageVars, zfsVars>>

MCNext ==
  \/ StaticStep
  \/ UsageOnly /\ NextUsage
  \/ ZfsOnly /\ NextZfs
  \/ SamplingOnly /\ NextSampling

\* FairStatic, FairUsage and the fairness of ZfsRates, each for its part.
MCFairness ==
  /\ \A c \in Callers :
       /\ WF_staticVars(InStatic /\ ReadHost(c))
       /\ WF_staticVars(InStatic /\ Refresh(c))
  /\ \A t \in Targets :
       /\ WF_staticVars(InStatic /\ ReadStatic(t))
       /\ WF_staticVars(InStatic /\ SyncOther(t))
       /\ SF_staticVars(InStatic /\ SendOk(t) /\ UNCHANGED hostVars)
  /\ WF_staticVars(InStatic /\ LookStatic) /\ WF_staticVars(InStatic /\ Watch)
  /\ \A r \in Readers : WF_usageVars(In("usage") /\ ReadMount(r))
  /\ WF_usageVars(In("usage") /\ Pass)
  /\ \A m \in Mounts : WF_usageVars(In("usage") /\ Answers(m))
  /\ WF_zfsVars(In("zfs") /\ SlowSteps) /\ WF_zfsVars(In("zfs") /\ ZfsSteps)

MCSpec == MCInit /\ [][MCNext]_partVars /\ MCFairness
=============================================================================
