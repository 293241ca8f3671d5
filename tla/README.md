# Ithiltir-node: a TLA+ model

Ithiltir-node is a host agent: it samples CPU, memory, disks, network, RAID and
ZFS, and either serves the result on a local HTTP page or pushes it to one or
more *dashboards* over HTTP or gRPC. On a Proxmox VE host a second process, the
root helper `ithiltir-pve`, answers the unprivileged agent over a Unix socket.
This directory models the concurrent and failure-prone parts of it, checks the
models with TLC and proves the most important invariants with TLAPS.

File and line references are to the repository root of the modelled commit.

## 1. Inventory

Each row is a component: the state it keeps, what it does, what makes it hard
and what has to be true of it.

| component | state | operations | hard because | correct when |
|---|---|---|---|---|
| **PVE history cache** `internal/pve/history.go`, lock in `guest_cache.go` | `calls` map, `active`, `bytes`, `failures`, slot semaphore, flock per VM | `get`, `run`/`execute`, `evictOldest`, shutdown in `serve.go` | handlers share one execution, the last waiter cancels it, TTLs, eviction, cooldown, a lock that survives the process | one pvesh per VM; a call is owned until reaped; counters exact; eviction always has a victim; every get returns |
| **Query session** `internal/push/session.go` | `pending`, channels `incoming`, `outgoing`, `completed`, `failures`, tickers | `querySession`, `startSessions` | five kinds of goroutines, cancellation by message, bounded queues, reconnect with backoff | an id is pending exactly while its job runs or its result waits; an admitted query is answered once; a session ends without leaking a goroutine |
| **Static metadata sync** `internal/push/push.go`, `static_fingerprint.go` | fingerprint shared by all targets, wake channel (capacity 1) per target | `runStatic`, `syncStatic`, `recordStaticFingerprint`, change watcher | retries, a lossy wake-up channel, one fingerprint for several receivers | a snapshot that changed reaches every target |
| **RPC transport selection** `internal/push/rpc.go`, `fallbackHTTP` | `client`, `useHTTP`, `probeErr`, `retryAt` under a mutex, endpoint scheme | `rpcClient`, `closeRPC`, `rpcMetrics`, `fallbackHTTP` | probes race with reports and sessions, errors decide a sticky choice | the choice is made once; a report is never replayed over another transport; no TLS downgrade in auto mode |
| **Push round** `internal/push/push.go` | last report cache, connection-refused counters, update plan | `sendRound`, `sendTarget`, `handleResponse`, `updatePlan`, `StartWithCache` | one goroutine per target, a shared timeout, responses that disagree | at most one update per round and only when the answers agree; restart only after every send ended |
| **Guest state delivery** `internal/push/virt.go` | latest snapshot, the time of the one that was accepted, a marker for a failing helper | poll the helper, post to `/virt` | a helper that fails and recovers, answers that are lost, the transport chosen meanwhile | what is no longer offered is what the target shows; the target learns what the helper says, and that it is silent |
| **VM metrics collector** `internal/pve/cache.go`, `monitor.go`, `local.go` | `entries`, `active`, `cursor`, inventory age | `refreshInventory`, `worker` (8), `next`, `notify`, `snapshot`, `metadata` | entries are replaced under running samples, workers sleep on a wake channel | samples of one VM never overlap; what was sampled of a VM found gone is dropped; every VM is sampled again |
| **Guest IP cache** `internal/pve/guest_cache.go`, `guest.go`, `monitor.go` | state file and lock per VM | `CollectGuests`, `AttachGuestIPs` | reservations, retries limited to two at a time (of eight workers), passes cut short, crashes between two writes, late replies | a guest is not asked before its time, and is asked again in the end; the addresses shown were given in this boot |
| **PVE server** `internal/pve/serve.go` | listener, run context | snapshot, capabilities, history, shutdown | shutdown order | shutdown drains (modelled with the history cache) |
| **PVE client** `internal/virt` | pool of 4 connections | `Snapshot`, `History`, `Capabilities` | limits, status codes | errors keep their meaning (an answer of the helper, in the modules that ask it) |
| **Sampler** `internal/collect/sampler.go`, `io.go`, `zfs_io_sampler.go` | latest snapshot and its time, static fields, slow cache, last counters, rates of ZFS pools | a fast pass, a slow pass, the goroutine of zpool iostat, `Snapshot`, `Time`, `Static` | three goroutines and many callers; reads outside the lock; triggers that are dropped; counters that are reset | rates are traffic between two samples; pools are shown with their rates; what is known of the host is not lost; the stamp of a report is never that of an older sample than its metrics (it may be that of a newer one) |
| **Filesystem usage** `internal/collect/disk_usage.go`, `storage_*_linux.go` | cached usage, running probe and `stuck` per mount | `read`, `runProbe`, `waitProbe`, `collect`, `mountUsage` | statfs may never return, the timer races with it | one goroutine per mount that hangs; a mount that answers again is shown |
| **Caches** `internal/conncache`, `internal/smartcache` | value, time | `Get`, `Set` | stale values | data expires |
| **Disk, RAID, ZFS, LVM, thermal, pressure parsing** `internal/collect` | none | pure functions over /proc, /sys, command output | odd inputs | merge rules |
| **Report configuration** `internal/reportcfg` | YAML file | load, save by rename, add/remove targets | two commands at a time: the later one drops the change of the other | the file is never half written |
| **Self update** `internal/selfupdate`, `internal/runner` | releases and the `current` link, or the staged binary, its manifest, `node.exe` and its backup | `Apply`, stage, switch, runner restart | crash between steps, a failing new version | a node can be started after any single fault; only a complete update takes effect; the node reaches the release its servers agree on |
| **Local server** `internal/server` | last report | HTTP page and API | auth | a page shows what was pushed (`ReportLoop`); the rest is pure I/O |
| **Application** `internal/app`, `internal/cli`, `cmd` | flags | parse, run, restart | restart after update | (thin) |
| **Wire format** `internal/nodewire`, `internal/metrics` | none | types | generated code | not modelled |

How they interact: the agent's `push` goroutines call the sampler for snapshots,
the transport for connections and the PVE client for guest data; a dashboard's
query travels over the query session to the PVE client, over the Unix socket to
the helper's history handler and from there to the history cache, which asks the
collector whether the VM exists and takes the VM's lock. The guest-IP collector
and the collector share the helper process and the lock directory. A push
response may carry an update manifest, which ends the push loop with `ErrRestart`.

## 2. Plan

Modules in the order in which they were written; the most important behaviour, a
query about a guest's history and the reports a node owes its dashboards, first.

| # | module | state | theorems |
|---|---|---|---|
| 1 | `HistoryCache` | done, section 3 | inductive invariant and what follows from it |
| 2 | `QuerySession`, abstract `QueryService` | done | as above; refinement |
| 3 | `StaticSync` | done | one target |
| 4 | `RpcTransport`, abstract `TransportChoice` | done | refinement |
| 5 | `Collector` | done | inductive invariant |
| 6 | `PushRound` | done | the agreement on updates |
| 7 | `SelfUpdate`, which extends `PushRound`; abstract `AtomicUpdate` | done | inductive invariant; it implements the loop of `PushRound`, and `AtomicUpdate` |
| 8 | `GuestIPs` | done | inductive invariant: spacing of queries, own addresses |
| 9 | `GuestDelivery`, which extends `RpcTransport` | done | it implements `RpcTransport`; the marker is honest |
| 10 | `HostStatic`, which extends `StaticSync` | done | it implements `StaticSync`; what is known is not lost |
| 11 | `FsUsage` | done | one probe per mount; usage never goes back |
| 12 | `ZfsRates`, `Sampling` | done | a rate is traffic |
| 13 | `ReportLoop`: `PushRound` with `Sampling`, the debug page and the processes | done | it implements `PushRound`; reports advance; the page shows what was pushed |
| 14 | `SessionHistory`: `QuerySession` over the client's pool of four over `HistoryCache` | planned | what a query costs, from dashboard to pvesh |

Abstract specifications: `TransportChoice` (implemented by `RpcTransport`, and so by
`GuestDelivery`), `StaticSync` (implemented by `HostStatic`), `PushRound` (implemented
by `SelfUpdate` and `ReportLoop`), `AtomicUpdate` (implemented by `SelfUpdate` while no
file operation fails), and `QueryService`, an obligation per request
(implemented by `QuerySession`, to be composed with the history cache in 14).

A run per component asks all the questions its bounds can answer; a second one is
added only where a question needs other bounds, and a run of a component gives way
to that of a composition that asks the same questions (`report_loop` for the rounds,
`guest_delivery` for the transport, `host` for the static data of one target). Runs
stay small: two or three callers, VMs, targets or ids, a pool one smaller than the
demand for it, and a bound on what the environment may change.

## 3. Modules

### HistoryCache, HistoryCacheMC, HistoryCacheProofs

`internal/pve/history.go` with the handler and the shutdown of `serve.go`, the
flock of `guest_cache.go` and the killing of pvesh in `collect.go`.

State. `Calls` is a pool of `historyCall` objects and `entry` is the map
`h.calls`, so that two goroutines for one query, a call removed from the map but
still waited for, and a reused object are all distinguishable. `phase[c]` is
where the goroutine of `c` is between two points at which another one may act:
waiting for a slot, holding it, about to lock, locked, in pvesh, back from it,
releasing, about to publish. `lock` includes a lock *orphaned* by a killed helper
(the descriptor is inherited by pvesh). Each get is `asked` (past the inventory
check), `waiting` in its select and `leaving` in its deferred function. Time is
kept as what is left until `expires` and until the end of a cooldown.

Every critical section under `h.mu` is one action. `GetJoin`, `GetBusy` and
`GetCreate` all start with the sweep of expired entries. `Publish` is the whole
second half of `run`, with the eviction loop as a relation: the removed keys are
a set that ends with the first removal that brings the total down to the limit.

Runs.

* `history_share` — two callers, two queries about one VM, two slots, two call
  objects: locking, joining, abandoning, cooling.
* `history_live` — one caller, three queries, one active call, two entries,
  three bytes with replies of one or two: the map overflows, the byte limit
  overflows, entries expire at different times. A caller that gives up leaves its
  call running, so several calls exist at once, although one slot is never
  contended for by two callers that stay (that is the matter of `history_share`
  and of the proofs). `EveryGetReturns` and `ShutdownDrains` under fairness: weak
  fairness of the goroutines' own steps is the Go scheduler's; `Timeout` is the
  timer of `context.WithTimeout`; a lookup is *not* assumed to answer, so the
  run shows that the deadline is what makes a patient get return.
* `history_foreign_cancel` (violation) — see Findings.

Proved (`HistoryCacheProofs`, for any number of callers, calls, queries, VMs and
any limits with `MaxActive < MaxEntries`): the inductive invariant `IInv`, and
from it type correctness, exclusive lookups per VM, ownership of active calls,
the cooldown, that `h.active` and `h.bytes` are exact, that cancellations are not
cached, that abandoned calls are cancelled, and that `evictOldest` has a victim at
both of its calls. The strengthening says what each
goroutine owns at each point (`LocksHeld`, `SlotsExact`, `WaitersExact`,
`EntriesPlaced`, `CallersPlaced`); without `LocksHeld` the cooldown is not
inductive, since the cooldown of a VM is only written by the holder of its lock.
Cardinalities are handled by one lemma about counting the members of a finite
set that satisfy a predicate when one member changes.

The bytes of the cached replies are counted one by one (`BytesOf` is the set of
pairs of a key and a position in its reply), which makes their sum a cardinality:
`SizeOfUnion`, `SizeOfRest` and `SizeOfOne` are then facts about finite sets, and
`DropBytes` is the effect of every removal from the map. `StoredBytes` is the
argument about `run`: the call it publishes is registered under exactly one key
(`OwnedUntilReaped`, `EntriesPlaced`), so what it adds to `h.bytes` is what that
key gets, or nothing when it is cancelled. `LoopEnds` shows that the loop "for
h.bytes > 16<<20" ends: among the sets of oldest entries whose removal is enough,
of which the set of all is one, a smallest exists, because strict inclusion of
finite sets is well founded (`SmallestSet`). Stated as the existence of a minimal
set instead of as an induction over an operator, this is within the prover's reach.

Only model-checked: the two liveness properties.

Left out: decoding of pvesh output, the 429/404/502 mapping of the handler, the
age of the inventory (a nondeterministic answer of `Check`).

### QuerySession, QuerySessionMC, QueryService, QuerySessionProofs

`internal/push/session.go`: `startSessions` (supervisor with backoff),
`querySession` (the select loop), its reader and writer goroutines, and one
goroutine per admitted query. The dashboard, the helper and the stream are the
environment: any message may arrive, sends and receives may fail at any time.

State. The channels are sequences with their capacities (`incoming` 1, `outgoing`
`OutCap`, `completed` `CompletedCap`, `failures` 2); `pending` is the map of
admitted ids; each job knows the id it works for, and a cancelled one reports all
the same, as in the code. `owed` counts, per id, queries taken from the stream
minus replies given; it exists for `AnswersExact` only.

Every turn of the select loop is one action per case. `Check` is the ticker that
asks the helper for its capabilities, taken as one step.

Runs.

* `session_answers` — three ids and three jobs, two of which may be pending: full,
  duplicate and repeated ids, cancellation before and after the result.
  `OneSession` is a state constraint that keeps this run to one session, whose
  helper is not running when it begins and may start; what happens over several
  sessions is in the other run. Ids and jobs are symmetric.
* `session_live` — one id, one job, any number of sessions, no helper:
  `SessionDrains` and `QueriesEnd`, with weak fairness of the
  goroutines, the heartbeat ticker and the job's deadline; neither the dashboard nor
  the lookup is assumed to answer.

`ReportsNeverBlock` is about both channels in which goroutines report: `completed`
for the jobs, `failures` for the reader and the writer. The select loop reads neither
while it drains, so a report that has to wait there would keep `tasks.Wait()` from
returning.

Proved: `IInv`, type correctness (with the capacities of the channels),
`JobsArePending`, `ReportsNeverBlock`, `AnswersExact` and that `QuerySession`
implements `QueryService`. The strengthening is `WorkBounded`: jobs and results
together stay within the admitted queries, hence within the capacity of `completed`;
and `NoneLeft`: a new session starts with nothing left from the one before. The
assumption `MaxPending <= CompletedCap` is what the constants of the code (32 and 32)
satisfy. That `failures` has room rests on `Failing <= 2`: what is in it and the two
goroutines that may still report are never more than two (`FailingStep`).

`AnswersExact` is proved from the same invariant and `Clean` (between sessions nothing
waits anywhere and nothing is owed): each step moves an answer from one place to the
next, and appending to or taking from a queue changes the number of answers in it by
at most the one message (`AppendCount`, `TailCount`). While the stream works the
answers on their way are exactly the ones owed; once the session ends some are
dropped, so only "no more than owed" is left (`MarginStep`). That half is what the
refinement needs: the step in which the writer sends maps to `Reply`, whose guard asks
for a query that has no answer yet. The goroutines of a session that has ended are
gone before the next one opens, which is why `open` is true until the loop has
drained. `QueryService` says that no answer crosses from one session to the next,
however many there are; the run that checks `AnswersExact` has a single one.

Only model-checked: the liveness properties.

Left out: the conversion of results and errors to messages (`historyResult`), the
length of the backoff.

### StaticSync, HostStatic, HostProofs

`internal/push/push.go`: `runStatic`/`syncStatic` per target, the watcher
(`watchStaticChanges`, `staticChanged`), `recordStaticFingerprint`, the wake-ups of
`sendTarget` for a target that recovers. A snapshot is its fingerprint; `Partial`
are those that `missingCompleteFields` complains about. `stored[t]` is what the
server of `t` accepted last, whether or not the node learnt of it.

`HostStatic` extends it with where snapshots come from (`Static()` of the sampler): a
caller reads the host without the lock, merges what it read into the sampler's
fields under it (`mergeSystem`, `mergeCPU`: what could not be read does not count),
and then puts the snapshot together. Every target and the watcher are callers, and
their three steps interleave. A snapshot has two parts, `sys`, which is merged, and
`rest` (memory, slow cache, latest sample), which is not.

The URL of every target is assumed to end in `/metrics` (otherwise `syncStatic`
returns at once). A plaintext fallback within a sync is part of `SendFails` and
`SendOk`; the transport is modelled in `RpcTransport`.

Runs.

* `host`, parts "names" and "rests" — one target and the watcher. In "names" the host has
  two names, so that a call may merge the older one after another call has merged the newer
  one, and is sometimes not readable; in "rests" it has one name, or none, and memory with
  and without a total. `SettledIsCurrent` under any
  interleaving of a change with the points of a sync and of the watcher; `KnownStays`;
  `HostReachesServers` under weak fairness of the goroutines and tickers and strong
  fairness of a successful send (a server that is asked again and again answers).
* `static_shared` (violation) — see Findings.

Proved: type correctness for any targets, and, for a node with one target,
`RecordedIsStored` and `SettledIsCurrent`. `RecordedIsStored` is inductive
relative to `TypeOK`: the fingerprint differs from what the server has only while
a sync is running, due, or asked for. `HostImplementsSync`: the detailed sampler takes
only steps of `StaticSync`, so these hold of it as well (`OneTargetCurrentOnHost`).
`KnownIsNeverLost`: `KnownStays` for any number of targets, hosts and callers; its
invariant says that what a server knows the sampler knows, and that a snapshot on its
way to a server is no poorer than what the server has.

Left out: the fingerprint's marshalling error, the intervals.

### FsUsage

`internal/collect/disk_usage.go` and the two places of the slow pass that read mounts:
the workers of `collect`, and `mountUsage` for the block devices that lsblk lists with
mounts that gave no answer before. A probe is a number; a probe that has returned and
that nobody waits for may be used again. The timer of a reader may win against a probe
that has just returned (`Timeout` with the reader at "done"). A mount answers, fails or
hangs, or is gone; only mounts that are there are listed by the next pass. The usage of
a mount is a number that grows with every change; statfs looks at it at some time
between the beginning of its probe (`since`) and its return.

`read` is written for readers that share a mount. The slow pass lists every mount once
and reads it again only after its workers are done, so in fact no reader finds a
probe that is running and not stuck; the proofs hold for that branch too.

Run: `host`, part "usage" — two mounts, a worker and the pass itself. `HealthyIsShown`
assumes that goroutines and tickers run and that statfs returns on a mount that
answers; of one that does not, nothing. `ReadingsInOrder` is what the single probe is for:
with a second one on its way, an old answer could come after a new one was shown.

Proved, for any mounts, workers and passes: the inductive invariants `UsageInv` (the
probe of an entry is the only one that flies, and a stuck entry has one), `SinceInv` and
`OrderInv`; from them `ReadingsInOrder` (`SingleProbe`) and `ShownAdvances` (`NeverOlder`):
the usage shown of a mount or of a storage never goes back to an older one, not even
when none was shown in between. Each step is reduced to what it finds out of a mount
(`Found`): nothing that was not held before, except what its probe returns. `Order` says
that held <= cached <= what the probe began with <= usage, so what is stored at the end
of a pass, when nobody reads, is a floor (`Floor`) for all that is read later, and no
step goes below it. `ShownAdvances` is not in the run; TLC finds it to hold of a single
mount with more changes, and that it fails when a reader that gives up lets the next
one start a second probe.

Left out: the parallelism of lsblk, LVM and RAID in the pass, pseudo filesystems,
the mount table that cannot be read (as a pass without mounts).

### ZfsRates, Sampling

`ZfsRates` is `zfs_io_sampler.go` with the pools of the slow pass: a goroutine that runs
`zpool iostat` on a ticker and when the slow pass triggers it, and `collectFast`, which
shows the rates of the pools that were found last. A trigger is dropped where rates are
there or one is waiting; while `run` is about to clear the rates a trigger can be lost,
and then the ticker brings the rates. `RatesFollowPools` is the liveness property.

`Sampling` is `collectFast` and `sampleIO`, which treat disks and network interfaces
alike: a sample sees some devices, and a counter grows until it is reset. `Snapshot()`
and `Time()` lock the sampler one after the other; whoever builds a report calls both.
The time of a sample is its number, so the steps of the wall clock are not modelled
but for a clock that stands still.

Run: `host`, parts "zfs" and "io" — two pools, one device, three samples, counters up to
2. `RatesAreTraffic` relates every sample to what the devices did since the one before.

Proved (`HostProofs`): `RatesAreTraffic`, for any devices, counters and samples. `Accounted`
is the strengthening: unless it was reset, a counter is its last reading and what moved
since.

Left out: what a pass reads of CPU, memory, connections and sensors, which no later step
depends on, the process counter, and entries of one name in `mergeNetCounters`.

### HostMC

The parts of the sampler share no variable, so the run explores each for itself: `part`
is chosen in the initial state and the other parts stay in an initial state of a host
that answers nothing, where no property of theirs can fail. (The static fields are two such parts, see
`StaticSync`: both with all values at once are 277,000 states instead of 66,000; that larger
instance was explored once, with the same result.) Their meeting point in the
code is the slow cache; `HostStatic` lets that change at any time instead. The fairness
of each part is that of its module, restricted to the part.

### RpcTransport, TransportChoice, RpcTransportProofs

`internal/push/rpc.go` with its callers: metrics (`sendTarget`), static data,
guest snapshots (`sendVirt`), query sessions, `fallbackHTTP`, and closing in
`StartWithCache`. One target; its reporters are interchangeable, because a
`Reporter` may do what any of the three does after a failed request.

`rpcClient` is one step under `rpc.mu`, except for a probe, during which the mutex
is held (`mu`): asking, the four kinds of answers, a timeout and a cancellation
are separate actions. `sent[c]` records over which transports the present report
of `c` was offered. `fallbackHTTP` is three steps, as it reads the scheme, verifies
(an expired certificate is checked over a connection of its own) and then sets
the scheme; the URL of static data is taken before `rpcClient` is asked (`url`).

`TransportChoice` is the promise of the comment in `rpc.go:27` and of
`docs/reporting_apis.md`: transports are only crossed off, a report is offered
only after gRPC and HTTP have been told apart and only over what is left. The
mapping (`Left`) computes what is left from mode, probe and configuration.

Runs.

* `guest_delivery` (the composition below) — two reporters, one of which is the delivery
  loop, and a session, in all modes; schemes and `require_https` are chosen in the
  initial state. A third reporter adds states and no behaviour: one holds `rpc.mu`,
  one waits for it, and the session is a third. `ImplementsChoice` and the invariants
  need no fairness; `ReportsEnd` (the server need not answer: the two seconds of the
  probe end it) and `StopCloses` do. `rpc.mu` is a `sync.Mutex`, which does not starve a
  waiter: strong fairness of taking it. Reporters end for good when the agent stops,
  so deadlock is not checked.

Proved, for any reporters and modes: `IInv`, type correctness, that a session gives
up for good only when the transport is settled, the refinement of
`TransportChoice`, and from that `NeverReplayed`. `ToldIsTrue` is the heart of the
invariant: what a caller learnt under the mutex still holds when it acts without it.

Left out: `FetchIdentity` (a target of its own with one caller), error
classification by text (`isPlainHTTP` and the certificate errors: whether an error
allows a fallback is nondeterministic), redirects followed by the HTTP client.

### GuestDelivery

`internal/push/virt.go` over `RpcTransport`, whose reporter `Virt` it is: the loop asks the
helper, keeps its latest snapshot and offers it until the target has accepted it. A
snapshot is what the helper answered or `Silent`, the snapshot of before with the status
"error"; a helper that was restarted is one that answers something else. `unsent` is
the comparison of two times in the code. `dash` is what the target shows, which a lost
answer leaves open.

Run: `guest_delivery` — one answer and silence, two changes: a failure, a recovery and the
question whether the target hears of both. `DashboardLearns` assumes that the loop goes
on and that a target that is asked again and again accepts in the end.

Proved (`RpcTransportProofs`): the delivery takes only steps of `RpcTransport`, so all of
the above holds of the composition, and `SentIsShown`.

Left out: the growing pauses between two rounds, the contents of a snapshot.
`docs/reporting_apis.md:67` names status 204 as the acceptance; the code takes any 2xx.

### GuestIPs, GuestIPsMC, GuestIPsProofs

`internal/pve/guest_cache.go`, `guest.go` and `monitor.go`: one loop of the helper gathers
the running VMs with their boot and agent, blanks the files that are about another boot
or agent, queues the guests that are due and asks them under two limits, of the workers
and of those among them that retry. `Reserve` writes the failure before the query, and
`Finish` replaces it by the result. `cancelled` is the ten seconds of a pass, or the end of
the helper; `Crash` leaves only the files and a reply that may still come.

Boots and addresses are "this" or "past": a restart of the VM makes everything past at
once. `rest[v]` is what the guest is owed before the next query, kept by the model alone.
Time is counted in ticks, and the pauses after one, two and more failures are `Delay`.

Run.

* `guests` — two guests, two workers, one retry, `Delay` of one and two ticks (one that is
  the least and one that is longer, with a failure too many for the list), one VM
  that changes once, one fault. Fairness: the loop, the workers, samples and the clock
  go on; a pass is not always cut short by a write that fails; and of two guests of one
  priority the one that is due longer goes first, which strong fairness of `Reserve` stands
  for (the code sorts by the time of the next query).

Proved, for any VMs, workers, delays and faults: `IInv`, `AttachedIsOwn` and
`QueriesSpaced`. The invariant says that a file never lets a guest be asked before
`rest`, and that a reply in flight is about the boot of its target. One race is
excepted by name in `AttachedIsOwn`: a VM that restarts between the last look at its
process and the time stamp of the result has a file that is newer than its boot, until
the next pass blanks it.

Only model-checked: `EveryGuestAsked`.

Left out: the parsing of addresses, the age limit of 15 minutes, `guest-sync`'s bytes.

### Collector, CollectorProofs

`internal/pve/cache.go`: `refreshInventory`, `next`, `worker`, `notify`. The list
`c.order` is sorted by id, so an index is a VM's `Rank`; `gen[v]` is the identity
of the observation object under `c.entries[v]`, which the code compares, and `nth[v]`
counts the VMs that have had the id, which it cannot see. A sample is of any VM that had
the id while it was taken; `gone[v]` is the latest VM that an inventory found missing. `timer[w]` are the VMs whose due
time bounds the sleep of `w`; `woken[w]` says that the timer fired or that the
channel the worker holds was closed. Reading the configuration files and installing
them are two steps.

Run.

* `collector` — three VMs, two workers, two changes of the configuration files
  (enough to destroy a VM and create it again during a sample, and to have one more
  VM than workers). Samples may take longer than the interval, so that the cursor
  matters for `SamplesCatchUp`. An id may also change hands between two inventories:
  the entry is then kept (`refreshInventory`), and what was sampled for the old VM is
  shown for the new one. `GoneIsForgotten` is therefore about VMs that an inventory found
  missing; for the others `SamplesCatchUp` says that the VM that stays is the one that is
  shown in the end. Weak fairness: the inventory is repeated, samples
  have deadlines, timers fire.

Proved: `IInv`, type correctness, `SamplesExclusive`, `GoneIsForgotten`,
`WorkConserving`. `SleepersMind` strengthens the last: the timer of a sleeper minds
every VM that is free, and none of them is due. `LaterThanGone` is what `GoneIsForgotten`
needs: a VM with an entry, a file read before it is installed, and a job whose entry is
still there are all later than the VMs found gone. That a job for a dropped entry is not
taken for one of the new entry is `JobsHeld` with the growth of `gen`.

Left out: the shutdown (every worker selects on the context as well), age and error of the inventory (`contains`, the status of `snapshot`),
capacities of disks, the content of a sample.

### PushRound, ReportLoop, PushRoundProofs

`push.go`: `StartWithCache`, `sendRound`, `sendTarget`, `updatePlan`. `at[t]` is the
goroutine of a target, `callErr[t]` what `callCtx.Err()` says, `results` the channel
in the order in which it was filled and `read` how far the loop over it is. A
manifest is the version it names and the one its binary reports when it runs; the
rest of it (id, URL, hash, size) makes no difference to the loop but that two
manifests are the same or not.

Run.

* `report_loop` — `ReportLoop` composes the rounds with `Sampling`, the cache of the debug
  page (`last.go`, `localReport` in `run.go`) and the processes of a node: a report is
  built from two looks at the sampler, sent to two targets, answered, lost or late, and
  kept if a target took it; an update, a restart or a crash begins with an empty cache
  and a new sampler. Two targets can agree or contradict each other in either order;
  that any number may is proved. Three samples are one for each of a report, its
  successor and the one that is stored between the two looks. No fairness: the
  questions are about safety. `ServersAdvance` looks at what the servers took as a
  whole, so it includes reports that are acknowledged too late; what a server does with a
  request after its deadline is not modelled.

Proved, for any targets and versions: `IInv`, type correctness, `UpdateIffAgreed` and
`NoTargetEndsLoop`. `PlanIsExact` says of the results read so far what `updatePlan`
holds, as a set, so the order drops out; `ErrorsAreCancels` follows an error from
`callCtx` through `timedOut` to the loop.

`ReportLoop` implements `PushRound` (`LoopIsPushRound`: its steps are rounds or leave the
rounds alone), so these hold of the composition too. Of the composition itself,
`ServersAdvance` and `PageShowsPushed` are proved. The strengthening `LoopInv` orders the
samples: one that can still be seen, the draft and the report being sent are no older than
what any server took; only goroutines of the current round send; and a target that is
counted as done took this report.

Left out: the round that is skipped because there is no snapshot (nothing happens),
an error of `json.Marshal` (it ends the loop; a report with a NaN would do that),
`retry` (a round starts at any time). What a failed send
leaves for the next one is in `StaticSync`.

### SelfUpdate, AtomicUpdate, SelfUpdateProofs

`SelfUpdate` extends `PushRound`: when the loop is at "update", `Apply`
(`selfupdate/update.go`) works file by file, and when the process has ended the next
one is whatever the files say. On unix that is the release under the link `current`,
started by `restartForUpdate` or by the service manager; on Windows the runner
(`runner_windows.go`) installs what is staged before it starts `node.exe`. The system
is chosen in the initial state. A binary is represented by the manifest that
describes it, so "its SHA-256 matches" is equality, and it may report another
version than the manifest names. Each rename or removal is a step, and a crash may
come between any two; a removal that fails is ignored, as in the code.
`completed` and `goal` are for the properties only: the updates whose `Apply`
returned `ErrRestart`, and a release that all servers offer from some time on.

Run.

* `self_update` — one target (agreement among several is the question of
  `report_loop`), two versions, two faults: a crash between the renames and then a
  failing one is what it takes to lose the node on Windows, and
  `OneFaultLosesNothing` says that no less does. Fairness: rounds go on, a process
  that ended is started again, a server that is asked again and again answers in the
  end and lets its release be downloaded. `UpdateConverges` excepts two cases which
  the code does not treat: a Windows host that lost its node, and a unix release
  whose directory has the right name but whose binary reports another version (it
  is never downloaded again).

Proved, for any versions and number of faults: `IInvNode`, `StartsCompleted`,
`OneFaultLosesNothing`, and that the node implements `PushRound` (`IsPushRound`), from
which `UpdateIffAgreed` follows for it too. `OnlyCompleted` needs that a release is
written only while it is not active (`Active`) and, on Windows, that the staged file
is the one the manifest describes from `Verify` to `MoveNew` (`StepsPlaced`);
`MissingIsStaged` says what is left while `node.exe` is missing.

`Atomicity`: as long as no file operation fails (`SpecCrash`: crashes and signals only,
as many as one likes), the node implements `AtomicUpdate`, in which an update comes into
force in the last step of a process or not at all, and the next process is the one in
force. What is in force is a function of the files (`InForce`): the release under the
link, or the staged file if it is the one its manifest describes, else `node.exe`.
The invariant `Orderly` is what makes it one: whatever is staged is installed before
the next process runs, so `stageWindows` never pulls a listed file away, and a missing
`node.exe` is always staged. When a file operation fails this is too much to ask (a
runner that cannot move the old file starts it once more), and
`OneFaultLosesNothing` and `StartsCompleted` say what is left. TLC checked
`ImplementsAtomic` of the instance of `self_update` under `SpecCrash`, with four crashes,
and found it violated under `SpecNode`.

Left out: the runner being stopped or killed while its node lives, its backoff, the
installer, an update that is disabled or invalid (`Skip` stands for both), losing a
rename because the directory was not synced. Names are switched by renaming, so a
half-written file is never seen under a final name.

## 4. Findings

1. `history_foreign_cancel`: a get may return `context canceled` although neither
   its caller nor the helper was cancelled: it joined a call (`history.go:88`) that
   the last waiter before it had abandoned. The comment at `history.go:76` says
   "Execution belongs to the cache; individual waiters own only their wait."
2. `static_shared`: `a.staticFP` is one fingerprint for all targets
   (`push.go:844`). When the sync of one target (startup, retry, recovery) sends and
   records a snapshot before the watcher looks, the watcher finds nothing changed
   and the other targets keep the old snapshot, contrary to
   `docs/reporting_apis.md:192`. With one target this cannot happen
   (`OneTargetCurrent`).

## 5. Assumptions and limits

* Where a module has an inductive invariant `IInv`, it contains `TypeOK`; the proofs
  establish it, and the runs check what follows from it.
* Constants carry named assumptions in the module that declares them; the runs
  evaluate them, the proofs use them.
* Liveness and `ENABLED` stay with TLC.
* The Go scheduler is weakly fair; a timer fires; `sync.Mutex` does not starve a
  waiter. Of what lies outside the node, fairness says: a server that is asked again
  and again answers in the end (`HostReachesServers`, `DashboardLearns`,
  `UpdateConverges`), a mount that answers lets statfs return (`HealthyIsShown`), and a
  write does not fail every time (`EveryGuestAsked`). Dashboards and helpers
  need not answer in any other property.
* Time is what is left of an interval, or a nondeterministic "has passed".

Not modelled:

* Parsing of `/proc`, `/sys`, configuration files and the output of tools; the layout of
  disks, RAID and sensors: data without steps. The wire format and the types of
  metrics: generated code and records.
* `conncache` and `smartcache`: a value with a time of expiry under one lock.
* The report commands (`internal/reportcfg`): run by hand, one at a time. Two at once read,
  change and replace the file without a lock (`config.go:121`), so that the later one
  drops the change of the other; the file itself is replaced by a rename.
* Capabilities that change during a session (`session.go:194`): `Check` and the helper's
  changes are steps of `QuerySession`, but that the advertisement follows the helper is a
  liveness property over too many sessions to be checked in reasonable time.
* HTTP and the secret of the local pages, flags, the installer.
