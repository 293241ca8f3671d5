---------------------------- MODULE HistoryCache ----------------------------
(***************************************************************************)
(* The cache of PVE RRD history queries kept by the root helper            *)
(* (internal/pve/history.go).  HTTP handlers call get; every distinct      *)
(* query is executed by one goroutine (run / execute) shared by all the    *)
(* handlers that wait for it.  A completed historyCall stays in h.calls    *)
(* until its TTL passes or evictOldest removes it.                         *)
(*                                                                         *)
(* Callers are concurrent handlers, Calls is a pool of historyCall objects *)
(* (one that is garbage may be allocated again), None is the nil pointer.  *)
(* Time is kept as what is left until an instant, in units of Tick:        *)
(* left[c] is call.expires - now, failures[v] is h.failures[v] - now, and  *)
(* 0 is an instant that has been reached.                                  *)
(***************************************************************************)
EXTENDS Integers, FiniteSets

CONSTANTS Callers,      \* concurrent invocations of get
          Calls,        \* historyCall objects
          VMs,          \* virtual machine ids
          Queries,      \* virt.HistoryQuery values
          VMOf,         \* q.VMID of every query
          None,         \* nil
          MaxActive,    \* 32: incomplete calls
          MaxEntries,   \* 128: keys of h.calls
          Slots,        \* 4: executions at a time
          MaxBytes,     \* 16 MiB: cached replies
          MaxRaw,       \* virt.HistoryMaxBytes: one reply
          OkTTL,        \* 30 s
          ErrTTL,       \* 10 s
          Cooldown      \* 10 s

Unheld == "unheld"      \* nobody holds a VM's lock
Orphan == "orphan"      \* a pvesh left by a killed helper still holds it

ASSUME SetsAssumption ==
  /\ IsFiniteSet(Callers) /\ IsFiniteSet(Calls) /\ IsFiniteSet(Queries)
  /\ VMOf \in [Queries -> VMs]
  /\ None \notin Calls \cup Queries
  /\ Unheld \notin Calls /\ Orphan \notin Calls

ASSUME LimitsAssumption ==
  /\ MaxActive \in Nat /\ MaxEntries \in Nat /\ MaxActive < MaxEntries
  /\ Slots \in Nat /\ Slots > 0
  /\ MaxRaw \in Nat /\ MaxBytes \in Nat /\ MaxRaw <= MaxBytes
  /\ OkTTL \in Nat /\ ErrTTL \in Nat /\ Cooldown \in Nat
  /\ OkTTL > 0 /\ ErrTTL > 0

VARIABLES
  entry,     \* h.calls: the call registered for each query, or None
  active,    \* h.active
  bytes,     \* h.bytes
  failures,  \* h.failures, as the time left of each VM's cooldown
  slots,     \* len(h.slots)
  lock,      \* who holds each VM's history-<id>.lock
  phase,     \* where run / execute of each call is; "done" once call.done is closed
  query,     \* the query each goroutine executes
  ctxErr,    \* callCtx.Err()
  waiters,   \* call.waiters
  reply,     \* call.err, "ok" for nil
  size,      \* len(call.raw)
  left,      \* call.expires - now
  at,        \* where get is, for each caller
  want,      \* the query a caller is about to look up
  on,        \* the call a caller waits for
  got,       \* what get is about to return
  stopping   \* h.ctx is cancelled

cacheVars  == <<entry, active, bytes, failures>>
callVars   == <<phase, query, ctxErr, waiters, reply, size, left>>
callerVars == <<at, want, on, got>>
vars == <<cacheVars, slots, lock, callVars, callerVars, stopping>>

Running == {"slot", "admitted", "locking", "locked", "lookup", "returned",
            "leaving", "publish"}
CtxErrs == {"canceled", "deadline"}
Replies == {"ok", "failed", "busy", "notfound"} \cup CtxErrs

\* A call whose result is not published yet: call.expires.IsZero().
Incomplete(c) == phase[c] \in Running

IncompleteCalls == {c \in Calls : Incomplete(c)}

\* The keys of the map m, and those whose call is completed.
Keys(m) == {q \in Queries : m[q] # None}
DoneKeys(m, ph) == {q \in Keys(m) : ph[m[q]] = "done"}

Drop(m, ks) == [q \in Queries |-> IF q \in ks THEN None ELSE m[q]]

\* The bytes of the replies cached under the keys ks: <<q, i>> is the i-th byte
\* of the reply to q.
BytesOf(m, sz, ks) == {b \in ks \X (1..MaxRaw) : b[2] <= sz[m[b[1]]]}
SizeOf(m, sz, ks) == Cardinality(BytesOf(m, sz, ks))

\* evictOldest: the completed entries that expire first; the map's iteration
\* order breaks ties.
Oldest(m, ph, lf) ==
  {q \in DoneKeys(m, ph) : \A p \in DoneKeys(m, ph) : lf[m[q]] <= lf[m[p]]}

\* What "for h.bytes > 16<<20 { h.evictOldest() }" may remove from m, when m
\* holds total bytes: entries in the order they expire, up to and including
\* the first removal that brings the total down to the limit.
Evicted(m, ph, lf, sz, total, ks) ==
  /\ ks \subseteq DoneKeys(m, ph)
  /\ total - SizeOf(m, sz, ks) <= MaxBytes
  /\ \A p \in ks, q \in DoneKeys(m, ph) \ ks : lf[m[p]] <= lf[m[q]]
  /\ ks # {} => \E last \in ks :
                  /\ total - SizeOf(m, sz, ks \ {last}) > MaxBytes
                  /\ \A p \in ks : lf[m[p]] <= lf[m[last]]

Cancelled(c) == IF ctxErr[c] = "none" THEN "canceled" ELSE ctxErr[c]

-----------------------------------------------------------------------------
Init ==
  /\ entry = [q \in Queries |-> None]
  /\ active = 0 /\ bytes = 0 /\ slots = 0
  /\ failures = [v \in VMs |-> 0]
  /\ lock \in [VMs -> {Unheld, Orphan}]
  /\ phase = [c \in Calls |-> "free"] /\ query = [c \in Calls |-> None]
  /\ ctxErr = [c \in Calls |-> "none"] /\ reply = [c \in Calls |-> "none"]
  /\ waiters = [c \in Calls |-> 0]
  /\ size = [c \in Calls |-> 0] /\ left = [c \in Calls |-> 0]
  /\ at = [k \in Callers |-> "idle"] /\ want = [k \in Callers |-> None]
  /\ on = [k \in Callers |-> None] /\ got = [k \in Callers |-> "none"]
  /\ stopping = FALSE

-----------------------------------------------------------------------------
(* get *)

\* A handler whose VM is in the inventory goes on to the cache.  One whose VM
\* is not, or whose inventory is stale, returns without touching it.
Ask(k, q) ==
  /\ at[k] = "idle" /\ ~stopping
  /\ at' = [at EXCEPT ![k] = "asked"]
  /\ want' = [want EXCEPT ![k] = q]
  /\ UNCHANGED <<cacheVars, slots, lock, callVars, on, got, stopping>>

\* The entries every get first removes: completed and past their TTL.
ExpiredKeys == {q \in DoneKeys(entry, phase) : left[entry[q]] = 0}
SweptBytes_Unadjusted == bytes
Swept == Drop(entry, ExpiredKeys)
SweptBytes == bytes - SizeOf(entry, size, ExpiredKeys)

\* The caller starts to wait for call c of the query it wants.
Wait(k, c) ==
  /\ at' = [at EXCEPT ![k] = "waiting"]
  /\ want' = [want EXCEPT ![k] = None]
  /\ on' = [on EXCEPT ![k] = c]
  /\ waiters' = [waiters EXCEPT ![c] = @ + 1]
  /\ UNCHANGED got

\* The query has an entry, completed or not: wait for it.
GetJoin(k) ==
  /\ at[k] = "asked"
  /\ Swept[want[k]] # None
  /\ entry' = Swept /\ bytes' = SweptBytes
  /\ Wait(k, Swept[want[k]])
  /\ UNCHANGED <<active, failures, slots, lock, phase, query, ctxErr, reply,
                 size, left, stopping>>

Full_Executing == slots >= MaxActive

\* "h.active >= 32"
Full == active >= MaxActive

\* No entry, and MaxActive calls are incomplete: ErrBusy.
GetBusy(k) ==
  /\ at[k] = "asked"
  /\ Swept[want[k]] = None
  /\ Full
  /\ entry' = Swept /\ bytes' = SweptBytes
  /\ at' = [at EXCEPT ![k] = "idle"]
  /\ want' = [want EXCEPT ![k] = None]
  /\ UNCHANGED <<active, failures, slots, lock, callVars, on, got, stopping>>

\* The keys removed to make room for one more: evictOldest when the map is full.
RoomFor(m, ph, lf) ==
  IF Cardinality(Keys(m)) >= MaxEntries
  THEN {{q} : q \in Oldest(m, ph, lf)} ELSE {{}}

\* No goroutine, no caller and no entry of m has a pointer to c.
Unused(c, m) ==
  /\ ~Incomplete(c)
  /\ \A q \in Queries : m[q] # c
  /\ \A j \in Callers : on[j] # c

\* No entry: register a new call and start its goroutine.
GetCreate(k, c) ==
  /\ at[k] = "asked"
  /\ Swept[want[k]] = None
  /\ ~Full
  /\ \E ks \in RoomFor(Swept, phase, left) :
       /\ Unused(c, Drop(Swept, ks))
       /\ entry' = [Drop(Swept, ks) EXCEPT ![want[k]] = c]
       /\ bytes' = SweptBytes - SizeOf(Swept, size, ks)
  /\ active' = active + 1
  /\ phase' = [phase EXCEPT ![c] = "slot"]
  /\ query' = [query EXCEPT ![c] = want[k]]
  /\ ctxErr' = [ctxErr EXCEPT ![c] = IF stopping THEN "canceled" ELSE "none"]
  /\ reply' = [reply EXCEPT ![c] = "none"]
  /\ size' = [size EXCEPT ![c] = 0]
  /\ left' = [left EXCEPT ![c] = 0]
  /\ Wait(k, c)
  /\ UNCHANGED <<failures, slots, lock, stopping>>

\* case <-call.done
Receive(k) ==
  /\ at[k] = "waiting"
  /\ phase[on[k]] = "done"
  /\ at' = [at EXCEPT ![k] = "leaving"]
  /\ got' = [got EXCEPT ![k] = reply[on[k]]]
  /\ UNCHANGED <<cacheVars, slots, lock, callVars, want, on, stopping>>

\* case <-ctx.Done(): the caller's own request is over.
GiveUp(k) ==
  /\ at[k] = "waiting"
  /\ at' = [at EXCEPT ![k] = "leaving"]
  /\ got' = [got EXCEPT ![k] = "gone"]
  /\ UNCHANGED <<cacheVars, slots, lock, callVars, want, on, stopping>>

Abandons_Never(c) == FALSE

\* "call.waiters == 0 && call.expires.IsZero()", after the decrement.
Abandons(c) == waiters[c] = 1 /\ Incomplete(c)

\* The deferred function of get: the last waiter of an incomplete call cancels it.
Leave(k) ==
  /\ at[k] = "leaving"
  /\ LET c == on[k] IN
       /\ waiters' = [waiters EXCEPT ![c] = @ - 1]
       /\ ctxErr' = IF Abandons(c)
                    THEN [ctxErr EXCEPT ![c] = Cancelled(c)] ELSE ctxErr
  /\ at' = [at EXCEPT ![k] = "idle"]
  /\ on' = [on EXCEPT ![k] = None]
  /\ got' = [got EXCEPT ![k] = "none"]
  /\ UNCHANGED <<cacheVars, slots, lock, phase, query, reply, size, left,
                 want, stopping>>

-----------------------------------------------------------------------------
(* run and execute *)

\* Before its result is published a goroutine leaves everything but its own
\* state, the slots, the locks and the cooldowns alone.
Step(c, from, to) ==
  /\ phase[c] = from
  /\ phase' = [phase EXCEPT ![c] = to]
  /\ UNCHANGED <<entry, active, bytes, query, ctxErr, waiters, left, callerVars, stopping>>

\* execute returns r to run.
Return(c, r) == reply' = [reply EXCEPT ![c] = r]

VM(c) == VMOf[query[c]]

\* The channel h.slots has room.
SlotFree == slots < Slots

\* case h.slots <- struct{}{}
Acquire(c) ==
  /\ Step(c, "slot", "admitted")
  /\ SlotFree
  /\ slots' = slots + 1
  /\ UNCHANGED <<failures, lock, reply, size>>

\* case <-ctx.Done(), while waiting for a slot
Abandon(c) ==
  /\ Step(c, "slot", "publish")
  /\ ctxErr[c] # "none"
  /\ Return(c, ctxErr[c])
  /\ UNCHANGED <<failures, slots, lock, size>>

\* The checks made with a slot held: ctx.Err(), then h.inventory, which depends
\* on the collector's state.
Check(c) ==
  /\ \/ /\ Step(c, "admitted", "locking")
        /\ ctxErr[c] = "none"
        /\ UNCHANGED <<reply, slots>>
     \/ /\ Step(c, "admitted", "publish")
        /\ slots' = slots - 1
        /\ IF ctxErr[c] # "none" THEN Return(c, ctxErr[c])
           ELSE \E r \in {"failed", "notfound"} : Return(c, r)
  /\ UNCHANGED <<failures, lock, size>>

Lockable_PerQuery(c) ==
  \/ lock[VM(c)] = Unheld
  \/ lock[VM(c)] \in Calls /\ query[lock[VM(c)]] # query[c]

\* No other process or goroutine holds the flock of the call's VM.
Lockable(c) == lock[VM(c)] = Unheld

\* guestLock: a non-blocking flock.  Opening the file may fail, too.
TryLock(c) ==
  /\ \/ /\ Step(c, "locking", "locked")
        /\ Lockable(c)
        /\ lock' = [lock EXCEPT ![VM(c)] = c]
        /\ UNCHANGED <<reply, slots>>
     \/ /\ Step(c, "locking", "publish")
        /\ IF Lockable(c) THEN Return(c, "failed") ELSE Return(c, "busy")
        /\ slots' = slots - 1
        /\ UNCHANGED lock
  /\ UNCHANGED <<failures, size>>

\* "time.Now().Before(h.failures[q.VMID])"
InCooldown(v) == failures[v] > 0

\* The VM's cooldown, read under h.mu with the lock held.
Cooling(c) ==
  /\ \/ Step(c, "locked", "lookup") /\ ~InCooldown(VM(c)) /\ UNCHANGED reply
     \/ Step(c, "locked", "leaving") /\ InCooldown(VM(c)) /\ Return(c, "failed")
  /\ UNCHANGED <<failures, slots, lock, size>>

\* h.lookup answers with r bytes, or with an error of its own.
LookupOk(c) ==
  /\ Step(c, "lookup", "returned")
  /\ Return(c, "ok")
  /\ \E n \in 1..MaxRaw : size' = [size EXCEPT ![c] = n]
  /\ UNCHANGED <<failures, slots, lock>>

LookupFails(c) ==
  /\ Step(c, "lookup", "returned")
  /\ Return(c, "failed")
  /\ UNCHANGED <<failures, slots, lock, size>>

LookupKilled_Ignored(c) == FALSE /\ UNCHANGED vars

\* The context ends: pvesh is killed and reaped.
LookupKilled(c) ==
  /\ Step(c, "lookup", "returned")
  /\ ctxErr[c] # "none"
  /\ Return(c, ctxErr[c])
  /\ UNCHANGED <<failures, slots, lock, size>>

\* A failure other than a cancellation starts the VM's cooldown, under h.mu.
Record(c) ==
  /\ Step(c, "returned", "leaving")
  /\ failures' = IF reply[c] \in {"ok", "canceled"} THEN failures
                 ELSE [failures EXCEPT ![VM(c)] = Cooldown]
  /\ UNCHANGED <<slots, lock, reply, size>>

\* The deferred lock.Close() and <-h.slots of execute.
Release(c) ==
  /\ Step(c, "leaving", "publish")
  /\ lock' = [lock EXCEPT ![VM(c)] = Unheld]
  /\ slots' = slots - 1
  /\ UNCHANGED <<failures, reply, size>>

NotKept_ByVM(c) == {q \in Queries : reply[c] = "canceled" /\ VMOf[q] = VM(c)}

\* A cancelled call is deleted from h.calls instead of being cached.
NotKept(c) == IF reply[c] = "canceled" THEN {query[c]} ELSE {}

ActiveAfter_Leaks(c) == IF reply[c] = "canceled" THEN active ELSE active - 1

\* "h.active--"
ActiveAfter(c) == active - 1

\* What run stores under h.mu: the result is cached, unless it is a
\* cancellation, with its expiry and its bytes.
Completed(c) == [phase EXCEPT ![c] = "done"]
Expiring(c) == [left EXCEPT ![c] = IF reply[c] = "ok" THEN OkTTL ELSE ErrTTL]
Kept(c) == Drop(entry, NotKept(c))
Total(c) == IF reply[c] = "canceled" THEN bytes ELSE bytes + size[c]

\* The keys that run's loop of evictions may remove after that.
Evictions(c) ==
  {ks \in SUBSET DoneKeys(Kept(c), Completed(c)) :
     Evicted(Kept(c), Completed(c), Expiring(c), size, Total(c), ks)}

\* The rest of run, under h.mu: the result is stored, old entries make room for
\* it, and the waiters are woken.
Publish(c) ==
  /\ phase[c] = "publish" /\ phase' = Completed(c)
  /\ left' = Expiring(c)
  /\ active' = ActiveAfter(c)
  /\ \E ks \in Evictions(c) :
       /\ entry' = Drop(Kept(c), ks)
       /\ bytes' = Total(c) - SizeOf(Kept(c), size, ks)
  /\ query' = [query EXCEPT ![c] = None]     \* run's parameters
  /\ ctxErr' = [ctxErr EXCEPT ![c] = "none"]
  /\ UNCHANGED <<failures, slots, lock, waiters, reply, size, callerVars, stopping>>

-----------------------------------------------------------------------------
(* the environment *)

Timeout_Never(c) == FALSE /\ UNCHANGED vars

\* callCtx's 8 second deadline.
Timeout(c) ==
  /\ Incomplete(c) /\ ctxErr[c] = "none"
  /\ ctxErr' = [ctxErr EXCEPT ![c] = "deadline"]
  /\ UNCHANGED <<cacheVars, slots, lock, phase, query, waiters, reply, size,
                 left, callerVars, stopping>>

\* Serve cancels runCtx, the parent of every callCtx.
Shutdown ==
  /\ ~stopping
  /\ stopping' = TRUE
  /\ ctxErr' = [c \in Calls |-> IF Incomplete(c) THEN Cancelled(c) ELSE ctxErr[c]]
  /\ UNCHANGED <<cacheVars, slots, lock, phase, query, waiters, reply, size,
                 left, callerVars>>

Tick ==
  /\ \/ \E c \in Calls : left[c] > 0
     \/ \E v \in VMs : failures[v] > 0
  /\ left' = [c \in Calls |-> IF left[c] > 0 THEN left[c] - 1 ELSE 0]
  /\ failures' = [v \in VMs |-> IF failures[v] > 0 THEN failures[v] - 1 ELSE 0]
  /\ UNCHANGED <<entry, active, bytes, slots, lock, phase, query, ctxErr,
                 waiters, reply, size, callerVars, stopping>>

\* The pvesh a killed helper left behind exits and drops its lock.
OrphanExit(v) ==
  /\ lock[v] = Orphan
  /\ lock' = [lock EXCEPT ![v] = Unheld]
  /\ UNCHANGED <<cacheVars, slots, callVars, callerVars, stopping>>

-----------------------------------------------------------------------------
CallerStep(k) ==
  \/ \E q \in Queries : Ask(k, q)
  \/ GetJoin(k) \/ GetBusy(k) \/ \E c \in Calls : GetCreate(k, c)
  \/ Receive(k) \/ GiveUp(k) \/ Leave(k)

\* What the goroutine of c does of itself, once its context is over or not.
RunStep(c) ==
  \/ Acquire(c) \/ Abandon(c) \/ Check(c) \/ TryLock(c) \/ Cooling(c)
  \/ LookupKilled(c) \/ Record(c) \/ Release(c) \/ Publish(c)

CallStep(c) ==
  \/ RunStep(c) \/ LookupOk(c) \/ LookupFails(c) \/ Timeout(c)

\* After Shutdown the helper is idle for good.
Stopped ==
  /\ stopping /\ active = 0 /\ \A k \in Callers : at[k] = "idle"
  /\ UNCHANGED vars

Next ==
  \/ \E k \in Callers : CallerStep(k)
  \/ \E c \in Calls : CallStep(c)
  \/ \E v \in VMs : OrphanExit(v)
  \/ Tick \/ Shutdown \/ Stopped

Spec == Init /\ [][Next]_vars

\* Goroutines that can run do run, the 8 second timer fires, and a handler
\* whose call is done returns.  Nobody has to give up, and pvesh need not end
\* unless its context does.
Fairness ==
  /\ \A c \in Calls : WF_vars(RunStep(c)) /\ WF_vars(Timeout(c))
  /\ \A k \in Callers : WF_vars(GetJoin(k)) /\ WF_vars(Receive(k)) /\ WF_vars(Leave(k))

FairSpec == Spec /\ Fairness

-----------------------------------------------------------------------------
(* Properties *)

TypeOK ==
  /\ entry \in [Queries -> Calls \cup {None}]
  /\ active \in 0..MaxActive
  /\ failures \in [VMs -> 0..Cooldown]
  /\ slots \in 0..Slots
  /\ lock \in [VMs -> Calls \cup {Unheld, Orphan}]
  /\ phase \in [Calls -> Running \cup {"free", "done"}]
  /\ query \in [Calls -> Queries \cup {None}]
  /\ ctxErr \in [Calls -> CtxErrs \cup {"none"}]
  /\ waiters \in [Calls -> Nat]
  /\ reply \in [Calls -> Replies \cup {"none"}]
  /\ size \in [Calls -> 0..MaxRaw]
  /\ left \in [Calls -> Nat]
  /\ at \in [Callers -> {"idle", "asked", "waiting", "leaving"}]
  /\ want \in [Callers -> Queries \cup {None}]
  /\ on \in [Callers -> Calls \cup {None}]
  /\ got \in [Callers -> Replies \cup {"none", "gone"}]
  /\ stopping \in BOOLEAN

\* pvesh runs at most once at a time for a VM, whatever queries about it are
\* executed together: execute takes the VM's flock before h.lookup and keeps it
\* until the process is reaped.
OneLookupPerVM ==
  \A c, d \in Calls :
    phase[c] = "lookup" /\ phase[d] = "lookup" /\ c # d => VM(c) # VM(d)

\* A call whose result is not published is the one registered for its query, so
\* another get joins it instead of running the query again, and run's
\* delete(h.calls, q) removes its own call.  "Evict completed entries only.
\* Active work stays owned until reaped."
OwnedUntilReaped ==
  \A c \in IncompleteCalls : query[c] \in Queries /\ entry[query[c]] = c

\* h.active counts the calls that are executing: get's admission limit is about
\* the goroutines that exist, on every path through run.
ActiveExact == active = Cardinality(IncompleteCalls)

\* The nil dereference evictOldest would make cannot happen, at either call:
\* when get finds the map full after its sweep one of the entries is completed,
\* and run's loop gets below the byte limit before it runs out of entries.
\* "requires h.mu and a completed entry: active calls are capped at 32 of 128
\* entries, and only completed calls contribute to h.bytes."
EvictHasVictim ==
  /\ \A k \in Callers :
       at[k] = "asked" /\ ~Full /\ Cardinality(Keys(Swept)) >= MaxEntries
         => DoneKeys(Swept, phase) # {}
  /\ \A c \in Calls : phase[c] = "publish" => Evictions(c) # {}

\* h.bytes is what the completed entries of h.calls hold, through sweeps,
\* evictions and cancellations, and never passes the limit.
BytesExact ==
  /\ bytes = SizeOf(entry, size, DoneKeys(entry, phase))
  /\ bytes <= MaxBytes

\* A call that no get waits for any more is on its way out: the last waiter to
\* leave cancelled it, however joins and leaves interleaved.
AbandonedIsCancelled ==
  \A c \in IncompleteCalls :
    (\A k \in Callers : on[k] # c) => ctxErr[c] # "none"

\* No pvesh runs for a VM while the cooldown of an earlier failure lasts.
CooldownHolds ==
  \A c \in Calls : phase[c] = "lookup" => ~InCooldown(VM(c))

\* A cancellation is never cached: a later get of the query runs it again.
CancelNotCached ==
  \A q \in Queries :
    entry[q] # None /\ phase[entry[q]] = "done" => reply[entry[q]] # "canceled"

\* The inductive invariant of Spec: what each goroutine owns at each point.
Holding == {"admitted", "locking", "locked", "lookup", "returned", "leaving"}
Locking == {"locked", "lookup", "returned", "leaving"}

CallersPlaced ==
  \A k \in Callers :
    /\ at[k] = "asked" => want[k] \in Queries
    /\ IF at[k] \in {"waiting", "leaving"} THEN on[k] \in Calls ELSE on[k] = None

EntriesPlaced ==
  \A q \in Queries : entry[q] # None =>
    /\ phase[entry[q]] # "free"
    /\ Incomplete(entry[q]) => query[entry[q]] = q

SlotsExact == slots = Cardinality({c \in Calls : phase[c] \in Holding})

LocksHeld == \A c \in Calls : phase[c] \in Locking => lock[VM(c)] = c

WaitersExact ==
  \A c \in Calls : waiters[c] = Cardinality({k \in Callers : on[k] = c})

IInv ==
  /\ TypeOK /\ CallersPlaced /\ EntriesPlaced /\ OwnedUntilReaped
  /\ SlotsExact /\ ActiveExact /\ LocksHeld /\ CooldownHolds
  /\ CancelNotCached /\ WaitersExact /\ AbandonedIsCancelled /\ BytesExact

\* Every get that waits returns, even if its caller is patient and pvesh hangs.
EveryGetReturns ==
  \A k \in Callers : at[k] = "waiting" ~> at[k] = "idle"

\* After Serve cancels its context every execution ends, so cache.wg.Wait()
\* returns, whatever handlers were about to call get.
ShutdownDrains == stopping ~> [](active = 0)

\* "Execution belongs to the cache; individual waiters own only their wait":
\* nobody is answered with a cancellation while the helper runs.
WaitIsOwn == \A k \in Callers : got[k] = "canceled" => stopping
=============================================================================
