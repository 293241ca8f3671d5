------------------------- MODULE HistoryCacheProofs -------------------------
(***************************************************************************)
(* The history cache keeps its promises for any number of handlers, calls, *)
(* queries and machines and any limits: IInv is inductive and the          *)
(* properties of HistoryCache about counters, ownership, locks and         *)
(* cooldowns follow from it.                                               *)
(***************************************************************************)
EXTENDS HistoryCache, FiniteSetTheorems, WellFoundedInduction, TLAPS

(***************************************************************************)
(* The three counters of the cache (active, len(slots), waiters) count the *)
(* elements that a function maps into a set.  Changing the function at one *)
(* point changes the count by what that point contributes.                 *)
(***************************************************************************)
Count(S, f, P) == Cardinality({x \in S : f[x] \in P})

LEMMA CountStep ==
  ASSUME NEW S, IsFiniteSet(S), NEW f, NEW g, NEW P, NEW c \in S,
         \A x \in S \ {c} : g[x] = f[x]
  PROVE  /\ Count(S, f, P) \in Nat
         /\ f[c] \in P => Count(S, f, P) > 0
         /\ f[c] \notin P /\ g[c] \in P => Count(S, g, P) = Count(S, f, P) + 1
         /\ f[c] \in P /\ g[c] \notin P => Count(S, g, P) = Count(S, f, P) - 1
         /\ (f[c] \in P <=> g[c] \in P) => Count(S, g, P) = Count(S, f, P)
<1> DEFINE before == {x \in S : f[x] \in P}
           after  == {x \in S : g[x] \in P}
<1>1. IsFiniteSet(before)
  BY FS_Subset
<1>2. Cardinality(before) \in Nat
  BY <1>1, FS_CardinalityType
<1>3. f[c] \in P => Cardinality(before) > 0
  <2>1. f[c] \in P => before # {}
    OBVIOUS
  <2>2. QED BY <1>1, <1>2, <2>1, FS_EmptySet
<1>4. ASSUME f[c] \notin P, g[c] \in P
      PROVE  Cardinality(after) = Cardinality(before) + 1
  <2>1. after = before \cup {c} /\ c \notin before
    BY <1>4
  <2>2. QED BY <1>1, <2>1, FS_AddElement
<1>5. ASSUME f[c] \in P, g[c] \notin P
      PROVE  Cardinality(after) = Cardinality(before) - 1
  <2>1. after = before \ {c} /\ c \in before
    BY <1>5
  <2>2. QED BY <1>1, <2>1, FS_RemoveElement
<1>6. (f[c] \in P <=> g[c] \in P) => after = before
  OBVIOUS
<1>7. QED BY <1>2, <1>3, <1>4, <1>5, <1>6 DEF Count

LEMMA CountPositive ==
  ASSUME NEW S, IsFiniteSet(S), NEW f, NEW P, NEW c \in S, f[c] \in P
  PROVE  Count(S, f, P) > 0
<1>1. IsFiniteSet({x \in S : f[x] \in P}) /\ {x \in S : f[x] \in P} # {}
  BY FS_Subset
<1>2. QED BY <1>1, FS_EmptySet, FS_CardinalityType DEF Count

\* The three counters, as counts.
LEMMA Counters ==
  /\ SlotsExact <=> slots = Count(Calls, phase, Holding)
  /\ ActiveExact <=> active = Count(Calls, phase, Running)
  /\ WaitersExact <=> \A c \in Calls : waiters[c] = Count(Callers, on, {c})
<1>1. SlotsExact <=> slots = Count(Calls, phase, Holding)
  BY DEF SlotsExact, Count
<1>2. ActiveExact <=> active = Count(Calls, phase, Running)
  BY DEF ActiveExact, Count, IncompleteCalls, Incomplete
<1>3. ASSUME NEW c \in Calls
      PROVE  Count(Callers, on, {c}) = Cardinality({k \in Callers : on[k] = c})
  <2>1. {k \in Callers : on[k] \in {c}} = {k \in Callers : on[k] = c}
    OBVIOUS
  <2>2. QED BY <2>1 DEF Count
<1>4. QED BY <1>1, <1>2, <1>3 DEF WaitersExact

LEMMA CountersNext ==
  /\ SlotsExact' <=> slots' = Count(Calls, phase', Holding)
  /\ ActiveExact' <=> active' = Count(Calls, phase', Running)
  /\ WaitersExact' <=> \A c \in Calls : waiters'[c] = Count(Callers, on', {c})
<1>1. SlotsExact' <=> slots' = Count(Calls, phase', Holding)
  BY DEF SlotsExact, Count
<1>2. ActiveExact' <=> active' = Count(Calls, phase', Running)
  BY DEF ActiveExact, Count, IncompleteCalls, Incomplete
<1>3. ASSUME NEW c \in Calls
      PROVE  Count(Callers, on', {c}) = Cardinality({k \in Callers : on'[k] = c})
  <2>1. {k \in Callers : on'[k] \in {c}} = {k \in Callers : on'[k] = c}
    OBVIOUS
  <2>2. QED BY <2>1 DEF Count
<1>4. QED BY <1>1, <1>2, <1>3 DEF WaitersExact

LEMMA PhaseCount ==
  ASSUME TypeOK, NEW c \in Calls, NEW v, phase' = [phase EXCEPT ![c] = v], NEW P
  PROVE  /\ phase[c] \notin P /\ v \in P => Count(Calls, phase', P) = Count(Calls, phase, P) + 1
         /\ phase[c] \in P /\ v \notin P => Count(Calls, phase', P) = Count(Calls, phase, P) - 1
         /\ (phase[c] \in P <=> v \in P) => Count(Calls, phase', P) = Count(Calls, phase, P)
<1>1. phase'[c] = v /\ \A x \in Calls \ {c} : phase'[x] = phase[x]
  BY DEF TypeOK
<1>2. IsFiniteSet(Calls)
  BY SetsAssumption
<1>3. QED BY ONLY <1>1, <1>2, CountStep

LEMMA OnCount ==
  ASSUME TypeOK, NEW k \in Callers, NEW v, on' = [on EXCEPT ![k] = v], NEW P
  PROVE  /\ on[k] \notin P /\ v \in P => Count(Callers, on', P) = Count(Callers, on, P) + 1
         /\ on[k] \in P /\ v \notin P => Count(Callers, on', P) = Count(Callers, on, P) - 1
         /\ (on[k] \in P <=> v \in P) => Count(Callers, on', P) = Count(Callers, on, P)
<1>1. on'[k] = v /\ \A x \in Callers \ {k} : on'[x] = on[x]
  BY DEF TypeOK
<1>2. IsFiniteSet(Callers)
  BY SetsAssumption
<1>3. QED BY ONLY <1>1, <1>2, CountStep

(***************************************************************************)
(* The steps of a goroutine between the start of run and the publication   *)
(* of its result: they leave the map, the contexts and the callers alone.  *)
(***************************************************************************)
Move(c) ==
  \/ Acquire(c) \/ Abandon(c) \/ Check(c) \/ TryLock(c) \/ Cooling(c)
  \/ LookupOk(c) \/ LookupFails(c) \/ LookupKilled(c) \/ Record(c) \/ Release(c)

LEMMA MoveEffect ==
  ASSUME TypeOK, NEW c \in Calls, Move(c)
  PROVE  /\ phase[c] \in Running
         /\ \E to \in Running : phase' = [phase EXCEPT ![c] = to]
         /\ \A d \in Calls : d # c => reply'[d] = reply[d]
         /\ UNCHANGED <<entry, active, query, ctxErr, waiters, left, at, want,
                        on, got, stopping>>
<1> USE DEF TypeOK, Step, Return, cacheVars, callerVars, Running
<1>1. CASE Acquire(c)      BY <1>1 DEF Acquire
<1>2. CASE Abandon(c)      BY <1>2 DEF Abandon
<1>3. CASE Check(c)        BY <1>3 DEF Check
<1>4. CASE TryLock(c)      BY <1>4 DEF TryLock
<1>5. CASE Cooling(c)      BY <1>5 DEF Cooling
<1>6. CASE LookupOk(c)     BY <1>6 DEF LookupOk
<1>7. CASE LookupFails(c)  BY <1>7 DEF LookupFails
<1>8. CASE LookupKilled(c) BY <1>8 DEF LookupKilled
<1>9. CASE Record(c)       BY <1>9 DEF Record
<1>10. CASE Release(c)     BY <1>10 DEF Release
<1>11. QED BY <1>1, <1>2, <1>3, <1>4, <1>5, <1>6, <1>7, <1>8, <1>9, <1>10 DEF Move

LEMMA NextCases ==
  ASSUME [Next]_vars
  PROVE  \/ \E k \in Callers, q \in Queries : Ask(k, q)
         \/ \E k \in Callers : GetJoin(k) \/ GetBusy(k) \/ Receive(k) \/ GiveUp(k) \/ Leave(k)
         \/ \E k \in Callers, c \in Calls : GetCreate(k, c)
         \/ \E c \in Calls : Move(c) \/ Publish(c) \/ Timeout(c)
         \/ \E v \in VMs : OrphanExit(v)
         \/ Tick \/ Shutdown \/ UNCHANGED vars
BY DEF Next, CallerStep, CallStep, RunStep, Move, Stopped

(***************************************************************************)
(* Sweeping and evicting remove completed calls only.                      *)
(***************************************************************************)
LEMMA SweptEffect ==
  ASSUME IInv
  PROVE  /\ Swept \in [Queries -> Calls \cup {None}]
         /\ \A q \in Queries : Swept[q] \in {None, entry[q]}
         /\ \A q \in Queries : entry[q] # None /\ Incomplete(entry[q]) => Swept[q] = entry[q]
BY SetsAssumption DEF IInv, TypeOK, Swept, Drop, ExpiredKeys, DoneKeys, Keys, Incomplete, Running

LEMMA RoomEffect ==
  ASSUME NEW ks \in RoomFor(Swept, phase, left)
  PROVE  ks \subseteq DoneKeys(Swept, phase)
BY DEF RoomFor, Oldest

(***************************************************************************)
(* The bytes under some keys: nothing under none, the length of the reply  *)
(* under one, and the sum under two sets that are disjoint.                *)
(***************************************************************************)
LEMMA BytesFinite ==
  ASSUME NEW m, NEW sz, NEW ks, IsFiniteSet(ks)
  PROVE  IsFiniteSet(BytesOf(m, sz, ks)) /\ SizeOf(m, sz, ks) \in Nat
<1>1. IsFiniteSet(1..MaxRaw)
  BY FS_Interval, LimitsAssumption
<1>2. IsFiniteSet(ks \X (1..MaxRaw))
  BY <1>1, FS_Product
<1>3. IsFiniteSet(BytesOf(m, sz, ks))
  BY <1>2, FS_Subset DEF BytesOf
<1>4. QED BY <1>3, FS_CardinalityType DEF SizeOf

LEMMA SizeOfNone == \A m, sz : SizeOf(m, sz, {}) = 0
<1>1. \A m, sz : BytesOf(m, sz, {}) = {}
  BY DEF BytesOf
<1>2. QED BY <1>1, FS_EmptySet DEF SizeOf

LEMMA SizeOfOne ==
  ASSUME NEW m, NEW sz, NEW q, sz[m[q]] \in 0..MaxRaw
  PROVE  SizeOf(m, sz, {q}) = sz[m[q]]
<1> DEFINE n == sz[m[q]]
           f == [i \in 1..n |-> <<q, i>>]
<1>1. n \in Nat /\ \A i \in 1..n : i \in 1..MaxRaw /\ i <= n
  BY LimitsAssumption
<1>2. BytesOf(m, sz, {q}) = {<<q, i>> : i \in 1..n}
  <2>1. ASSUME NEW b, b \in BytesOf(m, sz, {q}) PROVE b \in {<<q, i>> : i \in 1..n}
    BY <1>1, <2>1, LimitsAssumption DEF BytesOf
  <2>2. ASSUME NEW i \in 1..n PROVE <<q, i>> \in BytesOf(m, sz, {q})
    BY <1>1 DEF BytesOf
  <2>3. QED BY <2>1, <2>2
<1>3. f \in Bijection(1..n, BytesOf(m, sz, {q}))
  BY <1>2 DEF Bijection, Injection, Surjection, IsInjective
<1>4. ExistsBijection(1..n, BytesOf(m, sz, {q}))
  BY <1>3 DEF ExistsBijection
<1>5. IsFiniteSet(1..n) /\ Cardinality(1..n) = n
  <2>1. IsFiniteSet(1..n) /\ Cardinality(1..n) = IF 1 > n THEN 0 ELSE n - 1 + 1
    BY <1>1, FS_Interval
  <2>2. QED BY <1>1, <2>1
<1>6. QED BY <1>4, <1>5, FS_Bijection DEF SizeOf

LEMMA SizeOfSame ==
  ASSUME NEW m, NEW sz, NEW n, NEW tz, NEW ks,
         \A q \in ks : sz[m[q]] = tz[n[q]]
  PROVE  SizeOf(m, sz, ks) = SizeOf(n, tz, ks)
<1>1. BytesOf(m, sz, ks) = BytesOf(n, tz, ks)
  BY DEF BytesOf
<1>2. QED BY <1>1 DEF SizeOf

LEMMA SizeOfUnion ==
  ASSUME NEW m, NEW sz, NEW ks, NEW js, IsFiniteSet(ks), IsFiniteSet(js), ks \cap js = {}
  PROVE  SizeOf(m, sz, ks \cup js) = SizeOf(m, sz, ks) + SizeOf(m, sz, js)
<1> DEFINE A == BytesOf(m, sz, ks)
           B == BytesOf(m, sz, js)
<1>1. BytesOf(m, sz, ks \cup js) = A \cup B /\ A \cap B = {}
  BY DEF BytesOf
<1>2. IsFiniteSet(A) /\ IsFiniteSet(B)
  BY BytesFinite
<1>3. Cardinality(A) \in Nat /\ Cardinality(B) \in Nat /\ Cardinality(A \cap B) = 0
  BY <1>1, <1>2, FS_CardinalityType, FS_EmptySet
<1>4. Cardinality(A \cup B) = Cardinality(A) + Cardinality(B)
  <2>1. Cardinality(A \cup B) = Cardinality(A) + Cardinality(B) - Cardinality(A \cap B)
    BY <1>2, FS_Union
  <2>2. QED BY <1>3, <2>1
<1>5. QED BY <1>1, <1>4 DEF SizeOf

LEMMA SizeOfRest ==
  ASSUME NEW m, NEW sz, NEW ks, IsFiniteSet(ks), NEW js \in SUBSET ks
  PROVE  SizeOf(m, sz, ks \ js) = SizeOf(m, sz, ks) - SizeOf(m, sz, js)
<1>1. IsFiniteSet(js) /\ IsFiniteSet(ks \ js)
  BY FS_Subset
<1>2. (ks \ js) \cup js = ks /\ (ks \ js) \cap js = {}
  OBVIOUS
<1>3. SizeOf(m, sz, ks) = SizeOf(m, sz, ks \ js) + SizeOf(m, sz, js)
  BY <1>1, <1>2, SizeOfUnion
<1>4. SizeOf(m, sz, ks \ js) \in Nat /\ SizeOf(m, sz, js) \in Nat
  BY <1>1, BytesFinite
<1>5. QED BY <1>3, <1>4

(***************************************************************************)
(* Removing completed entries from a map takes their bytes away and leaves *)
(* the others as they are.                                                 *)
(***************************************************************************)
LEMMA DoneFinite == \A m, ph : IsFiniteSet(DoneKeys(m, ph))
BY SetsAssumption, FS_Subset DEF DoneKeys, Keys

LEMMA DropBytes ==
  ASSUME NEW m, NEW ph, NEW sz, NEW ks \in SUBSET DoneKeys(m, ph)
  PROVE  /\ DoneKeys(Drop(m, ks), ph) = DoneKeys(m, ph) \ ks
         /\ SizeOf(Drop(m, ks), sz, DoneKeys(Drop(m, ks), ph))
              = SizeOf(m, sz, DoneKeys(m, ph)) - SizeOf(m, sz, ks)
<1>1. DoneKeys(Drop(m, ks), ph) = DoneKeys(m, ph) \ ks
  BY DEF DoneKeys, Keys, Drop
<1>2. \A q \in DoneKeys(m, ph) \ ks : Drop(m, ks)[q] = m[q]
  BY DEF DoneKeys, Keys, Drop
<1>3. SizeOf(Drop(m, ks), sz, DoneKeys(m, ph) \ ks) = SizeOf(m, sz, DoneKeys(m, ph) \ ks)
  BY <1>2, SizeOfSame
<1>4. QED BY <1>1, <1>3, DoneFinite, SizeOfRest

(***************************************************************************)
(* The invariant holds initially.                                          *)
(***************************************************************************)
LEMMA InitInv == Init => IInv
<1> SUFFICES ASSUME Init PROVE IInv
  OBVIOUS
<1>1. TypeOK
  <2>1. 0 \in 0..MaxActive /\ 0 \in 0..Slots /\ 0 \in 0..Cooldown /\ 0 \in 0..MaxRaw
    BY LimitsAssumption
  <2>2. lock \in [VMs -> Calls \cup {Unheld, Orphan}]
    BY DEF Init
  <2>3. QED BY <2>1, <2>2 DEF Init, TypeOK, Running, CtxErrs, Replies
<1>2. {c \in Calls : phase[c] \in Holding} = {} /\ IncompleteCalls = {}
  BY DEF Init, Holding, IncompleteCalls, Incomplete, Running
<1>3. SlotsExact /\ ActiveExact
  BY <1>2, FS_EmptySet DEF Init, SlotsExact, ActiveExact
<1>4. \A c \in Calls : {k \in Callers : on[k] = c} = {}
  BY SetsAssumption DEF Init
<1>5. WaitersExact
  BY <1>4, FS_EmptySet DEF Init, WaitersExact
<1>6. CallersPlaced /\ EntriesPlaced /\ OwnedUntilReaped /\ LocksHeld /\ CooldownHolds
      /\ CancelNotCached /\ AbandonedIsCancelled
  BY DEF Init, CallersPlaced, EntriesPlaced, OwnedUntilReaped, LocksHeld, CooldownHolds,
         CancelNotCached, AbandonedIsCancelled, Running, Locking, IncompleteCalls, Incomplete
<1>7. BytesExact
  <2>1. DoneKeys(entry, phase) = {}
    BY DEF Init, DoneKeys, Keys
  <2>2. QED BY <2>1, SizeOfNone, LimitsAssumption DEF Init, BytesExact
<1>8. QED BY <1>1, <1>3, <1>5, <1>6, <1>7 DEF IInv

(***************************************************************************)
(* Publishing a call removes completed entries only, and its own entry     *)
(* when it was cancelled.                                                  *)
(***************************************************************************)
LEMMA PublishEffect ==
  ASSUME IInv, NEW c \in Calls, Publish(c)
  PROVE  /\ \A q \in Queries : entry'[q] \in {None, entry[q]}
         /\ \A q \in Queries : entry[q] \in IncompleteCalls \ {c} => entry'[q] = entry[q]
         /\ entry' \in [Queries -> Calls \cup {None}]
         /\ phase[c] = "publish" /\ phase' = [phase EXCEPT ![c] = "done"]
         /\ query' = [query EXCEPT ![c] = None]
<1> DEFINE ph == Completed(c)
           kept == Kept(c)
<1>1. PICK ks \in SUBSET DoneKeys(kept, ph) : entry' = Drop(kept, ks)
  BY DEF Publish, Evictions
<1>2. \A q \in ks : ph[kept[q]] = "done" /\ q \in Queries
  BY <1>1 DEF DoneKeys, Keys
<1>3. \A q \in Queries : entry[q] \in IncompleteCalls \ {c} => kept[q] = entry[q]
  BY DEF Kept, NotKept, Drop, IInv, EntriesPlaced, OwnedUntilReaped, IncompleteCalls, Incomplete, Running, Publish
<1>4. \A q \in Queries : entry[q] \in IncompleteCalls \ {c} => q \notin ks
  BY <1>2, <1>3 DEF Completed, IInv, TypeOK, IncompleteCalls, Incomplete, Running
<1>5. \A q \in Queries : kept[q] \in {None, entry[q]}
  BY DEF Kept, Drop
<1>6. /\ phase[c] = "publish" /\ phase' = [phase EXCEPT ![c] = "done"]
      /\ query' = [query EXCEPT ![c] = None]
  BY DEF Publish, Completed
<1>7. QED BY <1>1, <1>3, <1>4, <1>5, <1>6 DEF Drop, IInv, TypeOK

(***************************************************************************)
(* Where a caller is tells what it holds: a query to look up, or a call.   *)
(***************************************************************************)
LEMMA PlacedStep ==
  ASSUME IInv, [Next]_vars
  PROVE  CallersPlaced'
<1>1. ASSUME NEW k \in Callers, NEW q \in Queries, Ask(k, q) PROVE CallersPlaced'
  BY <1>1, SetsAssumption DEF Ask, IInv, TypeOK, CallersPlaced, cacheVars, callVars, callerVars, vars
<1>2. ASSUME NEW k \in Callers, GetJoin(k) PROVE CallersPlaced'
  BY <1>2, SweptEffect, SetsAssumption DEF GetJoin, IInv, TypeOK, CallersPlaced, Wait, cacheVars, callVars, callerVars, vars
<1>3. ASSUME NEW k \in Callers, GetBusy(k) PROVE CallersPlaced'
  BY <1>3, SetsAssumption DEF GetBusy, IInv, TypeOK, CallersPlaced, cacheVars, callVars, callerVars, vars
<1>4. ASSUME NEW k \in Callers, Receive(k) PROVE CallersPlaced'
  BY <1>4, SetsAssumption DEF Receive, IInv, TypeOK, CallersPlaced, cacheVars, callVars, callerVars, vars
<1>5. ASSUME NEW k \in Callers, GiveUp(k) PROVE CallersPlaced'
  BY <1>5, SetsAssumption DEF GiveUp, IInv, TypeOK, CallersPlaced, cacheVars, callVars, callerVars, vars
<1>6. ASSUME NEW k \in Callers, Leave(k) PROVE CallersPlaced'
  BY <1>6, SetsAssumption DEF Leave, IInv, TypeOK, CallersPlaced, cacheVars, callVars, callerVars, vars
<1>7. ASSUME NEW k \in Callers, NEW c \in Calls, GetCreate(k, c) PROVE CallersPlaced'
  BY <1>7, SetsAssumption DEF GetCreate, IInv, TypeOK, CallersPlaced, Wait, cacheVars, callVars, callerVars, vars
<1>8. ASSUME NEW c \in Calls, Move(c) PROVE CallersPlaced'
  BY <1>8, MoveEffect DEF IInv, CallersPlaced
<1>9. ASSUME NEW c \in Calls, Publish(c) PROVE CallersPlaced'
  BY <1>9, SetsAssumption DEF Publish, IInv, TypeOK, CallersPlaced, cacheVars, callVars, callerVars, vars
<1>10. ASSUME NEW c \in Calls, Timeout(c) PROVE CallersPlaced'
  BY <1>10, SetsAssumption DEF Timeout, IInv, TypeOK, CallersPlaced, cacheVars, callVars, callerVars, vars
<1>11. ASSUME NEW v \in VMs, OrphanExit(v) PROVE CallersPlaced'
  BY <1>11, SetsAssumption DEF OrphanExit, IInv, TypeOK, CallersPlaced, cacheVars, callVars, callerVars, vars
<1>12. CASE Tick
  BY <1>12, SetsAssumption DEF Tick, IInv, TypeOK, CallersPlaced, cacheVars, callVars, callerVars, vars
<1>13. CASE Shutdown
  BY <1>13, SetsAssumption DEF Shutdown, IInv, TypeOK, CallersPlaced, cacheVars, callVars, callerVars, vars
<1>14. CASE UNCHANGED vars
  BY <1>14, SetsAssumption DEF vars, IInv, TypeOK, CallersPlaced, cacheVars, callVars, callerVars, vars
<1>15. QED BY NextCases, <1>1, <1>2, <1>3, <1>4, <1>5, <1>6, <1>7, <1>8, <1>9, <1>10, <1>11, <1>12, <1>13, <1>14

(***************************************************************************)
(* An incomplete entry of h.calls executes the key it is registered under. *)
(***************************************************************************)
LEMMA EntriesStep ==
  ASSUME IInv, [Next]_vars
  PROVE  EntriesPlaced'
<1>1. ASSUME NEW k \in Callers, NEW q \in Queries, Ask(k, q) PROVE EntriesPlaced'
  BY <1>1 DEF Ask, IInv, TypeOK, EntriesPlaced, Incomplete, Running, cacheVars, callVars, callerVars, vars
<1>2. ASSUME NEW k \in Callers, GetJoin(k) PROVE EntriesPlaced'
  BY <1>2, SweptEffect DEF GetJoin, IInv, TypeOK, EntriesPlaced, Incomplete, Running, Wait, cacheVars, callVars, callerVars, vars
<1>3. ASSUME NEW k \in Callers, GetBusy(k) PROVE EntriesPlaced'
  BY <1>3, SweptEffect DEF GetBusy, IInv, TypeOK, EntriesPlaced, Incomplete, Running, cacheVars, callVars, callerVars, vars
<1>4. ASSUME NEW k \in Callers, Receive(k) PROVE EntriesPlaced'
  BY <1>4 DEF Receive, IInv, TypeOK, EntriesPlaced, Incomplete, Running, cacheVars, callVars, callerVars, vars
<1>5. ASSUME NEW k \in Callers, GiveUp(k) PROVE EntriesPlaced'
  BY <1>5 DEF GiveUp, IInv, TypeOK, EntriesPlaced, Incomplete, Running, cacheVars, callVars, callerVars, vars
<1>6. ASSUME NEW k \in Callers, Leave(k) PROVE EntriesPlaced'
  BY <1>6 DEF Leave, IInv, TypeOK, EntriesPlaced, Incomplete, Running, cacheVars, callVars, callerVars, vars
<1>7. ASSUME NEW k \in Callers, NEW c \in Calls, GetCreate(k, c) PROVE EntriesPlaced'
  BY <1>7, SweptEffect, SetsAssumption DEF GetCreate, IInv, TypeOK, CallersPlaced, EntriesPlaced, Unused, Drop, Incomplete, Running, Wait
<1>8. ASSUME NEW c \in Calls, Move(c) PROVE EntriesPlaced'
  BY <1>8, MoveEffect DEF IInv, TypeOK, EntriesPlaced, Incomplete, Running
<1>9. ASSUME NEW c \in Calls, Publish(c) PROVE EntriesPlaced'
  BY <1>9, PublishEffect DEF IInv, TypeOK, EntriesPlaced, Incomplete, Running
<1>10. ASSUME NEW c \in Calls, Timeout(c) PROVE EntriesPlaced'
  BY <1>10 DEF Timeout, IInv, TypeOK, EntriesPlaced, Incomplete, Running, cacheVars, callVars, callerVars, vars
<1>11. ASSUME NEW v \in VMs, OrphanExit(v) PROVE EntriesPlaced'
  BY <1>11 DEF OrphanExit, IInv, TypeOK, EntriesPlaced, Incomplete, Running, cacheVars, callVars, callerVars, vars
<1>12. CASE Tick
  BY <1>12 DEF Tick, IInv, TypeOK, EntriesPlaced, Incomplete, Running, cacheVars, callVars, callerVars, vars
<1>13. CASE Shutdown
  BY <1>13 DEF Shutdown, IInv, TypeOK, EntriesPlaced, Incomplete, Running, cacheVars, callVars, callerVars, vars
<1>14. CASE UNCHANGED vars
  BY <1>14 DEF vars, IInv, TypeOK, EntriesPlaced, Incomplete, Running, cacheVars, callVars, callerVars, vars
<1>15. QED BY NextCases, <1>1, <1>2, <1>3, <1>4, <1>5, <1>6, <1>7, <1>8, <1>9, <1>10, <1>11, <1>12, <1>13, <1>14

(***************************************************************************)
(* Nothing removes an incomplete call from h.calls.                        *)
(***************************************************************************)
LEMMA OwnedStep ==
  ASSUME IInv, [Next]_vars
  PROVE  OwnedUntilReaped'
<1>1. ASSUME NEW k \in Callers, NEW q \in Queries, Ask(k, q) PROVE OwnedUntilReaped'
  BY <1>1 DEF Ask, IInv, TypeOK, OwnedUntilReaped, IncompleteCalls, Incomplete, cacheVars, callVars, callerVars, vars
<1>2. ASSUME NEW k \in Callers, GetJoin(k) PROVE OwnedUntilReaped'
  BY <1>2, SweptEffect, SetsAssumption DEF GetJoin, IInv, TypeOK, OwnedUntilReaped, IncompleteCalls, Incomplete, Wait, cacheVars, callVars, callerVars, vars
<1>3. ASSUME NEW k \in Callers, GetBusy(k) PROVE OwnedUntilReaped'
  BY <1>3, SweptEffect, SetsAssumption DEF GetBusy, IInv, TypeOK, OwnedUntilReaped, IncompleteCalls, Incomplete, cacheVars, callVars, callerVars, vars
<1>4. ASSUME NEW k \in Callers, Receive(k) PROVE OwnedUntilReaped'
  BY <1>4 DEF Receive, IInv, TypeOK, OwnedUntilReaped, IncompleteCalls, Incomplete, cacheVars, callVars, callerVars, vars
<1>5. ASSUME NEW k \in Callers, GiveUp(k) PROVE OwnedUntilReaped'
  BY <1>5 DEF GiveUp, IInv, TypeOK, OwnedUntilReaped, IncompleteCalls, Incomplete, cacheVars, callVars, callerVars, vars
<1>6. ASSUME NEW k \in Callers, Leave(k) PROVE OwnedUntilReaped'
  BY <1>6 DEF Leave, IInv, TypeOK, OwnedUntilReaped, IncompleteCalls, Incomplete, cacheVars, callVars, callerVars, vars
<1>7. ASSUME NEW k \in Callers, NEW c \in Calls, GetCreate(k, c) PROVE OwnedUntilReaped'
  BY <1>7, SweptEffect, RoomEffect, SetsAssumption DEF GetCreate, IInv, TypeOK, CallersPlaced, OwnedUntilReaped, IncompleteCalls, Incomplete, Running, DoneKeys, Keys, Drop, Wait
<1>8. ASSUME NEW c \in Calls, Move(c) PROVE OwnedUntilReaped'
  BY <1>8, MoveEffect DEF IInv, TypeOK, OwnedUntilReaped, IncompleteCalls, Incomplete
<1>9. ASSUME NEW c \in Calls, Publish(c) PROVE OwnedUntilReaped'
  BY <1>9, PublishEffect DEF IInv, TypeOK, OwnedUntilReaped, IncompleteCalls, Incomplete, Running
<1>10. ASSUME NEW c \in Calls, Timeout(c) PROVE OwnedUntilReaped'
  BY <1>10 DEF Timeout, IInv, TypeOK, OwnedUntilReaped, IncompleteCalls, Incomplete, cacheVars, callVars, callerVars, vars
<1>11. ASSUME NEW v \in VMs, OrphanExit(v) PROVE OwnedUntilReaped'
  BY <1>11 DEF OrphanExit, IInv, TypeOK, OwnedUntilReaped, IncompleteCalls, Incomplete, cacheVars, callVars, callerVars, vars
<1>12. CASE Tick
  BY <1>12 DEF Tick, IInv, TypeOK, OwnedUntilReaped, IncompleteCalls, Incomplete, cacheVars, callVars, callerVars, vars
<1>13. CASE Shutdown
  BY <1>13 DEF Shutdown, IInv, TypeOK, OwnedUntilReaped, IncompleteCalls, Incomplete, cacheVars, callVars, callerVars, vars
<1>14. CASE UNCHANGED vars
  BY <1>14 DEF vars, IInv, TypeOK, OwnedUntilReaped, IncompleteCalls, Incomplete, cacheVars, callVars, callerVars, vars
<1>15. QED BY NextCases, <1>1, <1>2, <1>3, <1>4, <1>5, <1>6, <1>7, <1>8, <1>9, <1>10, <1>11, <1>12, <1>13, <1>14

(***************************************************************************)
(* Whoever is counted makes its counter positive.                          *)
(***************************************************************************)
LEMMA CountsPositive ==
  ASSUME IInv
  PROVE  /\ \A c \in Calls : phase[c] \in Holding => slots > 0
         /\ \A c \in Calls : phase[c] \in Running => active > 0
         /\ \A k \in Callers : on[k] \in Calls => waiters[on[k]] > 0
<1>1. \A c \in Calls : phase[c] \in Holding => slots > 0
  BY CountPositive, Counters, SetsAssumption DEF IInv
<1>2. \A c \in Calls : phase[c] \in Running => active > 0
  BY CountPositive, Counters, SetsAssumption DEF IInv
<1>3. ASSUME NEW k \in Callers, on[k] \in Calls PROVE waiters[on[k]] > 0
  <2>1. Count(Callers, on, {on[k]}) > 0
    BY CountPositive, SetsAssumption
  <2>2. QED BY <1>3, <2>1, Counters DEF IInv
<1>4. QED BY <1>1, <1>2, <1>3

LEMMA WaiterJoins ==
  ASSUME IInv, NEW k \in Callers, NEW c \in Calls, on[k] = None,
         on' = [on EXCEPT ![k] = c], waiters' = [waiters EXCEPT ![c] = @ + 1]
  PROVE  WaitersExact'
<1>1. ASSUME NEW d \in Calls PROVE waiters'[d] = Count(Callers, on', {d})
  <2>1. None \notin {d} /\ (c \in {d} <=> c = d)
    BY SetsAssumption
  <2>2. waiters[d] = Count(Callers, on, {d}) /\ waiters \in [Calls -> Nat]
    BY Counters DEF IInv, TypeOK
  <2>3. /\ c = d => Count(Callers, on', {d}) = Count(Callers, on, {d}) + 1
        /\ c # d => Count(Callers, on', {d}) = Count(Callers, on, {d})
    BY <2>1, OnCount DEF IInv
  <2>4. QED BY <2>2, <2>3
<1>2. QED BY <1>1, CountersNext

LEMMA WaiterLeaves ==
  ASSUME IInv, NEW k \in Callers, NEW c \in Calls, on[k] = c,
         on' = [on EXCEPT ![k] = None], waiters' = [waiters EXCEPT ![c] = @ - 1]
  PROVE  WaitersExact'
<1>1. ASSUME NEW d \in Calls PROVE waiters'[d] = Count(Callers, on', {d})
  <2>1. None \notin {d} /\ (c \in {d} <=> c = d)
    BY SetsAssumption
  <2>2. waiters[d] = Count(Callers, on, {d}) /\ waiters \in [Calls -> Nat]
    BY Counters DEF IInv, TypeOK
  <2>3. /\ c = d => Count(Callers, on', {d}) = Count(Callers, on, {d}) - 1
        /\ c # d => Count(Callers, on', {d}) = Count(Callers, on, {d})
    BY <2>1, OnCount DEF IInv
  <2>4. QED BY <2>2, <2>3
<1>2. QED BY <1>1, CountersNext

(***************************************************************************)
(* h.active counts the goroutines: get adds one, publication removes one.  *)
(***************************************************************************)
LEMMA ActiveStep ==
  ASSUME IInv, [Next]_vars
  PROVE  ActiveExact'
<1>1. ASSUME NEW k \in Callers, NEW q \in Queries, Ask(k, q) PROVE ActiveExact'
  BY <1>1 DEF Ask, IInv, ActiveExact, IncompleteCalls, Incomplete, cacheVars, callVars, callerVars, vars
<1>2. ASSUME NEW k \in Callers, GetJoin(k) PROVE ActiveExact'
  BY <1>2 DEF GetJoin, IInv, ActiveExact, IncompleteCalls, Incomplete, Wait
<1>3. ASSUME NEW k \in Callers, GetBusy(k) PROVE ActiveExact'
  BY <1>3 DEF GetBusy, IInv, ActiveExact, IncompleteCalls, Incomplete, cacheVars, callVars, callerVars, vars
<1>4. ASSUME NEW k \in Callers, Receive(k) PROVE ActiveExact'
  BY <1>4 DEF Receive, IInv, ActiveExact, IncompleteCalls, Incomplete, cacheVars, callVars, callerVars, vars
<1>5. ASSUME NEW k \in Callers, GiveUp(k) PROVE ActiveExact'
  BY <1>5 DEF GiveUp, IInv, ActiveExact, IncompleteCalls, Incomplete, cacheVars, callVars, callerVars, vars
<1>6. ASSUME NEW k \in Callers, Leave(k) PROVE ActiveExact'
  BY <1>6 DEF Leave, IInv, ActiveExact, IncompleteCalls, Incomplete, cacheVars, callVars, callerVars, vars
<1>7. ASSUME NEW k \in Callers, NEW c \in Calls, GetCreate(k, c) PROVE ActiveExact'
  <2>1. phase[c] \notin Running /\ phase' = [phase EXCEPT ![c] = "slot"] /\ active' = active + 1
    BY <1>7 DEF GetCreate, Unused, Incomplete
  <2>2. "slot" \in Running
    BY DEF Running
  <2>3. Count(Calls, phase', Running) = Count(Calls, phase, Running) + 1
    BY <2>1, <2>2, PhaseCount DEF IInv
  <2>4. QED BY <2>1, <2>3, Counters, CountersNext DEF IInv
<1>8. ASSUME NEW c \in Calls, Move(c) PROVE ActiveExact'
  <2>1. PICK to \in Running : phase' = [phase EXCEPT ![c] = to]
    BY <1>8, MoveEffect DEF IInv
  <2>2. phase[c] \in Running /\ active' = active
    BY <1>8, MoveEffect DEF IInv
  <2>3. Count(Calls, phase', Running) = Count(Calls, phase, Running)
    BY <2>1, <2>2, PhaseCount DEF IInv
  <2>4. QED BY <2>2, <2>3, Counters, CountersNext DEF IInv
<1>9. ASSUME NEW c \in Calls, Publish(c) PROVE ActiveExact'
  <2>1. phase[c] \in Running /\ phase' = [phase EXCEPT ![c] = "done"] /\ active' = active - 1
    BY <1>9 DEF Publish, Completed, Running, ActiveAfter
  <2>2. "done" \notin Running
    BY DEF Running
  <2>3. Count(Calls, phase', Running) = Count(Calls, phase, Running) - 1
    BY <2>1, <2>2, PhaseCount DEF IInv
  <2>4. QED BY <2>1, <2>3, Counters, CountersNext DEF IInv
<1>10. ASSUME NEW c \in Calls, Timeout(c) PROVE ActiveExact'
  BY <1>10 DEF Timeout, IInv, ActiveExact, IncompleteCalls, Incomplete, cacheVars, callVars, callerVars, vars
<1>11. ASSUME NEW v \in VMs, OrphanExit(v) PROVE ActiveExact'
  BY <1>11 DEF OrphanExit, IInv, ActiveExact, IncompleteCalls, Incomplete, cacheVars, callVars, callerVars, vars
<1>12. CASE Tick
  BY <1>12 DEF Tick, IInv, ActiveExact, IncompleteCalls, Incomplete, cacheVars, callVars, callerVars, vars
<1>13. CASE Shutdown
  BY <1>13 DEF Shutdown, IInv, ActiveExact, IncompleteCalls, Incomplete, cacheVars, callVars, callerVars, vars
<1>14. CASE UNCHANGED vars
  BY <1>14 DEF vars, IInv, ActiveExact, IncompleteCalls, Incomplete, cacheVars, callVars, callerVars, vars
<1>15. QED BY NextCases, <1>1, <1>2, <1>3, <1>4, <1>5, <1>6, <1>7, <1>8, <1>9, <1>10, <1>11, <1>12, <1>13, <1>14

(***************************************************************************)
(* call.waiters counts the callers with a pointer to the call.             *)
(***************************************************************************)
LEMMA WaitersStep ==
  ASSUME IInv, [Next]_vars
  PROVE  WaitersExact'
<1>1. ASSUME NEW k \in Callers, NEW q \in Queries, Ask(k, q) PROVE WaitersExact'
  BY <1>1 DEF Ask, IInv, WaitersExact, cacheVars, callVars, callerVars, vars
<1>2. ASSUME NEW k \in Callers, GetJoin(k) PROVE WaitersExact'
  <2>1. PICK c \in Calls : /\ on[k] = None /\ on' = [on EXCEPT ![k] = c]
                           /\ waiters' = [waiters EXCEPT ![c] = waiters[c] + 1]
    <3>1. Swept[want[k]] \in Calls
      BY <1>2, SweptEffect DEF GetJoin, IInv, CallersPlaced
    <3>2. QED BY <1>2, <3>1 DEF GetJoin, Wait, IInv, CallersPlaced
  <2>2. QED BY <2>1, WaiterJoins
<1>3. ASSUME NEW k \in Callers, GetBusy(k) PROVE WaitersExact'
  BY <1>3 DEF GetBusy, IInv, WaitersExact, cacheVars, callVars, callerVars, vars
<1>4. ASSUME NEW k \in Callers, Receive(k) PROVE WaitersExact'
  BY <1>4 DEF Receive, IInv, WaitersExact, cacheVars, callVars, callerVars, vars
<1>5. ASSUME NEW k \in Callers, GiveUp(k) PROVE WaitersExact'
  BY <1>5 DEF GiveUp, IInv, WaitersExact, cacheVars, callVars, callerVars, vars
<1>6. ASSUME NEW k \in Callers, Leave(k) PROVE WaitersExact'
  <2>1. /\ on[k] \in Calls /\ on' = [on EXCEPT ![k] = None]
        /\ waiters' = [waiters EXCEPT ![on[k]] = waiters[on[k]] - 1]
    BY <1>6 DEF Leave, IInv, CallersPlaced
  <2>2. QED BY <2>1, WaiterLeaves
<1>7. ASSUME NEW k \in Callers, NEW c \in Calls, GetCreate(k, c) PROVE WaitersExact'
  <2>1. /\ on[k] = None /\ on' = [on EXCEPT ![k] = c]
        /\ waiters' = [waiters EXCEPT ![c] = waiters[c] + 1]
    BY <1>7 DEF GetCreate, Wait, IInv, CallersPlaced
  <2>2. QED BY <2>1, WaiterJoins
<1>8. ASSUME NEW c \in Calls, Move(c) PROVE WaitersExact'
  BY <1>8, MoveEffect DEF IInv, WaitersExact
<1>9. ASSUME NEW c \in Calls, Publish(c) PROVE WaitersExact'
  BY <1>9 DEF Publish, IInv, WaitersExact, cacheVars, callVars, callerVars, vars
<1>10. ASSUME NEW c \in Calls, Timeout(c) PROVE WaitersExact'
  BY <1>10 DEF Timeout, IInv, WaitersExact, cacheVars, callVars, callerVars, vars
<1>11. ASSUME NEW v \in VMs, OrphanExit(v) PROVE WaitersExact'
  BY <1>11 DEF OrphanExit, IInv, WaitersExact, cacheVars, callVars, callerVars, vars
<1>12. CASE Tick
  BY <1>12 DEF Tick, IInv, WaitersExact, cacheVars, callVars, callerVars, vars
<1>13. CASE Shutdown
  BY <1>13 DEF Shutdown, IInv, WaitersExact, cacheVars, callVars, callerVars, vars
<1>14. CASE UNCHANGED vars
  BY <1>14 DEF vars, IInv, WaitersExact, cacheVars, callVars, callerVars, vars
<1>15. QED BY NextCases, <1>1, <1>2, <1>3, <1>4, <1>5, <1>6, <1>7, <1>8, <1>9, <1>10, <1>11, <1>12, <1>13, <1>14

(***************************************************************************)
(* len(h.slots) counts the executions between the acquisition of a slot and *)
(* its deferred release.                                                   *)
(***************************************************************************)
LEMMA SlotsStep ==
  ASSUME IInv, [Next]_vars
  PROVE  SlotsExact'
<1>1. ASSUME NEW k \in Callers, NEW q \in Queries, Ask(k, q) PROVE SlotsExact'
  BY <1>1 DEF Ask, IInv, SlotsExact, cacheVars, callVars, callerVars, vars
<1>2. ASSUME NEW k \in Callers, GetJoin(k) PROVE SlotsExact'
  BY <1>2 DEF GetJoin, IInv, SlotsExact, Wait
<1>3. ASSUME NEW k \in Callers, GetBusy(k) PROVE SlotsExact'
  BY <1>3 DEF GetBusy, IInv, SlotsExact, cacheVars, callVars, callerVars, vars
<1>4. ASSUME NEW k \in Callers, Receive(k) PROVE SlotsExact'
  BY <1>4 DEF Receive, IInv, SlotsExact, cacheVars, callVars, callerVars, vars
<1>5. ASSUME NEW k \in Callers, GiveUp(k) PROVE SlotsExact'
  BY <1>5 DEF GiveUp, IInv, SlotsExact, cacheVars, callVars, callerVars, vars
<1>6. ASSUME NEW k \in Callers, Leave(k) PROVE SlotsExact'
  BY <1>6 DEF Leave, IInv, SlotsExact, cacheVars, callVars, callerVars, vars
<1>7. ASSUME NEW k \in Callers, NEW c \in Calls, GetCreate(k, c) PROVE SlotsExact'
  <2>1. phase[c] \notin Running /\ phase' = [phase EXCEPT ![c] = "slot"] /\ slots' = slots
    BY <1>7 DEF GetCreate, Unused, Incomplete
  <2>2. "slot" \notin Holding /\ phase[c] \notin Holding
    BY <2>1 DEF Holding, Running
  <2>3. Count(Calls, phase', Holding) = Count(Calls, phase, Holding)
    BY <2>1, <2>2, PhaseCount DEF IInv
  <2>4. QED BY <2>1, <2>3, Counters, CountersNext DEF IInv
<1>8. ASSUME NEW c \in Calls, Move(c) PROVE SlotsExact'
  <2>1. CASE Acquire(c)
    <3>1. phase[c] \notin Holding /\ "admitted" \in Holding
      BY <2>1 DEF Acquire, Step, Holding
    <3>2. phase' = [phase EXCEPT ![c] = "admitted"] /\ slots' = slots + 1
      BY <2>1 DEF Acquire, Step
    <3>3. QED BY <3>1, <3>2, PhaseCount, Counters, CountersNext DEF IInv
  <2>2. CASE Abandon(c)
    <3>1. phase[c] \notin Holding /\ "publish" \notin Holding
      BY <2>2 DEF Abandon, Step, Holding
    <3>2. phase' = [phase EXCEPT ![c] = "publish"] /\ slots' = slots
      BY <2>2 DEF Abandon, Step
    <3>3. Count(Calls, phase', Holding) = Count(Calls, phase, Holding)
      BY <3>1, <3>2, PhaseCount DEF IInv
    <3>4. QED BY <3>2, <3>3, Counters, CountersNext DEF IInv
  <2>3. CASE Check(c)
    <3>1. phase[c] \in Holding /\ "publish" \notin Holding
      BY <2>3 DEF Check, Step, Holding
    <3>2. \/ slots' = slots /\ \E to \in Holding : phase' = [phase EXCEPT ![c] = to]
          \/ slots' = slots - 1 /\ phase' = [phase EXCEPT ![c] = "publish"]
      BY <2>3 DEF Check, Step, Holding
    <3>3. QED BY <3>1, <3>2, PhaseCount, Counters, CountersNext DEF IInv
  <2>4. CASE TryLock(c)
    <3>1. phase[c] \in Holding /\ "publish" \notin Holding
      BY <2>4 DEF TryLock, Step, Holding
    <3>2. \/ slots' = slots /\ \E to \in Holding : phase' = [phase EXCEPT ![c] = to]
          \/ slots' = slots - 1 /\ phase' = [phase EXCEPT ![c] = "publish"]
      BY <2>4 DEF TryLock, Step, Holding
    <3>3. QED BY <3>1, <3>2, PhaseCount, Counters, CountersNext DEF IInv
  <2>5. CASE Cooling(c)
    <3>1. phase[c] \in Holding /\ slots' = slots
      BY <2>5 DEF Cooling, Step, Holding
    <3>2. \E to \in Holding : phase' = [phase EXCEPT ![c] = to]
      BY <2>5 DEF Cooling, Step, Holding
    <3>3. QED BY <3>1, <3>2, PhaseCount, Counters, CountersNext DEF IInv
  <2>6. CASE LookupOk(c)
    <3>1. phase[c] \in Holding /\ slots' = slots
      BY <2>6 DEF LookupOk, Step, Holding
    <3>2. \E to \in Holding : phase' = [phase EXCEPT ![c] = to]
      BY <2>6 DEF LookupOk, Step, Holding
    <3>3. QED BY <3>1, <3>2, PhaseCount, Counters, CountersNext DEF IInv
  <2>7. CASE LookupFails(c)
    <3>1. phase[c] \in Holding /\ slots' = slots
      BY <2>7 DEF LookupFails, Step, Holding
    <3>2. \E to \in Holding : phase' = [phase EXCEPT ![c] = to]
      BY <2>7 DEF LookupFails, Step, Holding
    <3>3. QED BY <3>1, <3>2, PhaseCount, Counters, CountersNext DEF IInv
  <2>8. CASE LookupKilled(c)
    <3>1. phase[c] \in Holding /\ slots' = slots
      BY <2>8 DEF LookupKilled, Step, Holding
    <3>2. \E to \in Holding : phase' = [phase EXCEPT ![c] = to]
      BY <2>8 DEF LookupKilled, Step, Holding
    <3>3. QED BY <3>1, <3>2, PhaseCount, Counters, CountersNext DEF IInv
  <2>9. CASE Record(c)
    <3>1. phase[c] \in Holding /\ slots' = slots
      BY <2>9 DEF Record, Step, Holding
    <3>2. \E to \in Holding : phase' = [phase EXCEPT ![c] = to]
      BY <2>9 DEF Record, Step, Holding
    <3>3. QED BY <3>1, <3>2, PhaseCount, Counters, CountersNext DEF IInv
  <2>10. CASE Release(c)
    <3>1. phase[c] \in Holding /\ "publish" \notin Holding
      BY <2>10 DEF Release, Step, Holding
    <3>2. phase' = [phase EXCEPT ![c] = "publish"] /\ slots' = slots - 1
      BY <2>10 DEF Release, Step
    <3>3. QED BY <3>1, <3>2, PhaseCount, Counters, CountersNext DEF IInv
  <2>11. QED BY <1>8, <2>1, <2>2, <2>3, <2>4, <2>5, <2>6, <2>7, <2>8, <2>9, <2>10 DEF Move
<1>9. ASSUME NEW c \in Calls, Publish(c) PROVE SlotsExact'
  <2>1. phase[c] = "publish" /\ phase' = [phase EXCEPT ![c] = "done"] /\ slots' = slots
    BY <1>9 DEF Publish, Completed
  <2>2. phase[c] \notin Holding /\ "done" \notin Holding
    BY <2>1 DEF Holding
  <2>3. Count(Calls, phase', Holding) = Count(Calls, phase, Holding)
    BY <2>1, <2>2, PhaseCount DEF IInv
  <2>4. QED BY <2>1, <2>3, Counters, CountersNext DEF IInv
<1>10. ASSUME NEW c \in Calls, Timeout(c) PROVE SlotsExact'
  BY <1>10 DEF Timeout, IInv, SlotsExact, cacheVars, callVars, callerVars, vars
<1>11. ASSUME NEW v \in VMs, OrphanExit(v) PROVE SlotsExact'
  BY <1>11 DEF OrphanExit, IInv, SlotsExact, cacheVars, callVars, callerVars, vars
<1>12. CASE Tick
  BY <1>12 DEF Tick, IInv, SlotsExact, cacheVars, callVars, callerVars, vars
<1>13. CASE Shutdown
  BY <1>13 DEF Shutdown, IInv, SlotsExact, cacheVars, callVars, callerVars, vars
<1>14. CASE UNCHANGED vars
  BY <1>14 DEF vars, IInv, SlotsExact, cacheVars, callVars, callerVars, vars
<1>15. QED BY NextCases, <1>1, <1>2, <1>3, <1>4, <1>5, <1>6, <1>7, <1>8, <1>9, <1>10, <1>11, <1>12, <1>13, <1>14

LEMMA PublishLocks ==
  ASSUME TypeOK, LocksHeld, NEW c \in Calls, Publish(c)
  PROVE  LocksHeld'
<1>1. /\ phase[c] = "publish" /\ phase' = [phase EXCEPT ![c] = "done"]
      /\ query' = [query EXCEPT ![c] = None] /\ lock' = lock
  BY DEF Publish, Completed
<1>2. QED BY <1>1 DEF TypeOK, LocksHeld, VM, Locking

(***************************************************************************)
(* From guestLock to lock.Close the VM's flock is the call's own.          *)
(***************************************************************************)
LEMMA LocksStep ==
  ASSUME IInv, [Next]_vars
  PROVE  LocksHeld'
<1>1. ASSUME NEW k \in Callers, NEW q \in Queries, Ask(k, q) PROVE LocksHeld'
  BY <1>1 DEF Ask, IInv, TypeOK, LocksHeld, OwnedUntilReaped, IncompleteCalls, Incomplete, VM, Locking, Running, cacheVars, callVars, callerVars, vars
<1>2. ASSUME NEW k \in Callers, GetJoin(k) PROVE LocksHeld'
  BY <1>2 DEF GetJoin, IInv, TypeOK, LocksHeld, OwnedUntilReaped, IncompleteCalls, Incomplete, VM, Locking, Running, Wait
<1>3. ASSUME NEW k \in Callers, GetBusy(k) PROVE LocksHeld'
  BY <1>3 DEF GetBusy, IInv, TypeOK, LocksHeld, OwnedUntilReaped, IncompleteCalls, Incomplete, VM, Locking, Running, cacheVars, callVars, callerVars, vars
<1>4. ASSUME NEW k \in Callers, Receive(k) PROVE LocksHeld'
  BY <1>4 DEF Receive, IInv, TypeOK, LocksHeld, OwnedUntilReaped, IncompleteCalls, Incomplete, VM, Locking, Running, cacheVars, callVars, callerVars, vars
<1>5. ASSUME NEW k \in Callers, GiveUp(k) PROVE LocksHeld'
  BY <1>5 DEF GiveUp, IInv, TypeOK, LocksHeld, OwnedUntilReaped, IncompleteCalls, Incomplete, VM, Locking, Running, cacheVars, callVars, callerVars, vars
<1>6. ASSUME NEW k \in Callers, Leave(k) PROVE LocksHeld'
  BY <1>6 DEF Leave, IInv, TypeOK, LocksHeld, OwnedUntilReaped, IncompleteCalls, Incomplete, VM, Locking, Running, cacheVars, callVars, callerVars, vars
<1>7. ASSUME NEW k \in Callers, NEW c \in Calls, GetCreate(k, c) PROVE LocksHeld'
  BY <1>7 DEF GetCreate, IInv, TypeOK, LocksHeld, OwnedUntilReaped, IncompleteCalls, Incomplete, VM, Locking, Running, Wait, Unused
<1>8. ASSUME NEW c \in Calls, Move(c) PROVE LocksHeld'
  <2>1. CASE Acquire(c)
    BY <2>1, SetsAssumption DEF Acquire, IInv, TypeOK, LocksHeld, OwnedUntilReaped, IncompleteCalls, Incomplete, VM, Locking, Running, Step, cacheVars, Lockable
  <2>2. CASE Abandon(c)
    BY <2>2, SetsAssumption DEF Abandon, IInv, TypeOK, LocksHeld, OwnedUntilReaped, IncompleteCalls, Incomplete, VM, Locking, Running, Step, cacheVars, Lockable
  <2>3. CASE Check(c)
    BY <2>3, SetsAssumption DEF Check, IInv, TypeOK, LocksHeld, OwnedUntilReaped, IncompleteCalls, Incomplete, VM, Locking, Running, Step, cacheVars, Lockable
  <2>4. CASE TryLock(c)
    BY <2>4, SetsAssumption DEF TryLock, IInv, TypeOK, LocksHeld, OwnedUntilReaped, IncompleteCalls, Incomplete, VM, Locking, Running, Step, cacheVars, Lockable
  <2>5. CASE Cooling(c)
    BY <2>5, SetsAssumption DEF Cooling, IInv, TypeOK, LocksHeld, OwnedUntilReaped, IncompleteCalls, Incomplete, VM, Locking, Running, Step, cacheVars, Lockable
  <2>6. CASE LookupOk(c)
    BY <2>6, SetsAssumption DEF LookupOk, IInv, TypeOK, LocksHeld, OwnedUntilReaped, IncompleteCalls, Incomplete, VM, Locking, Running, Step, cacheVars, Lockable
  <2>7. CASE LookupFails(c)
    BY <2>7, SetsAssumption DEF LookupFails, IInv, TypeOK, LocksHeld, OwnedUntilReaped, IncompleteCalls, Incomplete, VM, Locking, Running, Step, cacheVars, Lockable
  <2>8. CASE LookupKilled(c)
    BY <2>8, SetsAssumption DEF LookupKilled, IInv, TypeOK, LocksHeld, OwnedUntilReaped, IncompleteCalls, Incomplete, VM, Locking, Running, Step, cacheVars, Lockable
  <2>9. CASE Record(c)
    BY <2>9, SetsAssumption DEF Record, IInv, TypeOK, LocksHeld, OwnedUntilReaped, IncompleteCalls, Incomplete, VM, Locking, Running, Step, cacheVars, Lockable
  <2>10. CASE Release(c)
    BY <2>10, SetsAssumption DEF Release, IInv, TypeOK, LocksHeld, OwnedUntilReaped, IncompleteCalls, Incomplete, VM, Locking, Running, Step, cacheVars, Lockable
  <2>11. QED BY <1>8, <2>1, <2>2, <2>3, <2>4, <2>5, <2>6, <2>7, <2>8, <2>9, <2>10 DEF Move
<1>9. ASSUME NEW c \in Calls, Publish(c) PROVE LocksHeld'
  BY <1>9, PublishLocks DEF IInv
<1>10. ASSUME NEW c \in Calls, Timeout(c) PROVE LocksHeld'
  BY <1>10 DEF Timeout, IInv, TypeOK, LocksHeld, OwnedUntilReaped, IncompleteCalls, Incomplete, VM, Locking, Running, cacheVars, callVars, callerVars, vars
<1>11. ASSUME NEW v \in VMs, OrphanExit(v) PROVE LocksHeld'
  BY <1>11, SetsAssumption DEF OrphanExit, IInv, TypeOK, LocksHeld, OwnedUntilReaped, IncompleteCalls, Incomplete, VM, Locking, Running, cacheVars, callVars, callerVars, vars
<1>12. CASE Tick
  BY <1>12 DEF Tick, IInv, TypeOK, LocksHeld, OwnedUntilReaped, IncompleteCalls, Incomplete, VM, Locking, Running, cacheVars, callVars, callerVars, vars
<1>13. CASE Shutdown
  BY <1>13 DEF Shutdown, IInv, TypeOK, LocksHeld, OwnedUntilReaped, IncompleteCalls, Incomplete, VM, Locking, Running, cacheVars, callVars, callerVars, vars
<1>14. CASE UNCHANGED vars
  BY <1>14 DEF vars, IInv, TypeOK, LocksHeld, OwnedUntilReaped, IncompleteCalls, Incomplete, VM, Locking, Running, cacheVars, callVars, callerVars, vars
<1>15. QED BY NextCases, <1>1, <1>2, <1>3, <1>4, <1>5, <1>6, <1>7, <1>8, <1>9, <1>10, <1>11, <1>12, <1>13, <1>14

LEMMA PublishCooldown ==
  ASSUME TypeOK, CooldownHolds, NEW c \in Calls, Publish(c)
  PROVE  CooldownHolds'
<1>1. /\ phase[c] = "publish" /\ phase' = [phase EXCEPT ![c] = "done"]
      /\ query' = [query EXCEPT ![c] = None] /\ failures' = failures
  BY DEF Publish, Completed
<1>2. QED BY <1>1 DEF TypeOK, CooldownHolds, InCooldown, VM

(***************************************************************************)
(* A cooldown can start only for a VM whose flock is held, after the lookup, *)
(* so no other call of the VM is in its lookup then.                       *)
(***************************************************************************)
LEMMA CooldownStep ==
  ASSUME IInv, [Next]_vars
  PROVE  CooldownHolds'
<1>1. ASSUME NEW k \in Callers, NEW q \in Queries, Ask(k, q) PROVE CooldownHolds'
  BY <1>1 DEF Ask, IInv, TypeOK, CooldownHolds, InCooldown, VM, cacheVars, callVars, callerVars, vars
<1>2. ASSUME NEW k \in Callers, GetJoin(k) PROVE CooldownHolds'
  BY <1>2 DEF GetJoin, IInv, TypeOK, CooldownHolds, InCooldown, VM, Wait, cacheVars
<1>3. ASSUME NEW k \in Callers, GetBusy(k) PROVE CooldownHolds'
  BY <1>3 DEF GetBusy, IInv, TypeOK, CooldownHolds, InCooldown, VM, cacheVars, callVars, callerVars, vars
<1>4. ASSUME NEW k \in Callers, Receive(k) PROVE CooldownHolds'
  BY <1>4 DEF Receive, IInv, TypeOK, CooldownHolds, InCooldown, VM, cacheVars, callVars, callerVars, vars
<1>5. ASSUME NEW k \in Callers, GiveUp(k) PROVE CooldownHolds'
  BY <1>5 DEF GiveUp, IInv, TypeOK, CooldownHolds, InCooldown, VM, cacheVars, callVars, callerVars, vars
<1>6. ASSUME NEW k \in Callers, Leave(k) PROVE CooldownHolds'
  BY <1>6 DEF Leave, IInv, TypeOK, CooldownHolds, InCooldown, VM, cacheVars, callVars, callerVars, vars
<1>7. ASSUME NEW k \in Callers, NEW c \in Calls, GetCreate(k, c) PROVE CooldownHolds'
  BY <1>7 DEF GetCreate, IInv, TypeOK, CooldownHolds, InCooldown, VM, Wait, Unused, Incomplete, Running
<1>8. ASSUME NEW c \in Calls, Move(c) PROVE CooldownHolds'
  <2>1. CASE Acquire(c)
    BY <2>1 DEF Acquire, IInv, TypeOK, CooldownHolds, InCooldown, VM, Step, cacheVars
  <2>2. CASE Abandon(c)
    BY <2>2 DEF Abandon, IInv, TypeOK, CooldownHolds, InCooldown, VM, Step, cacheVars
  <2>3. CASE Check(c)
    BY <2>3 DEF Check, IInv, TypeOK, CooldownHolds, InCooldown, VM, Step, cacheVars
  <2>4. CASE TryLock(c)
    BY <2>4 DEF TryLock, IInv, TypeOK, CooldownHolds, InCooldown, VM, Step, cacheVars
  <2>5. CASE Cooling(c)
    BY <2>5 DEF Cooling, IInv, TypeOK, CooldownHolds, InCooldown, VM, Step, cacheVars
  <2>6. CASE LookupOk(c)
    BY <2>6 DEF LookupOk, IInv, TypeOK, CooldownHolds, InCooldown, VM, Step, cacheVars
  <2>7. CASE LookupFails(c)
    BY <2>7 DEF LookupFails, IInv, TypeOK, CooldownHolds, InCooldown, VM, Step, cacheVars
  <2>8. CASE LookupKilled(c)
    BY <2>8 DEF LookupKilled, IInv, TypeOK, CooldownHolds, InCooldown, VM, Step, cacheVars
  <2>9. CASE Record(c)
    BY <2>9 DEF Record, IInv, TypeOK, CooldownHolds, InCooldown, VM, Step, LocksHeld, Locking
  <2>10. CASE Release(c)
    BY <2>10 DEF Release, IInv, TypeOK, CooldownHolds, InCooldown, VM, Step, cacheVars
  <2>11. QED BY <1>8, <2>1, <2>2, <2>3, <2>4, <2>5, <2>6, <2>7, <2>8, <2>9, <2>10 DEF Move
<1>9. ASSUME NEW c \in Calls, Publish(c) PROVE CooldownHolds'
  BY <1>9, PublishCooldown DEF IInv
<1>10. ASSUME NEW c \in Calls, Timeout(c) PROVE CooldownHolds'
  BY <1>10 DEF Timeout, IInv, TypeOK, CooldownHolds, InCooldown, VM, cacheVars, callVars, callerVars, vars
<1>11. ASSUME NEW v \in VMs, OrphanExit(v) PROVE CooldownHolds'
  BY <1>11 DEF OrphanExit, IInv, TypeOK, CooldownHolds, InCooldown, VM, cacheVars, callVars, callerVars, vars
<1>12. CASE Tick
  BY <1>12, SetsAssumption, LimitsAssumption DEF Tick, IInv, TypeOK, CooldownHolds, InCooldown, VM, OwnedUntilReaped, IncompleteCalls, Incomplete, Running
<1>13. CASE Shutdown
  BY <1>13 DEF Shutdown, IInv, TypeOK, CooldownHolds, InCooldown, VM, cacheVars, callVars, callerVars, vars
<1>14. CASE UNCHANGED vars
  BY <1>14 DEF vars, IInv, TypeOK, CooldownHolds, InCooldown, VM, cacheVars, callVars, callerVars, vars
<1>15. QED BY NextCases, <1>1, <1>2, <1>3, <1>4, <1>5, <1>6, <1>7, <1>8, <1>9, <1>10, <1>11, <1>12, <1>13, <1>14

LEMMA PublishCancel ==
  ASSUME IInv, NEW c \in Calls, Publish(c)
  PROVE  CancelNotCached'
<1> SUFFICES ASSUME NEW q \in Queries, entry'[q] # None, phase'[entry'[q]] = "done",
                    reply[entry'[q]] = "canceled"
             PROVE  FALSE
  BY DEF CancelNotCached, Publish
<1>1. entry'[q] = entry[q] /\ phase[c] = "publish" /\ phase' = [phase EXCEPT ![c] = "done"]
  BY PublishEffect
<1>2. entry[q] = c
  BY <1>1 DEF IInv, TypeOK, CancelNotCached
<1>3. q = query[c]
  BY <1>1, <1>2 DEF IInv, EntriesPlaced, Incomplete, Running
<1>4. q \in NotKept(c)
  BY <1>2, <1>3, <1>1 DEF NotKept
<1>5. PICK ks : entry' = Drop(Drop(entry, NotKept(c)), ks)
  BY DEF Publish, Kept
<1>6. entry'[q] = None
  BY <1>4, <1>5 DEF Drop
<1>7. QED BY <1>6

(***************************************************************************)
(* A cancelled call is completed and deleted from h.calls in one step, and *)
(* its key was the only one it had.                                        *)
(***************************************************************************)
LEMMA CancelStep ==
  ASSUME IInv, [Next]_vars
  PROVE  CancelNotCached'
<1>1. ASSUME NEW k \in Callers, NEW q \in Queries, Ask(k, q) PROVE CancelNotCached'
  BY <1>1 DEF Ask, IInv, TypeOK, CancelNotCached, cacheVars, callVars, callerVars, vars
<1>2. ASSUME NEW k \in Callers, GetJoin(k) PROVE CancelNotCached'
  BY <1>2, SweptEffect DEF GetJoin, IInv, TypeOK, CancelNotCached, Wait
<1>3. ASSUME NEW k \in Callers, GetBusy(k) PROVE CancelNotCached'
  BY <1>3, SweptEffect DEF GetBusy, IInv, TypeOK, CancelNotCached, callVars
<1>4. ASSUME NEW k \in Callers, Receive(k) PROVE CancelNotCached'
  BY <1>4 DEF Receive, IInv, TypeOK, CancelNotCached, cacheVars, callVars, callerVars, vars
<1>5. ASSUME NEW k \in Callers, GiveUp(k) PROVE CancelNotCached'
  BY <1>5 DEF GiveUp, IInv, TypeOK, CancelNotCached, cacheVars, callVars, callerVars, vars
<1>6. ASSUME NEW k \in Callers, Leave(k) PROVE CancelNotCached'
  BY <1>6 DEF Leave, IInv, TypeOK, CancelNotCached, cacheVars, callVars, callerVars, vars
<1>7. ASSUME NEW k \in Callers, NEW c \in Calls, GetCreate(k, c) PROVE CancelNotCached'
  BY <1>7, SweptEffect, SetsAssumption DEF GetCreate, IInv, TypeOK, CancelNotCached, CallersPlaced, Wait, Unused, Drop
<1>8. ASSUME NEW c \in Calls, Move(c) PROVE CancelNotCached'
  BY <1>8, MoveEffect DEF IInv, TypeOK, CancelNotCached, Running
<1>9. ASSUME NEW c \in Calls, Publish(c) PROVE CancelNotCached'
  BY <1>9, PublishCancel
<1>10. ASSUME NEW c \in Calls, Timeout(c) PROVE CancelNotCached'
  BY <1>10 DEF Timeout, IInv, TypeOK, CancelNotCached, cacheVars, callVars, callerVars, vars
<1>11. ASSUME NEW v \in VMs, OrphanExit(v) PROVE CancelNotCached'
  BY <1>11 DEF OrphanExit, IInv, TypeOK, CancelNotCached, cacheVars, callVars, callerVars, vars
<1>12. CASE Tick
  BY <1>12 DEF Tick, IInv, TypeOK, CancelNotCached, cacheVars, callVars, callerVars, vars
<1>13. CASE Shutdown
  BY <1>13 DEF Shutdown, IInv, TypeOK, CancelNotCached, cacheVars, callVars, callerVars, vars
<1>14. CASE UNCHANGED vars
  BY <1>14 DEF vars, IInv, TypeOK, CancelNotCached, cacheVars, callVars, callerVars, vars
<1>15. QED BY NextCases, <1>1, <1>2, <1>3, <1>4, <1>5, <1>6, <1>7, <1>8, <1>9, <1>10, <1>11, <1>12, <1>13, <1>14

LEMMA PublishAbandoned ==
  ASSUME TypeOK, AbandonedIsCancelled, NEW c \in Calls, Publish(c)
  PROVE  AbandonedIsCancelled'
<1>1. /\ phase[c] = "publish" /\ phase' = [phase EXCEPT ![c] = "done"]
      /\ ctxErr' = [ctxErr EXCEPT ![c] = "none"] /\ on' = on
  BY DEF Publish, Completed, callerVars
<1>2. QED BY <1>1 DEF TypeOK, AbandonedIsCancelled, IncompleteCalls, Incomplete, Running

(***************************************************************************)
(* The caller that takes call.waiters to zero cancels the call.            *)
(***************************************************************************)
LEMMA AbandonedStep ==
  ASSUME IInv, [Next]_vars
  PROVE  AbandonedIsCancelled'
<1>1. ASSUME NEW k \in Callers, NEW q \in Queries, Ask(k, q) PROVE AbandonedIsCancelled'
  BY <1>1 DEF Ask, IInv, TypeOK, AbandonedIsCancelled, IncompleteCalls, Incomplete, cacheVars, callVars, callerVars, vars
<1>2. ASSUME NEW k \in Callers, GetJoin(k) PROVE AbandonedIsCancelled'
  BY <1>2, SetsAssumption DEF GetJoin, IInv, TypeOK, AbandonedIsCancelled, IncompleteCalls, Incomplete, CallersPlaced, Wait
<1>3. ASSUME NEW k \in Callers, GetBusy(k) PROVE AbandonedIsCancelled'
  BY <1>3 DEF GetBusy, IInv, TypeOK, AbandonedIsCancelled, IncompleteCalls, Incomplete, cacheVars, callVars, callerVars, vars
<1>4. ASSUME NEW k \in Callers, Receive(k) PROVE AbandonedIsCancelled'
  BY <1>4 DEF Receive, IInv, TypeOK, AbandonedIsCancelled, IncompleteCalls, Incomplete, cacheVars, callVars, callerVars, vars
<1>5. ASSUME NEW k \in Callers, GiveUp(k) PROVE AbandonedIsCancelled'
  BY <1>5 DEF GiveUp, IInv, TypeOK, AbandonedIsCancelled, IncompleteCalls, Incomplete, cacheVars, callVars, callerVars, vars
<1>6. ASSUME NEW k \in Callers, Leave(k) PROVE AbandonedIsCancelled'
  <2>1. /\ on[k] \in Calls /\ on' = [on EXCEPT ![k] = None] /\ phase' = phase
        /\ ctxErr' = IF Abandons(on[k]) THEN [ctxErr EXCEPT ![on[k]] = Cancelled(on[k])] ELSE ctxErr
    BY <1>6 DEF Leave, IInv, CallersPlaced
  <2>2. waiters'[on[k]] = waiters[on[k]] - 1
    BY <1>6, <2>1 DEF Leave, IInv, TypeOK
  <2>3. (\A j \in Callers : on'[j] # on[k]) => waiters'[on[k]] = 0
    <3>1. WaitersExact'
      BY <1>6, WaitersStep
    <3>2. (\A j \in Callers : on'[j] # on[k]) => {j \in Callers : on'[j] = on[k]} = {}
      OBVIOUS
    <3>3. QED BY <2>1, <3>1, <3>2, FS_EmptySet DEF WaitersExact
  <2>4. waiters[on[k]] \in Nat
    BY <2>1 DEF IInv, TypeOK
  <2>5. Cancelled(on[k]) # "none"
    BY DEF Cancelled
  <2>6. (\A j \in Callers : on'[j] # on[k]) /\ Incomplete(on[k]) => ctxErr'[on[k]] # "none"
    BY <2>1, <2>2, <2>3, <2>4, <2>5 DEF Abandons, IInv, TypeOK
  <2>7. \A d \in Calls : d # on[k] => ctxErr'[d] = ctxErr[d]
    BY <2>1 DEF IInv, TypeOK
  <2>8. QED BY <2>1, <2>6, <2>7 DEF IInv, TypeOK, AbandonedIsCancelled, IncompleteCalls, Incomplete
<1>7. ASSUME NEW k \in Callers, NEW c \in Calls, GetCreate(k, c) PROVE AbandonedIsCancelled'
  BY <1>7, SetsAssumption DEF GetCreate, IInv, TypeOK, AbandonedIsCancelled, IncompleteCalls, Incomplete, CallersPlaced, Wait
<1>8. ASSUME NEW c \in Calls, Move(c) PROVE AbandonedIsCancelled'
  BY <1>8, MoveEffect DEF IInv, TypeOK, AbandonedIsCancelled, IncompleteCalls, Incomplete
<1>9. ASSUME NEW c \in Calls, Publish(c) PROVE AbandonedIsCancelled'
  BY <1>9, PublishAbandoned DEF IInv
<1>10. ASSUME NEW c \in Calls, Timeout(c) PROVE AbandonedIsCancelled'
  BY <1>10 DEF Timeout, IInv, TypeOK, AbandonedIsCancelled, IncompleteCalls, Incomplete, callerVars
<1>11. ASSUME NEW v \in VMs, OrphanExit(v) PROVE AbandonedIsCancelled'
  BY <1>11 DEF OrphanExit, IInv, TypeOK, AbandonedIsCancelled, IncompleteCalls, Incomplete, cacheVars, callVars, callerVars, vars
<1>12. CASE Tick
  BY <1>12 DEF Tick, IInv, TypeOK, AbandonedIsCancelled, IncompleteCalls, Incomplete, cacheVars, callVars, callerVars, vars
<1>13. CASE Shutdown
  BY <1>13 DEF Shutdown, IInv, TypeOK, AbandonedIsCancelled, IncompleteCalls, Incomplete, Cancelled
<1>14. CASE UNCHANGED vars
  BY <1>14 DEF vars, IInv, TypeOK, AbandonedIsCancelled, IncompleteCalls, Incomplete, cacheVars, callVars, callerVars, vars
<1>15. QED BY NextCases, <1>1, <1>2, <1>3, <1>4, <1>5, <1>6, <1>7, <1>8, <1>9, <1>10, <1>11, <1>12, <1>13, <1>14

LEMMA VMType == ASSUME IInv, NEW c \in Calls, phase[c] \in Running PROVE VM(c) \in VMs
BY SetsAssumption DEF VM, IInv, OwnedUntilReaped, IncompleteCalls, Incomplete

(***************************************************************************)
(* Every variable keeps its type; the counters stay within their limits.   *)
(***************************************************************************)
LEMMA TypeStep ==
  ASSUME IInv, [Next]_vars
  PROVE  TypeOK'
<1>1. ASSUME NEW k \in Callers, NEW q \in Queries, Ask(k, q) PROVE TypeOK'
  BY <1>1 DEF Ask, IInv, TypeOK, cacheVars, callVars, callerVars, vars, CtxErrs, Replies
<1>2. ASSUME NEW k \in Callers, GetJoin(k) PROVE TypeOK'
  BY <1>2, SweptEffect DEF GetJoin, IInv, TypeOK, CallersPlaced, Wait, CtxErrs, Replies
<1>3. ASSUME NEW k \in Callers, GetBusy(k) PROVE TypeOK'
  BY <1>3, SweptEffect DEF GetBusy, IInv, TypeOK, CallersPlaced, cacheVars, callVars, callerVars, vars, CtxErrs, Replies
<1>4. ASSUME NEW k \in Callers, Receive(k) PROVE TypeOK'
  BY <1>4 DEF Receive, IInv, TypeOK, CallersPlaced, cacheVars, callVars, callerVars, vars, CtxErrs, Replies
<1>5. ASSUME NEW k \in Callers, GiveUp(k) PROVE TypeOK'
  BY <1>5 DEF GiveUp, IInv, TypeOK, cacheVars, callVars, callerVars, vars, CtxErrs, Replies
<1>6. ASSUME NEW k \in Callers, Leave(k) PROVE TypeOK'
  <2>1. on[k] \in Calls /\ waiters[on[k]] > 0
    BY <1>6, CountsPositive DEF Leave, IInv, CallersPlaced
  <2>2. Cancelled(on[k]) \in CtxErrs
    BY <2>1 DEF Cancelled, IInv, TypeOK, CtxErrs
  <2>3. waiters' \in [Calls -> Nat] /\ ctxErr' \in [Calls -> CtxErrs \cup {"none"}]
    BY <1>6, <2>1, <2>2 DEF Leave, IInv, TypeOK
  <2>4. QED BY <1>6, <2>1, <2>3 DEF Leave, IInv, TypeOK, cacheVars
<1>7. ASSUME NEW k \in Callers, NEW c \in Calls, GetCreate(k, c) PROVE TypeOK'
  <2>1. want[k] \in Queries /\ Swept \in [Queries -> Calls \cup {None}]
    BY <1>7, SweptEffect DEF GetCreate, IInv, CallersPlaced
  <2>2. entry' \in [Queries -> Calls \cup {None}]
    BY <1>7, <2>1 DEF GetCreate, Drop
  <2>3. active' \in 0..MaxActive
    BY <1>7, LimitsAssumption DEF GetCreate, Full, IInv, TypeOK
  <2>4. QED BY <1>7, <2>1, <2>2, <2>3, LimitsAssumption DEF GetCreate, Wait, IInv, TypeOK, CtxErrs, Running
<1>8. ASSUME NEW c \in Calls, Move(c) PROVE TypeOK'
  <2>1. CASE Acquire(c)
    BY <2>1, LimitsAssumption DEF Acquire, IInv, TypeOK, SlotFree, Step, Running, cacheVars, callVars, callerVars, vars, CtxErrs, Replies
  <2>2. CASE Abandon(c)
    BY <2>2 DEF Abandon, IInv, TypeOK, Step, Return, Running, cacheVars, callVars, callerVars, vars, CtxErrs, Replies
  <2>3. CASE Check(c)
    <3>1. slots > 0
      BY <2>3, CountsPositive DEF Check, Step, Holding
    <3>2. QED BY <2>3, <3>1, LimitsAssumption DEF Check, IInv, TypeOK, Step, Return, Running, CtxErrs, Replies, cacheVars, callerVars
  <2>4. CASE TryLock(c)
    <3>1. slots > 0
      BY <2>4, CountsPositive DEF TryLock, Step, Holding
    <3>2. QED BY <2>4, <3>1, LimitsAssumption DEF TryLock, IInv, TypeOK, Step, Return, Running, CtxErrs, Replies, cacheVars, callerVars
  <2>5. CASE Cooling(c)
    BY <2>5 DEF Cooling, IInv, TypeOK, Step, Return, Running, cacheVars, callVars, callerVars, vars, CtxErrs, Replies
  <2>6. CASE LookupOk(c)
    BY <2>6, LimitsAssumption DEF LookupOk, IInv, TypeOK, Step, Return, Running, cacheVars, callVars, callerVars, vars, CtxErrs, Replies
  <2>7. CASE LookupFails(c)
    BY <2>7 DEF LookupFails, IInv, TypeOK, Step, Return, Running, cacheVars, callVars, callerVars, vars, CtxErrs, Replies
  <2>8. CASE LookupKilled(c)
    BY <2>8 DEF LookupKilled, IInv, TypeOK, Step, Return, Running, cacheVars, callVars, callerVars, vars, CtxErrs, Replies
  <2>9. CASE Record(c)
    <3>1. failures' \in [VMs -> 0..Cooldown]
      BY <2>9, VMType, LimitsAssumption DEF Record, Step, Running, IInv, TypeOK
    <3>2. QED BY <2>9, <3>1 DEF Record, IInv, TypeOK, Step, Running, callerVars
  <2>10. CASE Release(c)
    <3>1. slots > 0
      BY <2>10, CountsPositive DEF Release, Step, Holding
    <3>2. lock' \in [VMs -> Calls \cup {Unheld, Orphan}]
      BY <2>10, VMType DEF Release, Step, Running, IInv, TypeOK
    <3>3. QED BY <2>10, <3>1, <3>2, LimitsAssumption DEF Release, IInv, TypeOK, Step, Running, cacheVars, callerVars
  <2>11. QED BY <1>8, <2>1, <2>2, <2>3, <2>4, <2>5, <2>6, <2>7, <2>8, <2>9, <2>10 DEF Move
<1>9. ASSUME NEW c \in Calls, Publish(c) PROVE TypeOK'
  <2>1. active > 0
    BY <1>9, CountsPositive DEF Publish, Completed, Running
  <2>2. entry' \in [Queries -> Calls \cup {None}]
    BY <1>9, PublishEffect
  <2>3. left' \in [Calls -> Nat]
    BY <1>9, LimitsAssumption DEF Publish, Expiring, IInv, TypeOK
  <2>4. /\ active' = active - 1 /\ phase' = [phase EXCEPT ![c] = "done"]
        /\ query' = [query EXCEPT ![c] = None] /\ ctxErr' = [ctxErr EXCEPT ![c] = "none"]
        /\ UNCHANGED <<failures, slots, lock, waiters, reply, size, at, want, on, got, stopping>>
    BY <1>9 DEF Publish, Completed, ActiveAfter, callerVars
  <2>5. QED BY <2>1, <2>2, <2>3, <2>4, LimitsAssumption DEF IInv, TypeOK
<1>10. ASSUME NEW c \in Calls, Timeout(c) PROVE TypeOK'
  BY <1>10 DEF Timeout, IInv, TypeOK, cacheVars, callVars, callerVars, vars, CtxErrs, Replies
<1>11. ASSUME NEW v \in VMs, OrphanExit(v) PROVE TypeOK'
  BY <1>11 DEF OrphanExit, IInv, TypeOK, cacheVars, callVars, callerVars, vars, CtxErrs, Replies
<1>12. CASE Tick
  BY <1>12, LimitsAssumption DEF Tick, IInv, TypeOK, cacheVars, callVars, callerVars, vars, CtxErrs, Replies
<1>13. CASE Shutdown
  BY <1>13 DEF Shutdown, IInv, TypeOK, Cancelled, cacheVars, callVars, callerVars, vars, CtxErrs, Replies
<1>14. CASE UNCHANGED vars
  BY <1>14 DEF vars, IInv, TypeOK, cacheVars, callVars, callerVars, vars, CtxErrs, Replies
<1>15. QED BY NextCases, <1>1, <1>2, <1>3, <1>4, <1>5, <1>6, <1>7, <1>8, <1>9, <1>10, <1>11, <1>12, <1>13, <1>14

(***************************************************************************)
(* The accounting of h.bytes.  get's sweep and its eviction subtract what  *)
(* they remove; the new entry is not completed.                            *)
(***************************************************************************)
LEMMA SweepBytes ==
  ASSUME IInv
  PROVE  SweptBytes = SizeOf(Swept, size, DoneKeys(Swept, phase))
<1>1. ExpiredKeys \in SUBSET DoneKeys(entry, phase)
  BY DEF ExpiredKeys
<1>2. bytes = SizeOf(entry, size, DoneKeys(entry, phase))
  BY DEF IInv, BytesExact
<1>3. SizeOf(Swept, size, DoneKeys(Swept, phase))
        = SizeOf(entry, size, DoneKeys(entry, phase)) - SizeOf(entry, size, ExpiredKeys)
  BY <1>1, DropBytes DEF Swept
<1>4. QED BY <1>2, <1>3 DEF SweptBytes

LEMMA SweepBelow == ASSUME IInv PROVE SweptBytes \in Nat /\ SweptBytes <= MaxBytes
<1>1. SweptBytes \in Nat
  BY SweepBytes, BytesFinite, DoneFinite
<1>2. IsFiniteSet(ExpiredKeys)
  BY FS_Subset, DoneFinite DEF ExpiredKeys
<1>3. SizeOf(entry, size, ExpiredKeys) \in Nat /\ bytes \in Nat
  BY <1>2, BytesFinite, DoneFinite DEF IInv, BytesExact
<1>4. QED BY <1>1, <1>3, LimitsAssumption DEF SweptBytes, IInv, BytesExact

LEMMA CreateBytes ==
  ASSUME IInv, NEW k \in Callers, NEW c \in Calls, GetCreate(k, c)
  PROVE  BytesExact'
<1> DEFINE m(ks) == Drop(Swept, ks)
<1>1. PICK ks \in RoomFor(Swept, phase, left) :
        /\ Unused(c, m(ks))
        /\ entry' = [m(ks) EXCEPT ![want[k]] = c]
        /\ bytes' = SweptBytes - SizeOf(Swept, size, ks)
  BY DEF GetCreate
<1>2. ks \in SUBSET DoneKeys(Swept, phase)
  BY RoomEffect
<1>3. bytes' = SizeOf(m(ks), size, DoneKeys(m(ks), phase))
  BY <1>1, <1>2, SweepBytes, DropBytes
<1>4. /\ phase' = [phase EXCEPT ![c] = "slot"] /\ size' = [size EXCEPT ![c] = 0]
      /\ want[k] \in Queries /\ Swept[want[k]] = None
  BY DEF GetCreate, IInv, CallersPlaced
<1>5. \A q \in Queries : m(ks)[q] \in Calls \cup {None} /\ m(ks)[q] # c
  BY <1>1, SweptEffect DEF Drop, Unused
<1>6. m(ks)[want[k]] = None
  BY <1>4 DEF Drop
<1>7. \A q \in Queries : entry'[q] = IF q = want[k] THEN c ELSE m(ks)[q]
  BY <1>1, <1>4 DEF Drop
<1>8. \A d \in Calls : /\ phase'[d] = IF d = c THEN "slot" ELSE phase[d]
                       /\ size'[d] = IF d = c THEN 0 ELSE size[d]
  BY <1>4 DEF IInv, TypeOK
<1> HIDE DEF m
<1>9. DoneKeys(entry', phase') = DoneKeys(m(ks), phase)
  BY <1>5, <1>6, <1>7, <1>8 DEF DoneKeys, Keys
<1>10. \A q \in DoneKeys(m(ks), phase) : size[m(ks)[q]] = size'[entry'[q]]
  BY <1>5, <1>6, <1>7, <1>8 DEF DoneKeys, Keys
<1>11. SizeOf(entry', size', DoneKeys(entry', phase')) = bytes'
  BY <1>3, <1>9, <1>10, SizeOfSame
<1>12. IsFiniteSet(ks)
  BY <1>2, FS_Subset, DoneFinite
<1>13. bytes' <= MaxBytes
  BY <1>1, <1>12, SweepBelow, BytesFinite, LimitsAssumption
<1>14. QED BY <1>11, <1>13 DEF BytesExact

(***************************************************************************)
(* A published call was incomplete, and its query is the one key it has.   *)
(* So what run accounts for is its reply, or nothing if it is cancelled.   *)
(***************************************************************************)
LEMMA StoredBytes ==
  ASSUME IInv, NEW c \in Calls, phase[c] = "publish"
  PROVE  Total(c) = SizeOf(Kept(c), size, DoneKeys(Kept(c), Completed(c)))
<1> DEFINE D == DoneKeys(entry, phase)
           q == query[c]
<1>1. q \in Queries /\ entry[q] = c
  BY DEF IInv, OwnedUntilReaped, IncompleteCalls, Incomplete, Running
<1>2. \A p \in Queries : entry[p] = c => p = q
  BY SetsAssumption DEF IInv, EntriesPlaced, Incomplete, Running
<1>3. bytes = SizeOf(entry, size, D) /\ IsFiniteSet(D) /\ q \notin D
  BY <1>1, DoneFinite DEF IInv, BytesExact, DoneKeys
<1>4. \A d \in Calls : Completed(c)[d] = IF d = c THEN "done" ELSE phase[d]
  BY DEF Completed, IInv, TypeOK
<1>5. \A p \in Queries : entry[p] \in Calls \cup {None}
  BY DEF IInv, TypeOK
<1>6. CASE reply[c] = "canceled"
  <2>1. \A p \in Queries : Kept(c)[p] = IF p = q THEN None ELSE entry[p]
    BY <1>6 DEF Kept, NotKept, Drop
  <2>2. DoneKeys(Kept(c), Completed(c)) = D
    BY <1>1, <1>2, <1>4, <1>5, <2>1, <1>3 DEF DoneKeys, Keys
  <2>3. \A p \in D : size[Kept(c)[p]] = size[entry[p]]
    BY <1>3, <2>1 DEF DoneKeys, Keys
  <2>4. SizeOf(Kept(c), size, D) = SizeOf(entry, size, D)
    BY <2>3, SizeOfSame
  <2>5. QED BY <1>6, <1>3, <2>2, <2>4 DEF Total
<1>7. CASE reply[c] # "canceled"
  <2>1. \A p \in Queries : Kept(c)[p] = entry[p]
    BY <1>7 DEF Kept, NotKept, Drop
  <2>2. DoneKeys(Kept(c), Completed(c)) = D \cup {q}
    BY <1>1, <1>2, <1>4, <1>5, <2>1, SetsAssumption DEF DoneKeys, Keys
  <2>3. \A p \in D \cup {q} : size[Kept(c)[p]] = size[entry[p]]
    BY <1>1, <2>1 DEF DoneKeys, Keys
  <2>4. SizeOf(Kept(c), size, D \cup {q}) = SizeOf(entry, size, D \cup {q})
    BY <2>3, SizeOfSame
  <2>5. IsFiniteSet({q}) /\ D \cap {q} = {}
    BY <1>3, FS_Singleton
  <2>6. SizeOf(entry, size, D \cup {q}) = SizeOf(entry, size, D) + SizeOf(entry, size, {q})
    BY <1>3, <2>5, SizeOfUnion
  <2>7. SizeOf(entry, size, {q}) = size[c]
    BY <1>1, SizeOfOne DEF IInv, TypeOK
  <2>8. QED BY <1>7, <1>3, <2>2, <2>4, <2>6, <2>7 DEF Total
<1>8. QED BY <1>6, <1>7

LEMMA PublishBytes ==
  ASSUME IInv, NEW c \in Calls, Publish(c)
  PROVE  BytesExact'
<1>1. PICK ks \in SUBSET DoneKeys(Kept(c), Completed(c)) :
        /\ Evicted(Kept(c), Completed(c), Expiring(c), size, Total(c), ks)
        /\ entry' = Drop(Kept(c), ks)
        /\ bytes' = Total(c) - SizeOf(Kept(c), size, ks)
  BY DEF Publish, Evictions
<1>2. phase[c] = "publish" /\ phase' = Completed(c) /\ size' = size
  BY DEF Publish
<1>3. bytes' = SizeOf(entry', size', DoneKeys(entry', phase'))
  BY <1>1, <1>2, StoredBytes, DropBytes
<1>4. bytes' <= MaxBytes
  BY <1>1 DEF Evicted
<1>5. QED BY <1>3, <1>4 DEF BytesExact

\* Only the goroutine's own reply changes before it is published.
LEMMA MoveBytes ==
  ASSUME TypeOK, NEW c \in Calls, Move(c)
  PROVE  bytes' = bytes /\ \A d \in Calls : d # c => size'[d] = size[d]
BY DEF Move, Acquire, Abandon, Check, TryLock, Cooling, LookupOk, LookupFails, LookupKilled,
       Record, Release, Step, TypeOK

LEMMA BytesStep ==
  ASSUME IInv, [Next]_vars
  PROVE  BytesExact'
<1>1. ASSUME UNCHANGED <<entry, phase, size, bytes>> PROVE BytesExact'
  BY <1>1 DEF IInv, BytesExact
<1>2. ASSUME NEW k \in Callers, NEW q \in Queries, Ask(k, q) PROVE BytesExact'
  BY <1>1, <1>2 DEF Ask, cacheVars, callVars
<1>3. ASSUME entry' = Swept, bytes' = SweptBytes, phase' = phase, size' = size PROVE BytesExact'
  BY <1>3, SweepBytes, SweepBelow DEF BytesExact
<1>4. ASSUME NEW k \in Callers, GetJoin(k) PROVE BytesExact'
  BY <1>3, <1>4 DEF GetJoin
<1>5. ASSUME NEW k \in Callers, GetBusy(k) PROVE BytesExact'
  BY <1>3, <1>5 DEF GetBusy, callVars
<1>6. ASSUME NEW k \in Callers, Receive(k) \/ GiveUp(k) \/ Leave(k) PROVE BytesExact'
  BY <1>1, <1>6 DEF Receive, GiveUp, Leave, cacheVars, callVars
<1>7. ASSUME NEW k \in Callers, NEW c \in Calls, GetCreate(k, c) PROVE BytesExact'
  BY <1>7, CreateBytes
<1>8. ASSUME NEW c \in Calls, Move(c) PROVE BytesExact'
  <2>1. PICK to \in Running : phase' = [phase EXCEPT ![c] = to]
    BY <1>8, MoveEffect DEF IInv
  <2>2. phase[c] \in Running /\ entry' = entry /\ bytes' = bytes
    BY <1>8, MoveEffect, MoveBytes DEF IInv
  <2>3. \A d \in Calls : d # c => size'[d] = size[d] /\ phase'[d] = phase[d]
    BY <1>8, <2>1, MoveBytes DEF IInv, TypeOK
  <2>4. \A d \in Calls : phase[d] = "done" <=> phase'[d] = "done"
    BY <2>1, <2>2, <2>3 DEF Running, IInv, TypeOK
  <2>5. DoneKeys(entry', phase') = DoneKeys(entry, phase)
    BY <2>2, <2>4 DEF DoneKeys, Keys, IInv, TypeOK
  <2>6. \A q \in DoneKeys(entry, phase) : size[entry[q]] = size'[entry'[q]]
    BY <2>2, <2>3 DEF DoneKeys, Keys, Running, IInv, TypeOK
  <2>7. SizeOf(entry, size, DoneKeys(entry, phase)) = SizeOf(entry', size', DoneKeys(entry', phase'))
    BY <2>5, <2>6, SizeOfSame
  <2>8. QED BY <2>2, <2>7 DEF IInv, BytesExact
<1>9. ASSUME NEW c \in Calls, Publish(c) PROVE BytesExact'
  BY <1>9, PublishBytes
<1>10. ASSUME NEW c \in Calls, Timeout(c) PROVE BytesExact'
  BY <1>1, <1>10 DEF Timeout, cacheVars
<1>11. ASSUME NEW v \in VMs, OrphanExit(v) PROVE BytesExact'
  BY <1>1, <1>11 DEF OrphanExit, cacheVars, callVars
<1>12. CASE Tick \/ Shutdown \/ UNCHANGED vars
  BY <1>1, <1>12 DEF Tick, Shutdown, vars, cacheVars, callVars
<1>13. QED BY NextCases, <1>2, <1>4, <1>5, <1>6, <1>7, <1>8, <1>9, <1>10, <1>11, <1>12

(***************************************************************************)
(* The inductive invariant, and what follows from it.                      *)
(***************************************************************************)
LEMMA StepInv == IInv /\ [Next]_vars => IInv'
BY TypeStep, PlacedStep, EntriesStep, OwnedStep, SlotsStep, ActiveStep, LocksStep,
   CooldownStep, CancelStep, WaitersStep, AbandonedStep, BytesStep DEF IInv

THEOREM Inductive == Spec => []IInv
BY InitInv, StepInv, PTL DEF Spec

\* Every variable keeps its type, and h.active and len(h.slots) their limits.
THEOREM TypeCorrect == Spec => []TypeOK
<1>1. IInv => TypeOK
  BY DEF IInv
<1>2. QED BY <1>1, Inductive, PTL

\* execute: pvesh never runs twice at a time for one machine.
THEOREM LookupsExclusive == Spec => []OneLookupPerVM
<1>1. IInv => OneLookupPerVM
  BY DEF IInv, LocksHeld, OneLookupPerVM, Locking
<1>2. QED BY <1>1, Inductive, PTL

\* get, run and evictOldest: an incomplete call is the one registered for its
\* query until it is reaped, so a query is never executed twice at a time.
THEOREM ActiveWorkOwned == Spec => []OwnedUntilReaped
<1>1. IInv => OwnedUntilReaped
  BY DEF IInv
<1>2. QED BY <1>1, Inductive, PTL

\* execute: a machine is not queried during the cooldown of a failed query.
THEOREM CooldownRespected == Spec => []CooldownHolds
<1>1. IInv => CooldownHolds
  BY DEF IInv
<1>2. QED BY <1>1, Inductive, PTL

\* run: no later get is answered with the cancellation of an earlier one that
\* has been reaped.
THEOREM CancellationForgotten == Spec => []CancelNotCached
<1>1. IInv => CancelNotCached
  BY DEF IInv
<1>2. QED BY <1>1, Inductive, PTL

\* get's deferred function: work nobody waits for is being cancelled.
THEOREM AbandonedWorkEnds == Spec => []AbandonedIsCancelled
<1>1. IInv => AbandonedIsCancelled
  BY DEF IInv
<1>2. QED BY <1>1, Inductive, PTL

\* get and run: h.active is the number of calls that are not completed, so the
\* limit on it is the limit on what executes.
THEOREM ActiveCounted == Spec => []ActiveExact
<1>1. IInv => ActiveExact
  BY DEF IInv
<1>2. QED BY <1>1, Inductive, PTL

(***************************************************************************)
(* If every entry were incomplete, mapping each key to its call would put  *)
(* the keys in one-to-one correspondence with some of the active calls,    *)
(* and there are fewer of those than the map holds when it is full.        *)
(***************************************************************************)
LEMMA FullMapHasVictim ==
  ASSUME IInv, NEW k \in Callers, ~Full, Cardinality(Keys(Swept)) >= MaxEntries
  PROVE  DoneKeys(Swept, phase) # {}
<1> SUFFICES ASSUME DoneKeys(Swept, phase) = {} PROVE FALSE
  OBVIOUS
<1> DEFINE f == [q \in Keys(Swept) |-> Swept[q]]
<1>1. ASSUME NEW q \in Keys(Swept)
      PROVE  Swept[q] \in IncompleteCalls /\ query[Swept[q]] = q
  <2>1. q \in Queries /\ Swept[q] # None /\ Swept[q] = entry[q] /\ entry[q] \in Calls
    BY SweptEffect DEF Keys, IInv, TypeOK
  <2>2. phase[entry[q]] # "free" /\ phase[entry[q]] # "done"
    BY <2>1 DEF DoneKeys, IInv, EntriesPlaced
  <2>3. Incomplete(entry[q])
    BY <2>1, <2>2 DEF IInv, TypeOK, Incomplete
  <2>4. QED BY <2>1, <2>3 DEF IncompleteCalls, IInv, EntriesPlaced
<1>2. f \in Injection(Keys(Swept), IncompleteCalls)
  BY <1>1 DEF Injection, IsInjective
<1>3. IsFiniteSet(IncompleteCalls)
  BY FS_Subset, SetsAssumption DEF IncompleteCalls
<1>4. Cardinality(Keys(Swept)) <= Cardinality(IncompleteCalls)
  BY <1>2, <1>3, FS_Injection
<1>5. IsFiniteSet(Keys(Swept))
  BY FS_Subset, SetsAssumption DEF Keys
<1>6. Cardinality(Keys(Swept)) \in Nat /\ Cardinality(IncompleteCalls) \in Nat
  BY <1>3, <1>5, FS_CardinalityType
<1>7. Cardinality(IncompleteCalls) < MaxActive
  BY <1>6, LimitsAssumption DEF IInv, TypeOK, ActiveExact, Full
<1>8. QED BY <1>4, <1>6, <1>7, LimitsAssumption

(***************************************************************************)
(* The loop of run: among the sets of entries that expire no later than    *)
(* the others and bring the total down to the limit, of which there is the *)
(* set of all of them, a smallest one is what the loop removes.            *)
(***************************************************************************)
LEMMA SmallestSet ==
  ASSUME NEW D, IsFiniteSet(D), NEW T, T \subseteq SUBSET D, T # {}
  PROVE  \E S \in T : \A R \in T : ~(R \subseteq S /\ R # S)
<1>1. T \subseteq FiniteSubsetsOf(D)
  BY FS_Subset DEF FiniteSubsetsOf
<1>2. IsWellFoundedOn(StrictSubsetOrdering(D), FiniteSubsetsOf(D))
  BY FS_StrictSubsetOrderingWellFounded
<1>3. PICK S \in T : \A R \in T : ~(<<R, S>> \in StrictSubsetOrdering(D))
  BY <1>1, <1>2, WFMin
<1>4. QED BY <1>3 DEF StrictSubsetOrdering

LEMMA ExpiresLast ==
  ASSUME NEW ks, IsFiniteSet(ks), ks # {}, NEW t, \A q \in ks : t[q] \in Nat
  PROVE  \E last \in ks : \A p \in ks : t[p] <= t[last]
<1> DEFINE later(q) == {p \in ks : t[p] > t[q]}
           T == {later(q) : q \in ks}
<1>1. PICK last \in ks : \A p \in ks : ~(later(p) \subseteq later(last) /\ later(p) # later(last))
  <2>1. T \subseteq SUBSET ks /\ T # {}
    OBVIOUS
  <2>2. PICK S \in T : \A R \in T : ~(R \subseteq S /\ R # S)
    <3> HIDE DEF T
    <3>1. QED BY <2>1, SmallestSet
  <2>3. PICK last \in ks : S = later(last)
    OBVIOUS
  <2>4. \A p \in ks : later(p) \in T
    OBVIOUS
  <2> HIDE DEF later, T
  <2>5. \A p \in ks : ~(later(p) \subseteq S /\ later(p) # S)
    BY ONLY <2>2, <2>4
  <2>6. QED BY <2>3, <2>5
<1>2. ASSUME NEW p \in ks PROVE t[p] <= t[last]
  <2>1. SUFFICES ASSUME t[p] > t[last] PROVE FALSE
    OBVIOUS
  <2>2. later(p) \subseteq later(last) /\ p \in later(last) /\ p \notin later(p)
    BY <2>1
  <2>3. QED BY <1>1, <2>2
<1>3. QED BY <1>2

LEMMA LoopEnds ==
  ASSUME NEW m, NEW ph, NEW lf, NEW sz, NEW total,
         \A q \in DoneKeys(m, ph) : lf[m[q]] \in Nat,
         total = SizeOf(m, sz, DoneKeys(m, ph))
  PROVE  \E ks \in SUBSET DoneKeys(m, ph) : Evicted(m, ph, lf, sz, total, ks)
<1> DEFINE D == DoneKeys(m, ph)
           First(ks) == \A p \in ks, q \in D \ ks : lf[m[p]] <= lf[m[q]]
           Enough(ks) == total - SizeOf(m, sz, ks) <= MaxBytes
           T == {ks \in SUBSET D : First(ks) /\ Enough(ks)}
<1>1. IsFiniteSet(D)
  BY DoneFinite
<1>2. total \in Nat /\ \A ks \in SUBSET D : SizeOf(m, sz, ks) \in Nat
  BY <1>1, FS_Subset, BytesFinite
<1>3. D \in T
  BY <1>2, LimitsAssumption
<1>4. PICK ks \in T : \A js \in T : ~(js \subseteq ks /\ js # ks)
  <2>1. T \subseteq SUBSET D /\ T # {}
    BY <1>3
  <2> HIDE DEF T
  <2>2. QED BY <1>1, <2>1, SmallestSet
<1>5. CASE ks = {}
  BY <1>4, <1>5 DEF Evicted
<1>6. CASE ks # {}
  <2>1. PICK last \in ks : \A p \in ks : lf[m[p]] <= lf[m[last]]
    <3>1. IsFiniteSet(ks) /\ \A q \in ks : lf[m[q]] \in Nat
      BY <1>1, <1>4, FS_Subset
    <3> DEFINE t == [q \in ks |-> lf[m[q]]]
    <3>2. \A q \in ks : t[q] \in Nat
      BY <3>1
    <3>3. \E last \in ks : \A p \in ks : t[p] <= t[last]
      <4> HIDE DEF t
      <4>1. QED BY <1>6, <3>1, <3>2, ExpiresLast
    <3>4. QED BY <3>3
  <2>2. First(ks \ {last})
    BY <1>4, <2>1
  <2>3. ~Enough(ks \ {last})
    BY <1>4, <2>1, <2>2
  <2>4. total - SizeOf(m, sz, ks \ {last}) > MaxBytes
    <3>1. SizeOf(m, sz, ks \ {last}) \in Nat
      BY <1>2, <1>4
    <3>2. QED BY <1>2, <2>3, <3>1, LimitsAssumption
  <2>5. QED BY <1>4, <2>1, <2>4 DEF Evicted
<1>7. QED BY <1>5, <1>6

LEMMA PublishHasVictims ==
  ASSUME IInv, NEW c \in Calls, phase[c] = "publish"
  PROVE  Evictions(c) # {}
<1>1. Total(c) = SizeOf(Kept(c), size, DoneKeys(Kept(c), Completed(c)))
  BY StoredBytes
<1>2. \A d \in Calls : Expiring(c)[d] \in Nat
  BY LimitsAssumption DEF Expiring, IInv, TypeOK
<1>3. \A q \in DoneKeys(Kept(c), Completed(c)) : Kept(c)[q] \in Calls
  BY DEF DoneKeys, Keys, Kept, Drop, IInv, TypeOK
<1>4. QED BY <1>1, <1>2, <1>3, LoopEnds DEF Evictions

LEMMA AlwaysVictims == IInv => EvictHasVictim
BY FullMapHasVictim, PublishHasVictims DEF EvictHasVictim

\* evictOldest: it finds a completed entry whenever get or run call it, so its
\* dereference of oldest is safe as long as the admission limit is below the
\* limit on entries, whatever the replies weigh.
THEOREM EvictionSafe == Spec => []EvictHasVictim
BY AlwaysVictims, Inductive, PTL

\* get, run and evictOldest: h.bytes is what the cached replies hold, after any
\* interleaving of sweeps, evictions, publications and cancellations, and it
\* stays within its limit.
THEOREM BytesAccounted == Spec => []BytesExact
<1>1. IInv => BytesExact
  BY DEF IInv
<1>2. QED BY <1>1, Inductive, PTL

=============================================================================
