--------------------------- MODULE CollectorProofs ---------------------------
(***************************************************************************)
(* Proofs about Collector, for any VMs, workers and configurations.        *)
(***************************************************************************)
EXTENDS Collector, FiniteSetTheorems, TLAPS

Files == [VMs -> Configs \cup {Absent}]
Numbers == [VMs -> Nat]
Samples == [nth : Nat, config : Configs]

\* TypeOK in parts, for provers that treat Boolean values apart.
Flags == due \in [VMs -> BOOLEAN] /\ woken \in [Workers -> BOOLEAN]

Tables ==
  /\ files \in Files /\ changes \in 0..MaxChanges
  /\ reading \in Files \cup {Nothing}
  /\ nth \in Numbers /\ readNth \in Numbers /\ gone \in Numbers
  /\ entry \in Files /\ gen \in Numbers
  /\ obs \in [VMs -> Samples \cup {Nothing}]

Places ==
  /\ active \subseteq VMs
  /\ at \in [Workers -> {"scan", "sample", "asleep"}]
  /\ job \in [Workers -> Jobs \cup {Nothing}]
  /\ timer \in [Workers -> SUBSET VMs]

CursorOK == cursor \in 0..Cardinality(VMs)-1 \cup {0}

LEMMA TypeParts ==
  /\ TypeOK <=> Flags /\ Tables /\ Places /\ CursorOK
  /\ TypeOK' <=> Flags' /\ Tables' /\ Places' /\ CursorOK'
BY DEF TypeOK, Flags, Tables, Places, CursorOK, Files, Numbers, Samples

\* The index of a VM in c.order, and the one after it, taken modulo its length.
LEMMA CursorRange ==
  ASSUME NEW v \in Present PROVE NextCursor(v) \in 0..Cardinality(VMs)-1
<1>1. IsFiniteSet(VMs) /\ Present \subseteq VMs
  BY CollectorAssumption DEF Present
<1>2. IsFiniteSet(Present) /\ Cardinality(Present) <= Cardinality(VMs)
  BY <1>1, FS_Subset
<1>3. Cardinality(Present) \in Nat /\ Cardinality(Present) # 0
  BY <1>2, FS_CardinalityType, FS_EmptySet
<1>4. {u \in Present : u < v} \subseteq Present
  OBVIOUS
<1>5. IsFiniteSet({u \in Present : u < v})
  BY <1>2, <1>4, FS_Subset
<1>6. Rank(v) \in Nat
  BY <1>5, FS_CardinalityType DEF Rank
<1>7. Cardinality(VMs) \in Nat
  BY <1>1, FS_CardinalityType
<1> QED BY <1>2, <1>3, <1>6, <1>7 DEF NextCursor

LEMMA InitInv == Init => IInv
<1> SUFFICES ASSUME Init PROVE IInv
  OBVIOUS
<1> USE CollectorAssumption DEF Init
<1>1. Flags
  BY DEF Flags
<1>2. Tables
  BY DEF Tables, Files, Numbers
<1>3. Places /\ CursorOK
  BY DEF Places, CursorOK
<1>4. JobsHeld /\ SamplesExclusive
  BY DEF JobsHeld, SamplesExclusive, Sampling
<1>5. LaterThanGone /\ GoneIsForgotten /\ SleepersMind
  BY DEF LaterThanGone, GoneIsForgotten, SleepersMind, Sampling, Present
<1> QED BY <1>1, <1>2, <1>3, <1>4, <1>5, TypeParts DEF IInv

\* A step of the host or of the inventory's reader leaves entries, jobs and timers alone.
LEMMA QuietStep ==
  ASSUME IInv, UNCHANGED <<inventory, workers>>, Tables', LaterThanGone'
  PROVE  IInv'
<1>1. Flags' /\ Places' /\ CursorOK'
  BY TypeParts DEF IInv, Flags, Places, CursorOK, inventory, workers
<1>2. JobsHeld' /\ SamplesExclusive' /\ GoneIsForgotten' /\ SleepersMind'
  BY DEF IInv, JobsHeld, SamplesExclusive, GoneIsForgotten, SleepersMind, Sampling, Present,
         inventory, workers
<1> QED BY <1>1, <1>2, TypeParts DEF IInv

LEMMA HostStep ==
  ASSUME IInv, NEW v \in VMs, Change(v) PROVE IInv'
<1>1. Tables
  BY TypeParts DEF IInv
<1>2. files' \in Files /\ nth' \in Numbers
  BY <1>1 DEF Change, Tables, Files, Numbers
<1>3. changes' \in 0..MaxChanges
  BY <1>1, CollectorAssumption DEF Change, Tables
<1>4. Tables'
  BY <1>1, <1>2, <1>3 DEF Change, Tables, read, inventory
<1>5. /\ \A u \in VMs : nth'[u] >= nth[u] /\ nth[u] \in Nat /\ nth'[u] \in Nat
      /\ \A u \in VMs : files'[u] # Absent => files[u] # Absent \/ nth'[u] = nth[u] + 1
  BY <1>1 DEF Change, Tables, Files, Numbers
<1>6. \A u \in VMs : readNth[u] \in Nat /\ gone[u] \in Nat
  BY <1>1 DEF Tables, Numbers
<1>7. UNCHANGED <<reading, readNth, entry, gen, gone, at, job>>
  BY DEF Change, read, inventory, workers
<1>8. LaterThanGone'
  <2>1. ASSUME NEW u \in VMs
        PROVE  /\ readNth[u] <= nth'[u] /\ gone[u] <= readNth[u]
               /\ files'[u] # Absent \/ entry[u] # Absent => nth'[u] > gone[u]
               /\ reading # Nothing =>
                    IF reading[u] = Absent THEN files'[u] # Absent => nth'[u] > readNth[u]
                    ELSE readNth[u] > gone[u]
    BY <1>5, <1>6 DEF IInv, LaterThanGone
  <2>2. ASSUME NEW w \in Sampling
        PROVE  job[w].nth <= nth'[job[w].vm] /\ (SameEntry(w) => job[w].nth > gone[job[w].vm])
    <3>1. job[w].vm \in VMs /\ job[w].nth \in Nat
      BY DEF IInv, JobsHeld, Jobs
    <3> QED BY <1>5, <3>1 DEF IInv, LaterThanGone
  <2> QED BY <1>7, <2>1, <2>2 DEF LaterThanGone, Sampling, SameEntry
<1> QED BY <1>4, <1>8, QuietStep DEF Change

LEMMA ReadStep == ASSUME IInv, Read PROVE IInv'
<1>1. Tables
  BY TypeParts DEF IInv
<1>2. Tables'
  BY <1>1 DEF Read, Tables, host, inventory
<1>3. LaterThanGone'
  <2>1. ASSUME NEW u \in VMs
        PROVE  /\ nth[u] <= nth[u] /\ gone[u] <= nth[u]
               /\ files[u] # Absent => nth[u] > gone[u]
    BY <1>1 DEF Tables, Numbers, IInv, LaterThanGone
  <2> QED BY <2>1 DEF IInv, LaterThanGone, Read, host, inventory, workers, Sampling, SameEntry
<1> QED BY <1>2, <1>3, QuietStep DEF Read

\* Entries are replaced under the workers.
LEMMA InstallStep == ASSUME IInv, Install PROVE IInv'
<1>1. Flags /\ Tables /\ Places /\ CursorOK
  BY TypeParts DEF IInv
<1>2. Flags'
  BY <1>1 DEF Install, Flags, Notified
<1>3. Tables'
  BY <1>1 DEF Install, Tables, Files, Numbers, host
<1>4. Places' /\ CursorOK'
  BY <1>1 DEF Install, Places, CursorOK, StillActive
<1>5. \A v \in VMs : gen'[v] >= gen[v] /\ gen[v] \in Nat /\ gen'[v] \in Nat
  BY <1>1 DEF Install, Tables, Numbers
<1>6. JobsHeld'
  <2> SUFFICES ASSUME NEW w \in Sampling PROVE job[w] \in Jobs /\ job[w].gen <= gen'[job[w].vm]
    BY DEF Install, JobsHeld, Sampling
  <2>1. job[w] \in Jobs /\ job[w].gen <= gen[job[w].vm]
    BY DEF IInv, JobsHeld
  <2> QED BY <1>5, <2>1 DEF Jobs
<1>7. SamplesExclusive'
  BY DEF IInv, Install, StillActive, SamplesExclusive, Sampling
<1>8. LaterThanGone'
  <2>1. \A u \in VMs : nth[u] \in Nat /\ readNth[u] \in Nat /\ gone[u] \in Nat
    BY <1>1 DEF Tables, Numbers
  <2>2. ASSUME NEW u \in VMs
        PROVE  /\ readNth[u] <= nth[u] /\ gone'[u] <= readNth[u]
               /\ files[u] # Absent \/ entry'[u] # Absent => nth[u] > gone'[u]
    BY <2>1 DEF IInv, LaterThanGone, Install
  <2>3. ASSUME NEW w \in Sampling, SameEntry(w)'
        PROVE  job[w].nth > gone'[job[w].vm]
    <3> DEFINE u == job[w].vm
    <3>1. u \in VMs /\ job[w].gen <= gen[u] /\ job[w].gen \in Nat
      BY DEF IInv, JobsHeld, Jobs
    <3>2. reading[u] # Absent /\ gen'[u] = job[w].gen
      BY <2>3 DEF SameEntry, Install
    <3>3. gone'[u] = gone[u]
      BY <3>1, <3>2 DEF Install
    <3>4. entry[u] # Absent /\ gen[u] = job[w].gen
      BY <1>1, <3>1, <3>2 DEF Install, Tables, Numbers
    <3>5. SameEntry(w)
      BY <3>4 DEF SameEntry
    <3> QED BY <3>3, <3>5 DEF IInv, LaterThanGone
  <2>4. UNCHANGED <<nth, readNth, files, at, job>> /\ reading' = Nothing
    BY DEF Install, host
  <2> QED BY <2>2, <2>3, <2>4 DEF IInv, LaterThanGone, Sampling
<1>9. GoneIsForgotten'
  BY DEF IInv, Install, GoneIsForgotten, Present
<1>10. SleepersMind'
  BY DEF Install, Notified, SleepersMind
<1> QED BY <1>2, <1>3, <1>4, <1>6, <1>7, <1>8, <1>9, <1>10, TypeParts DEF IInv

\* A worker takes a VM that nobody samples.
LEMMA TakeStep == ASSUME IInv, NEW w \in Workers, Take(w) PROVE IInv'
<1>1. Flags /\ Tables /\ Places /\ CursorOK
  BY TypeParts DEF IInv
<1>2. PICK v \in Ready :
        /\ active' = active \cup {v} /\ cursor' = NextCursor(v)
        /\ job' = [job EXCEPT ![w] =
             [vm |-> v, gen |-> gen[v], nth |-> nth[v], config |-> entry[v]]]
  BY DEF Take
<1>3. v \in Present /\ v \in VMs /\ v \notin active
  BY DEF Ready, Free, Present
<1>4. at' = [at EXCEPT ![w] = "sample"] /\ at[w] = "scan"
  BY DEF Take
<1>5. [vm |-> v, gen |-> gen[v], nth |-> nth[v], config |-> entry[v]] \in Jobs
  BY <1>1, <1>3 DEF Tables, Jobs, Files, Numbers, Present
<1>6. Flags' /\ Tables'
  BY <1>1 DEF Take, Flags, Tables, host, read
<1>7. Places'
  BY <1>1, <1>2, <1>3, <1>4, <1>5 DEF Take, Places
<1>8. CursorOK'
  BY <1>2, <1>3, CursorRange DEF CursorOK
<1>9. Sampling' = Sampling \cup {w} /\ w \notin Sampling
  BY <1>1, <1>4 DEF Sampling, Places
<1>10. job'[w].vm = v /\ \A x \in Sampling : job'[x] = job[x]
  BY <1>1, <1>2, <1>9 DEF Places, Sampling
<1>11. JobsHeld'
  <2>1. gen[v] <= gen[v]
    BY <1>1, <1>3 DEF Tables, Numbers
  <2> QED BY <1>1, <1>2, <1>5, <1>9, <1>10, <2>1 DEF IInv, JobsHeld, Jobs, Places, Take
<1>12. SamplesExclusive'
  BY <1>2, <1>3, <1>9, <1>10 DEF IInv, SamplesExclusive
<1>13. LaterThanGone' /\ GoneIsForgotten'
  <2>1. UNCHANGED <<files, nth, reading, readNth, gone, entry, gen, obs>>
    BY DEF Take, host, read
  <2>2. job'[w].nth = nth[v] /\ nth[v] <= nth[v] /\ nth[v] > gone[v]
    BY <1>1, <1>2, <1>3 DEF Tables, Numbers, Places, IInv, LaterThanGone, Present
  <2>3. \A x \in Sampling' :
          /\ job'[x].nth <= nth[job'[x].vm]
          /\ SameEntry(x)' => job'[x].nth > gone[job'[x].vm]
    BY <1>9, <1>10, <2>1, <2>2 DEF IInv, LaterThanGone, SameEntry
  <2> QED BY <2>1, <2>3 DEF IInv, LaterThanGone, GoneIsForgotten, Present
<1>14. SleepersMind'
  <2> SUFFICES ASSUME NEW x \in Workers, at'[x] = "asleep", ~woken'[x],
                      NEW u \in Present' \ active'
               PROVE  ~due'[u] /\ u \in timer'[x]
    BY DEF SleepersMind
  <2>1. at[x] = "asleep" /\ ~woken[x] /\ u \in Present \ active
    BY <1>1, <1>2, <1>4 DEF Places, Take, Present
  <2> QED BY <2>1 DEF IInv, SleepersMind, Take
<1> QED BY <1>6, <1>7, <1>8, <1>11, <1>12, <1>13, <1>14, TypeParts DEF IInv

\* A worker goes to sleep or wakes.
LEMMA RestStep ==
  ASSUME IInv, NEW w \in Workers, Sleep(w) \/ Wake(w) PROVE IInv'
<1>1. Flags /\ Tables /\ Places /\ CursorOK
  BY TypeParts DEF IInv
<1>2. PICK there \in {"asleep", "scan"} :
        at' = [at EXCEPT ![w] = there] /\ at[w] # "sample"
  BY DEF Sleep, Wake
<1>3. UNCHANGED <<files, changes, nth, reading, readNth, gone, entry, gen, obs, due,
                  active, cursor, job>>
  BY DEF Sleep, Wake, host, read, inventory
<1>4. Tables' /\ CursorOK'
  BY <1>1, <1>3 DEF Tables, CursorOK
<1>5. Flags'
  BY <1>1, <1>3 DEF Flags, Sleep, Wake
<1>6. timer' \in [Workers -> SUBSET VMs]
  BY <1>1 DEF Places, Sleep, Wake, Present
<1>7. Places'
  BY <1>1, <1>2, <1>3, <1>6 DEF Places
<1>8. Sampling' = Sampling
  BY <1>1, <1>2 DEF Sampling, Places
<1>9. JobsHeld' /\ SamplesExclusive'
  BY <1>3, <1>8 DEF IInv, JobsHeld, SamplesExclusive
<1>10. LaterThanGone' /\ GoneIsForgotten'
  BY <1>3, <1>8 DEF IInv, LaterThanGone, GoneIsForgotten, Present, SameEntry
<1>11. SleepersMind'
  <2> SUFFICES ASSUME NEW x \in Workers, at'[x] = "asleep", ~woken'[x],
                      NEW u \in Present \ active
               PROVE  ~due[u] /\ u \in timer'[x]
    BY <1>3 DEF SleepersMind, Present
  <2>1. CASE x # w
    <3>1. at[x] = "asleep" /\ ~woken[x] /\ timer'[x] = timer[x]
      <4>1. at[x] = "asleep"
        BY <1>1, <1>2, <2>1 DEF Places
      <4>2. timer'[x] = timer[x]
        BY <1>1, <2>1 DEF Places, Sleep, Wake
      <4>3. woken' = [woken EXCEPT ![w] = FALSE] \/ woken' = woken
        BY DEF Sleep, Wake
      <4>4. woken'[x] = woken[x]
        BY <1>1, <2>1, <4>3 DEF Flags
      <4> QED BY <4>1, <4>2, <4>4
    <3> QED BY <3>1 DEF IInv, SleepersMind
  <2>2. CASE x = w
    <3>1. Sleep(w)
      BY <1>1, <2>2 DEF Places, Wake
    <3>2. timer'[x] = {v \in Present : Free(v)}
      BY <1>1, <2>2, <3>1 DEF Places, Sleep
    <3> QED BY <3>1, <3>2 DEF Sleep, Ready, Free
  <2> QED BY <2>1, <2>2
<1> QED BY <1>4, <1>5, <1>7, <1>9, <1>10, <1>11, TypeParts DEF IInv

\* A VM is due: a worker that sleeps in spite of it is woken.
LEMMA DueStep == ASSUME IInv, NEW v \in VMs, Due(v) PROVE IInv'
<1>1. Flags /\ Tables /\ Places /\ CursorOK
  BY TypeParts DEF IInv
<1>2. Tables' /\ Places' /\ CursorOK'
  BY <1>1 DEF Due, Tables, Places, CursorOK, host, read
<1>3. Flags'
  BY <1>1 DEF Due, Flags
<1>4. JobsHeld' /\ SamplesExclusive' /\ LaterThanGone' /\ GoneIsForgotten'
  BY DEF IInv, Due, JobsHeld, SamplesExclusive, LaterThanGone, GoneIsForgotten, Sampling,
         SameEntry, Present, host, read
<1>5. SleepersMind'
  <2> SUFFICES ASSUME NEW x \in Workers, at[x] = "asleep", ~woken'[x],
                      NEW u \in Present \ active
               PROVE  ~due'[u] /\ u \in timer[x]
    BY DEF Due, SleepersMind, Present
  <2>1. ~woken[x] /\ v \notin timer[x]
    BY DEF Due
  <2>2. ~due[u] /\ u \in timer[x]
    BY <2>1 DEF IInv, SleepersMind
  <2>3. u # v
    BY <2>1, <2>2
  <2> QED BY <1>1, <2>2, <2>3 DEF Due, Flags
<1> QED BY <1>2, <1>3, <1>4, <1>5, TypeParts DEF IInv

\* A sample ends.
LEMMA DoneStep == ASSUME IInv, NEW w \in Workers, Done(w) PROVE IInv'
<1>1. Flags /\ Tables /\ Places /\ CursorOK
  BY TypeParts DEF IInv
<1> DEFINE v == job[w].vm
<1>2. w \in Sampling /\ v \in VMs /\ job[w].nth \in Nat /\ job[w].config \in Configs
  BY DEF IInv, Done, JobsHeld, Sampling, Jobs
<1>3. /\ at' = [at EXCEPT ![w] = "scan"] /\ job' = [job EXCEPT ![w] = Nothing]
      /\ active' = active \ {v} /\ woken' = Notified
      /\ UNCHANGED <<files, changes, nth, reading, readNth, entry, gen, gone, cursor, timer>>
  BY DEF Done, host, read
<1>4. \/ UNCHANGED <<obs, due>>
      \/ /\ SameEntry(w)
         /\ \E n \in job[w].nth .. nth[v] :
              obs' = [obs EXCEPT ![v] = [nth |-> n, config |-> job[w].config]]
         /\ \E late \in BOOLEAN : due' = [due EXCEPT ![v] = late]
  BY DEF Done
<1> HIDE DEF v
<1>5. Flags'
  <2>1. due' \in [VMs -> BOOLEAN]
    BY <1>1, <1>4 DEF Flags
  <2>2. woken' \in [Workers -> BOOLEAN]
    BY <1>1, <1>3 DEF Flags, Notified
  <2> QED BY <2>1, <2>2 DEF Flags
<1>6. obs' \in [VMs -> Samples \cup {Nothing}]
  <2>1. nth[v] \in Nat
    BY <1>1, <1>2 DEF Tables, Numbers
  <2>2. \A n \in job[w].nth .. nth[v] : [nth |-> n, config |-> job[w].config] \in Samples
    BY <1>2, <2>1 DEF Samples
  <2> QED BY <1>1, <1>4, <2>2 DEF Tables
<1>7. Tables' /\ Places' /\ CursorOK'
  BY <1>1, <1>3, <1>6 DEF Tables, Places, CursorOK
<1>8. Sampling' = Sampling \ {w} /\ \A x \in Sampling' : job'[x] = job[x]
  BY <1>1, <1>3 DEF Sampling, Places
<1>9. JobsHeld'
  BY <1>3, <1>8 DEF IInv, JobsHeld
<1>10. SamplesExclusive'
  <2>1. \A x \in Sampling \ {w} : job[x].vm # v
    BY <1>2 DEF IInv, SamplesExclusive, v
  <2>2. active = {job[x].vm : x \in Sampling}
    BY DEF IInv, SamplesExclusive
  <2>3. active' = {job[x].vm : x \in Sampling \ {w}}
    BY <1>2, <1>3, <2>1, <2>2 DEF v
  <2> QED BY <1>8, <2>3 DEF IInv, SamplesExclusive
<1>11. LaterThanGone' /\ GoneIsForgotten'
  <2>1. LaterThanGone'
    BY <1>3, <1>8 DEF IInv, LaterThanGone, SameEntry
  <2>2. ASSUME NEW u \in Present, obs'[u] # Nothing PROVE obs'[u].nth > gone[u]
    <3>1. CASE obs'[u] = obs[u]
      BY <2>2, <3>1 DEF IInv, GoneIsForgotten
    <3>2. CASE obs'[u] # obs[u]
      <4>1. u = v /\ SameEntry(w) /\ \E n \in job[w].nth .. nth[v] : obs'[u].nth = n
        BY <1>1, <1>4, <3>2 DEF Tables, Present
      <4>2. job[w].nth > gone[v]
        BY <1>2, <4>1 DEF IInv, LaterThanGone, v
      <4>3. gone[v] \in Nat /\ nth[v] \in Nat
        BY <1>1, <1>2 DEF Tables, Numbers
      <4> QED BY <1>2, <4>1, <4>2, <4>3
    <3> QED BY <3>1, <3>2
  <2> QED BY <1>3, <2>1, <2>2 DEF GoneIsForgotten, Present
<1>12. SleepersMind'
  BY <1>1, <1>3 DEF SleepersMind, Notified, Places
<1> QED BY <1>5, <1>7, <1>9, <1>10, <1>11, <1>12, TypeParts DEF IInv

\* The collector's books agree with what its workers do.
THEOREM Inductive == Spec => []IInv
<1>1. ASSUME IInv, [Next]_vars PROVE IInv'
  <2>1. CASE UNCHANGED vars
    <3>1. Tables'
      BY <1>1, <2>1, TypeParts DEF vars, host, read, inventory, IInv, Tables
    <3>2. LaterThanGone'
      BY <1>1, <2>1 DEF vars, host, read, inventory, workers, IInv, LaterThanGone, Sampling,
         SameEntry
    <3> QED BY <1>1, <2>1, <3>1, <3>2, QuietStep DEF vars
  <2> QED BY <1>1, <2>1, HostStep, ReadStep, InstallStep, TakeStep, RestStep, DueStep, DoneStep
          DEF Next, Worker
<1> QED BY <1>1, InitInv, PTL DEF Spec

\* Type correctness, with the cursor within the list it walks at its longest.
THEOREM TypeCorrect == Spec => []TypeOK
<1>1. IInv => TypeOK
  BY DEF IInv
<1> QED BY <1>1, Inductive, PTL

\* The monitor of a VM is opened by one worker at a time.
THEOREM Exclusive == Spec => []SamplesExclusive
<1>1. IInv => SamplesExclusive
  BY DEF IInv
<1> QED BY <1>1, Inductive, PTL

\* What was sampled of a VM that an inventory did not find is in no entry, although
\* its id is in use again.
THEOREM GoneForgotten == Spec => []GoneIsForgotten
<1>1. IInv => GoneIsForgotten
  BY DEF IInv
<1> QED BY <1>1, Inductive, PTL

\* No wake-up is lost.
THEOREM NoLostWakeup == Spec => []WorkConserving
<1>1. IInv => WorkConserving
  BY DEF IInv, SleepersMind, WorkConserving, Ready, Free
<1> QED BY <1>1, Inductive, PTL
=============================================================================
