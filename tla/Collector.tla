------------------------------ MODULE Collector ------------------------------
(***************************************************************************)
(* The collector of VM metrics in the PVE helper (internal/pve/cache.go):  *)
(* one goroutine reads the inventory, several workers sample the VMs in it *)
(* by turns and sleep while there is nothing to do.                        *)
(*                                                                         *)
(* c.order is sorted by VM id, so the index of a VM is its Rank.  gen[v]   *)
(* tells the observation objects that c.entries[v] held apart, nth[v] the  *)
(* VMs that have had the id v: the code sees objects, never these.         *)
(***************************************************************************)
EXTENDS Integers, FiniteSets

CONSTANTS VMs, Workers,
          Configs,     \* contents of a VM's configuration file
          Absent,      \* no configuration file
          Nothing,     \* no result
          MaxChanges   \* bound on the changes of configuration files

ASSUME CollectorAssumption ==
  /\ VMs \subseteq Nat /\ IsFiniteSet(VMs)
  /\ Absent \notin Configs /\ MaxChanges \in Nat
  /\ Nothing \notin [VMs -> Configs \cup {Absent}]

VARIABLES
  files, changes,  \* the configuration files, and how often they changed
  nth,             \* how many VMs have had each id: the number of the latest
  reading,         \* what inventory() read, until it is installed
  readNth,         \* the latest VM of each id then
  gone,            \* the VMs up to this one were missing from an inventory
  entry, gen,      \* c.entries: the configuration of each, the object it is in
  obs,             \* entry.vm: the VM and the configuration it was sampled for
  due,             \* entry.next has come
  active, cursor,
  at,              \* where each worker is
  job,             \* the entry a worker took, its configuration and the latest VM then
  timer,           \* the VMs whose entry.next the timer of a sleeping worker minds
  woken            \* that timer fired, or c.changed was closed

host == <<files, changes, nth>>
read == <<reading, readNth>>
inventory == <<entry, gen, obs, due, cursor, active, gone>>
workers == <<at, job, timer, woken>>
vars == <<host, read, inventory, workers>>

Present == {v \in VMs : entry[v] # Absent}
Free(v) == v \in Present \ active
Rank(v) == Cardinality({u \in Present : u < v})

Init ==
  /\ files \in [VMs -> Configs \cup {Absent}] /\ changes = 0
  /\ nth = [v \in VMs |-> IF files[v] = Absent THEN 0 ELSE 1]
  /\ reading = Nothing /\ readNth = nth /\ gone = [v \in VMs |-> 0]
  /\ entry = [v \in VMs |-> Absent] /\ gen = [v \in VMs |-> 0]
  /\ obs = [v \in VMs |-> Nothing] /\ due = [v \in VMs |-> TRUE]
  /\ active = {} /\ cursor = 0
  /\ at = [w \in Workers |-> "scan"] /\ job = [w \in Workers |-> Nothing]
  /\ timer = [w \in Workers |-> {}] /\ woken = [w \in Workers |-> FALSE]

\* A VM is created, configured or destroyed.
Change(v) ==
  /\ changes < MaxChanges /\ changes' = changes + 1
  /\ \E config \in (Configs \cup {Absent}) \ {files[v]} :
       files' = [files EXCEPT ![v] = config]
  /\ nth' = [nth EXCEPT ![v] = IF files[v] = Absent THEN @ + 1 ELSE @]
  /\ UNCHANGED <<read, inventory, workers>>

\* notify: a sleeping worker's channel is closed.
Notified_Not == woken
Notified == [w \in Workers |-> woken[w] \/ at[w] = "asleep"]

-----------------------------------------------------------------------------
(* refreshInventory *)

\* Without a complete inventory nothing is installed.
Read ==
  /\ reading = Nothing
  /\ reading' = files /\ readNth' = nth
  /\ UNCHANGED <<host, inventory, workers>>

StillActive_Present == {v \in active : reading[v] # Absent}
StillActive == active

\* Entries of VMs that stay are kept, with their new configuration.
Install ==
  /\ reading # Nothing
  /\ LET new == {v \in VMs : reading[v] # Absent /\ entry[v] = Absent}
     IN  /\ gen' = [v \in VMs |-> IF v \in new THEN gen[v] + 1 ELSE gen[v]]
         /\ due' = [v \in VMs |-> v \in new \/ due[v]]
         /\ obs' = [v \in VMs |-> IF v \in new THEN Nothing ELSE obs[v]]
  /\ gone' = [v \in VMs |-> IF reading[v] = Absent THEN readNth[v] ELSE gone[v]]
  /\ entry' = reading /\ active' = StillActive
  /\ woken' = Notified
  /\ reading' = Nothing
  /\ UNCHANGED <<host, readNth, cursor, at, job, timer>>

-----------------------------------------------------------------------------
(* next and worker *)

\* How far v is from the cursor.
Distance(v) ==
  LET n == Cardinality(Present) IN (Rank(v) + n - (cursor % n)) % n

NextCursor_Stuck(v) == cursor
NextCursor(v) == (Rank(v) + 1) % Cardinality(Present)

Ready == {v \in Present : Free(v) /\ due[v]}

Take(w) ==
  /\ at[w] = "scan"
  /\ \E v \in Ready :
       /\ \A u \in Ready : Distance(v) <= Distance(u)
       /\ active' = active \cup {v} /\ cursor' = NextCursor(v)
       /\ job' = [job EXCEPT ![w] = [vm |-> v, gen |-> gen[v], nth |-> nth[v], config |-> entry[v]]]
  /\ at' = [at EXCEPT ![w] = "sample"]
  /\ UNCHANGED <<host, read, entry, gen, obs, due, gone, timer, woken>>

\* The timer is set for the first VM that will be due, and for 3 s at most.
Sleep(w) ==
  /\ at[w] = "scan"
  /\ Ready = {}
  /\ at' = [at EXCEPT ![w] = "asleep"]
  /\ timer' = [timer EXCEPT ![w] = {v \in Present : Free(v)}]
  /\ woken' = [woken EXCEPT ![w] = FALSE]
  /\ UNCHANGED <<host, read, inventory, job>>

Wake(w) ==
  /\ at[w] = "asleep"
  /\ woken' = [woken EXCEPT ![w] = FALSE] /\ timer' = [timer EXCEPT ![w] = {}]
  /\ at' = [at EXCEPT ![w] = "scan"]
  /\ UNCHANGED <<host, read, inventory, job>>

\* entry.next comes.
Due(v) ==
  /\ v \in Present /\ ~due[v]
  /\ due' = [due EXCEPT ![v] = TRUE]
  /\ woken' = [w \in Workers |-> woken[w] \/ v \in timer[w]]
  /\ UNCHANGED <<host, read, entry, gen, obs, cursor, active, gone, at, job, timer>>

\* c.entries[id] == entry
SameEntry_ById(w) == entry[job[w].vm] # Absent
SameEntry(w) == entry[job[w].vm] # Absent /\ gen[job[w].vm] = job[w].gen

\* The sample is kept unless the entry was replaced, whichever VM of the id answered
\* since it began.  It may have taken longer than the 3 s after which the next is due.
Done(w) ==
  /\ at[w] = "sample"
  /\ LET v == job[w].vm IN
     /\ active' = active \ {v}
     /\ IF SameEntry(w)
          THEN /\ \E n \in job[w].nth .. nth[v] :
                    obs' = [obs EXCEPT ![v] = [nth |-> n, config |-> job[w].config]]
               /\ \E late \in BOOLEAN : due' = [due EXCEPT ![v] = late]
          ELSE UNCHANGED <<obs, due>>
  /\ woken' = Notified
  /\ at' = [at EXCEPT ![w] = "scan"] /\ job' = [job EXCEPT ![w] = Nothing]
  /\ UNCHANGED <<host, read, entry, gen, cursor, gone, timer>>

-----------------------------------------------------------------------------
Worker(w) == Take(w) \/ Sleep(w) \/ Done(w)

Next ==
  \/ \E v \in VMs : Change(v) \/ Due(v)
  \/ Read \/ Install
  \/ \E w \in Workers : Worker(w) \/ Wake(w)

Spec == Init /\ [][Next]_vars

\* The inventory is read every 3 s, samples have a deadline, timers fire.
Fairness ==
  /\ WF_vars(Read) /\ WF_vars(Install)
  /\ \A w \in Workers : WF_vars(Worker(w)) /\ WF_vars(Wake(w))
  /\ \A v \in VMs : WF_vars(Due(v))

FairSpec == Spec /\ Fairness

-----------------------------------------------------------------------------
(* Properties *)

Jobs == [vm : VMs, gen : Nat, nth : Nat, config : Configs]

TypeOK ==
  /\ files \in [VMs -> Configs \cup {Absent}] /\ changes \in 0..MaxChanges
  /\ nth \in [VMs -> Nat] /\ readNth \in [VMs -> Nat] /\ gone \in [VMs -> Nat]
  /\ reading \in [VMs -> Configs \cup {Absent}] \cup {Nothing}
  /\ entry \in [VMs -> Configs \cup {Absent}] /\ gen \in [VMs -> Nat]
  /\ obs \in [VMs -> [nth : Nat, config : Configs] \cup {Nothing}]
  /\ due \in [VMs -> BOOLEAN]
  /\ active \subseteq VMs /\ cursor \in 0..Cardinality(VMs)-1 \cup {0}
  /\ at \in [Workers -> {"scan", "sample", "asleep"}]
  /\ job \in [Workers -> Jobs \cup {Nothing}]
  /\ timer \in [Workers -> SUBSET VMs] /\ woken \in [Workers -> BOOLEAN]

Sampling == {w \in Workers : at[w] = "sample"}

\* c.active is the set of the VMs that are being sampled, each by one worker, so
\* that the single-client monitor socket of a VM is opened once, whatever happens to
\* its entry meanwhile.
SamplesExclusive ==
  /\ active = {job[w].vm : w \in Sampling}
  /\ \A w, x \in Sampling : job[w].vm = job[x].vm => w = x

\* What was sampled of a VM that an inventory did not find is in no entry, although
\* the id is in use again and the sample may end after that.  (When the id is given
\* away between two inventories nothing tells the VMs apart: the entry and what was
\* sampled for the first VM stay until the next sample.)
GoneIsForgotten ==
  \A v \in Present : obs[v] # Nothing => obs[v].nth > gone[v]

\* While a VM waits to be sampled no worker sleeps that has not been woken.
WorkConserving ==
  Ready # {} => \A w \in Workers : at[w] = "asleep" => woken[w]

\* Why: the timer of a worker that sleeps minds every VM that is not being sampled,
\* and none of them is due.
SleepersMind ==
  \A w \in Workers : at[w] = "asleep" /\ ~woken[w] =>
    \A v \in Present \ active : ~due[v] /\ v \in timer[w]

JobsHeld ==
  \A w \in Sampling : job[w] \in Jobs /\ job[w].gen <= gen[job[w].vm]

\* An inventory that has the id found a later VM than those found gone, and so does
\* a worker that takes it: the objects of two such VMs differ.
LaterThanGone ==
  /\ \A v \in VMs :
       /\ readNth[v] <= nth[v] /\ gone[v] <= readNth[v]
       /\ files[v] # Absent \/ entry[v] # Absent => nth[v] > gone[v]
       /\ reading # Nothing =>
            IF reading[v] = Absent THEN files[v] # Absent => nth[v] > readNth[v]
            ELSE readNth[v] > gone[v]
  /\ \A w \in Sampling :
       /\ job[w].nth <= nth[job[w].vm]
       /\ SameEntry(w) => job[w].nth > gone[job[w].vm]

IInv ==
  TypeOK /\ JobsHeld /\ SamplesExclusive /\ LaterThanGone /\ GoneIsForgotten /\ SleepersMind

\* A VM that stays is sampled in the end, with its own configuration: no VM is passed
\* over for ever, although samples may take so long that others are due again, and an
\* earlier VM of its id does not stay in its place.
SamplesCatchUp ==
  \A v \in VMs, config \in Configs :
    <>[](files[v] = config) =>
      <>[](obs[v] # Nothing /\ obs[v] = [nth |-> nth[v], config |-> config])
=============================================================================
