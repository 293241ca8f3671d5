------------------------------- MODULE GuestIPs -------------------------------
(***************************************************************************)
(* The cache of guest addresses (internal/pve: guest_cache.go, guest.go,   *)
(* monitor.go).  One loop of the helper visits the running VMs, asks the   *)
(* guest agent of those that are due and keeps a file per VM: the boot and *)
(* agent it is about, when to ask next, the failures in a row, and the     *)
(* last addresses.  The files outlive the helper.                          *)
(*                                                                         *)
(* Boots and addresses are told apart only as "this" boot of the VM and a  *)
(* "past" one: a restart of the VM ages every record of it at once.        *)
(* Files are renamed into place, so none is ever read half written.        *)
(***************************************************************************)
EXTENDS Integers, Sequences, FiniteSets

CONSTANTS
  VMs,
  Workers,      \* queries at the same time
  Retries,      \* of which queries of guests that failed before
  Delay,        \* how long to wait after 1, 2, ... failures, in ticks
  Pause,        \* how long after a query that the helper gave up itself
  Changing,     \* bounds: the VMs that stop, restart or have their agent edited,
  MaxChanges,   \* and how often
  MaxStops      \* bound on crashes and on passes cut short

ASSUME GuestAssumption ==
  /\ Workers \in Nat \ {0} /\ Retries \in Nat \ {0}
  /\ Changing \subseteq VMs /\ MaxChanges \in Nat /\ MaxStops \in Nat
  /\ Delay \in Seq(Nat) /\ Delay # <<>> /\ \A i \in 1 .. Len(Delay) : Delay[1] <= Delay[i]
  /\ Pause \in Nat

VARIABLES
  agent,      \* the VM's configuration enables the guest agent
  observed,   \* the latest sample found the VM running, in this boot
  late,       \* the reply of an abandoned query waits in the agent's channel
  file,       \* <dir>/<vm>.json
  pass,       \* where collectGuests is
  target,     \* the VMs of the pass, with the boot and agent read at its start
  job,        \* the query of a VM in the pass
  cancelled,  \* the pass is out of its 10 s, or the helper is told to stop
  rest,       \* ticks before which the guest must not be asked again
  changes, stops

world == <<agent, observed, late>>
bounds == <<changes, stops>>
vars == <<world, file, pass, target, job, cancelled, rest, bounds>>

Boots == {"this", "past"}
Old(boot) == IF boot = "this" THEN "past" ELSE boot

Blank(boot, enabled) ==
  [boot |-> boot, agent |-> enabled, fails |-> 0, wait |-> 0, of |-> "none", fresh |-> FALSE]

\* fresh: the addresses were stored after this boot of the VM.
Aged(f) == [f EXCEPT !.boot = Old(f.boot), !.of = Old(f.of), !.fresh = FALSE]

AgedJob(j) == [j EXCEPT !.reply = Old(j.reply), !.before = Aged(j.before)]

None == [phase |-> "none"]
Queued(retry) == [phase |-> "queued", retry |-> retry]

In(phases) == {v \in VMs : job[v].phase \in phases}
Active == In({"asking", "answered"})

Init ==
  /\ agent \in [VMs -> BOOLEAN] /\ \A v \in VMs \ Changing : agent[v]
  /\ observed = [v \in VMs |-> FALSE] /\ late = [v \in VMs |-> FALSE]
  /\ file = [v \in VMs |-> Blank("past", FALSE)]
  /\ pass = "idle" /\ target = [v \in VMs |-> {}] /\ job = [v \in VMs |-> None]
  /\ cancelled = FALSE
  /\ rest = [v \in VMs |-> 0] /\ changes = 0 /\ stops = 0

-----------------------------------------------------------------------------
(* the VMs and the clock *)

Restart(v) ==
  /\ changes < MaxChanges /\ changes' = changes + 1
  /\ observed' = [observed EXCEPT ![v] = FALSE]
  /\ late' = [late EXCEPT ![v] = FALSE]
  /\ file' = [file EXCEPT ![v] = Aged(@)]
  /\ target' = [target EXCEPT ![v] = {[t EXCEPT !.boot = "past"] : t \in @}]
  /\ job' = IF v \in Active THEN [job EXCEPT ![v] = AgedJob(@)] ELSE job
  /\ UNCHANGED <<agent, pass, cancelled, rest, stops>>

EditAgent(v) ==
  /\ changes < MaxChanges /\ changes' = changes + 1
  /\ agent' = [agent EXCEPT ![v] = ~@]
  /\ UNCHANGED <<observed, late, file, pass, target, job, cancelled, rest, stops>>

\* sampleVM reports the VM running only if one process answered from start to end;
\* the monitor may fail to answer, and the VM may be paused or stopped.
Sample(v) ==
  /\ observed[v] => v \in Changing
  /\ observed' = [observed EXCEPT ![v] = ~@]
  /\ UNCHANGED <<agent, late, file, pass, target, job, cancelled, rest, bounds>>

Less(n) == IF n > 0 THEN n - 1 ELSE 0

Tick ==
  /\ \E v \in VMs : file[v].wait > 0 \/ rest[v] > 0
  /\ file' = [v \in VMs |-> [file[v] EXCEPT !.wait = Less(@)]]
  /\ rest' = [v \in VMs |-> Less(rest[v])]
  /\ UNCHANGED <<world, pass, target, job, cancelled, bounds>>

-----------------------------------------------------------------------------
(* a pass: CollectGuests, collectGuests *)

\* The configuration and the process of the VMs are read; the inventory may be
\* older than a restart.
The(v) == CHOOSE t \in target[v] : TRUE
Observed == {v \in VMs : observed[v]}

Gather ==
  /\ pass = "idle" /\ pass' = "gathered"
  /\ \E seen \in {Observed, Observed \cup Changing} :
       /\ seen # {}
       /\ target' = [v \in VMs |->
            IF v \in seen THEN {[boot |-> "this", agent |-> agent[v]]} ELSE {}]
  /\ UNCHANGED <<world, file, job, cancelled, rest, bounds>>

Fits(f, t) == f.boot = t.boot /\ f.agent = t.agent

\* A file about another boot or agent is blanked, and a write that fails ends the
\* pass; then the guests that are due are queued.
Due_NotLast(f, t) == t.agent /\ f.wait = 0 /\ f.fails < Len(Delay)
Due(f, t) == t.agent /\ f.wait = 0

Sift ==
  /\ pass = "gathered"
  /\ LET strange == {v \in VMs : target[v] # {} /\ ~Fits(file[v], The(v))}
     IN \E reset \in SUBSET strange :
          /\ file' = [v \in VMs |-> IF v \in reset THEN Blank(The(v).boot, The(v).agent) ELSE file[v]]
          /\ rest' = [v \in VMs |-> IF v \in reset THEN 0 ELSE rest[v]]
          /\ IF reset = strange
             THEN /\ pass' = "asking" /\ UNCHANGED target
                  /\ job' = [v \in VMs |->
                       IF target[v] # {} /\ Due(file'[v], The(v))
                       THEN Queued(file'[v].fails > 0) ELSE None]
             ELSE pass' = "idle" /\ target' = [v \in VMs |-> {}] /\ UNCHANGED job
  /\ UNCHANGED <<world, cancelled, bounds>>

\* Healthy guests first, then first observations, then retries.
Priority(v) ==
  IF file[v].fails > 0 THEN 2 ELSE IF file[v].of = "none" THEN 1 ELSE 0

Taken(v) ==
  /\ job[v].phase = "queued" /\ Cardinality(Active) < Workers
  /\ \A w \in In({"queued"}) : Priority(v) <= Priority(w)

MayRetry(v) == Cardinality({w \in Active : job[w].retry}) < Retries

Drop(v) ==
  /\ Taken(v)
  /\ cancelled \/ (job[v].retry /\ ~MayRetry(v))
  /\ job' = [job EXCEPT ![v] = None]
  /\ UNCHANGED <<world, file, pass, target, cancelled, rest, bounds>>

-----------------------------------------------------------------------------
(* a query: queryGuest, guestIPs *)

Reserved_Not(f) == f
Reserved(f) ==
  LET n == IF f.fails < Len(Delay) THEN f.fails + 1 ELSE f.fails
  IN [f EXCEPT !.fails = n, !.wait = Delay[n]]

\* The failure is recorded before the query, or the query does not take place.
Reserve(v) ==
  /\ Taken(v) /\ ~cancelled /\ (job[v].retry => MayRetry(v))
  /\ file' = [file EXCEPT ![v] = Reserved(@)]
  /\ job' = [job EXCEPT ![v] =
       [phase |-> "asking", retry |-> @.retry, reply |-> "none", before |-> file[v]]]
  /\ rest' = [rest EXCEPT ![v] = Delay[1]]
  /\ UNCHANGED <<world, pass, target, cancelled, bounds>>

ReserveFails(v) ==
  /\ Taken(v) /\ ~cancelled /\ stops < MaxStops /\ stops' = stops + 1
  /\ job' = [job EXCEPT ![v] = None]
  /\ UNCHANGED <<world, file, pass, target, cancelled, rest, changes>>

\* syncGuest discards the replies to earlier queries before ours is sent.
FirstReply_NoSync(v) == IF late[v] THEN "late" ELSE "this"
FirstReply(v) == "this"

SameBoot(v) == The(v).boot = "this"

Answers(v) ==
  /\ job[v].phase = "asking" /\ SameBoot(v)
  /\ job' = [job EXCEPT ![v].phase = "answered", ![v].reply = FirstReply(v)]
  /\ late' = [late EXCEPT ![v] = FALSE]
  /\ UNCHANGED <<agent, observed, file, pass, target, cancelled, rest, bounds>>

Stored(v) ==
  [boot |-> The(v).boot, agent |-> The(v).agent, fails |-> 0, wait |-> Delay[1],
   of |-> job[v].reply, fresh |-> TRUE]

\* A query that the helper gave up itself is not the guest's failure.
Restored(v) == [job[v].before EXCEPT !.wait = Pause]

Ends(v, f, pause) ==
  /\ job' = [job EXCEPT ![v] = None]
  /\ file' = [file EXCEPT ![v] = f]
  /\ rest' = [rest EXCEPT ![v] = pause]
  /\ UNCHANGED <<agent, observed, pass, target, cancelled>>

Finish(v) ==
  /\ job[v].phase = "answered"
  /\ \/ cancelled /\ Ends(v, Restored(v), Pause)
     \/ ~cancelled /\ Ends(v, Stored(v), Delay[1])
  /\ UNCHANGED <<late, bounds>>

\* No agent, another boot, a bad reply, or no reply within 3 s: it may still come.
LookupFails(v) ==
  /\ job[v].phase = "asking"
  /\ \/ cancelled /\ Ends(v, Restored(v), Pause)
     \/ ~cancelled /\ Ends(v, file[v], rest[v])
  /\ late' \in {late, [late EXCEPT ![v] = TRUE]}
  /\ UNCHANGED bounds

\* The result cannot be written: the reservation stands.
FinishFails(v) ==
  /\ job[v].phase = "answered" \/ (job[v].phase = "asking" /\ cancelled)
  /\ stops < MaxStops /\ stops' = stops + 1
  /\ Ends(v, file[v], rest[v])
  /\ UNCHANGED <<late, changes>>

\* The guests still queued when the pass is cut short wait for the next one.
EndPass ==
  /\ pass = "asking" /\ Active = {} /\ (In({"queued"}) = {} \/ cancelled)
  /\ pass' = "idle" /\ cancelled' = FALSE
  /\ job' = [v \in VMs |-> None] /\ target' = [v \in VMs |-> {}]
  /\ UNCHANGED <<world, file, rest, bounds>>

Cancel ==
  /\ pass # "idle" /\ ~cancelled /\ cancelled' = TRUE
  /\ stops < MaxStops /\ stops' = stops + 1
  /\ UNCHANGED <<world, file, pass, target, job, rest, changes>>

\* The helper dies and is started again: only the files are left.
Crash ==
  /\ stops < MaxStops /\ stops' = stops + 1
  /\ observed' = [v \in VMs |-> FALSE]
  /\ late' = [v \in VMs |-> late[v] \/ job[v].phase = "asking"]
  /\ pass' = "idle" /\ cancelled' = FALSE
  /\ job' = [v \in VMs |-> None] /\ target' = [v \in VMs |-> {}]
  /\ UNCHANGED <<agent, file, rest, changes>>

Query(v) ==
  \/ Drop(v) \/ Reserve(v) \/ ReserveFails(v)
  \/ Answers(v) \/ LookupFails(v) \/ Finish(v) \/ FinishFails(v)

Next ==
  \/ \E v \in Changing : Restart(v) \/ EditAgent(v)
  \/ \E v \in VMs : Sample(v) \/ Query(v)
  \/ Tick \/ Gather \/ Sift \/ EndPass \/ Cancel \/ Crash

Spec == Init /\ [][Next]_vars

\* The loop and its workers run, samples and the clock go on, and a write that fails
\* every time is not foreseen.  Of two guests of one priority the one due longer goes
\* first: no guest that could be taken again and again is passed over for ever.
FairSpec ==
  /\ Spec
  /\ WF_vars(Tick) /\ WF_vars(Gather) /\ WF_vars(EndPass)
  /\ SF_vars(Sift /\ pass' = "asking")
  /\ \A v \in VMs :
       /\ WF_vars(~observed[v] /\ Sample(v)) /\ WF_vars(Drop(v)) /\ WF_vars(Finish(v))
       /\ WF_vars(Answers(v) \/ LookupFails(v))
       /\ SF_vars(Reserve(v))

-----------------------------------------------------------------------------

Replies == Boots \cup {"none", "late"}
Targets == [boot : Boots, agent : BOOLEAN]
Files ==
  [boot : Boots, agent : BOOLEAN, fails : 0 .. Len(Delay), wait : Nat, of : Replies,
   fresh : BOOLEAN]
Jobs ==
  {None} \cup [phase : {"queued"}, retry : BOOLEAN]
    \cup [phase : {"asking", "answered"}, retry : BOOLEAN, reply : Replies, before : Files]

TypeOK ==
  /\ agent \in [VMs -> BOOLEAN] /\ observed \in [VMs -> BOOLEAN] /\ late \in [VMs -> BOOLEAN]
  /\ file \in [VMs -> Files]
  /\ pass \in {"idle", "gathered", "asking"} /\ cancelled \in BOOLEAN
  /\ target \in [VMs -> {{}} \cup {{t} : t \in Targets}] /\ job \in [VMs -> Jobs]
  /\ rest \in [VMs -> Nat] /\ changes \in 0 .. MaxChanges /\ stops \in 0 .. MaxStops

\* A guest is not asked again before the pause that follows a query, whether it was
\* answered, failed, given up by the helper, or cut off by the helper's death
\* (guest_cache.go:221, "a helper crash cannot cause a retry storm").
QueriesSpaced ==
  [][\A v \in VMs : job[v].phase = "queued" /\ job'[v].phase = "asking" => rest[v] = 0]_vars

\* The addresses that AttachGuestIPs adds to a sample of this boot are those that the
\* guest gave in this boot and to the query they are stored for, unless the VM
\* restarted between the last look at its process and the time stamp of the result:
\* the file is then about the past boot, and the next pass blanks it.
Attached(v) == observed[v] /\ file[v].fresh

AttachedIsOwn ==
  \A v \in VMs : Attached(v) =>
    \/ file[v].of = "this"
    \/ file[v].of = "past" /\ file[v].boot = "past"

\* What makes both inductive: a file keeps what the guest is owed, a queued guest is
\* due, and a query and its reply are about the boot of their target.
Own(f) == f.fresh => f.of = "this" \/ (f.of = "past" /\ f.boot = "past")

JobOK(v) ==
  /\ job[v].phase # "none" => pass = "asking" /\ target[v] # {}
  /\ job[v].phase = "queued" => file[v].wait = 0
  /\ job[v].phase \in {"asking", "answered"} => Own(job[v].before)
  /\ job[v].phase = "answered" =>
       \E b \in Boots : job[v].reply = b /\ \A t \in target[v] : t.boot = b

IInv ==
  /\ TypeOK
  /\ \A v \in VMs : Own(file[v]) /\ rest[v] <= file[v].wait /\ JobOK(v)

\* A guest whose agent stays enabled is asked again and again, whatever fails or
\* restarts in between: no reservation, retry limit or cut pass silences it.
EveryGuestAsked ==
  \A v \in VMs : []<>(job[v].phase = "asking") \/ []<>~agent[v] \/ []<>~observed[v]
=============================================================================
