---------------------------- MODULE GuestIPsProofs ----------------------------
(***************************************************************************)
(* For any number of VMs, workers, retries and stops: IInv is an invariant *)
(* of GuestIPs, so that what is attached is the guest's own, and a guest   *)
(* is left alone for as long as it is owed.                                *)
(***************************************************************************)
EXTENDS GuestIPs, TLAPS

\* The delays of a list are numbers, none below the first.
LEMMA DelayBounds ==
  /\ Len(Delay) \in Nat \ {0} /\ Delay[1] \in Nat
  /\ \A i \in 1 .. Len(Delay) : Delay[i] \in Nat /\ Delay[1] <= Delay[i]
<1>1. Delay \in Seq(Nat) /\ Delay # <<>> BY GuestAssumption
<1>2. Len(Delay) \in Nat \ {0} BY <1>1
<1>3. \A i \in 1 .. Len(Delay) : Delay[i] \in Nat BY <1>1
<1> QED BY <1>2, <1>3, GuestAssumption

LEMMA Bounds == Pause \in Nat /\ MaxStops \in Nat /\ MaxChanges \in Nat /\ Changing \subseteq VMs
BY GuestAssumption

\* The records that the actions build are files.
LEMMA BlankIsFile ==
  ASSUME NEW t \in Targets
  PROVE /\ Blank(t.boot, t.agent) \in Files /\ Own(Blank(t.boot, t.agent))
        /\ Blank(t.boot, t.agent).wait = 0
BY DelayBounds DEF Blank, Files, Targets, Own, Replies, Boots

LEMMA AgedIsFile ==
  ASSUME NEW f \in Files
  PROVE Aged(f) \in Files /\ Own(Aged(f)) /\ Aged(f).wait = f.wait
BY DEF Aged, Files, Own, Replies, Boots, Old

LEMMA ReservedIsFile ==
  ASSUME NEW f \in Files, Own(f)
  PROVE Reserved(f) \in Files /\ Own(Reserved(f)) /\ Delay[1] <= Reserved(f).wait
<1> DEFINE n == IF f.fails < Len(Delay) THEN f.fails + 1 ELSE f.fails
<1>1. n \in 1 .. Len(Delay) BY DelayBounds DEF Files
<1>2. Delay[n] \in Nat /\ Delay[1] <= Delay[n] BY <1>1, DelayBounds
<1>3. Reserved(f) = [f EXCEPT !.fails = n, !.wait = Delay[n]] BY DEF Reserved
<1> HIDE DEF n
<1> DEFINE d == Delay[n]
<1>4. n \in 0 .. Len(Delay) /\ d \in Nat /\ Delay[1] <= d BY <1>1, <1>2, DelayBounds
<1>5. Reserved(f) = [f EXCEPT !.fails = n, !.wait = d] BY <1>3
<1> HIDE DEF d
<1>6. [f EXCEPT !.fails = n, !.wait = d] \in Files BY <1>4 DEF Files
<1>7. Reserved(f).wait = d /\ Own(Reserved(f)) BY <1>5 DEF Files, Own
<1> QED BY <1>4, <1>5, <1>6, <1>7

LEMMA LessIsLess ==
  /\ \A n \in Nat : Less(n) \in Nat
  /\ \A m, n \in Nat : m <= n => Less(m) <= Less(n)
  /\ Less(0) = 0
BY DEF Less

\* The target of a VM in the pass.
LEMMA TargetOf ==
  ASSUME TypeOK, NEW v \in VMs, target[v] # {}
  PROVE target[v] = {The(v)} /\ The(v) \in Targets
<1>1. PICK t \in Targets : target[v] = {t} BY DEF TypeOK
<1>2. (CHOOSE u \in target[v] : TRUE) \in target[v] OBVIOUS
<1> QED BY <1>1, <1>2 DEF The

LEMMA JobShapes ==
  /\ None \in Jobs /\ \A r \in BOOLEAN : Queued(r) \in Jobs
  /\ \A j \in Jobs : j.phase \in {"none", "queued", "asking", "answered"}
  /\ \A j \in Jobs : j.phase \in {"asking", "answered"} =>
       j \in [phase : {"asking", "answered"}, retry : BOOLEAN, reply : Replies, before : Files]
<1>1. None \in Jobs /\ None.phase = "none" BY DEF Jobs, None
<1>2. \A r \in BOOLEAN : Queued(r) \in [phase : {"queued"}, retry : BOOLEAN] BY Zenon DEF Queued
<1>3. \A j \in [phase : {"queued"}, retry : BOOLEAN] : j.phase = "queued" OBVIOUS
<1> QED BY <1>1, <1>2, <1>3 DEF Jobs

-----------------------------------------------------------------------------

LEMMA InitIInv == Init => IInv
<1> SUFFICES ASSUME Init PROVE IInv OBVIOUS
<1>1. Blank("past", FALSE) \in Files /\ Own(Blank("past", FALSE)) /\ Blank("past", FALSE).wait = 0
  BY DelayBounds DEF Blank, Files, Own, Boots, Replies
<1>2. changes \in 0 .. MaxChanges /\ stops \in 0 .. MaxStops BY Bounds DEF Init
<1>3. file \in [VMs -> Files] /\ job \in [VMs -> Jobs] BY <1>1, JobShapes DEF Init
<1>4. TypeOK BY <1>2, <1>3 DEF Init, TypeOK
<1>5. \A v \in VMs : JobOK(v) BY DEF Init, JobOK, None
<1>6. ASSUME NEW v \in VMs PROVE Own(file[v]) /\ rest[v] <= file[v].wait
  <2> DEFINE f == Blank("past", FALSE)
  <2>1. file[v] = f /\ rest[v] = 0 BY DEF Init
  <2>2. Own(f) /\ f.wait = 0 BY <1>1
  <2> HIDE DEF f
  <2> QED BY <2>1, <2>2
<1> QED BY <1>4, <1>5, <1>6 DEF IInv

\* The world: a restart, an edit, a sample, the clock.
LEMMA RestartIInv == ASSUME IInv, NEW v \in VMs, Restart(v) PROVE IInv'
<1> USE DEF IInv
<1>1. /\ file'[v] = Aged(file[v]) /\ \A w \in VMs \ {v} : file'[w] = file[w]
      /\ target'[v] = {[t EXCEPT !.boot = "past"] : t \in target[v]}
      /\ \A w \in VMs \ {v} : target'[w] = target[w]
      /\ pass' = pass /\ rest' = rest /\ job[v] \in Jobs
  BY DEF Restart, TypeOK
<1>2. file' \in [VMs -> Files] BY AgedIsFile DEF Restart, TypeOK
<1>3. /\ target'[v] \in {{}} \cup {{t} : t \in Targets} /\ \A t \in target'[v] : t.boot = "past"
      /\ target[v] # {} => target'[v] # {}
  <2>1. ASSUME NEW t \in Targets
        PROVE [t EXCEPT !.boot = "past"] \in Targets /\ [t EXCEPT !.boot = "past"].boot = "past"
    BY DEF Targets, Boots
  <2>2. CASE target[v] = {} BY <2>2, <1>1
  <2>3. CASE \E t \in Targets : target[v] = {t}
    <3>1. PICK t \in Targets : target[v] = {t} BY <2>3
    <3>2. target'[v] = {[t EXCEPT !.boot = "past"]} BY <1>1, <3>1
    <3> QED BY <3>2, <2>1
  <2> QED BY <2>2, <2>3 DEF TypeOK
<1>4. target' \in [VMs -> {{}} \cup {{t} : t \in Targets}] BY <1>3 DEF Restart, TypeOK
<1>5. job' \in [VMs -> Jobs] /\ (\A w \in VMs \ {v} : job'[w] = job[w]) /\ JobOK(v)'
  <2>1. CASE v \in Active
    <3> DEFINE j == job[v]
               k == AgedJob(j)
    <3>1. j.phase \in {"asking", "answered"} BY <2>1 DEF Active, In
    <3>2. j \in [phase : {"asking", "answered"}, retry : BOOLEAN, reply : Replies, before : Files]
      BY <3>1, <1>1, JobShapes
    <3>3. Old(j.reply) \in Replies BY <3>2 DEF Old, Replies, Boots
    <3>4. Aged(j.before) \in Files /\ Own(Aged(j.before)) BY <3>2, AgedIsFile
    <3>5. /\ k \in [phase : {"asking", "answered"}, retry : BOOLEAN, reply : Replies, before : Files]
          /\ k.phase = j.phase /\ k.reply = Old(j.reply) /\ k.before = Aged(j.before)
      BY <3>2, <3>3, <3>4 DEF AgedJob
    <3>6. k \in Jobs BY <3>5 DEF Jobs
    <3>7. j.phase = "answered" => Old(j.reply) = "past" BY DEF JobOK, Old, Boots
    <3>8. job' = [job EXCEPT ![v] = k] BY <2>1 DEF Restart
    <3>9. pass = "asking" /\ target[v] # {} BY <3>1 DEF JobOK
    <3> HIDE DEF k
    <3>10. job'[v] = k /\ job' \in [VMs -> Jobs] /\ \A w \in VMs \ {v} : job'[w] = job[w]
      BY <3>8, <3>6 DEF TypeOK
    <3>11. JobOK(v)'
      BY <3>1, <3>4, <3>5, <3>7, <3>9, <3>10, <1>1, <1>3 DEF JobOK, Boots
    <3> QED BY <3>10, <3>11
  <2>2. CASE v \notin Active
    <3>1. job' = job BY <2>2 DEF Restart
    <3>2. job[v].phase \in {"none", "queued"} BY <2>2, <1>1, JobShapes DEF Active, In
    <3>3. file'[v].wait = file[v].wait BY <1>1, AgedIsFile DEF TypeOK
    <3>4. JobOK(v)' BY <3>1, <3>2, <3>3, <1>1, <1>3 DEF JobOK
    <3> QED BY <3>1, <3>4 DEF TypeOK
  <2> QED BY <2>1, <2>2
<1>6. \A w \in VMs \ {v} : JobOK(w)' BY <1>1, <1>5 DEF JobOK
<1>7. TypeOK'
  <2>1. changes' \in 0 .. MaxChanges BY Bounds DEF Restart, TypeOK
  <2>2. observed' \in [VMs -> BOOLEAN] /\ late' \in [VMs -> BOOLEAN] BY DEF Restart, TypeOK
  <2>3. job' \in [VMs -> Jobs] BY <1>5
  <2> QED BY <1>2, <1>4, <2>1, <2>2, <2>3 DEF Restart, TypeOK
<1>8. Own(file'[v]) /\ file'[v].wait = file[v].wait BY <1>1, AgedIsFile DEF TypeOK
<1> QED BY <1>1, <1>5, <1>6, <1>7, <1>8

LEMMA EditIInv == ASSUME IInv, NEW v \in VMs, EditAgent(v) PROVE IInv'
<1>1. TypeOK' BY Bounds DEF IInv, EditAgent, TypeOK
<1> QED BY <1>1 DEF IInv, EditAgent, JobOK

LEMMA SampleIInv == ASSUME IInv, NEW v \in VMs, Sample(v) PROVE IInv'
<1>1. TypeOK' BY DEF IInv, Sample, TypeOK, bounds
<1> QED BY <1>1 DEF IInv, Sample, JobOK, bounds

LEMMA TickIInv == ASSUME IInv, Tick PROVE IInv'
<1> USE DEF IInv, Tick, world, bounds
<1>1. ASSUME NEW v \in VMs
      PROVE /\ file'[v] = [file[v] EXCEPT !.wait = Less(@)]
            /\ file'[v] \in Files /\ file'[v].wait = Less(file[v].wait)
            /\ rest'[v] = Less(rest[v]) /\ Own(file'[v])
  <2>1. file[v] \in Files /\ Own(file[v]) BY DEF TypeOK
  <2>2. Less(file[v].wait) \in Nat BY <2>1, LessIsLess DEF Files
  <2> QED BY <2>1, <2>2 DEF Files, Own
<1>2. TypeOK' BY <1>1, LessIsLess DEF TypeOK
<1>3. \A v \in VMs : rest'[v] <= file'[v].wait BY <1>1, LessIsLess DEF TypeOK, Files
<1>4. \A v \in VMs : JobOK(v)' BY <1>1, LessIsLess DEF JobOK
<1> QED BY <1>1, <1>2, <1>3, <1>4

-----------------------------------------------------------------------------
(* the pass *)

\* Outside a pass no VM has a job; a pass that begins or ends touches no file.
LEMMA NoJob == ASSUME TypeOK, NEW v \in VMs, JobOK(v), pass # "asking" PROVE job[v] = None
<1>1. job[v] \in Jobs /\ job[v].phase = "none" BY JobShapes DEF TypeOK, JobOK
<1> QED BY <1>1 DEF Jobs, Queued

LEMMA NoJobOK ==
  ASSUME NEW v \in VMs, job'[v] = None PROVE JobOK(v)'
BY DEF JobOK, None

LEMMA NewPass ==
  ASSUME IInv, TypeOK', job' = [v \in VMs |-> None], UNCHANGED <<file, rest>> PROVE IInv'
BY NoJobOK DEF IInv

LEMMA GatherIInv == ASSUME IInv, Gather PROVE IInv'
<1> USE DEF IInv
<1>1. job' = job /\ job \in [VMs -> Jobs] BY DEF Gather, TypeOK
<1>2. \A v \in VMs : job[v] = None BY NoJob DEF Gather
<1>3. job' = [v \in VMs |-> None] BY <1>1, <1>2
<1>4. \A v \in VMs : [boot |-> "this", agent |-> agent[v]] \in Targets
  BY DEF TypeOK, Targets, Boots
<1>5. PICK seen : target' =
        [v \in VMs |-> IF v \in seen THEN {[boot |-> "this", agent |-> agent[v]]} ELSE {}]
  BY DEF Gather
<1>6. target' \in [VMs -> {{}} \cup {{t} : t \in Targets}] BY <1>4, <1>5
<1>7. TypeOK' BY <1>1, <1>6 DEF TypeOK, Gather, world, bounds
<1> QED BY <1>3, <1>7, NewPass DEF Gather

LEMMA PassEnds ==
  ASSUME IInv, UNCHANGED <<agent, late, file, rest, changes>>, observed' \in [VMs -> BOOLEAN],
         pass' = "idle", cancelled' \in BOOLEAN, stops' \in 0 .. MaxStops,
         job' = [v \in VMs |-> None], target' = [v \in VMs |-> {}]
  PROVE IInv'
<1>1. TypeOK' BY JobShapes DEF IInv, TypeOK
<1> QED BY <1>1, NewPass

LEMMA SiftIInv == ASSUME IInv, Sift PROVE IInv'
<1> USE DEF IInv
<1> DEFINE strange == {v \in VMs : target[v] # {} /\ ~Fits(file[v], The(v))}
<1>1. PICK reset \in SUBSET strange :
        /\ file' = [v \in VMs |-> IF v \in reset THEN Blank(The(v).boot, The(v).agent) ELSE file[v]]
        /\ rest' = [v \in VMs |-> IF v \in reset THEN 0 ELSE rest[v]]
        /\ \/ /\ pass' = "asking" /\ UNCHANGED target
              /\ job' = [v \in VMs |->
                   IF target[v] # {} /\ Due(file'[v], The(v))
                   THEN Queued(file'[v].fails > 0) ELSE None]
           \/ pass' = "idle" /\ target' = [v \in VMs |-> {}] /\ UNCHANGED job
  BY DEF Sift
<1>2. ASSUME NEW v \in VMs
      PROVE file'[v] \in Files /\ Own(file'[v]) /\ rest'[v] \in Nat /\ rest'[v] <= file'[v].wait
  <2>1. CASE v \in reset
    <3>1. The(v) \in Targets BY <2>1, TargetOf
    <3>2. file'[v] = Blank(The(v).boot, The(v).agent) /\ rest'[v] = 0 BY <1>1, <2>1
    <3> QED BY <3>1, <3>2, BlankIsFile
  <2>2. CASE v \notin reset
    BY <1>1, <2>2 DEF TypeOK
  <2> QED BY <2>1, <2>2
<1>3. file' \in [VMs -> Files] /\ rest' \in [VMs -> Nat] BY <1>1, <1>2
<1>4. ASSUME NEW v \in VMs, NEW j, j = job'[v] PROVE j \in Jobs /\ JobOK(v)'
  <2>1. CASE pass' = "asking" /\ target' = target /\ target[v] # {} /\ Due(file'[v], The(v))
                /\ j = Queued(file'[v].fails > 0)
    <3>1. file'[v].wait = 0 BY <2>1 DEF Due
    <3>2. \A r \in BOOLEAN : Queued(r).phase = "queued" BY DEF Queued
    <3>3. (file'[v].fails > 0) \in BOOLEAN BY <1>2 DEF Files
    <3>4. j \in Jobs /\ j.phase = "queued" BY <2>1, <3>2, <3>3, JobShapes
    <3> QED BY <2>1, <3>1, <3>4, <1>4 DEF JobOK
  <2>2. CASE j = None
    BY <2>2, <1>4, NoJobOK, JobShapes
  <2>3. job[v] = None BY NoJob DEF Sift
  <2> QED BY <1>1, <1>4, <2>1, <2>2, <2>3
<1>5. job' \in [VMs -> Jobs] BY <1>1, <1>4 DEF TypeOK
<1>6. target' \in [VMs -> {{}} \cup {{t} : t \in Targets}] BY <1>1 DEF TypeOK
<1>7. TypeOK' BY <1>1, <1>3, <1>5, <1>6 DEF TypeOK, Sift, world, bounds
<1> QED BY <1>2, <1>4, <1>7

\* An action about the job of one VM.
LEMMA OneJob ==
  ASSUME IInv, NEW v \in VMs, NEW j \in Jobs, NEW f \in Files, NEW r \in Nat,
         job' = [job EXCEPT ![v] = j], file' = [file EXCEPT ![v] = f],
         rest' = [rest EXCEPT ![v] = r], Own(f), r <= f.wait, JobOK(v)',
         UNCHANGED <<agent, observed, pass, target, cancelled, changes>>,
         late' \in [VMs -> BOOLEAN], stops' \in 0 .. MaxStops
  PROVE IInv'
<1>1. TypeOK' BY DEF IInv, TypeOK
<1>2. \A w \in VMs \ {v} : JobOK(w)' BY DEF IInv, TypeOK, JobOK
<1> QED BY <1>1, <1>2 DEF IInv, TypeOK

LEMMA QueryIInv == ASSUME IInv, NEW v \in VMs, Query(v) PROVE IInv'
<1> USE DEF IInv
<1>1. /\ file[v] \in Files /\ rest[v] \in Nat /\ job[v] \in Jobs /\ late \in [VMs -> BOOLEAN]
      /\ Own(file[v]) /\ rest[v] <= file[v].wait /\ JobOK(v)
      /\ file = [file EXCEPT ![v] = file[v]] /\ rest = [rest EXCEPT ![v] = rest[v]]
      /\ stops \in 0 .. MaxStops /\ [late EXCEPT ![v] = TRUE] \in [VMs -> BOOLEAN]
      /\ [late EXCEPT ![v] = FALSE] \in [VMs -> BOOLEAN]
  BY DEF TypeOK
<1>2. ASSUME NEW f \in Files, NEW r \in Nat, Own(f), r <= f.wait, stops' \in 0 .. MaxStops,
             job' = [job EXCEPT ![v] = None], file' = [file EXCEPT ![v] = f],
             rest' = [rest EXCEPT ![v] = r], late' \in [VMs -> BOOLEAN],
             UNCHANGED <<agent, observed, pass, target, cancelled, changes>>
      PROVE IInv'
  <2>1. JobOK(v)' BY <1>2, NoJobOK DEF TypeOK
  <2> QED BY <1>2, <2>1, JobShapes, OneJob
<1>3. CASE job[v].phase \in {"asking", "answered"}
  <2> DEFINE j == job[v]
  <2>1. j \in [phase : {"asking", "answered"}, retry : BOOLEAN, reply : Replies, before : Files]
    BY <1>1, <1>3, JobShapes
  <2>2. Own(j.before) /\ target[v] # {} BY <1>1, <1>3 DEF JobOK
  <2>3. The(v) \in Targets /\ target[v] = {The(v)} BY <2>2, TargetOf
  <2>4. Restored(v) \in Files /\ Own(Restored(v)) /\ Restored(v).wait = Pause
    BY <2>1, <2>2, Bounds DEF Restored, Files, Own
  <2>5. ASSUME j.phase = "answered"
        PROVE Stored(v) \in Files /\ Own(Stored(v)) /\ Stored(v).wait = Delay[1]
    <3>1. /\ Stored(v).of = j.reply /\ Stored(v).boot = The(v).boot
          /\ Stored(v).wait = Delay[1]
      BY DEF Stored
    <3>2. j.reply = The(v).boot /\ The(v).boot \in Boots BY <1>1, <2>3, <2>5 DEF JobOK
    <3>3. Stored(v) \in Files BY <2>1, <2>3, DelayBounds DEF Stored, Files, Targets
    <3> QED BY <3>1, <3>2, <3>3 DEF Own, Boots
  <2>6. ASSUME Answers(v) PROVE IInv'
    <3> DEFINE k == [j EXCEPT !.phase = "answered", !.reply = "this"]
    <3>1. job' = [job EXCEPT ![v] = k]
      BY <2>6 DEF Answers, FirstReply, TypeOK
    <3>2. k \in [phase : {"asking", "answered"}, retry : BOOLEAN, reply : Replies, before : Files]
      BY <2>1 DEF Replies, Boots
    <3>3. k \in Jobs /\ k.phase = "answered" /\ k.reply = "this" /\ k.before = j.before
      BY <2>1, <3>2 DEF Jobs
    <3>4. job'[v] = k BY <3>1 DEF TypeOK
    <3>5. JobOK(v)'
      BY <1>1, <2>2, <2>3, <2>6, <3>3, <3>4 DEF JobOK, Answers, SameBoot, Boots
    <3> HIDE DEF k, j
    <3> QED BY <1>1, <2>6, <3>1, <3>3, <3>5, OneJob DEF Answers, bounds
  <2> HIDE DEF j
  <2>7. ASSUME Finish(v) PROVE IInv'
    <3>1. Pause \in Nat /\ Pause <= Pause /\ Delay[1] \in Nat /\ Delay[1] <= Delay[1]
      BY Bounds, DelayBounds
    <3>2. UNCHANGED bounds /\ UNCHANGED late /\ j.phase = "answered"
      BY <2>7 DEF Finish, bounds, j
    <3>3. CASE Ends(v, Restored(v), Pause) BY <1>1, <1>2, <2>4, <3>1, <3>2, <3>3 DEF Ends, bounds
    <3>4. CASE Ends(v, Stored(v), Delay[1]) BY <1>1, <1>2, <2>5, <3>1, <3>2, <3>4 DEF Ends, bounds
    <3> QED BY <2>7, <3>3, <3>4 DEF Finish
  <2>8. ASSUME LookupFails(v) PROVE IInv'
    <3>1. Pause \in Nat /\ Pause <= Pause BY Bounds
    <3>2. UNCHANGED bounds /\ late' \in [VMs -> BOOLEAN] BY <1>1, <2>8 DEF LookupFails
    <3>3. CASE Ends(v, Restored(v), Pause) BY <1>1, <1>2, <2>4, <3>1, <3>2, <3>3 DEF Ends, bounds
    <3>4. CASE Ends(v, file[v], rest[v]) BY <1>1, <1>2, <3>2, <3>4 DEF Ends, bounds
    <3> QED BY <2>8, <3>3, <3>4 DEF LookupFails
  <2>9. ASSUME FinishFails(v) PROVE IInv'
    <3>1. stops' \in 0 .. MaxStops BY <1>1, <2>9, Bounds DEF FinishFails
    <3> QED BY <1>1, <1>2, <2>9, <3>1 DEF FinishFails, Ends
  <2> QED
    BY <1>3, <2>6, <2>7, <2>8, <2>9
       DEF Query, Drop, Reserve, ReserveFails, Taken
<1>4. CASE job[v].phase = "queued"
  <2>1. ASSUME Drop(v) PROVE IInv'
    BY <1>1, <1>2, <2>1 DEF Drop, world, bounds
  <2>2. ASSUME ReserveFails(v) PROVE IInv'
    <3>1. stops' \in 0 .. MaxStops BY <1>1, <2>2, Bounds DEF ReserveFails
    <3> QED BY <1>1, <1>2, <2>2, <3>1 DEF ReserveFails, world
  <2>3. ASSUME Reserve(v) PROVE IInv'
    <3> DEFINE k == [phase |-> "asking", retry |-> job[v].retry, reply |-> "none",
                     before |-> file[v]]
    <3>1. job' = [job EXCEPT ![v] = k] BY <2>3 DEF Reserve
    <3>2. job[v].retry \in BOOLEAN BY <1>1, <1>4 DEF Jobs, None, Queued
    <3>3. k \in Jobs /\ k.phase = "asking" /\ k.before = file[v]
      BY <1>1, <3>2 DEF Jobs, Replies
    <3>4. job'[v] = k BY <3>1 DEF TypeOK
    <3>5. JobOK(v)' BY <1>1, <1>4, <2>3, <3>3, <3>4 DEF JobOK, Reserve
    <3> HIDE DEF k
    <3>6. Reserved(file[v]) \in Files /\ Own(Reserved(file[v])) /\ Delay[1] <= Reserved(file[v]).wait
      BY <1>1, ReservedIsFile
    <3> QED BY <1>1, <2>3, <3>1, <3>3, <3>5, <3>6, DelayBounds, OneJob DEF Reserve, world, bounds
  <2> QED
    BY <1>4, <2>1, <2>2, <2>3 DEF Query, Answers, LookupFails, Finish, FinishFails
<1>5. CASE job[v].phase = "none"
  BY <1>5 DEF Query, Drop, Reserve, ReserveFails, Taken, Answers, LookupFails, Finish, FinishFails
<1> QED BY <1>1, <1>3, <1>4, <1>5, JobShapes

LEMMA EndPassIInv == ASSUME IInv, EndPass PROVE IInv'
BY PassEnds DEF IInv, TypeOK, EndPass, world, bounds

LEMMA CancelIInv == ASSUME IInv, Cancel PROVE IInv'
<1>1. TypeOK' BY Bounds DEF IInv, TypeOK, Cancel, world
<1> QED BY <1>1 DEF IInv, Cancel, JobOK

LEMMA CrashIInv == ASSUME IInv, Crash PROVE IInv'
<1>1. stops' \in 0 .. MaxStops BY Bounds DEF IInv, TypeOK, Crash
<1>2. late' \in [VMs -> BOOLEAN]
  <2>1. \A v \in VMs : late[v] \in BOOLEAN BY DEF IInv, TypeOK
  <2>2. \A v \in VMs : (late[v] \/ job[v].phase = "asking") \in BOOLEAN BY <2>1
  <2>3. late' = [v \in VMs |-> late[v] \/ job[v].phase = "asking"] BY DEF Crash
  <2> QED BY <2>2, <2>3, Zenon
<1>3. TypeOK' BY <1>1, <1>2, JobShapes DEF IInv, TypeOK, Crash
<1> QED BY <1>3, NewPass DEF Crash

LEMMA NextIInv == IInv /\ [Next]_vars => IInv'
<1> SUFFICES ASSUME IInv, [Next]_vars PROVE IInv' OBVIOUS
<1>1. CASE UNCHANGED vars
  BY <1>1 DEF vars, world, bounds, IInv, TypeOK, JobOK
<1>2. ASSUME NEW v \in Changing, Restart(v) \/ EditAgent(v) PROVE IInv'
  BY <1>2, RestartIInv, EditIInv, Bounds
<1>3. ASSUME NEW v \in VMs, Sample(v) \/ Query(v) PROVE IInv'
  BY <1>3, SampleIInv, QueryIInv
<1> QED
  BY <1>1, <1>2, <1>3, TickIInv, GatherIInv, SiftIInv, EndPassIInv, CancelIInv, CrashIInv
     DEF Next

\* The invariant of the cache, with the types (collectGuests, queryGuest).
THEOREM Invariance == Spec => []IInv
BY InitIInv, NextIInv, PTL DEF Spec

-----------------------------------------------------------------------------

\* Attached addresses are the guest's own (AttachGuestIPs).
THEOREM OwnAddresses == Spec => []AttachedIsOwn
<1>1. IInv => AttachedIsOwn BY DEF IInv, AttachedIsOwn, Attached, Own
<1> QED BY <1>1, Invariance, PTL

\* A guest is asked only when it is owed no more rest (the reservation of queryGuest).
THEOREM Spacing == Spec => QueriesSpaced
<1>1. ASSUME IInv, NEW v \in VMs, job[v].phase = "queued" PROVE rest[v] = 0
  BY <1>1 DEF IInv, TypeOK, JobOK
<1>2. IInv /\ [Next]_vars =>
        [\A v \in VMs : job[v].phase = "queued" /\ job'[v].phase = "asking" => rest[v] = 0]_vars
  BY <1>1
<1> QED BY <1>2, Invariance, PTL DEF Spec, QueriesSpaced
=============================================================================
