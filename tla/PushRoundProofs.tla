--------------------------- MODULE PushRoundProofs ---------------------------
(***************************************************************************)
(* PushRound for any targets and versions: the plan is exact for the       *)
(* results that are read, and errors come from a cancelled agent only.     *)
(* Then ReportLoop, which implements it, for any samples and processes.    *)
(***************************************************************************)
EXTENDS ReportLoop, TLAPS

\* TypeOK in two parts: the loop, and the round.
LoopOK ==
  /\ version \in Versions /\ loop \in {"wait", "round", "update", "ended"}
  /\ exit \in {"none", "cancelled", "error", "restart", "crash"}
  /\ cancelled \in BOOLEAN /\ todo \in Updates

RoundOK ==
  /\ at \in [Targets -> {"send", "back", "done"}]
  /\ callErr \in [Targets -> {"none", "deadline", "cancelled"}]
  /\ answer \in [Targets -> Answers]
  /\ results \in Seq(Results) /\ read \in 0..Len(results)
  /\ plan \in Plans

LEMMA TypeParts == (TypeOK <=> LoopOK /\ RoundOK) /\ (TypeOK' <=> LoopOK' /\ RoundOK')
BY DEF TypeOK, LoopOK, RoundOK

LEMMA Blank == NoAnswer \in Answers /\ NoPlan \in Plans /\ NoUpdate \in Updates
BY DEF NoAnswer, NoPlan, NoUpdate, Answers, Plans, Updates, Offers

\* A new round, or none, satisfies what the invariant says of rounds.
LEMMA NewRound ==
  ASSUME results' = <<>>, read' = 0, plan' = NoPlan
  PROVE  PlanIsExact'
<1>1. \A n \in {read'} : 1..n = {}
  OBVIOUS
<1>2. Offered(read)' = {}
  BY <1>1 DEF Offered
<1> QED
  BY <1>2 DEF PlanIsExact, NoPlan

LEMMA RoundOverKeeps ==
  ASSUME RoundOver, exit' # "error"
  PROVE  RoundOK' /\ ErrorsAreCancels' /\ PlanIsExact'
<1>1. PlanIsExact'
  BY NewRound DEF RoundOver
<1>2. ErrorsAreCancels'
  BY DEF RoundOver, ErrorsAreCancels, NoAnswer
<1>3. RoundOK'
  BY Blank DEF RoundOver, RoundOK
<1> QED
  BY <1>1, <1>2, <1>3

LEMMA InitIInv == Init => IInv
<1> SUFFICES ASSUME NEW v \in Versions, Fresh(v) PROVE IInv
  BY DEF Init
<1>1. LoopOK
  BY Blank DEF Fresh, LoopOK
<1>2. RoundOK
  BY Blank DEF Fresh, RoundOK
<1>3. ErrorsAreCancels
  BY DEF Fresh, ErrorsAreCancels, NoAnswer
<1>4. 1..read = {}
  BY DEF Fresh
<1>5. PlanIsExact
  BY <1>4 DEF Fresh, PlanIsExact, Offered, NoPlan
<1> QED
  BY <1>1, <1>2, <1>3, <1>5, TypeParts DEF IInv

-----------------------------------------------------------------------------
(* the loop *)

\* No result is added and none is read: what the plan says stays.
LEMMA PlanUntouched ==
  ASSUME IInv, UNCHANGED <<version, results, read, plan>>
  PROVE  PlanIsExact'
<1>1. Offered(read)' = Offered(read)
  BY DEF Offered, Foreign
<1> QED
  BY <1>1 DEF IInv, PlanIsExact

LEMMA LoopSteps ==
  ASSUME IInv,
         \/ StartRound \/ SeeCancel \/ Cancel \/ Die
         \/ (\E restart \in BOOLEAN : Applied(restart))
         \/ (\E v \in Versions : Reborn(v))
  PROVE  IInv'
<1> USE TypeParts, Blank DEF IInv
<1>1. CASE StartRound
  <2>1. LoopOK' /\ RoundOK'
    BY <1>1 DEF StartRound, LoopOK, RoundOK
  <2>2. ErrorsAreCancels'
    BY <1>1 DEF StartRound, ErrorsAreCancels, NoAnswer
  <2>3. PlanIsExact'
    BY <1>1, NewRound DEF StartRound
  <2> QED BY <2>1, <2>2, <2>3
<1>2. CASE SeeCancel
  <2>1. LoopOK' /\ RoundOK' /\ ErrorsAreCancels'
    BY <1>2 DEF SeeCancel, roundVars, LoopOK, RoundOK, ErrorsAreCancels
  <2>2. PlanIsExact'
    BY <1>2, PlanUntouched DEF SeeCancel, roundVars
  <2> QED BY <2>1, <2>2
<1>3. CASE Cancel
  <2>1. LoopOK' /\ RoundOK'
    BY <1>3 DEF Cancel, LoopOK, RoundOK
  <2>2. ErrorsAreCancels'
    BY <1>3 DEF Cancel, ErrorsAreCancels, RoundOK
  <2>3. PlanIsExact'
    BY <1>3, PlanUntouched DEF Cancel
  <2> QED BY <2>1, <2>2, <2>3
<1>4. CASE Die
  BY <1>4, RoundOverKeeps DEF Die, LoopOK
<1>5. ASSUME NEW restart \in BOOLEAN, Applied(restart) PROVE IInv'
  BY <1>5, RoundOverKeeps DEF Applied, LoopOK, ErrorsAreCancels
<1>6. ASSUME NEW v \in Versions, Reborn(v) PROVE IInv'
  BY <1>6, RoundOverKeeps DEF Reborn, LoopOK
<1> QED
  BY <1>1, <1>2, <1>3, <1>4, <1>5, <1>6

-----------------------------------------------------------------------------
(* the targets *)

LEMMA DeadlineKeeps ==
  ASSUME IInv, NEW t \in Targets, Deadline(t) PROVE IInv'
<1> USE TypeParts DEF IInv
<1>1. LoopOK' /\ RoundOK'
  BY DEF Deadline, loopVars, LoopOK, RoundOK
<1>2. ErrorsAreCancels'
  BY DEF Deadline, loopVars, ErrorsAreCancels, RoundOK
<1>3. PlanIsExact'
  BY PlanUntouched DEF Deadline, loopVars
<1> QED BY <1>1, <1>2, <1>3

\* sendTarget returns an error only when its context is done, and no manifest then.
LEMMA ReturnKeeps ==
  ASSUME IInv, NEW t \in Targets, NEW a \in Answers, Return(t, a),
         a.err => callErr[t] # "none" /\ a.manifest = None
  PROVE  IInv'
<1> USE TypeParts DEF IInv
<1>1. LoopOK' /\ RoundOK'
  BY DEF Return, loopVars, LoopOK, RoundOK
<1>2. ErrorsAreCancels'
  BY DEF Return, loopVars, ErrorsAreCancels, RoundOK
<1>3. PlanIsExact'
  BY PlanUntouched DEF Return, loopVars
<1> QED BY <1>1, <1>2, <1>3

LEMMA AnswerKeeps ==
  ASSUME IInv, NEW t \in Targets,
         \/ (\E m \in Manifests \cup {None} : Accepted(t, m)) \/ Rejected(t) \/ Fails(t)
  PROVE  IInv'
<1>1. ASSUME NEW m \in Manifests \cup {None}, Accepted(t, m) PROVE IInv'
  <2>1. [NoAnswer EXCEPT !.manifest = m] \in Answers /\ ~[NoAnswer EXCEPT !.manifest = m].err
    BY DEF NoAnswer, Answers, Offers
  <2> QED BY <1>1, <2>1, ReturnKeeps DEF Accepted
<1>2. CASE Rejected(t)
  <2>1. NoAnswer \in Answers /\ ~NoAnswer.err
    BY Blank DEF NoAnswer
  <2> QED BY <1>2, <2>1, ReturnKeeps DEF Rejected
<1>3. CASE Fails(t)
  <2> DEFINE a == [NoAnswer EXCEPT !.err = callErr[t] # "none"]
  <2>1. a = [manifest |-> None, err |-> callErr[t] # "none"]
    BY DEF NoAnswer
  <2>2. a \in Answers /\ (a.err => callErr[t] # "none" /\ a.manifest = None)
    BY <2>1 DEF Answers, Offers
  <2>3. Return(t, a)
    BY <1>3 DEF Fails
  <2> HIDE DEF a
  <2> QED BY <2>2, <2>3, ReturnKeeps
<1> QED BY <1>1, <1>2, <1>3

\* A result is put behind those that are read.  Its error is no deadline.
LEMMA ReportKeeps ==
  ASSUME IInv, NEW t \in Targets, Report(t) PROVE IInv'
<1> USE TypeParts DEF IInv
<1> DEFINE r == [target |-> t, manifest |-> answer[t].manifest,
                 err |-> answer[t].err /\ ~TimedOut(t)]
<1>1. r \in Results
  BY DEF RoundOK, Answers, Results
<1>2. results' = Append(results, r) /\ results \in Seq(Results) /\ read \in 0..Len(results)
  BY DEF Report, RoundOK
<1>3. r.err => cancelled /\ r.manifest = None
  <2>1. r.err => answer[t].err /\ ~TimedOut(t)
    OBVIOUS
  <2>2. answer[t].err => callErr[t] \in {"deadline", "cancelled"}
    BY DEF ErrorsAreCancels, RoundOK
  <2>3. callErr[t] = "cancelled" => cancelled
    BY DEF ErrorsAreCancels
  <2>5. answer[t].err => r.manifest = None
    BY DEF ErrorsAreCancels
  <2>4. callErr[t] = "deadline" /\ ~TimedOut(t) => cancelled
    BY DEF TimedOut
  <2> QED BY <2>1, <2>2, <2>3, <2>4, <2>5
<1> HIDE DEF r
<1>4. /\ results' \in Seq(Results) /\ Len(results') = Len(results) + 1
      /\ \A i \in 1..Len(results) : results'[i] = results[i]
      /\ results'[Len(results) + 1] = r
  BY <1>1, <1>2
<1>5. LoopOK' /\ RoundOK'
  BY <1>2, <1>4, Blank DEF Report, loopVars, LoopOK, RoundOK
<1>6. ErrorsAreCancels'
  <2>1. \A i \in DOMAIN results' : results'[i].err => cancelled /\ results'[i].manifest = None
    BY <1>2, <1>3, <1>4 DEF ErrorsAreCancels
  <2> QED BY <2>1 DEF Report, loopVars, ErrorsAreCancels, NoAnswer, RoundOK
<1>7. PlanIsExact'
  <2>1. \A i \in 1..read : results'[i] = results[i]
    BY <1>2, <1>4
  <2>2. Offered(read)' = Offered(read)
    BY <2>1 DEF Report, loopVars, Offered, Foreign
  <2> QED BY <2>1, <2>2 DEF Report, loopVars, PlanIsExact
<1> QED BY <1>5, <1>6, <1>7

-----------------------------------------------------------------------------
(* the plan *)

\* One more result is read.
LEMMA OfferedNext ==
  ASSUME RoundOK, read < Len(results), NEW m, m = results[read + 1].manifest
  PROVE  /\ m \in Offers
         /\ Offered(read + 1) = Offered(read) \cup (IF Foreign(m) THEN {m} ELSE {})
<1>1. results[read + 1] \in Results
  BY DEF RoundOK
<1>2. m \in Offers
  BY <1>1 DEF Results
<1>3. 1..(read + 1) = (1..read) \cup {read + 1}
  BY DEF RoundOK
<1>4. Foreign(m) => m \in Manifests
  BY <1>2 DEF Foreign, Offers
<1> QED BY <1>2, <1>3, <1>4 DEF Offered

LEMMA ReadKeeps == IInv /\ ReadResult => IInv'
<1> SUFFICES ASSUME IInv, ReadResult PROVE IInv'
  OBVIOUS
<1> USE TypeParts DEF IInv
<1> DEFINE r == results[read + 1]
           m == r.manifest
<1>1. RoundOK /\ LoopOK /\ read' = read + 1 /\ read \in 0..Len(results) /\ read < Len(results)
  BY DEF ReadResult, RoundOK
<1>2. r \in Results /\ r.target \in Targets /\ m \in Offers
  <2>1. r \in Results
    BY <1>1 DEF RoundOK
  <2> QED BY <2>1 DEF Results
<1>3. UNCHANGED <<version, cancelled, todo, at, callErr, answer, results>>
  BY DEF ReadResult
<1>4. read' \in 0..Len(results)
  BY <1>1
<1>5. /\ Offered(read)' = Offered(read) \cup (IF Foreign(m) THEN {m} ELSE {})
      /\ Foreign(m) => m \in Manifests
  <2>1. Offered(read)' = Offered(read + 1)
    BY <1>1, <1>3 DEF Offered, Foreign
  <2> QED BY <2>1, <1>1, <1>2, OfferedNext DEF Foreign, Offers
<1>6. /\ plan \in Plans
      /\ \A i \in 1..read : i \in 1..read'
      /\ read' \in 1..read' /\ results'[read'] = r
  BY <1>1, <1>3 DEF RoundOK
<1>7. CASE r.err
  <2>1. cancelled /\ ~Foreign(m)
    BY <1>1, <1>7 DEF ErrorsAreCancels, Foreign
  <2>2. plan' = plan /\ loop' = "ended" /\ exit' = "cancelled"
    BY <1>1, <1>7, <2>1 DEF ReadResult
  <2>3. LoopOK' /\ RoundOK' /\ ErrorsAreCancels'
    BY <1>1, <1>3, <1>4, <2>2 DEF LoopOK, RoundOK, ErrorsAreCancels
  <2>4. PlanIsExact'
    BY <1>3, <1>5, <1>6, <2>1, <2>2 DEF PlanIsExact, Foreign
  <2> QED BY <2>3, <2>4
<1>8. CASE ~r.err
  <2>1. plan' = Add(plan, m, r.target) /\ loop' = "round" /\ UNCHANGED exit
    BY <1>1, <1>8 DEF ReadResult
  <2>2. plan' \in Plans /\ LoopOK' /\ RoundOK' /\ ErrorsAreCancels'
    <3>1. plan' \in Plans
      BY <1>2, <1>6, <2>1 DEF Add, Plans
    <3> QED BY <1>1, <1>3, <1>4, <2>1, <3>1 DEF LoopOK, RoundOK, ErrorsAreCancels
  <2>3. PlanIsExact'
    <3>1. CASE ~Foreign(m)
      BY <1>3, <1>5, <1>6, <2>1, <3>1 DEF PlanIsExact, Add, Foreign
    <3>2. CASE Foreign(m) /\ plan.manifest = None
      <4>1. plan'.manifest = m /\ plan'.from = r.target /\ plan'.conflict = plan.conflict
        BY <1>6, <2>1, <3>2 DEF Add, Plans
      <4>2. Offered(read)' = {m} /\ ~plan.conflict /\ m # None
        BY <1>5, <3>2 DEF PlanIsExact, Foreign
      <4> QED BY <1>6, <2>1, <4>1, <4>2 DEF PlanIsExact
    <3>3. CASE Foreign(m) /\ plan.manifest # None
      <4>1. /\ plan'.manifest = plan.manifest /\ plan'.from = plan.from
            /\ plan'.conflict <=> plan.conflict \/ plan.manifest # m
        BY <1>6, <2>1, <3>3 DEF Add, Plans
      <4>2. Offered(read)' = Offered(read) \cup {m}
        BY <1>5, <3>3
      <4> QED BY <1>3, <1>6, <2>1, <3>3, <4>1, <4>2 DEF PlanIsExact
    <3> QED BY <3>1, <3>2, <3>3
  <2> QED BY <2>2, <2>3
<1> QED BY <1>7, <1>8

LEMMA DecideKeeps == IInv /\ Decide => IInv'
<1> SUFFICES ASSUME IInv, Decide PROVE IInv'
  OBVIOUS
<1> USE TypeParts DEF IInv
<1>1. CASE plan.manifest # None /\ ~plan.conflict
  <2>1. LoopOK' /\ RoundOK' /\ ErrorsAreCancels'
    BY <1>1 DEF Decide, roundVars, LoopOK, RoundOK, ErrorsAreCancels, Plans, Updates
  <2>2. PlanIsExact'
    BY <1>1, PlanUntouched DEF Decide, roundVars
  <2> QED BY <2>1, <2>2
<1>2. CASE ~(plan.manifest # None /\ ~plan.conflict)
  BY <1>2, RoundOverKeeps DEF Decide, LoopOK, ErrorsAreCancels
<1> QED BY <1>1, <1>2

-----------------------------------------------------------------------------

LEMMA StepIInv == IInv /\ [Next]_vars => IInv'
<1> SUFFICES ASSUME IInv, [Next]_vars PROVE IInv'
  OBVIOUS
<1>1. ASSUME NEW t \in Targets, Send(t) PROVE IInv'
  BY <1>1, AnswerKeeps, DeadlineKeeps, ReportKeeps DEF Send
<1>2. CASE Next
  BY <1>1, <1>2, LoopSteps, ReadKeeps, DecideKeeps DEF Next, Round
<1>3. CASE UNCHANGED vars
  BY <1>3 DEF vars, loopVars, roundVars, IInv, TypeOK, ErrorsAreCancels, PlanIsExact, Offered, Foreign
<1> QED BY <1>2, <1>3

\* The plan says what the results say that are read, and an error comes from a
\* cancelled agent only (sendRound, sendTarget, updatePlan.add).
THEOREM Inductive == Spec => []IInv
<1>1. Init => IInv
  BY InitIInv
<1>2. IInv /\ [Next]_vars => IInv'
  BY StepIInv
<1> QED BY <1>1, <1>2, PTL DEF Spec

\* Type correctness; no more results are read than there are.
THEOREM TypeCorrect == Spec => []TypeOK
<1>1. IInv => TypeOK
  BY DEF IInv
<1> QED BY <1>1, Inductive, PTL

\* No deadline of a target ends StartWithCache, however it falls together with an
\* answer or with the end of the agent.
THEOREM NoError == Spec => []NoTargetEndsLoop
<1>1. IInv => NoTargetEndsLoop
  BY DEF IInv, ErrorsAreCancels, NoTargetEndsLoop
<1> QED BY <1>1, Inductive, PTL

\* An update is applied if, and only if, the round agreed on it, in whatever order
\* the answers came: any number of targets, any manifests.
THEOREM Agreement == Spec => UpdateIffAgreed
<1> DEFINE Agrees ==
      loop = "round" /\ loop' \in {"wait", "update"} =>
        /\ AllSent
        /\ loop' = "update" <=> \E m \in Manifests : Offered(Len(results)) = {m}
        /\ loop' = "update" =>
             \E i \in DOMAIN results :
               /\ Offered(Len(results)) = {todo'.manifest}
               /\ results[i].target = todo'.from /\ results[i].manifest = todo'.manifest
<1>1. IInv /\ Next => Agrees
  <2> SUFFICES ASSUME IInv, Next, loop = "round", loop' \in {"wait", "update"} PROVE Agrees
    OBVIOUS
  <2>1. Decide
    BY DEF Next, Round, Send, StartRound, SeeCancel, Cancel, Accepted, Rejected, Fails, Return,
           Deadline, Report, ReadResult, Applied, Die, Reborn, loopVars
  <2>2. AllSent /\ read = Len(results) /\ PlanIsExact /\ RoundOK
    BY <2>1, TypeParts DEF Decide, IInv
  <2>3. CASE plan.manifest # None /\ ~plan.conflict
    <3>1. loop' = "update" /\ todo'.manifest = plan.manifest /\ todo'.from = plan.from
      BY <2>1, <2>3 DEF Decide
    <3>2. Offered(Len(results)) = {plan.manifest} /\ plan.manifest \in Manifests
      BY <2>2, <2>3 DEF PlanIsExact, Offered
    <3>3. \E i \in DOMAIN results :
            results[i].target = plan.from /\ results[i].manifest = plan.manifest
      BY <2>2, <2>3 DEF PlanIsExact, RoundOK
    <3> QED BY <2>2, <3>1, <3>2, <3>3
  <2>4. CASE plan.manifest = None \/ plan.conflict
    <3>1. loop' = "wait"
      BY <2>1, <2>4 DEF Decide
    <3>2. \A m \in Manifests : Offered(Len(results)) # {m}
      BY <2>2, <2>4 DEF PlanIsExact
    <3> QED BY <2>2, <3>1, <3>2
  <2> QED BY <2>3, <2>4
<1>2. IInv /\ [Next]_vars => [Agrees]_vars
  BY <1>1
<1> QED BY <1>2, Inductive, PTL DEF Spec, UpdateIffAgreed
-----------------------------------------------------------------------------
(* ReportLoop *)

\* Building reports, keeping them and showing them takes only steps of the loop.
LEMMA LoopStep == [NextLoop]_reportLoopVars => [Next]_vars
<1> SUFFICES ASSUME [NextLoop]_reportLoopVars PROVE [Next]_vars
  OBVIOUS
<1>1. CASE SendRound
  BY <1>1 DEF SendRound, Next, Round
<1>2. ASSUME NEW t \in Targets, Takes(t) \/ Reports(t) PROVE [Next]_vars
  BY <1>2 DEF Takes, Reports, Next, Round, Send
<1>3. CASE OtherRoundSteps
  BY <1>3 DEF OtherRoundSteps, Next, Round, Send
<1>4. CASE EndRound
  BY <1>4 DEF EndRound, Next, Round
<1>5. CASE Ends \/ Begins
  BY <1>5 DEF Ends, Begins, Next
<1>6. CASE BuildReport \/ PageLooks \/ PageStamps \/ Samples \/ UNCHANGED reportLoopVars
  BY <1>6 DEF BuildReport, PageLooks, PageStamps, Samples, reportLoopVars
<1> QED BY <1>1, <1>2, <1>3, <1>4, <1>5, <1>6 DEF NextLoop

\* A node with a sampler, a debug page and processes that end and begin implements
\* the loop: no deadline ends it, and updates are agreed on.
THEOREM LoopIsPushRound == SpecLoop => Spec
<1>1. InitLoop => Init
  BY DEF InitLoop
<1> QED BY <1>1, LoopStep, PTL DEF SpecLoop, Spec

Pairs == [metrics : Nat, stamp : Nat]

Numbers ==
  /\ samples \in Nat /\ latest \in Nat /\ latest <= samples
  /\ draft \in [Builders -> Nat] /\ \A b \in Builders : draft[b] <= latest
  /\ acked \in [Targets -> Pairs] /\ report \in Pairs /\ cached \in Pairs
  /\ oks \subseteq Targets

\* A sample that can be seen is no older than what the servers took.
AckedOld ==
  \A t \in Targets :
    /\ acked[t].metrics <= acked[t].stamp /\ acked[t].stamp <= samples
    /\ latest # 0 => acked[t].stamp <= latest

\* A report that is built is no older either; nothing is sent meanwhile.
DraftAhead ==
  draft[Agent] # 0 => loop = "wait" /\ \A t \in Targets : acked[t].metrics <= draft[Agent]

\* Nor is one that is sent, and it is what those took whose result is ok.
ReportAhead ==
  loop \in {"round", "update"} =>
    /\ report.metrics <= report.stamp /\ report.stamp <= latest /\ latest # 0
    /\ \A t \in Targets :
         acked[t].metrics <= report.metrics /\ acked[t].stamp <= report.stamp
    /\ \A t \in oks : acked[t] = report

SendersInRound == \A t \in Targets : at[t] # "done" => loop = "round"

\* The inductive invariant of the composition.
LoopInv ==
  Numbers /\ AckedOld /\ DraftAhead /\ ReportAhead /\ SendersInRound /\ PageShowsPushed

LEMMA LoopInit == InitLoop => LoopInv
<1> SUFFICES ASSUME InitLoop PROVE LoopInv
  OBVIOUS
<1> USE DEF InitLoop, InitSampling, NewSampler, NoDraft, NoReport
<1>1. loop = "wait" /\ \A t \in Targets : at[t] = "done"
  BY DEF Init, Fresh
<1>2. Numbers
  BY DEF Numbers, Pairs
<1>3. AckedOld /\ DraftAhead /\ ReportAhead /\ SendersInRound
  BY <1>1, LoopAssumption DEF AckedOld, DraftAhead, ReportAhead, SendersInRound
<1>4. PageShowsPushed
  BY DEF PageShowsPushed
<1> QED BY <1>2, <1>3, <1>4 DEF LoopInv

\* Only goroutines of a round are at work, whatever step is taken.
LEMMA SendersStep == IInv /\ SendersInRound /\ [Next]_vars => SendersInRound'
<1> SUFFICES ASSUME IInv, SendersInRound, [Next]_vars PROVE SendersInRound'
  OBVIOUS
<1> USE DEF SendersInRound, RoundOK, IInv
<1>1. ASSUME NEW t \in Targets, Send(t) PROVE SendersInRound'
  BY <1>1, TypeParts DEF Send, Accepted, Rejected, Fails, Return, Deadline, Report, loopVars
<1>2. CASE StartRound
  BY <1>2 DEF StartRound
<1>3. CASE SeeCancel \/ Cancel
  BY <1>3 DEF SeeCancel, Cancel, roundVars
<1>4. CASE ReadResult
  BY <1>4 DEF ReadResult, AllSent
<1>5. CASE Decide
  BY <1>5 DEF Decide, AllSent, RoundOver, roundVars
<1>6. CASE Die \/ (\E r \in BOOLEAN : Applied(r)) \/ (\E v \in Versions : Reborn(v))
  BY <1>6 DEF Die, Applied, Reborn, RoundOver
<1>7. CASE UNCHANGED vars
  BY <1>7 DEF vars, loopVars, roundVars
<1> QED BY <1>1, <1>2, <1>3, <1>4, <1>5, <1>6, <1>7 DEF Next, Round

-----------------------------------------------------------------------------
(* its steps *)

LEMMA SendRoundKeeps ==
  LoopInv /\ SendRound =>
    Numbers' /\ AckedOld' /\ DraftAhead' /\ ReportAhead' /\ PageShowsPushed'
<1> SUFFICES ASSUME LoopInv, SendRound
             PROVE  Numbers' /\ AckedOld' /\ DraftAhead' /\ ReportAhead' /\ PageShowsPushed'
  OBVIOUS
<1>1. Agent \in Builders
  BY LoopAssumption
<1>2. /\ draft[Agent] # 0 /\ draft' = [draft EXCEPT ![Agent] = 0]
      /\ report' = [metrics |-> draft[Agent], stamp |-> latest] /\ oks' = {}
      /\ UNCHANGED <<samples, latest, cached, acked>>
  BY DEF SendRound, GetTime, Built
<1>3. Numbers'
  BY <1>1, <1>2 DEF LoopInv, Numbers, Pairs
<1>4. AckedOld' /\ PageShowsPushed'
  BY <1>2 DEF LoopInv, AckedOld, PageShowsPushed
<1>5. DraftAhead'
  BY <1>1, <1>2 DEF DraftAhead, LoopInv, Numbers
<1>6. ReportAhead'
  <2>1. draft[Agent] <= latest /\ latest # 0
    BY <1>1, <1>2 DEF LoopInv, Numbers
  <2>2. \A t \in Targets : acked[t].metrics <= draft[Agent] /\ acked[t].stamp <= latest
    BY <1>2, <2>1 DEF LoopInv, DraftAhead, AckedOld
  <2>3. report'.metrics = draft[Agent] /\ report'.stamp = latest
    BY <1>2
  <2>4. \A t \in Targets : acked'[t].metrics <= report'.metrics /\ acked'[t].stamp <= report'.stamp
    BY <1>2, <2>2, <2>3
  <2>5. report'.metrics <= report'.stamp /\ report'.stamp <= latest' /\ latest' # 0
    BY <1>2, <2>1, <2>3 DEF LoopInv, Numbers
  <2>6. \A t \in oks' : acked'[t] = report'
    BY <1>2
  <2> QED BY <2>4, <2>5, <2>6 DEF ReportAhead
<1> QED BY <1>3, <1>4, <1>5, <1>6

\* A server takes the report of the round.
LEMMA TakesKeeps ==
  ASSUME LoopInv, IInv, NEW t \in Targets, Takes(t)
  PROVE  /\ Numbers' /\ AckedOld' /\ DraftAhead' /\ ReportAhead' /\ PageShowsPushed'
         /\ \A u \in Targets : /\ acked'[u].metrics >= acked[u].metrics
                               /\ acked'[u].stamp >= acked[u].stamp
                               /\ acked'[u].stamp >= acked'[u].metrics
<1>1. /\ acked' = [acked EXCEPT ![t] = report] /\ oks' = oks \cup {t}
      /\ UNCHANGED <<samples, latest, draft, report, cached, loop>> /\ at[t] = "send"
  BY DEF Takes, Accepted, Return, samplerVars, reportVars, loopVars
<1>2. /\ loop = "round" /\ report.metrics <= report.stamp /\ report.stamp <= latest /\ latest # 0
      /\ \A u \in Targets :
           acked[u].metrics <= report.metrics /\ acked[u].stamp <= report.stamp
      /\ \A u \in oks : acked[u] = report
  BY <1>1 DEF LoopInv, SendersInRound, ReportAhead
<1>3. /\ report \in Pairs /\ acked \in [Targets -> Pairs] /\ oks \subseteq Targets
      /\ latest \in Nat /\ samples \in Nat /\ latest <= samples
  BY DEF LoopInv, Numbers
<1>4. /\ acked'[t] = report
      /\ \A u \in Targets : u # t => acked'[u] = acked[u]
  BY <1>1, <1>3
<1>5. /\ \A u \in Targets : acked[u].metrics \in Nat /\ acked[u].stamp \in Nat
      /\ report.metrics \in Nat /\ report.stamp \in Nat
  BY <1>3 DEF Pairs
<1>6. Numbers'
  BY <1>1, <1>3 DEF LoopInv, Numbers
<1>7. \A u \in Targets : /\ acked'[u].metrics >= acked[u].metrics
                         /\ acked'[u].stamp >= acked[u].stamp
                         /\ acked'[u].stamp >= acked'[u].metrics
  BY <1>2, <1>4, <1>5 DEF LoopInv, AckedOld
<1>8. AckedOld'
  BY <1>1, <1>2, <1>3, <1>4, <1>5 DEF LoopInv, AckedOld
<1>9. DraftAhead' /\ ReportAhead'
  BY <1>1, <1>2, <1>3, <1>4, <1>5 DEF LoopInv, DraftAhead, ReportAhead
<1>10. PageShowsPushed'
  <2>1. SUFFICES ASSUME cached # NoReport PROVE PageShowsPushed'
    BY <1>1 DEF PageShowsPushed
  <2>2. PICK u \in Targets : acked[u].metrics >= cached.metrics /\ acked[u].stamp >= cached.stamp
    BY <2>1 DEF LoopInv, PageShowsPushed
  <2>3. cached.metrics \in Nat /\ cached.stamp \in Nat
    BY DEF LoopInv, Numbers, Pairs
  <2>4. acked'[u].metrics \in Nat /\ acked'[u].stamp \in Nat
    BY <1>4, <1>5
  <2>5. acked'[u].metrics >= cached.metrics /\ acked'[u].stamp >= cached.stamp
    BY <1>5, <1>7, <2>2, <2>3, <2>4
  <2> QED BY <1>1, <2>5 DEF PageShowsPushed
<1> QED BY <1>6, <1>7, <1>8, <1>9, <1>10

\* What neither the servers nor the loop see.
LEMMA SamplerKeeps ==
  ASSUME LoopInv, BuildReport \/ PageLooks \/ PageStamps \/ Samples
  PROVE  Numbers' /\ AckedOld' /\ DraftAhead' /\ ReportAhead' /\ PageShowsPushed'
<1> USE LoopAssumption
<1>1. UNCHANGED <<loop, report, oks, cached, acked>>
  BY DEF BuildReport, PageLooks, PageStamps, Samples, vars, loopVars, agentVars
<1>2. PageShowsPushed'
  BY <1>1 DEF LoopInv, PageShowsPushed
<1>3. CASE BuildReport
  <2>1. /\ latest # 0 /\ draft' = [draft EXCEPT ![Agent] = latest] /\ loop = "wait"
        /\ UNCHANGED <<samples, latest>>
    BY <1>3 DEF BuildReport, GetSnapshot
  <2>2. Numbers' /\ AckedOld' /\ ReportAhead'
    BY <1>1, <2>1 DEF LoopInv, Numbers, AckedOld, ReportAhead
  <2>3. \A t \in Targets : acked[t].metrics <= latest
    BY <2>1 DEF LoopInv, AckedOld, Numbers, Pairs
  <2>4. draft'[Agent] = latest
    BY <2>1 DEF LoopInv, Numbers
  <2>5. DraftAhead'
    BY <1>1, <2>1, <2>3, <2>4 DEF DraftAhead
  <2> QED BY <1>2, <2>2, <2>5
<1>4. CASE PageLooks \/ PageStamps
  <2>1. PICK x \in {0, latest} : draft' = [draft EXCEPT ![Page] = x] /\ UNCHANGED <<samples, latest>>
    BY <1>4 DEF PageLooks, PageStamps, GetSnapshot, GetTime
  <2>2. Numbers' /\ AckedOld' /\ ReportAhead'
    BY <1>1, <2>1 DEF LoopInv, Numbers, AckedOld, ReportAhead
  <2>3. draft'[Agent] = draft[Agent]
    BY <2>1 DEF LoopInv, Numbers
  <2>4. DraftAhead'
    BY <1>1, <2>3 DEF LoopInv, DraftAhead
  <2> QED BY <1>2, <2>2, <2>4
<1>5. CASE Samples
  <2>1. /\ UNCHANGED draft
        /\ \/ samples' = samples + 1 /\ UNCHANGED latest
           \/ latest' = samples /\ UNCHANGED samples
           \/ UNCHANGED <<samples, latest>>
    BY <1>5 DEF Samples, Sample, Publish, HostIO, Traffic, Reset, reportVars
  <2>2. samples' \in Nat /\ latest' \in Nat /\ latest <= latest' /\ latest' <= samples' /\ samples <= samples'
    BY <2>1 DEF LoopInv, Numbers
  <2>3. Numbers'
    BY <1>1, <2>1, <2>2 DEF LoopInv, Numbers
  <2>4. AckedOld'
    <3>1. \A t \in Targets : acked[t].stamp <= samples /\ acked[t].stamp \in Nat
      BY DEF LoopInv, AckedOld, Numbers, Pairs
    <3>2. \A t \in Targets : latest' # 0 => acked[t].stamp <= latest'
      BY <2>1, <3>1 DEF LoopInv, AckedOld
    <3>3. \A t \in Targets : acked[t].stamp <= samples'
      BY <2>2, <3>1 DEF LoopInv, Numbers
    <3> QED BY <1>1, <3>2, <3>3 DEF LoopInv, AckedOld
  <2>5. DraftAhead'
    BY <1>1, <2>1 DEF LoopInv, DraftAhead
  <2>6. ReportAhead'
    <3>1. report.stamp \in Nat /\ latest \in Nat
      BY DEF LoopInv, Numbers, Pairs
    <3> QED BY <1>1, <2>2, <3>1 DEF LoopInv, ReportAhead
  <2> QED BY <1>2, <2>3, <2>4, <2>5, <2>6
<1> QED BY <1>3, <1>4, <1>5

LEMMA RoundKeeps ==
  ASSUME LoopInv, OtherRoundSteps \/ (\E t \in Targets : Reports(t)) \/ UNCHANGED reportLoopVars
  PROVE  Numbers' /\ AckedOld' /\ DraftAhead' /\ ReportAhead' /\ PageShowsPushed'
<1>1. UNCHANGED <<samples, latest, draft, report, cached, acked>> /\ oks' \subseteq oks
  BY DEF OtherRoundSteps, Reports, reportLoopVars, samplerVars, agentVars, reportVars
<1>2. loop' = loop \/ (loop' = "ended" /\ (loop = "round" \/ draft[Agent] = 0))
  BY DEF OtherRoundSteps, Reports, reportLoopVars, vars, loopVars, SeeCancel, Cancel, ReadResult,
         Rejected, Fails, Return, Deadline, Report
<1>3. Numbers' /\ AckedOld' /\ PageShowsPushed'
  BY <1>1 DEF LoopInv, Numbers, AckedOld, PageShowsPushed
<1>4. DraftAhead'
  BY <1>1, <1>2 DEF LoopInv, DraftAhead
<1>5. ReportAhead'
  BY <1>1, <1>2 DEF LoopInv, ReportAhead
<1> QED BY <1>3, <1>4, <1>5

\* The cache takes what a server took.
LEMMA EndRoundKeeps ==
  ASSUME LoopInv, EndRound
  PROVE  Numbers' /\ AckedOld' /\ DraftAhead' /\ ReportAhead' /\ PageShowsPushed'
<1>1. /\ UNCHANGED <<samples, latest, draft, acked>> /\ cached' \in {cached, Cached}
      /\ loop \in {"round", "update"}
      /\ \/ loop' = "update" /\ UNCHANGED <<report, oks>>
         \/ loop' \in {"wait", "ended"} /\ report' = NoReport /\ oks' = {}
  BY DEF EndRound, Decide, Applied, samplerVars, reportVars
<1>2. NoReport \in Pairs
  BY DEF NoReport, Pairs
<1>3. Numbers'
  BY <1>1, <1>2 DEF LoopInv, Numbers, Cached
<1>4. AckedOld'
  BY <1>1 DEF LoopInv, AckedOld
<1>5. DraftAhead' /\ ReportAhead'
  BY <1>1 DEF LoopInv, DraftAhead, ReportAhead
<1>6. PageShowsPushed'
  <2>1. CASE cached' = cached
    BY <1>1, <2>1 DEF LoopInv, PageShowsPushed
  <2>2. CASE cached' = report /\ oks # {}
    <3>1. PICK t \in oks : t \in Targets /\ acked[t] = report
      BY <1>1, <2>2 DEF LoopInv, Numbers, ReportAhead
    <3>2. report.metrics \in Nat /\ report.stamp \in Nat
      BY DEF LoopInv, Numbers, Pairs
    <3> QED BY <1>1, <2>2, <3>1, <3>2 DEF PageShowsPushed
  <2> QED BY <1>1, <2>1, <2>2 DEF Cached
<1> QED BY <1>3, <1>4, <1>5, <1>6

\* A new process knows nothing, and the servers keep what they have.
LEMMA ProcessKeeps ==
  ASSUME LoopInv, Ends \/ Begins
  PROVE  Numbers' /\ AckedOld' /\ DraftAhead' /\ ReportAhead' /\ PageShowsPushed'
<1>1. /\ samples' = samples /\ latest' = 0 /\ draft' = [b \in Builders |-> 0]
      /\ report' = NoReport /\ oks' = {} /\ cached' = NoReport /\ acked' = acked
      /\ loop' \in {"wait", "ended"}
  BY DEF Ends, Begins, SamplerEnds, NoDraft, Die, Reborn
<1>2. NoReport \in Pairs
  BY DEF NoReport, Pairs
<1>3. Numbers'
  BY <1>1, <1>2 DEF LoopInv, Numbers
<1>4. AckedOld' /\ ReportAhead' /\ PageShowsPushed'
  BY <1>1 DEF LoopInv, AckedOld, ReportAhead, PageShowsPushed
<1>5. draft'[Agent] = 0
  BY <1>1, LoopAssumption
<1> QED BY <1>3, <1>4, <1>5 DEF DraftAhead

-----------------------------------------------------------------------------

LEMMA LoopInvStep == IInv /\ LoopInv /\ [NextLoop]_reportLoopVars => LoopInv'
<1> SUFFICES ASSUME IInv, LoopInv, [NextLoop]_reportLoopVars PROVE LoopInv'
  OBVIOUS
<1>1. SendersInRound'
  BY LoopStep, SendersStep DEF LoopInv
<1>2. Numbers' /\ AckedOld' /\ DraftAhead' /\ ReportAhead' /\ PageShowsPushed'
  BY SendRoundKeeps, TakesKeeps, SamplerKeeps, RoundKeeps, EndRoundKeeps, ProcessKeeps DEF NextLoop
<1> QED BY <1>1, <1>2 DEF LoopInv

LEMMA LoopInvariance == SpecLoop => []LoopInv
<1>1. SpecLoop => []IInv
  BY LoopIsPushRound, Inductive, PTL
<1> QED BY <1>1, LoopInit, LoopInvStep, PTL DEF SpecLoop

\* For any targets, builders and devices, through failing rounds, deadlines, updates
\* and restarts: no server is sent an older sample than it has, nor one that says it
\* is older than it is.
THEOREM ReportsAdvance == SpecLoop => ServersAdvance
<1> DEFINE Advances ==
      \A t \in Targets : /\ acked'[t].metrics >= acked[t].metrics
                         /\ acked'[t].stamp >= acked[t].stamp
                         /\ acked'[t].stamp >= acked'[t].metrics
<1>1. ASSUME IInv, LoopInv, [NextLoop]_reportLoopVars PROVE Advances
  <2>1. CASE \E t \in Targets : Takes(t)
    BY <1>1, <2>1, TakesKeeps
  <2>2. CASE UNCHANGED acked
    <3>1. \A t \in Targets : /\ acked[t].metrics \in Nat /\ acked[t].stamp \in Nat
                             /\ acked[t].metrics <= acked[t].stamp
      BY <1>1 DEF LoopInv, Numbers, AckedOld, Pairs
    <3> QED BY <2>2, <3>1
  <2>3. (\E t \in Targets : Takes(t)) \/ UNCHANGED acked
    BY <1>1 DEF NextLoop, BuildReport, SendRound, Reports, OtherRoundSteps, EndRound, PageLooks,
                PageStamps, Samples, Ends, Begins, SamplerEnds, reportLoopVars, agentVars
  <2> QED BY <2>1, <2>2, <2>3
<1>2. IInv /\ LoopInv /\ [NextLoop]_reportLoopVars => [Advances]_reportLoopVars
  BY <1>1
<1>3. SpecLoop => []IInv
  BY LoopIsPushRound, Inductive, PTL
<1> QED BY <1>2, <1>3, LoopInvariance, PTL DEF SpecLoop, ServersAdvance

\* What the debug page has in its cache, a server took, or something later.
THEOREM PageIsPushed == SpecLoop => []PageShowsPushed
<1>1. LoopInv => PageShowsPushed
  BY DEF LoopInv
<1> QED BY <1>1, LoopInvariance, PTL
=============================================================================
