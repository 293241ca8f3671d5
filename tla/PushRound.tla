------------------------------ MODULE PushRound ------------------------------
(***************************************************************************)
(* The report loop of a node (internal/push/push.go).  StartWithCache      *)
(* starts a round on every tick; sendRound sends one report to every       *)
(* target in a goroutine of its own under a deadline, waits for all of     *)
(* them and reads their results in the order in which they came; their     *)
(* manifests are put together in an updatePlan.                            *)
(*                                                                         *)
(* What a failed send leaves for the next successful one, and the wake-up  *)
(* it leads to, is in StaticSync; the choice of the transport is in        *)
(* RpcTransport.                                                           *)
(***************************************************************************)
EXTENDS Integers, Sequences

CONSTANTS Targets, None,
          Versions     \* that a node reports and a manifest names

\* The version a manifest names, and the one its binary reports when it runs.
Manifests == [version : Versions, reports : Versions]

ASSUME RoundAssumption == None \notin Manifests \cup Targets

VARIABLES
  version,    \* what the running node reports
  loop,       \* where StartWithCache is
  exit,       \* what it returned
  cancelled,  \* runCtx is done
  at,         \* where the goroutine of each target is
  callErr,    \* callCtx.Err() of each
  answer,     \* what sendTarget returned
  results,    \* the channel of results, as it was filled
  read,       \* how many of them are read
  plan,       \* updatePlan: the manifest, the target it came from, the conflict
  todo        \* the update being applied, and that target

roundVars == <<at, callErr, answer, results, read, plan>>
loopVars == <<version, loop, exit, cancelled, todo>>
vars == <<loopVars, roundVars>>

NoAnswer == [manifest |-> None, err |-> FALSE]
NoPlan == [manifest |-> None, from |-> None, conflict |-> FALSE]
NoUpdate == [manifest |-> None, from |-> None]

\* A new process that reports v.
Fresh(v) ==
  /\ version = v /\ loop = "wait" /\ exit = "none" /\ cancelled = FALSE
  /\ at = [t \in Targets |-> "done"] /\ callErr = [t \in Targets |-> "none"]
  /\ answer = [t \in Targets |-> NoAnswer]
  /\ results = <<>> /\ read = 0 /\ plan = NoPlan /\ todo = NoUpdate

\* The variables of sendRound go out of scope.
RoundOver ==
  /\ at' = [t \in Targets |-> "done"] /\ callErr' = [t \in Targets |-> "none"]
  /\ answer' = [t \in Targets |-> NoAnswer]
  /\ results' = <<>> /\ read' = 0 /\ plan' = NoPlan

Init == \E v \in Versions : Fresh(v)

-----------------------------------------------------------------------------
(* StartWithCache *)

\* The timer fires.  select may prefer it to a context that is done, and then
\* every callCtx is born with that error.
StartRound ==
  /\ loop = "wait" /\ Targets # {}
  /\ loop' = "round"
  /\ at' = [t \in Targets |-> "send"]
  /\ callErr' = [t \in Targets |-> IF cancelled THEN "cancelled" ELSE "none"]
  /\ answer' = [t \in Targets |-> NoAnswer]
  /\ results' = <<>> /\ read' = 0 /\ plan' = NoPlan
  /\ UNCHANGED <<version, exit, cancelled, todo>>

SeeCancel ==
  /\ loop = "wait" /\ cancelled
  /\ loop' = "ended" /\ exit' = "cancelled"
  /\ UNCHANGED <<version, cancelled, todo, roundVars>>

\* The caller of StartWithCache cancels: every context derived from it is done.
Cancel ==
  /\ ~cancelled /\ cancelled' = TRUE
  /\ callErr' = [t \in Targets |->
                   IF at[t] # "done" /\ callErr[t] = "none" THEN "cancelled" ELSE callErr[t]]
  /\ UNCHANGED <<version, loop, exit, todo, at, answer, results, read, plan>>

-----------------------------------------------------------------------------
(* the goroutine of a target *)

\* metricsTimeout, before or after sendTarget returned.
Deadline(t) ==
  /\ at[t] # "done" /\ callErr[t] = "none"
  /\ callErr' = [callErr EXCEPT ![t] = "deadline"]
  /\ UNCHANGED <<loopVars, at, answer, results, read, plan>>

Return(t, a) ==
  /\ at[t] = "send"
  /\ at' = [at EXCEPT ![t] = "back"]
  /\ answer' = [answer EXCEPT ![t] = a]
  /\ UNCHANGED <<loopVars, callErr, results, read, plan>>

\* The server takes the report; its answer may hold a manifest.
Accepted(t, m) == Return(t, [NoAnswer EXCEPT !.manifest = m])

\* Another status than 200.
Rejected(t) == Return(t, NoAnswer)

\* No transport, no answer or a failed call: an error of sendTarget only when
\* callCtx is done.
Fails(t) == Return(t, [NoAnswer EXCEPT !.err = callErr[t] # "none"])

TimedOut_Never(t) == FALSE
TimedOut(t) == ~cancelled /\ callErr[t] = "deadline"

\* The result of a target goes into the channel.  What came too late is no error;
\* its manifest stays.
Report(t) ==
  /\ at[t] = "back"
  /\ at' = [at EXCEPT ![t] = "done"]
  /\ results' = Append(results, [target |-> t, manifest |-> answer[t].manifest,
                                err |-> answer[t].err /\ ~TimedOut(t)])
  /\ answer' = [answer EXCEPT ![t] = NoAnswer] /\ callErr' = [callErr EXCEPT ![t] = "none"]
  /\ UNCHANGED <<loopVars, read, plan>>

-----------------------------------------------------------------------------
(* the results of a round *)

AllSent == \A t \in Targets : at[t] = "done"

Foreign_Any(m) == m # None
Foreign(m) == m # None /\ m.version # version

\* updatePlan.add
Add_LastWins(p, m, t) == IF Foreign(m) THEN [p EXCEPT !.manifest = m, !.from = t] ELSE p
Add(p, m, t) ==
  IF ~Foreign(m) THEN p
  ELSE IF p.manifest = None THEN [p EXCEPT !.manifest = m, !.from = t]
  ELSE [p EXCEPT !.conflict = @ \/ p.manifest # m]

\* An error ends the loop; whose it is depends on runCtx.
ReadResult ==
  /\ loop = "round" /\ AllSent /\ read < Len(results)
  /\ read' = read + 1
  /\ LET r == results[read'] IN
       IF r.err
       THEN /\ loop' = "ended" /\ exit' = IF cancelled THEN "cancelled" ELSE "error"
            /\ UNCHANGED plan
       ELSE /\ plan' = Add(plan, r.manifest, r.target)
            /\ UNCHANGED <<loop, exit>>
  /\ UNCHANGED <<version, cancelled, todo, at, callErr, answer, results>>

\* Every result is read.  A round that agrees on an update applies it.
Decide ==
  /\ loop = "round" /\ AllSent /\ read = Len(results)
  /\ IF plan.manifest # None /\ ~plan.conflict
     THEN /\ loop' = "update" /\ todo' = [manifest |-> plan.manifest, from |-> plan.from]
          /\ UNCHANGED roundVars
     ELSE loop' = "wait" /\ RoundOver /\ UNCHANGED todo
  /\ UNCHANGED <<version, exit, cancelled>>

\* applyUpdate returns: ErrRestart ends the loop, anything else is logged.
Applied(restart) ==
  /\ loop = "update"
  /\ todo' = NoUpdate /\ RoundOver
  /\ IF restart THEN loop' = "ended" /\ exit' = "restart"
     ELSE loop' = "wait" /\ UNCHANGED exit
  /\ UNCHANGED <<version, cancelled>>

-----------------------------------------------------------------------------
(* processes *)

\* The host or the node crashes.
Die ==
  /\ loop' = "ended" /\ exit' = "crash" /\ cancelled' = FALSE
  /\ todo' = NoUpdate /\ RoundOver
  /\ UNCHANGED version

\* The next process reports v.
Reborn(v) ==
  /\ loop = "ended"
  /\ version' = v /\ loop' = "wait" /\ exit' = "none" /\ cancelled' = FALSE
  /\ todo' = NoUpdate /\ RoundOver

Send(t) ==
  \/ (\E m \in Manifests \cup {None} : Accepted(t, m))
  \/ Rejected(t) \/ Fails(t) \/ Deadline(t) \/ Report(t)

Round ==
  \/ StartRound \/ SeeCancel \/ Cancel
  \/ (\E t \in Targets : Send(t))
  \/ ReadResult \/ Decide

Next ==
  \/ Round \/ (\E restart \in BOOLEAN : Applied(restart))
  \/ Die \/ \E v \in Versions : Reborn(v)

Spec == Init /\ [][Next]_vars

-----------------------------------------------------------------------------
(* Properties *)

Offers == Manifests \cup {None}
Answers == [manifest : Offers, err : BOOLEAN]
Results == [target : Targets, manifest : Offers, err : BOOLEAN]
Plans == [manifest : Offers, from : Targets \cup {None}, conflict : BOOLEAN]
Updates == [manifest : Offers, from : Targets \cup {None}]

TypeOK ==
  /\ version \in Versions /\ loop \in {"wait", "round", "update", "ended"}
  /\ exit \in {"none", "cancelled", "error", "restart", "crash"}
  /\ cancelled \in BOOLEAN
  /\ at \in [Targets -> {"send", "back", "done"}]
  /\ callErr \in [Targets -> {"none", "deadline", "cancelled"}]
  /\ answer \in [Targets -> Answers]
  /\ results \in Seq(Results) /\ read \in 0..Len(results)
  /\ plan \in Plans /\ todo \in Updates

\* An error of sendTarget is the end of the agent, or a deadline that Report forgives,
\* and no manifest comes with it.
ErrorsAreCancels ==
  /\ \A t \in Targets :
       /\ callErr[t] = "cancelled" => cancelled
       /\ answer[t].err => callErr[t] # "none" /\ answer[t].manifest = None
  /\ \A i \in DOMAIN results :
       results[i].err => cancelled /\ results[i].manifest = None
  /\ exit # "error"

\* The manifests among the first n results that are for another version.
Offered(n) == {m \in Manifests : Foreign(m) /\ \E i \in 1..n : results[i].manifest = m}

\* The plan of the results that are read.
PlanIsExact ==
  /\ plan.manifest = None => Offered(read) = {} /\ ~plan.conflict
  /\ plan.manifest # None =>
       /\ plan.manifest \in Offered(read)
       /\ \E i \in 1..read : results[i].target = plan.from /\ results[i].manifest = plan.manifest
  /\ plan.conflict <=> \E m \in Offered(read) : m # plan.manifest

\* The inductive invariant: errors come from a cancelled agent only, and the plan
\* says what the results say, up to where they are read.
IInv == TypeOK /\ ErrorsAreCancels /\ PlanIsExact

\* A round applies an update if, and only if, every target has answered or failed
\* and all manifests for another version than the running one are the same, in
\* whatever order they came, late ones too; the key it is fetched with is that of a
\* target that offered it.
UpdateIffAgreed ==
  [][loop = "round" /\ loop' \in {"wait", "update"} =>
       /\ AllSent
       /\ loop' = "update" <=> \E m \in Manifests : Offered(Len(results)) = {m}
       /\ loop' = "update" =>
            \E i \in DOMAIN results :
              /\ Offered(Len(results)) = {todo'.manifest}
              /\ results[i].target = todo'.from /\ results[i].manifest = todo'.manifest]_vars

\* No deadline of a target, however it falls together with an answer or with the
\* end of the agent, ends the loop: it ends when it is told to or restarts.
NoTargetEndsLoop == exit # "error"
=============================================================================
