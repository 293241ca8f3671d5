---------------------------- MODULE QuerySession ----------------------------
(***************************************************************************)
(* The query session of one report target (internal/push/session.go): the  *)
(* supervisor startSessions, the select loop of querySession that owns     *)
(* pending, the reader and the writer of the stream, and one goroutine per *)
(* admitted query.  The dashboard sends whatever it likes.                 *)
(*                                                                         *)
(* The channel completed holds the jobs whose state is "completed"; in     *)
(* which order the loop takes them is left open.  silence counts the       *)
(* heartbeats since lastSeen.  owed[i] is the dashboard's own count:   *)
(* the queries it sent on this stream under id i and got no answer for.    *)
(***************************************************************************)
EXTENDS Integers, FiniteSets, Sequences, SequencesExt

CONSTANTS Ids,           \* query ids
          Jobs,          \* goroutines executing queries
          None,          \* nil
          MaxPending,    \* 32
          CompletedCap,  \* 32: cap(completed)
          OutCap,        \* 64: cap(outgoing)
          FailCap,       \* 2: cap(failures)
          MaxSilence,    \* 3: a 60 s silence in heartbeats of 20 s
          MaxDelay,      \* 60 s of backoff, in seconds
          Versions,      \* capabilities a helper can report
          Down           \* no helper answers

ASSUME SessionAssumption ==
  /\ IsFiniteSet(Ids) /\ IsFiniteSet(Jobs)
  /\ None \notin Jobs /\ Down \notin Versions
  /\ MaxPending \in Nat /\ CompletedCap \in Nat /\ MaxPending <= CompletedCap
  /\ OutCap \in Nat /\ FailCap \in Nat /\ FailCap >= 2
  /\ MaxSilence \in Nat /\ MaxDelay \in Nat /\ MaxDelay > 0

VARIABLES
  loop,       \* where startSessions / querySession is
  exit,       \* the error querySession is about to return
  delay,      \* the supervisor's backoff
  stopping,   \* the parent context is cancelled
  helper,     \* what helper.Capabilities would answer
  caps,       \* the capabilities this session advertised
  reader,     \* the goroutine around stream.Recv
  incoming,   \* chan, capacity 1
  writer,     \* the goroutine around stream.Send
  outgoing,   \* chan, capacity OutCap
  failures,   \* chan, capacity FailCap
  pending,    \* the job whose context each pending id can stop, or None
  job,        \* the goroutine of each query: state, id, context done
  silence,    \* time since lastSeen
  owed        \* the dashboard's unanswered queries

streamVars == <<reader, incoming, writer, outgoing, failures>>
queryVars  == <<pending, job>>
supVars    == <<exit, delay, stopping, helper, caps>>
vars == <<loop, supVars, streamVars, queryVars, silence, owed>>

Beat == [kind |-> "beat", id |-> None]
Other == [kind |-> "other", id |-> None]   \* a heartbeat or an empty message
Bad == [kind |-> "bad", id |-> None]       \* a query that does not validate
Query(i) == [kind |-> "query", id |-> i]
Cancel(i) == [kind |-> "cancel", id |-> i]
Answer(i) == [kind |-> "answer", id |-> i]

FromDash == {Other, Bad} \cup {Query(i) : i \in Ids} \cup {Cancel(i) : i \in Ids}
ToDash == {Beat} \cup {Answer(i) : i \in Ids}

Errors == {"error", "rejected"}   \* rejected: Unauthenticated, PermissionDenied
Free == [at |-> "free", id |-> None, done |-> FALSE]
Gone == [at |-> "off", msg |-> Other]

Up == loop = "select"

Done_ParentOnly == stopping

\* ctx.Done() of the session: its parent's, or its own once the loop returned.
Done == stopping \/ loop = "draining"

PendingIds == {i \in Ids : pending[i] # None}
Busy == {j \in Jobs : job[j].at # "free"}
Completed == {j \in Jobs : job[j].at = "completed"}

-----------------------------------------------------------------------------
Init ==
  /\ loop = "closed" /\ exit = "none" /\ delay = 1 /\ stopping = FALSE
  /\ helper \in Versions \cup {Down} /\ caps = Down
  /\ reader = Gone /\ writer = Gone
  /\ incoming = <<>> /\ outgoing = <<>> /\ failures = <<>>
  /\ pending = [i \in Ids |-> None] /\ job = [j \in Jobs |-> Free]
  /\ silence = 0
  /\ owed = [i \in Ids |-> 0]

-----------------------------------------------------------------------------
(* startSessions *)

\* The stream is up and the capabilities are sent; a helper that does not
\* answer leaves them empty.
Connect ==
  /\ loop = "closed" /\ ~stopping
  /\ loop' = "select"
  /\ caps' = helper
  /\ reader' = [Gone EXCEPT !.at = "recv"]
  /\ writer' = [Gone EXCEPT !.at = "idle"]
  /\ UNCHANGED <<exit, delay, stopping, helper, incoming, outgoing, failures,
                 queryVars, silence, owed>>

\* What the supervisor makes of the error e of a session.
Supervise(e) ==
  /\ exit' = "none"
  /\ IF e = "rejected" \/ stopping
     THEN loop' = "stopped" /\ UNCHANGED delay
     ELSE /\ loop' = "backoff"
          /\ delay' \in {delay, 1}      \* 1: the session lasted over a minute

\* rpcClient, Connect or the first Send fails.
ConnectFails ==
  /\ loop = "closed" /\ ~stopping
  /\ \E e \in Errors : Supervise(e)
  /\ UNCHANGED <<stopping, helper, caps, streamVars, queryVars, silence, owed>>

\* The target uses HTTP, or the parent context is done: no session any more.
NoSession ==
  /\ loop = "closed"
  /\ loop' = "stopped"
  /\ UNCHANGED <<supVars, streamVars, queryVars, silence, owed>>

\* The timer of the backoff, or the parent context.
Retry ==
  /\ loop = "backoff"
  /\ IF stopping
     THEN loop' = "stopped" /\ UNCHANGED delay
     ELSE loop' = "closed" /\ delay' = IF 2 * delay < MaxDelay THEN 2 * delay ELSE MaxDelay
  /\ UNCHANGED <<exit, stopping, helper, caps, streamVars, queryVars, silence, owed>>

\* The deferred function of querySession: ctx is cancelled already, every task
\* has ended, and the session's channels, timers and stream go away with it.
Drained ==
  /\ loop = "draining"
  /\ reader.at = "off" /\ writer.at = "off"
  /\ \A j \in Jobs : job[j].at \in {"free", "completed"}
  /\ Supervise(exit)
  /\ incoming' = <<>> /\ outgoing' = <<>> /\ failures' = <<>>
  /\ pending' = [i \in Ids |-> None] /\ job' = [j \in Jobs |-> Free]
  /\ silence' = 0
  /\ owed' = [i \in Ids |-> 0]
  /\ UNCHANGED <<stopping, helper, caps, reader, writer>>

-----------------------------------------------------------------------------
(* the select loop *)

\* The loop returns e and its deferred functions run.
End(e) == loop' = "draining" /\ exit' = e

Continue == UNCHANGED <<loop, exit>>

OutRoom == Len(outgoing) < OutCap

\* send: never blocks.  With ctx done either of its two cases may be chosen.
Send(m) ==
  \/ OutRoom /\ outgoing' = Append(outgoing, m) /\ Continue
  \/ Done /\ End("error") /\ UNCHANGED outgoing
  \/ ~OutRoom /\ ~Done /\ End("error") /\ UNCHANGED outgoing

\* case <-ctx.Done()
SeeDone ==
  /\ loop = "select" /\ stopping
  /\ End("error")
  /\ UNCHANGED <<delay, stopping, helper, caps, streamVars, queryVars, silence, owed>>

\* case err := <-failures
SeeFailure ==
  /\ loop = "select" /\ failures # <<>>
  /\ End(Head(failures))
  /\ failures' = Tail(failures)
  /\ UNCHANGED <<delay, stopping, helper, caps, reader, incoming, writer, outgoing,
                 queryVars, silence, owed>>

Forget_Nothing(i) == pending
Forget(i) == [pending EXCEPT ![i] = None]

\* case result := <-completed
Complete(j) ==
  /\ loop = "select" /\ job[j].at = "completed"
  /\ pending[job[j].id] # None          \* a nil function would be called
  /\ pending' = Forget(job[j].id)
  /\ job' = [job EXCEPT ![j] = Free]
  /\ Send(Answer(job[j].id))
  /\ UNCHANGED <<delay, stopping, helper, caps, reader, incoming, writer,
                 failures, silence, owed>>

\* case message := <-incoming
Message == Head(incoming)

Take ==
  /\ loop = "select" /\ incoming # <<>>
  /\ incoming' = Tail(incoming)
  /\ silence' = 0
  /\ UNCHANGED <<delay, stopping, helper, caps, reader, writer, failures, owed>>

\* A cancellation ends the context of the pending job with its id, if any.
TakeCancel ==
  /\ Take /\ Message.kind = "cancel"
  /\ IF pending[Message.id] = None THEN UNCHANGED job
     ELSE job' = [job EXCEPT ![pending[Message.id]].done = TRUE]
  /\ Continue /\ UNCHANGED <<pending, outgoing>>

TakeOther ==
  /\ Take /\ Message.kind = "other"
  /\ Continue /\ UNCHANGED <<queryVars, outgoing>>

Duplicate_Ignored(i) == FALSE

\* "if _, exists := pending[message.Id]; exists"
Duplicate(i) == pending[i] # None

\* An invalid query, or one whose id is pending, ends the session.
TakeBad ==
  /\ Take
  /\ Message.kind = "bad" \/ (Message.kind = "query" /\ Duplicate(Message.id))
  /\ End("error") /\ UNCHANGED <<queryVars, outgoing>>

Full_Working == Cardinality({j \in Jobs : job[j].at = "working"}) >= MaxPending

\* "len(pending) >= 32"
Full == Cardinality(PendingIds) >= MaxPending

TakeBusy ==
  /\ Take /\ Message.kind = "query" /\ ~Duplicate(Message.id)
  /\ Full
  /\ Send(Answer(Message.id))
  /\ UNCHANGED queryVars

\* The query is admitted: its goroutine starts.
Admit(j) ==
  /\ Take /\ Message.kind = "query" /\ ~Duplicate(Message.id)
  /\ ~Full
  /\ job[j].at = "free" /\ \A i \in Ids : pending[i] # j
  /\ pending' = [pending EXCEPT ![Message.id] = j]
  /\ job' = [job EXCEPT ![j] = [at |-> "working", id |-> Message.id, done |-> FALSE]]
  /\ Continue /\ UNCHANGED outgoing

\* "time.Since(lastSeen) > 60*time.Second", when the ticker of 20 s fires.
Silent == silence >= MaxSilence

\* The age of lastSeen at the next tick.  Beyond MaxSilence it does not matter.
Older == IF silence < MaxSilence THEN silence + 1 ELSE silence

\* case <-heartbeat.C
Heartbeat ==
  /\ loop = "select"
  /\ IF Silent THEN End("error") /\ UNCHANGED <<outgoing, silence>>
     ELSE Send(Beat) /\ silence' = Older
  /\ UNCHANGED <<delay, stopping, helper, caps, reader, incoming, writer,
                 failures, queryVars, owed>>

CapsChanged == helper # caps

\* case <-check.C: a helper that does not answer changes nothing; one that
\* answers otherwise than it did at the start ends the session.  Nobody can tell
\* a loop that waits for the answer from one that is not scheduled.
Check ==
  /\ loop = "select"
  /\ helper # Down /\ CapsChanged
  /\ End("error")
  /\ UNCHANGED <<delay, stopping, helper, caps, streamVars, queryVars, silence, owed>>

-----------------------------------------------------------------------------
(* the tasks *)

TaskFrame == UNCHANGED <<loop, supVars, silence>>

\* stream.Recv returns m.
Recv(m) ==
  /\ reader.at = "recv"
  /\ reader' = [at |-> "deliver", msg |-> m]
  /\ owed' = IF m.kind = "query" THEN [owed EXCEPT ![m.id] = @ + 1] ELSE owed
  /\ TaskFrame /\ UNCHANGED <<incoming, writer, outgoing, failures, queryVars>>

Deliver ==
  /\ reader.at = "deliver"
  /\ \/ incoming = <<>> /\ incoming' = <<reader.msg>> /\ reader' = [Gone EXCEPT !.at = "recv"]
     \/ Done /\ UNCHANGED incoming /\ reader' = Gone
  /\ TaskFrame /\ UNCHANGED <<writer, outgoing, failures, queryVars, owed>>

FailureRoom == Len(failures) < FailCap

\* stream.Recv fails; failures <- err is a step of its own.
RecvFails ==
  /\ reader.at = "recv"
  /\ reader' = [Gone EXCEPT !.at = "failed"]
  /\ TaskFrame /\ UNCHANGED <<incoming, writer, outgoing, failures, queryVars, owed>>

ReaderReports ==
  /\ reader.at = "failed" /\ FailureRoom
  /\ \E e \in Errors : failures' = Append(failures, e)
  /\ reader' = Gone
  /\ TaskFrame /\ UNCHANGED <<incoming, writer, outgoing, queryVars, owed>>

WriterTakes ==
  /\ writer.at = "idle"
  /\ \/ /\ outgoing # <<>>
        /\ writer' = [at |-> "sending", msg |-> Head(outgoing)]
        /\ outgoing' = Tail(outgoing)
     \/ Done /\ writer' = Gone /\ UNCHANGED outgoing
  /\ TaskFrame /\ UNCHANGED <<reader, incoming, failures, queryVars, owed>>

\* stream.Send returns: the dashboard has the message.
Sent ==
  /\ writer.at = "sending"
  /\ writer' = [Gone EXCEPT !.at = "idle"]
  /\ owed' = IF writer.msg.kind = "answer"
             THEN [owed EXCEPT ![writer.msg.id] = @ - 1] ELSE owed
  /\ TaskFrame /\ UNCHANGED <<reader, incoming, outgoing, failures, queryVars>>

SendFails ==
  /\ writer.at = "sending"
  /\ writer' = [Gone EXCEPT !.at = "failed"]
  /\ TaskFrame /\ UNCHANGED <<reader, incoming, outgoing, failures, queryVars, owed>>

WriterReports ==
  /\ writer.at = "failed" /\ FailureRoom
  /\ \E e \in Errors : failures' = Append(failures, e)
  /\ writer' = Gone
  /\ TaskFrame /\ UNCHANGED <<reader, incoming, outgoing, queryVars, owed>>

JobFrame == TaskFrame /\ UNCHANGED <<streamVars, pending, owed>>

\* historyResult returns: with the helper's answer, or because its context ended.
JobEnds(j) ==
  /\ job[j].at = "working"
  /\ job' = [job EXCEPT ![j].at = "reporting"]
  /\ JobFrame

JobReports(j) ==
  /\ job[j].at = "reporting"
  /\ \/ /\ Cardinality(Completed) < CompletedCap
        /\ job' = [job EXCEPT ![j].at = "completed"]
     \/ Done /\ job' = [job EXCEPT ![j] = Free]
  /\ JobFrame

Deadline_Never(j) == FALSE /\ UNCHANGED vars

\* The deadline of jobCtx.
Deadline(j) ==
  /\ job[j].at = "working" /\ ~job[j].done
  /\ job' = [job EXCEPT ![j].done = TRUE]
  /\ JobFrame

-----------------------------------------------------------------------------
(* the environment *)

EnvFrame == UNCHANGED <<loop, exit, delay, caps, streamVars, queryVars, silence, owed>>

\* The helper starts, stops or is upgraded.
HelperChanges ==
  /\ helper' \in (Versions \cup {Down}) \ {helper}
  /\ EnvFrame /\ UNCHANGED stopping

Stop ==
  /\ ~stopping /\ stopping' = TRUE
  /\ EnvFrame /\ UNCHANGED helper

Stopped == loop = "stopped" /\ stopping /\ UNCHANGED vars

-----------------------------------------------------------------------------
LoopStep ==
  \/ SeeDone \/ SeeFailure \/ (\E j \in Jobs : Complete(j) \/ Admit(j))
  \/ TakeCancel \/ TakeOther \/ TakeBad \/ TakeBusy
  \/ Heartbeat \/ Check

SupervisorStep == Connect \/ ConnectFails \/ NoSession \/ Retry \/ Drained

StreamStep ==
  \/ (\E m \in FromDash : Recv(m)) \/ Deliver \/ RecvFails \/ ReaderReports
  \/ WriterTakes \/ Sent \/ SendFails \/ WriterReports

JobStep(j) == JobEnds(j) \/ JobReports(j) \/ Deadline(j)

Next ==
  \/ SupervisorStep \/ LoopStep \/ StreamStep \/ (\E j \in Jobs : JobStep(j))
  \/ HelperChanges \/ Stop \/ Stopped

Spec == Init /\ [][Next]_vars

\* Runnable goroutines run, tickers and deadlines fire, and a cancelled context
\* ends Recv, Send and a query.  A ready case of the select stays ready until the
\* loop takes it, and Go picks among the ready ones at random.  The dashboard
\* need not send or read anything and pvesh need not answer.
Fairness ==
  /\ WF_vars(Connect \/ ConnectFails \/ NoSession) /\ WF_vars(Retry) /\ WF_vars(Drained)
  /\ WF_vars(SeeDone) /\ WF_vars(SeeFailure)
  /\ WF_vars(TakeCancel \/ TakeOther \/ TakeBad \/ TakeBusy \/ \E j \in Jobs : Admit(j))
  /\ WF_vars(Heartbeat) /\ WF_vars(Check)
  /\ \A j \in Jobs :
       /\ WF_vars(Complete(j)) /\ WF_vars(Deadline(j)) /\ WF_vars(JobReports(j))
       /\ WF_vars((Done \/ job[j].done) /\ JobEnds(j))
  /\ WF_vars(Deliver) /\ WF_vars(ReaderReports) /\ WF_vars(Done /\ RecvFails)
  /\ WF_vars(WriterTakes) /\ WF_vars(WriterReports) /\ WF_vars(Done /\ SendFails)

FairSpec == Spec /\ Fairness

-----------------------------------------------------------------------------
(* Properties *)

TypeOK ==
  /\ loop \in {"closed", "select", "draining", "backoff", "stopped"}
  /\ exit \in Errors \cup {"none"} /\ delay \in 1..MaxDelay
  /\ stopping \in BOOLEAN
  /\ helper \in Versions \cup {Down} /\ caps \in Versions \cup {Down}
  /\ reader \in [at : {"off", "recv", "deliver", "failed"}, msg : FromDash]
  /\ writer \in [at : {"off", "idle", "sending", "failed"}, msg : ToDash \cup {Other}]
  /\ incoming \in Seq(FromDash) /\ Len(incoming) <= 1
  /\ outgoing \in Seq(ToDash) /\ Len(outgoing) <= OutCap
  /\ failures \in Seq(Errors) /\ Len(failures) <= FailCap
  /\ pending \in [Ids -> Jobs \cup {None}]
  /\ job \in [Jobs -> [at : {"free", "working", "reporting", "completed"},
                       id : Ids \cup {None}, done : BOOLEAN]]
  /\ silence \in 0..MaxSilence
  /\ owed \in [Ids -> Int]

\* The stop function of a job is in pending, under the job's id, until the loop
\* has taken the job's result: pending[result.Id]() never calls nil, and a
\* cancellation reaches the query it names and no later one.
JobsArePending ==
  Up => \A j \in Busy : job[j].id \in Ids /\ pending[job[j].id] = j

\* No goroutine is left behind a loop that is slow or gone: a finished query
\* always finds room in completed, since no more than MaxPending of them exist,
\* and so do the last words of the reader and of the writer in failures.
ReportsNeverBlock ==
  /\ \A j \in Jobs : job[j].at = "reporting" => Cardinality(Completed) < CompletedCap
  /\ reader.at = "failed" \/ writer.at = "failed" => FailureRoom

\* Between sessions there is no goroutine of an old one, and none beyond
\* MaxPending at any time.
NoneLeft == loop \in {"closed", "backoff", "stopped"} => Busy = {}
WorkBounded == Cardinality(PendingIds) <= MaxPending /\ Cardinality(Busy) <= MaxPending

\* The inductive invariant of Spec.
IInv == TypeOK /\ JobsArePending /\ NoneLeft /\ WorkBounded

Count(b) == IF b THEN 1 ELSE 0

\* The answers to come for id i: its query is unread, admitted, or answered in
\* the send queue.
Due(i) ==
  Count(reader.at = "deliver" /\ reader.msg = Query(i))
  + Count(incoming = <<Query(i)>>)
  + Count(pending[i] # None)
  + Cardinality({n \in DOMAIN outgoing : outgoing[n] = Answer(i)})
  + Count(writer.at = "sending" /\ writer.msg = Answer(i))

\* Every answer that can still be sent is owed, also while the session ends.  As
\* long as the stream works each query the dashboard sent has exactly one answer
\* to come, whatever was cancelled, refused or repeated in between.
AnswersExact ==
  \A i \in Ids :
    /\ Due(i) <= owed[i]
    /\ Up /\ ~stopping /\ writer.at \in {"idle", "sending"} => owed[i] = Due(i)

\* The session as its dashboard sees it, until the last goroutine is gone.
Service == INSTANCE QueryService WITH open <- loop \in {"select", "draining"}, owed <- owed

\* Through its end a session answers nothing it was not asked: querySession
\* implements QueryService.
ImplementsService == Service!Spec

\* Whatever ends a session, its goroutines end too, and the supervisor goes on.
SessionDrains == loop = "draining" ~> loop # "draining"

\* An admitted query leaves pending, even if its helper never answers.
QueriesEnd == \A i \in Ids : pending[i] # None ~> pending[i] = None
=============================================================================
