------------------------- MODULE QuerySessionProofs -------------------------
(***************************************************************************)
(* Proofs about QuerySession, for any ids, goroutines and limits.          *)
(***************************************************************************)
EXTENDS QuerySession, FiniteSetTheorems, SequenceTheorems, TLAPS

-----------------------------------------------------------------------------
(* Cardinalities *)

\* A subset of a finite set is finite and no larger.
LEMMA Finite ==
  ASSUME NEW S, IsFiniteSet(S), NEW T \in SUBSET S
  PROVE  IsFiniteSet(T) /\ Cardinality(T) \in Nat /\ Cardinality(T) <= Cardinality(S)
BY FS_Subset, FS_CardinalityType

\* One more member.
LEMMA OneMore ==
  ASSUME NEW S, IsFiniteSet(S), NEW x, NEW n \in Nat, Cardinality(S) < n
  PROVE  Cardinality(S \cup {x}) <= n
<1>1. CASE x \in S
  <2>1. S \cup {x} = S
    BY <1>1
  <2>2. Cardinality(S \cup {x}) = Cardinality(S)
    BY <2>1
  <2> QED BY <2>2, FS_CardinalityType
<1>2. CASE x \notin S
  BY <1>2, FS_AddElement, FS_CardinalityType
<1> QED BY <1>1, <1>2

\* A map from a finite set of ids onto a set of goroutines bounds their number.
LEMMA Image ==
  ASSUME NEW K, NEW I, IsFiniteSet(I), NEW f \in [I -> K],
         NEW B \in SUBSET K, \A j \in B : \E i \in I : f[i] = j
  PROVE  IsFiniteSet(B) /\ Cardinality(B) <= Cardinality(I)
<1> DEFINE R == {f[i] : i \in I}
<1>1. IsFiniteSet(R) /\ Cardinality(R) <= Cardinality(I)
  <2>1. [i \in I |-> f[i]] \in Surjection(I, R)
    BY DEF Surjection
  <2> QED BY <2>1, FS_Surjection
<1>2. B \subseteq R
  OBVIOUS
<1> QED BY <1>1, <1>2, Finite

\* There are no more goroutines than pending ids, if each is pending.
LEMMA Owners ==
  ASSUME NEW p \in [Ids -> Jobs \cup {None}], NEW B \in SUBSET Jobs,
         \A j \in B : \E i \in Ids : p[i] = j
  PROVE  Cardinality(B) <= Cardinality({i \in Ids : p[i] # None})
<1> DEFINE I == {i \in Ids : p[i] # None}
           f == [i \in I |-> p[i]]
<1>1. IsFiniteSet(I)
  BY SessionAssumption, Finite
<1>2. f \in [I -> Jobs]
  OBVIOUS
<1>3. \A j \in B : \E i \in I : f[i] = j
  BY SessionAssumption
<1> HIDE DEF f, I
<1>4. Cardinality(B) <= Cardinality(I)
  BY <1>1, <1>2, <1>3, Image
<1> QED BY <1>4 DEF I

-----------------------------------------------------------------------------
(* TypeOK *)

JobType == [at : {"free", "working", "reporting", "completed"},
            id : Ids \cup {None}, done : BOOLEAN]

\* A goroutine that moves on.
LEMMA JobTypes ==
  ASSUME job \in [Jobs -> JobType], NEW j \in Jobs
  PROVE  /\ \A a \in {"free", "working", "reporting", "completed"} :
              [job EXCEPT ![j].at = a] \in [Jobs -> JobType]
         /\ [job EXCEPT ![j].done = TRUE] \in [Jobs -> JobType]
         /\ [job EXCEPT ![j] = Free] \in [Jobs -> JobType]
<1>1. job[j] \in JobType
  OBVIOUS
<1>2. \A a \in {"free", "working", "reporting", "completed"} :
        [job[j] EXCEPT !.at = a] \in JobType
  BY <1>1 DEF JobType
<1>3. [job[j] EXCEPT !.done = TRUE] \in JobType
  BY <1>1 DEF JobType
<1>4. Free \in JobType
  BY DEF Free, JobType
<1> QED BY <1>2, <1>3, <1>4

\* send keeps the types of what it changes.
LEMMA SendTypes ==
  ASSUME TypeOK, NEW m \in ToDash, Send(m)
  PROVE  /\ outgoing' \in Seq(ToDash) /\ Len(outgoing') <= OutCap
         /\ loop' \in {loop, "draining"}
         /\ exit' \in Errors \cup {"none"}
<1> USE SessionAssumption
<1> SUFFICES /\ outgoing' \in Seq(ToDash) /\ Len(outgoing') <= OutCap
             /\ loop' \in {loop, "draining"}
             /\ exit' \in Errors \cup {"none"}
  OBVIOUS
<1>1. outgoing \in Seq(ToDash) /\ Len(outgoing) <= OutCap /\ exit \in Errors \cup {"none"}
  BY DEF TypeOK
<1>2. CASE OutRoom /\ outgoing' = Append(outgoing, m) /\ Continue
  BY <1>1, <1>2 DEF OutRoom, Continue
<1>3. CASE End("error") /\ UNCHANGED outgoing
  BY <1>1, <1>3 DEF End, Errors
<1> QED BY <1>2, <1>3 DEF Send

\* Taking a message yields one that a dashboard may send.
LEMMA TakeTypes ==
  ASSUME TypeOK, Take
  PROVE  /\ Message \in FromDash
         /\ incoming' \in Seq(FromDash) /\ Len(incoming') <= 1
         /\ silence' = 0
BY DEF TypeOK, Take, Message

\* What a message is made of.
LEMMA MessageIds ==
  /\ \A m \in FromDash : m.kind \in {"query", "cancel"} => m.id \in Ids
  /\ \A m \in ToDash : m.kind = "answer" => m.id \in Ids
  /\ \A i \in Ids : Answer(i) \in ToDash
  /\ Beat \in ToDash /\ Other \in FromDash
<1>1. \A m \in FromDash : m.kind \in {"query", "cancel"} => m.id \in Ids
  BY DEF FromDash, Other, Bad, Query, Cancel
<1>2. \A m \in ToDash : m.kind = "answer" => m.id \in Ids
  BY DEF ToDash, Beat, Answer
<1>3. \A i \in Ids : Answer(i) \in ToDash
  BY DEF ToDash
<1>4. Beat \in ToDash /\ Other \in FromDash
  BY DEF ToDash, FromDash
<1> QED BY <1>1, <1>2, <1>3, <1>4

\* Every action keeps the types, and with them the capacities of the channels.
LEMMA TypeStep ==
  ASSUME IInv, [Next]_vars
  PROVE  TypeOK'
<1> USE SessionAssumption
<1>t. TypeOK
  BY DEF IInv
<1>o. Other \in FromDash
  BY MessageIds
<1> USE <1>t, <1>o
<1> USE DEF TypeOK, Errors, Gone
<1>1. CASE Connect
  BY <1>1 DEF Connect, queryVars
<1>2. CASE ConnectFails
  BY <1>2 DEF ConnectFails, Supervise, streamVars, queryVars
<1>3. CASE NoSession
  BY <1>3 DEF NoSession, supVars, streamVars, queryVars
<1>4. CASE Retry
  BY <1>4 DEF Retry, streamVars, queryVars
<1>5. CASE Drained
  <2>1. Free \in JobType
    BY DEF Free, JobType
  <2>2. job' \in [Jobs -> JobType] /\ pending' \in [Ids -> Jobs \cup {None}]
    BY <1>5, <2>1 DEF Drained
  <2> QED
    BY <1>5, <2>2 DEF Drained, Supervise, JobType
<1>6. CASE SeeDone
  BY <1>6 DEF SeeDone, End, streamVars, queryVars
<1>7. CASE SeeFailure
  BY <1>7 DEF SeeFailure, End, queryVars
<1>8. ASSUME NEW j \in Jobs, Complete(j) PROVE TypeOK'
  <2>1. job[j].id \in Ids
    BY <1>8 DEF IInv, JobsArePending, Up, Busy, Complete
  <2>2. Answer(job[j].id) \in ToDash /\ Send(Answer(job[j].id))
    BY <1>8, <2>1, MessageIds DEF Complete
  <2>3. pending' \in [Ids -> Jobs \cup {None}]
    BY <1>8 DEF Complete, Forget
  <2>4. job' \in [Jobs -> JobType]
    BY <1>8, JobTypes DEF Complete, JobType
  <2> QED
    BY <1>8, <2>2, <2>3, <2>4, SendTypes DEF Complete, JobType
<1>9. CASE TakeCancel
  <2>1. pending[Message.id] \in Jobs \cup {None}
    BY <1>9, TakeTypes, MessageIds DEF TakeCancel
  <2>2. job' \in [Jobs -> JobType]
    <3>1. CASE pending[Message.id] = None
      BY <1>9, <3>1 DEF TakeCancel, JobType
    <3>2. CASE pending[Message.id] # None
      <4>1. pending[Message.id] \in Jobs
        BY <2>1, <3>2
      <4>2. job' = [job EXCEPT ![pending[Message.id]].done = TRUE]
        BY <1>9, <3>2 DEF TakeCancel
      <4>3. job \in [Jobs -> JobType]
        BY DEF JobType
      <4> QED BY ONLY <4>1, <4>2, <4>3, JobTypes
    <3> QED BY <3>1, <3>2
  <2> QED
    BY <1>9, <2>2, TakeTypes DEF TakeCancel, Take, Continue, JobType
<1>10. CASE TakeOther
  BY <1>10 DEF TakeOther, Continue, Take, Message, queryVars
<1>11. CASE TakeBad
  BY <1>11 DEF TakeBad, End, Take, Message, queryVars
<1>12. CASE TakeBusy
  <2>1. Answer(Message.id) \in ToDash /\ Send(Answer(Message.id))
    BY <1>12, TakeTypes, MessageIds DEF TakeBusy
  <2> QED
    BY <1>12, <2>1, SendTypes, TakeTypes DEF TakeBusy, Take, queryVars
<1>13. ASSUME NEW j \in Jobs, Admit(j) PROVE TypeOK'
  <2>1. Message.id \in Ids
    BY <1>13, TakeTypes, MessageIds DEF Admit
  <2>2. pending' \in [Ids -> Jobs \cup {None}]
    BY <1>13 DEF Admit
  <2>3. [at |-> "working", id |-> Message.id, done |-> FALSE] \in JobType
    BY <2>1 DEF JobType
  <2>4. job' \in [Jobs -> JobType]
    BY <1>13, <2>3 DEF Admit, JobType
  <2> QED
    BY <1>13, <2>2, <2>4, TakeTypes DEF Admit, Take, Continue, JobType
<1>14. CASE Heartbeat
  <2>1. CASE Silent
    BY <1>14, <2>1 DEF Heartbeat, End, queryVars
  <2>2. CASE ~Silent
    <3>1. Beat \in ToDash /\ Send(Beat) /\ silence' \in 0..MaxSilence
      BY <1>14, <2>2, MessageIds DEF Heartbeat, Silent, Older
    <3> QED BY <1>14, <3>1, SendTypes DEF Heartbeat, queryVars
  <2> QED BY <2>1, <2>2
<1>15. CASE Check
  BY <1>15 DEF Check, End, streamVars, queryVars
<1>16. ASSUME NEW m \in FromDash, Recv(m) PROVE TypeOK'
  <2>1. reader' \in [at : {"off", "recv", "deliver", "failed"}, msg : FromDash]
    BY <1>16 DEF Recv
  <2>2. owed' \in [Ids -> Int]
    BY <1>16, MessageIds DEF Recv
  <2> QED BY <1>16, <2>1, <2>2 DEF Recv, TaskFrame, supVars, queryVars
<1>17. CASE Deliver
  <2>1. reader.msg \in FromDash
    OBVIOUS
  <2>2. <<reader.msg>> \in Seq(FromDash) /\ Len(<<reader.msg>>) = 1
    BY <2>1
  <2>3. incoming' = <<reader.msg>> \/ incoming' = incoming
    BY <1>17 DEF Deliver
  <2>4. incoming' \in Seq(FromDash) /\ Len(incoming') <= 1
    <3>1. CASE incoming' = <<reader.msg>>
      BY ONLY <2>2, <3>1
    <3>2. CASE incoming' = incoming
      BY <3>2
    <3> QED BY <2>3, <3>1, <3>2
  <2>5. reader' \in [at : {"off", "recv", "deliver", "failed"}, msg : FromDash]
    BY <1>17 DEF Deliver
  <2> QED
    BY <1>17, <2>4, <2>5 DEF Deliver, TaskFrame, supVars, queryVars
<1>18. CASE RecvFails
  BY <1>18 DEF RecvFails, TaskFrame, supVars, queryVars
<1>19. CASE ReaderReports
  BY <1>19 DEF ReaderReports, TaskFrame, supVars, queryVars, FailureRoom
<1>20. CASE WriterTakes
  <2>1. outgoing # <<>> =>
          /\ Head(outgoing) \in ToDash
          /\ Tail(outgoing) \in Seq(ToDash) /\ Len(Tail(outgoing)) <= OutCap
    OBVIOUS
  <2>2. outgoing' \in Seq(ToDash) /\ Len(outgoing') <= OutCap
    BY <1>20, <2>1 DEF WriterTakes
  <2>3. writer' \in [at : {"off", "idle", "sending", "failed"}, msg : ToDash \cup {Other}]
    BY <1>20, <2>1 DEF WriterTakes
  <2> QED
    BY <1>20, <2>2, <2>3 DEF WriterTakes, TaskFrame, supVars, queryVars
<1>21. CASE Sent
  <2>1. owed' \in [Ids -> Int]
    <3>1. CASE writer.msg.kind = "answer"
      <4>1. writer.msg \in ToDash \/ writer.msg = Other
        OBVIOUS
      <4>2. writer.msg.id \in Ids
        BY <3>1, <4>1, MessageIds DEF Other
      <4> QED BY <1>21, <3>1, <4>2 DEF Sent
    <3>2. CASE writer.msg.kind # "answer"
      BY <1>21, <3>2 DEF Sent
    <3> QED BY <3>1, <3>2
  <2> QED BY <1>21, <2>1 DEF Sent, TaskFrame, supVars, queryVars
<1>22. CASE SendFails
  BY <1>22 DEF SendFails, TaskFrame, supVars, queryVars
<1>23. CASE WriterReports
  BY <1>23 DEF WriterReports, TaskFrame, supVars, queryVars, FailureRoom
<1>24. ASSUME NEW j \in Jobs, JobEnds(j) PROVE TypeOK'
  <2>1. job' \in [Jobs -> JobType]
    BY <1>24, JobTypes DEF JobEnds, JobType
  <2> QED BY <1>24, <2>1 DEF JobEnds, JobFrame, TaskFrame, supVars, streamVars, JobType
<1>25. ASSUME NEW j \in Jobs, JobReports(j) PROVE TypeOK'
  <2>1. \/ job' = [job EXCEPT ![j].at = "completed"]
        \/ job' = [job EXCEPT ![j] = Free]
    BY <1>25 DEF JobReports
  <2>2. job' \in [Jobs -> JobType]
    <3>1. job \in [Jobs -> JobType]
      BY DEF JobType
    <3>2. CASE job' = [job EXCEPT ![j].at = "completed"]
      BY ONLY <1>25, <3>1, <3>2, JobTypes
    <3>3. CASE job' = [job EXCEPT ![j] = Free]
      BY ONLY <1>25, <3>1, <3>3, JobTypes
    <3> QED BY <2>1, <3>2, <3>3
  <2> QED BY <1>25, <2>2 DEF JobReports, JobFrame, TaskFrame, supVars, streamVars, JobType
<1>26. ASSUME NEW j \in Jobs, Deadline(j) PROVE TypeOK'
  <2>1. job' \in [Jobs -> JobType]
    BY <1>26, JobTypes DEF Deadline, JobType
  <2> QED BY <1>26, <2>1 DEF Deadline, JobFrame, TaskFrame, supVars, streamVars, JobType
<1>27. CASE HelperChanges
  BY <1>27 DEF HelperChanges, EnvFrame, streamVars, queryVars
<1>28. CASE Stop
  BY <1>28 DEF Stop, EnvFrame, streamVars, queryVars
<1>29. CASE Stopped
  BY <1>29 DEF Stopped, vars, supVars, streamVars, queryVars
<1>30. CASE UNCHANGED vars
  BY <1>30 DEF vars, supVars, streamVars, queryVars
<1> QED
  BY <1>1, <1>2, <1>3, <1>4, <1>5, <1>6, <1>7, <1>8, <1>9, <1>10, <1>11, <1>12, <1>13, <1>14, <1>15, <1>16, <1>17, <1>18, <1>19, <1>20, <1>21, <1>22, <1>23, <1>24, <1>25, <1>26, <1>27, <1>28, <1>29, <1>30
  DEF Next, SupervisorStep, LoopStep, StreamStep, JobStep

-----------------------------------------------------------------------------
(* The inductive invariant *)

Resting == {"closed", "backoff", "stopped"}

\* A step that leaves pending alone and starts no goroutine.
Quiet ==
  /\ pending' = pending
  /\ \A j \in Jobs : job'[j].at # "free" => job[j].at # "free" /\ job'[j].id = job[j].id
  /\ loop' = "select" => loop = "select" \/ loop \in Resting
  /\ loop' \in Resting => loop \in Resting

\* Such a step keeps what relates goroutines to pending.
LEMMA QuietStep ==
  ASSUME IInv, Quiet
  PROVE  JobsArePending' /\ NoneLeft' /\ WorkBounded'
<1>1. Busy' \subseteq Busy
  BY DEF Quiet, Busy
<1>2. PendingIds' = PendingIds
  BY DEF Quiet, PendingIds
<1>3. JobsArePending'
  BY <1>1 DEF IInv, Quiet, JobsArePending, NoneLeft, Busy, Up, Resting
<1>4. NoneLeft'
  BY <1>1 DEF IInv, Quiet, NoneLeft, Resting
<1>5. IsFiniteSet(Busy) /\ Cardinality(Busy) \in Nat
  BY SessionAssumption, Finite DEF Busy
<1>6. Cardinality(Busy') <= Cardinality(Busy) /\ Cardinality(Busy') \in Nat
  BY <1>1, <1>5, Finite
<1>7. WorkBounded'
  BY <1>2, <1>5, <1>6, SessionAssumption DEF IInv, WorkBounded
<1> QED BY <1>3, <1>4, <1>7

\* Every other action but the end of a session is quiet.
LEMMA QuietActions ==
  ASSUME IInv, [Next]_vars,
         ~Drained, \A j \in Jobs : ~Complete(j) /\ ~Admit(j)
  PROVE  Quiet
<1> USE DEF Quiet, Resting
<1>t. job \in [Jobs -> JobType]
  BY DEF IInv, TypeOK, JobType
<1>1. CASE Connect
  BY <1>t, <1>1 DEF Connect, queryVars
<1>2. CASE ConnectFails
  BY <1>t, <1>2 DEF ConnectFails, Supervise, streamVars, queryVars
<1>3. CASE NoSession
  BY <1>t, <1>3 DEF NoSession, supVars, streamVars, queryVars
<1>4. CASE Retry
  BY <1>t, <1>4 DEF Retry, streamVars, queryVars
<1>5. CASE SeeDone
  BY <1>t, <1>5 DEF SeeDone, End, streamVars, queryVars
<1>6. CASE SeeFailure
  BY <1>t, <1>6 DEF SeeFailure, End, queryVars
<1>7. CASE TakeCancel
  <2>1. \A j \in Jobs : job'[j].at = job[j].at /\ job'[j].id = job[j].id
    <3>1. CASE pending[Message.id] = None
      BY <1>7, <3>1 DEF TakeCancel
    <3>2. CASE job' = [job EXCEPT ![pending[Message.id]].done = TRUE]
      BY ONLY <1>t, <3>2 DEF JobType
    <3> QED BY <1>7, <3>1, <3>2 DEF TakeCancel
  <2> QED BY <1>7, <2>1 DEF TakeCancel, Continue, Take
<1>8. CASE TakeOther
  BY <1>t, <1>8 DEF TakeOther, Continue, Take, queryVars
<1>9. CASE TakeBad
  BY <1>t, <1>9 DEF TakeBad, End, Take, queryVars
<1>10. CASE TakeBusy
  BY <1>t, <1>10 DEF TakeBusy, Send, End, Continue, Take, queryVars
<1>11. CASE Heartbeat
  BY <1>t, <1>11 DEF Heartbeat, End, Send, Continue, queryVars
<1>12. CASE Check
  BY <1>t, <1>12 DEF Check, End, streamVars, queryVars
<1>13. ASSUME NEW m \in FromDash, Recv(m) PROVE Quiet
  BY <1>t, <1>13 DEF Recv, TaskFrame, supVars, queryVars
<1>14. CASE Deliver
  BY <1>t, <1>14 DEF Deliver, TaskFrame, supVars, queryVars
<1>15. CASE RecvFails
  BY <1>t, <1>15 DEF RecvFails, TaskFrame, supVars, queryVars
<1>16. CASE ReaderReports
  BY <1>t, <1>16 DEF ReaderReports, TaskFrame, supVars, queryVars
<1>17. CASE WriterTakes
  BY <1>t, <1>17 DEF WriterTakes, TaskFrame, supVars, queryVars
<1>18. CASE Sent
  BY <1>t, <1>18 DEF Sent, TaskFrame, supVars, queryVars
<1>19. CASE SendFails
  BY <1>t, <1>19 DEF SendFails, TaskFrame, supVars, queryVars
<1>20. CASE WriterReports
  BY <1>t, <1>20 DEF WriterReports, TaskFrame, supVars, queryVars
<1>21. ASSUME NEW j \in Jobs, JobEnds(j) PROVE Quiet
  BY <1>t, <1>21 DEF JobEnds, JobFrame, TaskFrame, supVars, streamVars
<1>22. ASSUME NEW j \in Jobs, JobReports(j) PROVE Quiet
  <2>1. CASE job' = [job EXCEPT ![j].at = "completed"]
    BY <1>t, <1>22, <2>1 DEF JobReports, JobFrame, TaskFrame, supVars, streamVars
  <2>2. CASE job' = [job EXCEPT ![j] = Free]
    BY <1>t, <1>22, <2>2 DEF JobReports, JobFrame, TaskFrame, supVars, streamVars, Free
  <2> QED BY <1>22, <2>1, <2>2 DEF JobReports
<1>23. ASSUME NEW j \in Jobs, Deadline(j) PROVE Quiet
  BY <1>t, <1>23 DEF Deadline, JobFrame, TaskFrame, supVars, streamVars
<1>24. CASE HelperChanges
  BY <1>t, <1>24 DEF HelperChanges, EnvFrame, streamVars, queryVars
<1>25. CASE Stop
  BY <1>t, <1>25 DEF Stop, EnvFrame, streamVars, queryVars
<1>26. CASE Stopped
  BY <1>t, <1>26 DEF Stopped, vars, supVars, streamVars, queryVars
<1>27. CASE UNCHANGED vars
  BY <1>27 DEF vars, queryVars
<1> QED
  BY <1>1, <1>2, <1>3, <1>4, <1>5, <1>6, <1>7, <1>8, <1>9, <1>10, <1>11, <1>12, <1>13, <1>14, <1>15, <1>16, <1>17, <1>18, <1>19, <1>20, <1>21, <1>22, <1>23, <1>24, <1>25, <1>26, <1>27
  DEF Next, SupervisorStep, LoopStep, StreamStep, JobStep

\* The loop takes a result: the goroutine and its place in pending go together.
LEMMA CompleteStep ==
  ASSUME IInv, NEW j \in Jobs, Complete(j)
  PROVE  JobsArePending' /\ NoneLeft' /\ WorkBounded'
<1>1. job[j].id \in Ids /\ pending[job[j].id] = j
  BY DEF IInv, JobsArePending, Up, Busy, Complete
<1>2. pending' = [pending EXCEPT ![job[j].id] = None] /\ job' = [job EXCEPT ![j] = Free]
  BY DEF Complete, Forget
<1>3. loop = "select" /\ loop' \in {"select", "draining"}
  BY DEF Complete, Send, Continue, End
<1>4. Busy' \subseteq Busy \ {j}
  BY <1>2 DEF IInv, TypeOK, Busy, Free
<1>5. PendingIds' \subseteq PendingIds
  BY <1>2, SessionAssumption DEF IInv, TypeOK, PendingIds
<1>6. JobsArePending'
  <2> SUFFICES ASSUME NEW k \in Busy'
               PROVE  job'[k].id \in Ids /\ pending'[job'[k].id] = k
    BY DEF JobsArePending
  <2>1. k \in Busy /\ k # j /\ k \in Jobs
    BY <1>4 DEF Busy
  <2>2. job'[k] = job[k]
    BY <1>2, <2>1 DEF IInv, TypeOK
  <2>3. job[k].id \in Ids /\ pending[job[k].id] = k
    BY <1>3, <2>1 DEF IInv, JobsArePending, Up
  <2> QED BY <1>1, <1>2, <2>1, <2>2, <2>3 DEF IInv, TypeOK
<1>7. NoneLeft'
  BY <1>3 DEF NoneLeft
<1>8. /\ IsFiniteSet(Busy) /\ IsFiniteSet(PendingIds)
      /\ Cardinality(Busy) \in Nat /\ Cardinality(PendingIds) \in Nat
  BY SessionAssumption, Finite DEF Busy, PendingIds
<1>9. /\ Cardinality(Busy') \in Nat /\ Cardinality(Busy') <= Cardinality(Busy)
      /\ Cardinality(PendingIds') \in Nat /\ Cardinality(PendingIds') <= Cardinality(PendingIds)
  BY <1>4, <1>5, <1>8, Finite
<1>10. WorkBounded'
  BY <1>8, <1>9, SessionAssumption DEF IInv, WorkBounded
<1> QED BY <1>6, <1>7, <1>10

\* A query is admitted: one more id is pending, and owns the new goroutine.
LEMMA AdmitStep ==
  ASSUME IInv, NEW j \in Jobs, Admit(j)
  PROVE  JobsArePending' /\ NoneLeft' /\ WorkBounded'
<1> DEFINE i == Message.id
<1>1. i \in Ids
  BY TakeTypes, MessageIds DEF IInv, Admit
<1>2. /\ pending' = [pending EXCEPT ![i] = j]
      /\ job' = [job EXCEPT ![j] = [at |-> "working", id |-> i, done |-> FALSE]]
      /\ pending[i] = None /\ loop = "select" /\ loop' = "select"
      /\ Cardinality(PendingIds) < MaxPending
  BY SessionAssumption, Finite DEF Admit, Duplicate, Take, Continue, Full, PendingIds
<1> HIDE DEF i
<1>3. PendingIds' = PendingIds \cup {i}
  BY <1>1, <1>2, SessionAssumption DEF IInv, TypeOK, PendingIds
<1>4. JobsArePending'
  <2> SUFFICES ASSUME NEW k \in Busy'
               PROVE  job'[k].id \in Ids /\ pending'[job'[k].id] = k
    BY DEF JobsArePending
  <2>1. CASE k = j
    BY <1>1, <1>2, <2>1 DEF IInv, TypeOK
  <2>2. CASE k # j
    <3>1. k \in Busy /\ k \in Jobs /\ job'[k] = job[k]
      BY <1>2, <2>2 DEF IInv, TypeOK, Busy
    <3>2. job[k].id \in Ids /\ pending[job[k].id] = k
      BY <1>2, <3>1 DEF IInv, JobsArePending, Up
    <3>3. job[k].id # i
      BY <1>2, <3>1, <3>2, SessionAssumption
    <3> QED BY <1>1, <1>2, <3>1, <3>2, <3>3 DEF IInv, TypeOK
  <2> QED BY <2>1, <2>2
<1>5. NoneLeft'
  BY <1>2 DEF NoneLeft
<1>6. IsFiniteSet(PendingIds)
  BY SessionAssumption, Finite DEF PendingIds
<1>7. Cardinality(PendingIds') <= MaxPending
  BY <1>2, <1>3, <1>6, OneMore, SessionAssumption
<1>8. Cardinality(Busy') <= Cardinality(PendingIds')
  <2>1. pending' \in [Ids -> Jobs \cup {None}]
    BY <1>2 DEF IInv, TypeOK
  <2>2. Busy' \in SUBSET Jobs
    BY DEF Busy
  <2>3. \A k \in Busy' : \E n \in Ids : pending'[n] = k
    BY <1>2, <1>4 DEF JobsArePending, Up
  <2>4. PendingIds' = {n \in Ids : pending'[n] # None}
    BY DEF PendingIds
  <2> QED BY <2>1, <2>2, <2>3, <2>4, Owners
<1>9. Cardinality(Busy') \in Nat /\ Cardinality(PendingIds') \in Nat
  BY SessionAssumption, Finite DEF Busy, PendingIds
<1> QED BY <1>4, <1>5, <1>7, <1>8, <1>9, SessionAssumption DEF WorkBounded

\* The end of a session clears everything.
LEMMA DrainedStep ==
  ASSUME IInv, Drained
  PROVE  JobsArePending' /\ NoneLeft' /\ WorkBounded'
<1>1. Busy' = {} /\ PendingIds' = {}
  BY DEF Drained, Busy, Free, PendingIds
<1> QED BY <1>1, FS_EmptySet, SessionAssumption DEF JobsArePending, NoneLeft, WorkBounded

-----------------------------------------------------------------------------
(* Theorems *)

\* The initial states, and every step.
LEMMA InitOK == Init => IInv
<1> SUFFICES ASSUME Init PROVE IInv
  OBVIOUS
<1>1. TypeOK
  <2>1. Other \in FromDash
    BY MessageIds
  <2>2. <<>> \in Seq(FromDash) /\ <<>> \in Seq(ToDash) /\ <<>> \in Seq(Errors) /\ Len(<<>>) = 0
    OBVIOUS
  <2>3. Free \in JobType
    BY DEF Free, JobType
  <2>4. job \in [Jobs -> JobType]
    BY <2>3 DEF Init
  <2>5. /\ reader \in [at : {"off", "recv", "deliver", "failed"}, msg : FromDash]
        /\ writer \in [at : {"off", "idle", "sending", "failed"}, msg : ToDash \cup {Other}]
    BY <2>1 DEF Init, Gone
  <2>6. /\ incoming \in Seq(FromDash) /\ Len(incoming) <= 1
        /\ outgoing \in Seq(ToDash) /\ Len(outgoing) <= OutCap
        /\ failures \in Seq(Errors) /\ Len(failures) <= FailCap
    BY <2>2, SessionAssumption DEF Init
  <2>7. /\ loop = "closed" /\ exit \in Errors \cup {"none"} /\ delay \in 1..MaxDelay
        /\ silence \in 0..MaxSilence
    BY SessionAssumption DEF Init
  <2>9. /\ stopping \in BOOLEAN
        /\ helper \in Versions \cup {Down} /\ caps \in Versions \cup {Down}
    BY DEF Init
  <2>8. pending \in [Ids -> Jobs \cup {None}] /\ owed \in [Ids -> Int]
    BY DEF Init
  <2> QED BY ONLY <2>4, <2>5, <2>6, <2>7, <2>8, <2>9 DEF TypeOK, JobType
<1>2. Busy = {} /\ PendingIds = {}
  BY DEF Init, Busy, Free, PendingIds
<1> QED
  BY <1>1, <1>2, FS_EmptySet, SessionAssumption
  DEF Init, IInv, JobsArePending, NoneLeft, WorkBounded

LEMMA NextOK == IInv /\ [Next]_vars => IInv'
<1> SUFFICES ASSUME IInv, [Next]_vars PROVE IInv'
  OBVIOUS
<1>1. TypeOK'
  BY TypeStep
<1>2. JobsArePending' /\ NoneLeft' /\ WorkBounded'
  <2>1. CASE Drained
    BY <2>1, DrainedStep
  <2>2. CASE \E j \in Jobs : Complete(j)
    BY <2>2, CompleteStep
  <2>3. CASE \E j \in Jobs : Admit(j)
    BY <2>3, AdmitStep
  <2>4. CASE ~Drained /\ \A j \in Jobs : ~Complete(j) /\ ~Admit(j)
    BY <2>4, QuietActions, QuietStep
  <2> QED BY <2>1, <2>2, <2>3, <2>4
<1> QED BY <1>1, <1>2 DEF IInv

\* The inductive invariant of querySession and startSessions: goroutines and
\* the map pending agree, and no session leaves a goroutine to the next.
THEOREM Inductive == Spec => []IInv
BY InitOK, NextOK, PTL DEF Spec

\* Type correctness: the channels of querySession stay within their capacities.
THEOREM TypeCorrect == Spec => []TypeOK
BY Inductive, PTL DEF IInv

\* "pending[result.Id]()" never calls nil: a finished query is pending, under
\* its own id, until the loop takes its result.
THEOREM ResultsArePending == Spec => []JobsArePending
BY Inductive, PTL DEF IInv

-----------------------------------------------------------------------------
(* The answers that the dashboard is owed *)

\* Where the answer to a query of id i can be, and how many there are.
Unread(i) == Count(reader.at = "deliver" /\ reader.msg = Query(i))
Waiting(i) == Count(incoming = <<Query(i)>>)
Admitted(i) == Count(pending[i] # None)
Answers(s, i) == {n \in DOMAIN s : s[n] = Answer(i)}
Queued(i) == Cardinality(Answers(outgoing, i))
Leaving(i) == Count(writer.at = "sending" /\ writer.msg = Answer(i))

Counting == Up /\ ~stopping /\ writer.at \in {"idle", "sending"}

\* The answers that can no longer come.
Margin(i) == owed[i] - Due(i)

LEMMA AnswersParts ==
  /\ AnswersExact <=> \A i \in Ids : Due(i) <= owed[i] /\ (Counting => owed[i] = Due(i))
  /\ AnswersExact' <=> \A i \in Ids : Due(i)' <= owed'[i] /\ (Counting' => owed'[i] = Due(i)')
BY DEF AnswersExact, Counting

LEMMA DueParts ==
  ASSUME NEW i
  PROVE  /\ Due(i) = Unread(i) + Waiting(i) + Admitted(i) + Queued(i) + Leaving(i)
         /\ Due(i)' = Unread(i)' + Waiting(i)' + Admitted(i)' + Queued(i)' + Leaving(i)'
BY DEF Due, Unread, Waiting, Admitted, Queued, Leaving, Answers

\* Between sessions nothing is left of the one before, and nothing is owed.
Clean ==
  loop \in Resting =>
    /\ reader.at = "off" /\ writer.at = "off"
    /\ incoming = <<>> /\ outgoing = <<>> /\ failures = <<>>
    /\ \A i \in Ids : pending[i] = None /\ owed[i] = 0

\* There are as many answers in a queue as members of a finite set.
LEMMA AnswersFinite ==
  ASSUME NEW S, NEW s \in Seq(S), NEW i
  PROVE  IsFiniteSet(Answers(s, i)) /\ Cardinality(Answers(s, i)) \in Nat
<1>1. Answers(s, i) \subseteq 1..Len(s) /\ Len(s) \in Int
  BY DEF Answers
<1>2. IsFiniteSet(1..Len(s))
  BY <1>1, FS_Interval
<1> QED BY <1>1, <1>2, FS_Subset, FS_CardinalityType

\* A message that is appended may be one more.
LEMMA AppendCount ==
  ASSUME NEW S, NEW s \in Seq(S), NEW m \in S, NEW i
  PROVE  Cardinality(Answers(Append(s, m), i)) = Cardinality(Answers(s, i)) + Count(m = Answer(i))
<1>1. IsFiniteSet(Answers(s, i)) /\ Cardinality(Answers(s, i)) \in Nat
  BY AnswersFinite
<1>2. CASE m = Answer(i)
  <2>1. Answers(Append(s, m), i) = Answers(s, i) \cup {Len(s) + 1}
    BY <1>2 DEF Answers
  <2>2. Len(s) + 1 \notin Answers(s, i)
    BY DEF Answers
  <2> QED BY <1>1, <1>2, <2>1, <2>2, FS_AddElement DEF Count
<1>3. CASE m # Answer(i)
  <2>1. Answers(Append(s, m), i) = Answers(s, i)
    BY <1>3 DEF Answers
  <2> QED BY <1>1, <1>3, <2>1 DEF Count
<1> QED BY <1>2, <1>3

\* The message that is taken may have been one of them.
LEMMA TailCount ==
  ASSUME NEW S, NEW s \in Seq(S), s # <<>>, NEW i
  PROVE  Cardinality(Answers(s, i)) = Cardinality(Answers(Tail(s), i)) + Count(Head(s) = Answer(i))
<1> DEFINE A == Answers(s, i) \ {1}
           B == Answers(Tail(s), i)
           f == [n \in B |-> n + 1]
<1>1. IsFiniteSet(Answers(s, i)) /\ Cardinality(Answers(s, i)) \in Nat
  BY AnswersFinite
<1>2. \A n \in B : n \in 1..(Len(s) - 1) /\ n + 1 \in A
  BY DEF Answers
<1>3. \A n \in A : n - 1 \in B /\ n = (n - 1) + 1
  BY DEF Answers
<1>4. f \in Bijection(B, A)
  <2> HIDE DEF A, B
  <2>1. f \in [B -> A]
    BY <1>2
  <2>2. \A n, m \in B : f[n] = f[m] => n = m
    BY <1>2
  <2>3. \A n \in A : \E m \in B : f[m] = n
    BY <1>3
  <2> QED BY <2>1, <2>2, <2>3 DEF Bijection, Injection, Surjection, IsInjective
<1>5. IsFiniteSet(B)
  <2>1. Tail(s) \in Seq(S)
    OBVIOUS
  <2> QED BY <2>1, AnswersFinite
<1>6. Cardinality(A) = Cardinality(B)
  <2> HIDE DEF A, B, f
  <2>1. ExistsBijection(B, A)
    BY <1>4 DEF ExistsBijection
  <2> QED BY <1>5, <2>1, FS_Bijection
<1>7. 1 \in Answers(s, i) <=> Head(s) = Answer(i)
  BY DEF Answers
<1>8. CASE Head(s) = Answer(i)
  <2>1. Cardinality(A) = Cardinality(Answers(s, i)) - 1
    BY <1>1, <1>7, <1>8, FS_RemoveElement
  <2> QED BY <1>1, <1>6, <1>8, <2>1 DEF Count
<1>9. CASE Head(s) # Answer(i)
  <2>1. A = Answers(s, i)
    BY <1>7, <1>9
  <2>2. Cardinality(Answers(s, i)) = Cardinality(B)
    BY <1>6, <2>1
  <2>3. Count(Head(s) = Answer(i)) = 0
    BY <1>9 DEF Count
  <2> QED BY <1>1, <2>2, <2>3
<1> QED BY <1>8, <1>9

\* Every place holds a number of answers; messages of different kinds differ.
LEMMA PartsTyped ==
  ASSUME TypeOK, NEW i \in Ids
  PROVE  /\ Unread(i) \in Nat /\ Waiting(i) \in Nat /\ Admitted(i) \in Nat
         /\ Queued(i) \in Nat /\ Leaving(i) \in Nat /\ owed[i] \in Int
<1>1. Queued(i) \in Nat
  BY AnswersFinite DEF TypeOK, Queued
<1> QED BY <1>1 DEF TypeOK, Unread, Waiting, Admitted, Leaving, Count

LEMMA Kinds ==
  /\ \A i, k : Query(i) = Query(k) <=> i = k
  /\ \A i, k : Answer(i) = Answer(k) <=> i = k
  /\ \A i : /\ Query(i).kind = "query" /\ Query(i).id = i /\ Query(i) # Other
            /\ Answer(i).kind = "answer" /\ Answer(i).id = i
            /\ Answer(i) # Beat /\ Answer(i) # Other
  /\ \A m \in FromDash : m.kind = "query" => m = Query(m.id)
  /\ \A m \in ToDash \cup {Other} : m.kind = "answer" => m = Answer(m.id)
BY DEF Query, Answer, Other, Beat, FromDash, ToDash, Bad, Cancel

\* The loop takes the only message that waits.
LEMMA TakeCount ==
  ASSUME TypeOK, Take, NEW i \in Ids
  PROVE  /\ Waiting(i) = Count(Message = Query(i)) /\ Waiting(i)' = 0
         /\ Unread(i)' = Unread(i) /\ Leaving(i)' = Leaving(i) /\ owed'[i] = owed[i]
<1>1. incoming = <<Message>> /\ incoming' = <<>>
  <2>1. incoming \in Seq(FromDash) /\ Len(incoming) <= 1 /\ incoming # <<>>
    BY DEF TypeOK, Take
  <2>2. Len(incoming) = 1 /\ Head(incoming) = incoming[1]
    BY <2>1, EmptySeq
  <2>3. incoming = <<incoming[1]>>
    BY <2>1, <2>2
  <2>4. Tail(incoming) \in Seq(FromDash) /\ Len(Tail(incoming)) = 0
    BY <2>1, <2>2
  <2>5. Tail(incoming) = <<>>
    BY <2>4, EmptySeq
  <2> QED BY <2>2, <2>3, <2>5 DEF Take, Message
<1>2. incoming = <<Query(i)>> <=> Message = Query(i)
  BY <1>1
<1>3. Waiting(i)' = 0
  BY <1>1 DEF Waiting, Count
<1> QED BY <1>2, <1>3 DEF Take, Waiting, Unread, Leaving

\* Unless it ends the session, send has put its message into the queue.
LEMMA SendCount ==
  ASSUME TypeOK, NEW m \in ToDash, Send(m), NEW i \in Ids
  PROVE  \/ Queued(i)' = Queued(i) + Count(m = Answer(i))
         \/ Queued(i)' = Queued(i) /\ ~Up'
<1>1. CASE outgoing' = Append(outgoing, m)
  BY <1>1, AppendCount DEF TypeOK, Queued
<1>2. CASE End("error") /\ UNCHANGED outgoing
  BY <1>2 DEF End, Up, Queued, Answers
<1> QED BY <1>1, <1>2 DEF Send

\* Within a session a step never adds to the answers to come without an obligation,
\* and it loses none of them unless it ends the session or the stream.
LEMMA MarginStep ==
  ASSUME IInv, [Next]_vars, ~Connect, ~Drained, NEW i \in Ids
  PROVE  /\ Margin(i)' >= Margin(i)
         /\ Counting' => Margin(i)' = Margin(i)
<1> DEFINE Goal == /\ Margin(i)' >= Margin(i)
                   /\ Counting' => Margin(i)' = Margin(i)
<1>t. TypeOK
  BY DEF IInv
<1>p. /\ Unread(i) \in Nat /\ Waiting(i) \in Nat /\ Admitted(i) \in Nat
      /\ Queued(i) \in Nat /\ Leaving(i) \in Nat /\ owed[i] \in Int
  BY <1>t, PartsTyped
<1>d. /\ Margin(i) = owed[i] - (Unread(i) + Waiting(i) + Admitted(i) + Queued(i) + Leaving(i))
      /\ Margin(i)' = owed'[i]
            - (Unread(i)' + Waiting(i)' + Admitted(i)' + Queued(i)' + Leaving(i)')
  BY DueParts DEF Margin
<1>n. /\ Unread(i)' \in Nat /\ Waiting(i)' \in Nat /\ Admitted(i)' \in Nat
      /\ Leaving(i)' \in Nat
  BY DEF Unread, Waiting, Admitted, Leaving, Count
<1> USE <1>t
<1>f. ASSUME UNCHANGED <<reader, incoming, pending, outgoing, writer, owed>> PROVE Goal
  <2>1. /\ Unread(i)' = Unread(i) /\ Waiting(i)' = Waiting(i) /\ Admitted(i)' = Admitted(i)
        /\ Queued(i)' = Queued(i) /\ Leaving(i)' = Leaving(i) /\ owed'[i] = owed[i]
    BY <1>f DEF Unread, Waiting, Admitted, Queued, Leaving, Answers
  <2> QED BY <2>1, <1>p, <1>d
<1>1. ASSUME NEW j \in Jobs, Complete(j) PROVE Goal
  <2> DEFINE k == job[j].id
  <2>1. k \in Ids /\ pending[k] # None
    BY <1>1 DEF IInv, JobsArePending, Up, Busy, Complete
  <2>2. \/ Queued(i)' = Queued(i) + Count(Answer(k) = Answer(i))
        \/ Queued(i)' = Queued(i) /\ ~Up'
    BY <1>1, <2>1, SendCount, MessageIds DEF Complete
  <2>3. Admitted(i) = Admitted(i)' + Count(Answer(k) = Answer(i))
    BY <1>1, <2>1, Kinds DEF Complete, Forget, Admitted, Count, TypeOK
  <2>4. /\ Unread(i)' = Unread(i) /\ Waiting(i)' = Waiting(i) /\ Leaving(i)' = Leaving(i)
        /\ owed'[i] = owed[i]
    BY <1>1 DEF Complete, Unread, Waiting, Leaving
  <2>5. Count(Answer(k) = Answer(i)) \in Nat /\ (Counting' => Up')
    BY DEF Count, Counting
  <2> QED BY <1>p, <1>d, <1>n, <2>2, <2>3, <2>4, <2>5
<1>2. ASSUME NEW j \in Jobs, Admit(j) PROVE Goal
  <2>1. Message \in FromDash /\ Message = Query(Message.id) /\ Message.id \in Ids
    BY <1>2, TakeTypes, MessageIds, Kinds DEF Admit
  <2>2. Admitted(i)' = Admitted(i) + Count(Message = Query(i))
    BY <1>2, <2>1, Kinds, SessionAssumption DEF Admit, Duplicate, Admitted, Count, TypeOK
  <2>3. Queued(i)' = Queued(i)
    BY <1>2 DEF Admit, Queued, Answers
  <2> QED BY <1>2, <1>p, <1>d, <2>2, <2>3, TakeCount DEF Admit
<1>3. CASE TakeCancel \/ TakeOther \/ TakeBad
  <2>1. Take /\ Queued(i)' = Queued(i) /\ Admitted(i)' = Admitted(i)
    BY <1>3 DEF TakeCancel, TakeOther, TakeBad, queryVars, Queued, Answers, Admitted
  <2>2. Counting' => Waiting(i) = 0
    <3>1. Message \in FromDash /\ (Counting' => Message.kind # "query")
      BY <1>3, TakeTypes DEF TakeCancel, TakeOther, TakeBad, End, Counting, Up
    <3>2. Counting' => Message # Query(i)
      BY <3>1, Kinds
    <3> QED BY <2>1, <3>2, TakeCount DEF Count
  <2> QED BY <1>p, <1>d, <1>n, <2>1, <2>2, TakeCount
<1>4. CASE TakeBusy
  <2>1. Message \in FromDash /\ Message = Query(Message.id) /\ Message.id \in Ids
    BY <1>4, TakeTypes, MessageIds, Kinds DEF TakeBusy
  <2>2. \/ Queued(i)' = Queued(i) + Count(Answer(Message.id) = Answer(i))
        \/ Queued(i)' = Queued(i) /\ ~Up'
    BY <1>4, <2>1, SendCount, MessageIds DEF TakeBusy
  <2>3. Admitted(i)' = Admitted(i)
    BY <1>4 DEF TakeBusy, queryVars, Admitted
  <2>4. Count(Answer(Message.id) = Answer(i)) = Count(Message = Query(i))
    BY <2>1, Kinds
  <2>5. Counting' => Up'
    BY DEF Counting
  <2> QED BY <1>4, <1>p, <1>d, <1>n, <2>2, <2>3, <2>4, <2>5, TakeCount DEF TakeBusy
<1>5. CASE Heartbeat
  <2>1. \/ Queued(i)' = Queued(i) + Count(Beat = Answer(i))
        \/ Queued(i)' = Queued(i)
    <3>1. CASE Silent
      BY <1>5, <3>1 DEF Heartbeat, Queued, Answers
    <3>2. CASE ~Silent
      BY <1>5, <3>2, SendCount, MessageIds DEF Heartbeat
    <3> QED BY <3>1, <3>2
  <2>2. Count(Beat = Answer(i)) = 0
    BY Kinds DEF Count
  <2>3. /\ Unread(i)' = Unread(i) /\ Waiting(i)' = Waiting(i) /\ Admitted(i)' = Admitted(i)
        /\ Leaving(i)' = Leaving(i) /\ owed'[i] = owed[i]
    BY <1>5 DEF Heartbeat, queryVars, Unread, Waiting, Admitted, Leaving
  <2> QED BY <1>p, <1>d, <2>1, <2>2, <2>3
<1>6. ASSUME NEW m \in FromDash, Recv(m) PROVE Goal
  <2>1. /\ Waiting(i)' = Waiting(i) /\ Admitted(i)' = Admitted(i)
        /\ Queued(i)' = Queued(i) /\ Leaving(i)' = Leaving(i)
    BY <1>6 DEF Recv, queryVars, Waiting, Admitted, Queued, Answers, Leaving
  <2>2. Unread(i) = 0 /\ Unread(i)' = Count(m = Query(i))
    BY <1>6 DEF Recv, Unread, Count
  <2>3. owed'[i] = owed[i] + Count(m = Query(i))
    <3>1. CASE m.kind = "query"
      BY <1>6, <1>p, <3>1, Kinds DEF Recv, Count, TypeOK
    <3>2. CASE m.kind # "query"
      BY <1>6, <1>p, <3>2, Kinds DEF Recv, Count
    <3> QED BY <3>1, <3>2
  <2>4. Count(m = Query(i)) \in Nat
    BY DEF Count
  <2> QED BY <1>p, <1>d, <2>1, <2>2, <2>3, <2>4
<1>7. CASE Deliver
  <2>1. /\ UNCHANGED <<pending, outgoing, writer, owed>>
        /\ Counting' => ~Done
    BY <1>7 DEF Deliver, TaskFrame, supVars, queryVars, Done, Counting, Up
  <2>2. Admitted(i)' = Admitted(i) /\ Queued(i)' = Queued(i) /\ Leaving(i)' = Leaving(i)
    BY <2>1 DEF Admitted, Queued, Answers, Leaving
  <2>3. Unread(i)' = 0
    BY <1>7 DEF Deliver, Unread, Count, Gone
  <2>4. CASE incoming = <<>> /\ incoming' = <<reader.msg>>
    <3>1. Waiting(i) = 0 /\ Waiting(i)' = Unread(i)
      BY <1>7, <2>4 DEF Deliver, Waiting, Unread, Count
    <3> QED BY <1>p, <1>d, <2>1, <2>2, <2>3, <3>1
  <2>5. CASE Done /\ UNCHANGED incoming
    <3>1. Waiting(i)' = Waiting(i) /\ ~Counting'
      BY <2>1, <2>5 DEF Waiting
    <3> QED BY <1>p, <1>d, <2>1, <2>2, <2>3, <3>1
  <2> QED BY <1>7, <2>4, <2>5 DEF Deliver
<1>8. CASE RecvFails \/ ReaderReports
  <2>1. Unread(i) = 0 /\ Unread(i)' = 0
    BY <1>8 DEF RecvFails, ReaderReports, Unread, Count, Gone
  <2>2. /\ Waiting(i)' = Waiting(i) /\ Admitted(i)' = Admitted(i)
        /\ Queued(i)' = Queued(i) /\ Leaving(i)' = Leaving(i) /\ owed'[i] = owed[i]
    BY <1>8
    DEF RecvFails, ReaderReports, queryVars, Waiting, Admitted, Queued, Answers, Leaving
  <2> QED BY <1>p, <1>d, <2>1, <2>2
<1>9. CASE WriterTakes
  <2>1. UNCHANGED <<reader, incoming, pending, owed>> /\ Leaving(i) = 0
    BY <1>9 DEF WriterTakes, TaskFrame, supVars, queryVars, Leaving, Count
  <2>2. Unread(i)' = Unread(i) /\ Waiting(i)' = Waiting(i) /\ Admitted(i)' = Admitted(i)
    BY <2>1 DEF Unread, Waiting, Admitted
  <2>3. CASE writer' = Gone /\ UNCHANGED outgoing
    <3>1. Leaving(i)' = 0 /\ Queued(i)' = Queued(i)
      BY <2>3 DEF Leaving, Count, Gone, Queued, Answers
    <3> QED BY <1>p, <1>d, <2>1, <2>2, <3>1
  <2>4. CASE /\ outgoing # <<>> /\ outgoing' = Tail(outgoing)
             /\ writer' = [at |-> "sending", msg |-> Head(outgoing)]
    <3>1. Leaving(i)' = Count(Head(outgoing) = Answer(i))
      BY <2>4 DEF Leaving, Count
    <3>2. Queued(i) = Queued(i)' + Leaving(i)'
      BY <2>4, <3>1, TailCount DEF TypeOK, Queued
    <3>3. Queued(i)' \in Nat
      <4>1. Tail(outgoing) \in Seq(ToDash)
        BY <2>4 DEF TypeOK
      <4> QED BY <2>4, <4>1, AnswersFinite DEF Queued
    <3> QED BY <1>p, <1>d, <1>n, <2>1, <2>2, <3>2, <3>3
  <2> QED BY <1>9, <2>3, <2>4 DEF WriterTakes
<1>10. CASE Sent
  <2>1. /\ Unread(i)' = Unread(i) /\ Waiting(i)' = Waiting(i)
        /\ Admitted(i)' = Admitted(i) /\ Queued(i)' = Queued(i)
    BY <1>10 DEF Sent, queryVars, Unread, Waiting, Admitted, Queued, Answers
  <2>2. Leaving(i)' = 0 /\ Leaving(i) = Count(writer.msg = Answer(i))
    BY <1>10 DEF Sent, Leaving, Count, Gone
  <2>3. owed'[i] = owed[i] - Count(writer.msg = Answer(i))
    <3>1. writer.msg \in ToDash \cup {Other}
      BY DEF TypeOK
    <3>2. CASE writer.msg.kind = "answer"
      BY <1>10, <1>p, <3>1, <3>2, Kinds DEF Sent, Count, TypeOK
    <3>3. CASE writer.msg.kind # "answer"
      BY <1>10, <1>p, <3>3, Kinds DEF Sent, Count
    <3> QED BY <3>2, <3>3
  <2> QED BY <1>p, <1>d, <2>1, <2>2, <2>3
<1>11. CASE SendFails \/ WriterReports
  <2>1. /\ Unread(i)' = Unread(i) /\ Waiting(i)' = Waiting(i)
        /\ Admitted(i)' = Admitted(i) /\ Queued(i)' = Queued(i) /\ owed'[i] = owed[i]
    BY <1>11
    DEF SendFails, WriterReports, queryVars, Unread, Waiting, Admitted, Queued, Answers
  <2>2. Leaving(i)' = 0 /\ ~Counting'
    BY <1>11 DEF SendFails, WriterReports, Leaving, Count, Gone, Counting
  <2> QED BY <1>p, <1>d, <2>1, <2>2
<1>12. CASE ConnectFails \/ NoSession \/ Retry
  BY <1>12, <1>f DEF ConnectFails, NoSession, Retry, streamVars, queryVars
<1>13. CASE SeeDone \/ SeeFailure \/ Check
  BY <1>13, <1>f DEF SeeDone, SeeFailure, Check, streamVars, queryVars
<1>14. ASSUME NEW j \in Jobs, JobStep(j) PROVE Goal
  BY <1>14, <1>f DEF JobStep, JobEnds, JobReports, Deadline, JobFrame, streamVars
<1>15. CASE HelperChanges \/ Stop
  BY <1>15, <1>f DEF HelperChanges, Stop, EnvFrame, streamVars, queryVars
<1>16. CASE Stopped \/ UNCHANGED vars
  BY <1>16, <1>f DEF Stopped, vars, streamVars, queryVars
<1> QED
  BY <1>1, <1>2, <1>3, <1>4, <1>5, <1>6, <1>7, <1>8, <1>9, <1>10, <1>11, <1>12, <1>13,
     <1>14, <1>15, <1>16
  DEF Next, SupervisorStep, LoopStep, StreamStep

\* Nothing is to come where everything is empty.
LEMMA DueNone ==
  ASSUME NEW i, reader.at = "off", writer.at = "off", incoming = <<>>, outgoing = <<>>,
         pending[i] = None
  PROVE  Due(i) = 0
<1>1. Unread(i) = 0 /\ Waiting(i) = 0 /\ Admitted(i) = 0 /\ Leaving(i) = 0
  BY DEF Unread, Waiting, Admitted, Leaving, Count
<1>2. Queued(i) = 0
  <2>1. Answers(outgoing, i) = {}
    BY DEF Answers
  <2> QED BY <2>1, FS_EmptySet DEF Queued
<1> QED BY <1>1, <1>2, DueParts

\* A step that ends in a working stream began in one, or opened the session.
LEMMA CountingBefore ==
  ASSUME [Next]_vars, ~Connect, Counting'
  PROVE  Counting
BY DEF Counting, Up, Next, SupervisorStep, LoopStep, StreamStep, JobStep, vars, supVars,
       streamVars, ConnectFails, NoSession, Retry, Drained, Supervise, SeeDone, SeeFailure,
       End, Complete, Admit, Take, TakeCancel, TakeOther, TakeBad, TakeBusy, Heartbeat, Check,
       Recv, Deliver, RecvFails, ReaderReports, WriterTakes, Sent, SendFails, WriterReports,
       JobEnds, JobReports, Deadline, JobFrame, TaskFrame, HelperChanges, Stop, EnvFrame,
       Stopped, Send, Continue, Gone

LEMMA AnswersStep ==
  ASSUME IInv, Clean, AnswersExact, [Next]_vars
  PROVE  AnswersExact'
<1> SUFFICES ASSUME NEW i \in Ids
             PROVE  Due(i)' <= owed'[i] /\ (Counting' => owed'[i] = Due(i)')
  BY AnswersParts
<1>1. CASE Connect
  <2>1. /\ incoming' = <<>> /\ outgoing' = <<>> /\ pending'[i] = None /\ owed'[i] = 0
        /\ reader'.at = "recv" /\ writer'.at = "idle"
    BY <1>1 DEF Connect, Clean, Resting, queryVars, Gone
  <2>2. Unread(i)' = 0 /\ Waiting(i)' = 0 /\ Admitted(i)' = 0 /\ Leaving(i)' = 0
    BY <2>1 DEF Unread, Waiting, Admitted, Leaving, Count
  <2>3. Queued(i)' = 0
    <3>1. Answers(outgoing', i) = {}
      BY <2>1 DEF Answers
    <3> QED BY <3>1, FS_EmptySet DEF Queued
  <2> QED BY <2>1, <2>2, <2>3, DueParts
<1>2. CASE Drained
  <2>1. /\ incoming' = <<>> /\ outgoing' = <<>> /\ pending'[i] = None /\ owed'[i] = 0
        /\ reader'.at = "off" /\ writer'.at = "off"
    BY <1>2 DEF Drained
  <2>2. Due(i)' = 0
    <3>1. Unread(i)' = 0 /\ Waiting(i)' = 0 /\ Admitted(i)' = 0 /\ Leaving(i)' = 0
      BY <2>1 DEF Unread, Waiting, Admitted, Leaving, Count
    <3>2. Queued(i)' = 0
      <4>1. Answers(outgoing', i) = {}
        BY <2>1 DEF Answers
      <4> QED BY <4>1, FS_EmptySet DEF Queued
    <3> QED BY <3>1, <3>2, DueParts
  <2> QED BY <2>1, <2>2
<1>3. CASE ~Connect /\ ~Drained
  <2>1. Margin(i)' >= Margin(i) /\ (Counting' => Margin(i)' = Margin(i))
    BY <1>3, MarginStep
  <2>2. Margin(i) >= 0 /\ (Counting' => Margin(i) = 0)
    <3>1. owed[i] \in Int /\ Due(i) \in Int
      BY PartsTyped, DueParts DEF IInv
    <3> QED BY <1>3, <3>1, CountingBefore, AnswersParts DEF Margin
  <2>3. owed'[i] \in Int /\ Due(i)' \in Int
    <3>1. TypeOK'
      BY TypeStep
    <3>2. /\ Unread(i)' \in Nat /\ Waiting(i)' \in Nat /\ Admitted(i)' \in Nat
          /\ Leaving(i)' \in Nat
      BY DEF Unread, Waiting, Admitted, Leaving, Count
    <3>3. Queued(i)' \in Nat
      BY <3>1, AnswersFinite DEF TypeOK, Queued
    <3> QED BY <3>1, <3>2, <3>3, DueParts DEF TypeOK
  <2>4. Margin(i) \in Int
    BY PartsTyped, DueParts DEF IInv, Margin
  <2> QED BY <2>1, <2>2, <2>3, <2>4 DEF Margin
<1> QED BY <1>1, <1>2, <1>3

\* Nothing but Drained ends in a resting state of the supervisor.
LEMMA CleanStep ==
  ASSUME IInv, Clean, [Next]_vars
  PROVE  Clean'
<1> SUFFICES ASSUME loop' \in Resting
             PROVE  /\ reader'.at = "off" /\ writer'.at = "off"
                    /\ incoming' = <<>> /\ outgoing' = <<>> /\ failures' = <<>>
                    /\ \A i \in Ids : pending'[i] = None /\ owed'[i] = 0
  BY DEF Clean
<1>1. CASE Drained
  BY <1>1 DEF Drained
<1>2. CASE ~Drained
  <2>1. loop \in Resting
    BY <1>2
    DEF Resting, Next, SupervisorStep, LoopStep, StreamStep, JobStep, vars, supVars,
        Connect, ConnectFails, NoSession, Retry, SeeDone, SeeFailure, End, Complete, Admit,
        Take, TakeCancel, TakeOther, TakeBad, TakeBusy, Heartbeat, Check, Recv, Deliver,
        RecvFails, ReaderReports, WriterTakes, Sent, SendFails, WriterReports, JobEnds,
        JobReports, Deadline, JobFrame, TaskFrame, HelperChanges, Stop, EnvFrame, Stopped,
        Send, Continue
  <2>2. \A j \in Jobs : job[j].at = "free"
    BY <2>1 DEF IInv, NoneLeft, Resting, Busy
  <2>3. UNCHANGED <<reader, writer, incoming, outgoing, failures, pending, owed>>
    BY <1>2, <2>1, <2>2
    DEF Clean, Resting, Next, SupervisorStep, LoopStep, StreamStep, JobStep, vars,
        streamVars, queryVars, Connect, ConnectFails, NoSession, Retry, SeeDone, SeeFailure,
        Complete, Admit, Take, TakeCancel, TakeOther, TakeBad, TakeBusy, Heartbeat, Check,
        Recv, Deliver, RecvFails, ReaderReports, WriterTakes, Sent, SendFails, WriterReports,
        JobEnds, JobReports, Deadline, JobFrame, HelperChanges, Stop, EnvFrame, Stopped, Done
  <2> QED BY <2>1, <2>3 DEF Clean
<1> QED BY <1>1, <1>2

\* What the reader and the writer still have to report, and what they reported.
ReaderLives == Count(reader.at # "off")
WriterLives == Count(writer.at # "off")
Failing == Len(failures) + ReaderLives + WriterLives

LEMMA LivesTyped ==
  /\ ReaderLives \in 0..1 /\ (ReaderLives = 0 <=> reader.at = "off")
  /\ WriterLives \in 0..1 /\ (WriterLives = 0 <=> writer.at = "off")
  /\ ReaderLives' \in 0..1 /\ (ReaderLives' = 0 <=> reader'.at = "off")
  /\ WriterLives' \in 0..1 /\ (WriterLives' = 0 <=> writer'.at = "off")
BY DEF ReaderLives, WriterLives, Count

\* Each of the two puts at most one error into failures.
LEMMA FailingStep ==
  ASSUME TypeOK, Clean, Failing <= 2, [Next]_vars
  PROVE  Failing' <= 2
<1>t. failures \in Seq(Errors) /\ Len(failures) \in Nat
  BY DEF TypeOK
<1>n. /\ Failing = Len(failures) + ReaderLives + WriterLives
      /\ Failing' = Len(failures') + ReaderLives' + WriterLives'
  BY DEF Failing
<1>f. ASSUME UNCHANGED <<failures, reader, writer>> PROVE Failing' <= 2
  BY <1>f DEF Failing, ReaderLives, WriterLives
<1>1. CASE Connect
  <2>1. failures' = <<>>
    BY <1>1 DEF Connect, Clean, Resting
  <2>2. Len(failures') = 0
    BY <2>1
  <2>3. Failing' = 0 + ReaderLives' + WriterLives'
    BY <1>n, <2>2
  <2>4. ReaderLives' \in 0..1 /\ WriterLives' \in 0..1
    BY LivesTyped
  <2>5. \A r, w \in 0..1 : 0 + r + w <= 2
    OBVIOUS
  <2>6. 0 + ReaderLives' + WriterLives' <= 2
    BY ONLY <2>4, <2>5
  <2> QED BY ONLY <2>3, <2>6
<1>2. CASE Drained
  <2>1. Len(failures') = 0
    BY <1>2 DEF Drained
  <2>2. Failing' = 0 + ReaderLives' + WriterLives'
    BY <1>n, <2>1
  <2>3. ReaderLives' \in 0..1 /\ WriterLives' \in 0..1
    BY LivesTyped
  <2>4. \A r, w \in 0..1 : 0 + r + w <= 2
    OBVIOUS
  <2>5. 0 + ReaderLives' + WriterLives' <= 2
    BY ONLY <2>3, <2>4
  <2> QED BY ONLY <2>2, <2>5
<1>3. CASE SeeFailure
  <2>1. failures # <<>> /\ failures' = Tail(failures) /\ reader' = reader /\ writer' = writer
    BY <1>3 DEF SeeFailure
  <2>2. Len(Tail(failures)) \in Nat /\ Len(Tail(failures)) <= Len(failures)
    BY <1>t, <2>1
  <2>3. ReaderLives' = ReaderLives /\ WriterLives' = WriterLives
    BY <2>1 DEF ReaderLives, WriterLives
  <2> QED BY <1>t, <1>n, <2>1, <2>2, <2>3, LivesTyped
<1>4. CASE ReaderReports
  <2>1. PICK e \in Errors : failures' = Append(failures, e)
    BY <1>4 DEF ReaderReports
  <2>2. Len(failures') = Len(failures) + 1
    BY <1>t, <2>1
  <2>3. reader.at # "off" /\ reader'.at = "off" /\ WriterLives' = WriterLives
    BY <1>4 DEF ReaderReports, Gone, WriterLives
  <2> QED BY <1>t, <1>n, <2>2, <2>3, LivesTyped
<1>5. CASE WriterReports
  <2>1. PICK e \in Errors : failures' = Append(failures, e)
    BY <1>5 DEF WriterReports
  <2>2. Len(failures') = Len(failures) + 1
    BY <1>t, <2>1
  <2>3. writer.at # "off" /\ writer'.at = "off" /\ ReaderLives' = ReaderLives
    BY <1>5 DEF WriterReports, Gone, ReaderLives
  <2> QED BY <1>t, <1>n, <2>2, <2>3, LivesTyped
<1>6. CASE Deliver \/ RecvFails \/ \E m \in FromDash : Recv(m)
  <2>1. failures' = failures /\ writer' = writer /\ reader.at # "off"
    BY <1>6 DEF Deliver, RecvFails, Recv
  <2>2. WriterLives' = WriterLives
    BY <2>1 DEF WriterLives
  <2> QED BY <1>t, <1>n, <2>1, <2>2, LivesTyped
<1>7. CASE WriterTakes \/ Sent \/ SendFails
  <2>1. failures' = failures /\ reader' = reader /\ writer.at # "off"
    BY <1>7 DEF WriterTakes, Sent, SendFails
  <2>2. ReaderLives' = ReaderLives
    BY <2>1 DEF ReaderLives
  <2> QED BY <1>t, <1>n, <2>1, <2>2, LivesTyped
<1>8. CASE ConnectFails \/ NoSession \/ Retry
  BY <1>8, <1>f DEF ConnectFails, NoSession, Retry, streamVars
<1>9. CASE \/ SeeDone \/ TakeCancel \/ TakeOther \/ TakeBad \/ TakeBusy \/ Heartbeat \/ Check
           \/ \E j \in Jobs : Complete(j) \/ Admit(j)
  BY <1>9, <1>f
  DEF SeeDone, TakeCancel, TakeOther, TakeBad, TakeBusy, Take, Heartbeat, Check, Complete,
      Admit, streamVars
<1>10. CASE \E j \in Jobs : JobStep(j)
  BY <1>10, <1>f DEF JobStep, JobEnds, JobReports, Deadline, JobFrame, streamVars
<1>11. CASE HelperChanges \/ Stop \/ Stopped \/ UNCHANGED vars
  BY <1>11, <1>f DEF HelperChanges, Stop, EnvFrame, Stopped, vars, streamVars
<1> QED
  BY <1>1, <1>2, <1>3, <1>4, <1>5, <1>6, <1>7, <1>8, <1>9, <1>10, <1>11
  DEF Next, SupervisorStep, LoopStep, StreamStep

\* "completed <- result" always has room, since finished queries count as pending and
\* MaxPending <= CompletedCap, and so has "failures <- err", since the reader and the
\* writer report once each: tasks.Wait() does not wait for a blocked sender.
THEOREM ReportsFit == Spec => []ReportsNeverBlock
<1>1. ASSUME IInv, NEW j \in Jobs, job[j].at = "reporting"
      PROVE  Cardinality(Completed) < CompletedCap
  <2>1. Completed \subseteq Busy \ {j} /\ j \in Busy
    BY <1>1 DEF Completed, Busy
  <2>2. IsFiniteSet(Busy) /\ Cardinality(Busy) \in Nat
    BY SessionAssumption, Finite DEF Busy
  <2>3. IsFiniteSet(Busy \ {j}) /\ Cardinality(Busy \ {j}) = Cardinality(Busy) - 1
    BY <2>1, <2>2, FS_RemoveElement
  <2>4. Cardinality(Completed) \in Nat /\ Cardinality(Completed) <= Cardinality(Busy \ {j})
    BY <2>1, <2>3, Finite
  <2> QED BY <1>1, <2>2, <2>3, <2>4, SessionAssumption DEF IInv, WorkBounded
<1>2. ASSUME IInv, Failing <= 2, reader.at = "failed" \/ writer.at = "failed"
      PROVE  FailureRoom
  <2>1. Len(failures) \in Nat
    BY <1>2 DEF IInv, TypeOK
  <2>2. ReaderLives = 1 \/ WriterLives = 1
    BY <1>2, LivesTyped
  <2> QED BY <1>2, <2>1, <2>2, LivesTyped, SessionAssumption DEF Failing, FailureRoom
<1>3. IInv /\ Failing <= 2 => ReportsNeverBlock
  BY <1>1, <1>2 DEF ReportsNeverBlock
<1>4. Init => Clean /\ Failing <= 2
  <2>1. Init => Clean /\ Len(failures) = 0
    BY DEF Init, Clean, Gone
  <2> QED BY <2>1, LivesTyped DEF Failing
<1>5. IInv /\ Clean /\ Failing <= 2 /\ [Next]_vars => Clean' /\ (Failing <= 2)'
  BY CleanStep, FailingStep DEF IInv
<1> QED BY <1>3, <1>4, <1>5, Inductive, PTL DEF Spec

\* The accounts of querySession and of the dashboard agree: every answer still to come
\* is owed, also while the session ends, and while the stream works each query has
\* exactly one, whatever was cancelled, refused or repeated.
THEOREM EveryQueryAnsweredOnce == Spec => []AnswersExact
<1>1. Init => Clean
  BY DEF Init, Clean, Gone
<1>2. Init => AnswersExact
  <2> SUFFICES ASSUME Init, NEW i \in Ids PROVE Due(i) = 0 /\ owed[i] = 0
    BY DEF AnswersExact
  <2> QED BY DueNone DEF Init, Gone
<1>3. IInv /\ Clean /\ AnswersExact /\ [Next]_vars => Clean' /\ AnswersExact'
  BY CleanStep, AnswersStep
<1> QED BY <1>1, <1>2, <1>3, Inductive, PTL DEF Spec

-----------------------------------------------------------------------------
(* querySession implements QueryService *)

\* A stream that is read or written to belongs to an open session.
LEMMA OpenStreams ==
  ASSUME TypeOK, Clean, reader.at # "off" \/ writer.at # "off"
  PROVE  loop \in {"select", "draining"}
BY DEF TypeOK, Clean, Resting

\* Every step is one of the service's, or one it does not see.
LEMMA ServiceStep ==
  ASSUME IInv, Clean, AnswersExact, [Next]_vars
  PROVE  [Service!Next]_<<loop \in {"select", "draining"}, owed>>
<1> DEFINE open == loop \in {"select", "draining"}
<1>f. ASSUME open' = open, owed' = owed PROVE [Service!Next]_<<open, owed>>
  BY <1>f
<1>o. owed \in [Ids -> Int]
  BY DEF IInv, TypeOK
<1>1. CASE Connect
  BY <1>1 DEF Connect, Service!Next, Service!Open
<1>2. CASE Drained
  BY <1>2 DEF Drained, Supervise, Service!Next, Service!Close, Service!NoQueries
<1>3. ASSUME NEW m \in FromDash, Recv(m) PROVE [Service!Next]_<<open, owed>>
  <2>1. open /\ open' = open
    BY <1>3, OpenStreams DEF Recv, TaskFrame, IInv
  <2>2. CASE m.kind = "query"
    <3>1. m.id \in Ids /\ owed' = [owed EXCEPT ![m.id] = owed[m.id] + 1]
      BY <1>3, <2>2, MessageIds DEF Recv
    <3> QED BY <2>1, <3>1 DEF Service!Next, Service!Ask
  <2>3. CASE m.kind # "query"
    BY <1>3, <2>1, <2>3 DEF Recv
  <2> QED BY <2>2, <2>3
<1>4. CASE Sent
  <2>1. open /\ open' = open
    BY <1>4, OpenStreams DEF Sent, TaskFrame, IInv
  <2>2. CASE writer.msg.kind = "answer"
    <3> DEFINE i == writer.msg.id
    <3>1. i \in Ids /\ writer.msg = Answer(i)
      BY <2>2, MessageIds, Kinds DEF IInv, TypeOK, Other
    <3>2. Leaving(i) = 1
      BY <1>4, <3>1 DEF Sent, Leaving, Count
    <3>3. owed[i] > 0
      <4>1. Due(i) <= owed[i]
        BY <3>1 DEF AnswersExact
      <4> QED BY <3>1, <3>2, <4>1, PartsTyped, DueParts DEF IInv
    <3>4. owed' = [owed EXCEPT ![i] = owed[i] - 1]
      BY <1>4, <2>2 DEF Sent
    <3> HIDE DEF i
    <3> QED BY <2>1, <3>1, <3>3, <3>4 DEF Service!Next, Service!Reply
  <2>3. CASE writer.msg.kind # "answer"
    BY <1>4, <2>1, <2>3 DEF Sent
  <2> QED BY <2>2, <2>3
<1>5. CASE ConnectFails \/ NoSession \/ Retry
  BY <1>5, <1>f DEF ConnectFails, Supervise, NoSession, Retry
<1>6. CASE LoopStep
  BY <1>6, <1>f
  DEF LoopStep, SeeDone, SeeFailure, Complete, Admit, Take, TakeCancel, TakeOther, TakeBad,
      TakeBusy, Heartbeat, Check, Send, End, Continue
<1>7. CASE Deliver \/ RecvFails \/ ReaderReports \/ WriterTakes \/ SendFails \/ WriterReports
  BY <1>7, <1>f
  DEF Deliver, RecvFails, ReaderReports, WriterTakes, SendFails, WriterReports, TaskFrame
<1>8. CASE \E j \in Jobs : JobStep(j)
  BY <1>8, <1>f DEF JobStep, JobEnds, JobReports, Deadline, JobFrame, TaskFrame
<1>9. CASE HelperChanges \/ Stop \/ Stopped \/ UNCHANGED vars
  BY <1>9, <1>f DEF HelperChanges, Stop, EnvFrame, Stopped, vars
<1> QED
  BY <1>1, <1>2, <1>3, <1>4, <1>5, <1>6, <1>7, <1>8, <1>9
  DEF Next, SupervisorStep, StreamStep

\* A session is a QueryService to its dashboard: nothing is answered that was not asked
\* in the same session, and nothing twice, whatever fails while it ends.
THEOREM Refinement == Spec => ImplementsService
<1>1. Init => Clean /\ AnswersExact
  <2>1. Init => Clean
    BY DEF Init, Clean, Gone
  <2>2. ASSUME Init, NEW i \in Ids PROVE Due(i) = 0 /\ owed[i] = 0
    BY <2>2, DueNone DEF Init, Gone
  <2> QED BY <2>1, <2>2 DEF AnswersExact
<1>2. IInv /\ Clean /\ AnswersExact /\ [Next]_vars => Clean' /\ AnswersExact'
  BY CleanStep, AnswersStep
<1>3. Init => Service!Init
  BY DEF Init, Service!Init, Service!NoQueries
<1>4. IInv /\ Clean /\ AnswersExact /\ [Next]_vars
        => [Service!Next]_<<loop \in {"select", "draining"}, owed>>
  BY ServiceStep
<1> QED BY <1>1, <1>2, <1>3, <1>4, Inductive, PTL DEF Spec, ImplementsService, Service!Spec
=============================================================================
