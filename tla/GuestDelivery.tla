---------------------------- MODULE GuestDelivery ----------------------------
(***************************************************************************)
(* The delivery of guest snapshots (internal/push/virt.go) over the        *)
(* transport of one target: the loop asks the helper (internal/virt, the   *)
(* /snapshot handler of internal/pve) every few seconds, keeps the latest  *)
(* snapshot and offers it until the target has accepted it.                *)
(*                                                                         *)
(* A snapshot is what the helper answered or, its VMs kept and its status  *)
(* set to error, Silent.  The pauses between two rounds are left out, and  *)
(* the other callers of RpcTransport do what they do there.                *)
(***************************************************************************)
EXTENDS RpcTransport

CONSTANTS
  Virt,      \* the reporter that is the delivery loop
  Answers,   \* what a helper that answers says: the VMs, or that it has no inventory
  Silent,    \* no answer in 2 s, or one that is invalid
  Nothing,   \* no snapshot yet
  MaxTurns   \* bound on the changes of the answer

ASSUME DeliveryAssumption ==
  /\ Virt \in Reporters /\ MaxTurns \in Nat
  /\ Silent \notin Answers /\ Nothing \notin Answers \cup {Silent}

VARIABLES
  answer,     \* what GET /snapshot returns
  turns,
  snapshot,   \* the snapshot of the loop
  readError,  \* its message about a failing call is set
  unsent,     \* snapshot.CollectedAt is not sent
  dash        \* the snapshot that the target shows

helper == <<answer, turns>>
loop == <<snapshot, readError, unsent, dash>>
delivery == <<helper, loop>>
deliveryVars == <<vars, delivery>>

HelperAnswers == Answers \cup {Silent}

\* The call fails, or its reply is no valid snapshot.
Unanswered == answer = Silent

InitDelivery ==
  /\ Init
  /\ answer \in HelperAnswers /\ turns = 0
  /\ snapshot = Nothing /\ readError = FALSE /\ unsent = FALSE /\ dash = Nothing

Turn ==
  /\ turns < MaxTurns /\ turns' = turns + 1
  /\ answer' \in HelperAnswers \ {answer}
  /\ UNCHANGED <<vars, loop>>

\* A snapshot that the helper gives has a time of its own and is always new; a failing
\* call makes the last one new, once, and leaves its VMs.
ReadErrorAfter_Kept == readError \/ Unanswered
ReadErrorAfter == Unanswered

Fetch ==
  /\ readError' = ReadErrorAfter
  /\ \/ /\ ~Unanswered
        /\ snapshot' = answer /\ unsent' = TRUE
     \/ /\ Unanswered /\ ~readError
        /\ snapshot' = Silent /\ unsent' = TRUE
     \/ /\ Unanswered /\ readError
        /\ UNCHANGED <<snapshot, unsent>>

\* One turn of the loop: nothing is offered that the target has accepted.
Read ==
  /\ at[Virt] = "idle" /\ ~stopping
  /\ Fetch
  /\ IF unsent' THEN Begin(Virt) ELSE UNCHANGED vars
  /\ UNCHANGED <<helper, dash>>

\* The target stores what it accepts; an answer that is lost tells nothing.
Accepted_AnyAnswer == {"accepted", "refused"}
Accepted == {"accepted"}

Outcome(result) ==
  /\ dash' \in CASE result = "accepted" -> {snapshot}
                 [] result = "refused" -> {dash}
                 [] result = "lost" -> {dash, snapshot}
  /\ unsent' = (result \notin Accepted)
  /\ UNCHANGED <<helper, snapshot, readError>>

DeliverRPC == SendRPC(Virt) /\ \E result \in {"accepted", "refused", "lost"} : Outcome(result)

DeliverHTTP ==
  /\ SendHTTP(Virt)
  /\ \E result \in IF at'[Virt] = "failed" THEN {"lost"} ELSE {"accepted", "refused"} :
       Outcome(result)

\* The other steps: sendVirt repeats the request at once when the scheme was changed; its probes end
\* early only when the agent stops.
Transport(c) ==
  \/ Take(c) \/ ProbeOk(c) \/ ProbeRefused(c) \/ ProbeUnusable(c) \/ FallBack(c) \/ Fail(c)
  \/ ProbeCancelled(c) /\ (c = Virt => stopping)
  \/ Downgrade(c) /\ (c = Virt => at'[c] = "http")
  \/ c # Virt /\ (Begin(c) \/ SendRPC(c) \/ SendHTTP(c))

NextDelivery ==
  \/ Turn \/ Read \/ DeliverRPC \/ DeliverHTTP
  \/ /\ (\E c \in Callers : Transport(c)) \/ SessionEnds \/ Minute \/ Stop \/ Close
     /\ UNCHANGED delivery

SpecDelivery == InitDelivery /\ [][NextDelivery]_deliveryVars

\* Besides the fairness of the transport: the loop goes on, and a target that is asked
\* again and again accepts in the end.
FairSpecDelivery ==
  /\ SpecDelivery /\ Fairness
  /\ WF_deliveryVars(Read)
  /\ SF_deliveryVars((DeliverRPC \/ DeliverHTTP) /\ dash' = snapshot /\ ~unsent')

-----------------------------------------------------------------------------

\* The marker is honest: what the loop no longer offers is what the target shows,
\* whatever was lost, refused or sent twice in between (virt.go:60, "sent").
SentIsShown == ~unsent => dash = snapshot

\* Once the helper settles, to any answer or to none, the target comes to show it and
\* keeps showing it, unless the agent stops or the target goes on rejecting it: a failure
\* after a recovery is news again, and a failure that is repeated hides nothing.
DashboardLearns == <>[](dash = answer) \/ <>stopping \/ []<>(probeErr # "none")
=============================================================================
