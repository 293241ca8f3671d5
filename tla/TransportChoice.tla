--------------------------- MODULE TransportChoice ---------------------------
(***************************************************************************)
(* What the transports of a target promise (docs/reporting_apis.md, "RPC   *)
(* transport"): the transports a configuration permits are narrowed down,  *)
(* never widened; nothing is reported before HTTP and gRPC have been told  *)
(* apart; so no report is offered over both.                               *)
(***************************************************************************)
CONSTANT Callers
VARIABLES choices, \* the transports reports may still be offered over
          sent     \* those the present report of each caller was offered over

Transports == {"grpc", "https", "http"}

\* The choice between gRPC and HTTP has been made.
Selected == "grpc" \in choices => choices = {"grpc"}

Init ==
  /\ choices \in SUBSET Transports
  /\ sent = [c \in Callers |-> {}]

Narrow == choices' \subseteq choices /\ choices' # choices /\ UNCHANGED sent

NewReport(c) == sent' = [sent EXCEPT ![c] = {}] /\ UNCHANGED choices

Offer(c, x) ==
  /\ Selected /\ x \in choices
  /\ sent' = [sent EXCEPT ![c] = @ \cup {x}]
  /\ UNCHANGED choices

Next ==
  \/ Narrow
  \/ \E c \in Callers : NewReport(c) \/ \E x \in Transports : Offer(c, x)

Spec == Init /\ [][Next]_<<choices, sent>>

\* "A report with an uncertain ACK is never replayed over another transport."
NeverReplayed == \A c \in Callers : "grpc" \in sent[c] => sent[c] = {"grpc"}
=============================================================================
