------------------------- MODULE RpcTransportProofs -------------------------
(***************************************************************************)
(* Proofs about RpcTransport, for any reporters and modes.                 *)
(***************************************************************************)
EXTENDS GuestDelivery, TLAPS

\* The invariant holds at first ...
LEMMA InitInv == Init => IInv
<1> SUFFICES ASSUME Init PROVE IInv
  OBVIOUS
<1> USE TransportAssumption DEF Init, Callers
<1>1. TypeOK
  <2>1. /\ useHTTP \in BOOLEAN /\ client \in BOOLEAN /\ due \in BOOLEAN
        /\ strict \in BOOLEAN /\ https \in BOOLEAN /\ tls \in BOOLEAN
        /\ stopping \in BOOLEAN /\ closed \in BOOLEAN
    OBVIOUS
  <2>2. url \in [Callers -> BOOLEAN]
    OBVIOUS
  <2>3. /\ mode \in Modes /\ mu \in Callers \cup {Nobody}
        /\ probeErr \in {"none", "rejected", "limited"} /\ open \in 0..1
        /\ at \in [Callers -> {"idle", "ask", "probe", "grpc", "http", "failed", "fallback", "over"}]
        /\ sent \in [Callers -> SUBSET {"grpc", "https", "http"}]
    OBVIOUS
  <2> QED BY <2>1, <2>2, <2>3 DEF TypeOK
<1>2. ConnectionsOwned
  BY DEF ConnectionsOwned
<1>3. ProbesDecide
  BY DEF ProbesDecide
<1>4. ToldIsTrue
  BY DEF ToldIsTrue
<1>5. Secure
  BY DEF Secure
<1> QED BY <1>1, <1>2, <1>3, <1>4, <1>5 DEF IInv

\* ... after a caller asks for the transport, ...
LEMMA TakeInv ==
  ASSUME IInv, NEW c \in Callers, Begin(c) \/ Take(c) PROVE IInv'
<1> USE TransportAssumption
    DEF IInv, TypeOK, ConnectionsOwned, ProbesDecide, ToldIsTrue, Secure, Callers, Go, config, rpc
<1>1. CASE Begin(c)
  BY <1>1 DEF Begin
<1>2. CASE Refused(c)
  BY <1>2 DEF Refused, AfterError, Barred
<1>3. CASE ToldHTTP(c)
  BY <1>3 DEF ToldHTTP, AfterHTTP, Barred
<1>4. CASE ToldClient(c)
  BY <1>4 DEF ToldClient, Barred
<1>5. CASE NewClient(c)
  BY <1>5 DEF NewClient, NoClientYet, Barred
<1>6. CASE Probe(c)
  <2>1. TypeOK'
    <3>1. open' = 1 /\ due' = FALSE
      BY <1>6 DEF Probe, NoClientYet, Barred
    <3>2. /\ at' = [at EXCEPT ![c] = "probe"]
          /\ mu' = c /\ probeErr' = "none"
      BY <1>6 DEF Probe
    <3>3. /\ UNCHANGED <<mode, strict, https, tls, useHTTP, client>>
          /\ UNCHANGED <<url, sent, stopping, closed>>
      BY <1>6 DEF Probe
    <3>4. at' \in [Callers -> {"idle", "ask", "probe", "grpc", "http", "failed", "fallback", "over"}]
      BY <3>2
    <3>5. /\ mode' \in Modes /\ mu' \in Callers \cup {Nobody} /\ open' \in 0..1
          /\ probeErr' \in {"none", "rejected", "limited"}
          /\ sent' \in [Callers -> SUBSET {"grpc", "https", "http"}]
      BY <3>1, <3>2, <3>3
    <3>6. /\ strict' \in BOOLEAN /\ https' \in BOOLEAN /\ tls' \in BOOLEAN
          /\ useHTTP' \in BOOLEAN /\ client' \in BOOLEAN /\ due' \in BOOLEAN
          /\ url' \in [Callers -> BOOLEAN]
          /\ stopping' \in BOOLEAN /\ closed' \in BOOLEAN
      BY <3>1, <3>3
    <3> QED BY <3>4, <3>5, <3>6
  <2>2. ConnectionsOwned'
    BY <1>6 DEF Probe, NoClientYet, Barred
  <2>3. ProbesDecide'
    BY <1>6 DEF Probe, NoClientYet, Barred
  <2>4. ToldIsTrue'
    BY <1>6 DEF Probe, NoClientYet, Barred
  <2>5. Secure'
    BY <1>6 DEF Probe, NoClientYet, Barred
  <2> QED BY <2>1, <2>2, <2>3, <2>4, <2>5
<1> QED BY <1>1, <1>2, <1>3, <1>4, <1>5, <1>6 DEF Take

\* ... after a probe ends, ...
LEMMA AnswerInv ==
  ASSUME IInv, NEW c \in Callers, Answer(c) PROVE IInv'
<1> USE TransportAssumption
    DEF IInv, TypeOK, ConnectionsOwned, ProbesDecide, ToldIsTrue, Secure, Callers, Go, config, rpc
<1>1. CASE ProbeOk(c)
  BY <1>1 DEF ProbeOk
<1>2. CASE ProbeRefused(c)
  <2>1. TypeOK'
    <3>1. open' = 0 /\ due' = FALSE
      BY <1>2 DEF ProbeRefused, Closed
    <3>2. /\ at' = [at EXCEPT ![c] = "over"] \/ at' = [at EXCEPT ![c] = "idle"]
          /\ mu' = Nobody /\ probeErr' \in {"none", "rejected", "limited"}
      BY <1>2 DEF ProbeRefused, AfterError
    <3>3. /\ UNCHANGED <<mode, strict, https, tls, useHTTP, client>>
          /\ UNCHANGED <<url, sent, stopping, closed>>
      BY <1>2 DEF ProbeRefused
    <3>4. at' \in [Callers -> {"idle", "ask", "probe", "grpc", "http", "failed", "fallback", "over"}]
      BY <3>2
    <3>5. /\ mode' \in Modes /\ mu' \in Callers \cup {Nobody} /\ open' \in 0..1
          /\ probeErr' \in {"none", "rejected", "limited"}
          /\ sent' \in [Callers -> SUBSET {"grpc", "https", "http"}]
      BY <3>1, <3>2, <3>3
    <3>6. /\ strict' \in BOOLEAN /\ https' \in BOOLEAN /\ tls' \in BOOLEAN
          /\ useHTTP' \in BOOLEAN /\ client' \in BOOLEAN /\ due' \in BOOLEAN
          /\ url' \in [Callers -> BOOLEAN]
          /\ stopping' \in BOOLEAN /\ closed' \in BOOLEAN
      BY <3>1, <3>3
    <3> QED BY <3>4, <3>5, <3>6
  <2>2. ConnectionsOwned'
    BY <1>2 DEF ProbeRefused, AfterError, Closed
  <2>3. ProbesDecide'
    BY <1>2 DEF ProbeRefused, AfterError, Closed
  <2>4. ToldIsTrue'
    BY <1>2 DEF ProbeRefused, AfterError, Closed
  <2>5. Secure'
    BY <1>2 DEF ProbeRefused, AfterError, Closed
  <2> QED BY <2>1, <2>2, <2>3, <2>4, <2>5
<1>3. CASE ProbeUnusable(c)
  BY <1>3 DEF ProbeUnusable, AfterHTTP, Closed
<1>4. CASE ProbeCancelled(c)
  BY <1>4 DEF ProbeCancelled, Closed
<1> QED BY <1>1, <1>2, <1>3, <1>4 DEF Answer

\* ... after a step of a report, ...
LEMMA ReportInv ==
  ASSUME IInv, NEW c \in Callers, Report(c) PROVE IInv'
<1> USE TransportAssumption
    DEF IInv, TypeOK, ConnectionsOwned, ProbesDecide, ToldIsTrue, Secure, Callers, Go, config, rpc
<1>1. CASE SendRPC(c)
  BY <1>1 DEF SendRPC, AfterRPCError
<1>2. CASE SendHTTP(c)
  BY <1>2 DEF SendHTTP
<1>3. CASE FallBack(c)
  BY <1>3 DEF FallBack, MayFallBack
<1>4. CASE Fail(c)
  BY <1>4 DEF Fail
<1>5. CASE Downgrade(c)
  BY <1>5 DEF Downgrade
<1> QED BY <1>1, <1>2, <1>3, <1>4, <1>5 DEF Report

\* ... and after every other step.
LEMMA NextInv == IInv /\ [Next]_vars => IInv'
<1> SUFFICES ASSUME IInv, [Next]_vars PROVE IInv'
  OBVIOUS
<1> USE TransportAssumption
<1>1. CASE SessionEnds
  BY <1>1 DEF SessionEnds, Go, config, rpc,
              IInv, TypeOK, ConnectionsOwned, ProbesDecide, ToldIsTrue, Secure, Callers
<1>2. CASE Minute
  BY <1>2 DEF Minute, config,
              IInv, TypeOK, ConnectionsOwned, ProbesDecide, ToldIsTrue, Secure, Callers
<1>3. CASE Stop
  BY <1>3 DEF Stop, config, rpc,
              IInv, TypeOK, ConnectionsOwned, ProbesDecide, ToldIsTrue, Secure, Callers
<1>4. CASE Close
  BY <1>4 DEF Close, Closed, config, rpc,
              IInv, TypeOK, ConnectionsOwned, ProbesDecide, ToldIsTrue, Secure, Callers
<1>5. CASE UNCHANGED vars
  BY <1>5 DEF vars, config, rpc,
              IInv, TypeOK, ConnectionsOwned, ProbesDecide, ToldIsTrue, Secure, Callers
<1> QED BY <1>1, <1>2, <1>3, <1>4, <1>5, TakeInv, AnswerInv, ReportInv DEF Next

\* The choice of a transport and what its callers were told agree, at every step
\* of rpcClient and of those that call it.
THEOREM Inductive == Spec => []IInv
BY InitInv, NextInv, PTL DEF Spec

\* Type correctness; one connection is open at most.
THEOREM TypeCorrect == Spec => []TypeOK
<1>1. IInv => TypeOK
  BY DEF IInv
<1> QED BY <1>1, Inductive, PTL

\* What settles the transport stays: a probe is not repeated, and a rejection is
\* never forgotten.
LEMMA SettledStays ==
  ASSUME IInv, [Next]_vars
  PROVE  /\ UNCHANGED mode /\ UNCHANGED https /\ UNCHANGED strict
         /\ client => client'
         /\ useHTTP => useHTTP'
         /\ probeErr = "rejected" => probeErr' = "rejected"
<1> USE DEF config, rpc
<1>1. ASSUME NEW c \in Callers, Begin(c) \/ Take(c)
      PROVE  /\ UNCHANGED mode /\ UNCHANGED https /\ UNCHANGED strict
             /\ client => client'
             /\ useHTTP => useHTTP'
             /\ probeErr = "rejected" => probeErr' = "rejected"
  BY <1>1 DEF Begin, Take, Refused, ToldHTTP, ToldClient, NewClient, Probe, NoClientYet, Barred
<1>2. ASSUME NEW c \in Callers, Answer(c)
      PROVE  /\ UNCHANGED mode /\ UNCHANGED https /\ UNCHANGED strict
             /\ client => client'
             /\ useHTTP => useHTTP'
             /\ probeErr = "rejected" => probeErr' = "rejected"
  BY <1>2, TransportAssumption
     DEF Answer, ProbeOk, ProbeRefused, ProbeUnusable, ProbeCancelled, IInv, ProbesDecide, Callers
<1>3. ASSUME NEW c \in Callers, Report(c)
      PROVE  UNCHANGED <<mode, https, strict, client, useHTTP, probeErr>>
  BY <1>3 DEF Report, SendRPC, SendHTTP, FallBack, Fail, Downgrade
<1>4. CASE SessionEnds \/ Minute \/ Stop \/ Close
  BY <1>4 DEF SessionEnds, Minute, Stop, Close
<1>5. CASE UNCHANGED vars
  BY <1>5 DEF vars
<1> QED BY <1>1, <1>2, <1>3, <1>4, <1>5 DEF Next

\* A session gives up for good only when the transport is settled.
THEOREM SessionSettled == Spec => []SessionOverIsSettled
<1>1. Init => SessionOverIsSettled
  BY DEF Init, SessionOverIsSettled, Callers
<1>2. IInv /\ SessionOverIsSettled /\ [Next]_vars => SessionOverIsSettled'
  <2> SUFFICES ASSUME IInv, SessionOverIsSettled, [Next]_vars,
                      at'[Session] = "over", at[Session] # "over"
               PROVE  client' \/ useHTTP' \/ mode' = "http" \/ probeErr' = "rejected"
    BY SettledStays DEF SessionOverIsSettled
  <2> USE TransportAssumption DEF Go
  <2>1. at \in [Callers -> {"idle", "ask", "probe", "grpc", "http", "failed", "fallback", "over"}]
    BY DEF IInv, TypeOK
  <2>0. Session \in Callers
    BY DEF Callers
  <2>2. ASSUME NEW c \in Callers, Begin(c) \/ Take(c)
        PROVE  client' \/ useHTTP' \/ mode' = "http" \/ probeErr' = "rejected"
    BY <2>0, <2>1, <2>2 DEF Begin, Take, Refused, AfterError, Barred, ToldHTTP, AfterHTTP, ToldClient,
                      NewClient, Probe, config, rpc
  <2>3. ASSUME NEW c \in Callers, Answer(c)
        PROVE  client' \/ useHTTP' \/ mode' = "http" \/ probeErr' = "rejected"
    BY <2>0, <2>1, <2>3 DEF Answer, ProbeOk, ProbeRefused, AfterError, ProbeUnusable, ProbeCancelled
  <2>4. ASSUME NEW c \in Callers, Report(c) PROVE FALSE
    BY <2>0, <2>1, <2>4 DEF Report, SendRPC, AfterRPCError, SendHTTP, FallBack, Fail, Downgrade
  <2>5. CASE SessionEnds
    BY <2>5 DEF SessionEnds, rpc, IInv, ToldIsTrue, Callers
  <2>6. CASE Minute \/ Stop \/ Close \/ UNCHANGED vars
    BY <2>6 DEF Minute, Stop, Close, vars
  <2> QED BY <2>2, <2>3, <2>4, <2>5, <2>6 DEF Next
<1> QED BY <1>1, <1>2, Inductive, PTL DEF Spec

-----------------------------------------------------------------------------
(* RpcTransport implements TransportChoice *)

\* Transports are only ever crossed off.
LEMMA LeftNarrows ==
  ASSUME IInv, [Next]_vars PROVE Left' \subseteq Left
<1>1. Web' = Web
  BY SettledStays DEF Web
<1>2. mode \in {"http", "grpc", "auto"}
  BY TransportAssumption DEF IInv, TypeOK
<1>3. /\ client => mode # "http" /\ ~useHTTP /\ probeErr = "none"
      /\ useHTTP => mode = "auto" /\ probeErr = "none"
  BY DEF IInv, ProbesDecide
<1>4. /\ client' => mode' # "http" /\ ~useHTTP' /\ probeErr' = "none"
      /\ useHTTP' => mode' = "auto" /\ probeErr' = "none"
  BY NextInv DEF IInv, ProbesDecide
<1>5. CASE mode = "http"
  BY <1>1, <1>5, SettledStays DEF Left
<1>6. CASE mode = "grpc"
  BY <1>1, <1>3, <1>4, <1>6, SettledStays DEF Left
<1>7. CASE mode = "auto"
  BY <1>1, <1>3, <1>4, <1>7, SettledStays DEF Left
<1> QED BY <1>2, <1>5, <1>6, <1>7

\* A report is offered over transports that are left, after the selection.
LEMMA OfferStep ==
  ASSUME IInv, [Next]_vars, NEW c \in Callers, SendRPC(c) \/ SendHTTP(c)
  PROVE  Choice!Next
<1>1. UNCHANGED Left
  BY DEF SendRPC, SendHTTP, config, rpc, Left, Web
<1>2. CASE SendRPC(c)
  <2>1. Left = {"grpc"}
    BY <1>2 DEF SendRPC, IInv, ToldIsTrue, ProbesDecide, Left
  <2>2. Choice!Offer(c, "grpc")
    BY <1>1, <1>2, <2>1 DEF Choice!Offer, Choice!Selected, SendRPC
  <2> QED BY <2>2 DEF Choice!Next, Choice!Transports
<1>3. CASE SendHTTP(c)
  <2>1. Left = Web /\ "grpc" \notin Web
    BY <1>3 DEF SendHTTP, IInv, ToldIsTrue, Left, Web
  <2>2. PICK secure \in {url[c], tls} :
          sent' = [sent EXCEPT ![c] = @ \cup {IF secure THEN "https" ELSE "http"}]
    BY <1>3 DEF SendHTTP
  <2>3. (IF secure THEN "https" ELSE "http") \in Web
    <3>1. secure => https
      BY DEF IInv, Secure
    <3>2. ~secure /\ https => mode = "http" /\ ~strict
      BY DEF IInv, Secure
    <3> QED BY <3>1, <3>2 DEF Web
  <2>4. Choice!Offer(c, IF secure THEN "https" ELSE "http")
    BY <1>1, <2>1, <2>2, <2>3 DEF Choice!Offer, Choice!Selected
  <2> QED BY <2>4 DEF Choice!Next, Choice!Transports
<1> QED BY <1>2, <1>3

\* "Selection precedes reports and is fixed for this target's lifetime", in any
\* mode, however the callers' steps interleave.
THEOREM Refinement == Spec => ImplementsChoice
<1>1. Init => Choice!Init
  BY DEF Init, Choice!Init, Choice!Transports, Left, Web
<1>2. ASSUME IInv, [Next]_vars PROVE [Choice!Next]_<<Left, sent>>
  <2>1. CASE UNCHANGED sent
    BY <1>2, <2>1, LeftNarrows DEF Choice!Next, Choice!Narrow
  <2>2. ASSUME NEW c \in Callers, Begin(c) PROVE Choice!Next
    <3>1. UNCHANGED Left
      BY <2>2 DEF Begin, config, rpc, Left, Web
    <3> QED BY <2>2, <3>1 DEF Begin, Choice!Next, Choice!NewReport
  <2>3. ASSUME NEW c \in Callers, SendRPC(c) \/ SendHTTP(c) PROVE Choice!Next
    BY <1>2, <2>3, OfferStep
  <2>4. \/ UNCHANGED sent
        \/ \E c \in Callers : Begin(c) \/ SendRPC(c) \/ SendHTTP(c)
    BY <1>2 DEF Next, Take, Refused, ToldHTTP, ToldClient, NewClient, Probe, Answer, ProbeOk,
       ProbeRefused, ProbeUnusable, ProbeCancelled, Report, FallBack, Fail, Downgrade,
       SessionEnds, Minute, Stop, Close, vars
  <2> QED BY <2>1, <2>2, <2>3, <2>4
<1> QED BY <1>1, <1>2, Inductive, PTL DEF Spec, ImplementsChoice, Choice!Spec

\* What the promise is for: no report is offered over gRPC and over HTTP.
THEOREM NoReplay == Spec => []NeverReplayed
<1> DEFINE Told == \A c \in Callers :
             /\ "grpc" \in sent[c] => sent[c] = {"grpc"} /\ Left \subseteq {"grpc"}
             /\ sent[c] # {} /\ "grpc" \notin sent[c] => "grpc" \notin Left
           Typed == sent \in [Callers -> SUBSET {"grpc", "https", "http"}]
<1>1. Init => Told
  BY DEF Init
<1>2. ASSUME Typed, Told, [Choice!Next]_<<Left, sent>> PROVE Told'
  <2>1. CASE Choice!Narrow \/ UNCHANGED <<Left, sent>>
    BY <1>2, <2>1 DEF Choice!Narrow
  <2>2. ASSUME NEW c \in Callers, Choice!NewReport(c) PROVE Told'
    BY <1>2, <2>2 DEF Choice!NewReport
  <2>3. ASSUME NEW c \in Callers, NEW x \in Choice!Transports, Choice!Offer(c, x) PROVE Told'
    BY <1>2, <2>3 DEF Choice!Offer, Choice!Selected
  <2> QED BY <1>2, <2>1, <2>2, <2>3 DEF Choice!Next
<1>3. IInv => Typed
  BY DEF IInv, TypeOK
<1>4. Told => NeverReplayed
  BY DEF NeverReplayed, Choice!NeverReplayed
<1> HIDE DEF Told, Typed
<1> QED BY <1>1, <1>2, <1>3, <1>4, Inductive, Refinement, PTL DEF Spec, ImplementsChoice, Choice!Spec

-----------------------------------------------------------------------------
(* Guest snapshots over the transport *)

\* Delivering snapshots is reporting: every step of the composition is one of the
\* transport, or none of its business (sendVirt).
THEOREM DeliveryIsReporting == SpecDelivery => Spec
<1>1. InitDelivery => Init
  BY DEF InitDelivery
<1>2. [NextDelivery]_deliveryVars => [Next]_vars
  <2> SUFFICES ASSUME [NextDelivery]_deliveryVars PROVE [Next]_vars OBVIOUS
  <2>1. Virt \in Callers
    BY DeliveryAssumption DEF Callers
  <2>2. CASE Turn BY <2>2 DEF Turn
  <2>3. CASE Read BY <2>1, <2>3 DEF Read, Next
  <2>4. CASE DeliverRPC \/ DeliverHTTP
    BY <2>1, <2>4 DEF DeliverRPC, DeliverHTTP, Next, Report
  <2>5. ASSUME NEW c \in Callers, Transport(c) PROVE Next
    BY <2>5 DEF Transport, Next, Answer, Report
  <2>6. CASE UNCHANGED deliveryVars BY <2>6 DEF deliveryVars
  <2>7. CASE SessionEnds \/ Minute \/ Stop \/ Close BY <2>7 DEF Next
  <2> QED BY <2>2, <2>3, <2>4, <2>5, <2>6, <2>7 DEF NextDelivery
<1> QED BY <1>1, <1>2, PTL DEF SpecDelivery, Spec

\* What the loop no longer offers is what the target shows (pushVirt, "sent").
THEOREM Shows == SpecDelivery => []SentIsShown
<1>1. InitDelivery => SentIsShown
  BY DEF InitDelivery, SentIsShown
<1>2. SentIsShown /\ [NextDelivery]_deliveryVars => SentIsShown'
  <2> SUFFICES ASSUME SentIsShown, [NextDelivery]_deliveryVars PROVE SentIsShown'
    OBVIOUS
  <2>1. CASE Read BY <2>1 DEF Read, Fetch, SentIsShown
  <2>2. ASSUME NEW result \in {"accepted", "refused", "lost"}, Outcome(result)
        PROVE SentIsShown'
    BY <2>2 DEF Outcome, Accepted, SentIsShown
  <2>3. CASE DeliverRPC \/ DeliverHTTP BY <2>2, <2>3 DEF DeliverRPC, DeliverHTTP
  <2>4. CASE Turn \/ UNCHANGED delivery
    BY <2>4 DEF Turn, delivery, loop, SentIsShown
  <2> QED BY <2>1, <2>3, <2>4 DEF NextDelivery, deliveryVars
<1> QED BY <1>1, <1>2, PTL DEF SpecDelivery
=============================================================================
