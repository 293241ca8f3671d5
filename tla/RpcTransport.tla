---------------------------- MODULE RpcTransport ----------------------------
(***************************************************************************)
(* How one target chooses between gRPC and HTTP (internal/push/rpc.go) and *)
(* how reports and query sessions use the choice (internal/push/push.go,   *)
(* virt.go, session.go).                                                   *)
(*                                                                         *)
(* A reporter is one of the goroutines that deliver metrics, static data   *)
(* or guest snapshots; Session is startSessions.  sent[c] is the set of    *)
(* transports over which the present report of c was offered.              *)
(***************************************************************************)
EXTENDS Naturals, FiniteSets

CONSTANTS Reporters, Session, Nobody,
          Modes  \* values of ITHILTIR_NODE_TRANSPORT

ASSUME TransportAssumption ==
  /\ Modes \subseteq {"http", "grpc", "auto"}
  /\ Session \notin Reporters
  /\ Nobody \notin Reporters \cup {Session}

Callers == Reporters \cup {Session}

VARIABLES
  mode, strict,   \* rpc.mode, requireHTTPS
  https,          \* the configured URL is https
  tls,            \* endpoint.Scheme is https
  mu,             \* who holds rpc.mu across the probe
  useHTTP,
  client,         \* rpc.client is set
  probeErr,       \* rpc.probeErr: credentials "rejected", or rate "limited"
  due,            \* retryAt has passed
  open,           \* connections that have not been closed
  at,             \* where each caller is
  url,            \* whether the URL a reporter took is https
  sent,
  stopping, closed

config == <<mode, strict, https>>
rpc == <<useHTTP, client, probeErr, due>>
vars == <<config, tls, mu, rpc, open, at, url, sent, stopping, closed>>

Init ==
  /\ mode \in Modes /\ https \in BOOLEAN
  /\ strict \in {b \in BOOLEAN : b => https}
  /\ tls = https /\ mu = Nobody
  /\ useHTTP = FALSE /\ client = FALSE /\ probeErr = "none" /\ due = FALSE
  /\ open = 0
  /\ at = [c \in Callers |-> "idle"]
  /\ url = [c \in Callers |-> https]
  /\ sent = [c \in Callers |-> {}]
  /\ stopping = FALSE /\ closed = FALSE

Go(c, there) == at' = [at EXCEPT ![c] = there]

-----------------------------------------------------------------------------
(* rpcClient.  Everything but a probe is one step under rpc.mu. *)

Begin(c) ==
  /\ at[c] = "idle" /\ ~stopping
  /\ Go(c, "ask")
  /\ url' = [url EXCEPT ![c] = tls] /\ sent' = [sent EXCEPT ![c] = {}]
  /\ UNCHANGED <<config, tls, mu, rpc, open, stopping, closed>>

\* What a caller does that gets an error: a session whose credentials were
\* rejected is over, everything else is tried again.
AfterError_Always(c, err) == IF c = Session THEN "over" ELSE "idle"
AfterError(c, err) == IF c = Session /\ err = "rejected" THEN "over" ELSE "idle"

\* What a caller does that is told to use HTTP: there are no sessions over HTTP.
AfterHTTP(c) == IF c = Session THEN "over" ELSE "http"

Barred == probeErr # "none" /\ (probeErr = "rejected" \/ ~due)

\* The error of the last probe still stands.
Refused(c) ==
  /\ at[c] = "ask" /\ mu = Nobody
  /\ Barred
  /\ Go(c, AfterError(c, probeErr))
  /\ UNCHANGED <<config, tls, mu, rpc, open, url, sent, stopping, closed>>

ToldHTTP(c) ==
  /\ at[c] = "ask" /\ mu = Nobody
  /\ ~Barred /\ (useHTTP \/ mode = "http")
  /\ Go(c, AfterHTTP(c))
  /\ UNCHANGED <<config, tls, mu, rpc, open, url, sent, stopping, closed>>

ToldClient(c) ==
  /\ at[c] = "ask" /\ mu = Nobody
  /\ ~Barred /\ client
  /\ Go(c, "grpc")
  /\ UNCHANGED <<config, tls, mu, rpc, open, url, sent, stopping, closed>>

NoClientYet == mu = Nobody /\ ~Barred /\ ~useHTTP /\ ~client

\* Mode grpc needs no probe.
NewClient(c) ==
  /\ at[c] = "ask" /\ NoClientYet /\ mode = "grpc"
  /\ client' = TRUE /\ open' = open + 1
  /\ Go(c, "grpc")
  /\ UNCHANGED <<config, tls, mu, useHTTP, probeErr, due, url, sent, stopping, closed>>

\* Mode auto asks for the identity of the server, with rpc.mu held.
Probe(c) ==
  /\ at[c] = "ask" /\ NoClientYet /\ mode = "auto"
  /\ mu' = c /\ open' = open + 1
  /\ probeErr' = "none" /\ due' = FALSE
  /\ Go(c, "probe")
  /\ UNCHANGED <<config, tls, useHTTP, client, url, sent, stopping, closed>>

\* The answer: a server that speaks the protocol.
ProbeOk(c) ==
  /\ at[c] = "probe"
  /\ client' = TRUE /\ mu' = Nobody
  /\ Go(c, "grpc")
  /\ UNCHANGED <<config, tls, useHTTP, probeErr, due, open, url, sent, stopping, closed>>

Closed_Not == open
Closed == open - 1

\* The answer: a rejection of the credentials, or of the rate.
ProbeRefused(c) ==
  /\ at[c] = "probe"
  /\ probeErr' \in {"rejected", "limited"} /\ due' = FALSE
  /\ mu' = Nobody /\ open' = Closed
  /\ Go(c, AfterError(c, probeErr'))
  /\ UNCHANGED <<config, tls, useHTTP, client, url, sent, stopping, closed>>

\* Any other error, another version of the protocol, ...
ProbeUnusable(c) ==
  /\ at[c] = "probe"
  /\ useHTTP' = TRUE
  /\ mu' = Nobody /\ open' = Closed
  /\ Go(c, AfterHTTP(c))
  /\ UNCHANGED <<config, tls, client, probeErr, due, url, sent, stopping, closed>>

\* ... and no answer for 2 s, mean HTTP.
ProbeTimeout_Never(c) == FALSE /\ ProbeUnusable(c)
ProbeTimeout(c) == ProbeUnusable(c)

\* The context of the caller ended first: nothing is decided.
ProbeCancelled(c) ==
  /\ at[c] = "probe"
  /\ mu' = Nobody /\ open' = Closed
  /\ Go(c, "idle")
  /\ UNCHANGED <<config, tls, rpc, url, sent, stopping, closed>>

-----------------------------------------------------------------------------
(* Reports and sessions *)

AfterRPCError(c) == {"idle"}

\* A call over the connection; its answer may be lost.
SendRPC(c) ==
  /\ c # Session /\ at[c] = "grpc"
  /\ sent' = [sent EXCEPT ![c] = @ \cup {"grpc"}]
  /\ \E there \in AfterRPCError(c) : Go(c, there)
  /\ UNCHANGED <<config, tls, mu, rpc, open, url, stopping, closed>>

\* A request, to the URL taken before rpcClient or to the present one.
SendHTTP(c) ==
  /\ at[c] = "http"
  /\ \E secure \in {url[c], tls} :
       sent' = [sent EXCEPT ![c] = @ \cup {IF secure THEN "https" ELSE "http"}]
  /\ \E there \in {"idle", "failed"} : Go(c, there)
  /\ UNCHANGED <<config, tls, mu, rpc, open, url, stopping, closed>>

MayFallBack_AnyMode == tls /\ ~strict
MayFallBack == mode = "http" /\ tls /\ ~strict

\* fallbackHTTP: the error is one of the few that allow it, ...
FallBack(c) ==
  /\ at[c] = "failed" /\ MayFallBack
  /\ Go(c, "fallback")
  /\ UNCHANGED <<config, tls, mu, rpc, open, url, sent, stopping, closed>>

\* ... or it is not.
Fail(c) ==
  /\ at[c] = "failed"
  /\ Go(c, "idle")
  /\ UNCHANGED <<config, tls, mu, rpc, open, url, sent, stopping, closed>>

\* The scheme is changed; static data asks rpcClient again, guest snapshots are
\* sent again, metrics wait for the next round.
Downgrade(c) ==
  /\ at[c] = "fallback"
  /\ tls' = FALSE /\ url' = [url EXCEPT ![c] = FALSE]
  /\ \E there \in {"ask", "http", "idle"} : Go(c, there)
  /\ UNCHANGED <<config, mu, rpc, open, sent, stopping, closed>>

\* A session ends: it is opened again, unless its credentials were rejected.
SessionEnds ==
  /\ at[Session] = "grpc"
  /\ \E there \in {"idle", "over"} : Go(Session, there)
  /\ UNCHANGED <<config, tls, mu, rpc, open, url, sent, stopping, closed>>

-----------------------------------------------------------------------------
\* retryAt passes.
Minute ==
  /\ probeErr = "limited" /\ ~due
  /\ due' = TRUE
  /\ UNCHANGED <<config, tls, mu, useHTTP, client, probeErr, open, at, url, sent, stopping, closed>>

Stop ==
  /\ ~stopping /\ stopping' = TRUE
  /\ UNCHANGED <<config, tls, mu, rpc, open, at, url, sent, closed>>

\* closeRPC, after every goroutine has returned.
Close ==
  /\ stopping /\ ~closed
  /\ \A c \in Callers : at[c] \in {"idle", "over"}
  /\ closed' = TRUE
  /\ open' = IF client THEN Closed ELSE open
  /\ UNCHANGED <<config, tls, mu, rpc, at, url, sent, stopping>>

-----------------------------------------------------------------------------
Take(c) == Refused(c) \/ ToldHTTP(c) \/ ToldClient(c) \/ NewClient(c) \/ Probe(c)
Answer(c) == ProbeOk(c) \/ ProbeRefused(c) \/ ProbeUnusable(c) \/ ProbeCancelled(c)
Report(c) == SendRPC(c) \/ SendHTTP(c) \/ FallBack(c) \/ Fail(c) \/ Downgrade(c)

Next ==
  \/ \E c \in Callers : Begin(c) \/ Take(c) \/ Answer(c) \/ Report(c)
  \/ SessionEnds \/ Minute \/ Stop \/ Close

Spec == Init /\ [][Next]_vars

\* Goroutines run, calls have deadlines, and nobody is passed over by a mutex
\* for ever; a session ends when the agent stops.
Fairness ==
  /\ \A c \in Callers :
       /\ SF_vars(Take(c)) /\ WF_vars(ProbeTimeout(c))
       /\ WF_vars(Report(c))
  /\ WF_vars(stopping /\ SessionEnds) /\ WF_vars(Close)

FairSpec == Spec /\ Fairness

-----------------------------------------------------------------------------
(* Properties *)

TypeOK ==
  /\ mode \in Modes /\ strict \in BOOLEAN /\ https \in BOOLEAN /\ tls \in BOOLEAN
  /\ mu \in Callers \cup {Nobody}
  /\ useHTTP \in BOOLEAN /\ client \in BOOLEAN /\ due \in BOOLEAN
  /\ probeErr \in {"none", "rejected", "limited"}
  /\ open \in 0..1
  /\ at \in [Callers -> {"idle", "ask", "probe", "grpc", "http", "failed", "fallback", "over"}]
  /\ url \in [Callers -> BOOLEAN]
  /\ sent \in [Callers -> SUBSET {"grpc", "https", "http"}]
  /\ stopping \in BOOLEAN /\ closed \in BOOLEAN

\* No connection is lost: those that are open are the one that is probed and the
\* one that closeRPC will close, never two.
ConnectionsOwned ==
  open = (IF client /\ ~closed THEN 1 ELSE 0) + (IF mu # Nobody THEN 1 ELSE 0)

\* The probe is the only thing that holds rpc.mu, and decides what is undecided.
ProbesDecide ==
  /\ \A c \in Callers : at[c] = "probe" <=> mu = c
  /\ mu # Nobody => mode = "auto" /\ ~client /\ ~useHTTP /\ probeErr = "none" /\ ~closed
  /\ client => mode # "http" /\ ~useHTTP /\ probeErr = "none"
  /\ useHTTP => mode = "auto" /\ probeErr = "none"
  /\ probeErr # "none" => mode = "auto"

\* What a caller was told still holds when it acts on it.
ToldIsTrue ==
  \A c \in Callers :
    /\ at[c] = "grpc" => client
    /\ at[c] \in {"http", "failed", "fallback"} => useHTTP \/ mode = "http"
    /\ at[c] = "fallback" => mode = "http" /\ https /\ ~strict
    /\ at[c] = "over" => c = Session
    /\ closed => at[c] \in {"idle", "over"}

\* Plaintext takes the place of TLS only where the configuration lets it.
Secure ==
  /\ \A c \in Callers : https /\ ~(tls /\ url[c]) => mode = "http" /\ ~strict
  /\ ~https => ~tls /\ \A c \in Callers : ~url[c]
  /\ strict => https
  /\ closed => stopping

IInv == TypeOK /\ ConnectionsOwned /\ ProbesDecide /\ ToldIsTrue /\ Secure

\* A query session is given up for good only once it is settled that the target
\* has no RPC or rejects the node: a busy server or a cancelled probe is no reason.
SessionOverIsSettled ==
  at[Session] = "over" =>
    client \/ useHTTP \/ mode = "http" \/ probeErr = "rejected"

\* The transports the configuration and the probe leave.
Web ==
  {IF https THEN "https" ELSE "http"}
    \cup (IF mode = "http" /\ ~strict THEN {"http"} ELSE {})

Left ==
  IF mode = "http" \/ useHTTP THEN Web
  ELSE IF mode = "grpc" \/ client THEN {"grpc"}
  ELSE IF probeErr = "rejected" THEN {}
  ELSE {"grpc"} \cup Web

Choice == INSTANCE TransportChoice WITH choices <- Left

\* "Selection precedes reports and is fixed for this target's lifetime. A report
\* with an uncertain ACK is never replayed over another transport.", and "grpc and
\* auto never authorize TLS-to-plaintext fallback".
ImplementsChoice == Choice!Spec

NeverReplayed == Choice!NeverReplayed

\* A report ends, although rpc.mu is held across probes of servers that do not
\* answer.
ReportsEnd == \A c \in Reporters : at[c] = "ask" ~> at[c] = "idle"

\* Once the agent stops the connection is closed.
StopCloses == stopping ~> closed /\ open = 0
=============================================================================
