--------------------------- MODULE QuerySessionMC ---------------------------
(***************************************************************************)
(* QuerySession for TLC.                                                   *)
(***************************************************************************)
EXTENDS QuerySession, TLC

\* Ids and goroutines are interchangeable.
Symmetric == Permutations(Ids) \cup Permutations(Jobs)

\* A single session, until it ends or a failure of its stream is reported: the
\* next one starts from the same state.  The helper may start during it.
OneSession == loop # "draining" /\ failures = <<>> /\ caps = Down
=============================================================================
