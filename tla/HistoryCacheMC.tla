--------------------------- MODULE HistoryCacheMC ---------------------------
(***************************************************************************)
(* HistoryCache for TLC: queries about one VM, two of them where callers   *)
(* share calls and three where the map overflows.                          *)
(***************************************************************************)
EXTENDS HistoryCache, TLC

CONSTANTS v1, q1, q2, q3

MCQueries == {q1, q2, q3}

MCOneVM == {v1}
MCQueriesOneVM == {q1, q2}
MCVMOfOneVM == (q1 :> v1) @@ (q2 :> v1)

MCVMOfSameVM == [q \in MCQueries |-> v1]

\* Objects of the pool and callers are interchangeable.
Symmetric == Permutations(Calls) \cup Permutations(Callers)
=============================================================================
