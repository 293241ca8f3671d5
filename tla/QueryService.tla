---------------------------- MODULE QueryService ----------------------------
(***************************************************************************)
(* What a query session promises the dashboard that is at the other end of *)
(* its stream (internal/push/session.go): while it is open any id may be   *)
(* asked for, again and again; an answer goes to a query of this session   *)
(* that has none yet, in whatever order; and the end of a session forgets  *)
(* its queries, so the next one answers none of them.                      *)
(***************************************************************************)
EXTENDS Naturals

CONSTANT Ids

VARIABLES open, \* a session is open
          owed  \* the queries asked in it under each id and not answered

NoQueries == [i \in Ids |-> 0]

Init == open = FALSE /\ owed = NoQueries

Open == ~open /\ open' = TRUE /\ UNCHANGED owed

Ask(i) == open /\ owed' = [owed EXCEPT ![i] = @ + 1] /\ UNCHANGED open

Reply(i) == open /\ owed[i] > 0 /\ owed' = [owed EXCEPT ![i] = @ - 1] /\ UNCHANGED open

Close == open /\ open' = FALSE /\ owed' = NoQueries

Next == Open \/ Close \/ \E i \in Ids : Ask(i) \/ Reply(i)

Spec == Init /\ [][Next]_<<open, owed>>
=============================================================================
