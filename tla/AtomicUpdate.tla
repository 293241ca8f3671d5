---------------------------- MODULE AtomicUpdate ----------------------------
(***************************************************************************)
(* What updating promises when processes die but the file system works     *)
(* (internal/selfupdate, internal/runner): an update is in force entirely  *)
(* or not at all.  It comes into force in one step, the last one of a      *)
(* process; every process that starts is the one in force then.            *)
(***************************************************************************)
CONSTANTS Binaries, None

VARIABLES up,       \* a process runs
          running,  \* the binary of the last one
          inForce,  \* the binary of the next one
          update    \* the update the process is applying

Init ==
  /\ up = TRUE /\ running \in Binaries
  /\ inForce = running /\ update = None

Begin(m) == up /\ update = None /\ update' = m /\ UNCHANGED <<up, running, inForce>>

GiveUp == up /\ update' = None /\ UNCHANGED <<up, running, inForce>>

Commit ==
  /\ up /\ up' = FALSE
  /\ update # None /\ inForce' = update /\ update' = None
  /\ UNCHANGED running

\* It is told to, restarts or dies, with an update under way or without.
End == up /\ up' = FALSE /\ update' = None /\ UNCHANGED <<running, inForce>>

Start == ~up /\ up' = TRUE /\ running' = inForce /\ UNCHANGED <<inForce, update>>

Next == GiveUp \/ Commit \/ End \/ Start \/ \E m \in Binaries : Begin(m)

Spec == Init /\ [][Next]_<<up, running, inForce, update>>
=============================================================================
