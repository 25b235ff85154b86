----------------------------- MODULE StepLease -----------------------------
(***************************************************************************)
(* What the lifecycle of a step promises about the resources its name      *)
(* stands for: they are taken at most once, they stay while the step that  *)
(* took them runs, and what a dead step left can only ever be removed.     *)
(***************************************************************************)
CONSTANT Steps

VARIABLE lease

Init == lease = [s \in Steps |-> "none"]

Move(s, from, to) == lease[s] = from /\ lease' = [lease EXCEPT ![s] = to]

Acquire(s) == Move(s, "none", "held")

\* The step ends without ever having taken anything.
Forgo(s) == Move(s, "none", "gone")

\* The step gives its resources back while it runs.
Release(s) == Move(s, "held", "gone")

\* The step ends with its resources still there: killed, or an operation of
\* its teardown failed.
Abandon(s) == Move(s, "held", "abandoned")

\* Somebody removes what the step left.
Reclaim(s) == Move(s, "abandoned", "gone")

Next ==
  \E s \in Steps : Acquire(s) \/ Forgo(s) \/ Release(s) \/ Abandon(s) \/ Reclaim(s)

Spec == Init /\ [][Next]_lease
=============================================================================
