-------------------------- MODULE MCScheduledJobs --------------------------
(* Small instances of ScheduledJobs for TLC. *)
EXTENDS ScheduledJobs, TLC

Symmetry == Permutations(Rows) \cup Permutations(Workers)

\* From this time on no process dies and no database call fails.  It leaves a
\* lock taken before it the time to go stale before the clock stops.
CONSTANT Quiescence

ASSUME QuiescenceAssumption == Quiescence \in Nat /\ Quiescence + StaleLock < MaxTime

LiveSpec ==
    /\ Init
    /\ [][Next /\ (now > Quiescence => up \subseteq up' /\ faults' = faults)]_vars
    /\ Fairness

Due(r) == rows[r].status = "pending" /\ rows[r].runAt <= MaxTime

\* A due row is not stranded: whichever processes died holding it and
\* whichever settles were lost, it ends up completed, failed, or retried at a
\* time past the end of the run.
DueRowIsWorked == \A r \in Rows : Due(r) ~> ~Due(r)
=============================================================================
