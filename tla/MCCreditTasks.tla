--------------------------- MODULE MCCreditTasks ---------------------------
(* Small instances of CreditTasks for TLC. *)
EXTENDS CreditTasks, TLC

Symmetry == Permutations(Procs)

(***************************************************************************)
(* The service manager restarts a process that ends, so one is up or still *)
(* to come; a running process's timers fire; time passes.  No teardown     *)
(* begins once the clock has stopped: it would move a lease to a time that *)
(* never passes.                                                           *)
(***************************************************************************)
Restarted ==
    /\ \E p \in Procs : proc'[p] \in {"unborn", "up"}
    /\ now = MaxTime => \A p \in Procs : proc'[p] = "draining" => proc[p] = "draining"

LiveSpec ==
    /\ Init
    /\ [][Next /\ Restarted]_vars
    /\ WF_vars(Advance)
    /\ WF_vars(\E p \in Procs : Boot(p))
    /\ \A p \in Procs :
          /\ WF_vars(Heartbeat(p))
          /\ WF_vars(LapsedReservations(p))
          /\ \A t \in Tasks : WF_vars(SettleOneLapsed(p, t))

\* Nobody runs the task and its lease ends in time, or its ceiling does.
Abandoned(t) ==
    /\ Open(t)
    /\ \/ task[t].until < MaxTime
       \/ task[t].lease < MaxTime /\ \A p \in Procs : t \notin live[p]

\* Whatever died or failed, an abandoned task is settled, which frees its slot
\* and its credit.
AbandonedTaskIsSettled ==
    \A t \in Tasks : Abandoned(t) ~> task[t].state = "settled"
=============================================================================
