--------------------------- MODULE ScheduledJobs ---------------------------
(***************************************************************************)
(* The durable job queue of the control plane: the scheduled_jobs table    *)
(* (db/scheduled-jobs-repo.ts), the poller that claims due rows and runs   *)
(* their handlers (services/scheduled-jobs.ts) and the recurring sweeps    *)
(* that stay alive by enqueueing their own successor                       *)
(* (services/auth-flows-sweeper.ts, services/daily-maintenance-jobs.ts).   *)
(*                                                                         *)
(* A worker is one boot of the server process: its id is written to        *)
(* locked_by and is never used again after the process ends.  Every SQL    *)
(* statement, and the dedup transaction of enqueue, is one step; a handler *)
(* invocation is a sequence of steps that other workers interleave with.   *)
(* A database call may fail before or after its commit; MaxFaults bounds   *)
(* how often.  One unit of time is one minute.                             *)
(***************************************************************************)
EXTENDS Integers, FiniteSets

CONSTANTS
    Rows,        \* row ids; an id is never reused
    Workers,     \* boot ids of server processes
    ChainKeys,   \* (account, job_type) pairs with a self-re-arming handler
    PlainKeys,   \* pairs whose handler does not re-arm itself
    OrphanKeys,  \* pairs no handler is registered for
    PruneKey,    \* the chain whose sweep deletes finished rows
    None,        \* SQL NULL
    StaleLock,   \* SCHEDULED_JOB_STALE_LOCK_MS
    BackoffBase, \* retryBackoffBaseMs
    Interval,    \* how far out a chain handler enqueues its successor
    Retention,   \* age at which a finished row is pruned
    MaxAttempts, \* scheduled_jobs.max_attempts
    BatchSize,   \* rows one tick may claim
    Delays,      \* how far out other callers enqueue a row
    MaxTime,     \* bound: the clock stops here
    MaxFaults    \* bound: database calls that fail

ASSUME ConstantsAssumption ==
    /\ {Interval, BackoffBase, MaxAttempts, BatchSize} \subseteq Nat \ {0}
    /\ {StaleLock, Retention, MaxTime, MaxFaults} \subseteq Nat
    /\ Delays \subseteq Nat
    /\ None \notin Workers /\ None \notin Nat
    /\ ChainKeys \cap PlainKeys = {}
    /\ ChainKeys \cap OrphanKeys = {}
    /\ PlainKeys \cap OrphanKeys = {}

\* A fact of arithmetic the provers have no theory for.
ASSUME BackoffAssumption == \A n \in 0 .. MaxAttempts : BackoffBase * 2 ^ n \in Nat

Keys == ChainKeys \cup PlainKeys \cup OrphanKeys

(***************************************************************************)
(* rows      the table; an unborn id has not been inserted yet             *)
(* running   handler invocations in flight, one per claim                  *)
(* up        the processes that are alive;  booted: that ever were         *)
(* unseeded  chains a process has yet to enqueue before its poller starts  *)
(* returned  history: rows a handler invocation returned normally for      *)
(***************************************************************************)
VARIABLES rows, running, up, booted, unseeded, now, faults, returned

processes == <<up, booted, unseeded>>
vars == <<rows, running, up, booted, unseeded, now, faults, returned>>

Status == {"unborn", "pending", "completed", "failed", "pruned"}

Row == [status : Status, key : Keys \cup {None}, runAt : Nat,
        lockedBy : Workers \cup {None}, lockedAt : Nat, attempts : Nat,
        finishedAt : Nat]

\* What claimDue returns for a row, with the worker and the time of its tick,
\* and how far runOne has got with it.
Stage == {"handler", "rearm", "complete", "failure"}

Invocation == [row : Rows, worker : Workers, runAt : Nat, attempts : Nat,
               tick : Nat, stage : Stage]

Unborn == [status |-> "unborn", key |-> None, runAt |-> 0, lockedBy |-> None,
           lockedAt |-> 0, attempts |-> 0, finishedAt |-> 0]

Finished(r) == rows[r].status \in {"completed", "failed"}

Pending(k) == {r \in Rows : rows[r].status = "pending" /\ rows[r].key = k}

Init ==
    /\ rows = [r \in Rows |-> Unborn]
    /\ running = {}
    /\ up = {}
    /\ booted = {}
    /\ unseeded = [w \in Workers |-> ChainKeys]
    /\ now = 0
    /\ faults = 0
    /\ returned = {}

-----------------------------------------------------------------------------
(* Processes and time *)

Boot(w) ==
    /\ w \notin booted
    /\ up' = up \cup {w}
    /\ booted' = booted \cup {w}
    /\ UNCHANGED <<rows, running, unseeded, now, faults, returned>>

\* The process dies: its invocations are gone, its locks stay behind.  The
\* last process of the bounded supply of boot ids does not: the service
\* manager always restarts one.
Crash(w) ==
    /\ w \in up
    /\ up # {w} \/ booted # Workers
    /\ up' = up \ {w}
    /\ running' = {i \in running : i.worker # w}
    /\ UNCHANGED <<rows, booted, unseeded, now, faults, returned>>

Advance ==
    /\ now < MaxTime
    /\ now' = now + 1
    /\ UNCHANGED <<rows, running, processes, faults, returned>>

\* One more database call fails.
Fault == faults < MaxFaults /\ faults' = faults + 1

-----------------------------------------------------------------------------
(* enqueue *)

\* Mutant: the in-handler re-arm does not look for a pending successor.
DedupHitOnlyAtBoot(k, after) == after = None /\ Pending(k) # {}

\* The SELECT of the dedup transaction.  after = None is "any pending row".
DedupHit(k, after) ==
    \E r \in Pending(k) : after # None => rows[r].runAt > after

InsertRow(r, k, at) ==
    /\ rows[r].status = "unborn"
    /\ rows' = [rows EXCEPT ![r] = [Unborn EXCEPT !.status = "pending",
                                                  !.key = k, !.runAt = at]]

\* enqueue with dedupOnAccountAndType: under the advisory lock on the pair,
\* look for a pending row and insert one only when there is none.
EnqueueDedup(k, at, after) ==
    \/ DedupHit(k, after) /\ UNCHANGED rows
    \/ ~DedupHit(k, after) /\ \E r \in Rows : InsertRow(r, k, at)

\* enqueue by a caller that is not a chain, without dedup.
Enqueue(k, delay) ==
    /\ up # {}
    /\ \E r \in Rows : InsertRow(r, k, now + delay)
    /\ UNCHANGED <<running, processes, now, faults, returned>>

\* Start-up enqueues the first run of every chain, deduplicated against every
\* pending row, before the poller's timer is armed.
Seed(w, k) ==
    /\ w \in up
    /\ k \in unseeded[w]
    /\ EnqueueDedup(k, now + Interval, None)
    /\ unseeded' = [unseeded EXCEPT ![w] = @ \ {k}]
    /\ UNCHANGED <<running, up, booted, now, faults, returned>>

-----------------------------------------------------------------------------
(* processTick *)

\* Mutant: a held lock does not keep a row from being claimed.
ClaimableWhileLocked(r) == rows[r].status = "pending" /\ rows[r].runAt <= now

\* Mutant: a stale lock is never reclaimed.
ClaimableOnlyUnlocked(r) ==
    rows[r].status = "pending" /\ rows[r].runAt <= now /\ rows[r].lockedBy = None

\* The WHERE clause of claimDue.
Claimable(r) ==
    /\ rows[r].status = "pending"
    /\ rows[r].runAt <= now
    /\ rows[r].lockedBy = None \/ rows[r].lockedAt < now - StaleLock

\* ORDER BY run_at LIMIT batchSize: ties are broken arbitrarily.
Batch(S) ==
    LET due == {r \in Rows : Claimable(r)}
    IN  /\ S \subseteq due
        /\ Cardinality(S) <= BatchSize
        /\ S # due => Cardinality(S) = BatchSize
        /\ \A r \in S, q \in due \ S : rows[r].runAt <= rows[q].runAt

Claim(w, r) ==
    [rows[r] EXCEPT !.lockedBy = w, !.lockedAt = now, !.attempts = @ + 1]

\* One poll: claim a batch and start a handler invocation for each row of it.
\* The poller's timer has no in-flight guard, so a worker may tick while its
\* earlier invocations are still running.
Tick(w) ==
    /\ w \in up
    /\ unseeded[w] = {}
    /\ \E S \in SUBSET Rows :
        /\ S # {}
        /\ Batch(S)
        /\ rows' = [r \in Rows |-> IF r \in S THEN Claim(w, r) ELSE rows[r]]
        /\ running' = running \cup
              {[row |-> r, worker |-> w, runAt |-> rows[r].runAt,
                attempts |-> rows[r].attempts + 1, tick |-> now,
                stage |-> "handler"] : r \in S}
    /\ UNCHANGED <<processes, now, faults, returned>>

-----------------------------------------------------------------------------
(* runOne: the handler *)

KeyOf(i) == rows[i.row].key

Become(i, s) == running' = (running \ {i}) \cup {[i EXCEPT !.stage = s]}
End(i) == running' = running \ {i}

\* A handler that does not re-arm itself returns, or throws.
HandlerReturns(i) ==
    /\ i.stage = "handler" /\ KeyOf(i) \in PlainKeys
    /\ Become(i, "complete")
    /\ returned' = returned \cup {i.row}
    /\ UNCHANGED <<rows, processes, now, faults>>

HandlerThrows(i) ==
    /\ i.stage = "handler" /\ KeyOf(i) \in PlainKeys
    /\ Become(i, "failure")
    /\ UNCHANGED <<rows, processes, now, faults, returned>>

\* The sweep of a chain handler.  A failure is logged and swallowed, so the
\* re-arm follows either way; only pruneFinished touches this table.
Sweep(i) ==
    /\ i.stage = "handler" /\ KeyOf(i) \in ChainKeys
    /\ Become(i, "rearm")
    /\ \/ UNCHANGED rows
       \/ /\ KeyOf(i) = PruneKey
          /\ rows' = [r \in Rows |->
                IF Finished(r) /\ rows[r].finishedAt < now - Retention
                THEN [rows[r] EXCEPT !.status = "pruned"] ELSE rows[r]]
    /\ UNCHANGED <<processes, now, faults, returned>>

\* Mutant: the re-arm deduplicates against the row it is running.
RearmSeesItself(i) ==
    /\ i.stage = "rearm"
    /\ EnqueueDedup(KeyOf(i), now + Interval, None)
    /\ Become(i, "complete")
    /\ returned' = returned \cup {i.row}
    /\ UNCHANGED <<processes, now, faults>>

\* The re-arm: enqueue the successor, ignoring pending rows that are due no
\* later than the row being run.  The enqueue may fail, before or after it
\* committed, and then the handler throws.
Rearm(i) ==
    /\ i.stage = "rearm"
    /\ \/ /\ EnqueueDedup(KeyOf(i), now + Interval, i.runAt)
          /\ Become(i, "complete")
          /\ returned' = returned \cup {i.row}
          /\ UNCHANGED faults
       \/ /\ Fault
          /\ EnqueueDedup(KeyOf(i), now + Interval, i.runAt) \/ UNCHANGED rows
          /\ Become(i, "failure")
          /\ UNCHANGED returned
    /\ UNCHANGED <<processes, now>>

-----------------------------------------------------------------------------
(* runOne: the settles, each fenced on locked_by = workerId *)

\* Mutant: the settles are keyed on the row id alone.
HoldsLockById(i) == TRUE

HoldsLock(i) == rows[i.row].lockedBy = i.worker

Finish(i, status) ==
    [rows[i.row] EXCEPT !.status = status, !.finishedAt = i.tick,
                        !.lockedBy = None, !.lockedAt = 0]

FencedWrite(i, new) ==
    rows' = IF HoldsLock(i) THEN [rows EXCEPT ![i.row] = new] ELSE rows

\* Mutant: the backoff is subtracted.
BackoffIntoThePast(i) == 0 - BackoffBase * 2 ^ (i.attempts - 1)

Backoff(i) == BackoffBase * 2 ^ (i.attempts - 1)

\* No handler is registered for the type: markFailed at once.
NoHandler(i) ==
    /\ i.stage = "handler" /\ KeyOf(i) \in OrphanKeys
    /\ FencedWrite(i, Finish(i, "failed"))
    /\ End(i)
    /\ UNCHANGED <<processes, now, faults, returned>>

\* markComplete runs inside the try: when it throws, whether or not it
\* committed, the job takes the failure path although its handler returned.
MarkComplete(i) ==
    /\ i.stage = "complete"
    /\ \/ FencedWrite(i, Finish(i, "completed")) /\ End(i) /\ UNCHANGED faults
       \/ /\ Fault
          /\ FencedWrite(i, Finish(i, "completed")) \/ UNCHANGED rows
          /\ Become(i, "failure")
    /\ UNCHANGED <<processes, now, returned>>

\* Mutant: the last attempt is given up before it is made.
MarkFailedEarly(i) ==
    /\ i.attempts >= MaxAttempts - 1
    /\ FencedWrite(i, Finish(i, "failed"))

\* The write of the catch block.
MarkFailed(i) ==
    /\ i.attempts >= MaxAttempts
    /\ FencedWrite(i, Finish(i, "failed"))

MarkRetry(i) ==
    /\ i.attempts < MaxAttempts
    /\ FencedWrite(i, [rows[i.row] EXCEPT !.runAt = i.tick + Backoff(i),
                                          !.lockedBy = None, !.lockedAt = 0])

\* When that write itself fails the invocation ends and leaves the row locked.
SettleFailure(i) ==
    /\ i.stage = "failure"
    /\ End(i)
    /\ \/ (MarkFailed(i) \/ MarkRetry(i)) /\ UNCHANGED faults
       \/ Fault /\ UNCHANGED rows
    /\ UNCHANGED <<processes, now, returned>>

-----------------------------------------------------------------------------
RunOne(i) ==
    \/ HandlerReturns(i) \/ HandlerThrows(i)
    \/ Sweep(i) \/ Rearm(i)
    \/ NoHandler(i) \/ MarkComplete(i) \/ SettleFailure(i)

Next ==
    \/ \E w \in Workers : Boot(w) \/ Crash(w) \/ Tick(w)
    \/ \E w \in Workers, k \in ChainKeys : Seed(w, k)
    \/ \E k \in PlainKeys \cup OrphanKeys, delay \in Delays : Enqueue(k, delay)
    \/ \E i \in running : RunOne(i)
    \/ Advance

Spec == Init /\ [][Next]_vars

\* The poller's timer keeps firing, a dead process is restarted, the clock
\* runs, and a handler that was started ends (it may throw).
Fairness ==
    /\ WF_vars(Advance)
    /\ WF_vars(\E w \in Workers : Boot(w))
    /\ \A w \in Workers : WF_vars(Tick(w))
    /\ \A w \in Workers : WF_vars(\E k \in ChainKeys : Seed(w, k))
    /\ \A r \in Rows : WF_vars(\E i \in running : i.row = r /\ RunOne(i))

FairSpec == Spec /\ Fairness

-----------------------------------------------------------------------------
(* Properties *)

\* Every variable has its type.
TypeOK ==
    /\ rows \in [Rows -> Row]
    /\ running \in SUBSET Invocation
    /\ up \in SUBSET Workers
    /\ booted \in SUBSET Workers
    /\ unseeded \in [Workers -> SUBSET ChainKeys]
    /\ now \in Nat
    /\ faults \in Nat
    /\ returned \in SUBSET Rows

\* A completed or failed job is never claimed, re-armed or given another
\* outcome, whatever late settles of overrun or replayed invocations arrive:
\* only the prune touches it again.
FinishedIsFinal ==
    [][\A r \in Rows : Finished(r) =>
          rows'[r] \in {rows[r], [rows[r] EXCEPT !.status = "pruned"]}]_vars

\* An outcome is earned: a job is completed only if one of its handler
\* invocations returned, and failed only after max_attempts claims or because
\* nothing handles its type, however settles and re-claims interleave.
OutcomeEarned ==
    \A r \in Rows :
        /\ rows[r].status = "completed" => r \in returned
        /\ rows[r].status = "failed" => \/ rows[r].attempts >= MaxAttempts
                                        \/ rows[r].key \in OrphanKeys

\* The claim an invocation works for is still the row's latest one.
Current(i) == i.attempts = rows[i.row].attempts /\ HoldsLock(i)

Earlier(i) == {j \in running : j.row = i.row /\ j.attempts < i.attempts}

\* The locking discipline: the row of an invocation that is still running is
\* changed by somebody else only after the stale-lock window of its claim, or
\* by an earlier invocation of the same process that outran its own window.
LockedRowIsLeftAlone ==
    [][\A i \in running :
          Current(i) /\ i \in running' /\ rows'[i.row] # rows[i.row]
          => \/ rows[i.row].lockedAt < now - StaleLock
             \/ \E j \in Earlier(i) : j.worker = i.worker]_vars

Seeded(k) == \E w \in booted : k \notin unseeded[w]

\* A recurring sweep that was started has a pending row at every moment: it
\* can die only of a failed database call.
ChainAlive ==
    \A k \in ChainKeys : Seeded(k) /\ faults = 0 => Pending(k) # {}

\* A chain does not fan out: crashes, re-claims and retries never give it two
\* successors that have not run yet.
NoFanOut ==
    \A k \in ChainKeys : Cardinality({r \in Pending(k) : rows[r].attempts = 0}) <= 1

\* The chain of every recurring sweep survives crashes, overruns and replays of
\* its handler, and never becomes two.
ChainIsSound == ChainAlive /\ NoFanOut
=============================================================================
