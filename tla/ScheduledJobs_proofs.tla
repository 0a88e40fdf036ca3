------------------------ MODULE ScheduledJobs_proofs ------------------------
(***************************************************************************)
(* Safety of the job queue for every number of rows, workers, attempts and *)
(* faults: types, earned outcomes, the finality of a finished job, and the *)
(* one chain of a recurring sweep.                                         *)
(***************************************************************************)
EXTENDS ScheduledJobs, FiniteSetTheorems, TLAPS

\* Only a pending row can be locked, so the fence of a settle never matches a
\* finished one.
OnlyPendingLocked ==
    \A r \in Rows : rows[r].status # "pending" => rows[r].lockedBy = None

\* An invocation works for a claim that was made, and reaches markComplete
\* only after its handler returned.
InvocationSound ==
    \A i \in running :
        /\ rows[i.row].status # "unborn"
        /\ 1 <= i.attempts
        /\ i.attempts <= rows[i.row].attempts
        /\ i.stage = "complete" => i.row \in returned

\* A row that exists is of some (account, job_type) pair.
KeyKnown == \A r \in Rows : rows[r].status # "unborn" => rows[r].key \in Keys

Inv == TypeOK /\ KeyKnown /\ OutcomeEarned /\ OnlyPendingLocked /\ InvocationSound

\* What one row may become in a step: the shape every writer of the table
\* keeps to.
RowStep(r) ==
    \/ rows'[r] = rows[r]
    \/ /\ rows[r].status = "unborn"
       /\ rows'[r].status = "pending"
       /\ rows'[r].key \in Keys
       /\ rows'[r].lockedBy = None
    \/ /\ rows[r].status = "pending"
       /\ rows'[r].status = "pending"
       /\ rows'[r].key = rows[r].key
       /\ rows'[r].attempts >= rows[r].attempts
    \/ /\ rows[r].status = "pending"
       /\ rows'[r].status \in {"completed", "failed"}
       /\ rows'[r].lockedBy = None
       /\ rows'[r].attempts = rows[r].attempts
       /\ rows'[r].key = rows[r].key
       /\ rows'[r].status = "completed" => r \in returned'
       /\ rows'[r].status = "failed" => \/ rows'[r].attempts >= MaxAttempts
                                        \/ rows'[r].key \in OrphanKeys
    \/ /\ Finished(r)
       /\ rows'[r] = [rows[r] EXCEPT !.status = "pruned"]

\* A step keeps every row within RowStep and every invocation within
\* InvocationSound.
StepShape ==
    /\ rows' \in [Rows -> Row]
    /\ \A r \in Rows : RowStep(r)
    /\ returned \subseteq returned'
    /\ returned' \in SUBSET Rows
    /\ \A i \in running' :
          \/ \E j \in running : /\ i.row = j.row /\ i.attempts = j.attempts
                                /\ i.stage = "complete" =>
                                      j.stage = "complete" \/ j.row \in returned'
          \/ /\ rows[i.row].status = "pending"
             /\ i.attempts = rows[i.row].attempts + 1
             /\ i.attempts = rows'[i.row].attempts
             /\ i.stage = "handler"
    /\ running' \in SUBSET Invocation

LEMMA ShapePreserves ==
    ASSUME Inv, StepShape
    PROVE  KeyKnown' /\ OutcomeEarned' /\ OnlyPendingLocked' /\ InvocationSound'
<1> USE DEF Inv, TypeOK, KeyKnown, OutcomeEarned, OnlyPendingLocked, InvocationSound,
            StepShape, RowStep, Finished, Row, Invocation
<1>1. OutcomeEarned'
  OBVIOUS
<1>2. OnlyPendingLocked'
  OBVIOUS
<1>3. InvocationSound'
  OBVIOUS
<1>4. KeyKnown'
  OBVIOUS
<1> QED BY <1>1, <1>2, <1>3, <1>4

-----------------------------------------------------------------------------
(* Every action has the shape of StepShape *)

LEMMA InitInv == Init => Inv
  BY ConstantsAssumption
  DEF Init, Inv, TypeOK, KeyKnown, OutcomeEarned, OnlyPendingLocked, InvocationSound,
      Unborn, Row, Status

\* An inserted row is a pending, unlocked one.
LEMMA EnqueueShape ==
    ASSUME Inv, NEW k \in Keys, NEW at \in Nat, NEW after,
           EnqueueDedup(k, at, after) \/ \E r \in Rows : InsertRow(r, k, at)
    PROVE  rows' \in [Rows -> Row] /\ \A r \in Rows : RowStep(r)
<1>1. CASE UNCHANGED rows
  BY <1>1 DEF Inv, TypeOK, RowStep
<1>2. CASE \E r \in Rows : InsertRow(r, k, at)
  <2> PICK r \in Rows : InsertRow(r, k, at)
    BY <1>2
  <2>1. [Unborn EXCEPT !.status = "pending", !.key = k, !.runAt = at] \in Row
    BY ConstantsAssumption DEF Unborn, Row, Status
  <2> QED
    BY <2>1 DEF InsertRow, Inv, TypeOK, RowStep, Unborn
<1> QED
  BY <1>1, <1>2 DEF EnqueueDedup

\* Moving an invocation to another stage, or ending it.
LEMMA StageShape ==
    ASSUME Inv, NEW i \in running, NEW s \in Stage,
           s = "complete" => i.row \in returned',
           Become(i, s) \/ End(i)
    PROVE  /\ running' \in SUBSET Invocation
           /\ \A j \in running' : \E q \in running :
                 /\ j.row = q.row /\ j.attempts = q.attempts
                 /\ j.stage = "complete" => q.stage = "complete" \/ q.row \in returned'
<1>1. [i EXCEPT !.stage = s] \in Invocation
  BY DEF Inv, TypeOK, Invocation
<1> QED
  BY <1>1 DEF Inv, TypeOK, Invocation, Become, End

\* A fenced settle writes only to a pending row.
LEMMA FencedShape ==
    ASSUME Inv, NEW i \in running, NEW new \in Row,
           FencedWrite(i, new),
           new.key = rows[i.row].key,
           HoldsLock(i) => \/ /\ new.status = "pending"
                              /\ new.attempts = rows[i.row].attempts
                           \/ /\ new.status \in {"completed", "failed"}
                              /\ new.lockedBy = None
                              /\ new.attempts = rows[i.row].attempts
                              /\ new.status = "completed" => i.row \in returned'
                              /\ new.status = "failed" =>
                                    \/ new.attempts >= MaxAttempts
                                    \/ new.key \in OrphanKeys
    PROVE  rows' \in [Rows -> Row] /\ \A r \in Rows : RowStep(r)
<1>1. CASE HoldsLock(i)
  <2>1. i.row \in Rows /\ i.worker \in Workers
    BY DEF Inv, TypeOK, Invocation
  <2>2. rows[i.row].status = "pending"
    BY <1>1, <2>1, ConstantsAssumption DEF HoldsLock, Inv, OnlyPendingLocked
  <2>3. rows' = [rows EXCEPT ![i.row] = new]
    BY <1>1 DEF FencedWrite
  <2>4. rows[i.row].attempts \in Nat
    BY <2>1 DEF Inv, TypeOK, Row
  <2> QED
    BY <1>1, <2>1, <2>2, <2>3, <2>4 DEF Inv, TypeOK, RowStep
<1>2. CASE ~HoldsLock(i)
  BY <1>2 DEF FencedWrite, Inv, TypeOK, RowStep
<1> QED BY <1>1, <1>2

LEMMA FinishRow ==
    ASSUME Inv, NEW i \in running, NEW s \in {"completed", "failed"}
    PROVE  /\ Finish(i, s) \in Row
           /\ Finish(i, s).status = s
           /\ Finish(i, s).lockedBy = None
           /\ Finish(i, s).attempts = rows[i.row].attempts
           /\ Finish(i, s).key = rows[i.row].key
<1>1. rows[i.row] \in Row /\ i.tick \in Nat
  BY DEF Inv, TypeOK, Invocation
<1>2. \A q \in Row, t \in Nat :
         LET f == [q EXCEPT !.status = s, !.finishedAt = t,
                            !.lockedBy = None, !.lockedAt = 0]
         IN  /\ f \in Row /\ f.status = s /\ f.lockedBy = None
             /\ f.attempts = q.attempts /\ f.key = q.key
  BY DEF Row, Status
<1> QED BY <1>1, <1>2 DEF Finish

LEMMA ActionShape ==
    ASSUME Inv, Next
    PROVE  StepShape
<1> USE DEF StepShape
<1>1. ASSUME NEW w \in Workers, Boot(w) \/ Crash(w)
      PROVE  StepShape
  BY <1>1 DEF Boot, Crash, Inv, TypeOK, RowStep
<1>2. ASSUME NEW w \in Workers, Tick(w)
      PROVE  StepShape
  <2>1. PICK S \in SUBSET Rows :
           /\ Batch(S)
           /\ rows' = [r \in Rows |-> IF r \in S THEN Claim(w, r) ELSE rows[r]]
           /\ running' = running \cup
                {[row |-> r, worker |-> w, runAt |-> rows[r].runAt,
                  attempts |-> rows[r].attempts + 1, tick |-> now,
                  stage |-> "handler"] : r \in S}
    BY <1>2 DEF Tick
  <2>2. \A r \in S : rows[r].status = "pending"
    BY <2>1 DEF Batch, Claimable
  <2>3. \A r \in S : /\ Claim(w, r) \in Row /\ Claim(w, r).status = "pending"
                     /\ Claim(w, r).attempts = rows[r].attempts + 1
                     /\ Claim(w, r).key = rows[r].key
    <3>1. \A q \in Row : q.status = "pending" =>
             LET c == [q EXCEPT !.lockedBy = w, !.lockedAt = now, !.attempts = @ + 1]
             IN  /\ c \in Row /\ c.status = "pending"
                 /\ c.attempts = q.attempts + 1 /\ c.key = q.key
      <4> SUFFICES ASSUME NEW q \in Row, q.status = "pending"
                   PROVE  LET c == [q EXCEPT !.lockedBy = w, !.lockedAt = now,
                                             !.attempts = @ + 1]
                          IN  /\ c \in Row /\ c.status = "pending"
                              /\ c.attempts = q.attempts + 1 /\ c.key = q.key
        OBVIOUS
      <4>1. now \in Nat /\ q.attempts + 1 \in Nat
        BY DEF Row, Inv, TypeOK
      <4> QED BY <4>1 DEF Row
    <3> QED BY <2>2, <3>1 DEF Claim, Inv, TypeOK
  <2>4. rows' \in [Rows -> Row]
    BY <2>1, <2>3 DEF Inv, TypeOK
  <2>5. \A r \in Rows : RowStep(r)
    <3> TAKE r \in Rows
    <3>1. rows[r].attempts \in Nat
      BY DEF Inv, TypeOK, Row
    <3> QED BY <2>1, <2>2, <2>3, <3>1 DEF RowStep
  <2>6. \A r \in S : [row |-> r, worker |-> w, runAt |-> rows[r].runAt,
                      attempts |-> rows[r].attempts + 1, tick |-> now,
                      stage |-> "handler"] \in Invocation
    BY DEF Invocation, Stage, Inv, TypeOK, Row
  <2>7. returned' = returned
    BY <1>2 DEF Tick
  <2> QED BY <2>1, <2>2, <2>3, <2>4, <2>5, <2>6, <2>7 DEF Inv, TypeOK
<1>3. ASSUME NEW w \in Workers, NEW k \in ChainKeys, Seed(w, k)
      PROVE  StepShape
  <2>1. k \in Keys /\ now + Interval \in Nat
    BY ConstantsAssumption DEF Keys, Inv, TypeOK
  <2> QED BY <1>3, <2>1, EnqueueShape DEF Seed, Inv, TypeOK
<1>4. ASSUME NEW k \in PlainKeys \cup OrphanKeys, NEW delay \in Delays,
             Enqueue(k, delay)
      PROVE  StepShape
  <2>1. k \in Keys /\ now + delay \in Nat
    BY ConstantsAssumption DEF Keys, Inv, TypeOK
  <2> QED BY <1>4, <2>1, EnqueueShape DEF Enqueue, Inv, TypeOK
<1>5. ASSUME NEW i \in running, RunOne(i)
      PROVE  StepShape
  <2>1. CASE HandlerReturns(i)
    BY <2>1, StageShape DEF HandlerReturns, Inv, TypeOK, RowStep, Stage, Invocation
  <2>2. CASE HandlerThrows(i)
    BY <2>2, StageShape DEF HandlerThrows, Inv, TypeOK, RowStep, Stage
  <2>3. CASE Sweep(i)
    <3>1. rows' \in [Rows -> Row] /\ \A r \in Rows : RowStep(r)
      <4>1. CASE UNCHANGED rows
        BY <4>1 DEF RowStep, Inv, TypeOK
      <4>2. CASE rows' = [r \in Rows |->
                  IF Finished(r) /\ rows[r].finishedAt < now - Retention
                  THEN [rows[r] EXCEPT !.status = "pruned"] ELSE rows[r]]
        <5>1. \A q \in Row : [q EXCEPT !.status = "pruned"] \in Row
          BY DEF Row, Status
        <5> QED BY <4>2, <5>1 DEF RowStep, Inv, TypeOK
      <4> QED BY <2>3, <4>1, <4>2 DEF Sweep
    <3> QED BY <2>3, <3>1, StageShape DEF Sweep, Inv, TypeOK, Stage
  <2>4. CASE Rearm(i)
    <3>1. CASE UNCHANGED rows
      BY <2>4, <3>1, StageShape DEF Rearm, Inv, TypeOK, Stage, RowStep, Invocation
    <3>2. CASE EnqueueDedup(KeyOf(i), now + Interval, i.runAt)
      <4>1. rows' \in [Rows -> Row] /\ \A r \in Rows : RowStep(r)
        <5>1. KeyOf(i) \in Keys /\ now + Interval \in Nat
          BY ConstantsAssumption
          DEF KeyOf, Inv, TypeOK, KeyKnown, InvocationSound, Invocation
        <5> QED BY <3>2, <5>1, EnqueueShape
      <4> QED BY <2>4, <4>1, StageShape DEF Rearm, Inv, TypeOK, Stage, Invocation
    <3> QED BY <2>4, <3>1, <3>2 DEF Rearm
  <2>5. CASE NoHandler(i)
    BY <2>5, StageShape, FencedShape, FinishRow
    DEF NoHandler, KeyOf, Inv, TypeOK, Stage
  <2>6. CASE MarkComplete(i)
    BY <2>6, StageShape, FencedShape, FinishRow
    DEF MarkComplete, Inv, TypeOK, InvocationSound, Stage, RowStep
  <2>7. CASE SettleFailure(i)
    <3>1. i.row \in Rows /\ i.attempts \in Nat /\ i.tick \in Nat /\ 1 <= i.attempts
      BY DEF Inv, TypeOK, InvocationSound, Invocation
    <3>2. CASE MarkFailed(i)
      <4>1. rows[i.row].attempts >= MaxAttempts
        BY <3>1, <3>2, ConstantsAssumption
        DEF MarkFailed, Inv, TypeOK, InvocationSound, Row
      <4> QED
        BY <2>7, <3>2, <4>1, StageShape, FencedShape, FinishRow
        DEF SettleFailure, MarkFailed, Inv, TypeOK, Stage
    <3>3. CASE MarkRetry(i)
      <4> DEFINE new == [rows[i.row] EXCEPT !.runAt = i.tick + Backoff(i),
                                            !.lockedBy = None, !.lockedAt = 0]
      <4>1. i.tick + Backoff(i) \in Nat
        <5>1. i.attempts - 1 \in 0 .. MaxAttempts
          BY <3>1, <3>3, ConstantsAssumption DEF MarkRetry
        <5>2. Backoff(i) \in Nat
          BY <5>1, BackoffAssumption DEF Backoff
        <5> QED BY <5>2, <3>1
      <4>2. rows[i.row] \in Row
        BY <3>1 DEF Inv, TypeOK
      <4>3. /\ new \in Row /\ new.status = rows[i.row].status
            /\ new.attempts = rows[i.row].attempts /\ new.key = rows[i.row].key
        BY <4>1, <4>2 DEF Row
      <4>4. HoldsLock(i) => rows[i.row].status = "pending"
        BY <3>1, ConstantsAssumption
        DEF HoldsLock, Inv, TypeOK, OnlyPendingLocked, Invocation
      <4>5. FencedWrite(i, new)
        BY <3>3 DEF MarkRetry
      <4> HIDE DEF new
      <4>6. rows' \in [Rows -> Row] /\ \A r \in Rows : RowStep(r)
        BY <4>3, <4>4, <4>5, FencedShape
      <4> QED
        BY <2>7, <4>6, StageShape DEF SettleFailure, Inv, TypeOK, Stage
    <3>4. CASE UNCHANGED rows
      BY <2>7, <3>4, StageShape DEF SettleFailure, Inv, TypeOK, Stage, RowStep
    <3> QED BY <2>7, <3>2, <3>3, <3>4 DEF SettleFailure
  <2> QED BY <1>5, <2>1, <2>2, <2>3, <2>4, <2>5, <2>6, <2>7 DEF RunOne
<1>6. CASE Advance
  BY <1>6 DEF Advance, Inv, TypeOK, RowStep
<1> QED BY <1>1, <1>2, <1>3, <1>4, <1>5, <1>6 DEF Next

-----------------------------------------------------------------------------
(* The theorems *)

LEMMA TypeStep ==
    ASSUME Inv, Next, StepShape
    PROVE  TypeOK'
<1> SUFFICES up' \in SUBSET Workers /\ booted' \in SUBSET Workers
             /\ unseeded' \in [Workers -> SUBSET ChainKeys]
             /\ now' \in Nat /\ faults' \in Nat
  BY DEF StepShape, TypeOK
<1> USE DEF Inv, TypeOK, processes
<1>1. ASSUME NEW i \in running, RunOne(i)
      PROVE  up' = up /\ booted' = booted /\ unseeded' = unseeded /\ now' = now
             /\ faults' \in Nat
  BY <1>1, ConstantsAssumption
  DEF RunOne, HandlerReturns, HandlerThrows, Sweep, Rearm, NoHandler,
      MarkComplete, SettleFailure, Fault
<1>2. ASSUME NEW w \in Workers, Boot(w) \/ Crash(w) \/ Tick(w)
      PROVE  up' \in SUBSET Workers /\ booted' \in SUBSET Workers
             /\ unseeded' = unseeded /\ now' = now /\ faults' = faults
  BY <1>2 DEF Boot, Crash, Tick
<1>3. ASSUME NEW w \in Workers, NEW k \in ChainKeys, Seed(w, k)
      PROVE  up' = up /\ booted' = booted /\ now' = now /\ faults' = faults
             /\ unseeded' \in [Workers -> SUBSET ChainKeys]
  BY <1>3 DEF Seed
<1>4. ASSUME NEW k \in PlainKeys \cup OrphanKeys, NEW delay \in Delays,
             Enqueue(k, delay)
      PROVE  /\ up' = up /\ booted' = booted /\ unseeded' = unseeded
             /\ now' = now /\ faults' = faults
  BY <1>4 DEF Enqueue
<1>5. CASE Advance
  BY <1>5 DEF Advance
<1> QED BY <1>1, <1>2, <1>3, <1>4, <1>5 DEF Next

LEMMA StutterInv == Inv /\ UNCHANGED vars => Inv'
  BY DEF Inv, TypeOK, KeyKnown, OutcomeEarned, OnlyPendingLocked, InvocationSound, vars

\* The inductive invariant holds in every reachable state of the job queue.
THEOREM Invariance == Spec => []Inv
<1>1. Init => Inv
  BY InitInv
<1>2. Inv /\ [Next]_vars => Inv'
  <2>1. ASSUME Inv, Next
        PROVE  Inv'
    BY <2>1, ActionShape, ShapePreserves, TypeStep DEF Inv
  <2> QED BY <2>1, StutterInv
<1> QED BY <1>1, <1>2, PTL DEF Spec

\* Type correctness of the job table, the in-flight invocations and the
\* processes, for every size of the system.
THEOREM TypeCorrect == Spec => []TypeOK
  BY Invariance, PTL DEF Inv

\* A job's outcome is earned: completed only after a handler returned, failed
\* only after max_attempts claims or for want of a handler.
THEOREM OutcomeEarnedAlways == Spec => []OutcomeEarned
  BY Invariance, PTL DEF Inv

\* No late settle, re-claim or re-arm touches a completed or failed job.
THEOREM FinishedIsFinalAlways == Spec => FinishedIsFinal
<1>1. Inv /\ [Next]_vars =>
        [\A r \in Rows : Finished(r) =>
           rows'[r] \in {rows[r], [rows[r] EXCEPT !.status = "pruned"]}]_vars
  <2>1. ASSUME Inv, Next, NEW r \in Rows, Finished(r)
        PROVE  rows'[r] \in {rows[r], [rows[r] EXCEPT !.status = "pruned"]}
    BY <2>1, ActionShape DEF StepShape, RowStep, Finished
  <2> QED BY <2>1
<1> QED BY <1>1, Invariance, PTL DEF Spec, FinishedIsFinal

-----------------------------------------------------------------------------
(* The locking discipline *)

\* No two invocations work for the same claim of a row.
OneInvocationPerClaim ==
    \A i, j \in running : i.row = j.row /\ i.attempts = j.attempts => i = j

LEMMA ClaimsStayApart ==
    ASSUME Inv, OneInvocationPerClaim, [Next]_vars
    PROVE  OneInvocationPerClaim'
<1>1. CASE running' \subseteq running
  BY <1>1 DEF OneInvocationPerClaim
<1>2. ASSUME NEW i \in running, NEW s \in Stage, Become(i, s)
      PROVE  OneInvocationPerClaim'
  <2>1. PICK k : k = [i EXCEPT !.stage = s]
    OBVIOUS
  <2>2. k.row = i.row /\ k.attempts = i.attempts
    BY <2>1 DEF Inv, TypeOK, Invocation
  <2>3. running' = (running \ {i}) \cup {k}
    BY <1>2, <2>1 DEF Become
  <2> QED BY <2>2, <2>3 DEF OneInvocationPerClaim
<1>3. ASSUME NEW w \in Workers, Tick(w)
      PROVE  OneInvocationPerClaim'
  <2>1. PICK S \in SUBSET Rows :
           running' = running \cup
              {[row |-> r, worker |-> w, runAt |-> rows[r].runAt,
                attempts |-> rows[r].attempts + 1, tick |-> now,
                stage |-> "handler"] : r \in S}
    BY <1>3 DEF Tick
  <2>2. ASSUME NEW i \in running', i \notin running
        PROVE  /\ i.row \in Rows /\ i.attempts = rows[i.row].attempts + 1
               /\ i = [row |-> i.row, worker |-> w, runAt |-> rows[i.row].runAt,
                       attempts |-> rows[i.row].attempts + 1, tick |-> now,
                       stage |-> "handler"]
    BY <2>1, <2>2
  <2>3. ASSUME NEW i \in running
        PROVE  /\ i.row \in Rows /\ i.attempts \in Nat /\ rows[i.row].attempts \in Nat
               /\ i.attempts <= rows[i.row].attempts
    BY DEF Inv, TypeOK, Invocation, InvocationSound, Row
  <2> SUFFICES ASSUME NEW i \in running', NEW j \in running',
                      i.row = j.row, i.attempts = j.attempts
               PROVE  i = j
    BY DEF OneInvocationPerClaim
  <2>4. CASE i \in running /\ j \in running
    BY <2>4 DEF OneInvocationPerClaim
  <2>5. CASE i \in running /\ j \notin running
    BY <2>2, <2>3, <2>5
  <2>6. CASE i \notin running /\ j \in running
    BY <2>2, <2>3, <2>6
  <2>7. CASE i \notin running /\ j \notin running
    BY <2>2, <2>7
  <2> QED BY <2>4, <2>5, <2>6, <2>7
<1>4. ASSUME NEW i \in running, RunOne(i)
      PROVE  running' \subseteq running \/ \E s \in Stage : Become(i, s)
  BY <1>4 DEF RunOne, HandlerReturns, HandlerThrows, Sweep, Rearm, NoHandler, MarkComplete,
              SettleFailure, End, Stage
<1>5. CASE Next
  <2>1. ASSUME NEW w \in Workers, Boot(w) \/ Crash(w) PROVE running' \subseteq running
    BY <2>1 DEF Boot, Crash
  <2>2. ASSUME NEW w \in Workers, NEW k \in ChainKeys, Seed(w, k) PROVE running' = running
    BY <2>2 DEF Seed
  <2>3. ASSUME NEW k \in PlainKeys \cup OrphanKeys, NEW delay \in Delays, Enqueue(k, delay)
        PROVE  running' = running
    BY <2>3 DEF Enqueue
  <2>4. CASE Advance
    BY <1>1, <2>4 DEF Advance
  <2> QED BY <1>1, <1>2, <1>3, <1>4, <1>5, <2>1, <2>2, <2>3, <2>4 DEF Next
<1>6. CASE UNCHANGED vars
  BY <1>6 DEF vars, OneInvocationPerClaim
<1> QED BY <1>5, <1>6

LEMMA AlwaysApart == Spec => []OneInvocationPerClaim
<1>1. Init => OneInvocationPerClaim
  BY DEF Init, OneInvocationPerClaim
<1> QED BY <1>1, ClaimsStayApart, Invariance, PTL DEF Spec

\* Who may change the row of an invocation that works for its latest claim.
MayTakeOver(i) ==
    \/ rows[i.row].lockedAt < now - StaleLock
    \/ \E j \in Earlier(i) : j.worker = i.worker

LEMMA TakenOver ==
    ASSUME Inv, OneInvocationPerClaim, Next, NEW i \in running,
           Current(i), i \in running', rows'[i.row] # rows[i.row]
    PROVE  MayTakeOver(i)
<1>1. /\ i.row \in Rows /\ i.worker \in Workers /\ i.worker # None
      /\ rows[i.row].lockedBy = i.worker /\ i.attempts = rows[i.row].attempts
      /\ rows \in [Rows -> Row]
  BY ConstantsAssumption DEF Inv, TypeOK, Invocation, Current, HoldsLock
<1>2. rows[i.row].status = "pending"
  BY <1>1 DEF Inv, OnlyPendingLocked
<1>3. rows' # rows
  OBVIOUS
\* Nobody inserts a row that is there.
<1>4. ASSUME NEW k, NEW at, NEW after,
             EnqueueDedup(k, at, after) \/ \E r \in Rows : InsertRow(r, k, at)
      PROVE  FALSE
  <2>1. PICK r \in Rows : InsertRow(r, k, at)
    BY <1>3, <1>4 DEF EnqueueDedup
  <2>2. r # i.row
    BY <1>2, <2>1 DEF InsertRow
  <2> QED BY <1>1, <2>1, <2>2 DEF InsertRow
\* A settle that is not the invocation's own is one of an earlier invocation.
<1>5. ASSUME NEW j \in running, NEW new, FencedWrite(j, new), j # i
      PROVE  MayTakeOver(i)
  <2>1. HoldsLock(j) /\ j.row = i.row
    BY <1>1, <1>5 DEF FencedWrite
  <2>2. j.worker = i.worker
    BY <1>1, <2>1 DEF HoldsLock
  <2>3. j.attempts <= rows[j.row].attempts /\ j.attempts \in Nat /\ i.attempts \in Nat
    BY DEF Inv, InvocationSound, TypeOK, Invocation
  <2>4. j.attempts # i.attempts
    BY <1>5, <2>1 DEF OneInvocationPerClaim
  <2>5. j.attempts < i.attempts
    BY <1>1, <2>1, <2>3, <2>4
  <2> QED BY <2>1, <2>2, <2>5 DEF MayTakeOver, Earlier
<1>6. ASSUME NEW w \in Workers, Tick(w) PROVE MayTakeOver(i)
  <2>1. PICK S \in SUBSET Rows :
           Batch(S) /\ rows' = [r \in Rows |-> IF r \in S THEN Claim(w, r) ELSE rows[r]]
    BY <1>6 DEF Tick
  <2>2. i.row \in S
    BY <1>1, <2>1
  <2>3. Claimable(i.row)
    BY <2>1, <2>2 DEF Batch
  <2> QED BY <1>1, <2>3 DEF Claimable, MayTakeOver
<1>7. ASSUME NEW j \in running, RunOne(j) PROVE MayTakeOver(i)
  <2>1. CASE HandlerReturns(j) \/ HandlerThrows(j)
    BY <1>3, <2>1 DEF HandlerReturns, HandlerThrows
  <2>2. CASE Sweep(j)
    BY <1>1, <1>2, <2>2 DEF Sweep, Finished
  <2>3. CASE Rearm(j)
    BY <1>3, <1>4, <2>3 DEF Rearm
  <2>4. CASE NoHandler(j) \/ MarkComplete(j) \/ SettleFailure(j)
    <3>1. PICK new : FencedWrite(j, new)
      BY <1>3, <2>4 DEF NoHandler, MarkComplete, SettleFailure, MarkFailed, MarkRetry
    <3>2. j # i
      <4>1. CASE End(j)
        BY <4>1 DEF End
      <4>2. CASE MarkComplete(j) /\ Become(j, "failure")
        <5>1. [j EXCEPT !.stage = "failure"].stage = "failure" /\ j.stage = "complete"
          BY <4>2 DEF MarkComplete, Inv, TypeOK, Invocation
        <5> QED BY <4>2, <5>1 DEF Become
      <4> QED BY <2>4, <4>1, <4>2 DEF NoHandler, MarkComplete, SettleFailure
    <3> QED BY <1>5, <3>1, <3>2
  <2> QED BY <1>7, <2>1, <2>2, <2>3, <2>4 DEF RunOne
<1>8. ASSUME NEW w \in Workers, Boot(w) \/ Crash(w) PROVE FALSE
  BY <1>3, <1>8 DEF Boot, Crash
<1>9. ASSUME NEW w \in Workers, NEW k \in ChainKeys, Seed(w, k) PROVE FALSE
  BY <1>4, <1>9 DEF Seed
<1>10. ASSUME NEW k \in PlainKeys \cup OrphanKeys, NEW delay \in Delays, Enqueue(k, delay)
       PROVE  FALSE
  BY <1>4, <1>10 DEF Enqueue
<1>11. CASE Advance
  BY <1>3, <1>11 DEF Advance
<1> QED BY <1>6, <1>7, <1>8, <1>9, <1>10, <1>11 DEF Next

\* claimDue and the fenced settles keep to the lock: while an invocation works
\* for its row's latest claim, only a claim after the stale-lock window, or an
\* earlier overrun invocation of the same process, changes that row.
THEOREM LockedRowsAreLeftAlone == Spec => LockedRowIsLeftAlone
<1>1. Inv /\ OneInvocationPerClaim /\ [Next]_vars =>
        [\A i \in running :
            Current(i) /\ i \in running' /\ rows'[i.row] # rows[i.row]
            => \/ rows[i.row].lockedAt < now - StaleLock
               \/ \E j \in Earlier(i) : j.worker = i.worker]_vars
  <2>1. ASSUME Inv, OneInvocationPerClaim, Next
        PROVE  \A i \in running :
                  Current(i) /\ i \in running' /\ rows'[i.row] # rows[i.row]
                  => \/ rows[i.row].lockedAt < now - StaleLock
                     \/ \E j \in Earlier(i) : j.worker = i.worker
    BY <2>1, TakenOver DEF MayTakeOver
  <2> QED BY <2>1
<1> QED BY <1>1, Invariance, AlwaysApart, PTL DEF Spec, LockedRowIsLeftAlone

-----------------------------------------------------------------------------
(* A recurring sweep never dies *)

\* What an invocation of a chain's handler knows while no database call failed:
\* its row's run time is the one it was claimed for, it has not failed, and once
\* it has re-armed, a successor is pending.
ChainInvocation(i) ==
    /\ i.stage # "failure"
    /\ i.runAt = rows[i.row].runAt /\ i.runAt <= now
    /\ i.stage = "complete" => \E q \in Pending(KeyOf(i)) : rows[q].runAt > i.runAt

ChainInv ==
    /\ up \subseteq booted
    /\ \A w \in Workers \ booted : unseeded[w] = ChainKeys
    /\ faults = 0 => \A i \in running : KeyOf(i) \in ChainKeys => ChainInvocation(i)
    /\ ChainAlive

ChainRow(r) == rows[r].status # "unborn" /\ rows[r].key \in ChainKeys

\* Without a failed call a chain's row keeps its run time, and only the
\* markComplete of an invocation of its own ends it.
RowsKept ==
    \A r \in Rows : ChainRow(r) =>
        /\ rows'[r].key = rows[r].key /\ rows'[r].runAt = rows[r].runAt
        /\ rows'[r].status # "unborn"
        /\ rows[r].status = "pending" =>
              \/ rows'[r].status = "pending"
              \/ \E j \in running : /\ j.row = r /\ j.stage = "complete"
                                    /\ \A q \in Rows : q # r => rows'[q] = rows[q]

LEMMA InsertKeeps ==
    ASSUME Inv, NEW k, NEW at, NEW after,
           EnqueueDedup(k, at, after) \/ \E r \in Rows : InsertRow(r, k, at)
    PROVE  RowsKept
<1>1. CASE UNCHANGED rows
  BY <1>1 DEF RowsKept, ChainRow
<1>2. ASSUME NEW r \in Rows, InsertRow(r, k, at) PROVE RowsKept
  <2>1. \A q \in Rows : ChainRow(q) => rows'[q] = rows[q]
    BY <1>2 DEF InsertRow, ChainRow, Inv, TypeOK
  <2> QED BY <2>1 DEF RowsKept, ChainRow
<1> QED BY <1>1, <1>2 DEF EnqueueDedup

\* A settle of an invocation whose handler re-arms nothing touches no chain.
LEMMA FencedKeeps ==
    ASSUME Inv, NEW j \in running, NEW new, FencedWrite(j, new), KeyOf(j) \notin ChainKeys
    PROVE  RowsKept
<1>1. \A q \in Rows : ChainRow(q) => rows'[q] = rows[q]
  BY DEF FencedWrite, ChainRow, KeyOf, Inv, TypeOK
<1> QED BY <1>1 DEF RowsKept, ChainRow

LEMMA StepKeeps ==
    ASSUME Inv, ChainInv, Next, faults = 0, faults' = 0
    PROVE  RowsKept
<1>1. ASSUME UNCHANGED rows PROVE RowsKept
  BY <1>1 DEF RowsKept, ChainRow
<1>2. ASSUME NEW w \in Workers, Tick(w) PROVE RowsKept
  <2>1. PICK S \in SUBSET Rows :
           Batch(S) /\ rows' = [r \in Rows |-> IF r \in S THEN Claim(w, r) ELSE rows[r]]
    BY <1>2 DEF Tick
  <2>2. \A q \in Row : LET c == [q EXCEPT !.lockedBy = w, !.lockedAt = now, !.attempts = @ + 1]
                       IN  c.key = q.key /\ c.runAt = q.runAt /\ c.status = q.status
    BY DEF Row
  <2>3. ASSUME NEW r \in Rows
        PROVE  /\ rows'[r].key = rows[r].key /\ rows'[r].runAt = rows[r].runAt
               /\ rows'[r].status = rows[r].status
    BY <2>1, <2>2 DEF Claim, Inv, TypeOK
  <2> QED BY <2>3 DEF RowsKept, ChainRow
<1>3. ASSUME NEW j \in running, RunOne(j) PROVE RowsKept
  <2>1. CASE HandlerReturns(j) \/ HandlerThrows(j)
    BY <1>1, <2>1 DEF HandlerReturns, HandlerThrows
  <2>2. CASE Sweep(j)
    <3>1. CASE rows' = [r \in Rows |->
                  IF Finished(r) /\ rows[r].finishedAt < now - Retention
                  THEN [rows[r] EXCEPT !.status = "pruned"] ELSE rows[r]]
      <4>1. \A q \in Row : LET c == [q EXCEPT !.status = "pruned"]
                           IN  c.key = q.key /\ c.runAt = q.runAt /\ c.status = "pruned"
        BY DEF Row
      <4>2. ASSUME NEW r \in Rows
            PROVE  /\ rows'[r].key = rows[r].key /\ rows'[r].runAt = rows[r].runAt
                   /\ rows'[r].status = rows[r].status \/ rows'[r].status = "pruned"
                   /\ rows[r].status = "pending" => rows'[r].status = "pending"
        BY <3>1, <4>1 DEF Inv, TypeOK, Finished
      <4> QED BY <4>2 DEF RowsKept, ChainRow
    <3> QED BY <1>1, <2>2, <3>1 DEF Sweep
  <2>3. CASE Rearm(j)
    BY <1>1, <2>3, InsertKeeps DEF Rearm
  <2>4. CASE NoHandler(j)
    BY <2>4, FencedKeeps, ConstantsAssumption DEF NoHandler
  <2>5. CASE MarkComplete(j)
    <3>1. FencedWrite(j, Finish(j, "completed")) /\ j.stage = "complete"
      BY <2>5 DEF MarkComplete, Fault
    <3>2. j.row \in Rows /\ rows \in [Rows -> Row]
      BY DEF Inv, TypeOK, Invocation
    <3>3. CASE HoldsLock(j)
      <4>1. rows' = [rows EXCEPT ![j.row] = Finish(j, "completed")]
        BY <3>1, <3>3 DEF FencedWrite
      <4>2. /\ Finish(j, "completed").key = rows[j.row].key
            /\ Finish(j, "completed").runAt = rows[j.row].runAt
            /\ Finish(j, "completed").status = "completed"
        <5>1. \A q \in Row, t \in Nat :
                 LET f == [q EXCEPT !.status = "completed", !.finishedAt = t,
                                    !.lockedBy = None, !.lockedAt = 0]
                 IN  f.key = q.key /\ f.runAt = q.runAt /\ f.status = "completed"
          BY DEF Row
        <5> QED BY <3>2, <5>1 DEF Finish, Inv, TypeOK, Invocation
      <4> QED BY <3>1, <3>2, <4>1, <4>2 DEF RowsKept, ChainRow
    <3> QED BY <1>1, <3>1, <3>3 DEF FencedWrite
  <2>6. CASE SettleFailure(j)
    <3>1. KeyOf(j) \notin ChainKeys
      BY <2>6 DEF SettleFailure, ChainInv, ChainInvocation
    <3>2. \E new : FencedWrite(j, new)
      BY <2>6 DEF SettleFailure, MarkFailed, MarkRetry, Fault
    <3> QED BY <3>1, <3>2, FencedKeeps
  <2> QED BY <1>3, <2>1, <2>2, <2>3, <2>4, <2>5, <2>6 DEF RunOne
<1>4. ASSUME NEW w \in Workers, Boot(w) \/ Crash(w) PROVE RowsKept
  BY <1>1, <1>4 DEF Boot, Crash
<1>5. ASSUME NEW w \in Workers, NEW k \in ChainKeys, Seed(w, k) PROVE RowsKept
  BY <1>5, InsertKeeps DEF Seed
<1>6. ASSUME NEW k \in PlainKeys \cup OrphanKeys, NEW delay \in Delays, Enqueue(k, delay)
      PROVE  RowsKept
  BY <1>6, InsertKeeps DEF Enqueue
<1>7. CASE Advance
  BY <1>1, <1>7 DEF Advance
<1> QED BY <1>2, <1>3, <1>4, <1>5, <1>6, <1>7 DEF Next

\* A pending row of a chain is followed by one that is due no earlier.
LEMMA Succession ==
    ASSUME Inv, ChainInv, RowsKept, faults = 0, NEW k \in ChainKeys, NEW q \in Pending(k)
    PROVE  \E p \in Rows : /\ rows'[p].status = "pending" /\ rows'[p].key = k
                           /\ rows'[p].runAt >= rows[q].runAt
<1>1. q \in Rows /\ rows[q].status = "pending" /\ rows[q].key = k /\ ChainRow(q)
      /\ rows[q].runAt \in Nat
  BY DEF Pending, ChainRow, Inv, TypeOK, Row
<1>2. CASE rows'[q].status = "pending"
  BY <1>1, <1>2 DEF RowsKept
<1>3. CASE rows'[q].status # "pending"
  <2>1. PICK j \in running : /\ j.row = q /\ j.stage = "complete"
                             /\ \A r \in Rows : r # q => rows'[r] = rows[r]
    BY <1>1, <1>3 DEF RowsKept
  <2>2. j.runAt = rows[q].runAt /\ \E p \in Pending(k) : rows[p].runAt > j.runAt
    BY <1>1, <2>1 DEF ChainInv, ChainInvocation, KeyOf
  <2>3. PICK p \in Rows : /\ rows[p].status = "pending" /\ rows[p].key = k
                          /\ rows[p].runAt > rows[q].runAt
    BY <2>2 DEF Pending
  <2>4. p # q /\ rows[p].runAt \in Nat
    BY <1>1, <2>3 DEF Inv, TypeOK, Row
  <2>5. rows'[p] = rows[p]
    BY <2>1, <2>4
  <2> QED BY <1>1, <2>3, <2>4, <2>5
<1> QED BY <1>2, <1>3

LEMMA FaultsGrow ==
    ASSUME Inv, Next, faults' = 0
    PROVE  faults = 0
<1>1. faults \in Nat
  BY DEF Inv, TypeOK
<1>2. ASSUME NEW i \in running, RunOne(i) PROVE faults' = faults \/ faults' = faults + 1
  BY <1>2 DEF RunOne, HandlerReturns, HandlerThrows, Sweep, Rearm, NoHandler, MarkComplete,
              SettleFailure, Fault
<1>3. ASSUME NEW w \in Workers, Boot(w) \/ Crash(w) \/ Tick(w) PROVE faults' = faults
  BY <1>3 DEF Boot, Crash, Tick
<1>4. ASSUME NEW w \in Workers, NEW k \in ChainKeys, Seed(w, k) PROVE faults' = faults
  BY <1>4 DEF Seed
<1>5. ASSUME NEW k \in PlainKeys \cup OrphanKeys, NEW delay \in Delays, Enqueue(k, delay)
      PROVE  faults' = faults
  BY <1>5 DEF Enqueue
<1>6. CASE Advance
  BY <1>6 DEF Advance
<1> QED BY <1>1, <1>2, <1>3, <1>4, <1>5, <1>6 DEF Next

\* enqueue with dedup leaves a pending row of the pair: later than the run it
\* succeeds, when it is given one.
LEMMA EnqueueLeaves ==
    ASSUME Inv, NEW k, NEW at \in Nat, NEW after,
           EnqueueDedup(k, at, after), after # None => after \in Nat /\ at > after
    PROVE  \E p \in Rows : /\ rows'[p].status = "pending" /\ rows'[p].key = k
                           /\ after # None => rows'[p].runAt > after
<1>1. CASE DedupHit(k, after) /\ UNCHANGED rows
  BY <1>1 DEF DedupHit, Pending
<1>2. ASSUME NEW r \in Rows, InsertRow(r, k, at)
      PROVE  rows'[r].status = "pending" /\ rows'[r].key = k /\ rows'[r].runAt = at
  BY <1>2 DEF InsertRow, Inv, TypeOK, Unborn
<1> QED BY <1>1, <1>2 DEF EnqueueDedup

\* Moving an invocation on keeps what the chain's invocations know.
LEMMA ChainMoves ==
    ASSUME Inv, ChainInv, RowsKept, rows' \in [Rows -> Row], faults = 0,
           now' \in Nat, now' >= now,
           NEW i \in running, KeyOf(i) \in ChainKeys
    PROVE  /\ rows'[i.row].key = KeyOf(i)
           /\ i.runAt = rows'[i.row].runAt /\ i.runAt <= now'
           /\ i.stage = "complete" =>
                 \E p \in Rows : /\ rows'[p].status = "pending" /\ rows'[p].key = KeyOf(i)
                                 /\ rows'[p].runAt > i.runAt
<1>1. /\ i.row \in Rows /\ rows[i.row].status # "unborn" /\ i.runAt \in Nat
      /\ now \in Nat /\ rows[i.row].key = KeyOf(i)
  BY DEF Inv, TypeOK, Invocation, InvocationSound, KeyOf
<1>2. ChainInvocation(i) /\ ChainRow(i.row)
  BY <1>1 DEF ChainInv, ChainRow
<1>3. /\ rows'[i.row].key = KeyOf(i) /\ i.runAt = rows'[i.row].runAt /\ i.runAt <= now'
  BY <1>1, <1>2 DEF RowsKept, ChainInvocation
<1>4. ASSUME i.stage = "complete"
      PROVE  \E p \in Rows : /\ rows'[p].status = "pending" /\ rows'[p].key = KeyOf(i)
                             /\ rows'[p].runAt > i.runAt
  <2>1. PICK q \in Pending(KeyOf(i)) : rows[q].runAt > i.runAt
    BY <1>2, <1>4 DEF ChainInvocation
  <2>2. PICK p \in Rows : /\ rows'[p].status = "pending" /\ rows'[p].key = KeyOf(i)
                          /\ rows'[p].runAt >= rows[q].runAt
    BY <2>1, Succession
  <2>3. rows[q].runAt \in Nat /\ rows'[p].runAt \in Nat
    BY DEF Pending, Inv, TypeOK, Row
  <2>4. rows'[p].runAt > i.runAt
    BY <1>1, <2>1, <2>2, <2>3
  <2> QED BY <2>2, <2>4
<1> QED BY <1>3, <1>4

\* A row never changes hands between (account, job_type) pairs.
LEMMA KeysStay ==
    ASSUME Inv, Next, NEW r \in Rows, rows[r].status # "unborn"
    PROVE  rows'[r].key = rows[r].key
<1>1. PICK q \in Row : q = rows[r]
  BY DEF Inv, TypeOK
<1>2. [q EXCEPT !.status = "pruned"].key = q.key
  BY DEF Row
<1>3. RowStep(r)
  BY ActionShape DEF StepShape
<1> QED BY <1>1, <1>2, <1>3 DEF RowStep, Finished

LEMMA ChainStep ==
    ASSUME Inv, ChainInv, Next
    PROVE  ChainInv'
<1>1. up' \subseteq booted'
  <2>1. ASSUME NEW i \in running, RunOne(i) PROVE up' = up /\ booted' = booted
    BY <2>1 DEF RunOne, HandlerReturns, HandlerThrows, Sweep, Rearm, NoHandler, MarkComplete,
                SettleFailure, processes
  <2> QED
    BY <2>1 DEF Next, Boot, Crash, Tick, Seed, Enqueue, Advance, processes, ChainInv
<1>2. \A w \in Workers \ booted' : unseeded'[w] = ChainKeys
  <2>1. ASSUME NEW i \in running, RunOne(i) PROVE unseeded' = unseeded /\ booted' = booted
    BY <2>1 DEF RunOne, HandlerReturns, HandlerThrows, Sweep, Rearm, NoHandler, MarkComplete,
                SettleFailure, processes
  <2>2. ASSUME NEW v \in Workers, NEW k \in ChainKeys, Seed(v, k)
        PROVE  v \in booted /\ booted' = booted
               /\ unseeded' = [unseeded EXCEPT ![v] = @ \ {k}]
    BY <2>2 DEF Seed, ChainInv
  <2>3. unseeded \in [Workers -> SUBSET ChainKeys]
    BY DEF Inv, TypeOK
  <2>4. \/ unseeded' = unseeded /\ booted \subseteq booted'
        \/ \E v \in booted, k \in ChainKeys :
              booted' = booted /\ unseeded' = [unseeded EXCEPT ![v] = @ \ {k}]
    BY <2>1, <2>2 DEF Next, Boot, Crash, Tick, Enqueue, Advance, processes
  <2> QED BY <2>3, <2>4 DEF ChainInv
<1>3. SUFFICES ASSUME faults' = 0
      PROVE  /\ \A i \in running' : KeyOf(i)' \in ChainKeys => ChainInvocation(i)'
             /\ \A k \in ChainKeys : Seeded(k)' => \E p \in Rows :
                   rows'[p].status = "pending" /\ rows'[p].key = k
  BY <1>1, <1>2 DEF ChainInv, ChainAlive, Pending
<1>4. /\ faults = 0 /\ RowsKept /\ rows' \in [Rows -> Row]
      /\ now' \in Nat /\ now' >= now /\ now \in Nat
  <2>1. faults = 0 /\ RowsKept /\ rows' \in [Rows -> Row]
    BY <1>3, FaultsGrow, StepKeeps, ActionShape DEF StepShape
  <2>2. ASSUME NEW i \in running, RunOne(i) PROVE now' = now
    BY <2>2 DEF RunOne, HandlerReturns, HandlerThrows, Sweep, Rearm, NoHandler, MarkComplete,
                SettleFailure
  <2>3. now \in Nat /\ (now' = now \/ now' = now + 1)
    BY <2>2 DEF Next, Boot, Crash, Tick, Seed, Enqueue, Advance, Inv, TypeOK
  <2> QED BY <2>1, <2>3
\* An invocation that was running is of the same row, one that begins is of a
\* row that keeps its key and run time.
<1>5. ASSUME NEW i \in running, KeyOf(i)' \in ChainKeys PROVE KeyOf(i) \in ChainKeys
  <2>1. i.row \in Rows /\ rows[i.row].status # "unborn"
    BY DEF Inv, TypeOK, Invocation, InvocationSound
  <2>2. rows'[i.row].key = rows[i.row].key
    BY <2>1, KeysStay
  <2> QED BY <1>5, <2>2 DEF KeyOf
<1>6. ASSUME NEW i \in running, KeyOf(i)' \in ChainKeys PROVE ChainInvocation(i)'
  <2>1. KeyOf(i) \in ChainKeys /\ KeyOf(i)' = KeyOf(i)
    BY <1>4, <1>5, <1>6, ChainMoves DEF KeyOf
  <2>2. i.stage # "failure"
    BY <1>4, <2>1 DEF ChainInv, ChainInvocation
  <2> QED BY <1>4, <2>1, <2>2, ChainMoves DEF ChainInvocation, Pending
<1>7. ASSUME NEW i \in running', KeyOf(i)' \in ChainKeys PROVE ChainInvocation(i)'
  <2>1. CASE i \in running
    BY <1>6, <1>7, <2>1
  <2>2. ASSUME NEW w \in Workers, Tick(w), i \notin running PROVE ChainInvocation(i)'
    <3>1. PICK S \in SUBSET Rows :
             /\ Batch(S)
             /\ running' = running \cup
                {[row |-> r, worker |-> w, runAt |-> rows[r].runAt,
                  attempts |-> rows[r].attempts + 1, tick |-> now,
                  stage |-> "handler"] : r \in S}
      BY <2>2 DEF Tick
    <3>2. /\ i.row \in S /\ i.stage = "handler" /\ i.runAt = rows[i.row].runAt
      BY <2>2, <3>1
    <3>3. i.row \in Rows /\ rows[i.row].status = "pending" /\ rows[i.row].runAt <= now
      BY <3>1, <3>2 DEF Batch, Claimable
    <3>4. rows'[i.row].key = rows[i.row].key
      BY <3>3, KeysStay
    <3>5. ChainRow(i.row)
      BY <1>7, <3>3, <3>4 DEF ChainRow, KeyOf
    <3>6. i.runAt = rows'[i.row].runAt /\ rows[i.row].runAt \in Nat
      BY <1>4, <3>2, <3>3, <3>5 DEF RowsKept, Inv, TypeOK, Row
    <3> QED BY <1>4, <3>2, <3>3, <3>6 DEF ChainInvocation
  <2>3. ASSUME NEW j \in running, RunOne(j), i \notin running PROVE ChainInvocation(i)'
    <3>1. PICK s \in {"rearm", "complete", "failure"} :
             /\ Become(j, s)
             /\ s = "rearm" => Sweep(j)
             /\ s = "complete" => HandlerReturns(j) \/ Rearm(j)
             /\ s = "failure" => HandlerThrows(j)
      BY <1>3, <1>4, <2>3 DEF RunOne, HandlerReturns, HandlerThrows, Sweep, Rearm, NoHandler,
                              MarkComplete, SettleFailure, End, Fault
    <3>2. PICK k : k = [j EXCEPT !.stage = s]
      OBVIOUS
    <3>3. i = k /\ i.stage = s /\ i.row = j.row /\ i.runAt = j.runAt
      BY <2>3, <3>1, <3>2 DEF Become, Inv, TypeOK, Invocation
    <3>4. KeyOf(j)' = KeyOf(i)'
      BY <3>3 DEF KeyOf
    <3>5. KeyOf(j) \in ChainKeys
      BY <1>5, <1>7, <3>4
    <3>6. /\ rows'[i.row].key = KeyOf(j) /\ i.runAt = rows'[i.row].runAt /\ i.runAt <= now'
      BY <1>4, <3>3, <3>5, ChainMoves
    <3>7. s # "failure"
      BY <3>1, <3>5, ConstantsAssumption DEF HandlerThrows
    <3>8. ASSUME s = "complete"
          PROVE  \E p \in Rows : /\ rows'[p].status = "pending" /\ rows'[p].key = KeyOf(j)
                                 /\ rows'[p].runAt > i.runAt
      <4>1. Rearm(j) /\ faults' = 0
        BY <1>3, <3>1, <3>5, <3>8, ConstantsAssumption DEF HandlerReturns
      <4>2. EnqueueDedup(KeyOf(j), now + Interval, j.runAt)
        BY <1>4, <4>1 DEF Rearm, Fault
      <4>3. j.runAt \in Nat /\ j.runAt <= now
        BY <1>4, <3>5 DEF ChainInv, ChainInvocation, Inv, TypeOK, Invocation
      <4>4. now + Interval \in Nat /\ now + Interval > j.runAt
        BY <1>4, <4>3, ConstantsAssumption
      <4>5. j.runAt # None
        BY <4>3, ConstantsAssumption
      <4> QED BY <3>3, <4>2, <4>3, <4>4, <4>5, EnqueueLeaves
    <3>9. KeyOf(i)' = KeyOf(j)
      BY <3>6 DEF KeyOf
    <3> QED BY <3>3, <3>6, <3>7, <3>8, <3>9 DEF ChainInvocation, Pending
  <2>4. ASSUME NEW w \in Workers, Boot(w) \/ Crash(w) PROVE running' \subseteq running
    BY <2>4 DEF Boot, Crash
  <2>5. ASSUME NEW w \in Workers, NEW k \in ChainKeys, Seed(w, k) PROVE running' = running
    BY <2>5 DEF Seed
  <2>6. ASSUME NEW k \in PlainKeys \cup OrphanKeys, NEW delay \in Delays, Enqueue(k, delay)
        PROVE  running' = running
    BY <2>6 DEF Enqueue
  <2>7. Advance => running' = running
    BY DEF Advance
  <2> QED BY <1>7, <2>1, <2>2, <2>3, <2>4, <2>5, <2>6, <2>7 DEF Next
<1>8. ASSUME NEW k \in ChainKeys, Seeded(k)'
      PROVE  \E p \in Rows : rows'[p].status = "pending" /\ rows'[p].key = k
  <2>1. CASE Seeded(k)
    <3>1. PICK q \in Pending(k) : TRUE
      BY <1>4, <2>1 DEF ChainInv, ChainAlive
    <3> QED BY <1>4, <3>1, Succession
  <2>2. CASE ~Seeded(k)
    <3>1. PICK w \in Workers : Seed(w, k)
      <4>1. ASSUME NEW i \in running, RunOne(i) PROVE unseeded' = unseeded /\ booted' = booted
        BY <4>1 DEF RunOne, HandlerReturns, HandlerThrows, Sweep, Rearm, NoHandler,
                    MarkComplete, SettleFailure, processes
      <4>2. ASSUME NEW w \in Workers, Boot(w) PROVE FALSE
        BY <1>8, <2>2, <4>2 DEF Boot, Seeded, ChainInv
      <4>3. ASSUME NEW w \in Workers, NEW m \in ChainKeys, Seed(w, m), m # k PROVE FALSE
        BY <1>8, <2>2, <4>3 DEF Seed, Seeded, Inv, TypeOK
      <4>4. UNCHANGED <<unseeded, booted>> => FALSE
        BY <1>8, <2>2 DEF Seeded
      <4> QED BY <4>1, <4>2, <4>3, <4>4 DEF Next, Crash, Tick, Enqueue, Advance, processes
    <3>2. EnqueueDedup(k, now + Interval, None)
      BY <3>1 DEF Seed
    <3>3. now + Interval \in Nat
      BY <1>4, ConstantsAssumption
    <3> QED BY <3>2, <3>3, EnqueueLeaves
  <2> QED BY <2>1, <2>2
<1> QED BY <1>7, <1>8

LEMMA ChainInvHolds == Spec => []ChainInv
<1>1. Init => ChainInv
  BY DEF Init, ChainInv, ChainAlive, Seeded
<1>2. Inv /\ ChainInv /\ [Next]_vars => ChainInv'
  <2>1. ASSUME ChainInv, UNCHANGED vars PROVE ChainInv'
    BY <2>1 DEF ChainInv, ChainAlive, ChainInvocation, Seeded, Pending, KeyOf, vars, processes
  <2> QED BY <2>1, ChainStep
<1> QED BY <1>1, <1>2, Invariance, PTL DEF Spec

\* The sweeps of auth-flows and daily maintenance, once seeded at start-up, have
\* a pending row in every state: no crash, overrun, re-claim or late settle ends
\* a chain, only a database call that failed can.
THEOREM ChainsNeverDie == Spec => []ChainAlive
<1>1. ChainInv => ChainAlive
  BY DEF ChainInv
<1> QED BY <1>1, ChainInvHolds, PTL

-----------------------------------------------------------------------------
(* ... and never becomes two *)

Fresh(r) == rows[r].attempts = 0

\* A row of a chain that nobody has claimed yet is due after every other pending
\* row of its chain and after every run of the chain that is under way.
FanInv ==
    faults = 0 => \A k \in ChainKeys : \A f \in Pending(k) : Fresh(f) =>
        /\ \A r \in Pending(k) \ {f} : rows[f].runAt > rows[r].runAt
        /\ \A i \in running : KeyOf(i) = k => rows[f].runAt > i.runAt

\* Row r is inserted as the next run of chain k: nobody had yet to make a run of it.
Inserted(r, k) ==
    /\ rows'[r].runAt = now + Interval
    /\ \A q \in Rows \ {r} : rows'[q] = rows[q]
    /\ \A q \in Pending(k) : ~Fresh(q) /\ rows[q].runAt <= now

\* Invocation i was under way, or it begins with a claim.
Continued(i) ==
    \/ \E j \in running : j.row = i.row /\ j.runAt = i.runAt
    \/ /\ rows[i.row].status = "pending" /\ i.runAt = rows[i.row].runAt
       /\ rows'[i.row].attempts = rows[i.row].attempts + 1

LEMMA RunsContinue ==
    ASSUME Inv, Next
    PROVE  \A i \in running' : Continued(i) /\ i.row \in Rows
<1>1. ASSUME NEW i \in running PROVE Continued(i) /\ i.row \in Rows
  BY DEF Continued, Inv, TypeOK, Invocation
<1>2. ASSUME NEW w \in Workers, Tick(w), NEW i \in running', i \notin running
      PROVE  Continued(i) /\ i.row \in Rows
  <2>1. PICK S \in SUBSET Rows :
           /\ Batch(S)
           /\ rows' = [r \in Rows |-> IF r \in S THEN Claim(w, r) ELSE rows[r]]
           /\ running' = running \cup
              {[row |-> r, worker |-> w, runAt |-> rows[r].runAt,
                attempts |-> rows[r].attempts + 1, tick |-> now,
                stage |-> "handler"] : r \in S}
    BY <1>2 DEF Tick
  <2>2. i.row \in S /\ i.runAt = rows[i.row].runAt
    BY <1>2, <2>1
  <2>3. i.row \in Rows /\ rows[i.row].status = "pending" /\ rows[i.row] \in Row
    BY <2>1, <2>2 DEF Batch, Claimable, Inv, TypeOK
  <2>4. \A q \in Row : [q EXCEPT !.lockedBy = w, !.lockedAt = now, !.attempts = @ + 1].attempts = q.attempts + 1
    BY DEF Row
  <2>5. rows'[i.row].attempts = rows[i.row].attempts + 1
    BY <2>1, <2>2, <2>3, <2>4 DEF Claim
  <2> QED BY <2>2, <2>3, <2>5 DEF Continued
<1>3. ASSUME NEW j \in running, RunOne(j), NEW i \in running', i \notin running
      PROVE  Continued(i) /\ i.row \in Rows
  <2>1. PICK s : Become(j, s)
    BY <1>3 DEF RunOne, HandlerReturns, HandlerThrows, Sweep, Rearm, NoHandler, MarkComplete,
                SettleFailure, End
  <2>2. i.row = j.row /\ i.runAt = j.runAt
    BY <1>3, <2>1 DEF Become, Inv, TypeOK, Invocation
  <2>3. j.row \in Rows
    BY <1>1
  <2> QED BY <2>2, <2>3 DEF Continued
<1>4. ASSUME NEW w \in Workers, Boot(w) \/ Crash(w) PROVE running' \subseteq running
  BY <1>4 DEF Boot, Crash
<1>5. ASSUME NEW w \in Workers, NEW k \in ChainKeys, Seed(w, k) PROVE running' = running
  BY <1>5 DEF Seed
<1>6. ASSUME NEW k \in PlainKeys \cup OrphanKeys, NEW delay \in Delays, Enqueue(k, delay)
      PROVE  running' = running
  BY <1>6 DEF Enqueue
<1>7. Advance => running' = running
  BY DEF Advance
<1> QED BY <1>1, <1>2, <1>3, <1>4, <1>5, <1>6, <1>7 DEF Next

LEMMA InsertedRow ==
    ASSUME Inv, NEW r \in Rows, NEW q \in Rows, NEW k, NEW at, InsertRow(q, k, at),
           rows[r].status = "unborn", rows'[r].status = "pending"
    PROVE  /\ q = r /\ rows'[r].key = k /\ rows'[r].runAt = at
           /\ \A p \in Rows \ {r} : rows'[p] = rows[p]
  BY DEF InsertRow, Inv, TypeOK, Unborn

\* What the dedup of enqueue lets through.
LEMMA LetThrough ==
    ASSUME Inv, NEW k, NEW at, NEW after, EnqueueDedup(k, at, after),
           NEW r \in Rows, rows[r].status = "unborn", rows'[r].status = "pending"
    PROVE  /\ rows'[r].key = k /\ rows'[r].runAt = at
           /\ \A p \in Rows \ {r} : rows'[p] = rows[p]
           /\ \A q \in Pending(k) : after # None /\ ~(rows[q].runAt > after)
<1>1. PICK q \in Rows : ~DedupHit(k, after) /\ InsertRow(q, k, at)
  BY DEF EnqueueDedup
<1> QED BY <1>1, InsertedRow DEF DedupHit

\* A new row of a chain is the successor that the dedup let through.
LEMMA NewIsInserted ==
    ASSUME Inv, ChainInv, FanInv, Next, faults = 0, faults' = 0, NEW k \in ChainKeys,
           NEW r \in Rows, rows[r].status = "unborn", rows'[r].status = "pending", rows'[r].key = k
    PROVE  Inserted(r, k)
<1>1. ASSUME NEW w \in Workers, NEW m \in ChainKeys, Seed(w, m) PROVE Inserted(r, k)
  <2>1. EnqueueDedup(m, now + Interval, None)
    BY <1>1 DEF Seed
  <2> QED BY <2>1, LetThrough DEF Inserted
<1>2. ASSUME NEW j \in running, Rearm(j) PROVE Inserted(r, k)
  <2>1. EnqueueDedup(KeyOf(j), now + Interval, j.runAt)
    <3>1. ~Fault
      BY DEF Fault
    <3> QED BY <1>2, <3>1 DEF Rearm
  <2>2. /\ KeyOf(j) = k /\ rows'[r].runAt = now + Interval
        /\ \A p \in Rows \ {r} : rows'[p] = rows[p]
        /\ \A q \in Pending(k) : ~(rows[q].runAt > j.runAt)
    BY <2>1, LetThrough
  <2>3. \A q \in Pending(k) : ~Fresh(q)
    BY <2>2 DEF FanInv
  <2>4. j.runAt <= now /\ j.runAt \in Nat /\ now \in Nat
    BY <2>2 DEF ChainInv, ChainInvocation, Inv, TypeOK, Invocation
  <2>5. \A q \in Pending(k) : rows[q].runAt \in Nat
    BY DEF Pending, Inv, TypeOK, Row
  <2>6. \A q \in Pending(k) : rows[q].runAt <= now
    BY <2>2, <2>4, <2>5
  <2> QED BY <2>2, <2>3, <2>6 DEF Inserted
<1>3. ASSUME NEW m \in PlainKeys \cup OrphanKeys, NEW delay \in Delays, Enqueue(m, delay)
      PROVE  FALSE
  <2>1. PICK q \in Rows : InsertRow(q, m, now + delay)
    BY <1>3 DEF Enqueue
  <2>2. m = k
    BY <2>1, InsertedRow
  <2> QED BY <2>2, ConstantsAssumption
<1>4. ASSUME NEW w \in Workers, Tick(w) PROVE FALSE
  <2>1. PICK S \in SUBSET Rows :
           /\ Batch(S)
           /\ rows' = [q \in Rows |-> IF q \in S THEN Claim(w, q) ELSE rows[q]]
    BY <1>4 DEF Tick
  <2>2. r \notin S
    BY <2>1 DEF Batch, Claimable
  <2> QED BY <2>1, <2>2
<1>5. ASSUME NEW j \in running, NEW new, FencedWrite(j, new) PROVE FALSE
  <2>1. j.row # r
    BY DEF Inv, InvocationSound
  <2> QED BY <1>5, <2>1 DEF FencedWrite, Inv, TypeOK
<1>6. ASSUME UNCHANGED rows PROVE FALSE
  BY <1>6
<1>7. ASSUME NEW j \in running, RunOne(j), ~Rearm(j) PROVE FALSE
  <2>1. CASE HandlerReturns(j) \/ HandlerThrows(j)
    BY <1>6, <2>1 DEF HandlerReturns, HandlerThrows
  <2>2. CASE Sweep(j)
    <3>1. CASE rows' = [q \in Rows |->
                  IF Finished(q) /\ rows[q].finishedAt < now - Retention
                  THEN [rows[q] EXCEPT !.status = "pruned"] ELSE rows[q]]
      BY <3>1 DEF Finished
    <3> QED BY <1>6, <2>2, <3>1 DEF Sweep
  <2>3. CASE NoHandler(j)
    BY <1>5, <2>3 DEF NoHandler
  <2>4. CASE MarkComplete(j)
    BY <1>5, <1>6, <2>4 DEF MarkComplete
  <2>5. CASE SettleFailure(j)
    BY <1>5, <1>6, <2>5 DEF SettleFailure, MarkFailed, MarkRetry
  <2> QED BY <1>7, <2>1, <2>2, <2>3, <2>4, <2>5 DEF RunOne
<1>8. ASSUME NEW w \in Workers, Boot(w) \/ Crash(w) PROVE FALSE
  BY <1>6, <1>8 DEF Boot, Crash
<1>9. Advance => FALSE
  BY <1>6 DEF Advance
<1> QED BY <1>1, <1>2, <1>3, <1>4, <1>7, <1>8, <1>9 DEF Next

LEMMA FanStep ==
    ASSUME Inv, ChainInv, FanInv, Next
    PROVE  FanInv'
<1> SUFFICES ASSUME faults' = 0, NEW k \in ChainKeys, NEW f \in Rows,
                    rows'[f].status = "pending", rows'[f].key = k, rows'[f].attempts = 0
             PROVE  /\ \A r \in Rows \ {f} : rows'[r].status = "pending" /\ rows'[r].key = k
                          => rows'[f].runAt > rows'[r].runAt
                    /\ \A i \in running' : rows'[i.row].key = k => rows'[f].runAt > i.runAt
  BY DEF FanInv, Pending, Fresh, KeyOf
<1>1. faults = 0 /\ RowsKept /\ rows' \in [Rows -> Row] /\ now \in Nat
  BY FaultsGrow, StepKeeps, ActionShape DEF StepShape, Inv, TypeOK
<1>2. ASSUME NEW r \in Rows, rows'[r].status = "pending", rows'[r].key = k
      PROVE  \/ rows[r].status = "unborn" /\ Inserted(r, k)
             \/ r \in Pending(k) /\ rows'[r].runAt = rows[r].runAt /\ rows'[r].attempts >= rows[r].attempts
  <2>1. rows[r] \in Row /\ RowStep(r)
    BY ActionShape DEF StepShape, Inv, TypeOK
  <2>2. CASE rows[r].status = "unborn"
    BY <1>1, <1>2, <2>2, NewIsInserted
  <2>3. CASE rows[r].status # "unborn"
    <3>1. [rows[r] EXCEPT !.status = "pruned"].status = "pruned"
      BY <2>1 DEF Row
    <3>2. rows[r].status = "pending" /\ rows[r].key = k /\ rows'[r].attempts >= rows[r].attempts
      BY <1>2, <2>1, <2>3, <3>1 DEF RowStep, Row, Finished
    <3>3. ChainRow(r)
      BY <3>2 DEF ChainRow
    <3>4. rows'[r].runAt = rows[r].runAt
      BY <1>1, <3>3 DEF RowsKept
    <3> QED BY <3>2, <3>4 DEF Pending
  <2> QED BY <2>2, <2>3
<1>3. ASSUME NEW i \in running', rows'[i.row].key = k
      PROVE  /\ i.row \in Rows /\ i.runAt \in Nat
             /\ \/ \E j \in running : j.row = i.row /\ j.runAt = i.runAt /\ KeyOf(j) = k
                \/ /\ i.row \in Pending(k) /\ i.runAt = rows[i.row].runAt
                   /\ rows'[i.row].attempts = rows[i.row].attempts + 1
  <2>1. Continued(i) /\ i.row \in Rows
    BY RunsContinue
  <2>2. i.runAt \in Nat
    BY ActionShape DEF StepShape, Invocation
  <2>3. \A j \in running : rows[j.row].status # "unborn"
    BY DEF Inv, InvocationSound
  <2>4. rows[i.row].status # "unborn"
    BY <2>1, <2>3 DEF Continued
  <2>5. rows[i.row].key = k
    BY <1>3, <2>1, <2>4, KeysStay
  <2> QED BY <2>1, <2>2, <2>5 DEF Continued, KeyOf, Pending
<1>4. CASE rows[f].status = "unborn" /\ Inserted(f, k)
  <2>1. rows'[f].runAt = now + Interval /\ Interval \in Nat /\ Interval > 0
    BY <1>4, ConstantsAssumption DEF Inserted
  <2>2. ASSUME NEW r \in Rows \ {f}, rows'[r].status = "pending", rows'[r].key = k
        PROVE  rows'[f].runAt > rows'[r].runAt
    <3>1. r \in Pending(k) /\ rows'[r] = rows[r]
      BY <1>4, <2>2 DEF Inserted, Pending
    <3>2. rows[r].runAt <= now /\ rows[r].runAt \in Nat
      BY <1>4, <3>1 DEF Inserted, Pending, Inv, TypeOK, Row
    <3> QED BY <1>1, <2>1, <3>1, <3>2
  <2>3. ASSUME NEW i \in running', rows'[i.row].key = k
        PROVE  rows'[f].runAt > i.runAt
    <3>1. i.runAt <= now
      BY <1>1, <1>3, <1>4, <2>3 DEF ChainInv, ChainInvocation, Inserted
    <3> QED BY <1>1, <1>3, <2>1, <2>3, <3>1
  <2> QED BY <2>2, <2>3
<1>5. CASE /\ f \in Pending(k) /\ rows'[f].runAt = rows[f].runAt /\ rows'[f].attempts >= rows[f].attempts
  <2>1. rows[f].attempts = 0 /\ Fresh(f)
    BY <1>5 DEF Fresh, Inv, TypeOK, Row
  <2>2. ASSUME NEW r \in Rows \ {f}, rows'[r].status = "pending", rows'[r].key = k
        PROVE  rows'[f].runAt > rows'[r].runAt
    <3>1. ~Inserted(r, k)
      BY <1>5, <2>1 DEF Inserted
    <3>2. r \in Pending(k) /\ rows'[r].runAt = rows[r].runAt
      BY <1>2, <2>2, <3>1
    <3> QED BY <1>1, <1>5, <2>1, <2>2, <3>2 DEF FanInv
  <2>3. ASSUME NEW i \in running', rows'[i.row].key = k
        PROVE  rows'[f].runAt > i.runAt
    <3>1. CASE \E j \in running : j.row = i.row /\ j.runAt = i.runAt /\ KeyOf(j) = k
      BY <1>1, <1>5, <2>1, <3>1 DEF FanInv
    <3>2. CASE /\ i.row \in Pending(k) /\ i.runAt = rows[i.row].runAt
               /\ rows'[i.row].attempts = rows[i.row].attempts + 1
      <4>1. i.row # f
        BY <2>1, <3>2
      <4> QED BY <1>1, <1>5, <2>1, <3>2, <4>1 DEF FanInv
    <3> QED BY <1>3, <2>3, <3>1, <3>2
  <2> QED BY <2>2, <2>3
<1> QED BY <1>2, <1>4, <1>5

\* Of two such rows each would be due after the other.
LEMMA FanIsOne ==
    ASSUME Inv, FanInv, faults = 0
    PROVE  NoFanOut
<1> SUFFICES ASSUME NEW k \in ChainKeys
             PROVE  Cardinality({r \in Pending(k) : rows[r].attempts = 0}) <= 1
  BY DEF NoFanOut
<1> DEFINE F == {r \in Pending(k) : rows[r].attempts = 0}
<1>1. ASSUME NEW f \in F, NEW g \in F, f # g PROVE FALSE
  <2>1. rows[f].runAt \in Nat /\ rows[g].runAt \in Nat
    BY DEF Pending, Inv, TypeOK, Row
  <2>2. rows[f].runAt > rows[g].runAt /\ rows[g].runAt > rows[f].runAt
    BY <1>1 DEF FanInv, Fresh
  <2> QED BY <2>1, <2>2
<1> HIDE DEF F
<1>2. CASE F = {}
  BY <1>2, FS_EmptySet DEF F
<1>3. CASE F # {}
  <2>1. PICK f \in F : F = {f}
    BY <1>1, <1>3
  <2>2. Cardinality(F) = 1
    BY <2>1, FS_Singleton
  <2> QED BY <2>2 DEF F
<1> QED BY <1>2, <1>3

\* As long as no database call failed, the chain of every recurring sweep survives
\* crashes, overruns and replays of its handler, and never becomes two.
THEOREM ChainsAreSound == Spec => [](faults = 0 => ChainIsSound)
<1>1. Init => FanInv
  BY DEF Init, FanInv, Pending, Unborn
<1>2. Inv /\ ChainInv /\ FanInv /\ [Next]_vars => FanInv'
  <2>1. ASSUME FanInv, UNCHANGED vars PROVE FanInv'
    BY <2>1 DEF FanInv, Fresh, Pending, KeyOf, vars, processes
  <2> QED BY <2>1, FanStep
<1>3. Inv /\ ChainInv /\ FanInv => (faults = 0 => ChainIsSound)
  BY FanIsOne DEF ChainIsSound, ChainInv
<1> QED BY <1>1, <1>2, <1>3, ChainInvHolds, Invariance, PTL DEF Spec
=============================================================================
