----------------------- MODULE WebhookDelivery_proofs -----------------------
(***************************************************************************)
(* The delivery rows behave as the contract says and no limit is passed,   *)
(* for every number of endpoints, events, processes, attempts, faults and  *)
(* operations and for every pool size, cap and threshold.                  *)
(***************************************************************************)
EXTENDS WebhookDelivery, FiniteSetTheorems, WellFoundedInduction, TLAPS

USE ConstantsAssumption

\* Every nonempty set of natural numbers has a least element.
LEMMA LeastElement ==
    ASSUME NEW T, T \subseteq Nat, T # {}
    PROVE  \E x \in T : \A y \in T : x <= y
<1>1. PICK x \in T : \A y \in T : ~ (<<y, x>> \in OpToRel(<, Nat))
  BY NatLessThanWellFounded, WFMin
<1>2. ASSUME NEW y \in T PROVE ~ (y < x)
  <2>1. y \in Nat /\ x \in Nat
    OBVIOUS
  <2>2. QED
    BY <1>1, <2>1, Zenon DEF OpToRel
<1>3. QED
  BY <1>2

-----------------------------------------------------------------------------
(* Types *)

LEMMA Constant ==
    /\ Cap \in Nat /\ MaxFaults \in Nat /\ MaxOps \in Nat
    /\ MaxAttempts \in Nat \ {0} /\ Threshold \in Nat \ {0}
  OBVIOUS

LEMMA DeliveryParts ==
    /\ \A d \in Deliveries : EndpointOf(d) \in Endpoints
    /\ \A ev \in Events, e \in Endpoints : <<ev, e>> \in Deliveries
  BY DEF Deliveries, EndpointOf

LEMMA TypeInit == Init => TypeOK
<1> SUFFICES ASSUME Init PROVE TypeOK
  OBVIOUS
<1>1. [status |-> "none", attempts |-> 0] \in Row
  BY Constant DEF Row, Statuses
<1> QED BY <1>1 DEF Init, TypeOK

\* What the steps make of one row.
LEMMA RowMoves ==
    ASSUME NEW r \in Row
    PROVE  /\ r.status \in Statuses /\ r.attempts \in 0 .. MaxAttempts - 1
           /\ \A s \in Statuses : /\ [r EXCEPT !.status = s] \in Row
                                  /\ [r EXCEPT !.status = s].status = s
                                  /\ [r EXCEPT !.status = s].attempts = r.attempts
<1>1. r.status \in Statuses /\ r.attempts \in 0 .. MaxAttempts - 1
  BY DEF Row
<1>2. ASSUME NEW s \in Statuses
      PROVE  /\ [r EXCEPT !.status = s] \in Row
             /\ [r EXCEPT !.status = s].status = s
             /\ [r EXCEPT !.status = s].attempts = r.attempts
  BY DEF Row
<1> QED BY <1>1, <1>2

LEMMA JobParts ==
    ASSUME NEW j \in Job
    PROVE  /\ j.proc \in Processes /\ j.of \in Deliveries /\ j.claim \in Nat
           /\ j.attempts \in 0 .. MaxAttempts - 1 /\ j.step \in Steps
           /\ EndpointOf(j.of) \in Endpoints
           /\ \A s \in Steps : /\ [j EXCEPT !.step = s] \in Job
                               /\ [j EXCEPT !.step = s].step = s
                               /\ [j EXCEPT !.step = s].of = j.of
                               /\ [j EXCEPT !.step = s].attempts = j.attempts
<1>1. /\ j.proc \in Processes /\ j.of \in Deliveries /\ j.claim \in Nat
      /\ j.attempts \in 0 .. MaxAttempts - 1 /\ j.step \in Steps
  BY DEF Job
<1>2. ASSUME NEW s \in Steps
      PROVE  /\ [j EXCEPT !.step = s] \in Job
             /\ [j EXCEPT !.step = s].step = s
             /\ [j EXCEPT !.step = s].of = j.of
             /\ [j EXCEPT !.step = s].attempts = j.attempts
  BY DEF Job
<1> QED BY <1>1, <1>2, DeliveryParts

\* What a worker's step does to its own job: it ends, or it goes on with a step
\* there is reason for.
JobMoves(j) ==
    \/ jobs' = jobs \ {j}
    \/ \E s \in Steps : /\ Goto(j, s)
                        /\ s = "ok" => j.of \in received'
                        /\ s = "gone" => state[EndpointOf(j.of)] = "disabled"
                        /\ s = "recover" => faults' > 0

LEMMA ReturnsMoves ==
    ASSUME TypeOK, NEW j, NEW s \in {"done", "check"}, Returns(j, s)
    PROVE  JobMoves(j) /\ faults' \in Nat /\ faults' >= faults
<1>1. faults \in Nat
  BY DEF TypeOK
<1>2. CASE UNCHANGED faults /\ (IF s = "done" THEN Done(j) ELSE Goto(j, s))
  BY <1>1, <1>2 DEF JobMoves, Done, Steps
<1>3. CASE Fault /\ (IF j.step = "recover" THEN Done(j) ELSE Goto(j, "recover"))
  BY <1>1, <1>3 DEF JobMoves, Done, Steps, Fault
<1> QED BY <1>2, <1>3 DEF Returns

LEMMA WorkersMove ==
    ASSUME TypeOK, NEW j \in jobs, Work(j) \/ CallFails(j)
    PROVE  JobMoves(j) /\ faults' \in Nat /\ faults' >= faults
<1>1. faults \in Nat
  BY DEF TypeOK
<1>2. CASE Lookup(j)
  <2>1. /\ AfterLookup(EndpointOf(j.of)) \in {"gone", "defer", "post"}
        /\ AfterLookup(EndpointOf(j.of)) = "gone" => state[EndpointOf(j.of)] = "disabled"
    BY DEF AfterLookup
  <2>2. Goto(j, AfterLookup(EndpointOf(j.of))) /\ faults' = faults
    BY <1>2 DEF Lookup, envVars
  <2> HIDE DEF AfterLookup, Goto
  <2> QED BY <1>1, <2>1, <2>2 DEF JobMoves, Steps
<1>3. CASE Post(j)
  BY <1>1, <1>3 DEF Post, JobMoves, Steps
<1>4. CASE Record(j)
  <2>1. Returns(j, "done") \/ Returns(j, "check")
    BY <1>4 DEF Record
  <2> QED BY <2>1, ReturnsMoves
<1>5. CASE MaybeAutoDisable(j)
  BY <1>1, <1>5 DEF MaybeAutoDisable, JobMoves, Steps, Done, envVars
<1>6. CASE AutoDisable(j)
  BY <1>6, ReturnsMoves DEF AutoDisable
<1>7. CASE CallFails(j)
  BY <1>1, <1>7 DEF CallFails, JobMoves, Steps, Done, Fault
<1> QED BY <1>2, <1>3, <1>4, <1>5, <1>6, <1>7 DEF Work

\* What a record that finds the row in flight makes of it, and of the rest.
Delivered(j, r) ==
    /\ j.step = "ok" /\ r.status = "delivered" /\ r.attempts = row[j.of].attempts
    /\ failures' = [failures EXCEPT ![EndpointOf(j.of)] = 0]
    /\ LeaveQueue(j.of) /\ UNCHANGED snap

Retried(j, r) ==
    /\ j.step \in {"fail", "recover"} /\ r.status = "pending" /\ r.attempts = j.attempts + 1
    /\ LeaveQueue(j.of) /\ DropFromSnaps(j.of) /\ UNCHANGED failures

Deferred(j, r) ==
    /\ j.step = "defer" /\ r.status = "pending" /\ r.attempts = row[j.of].attempts
    /\ UNCHANGED <<failures, queueVars, snap>>

Buried(j, r) ==
    /\ j.step = "gone" \/ (j.step \in {"fail", "recover"} /\ j.attempts + 1 >= MaxAttempts)
    /\ j.step = "fail" /\ faults' = faults => Goto(j, "check")
    /\ r.status = "dlq" /\ r.attempts = row[j.of].attempts
    /\ failures' = [failures EXCEPT ![EndpointOf(j.of)] = @ + 1]
    /\ LeaveQueue(j.of) /\ UNCHANGED snap

Recorded(j, r) ==
    /\ row[j.of].status = "in_flight" /\ r \in Row
    /\ row' = [row EXCEPT ![j.of] = r]
    /\ fresh' = fresh \ {j.of}
    /\ Delivered(j, r) \/ Retried(j, r) \/ Deferred(j, r) \/ Buried(j, r)

LEMMA DlqRecords ==
    ASSUME TypeOK, NEW j \in jobs, row[j.of].status = "in_flight", RecordDlq(j),
           j.step = "gone" \/ (j.step \in {"fail", "recover"} /\ j.attempts + 1 >= MaxAttempts),
           j.step = "fail" /\ faults' = faults => Goto(j, "check")
    PROVE  \E r : Recorded(j, r)
<1> DEFINE r == [row[j.of] EXCEPT !.status = "dlq"]
<1>1. j \in Job /\ j.of \in Deliveries /\ row[j.of] \in Row
  BY JobParts DEF TypeOK
<1>2. r \in Row /\ r.status = "dlq" /\ r.attempts = row[j.of].attempts
  BY <1>1, RowMoves DEF Statuses
<1>3. /\ row' = [row EXCEPT ![j.of] = r]
      /\ fresh' = fresh \ {j.of} /\ LeaveQueue(j.of) /\ UNCHANGED snap
      /\ failures' = [failures EXCEPT ![EndpointOf(j.of)] = @ + 1]
  BY DEF RecordDlq, InFlight
<1> HIDE DEF r
<1> QED BY <1>2, <1>3 DEF Recorded, Buried

LEMMA RetryRecords ==
    ASSUME TypeOK, NEW j \in jobs, row[j.of].status = "in_flight", RecordRetry(j),
           j.step \in {"fail", "recover"}, j.attempts + 1 < MaxAttempts
    PROVE  \E r : Recorded(j, r)
<1> DEFINE r == [status |-> "pending", attempts |-> j.attempts + 1]
<1>1. j \in Job /\ j.attempts \in 0 .. MaxAttempts - 1
  BY JobParts DEF TypeOK
<1>2. r \in Row /\ r.status = "pending" /\ r.attempts = j.attempts + 1
  BY <1>1, Constant DEF Row, Statuses
<1>3. /\ row' = [row EXCEPT ![j.of] = r]
      /\ fresh' = fresh \ {j.of} /\ LeaveQueue(j.of) /\ DropFromSnaps(j.of)
      /\ UNCHANGED failures
  BY DEF RecordRetry, InFlight
<1> HIDE DEF r
<1> QED BY <1>2, <1>3 DEF Recorded, Retried

LEMMA DeferRecords ==
    ASSUME TypeOK, NEW j \in jobs, row[j.of].status = "in_flight", RecordDeferred(j),
           j.step = "defer"
    PROVE  \E r : Recorded(j, r)
<1> DEFINE r == [row[j.of] EXCEPT !.status = "pending"]
<1>1. j \in Job /\ j.of \in Deliveries /\ row[j.of] \in Row
  BY JobParts DEF TypeOK
<1>2. r \in Row /\ r.status = "pending" /\ r.attempts = row[j.of].attempts
  BY <1>1, RowMoves DEF Statuses
<1>3. /\ row' = [row EXCEPT ![j.of] = r]
      /\ fresh' = fresh \ {j.of} /\ UNCHANGED <<failures, queueVars, snap>>
  BY DEF RecordDeferred, InFlight
<1> HIDE DEF r
<1> QED BY <1>2, <1>3 DEF Recorded, Deferred

LEMMA DeliveredRecords ==
    ASSUME TypeOK, NEW j \in jobs, row[j.of].status = "in_flight", RecordDelivered(j),
           j.step = "ok"
    PROVE  \E r : Recorded(j, r)
<1> DEFINE r == [row[j.of] EXCEPT !.status = "delivered"]
<1>1. j \in Job /\ j.of \in Deliveries /\ row[j.of] \in Row
  BY JobParts DEF TypeOK
<1>2. r \in Row /\ r.status = "delivered" /\ r.attempts = row[j.of].attempts
  BY <1>1, RowMoves DEF Statuses
<1>3. /\ row' = [row EXCEPT ![j.of] = r]
      /\ fresh' = fresh \ {j.of} /\ LeaveQueue(j.of) /\ UNCHANGED snap
      /\ failures' = [failures EXCEPT ![EndpointOf(j.of)] = 0]
  BY DEF RecordDelivered, InFlight
<1> HIDE DEF r
<1> QED BY <1>2, <1>3 DEF Recorded, Delivered

LEMMA RecordsMove ==
    ASSUME TypeOK, NEW j \in jobs, Record(j)
    PROVE  \/ UNCHANGED <<row, failures, fresh, queueVars, snap>>
           \/ \E r : Recorded(j, r)
<1>1. CASE row[j.of].status # "in_flight"
  BY <1>1 DEF Record, FailedAttempt, RecordDlq, RecordRetry, RecordDeferred, RecordDelivered, InFlight
<1>2. ASSUME row[j.of].status = "in_flight"
      PROVE  \E r : Recorded(j, r)
  <2>1. j.attempts + 1 < MaxAttempts \/ j.attempts + 1 >= MaxAttempts
    <3>1. j \in Job /\ j.attempts \in 0 .. MaxAttempts - 1
      BY JobParts DEF TypeOK
    <3> QED BY <3>1, Constant
  <2>2. CASE j.step = "gone" /\ RecordDlq(j)
    BY <1>2, <2>2, DlqRecords
  <2>3. CASE j.step = "defer" /\ RecordDeferred(j)
    BY <1>2, <2>3, DeferRecords
  <2>4. CASE j.step = "ok" /\ RecordDelivered(j)
    BY <1>2, <2>4, DeliveredRecords
  <2>5. CASE j.step \in {"fail", "recover"} /\ FailedAttempt(j)
             /\ (j.step = "fail" /\ faults' = faults => Goto(j, "check"))
    <3>1. CASE j.attempts + 1 >= MaxAttempts
      BY <1>2, <2>5, <3>1, DlqRecords DEF FailedAttempt, LastAttempt
    <3>2. CASE j.attempts + 1 < MaxAttempts
      <4>1. RecordRetry(j)
        BY <2>1, <2>5, <3>2, JobParts, Constant DEF FailedAttempt, LastAttempt, TypeOK
      <4> QED BY <1>2, <2>5, <3>2, <4>1, RetryRecords
    <3> QED BY <2>1, <3>1, <3>2
  <2>6. ASSUME j.step = "fail", Returns(j, "check"), faults' = faults
        PROVE  Goto(j, "check")
    BY <2>6 DEF Returns, Fault, TypeOK
  <2> QED BY <2>2, <2>3, <2>4, <2>5, <2>6 DEF Record
<1> QED BY <1>1, <1>2

LEMMA QueueTypes ==
    ASSUME TypeOK, NEW d, LeaveQueue(d)
    PROVE  due' \in SUBSET Deliveries /\ ahead' \in [Deliveries -> SUBSET Deliveries]
  BY DEF TypeOK, LeaveQueue

LEMMA SnapTypes ==
    ASSUME TypeOK, UNCHANGED snap \/ \E d : DropFromSnaps(d)
    PROVE  snap' \in [Processes -> SUBSET Deliveries]
  BY DEF TypeOK, DropFromSnaps

LEMMA JobTypes ==
    ASSUME TypeOK, NEW j \in jobs, JobMoves(j)
    PROVE  jobs' \in SUBSET Job
<1>1. j \in Job /\ jobs \in SUBSET Job
  BY DEF TypeOK
<1>2. \A s \in Steps : [j EXCEPT !.step = s] \in Job
  BY <1>1, JobParts
<1>3. ASSUME NEW s \in Steps, Goto(j, s)
      PROVE  jobs' \in SUBSET Job
  BY <1>1, <1>2, <1>3 DEF Goto
<1> QED BY <1>1, <1>3 DEF JobMoves

LEMMA ResetTypes ==
    ASSUME TypeOK, NEW d \in Deliveries, ResetDeliveryToPending(d)
    PROVE  /\ row' \in [Deliveries -> Row] /\ due' \in SUBSET Deliveries
           /\ ahead' \in [Deliveries -> SUBSET Deliveries]
           /\ snap' \in [Processes -> SUBSET Deliveries]
           /\ UNCHANGED <<endpointVars, eventVars, fresh, jobs, claims, received, faults>>
<1>1. [status |-> "pending", attempts |-> 0] \in Row
  BY Constant DEF Row, Statuses
<1>2. row' = [row EXCEPT ![d] = [status |-> "pending", attempts |-> 0]]
  BY DEF ResetDeliveryToPending
<1>3. row' \in [Deliveries -> Row]
  BY <1>1, <1>2 DEF TypeOK
<1> QED BY <1>3, QueueTypes, SnapTypes DEF ResetDeliveryToPending

LEMMA ClaimTypes ==
    ASSUME TypeOK, NEW p \in Processes, ClaimLock(p)
    PROVE  TypeOK'
<1>1. Taken(p) \subseteq Deliveries
  BY DEF Taken, TypeOK
<1>2. row' \in [Deliveries -> Row]
  <2>1. ASSUME NEW d \in Deliveries
        PROVE  (IF d \in Taken(p) THEN [row[d] EXCEPT !.status = "in_flight"] ELSE row[d]) \in Row
    <3>1. row[d] \in Row /\ "in_flight" \in Statuses
      BY DEF TypeOK, Statuses
    <3>2. [row[d] EXCEPT !.status = "in_flight"] \in Row
      BY <3>1, RowMoves
    <3> QED BY <3>1, <3>2
  <2> QED BY <2>1 DEF ClaimLock
<1>3. claims' \in [Deliveries -> Nat]
  BY DEF ClaimLock, TypeOK
<1>4. jobs' \in SUBSET Job
  <2>1. ASSUME NEW d \in Taken(p)
        PROVE  NewJob(p, d) \in Job
    BY <1>1, RowMoves DEF NewJob, Job, TypeOK, Steps
  <2> QED BY <2>1 DEF ClaimLock, TypeOK
<1>5. fresh' \in SUBSET Deliveries /\ snap' \in [Processes -> SUBSET Deliveries]
  BY <1>1 DEF ClaimLock, TypeOK
<1> QED BY <1>2, <1>3, <1>4, <1>5 DEF ClaimLock, TypeOK, endpointVars, queueVars, envVars, eventVars

LEMMA TypeStep == TypeOK /\ [Next]_vars => TypeOK'
<1> SUFFICES ASSUME TypeOK, [Next]_vars PROVE TypeOK'
  OBVIOUS
<1> USE DEF endpointVars, queueVars, envVars, eventVars
<1>1. ASSUME NEW e \in Endpoints, CreateEndpoint(e) \/ Pause(e) \/ Resume(e) \/ Delete(e)
      PROVE  TypeOK'
  BY <1>1, Constant DEF CreateEndpoint, Pause, Resume, Delete, DisableEndpoint, Request, TypeOK
<1>2. ASSUME NEW ev \in Events, ListEndpoints(ev)
      PROVE  TypeOK'
  BY <1>2 DEF ListEndpoints, TypeOK
<1>3. ASSUME NEW ev \in Events, EnqueueDeliveries(ev)
      PROVE  TypeOK'
  <2>1. [status |-> "pending", attempts |-> 0] \in Row
    BY Constant DEF Row, Statuses
  <2>2. row' \in [Deliveries -> Row] /\ faults' \in Nat
    BY <1>3, <2>1 DEF EnqueueDeliveries, Insert, TypeOK, Fault
  <2> QED BY <1>3, <2>2 DEF EnqueueDeliveries, TypeOK
<1>4. ASSUME NEW ev \in Events, NEW e \in Endpoints, SendTestEvent(ev, e)
      PROVE  TypeOK'
  BY <1>4 DEF SendTestEvent, TypeOK
<1>5. ASSUME NEW d \in Deliveries, Elapse(d)
      PROVE  TypeOK'
  BY <1>5 DEF Elapse, TypeOK
<1>6. ASSUME NEW d \in Deliveries, Expire(d)
      PROVE  TypeOK'
  <2>1. snap' \in [Processes -> SUBSET Deliveries] /\ faults' \in Nat
    BY <1>6, SnapTypes DEF Expire, Fault, TypeOK
  <2> QED BY <1>6, <2>1 DEF Expire, TypeOK
<1>7. ASSUME NEW d \in Deliveries, ReplayDelivery(d)
      PROVE  TypeOK'
  BY <1>7, ResetTypes DEF ReplayDelivery, Request, TypeOK
<1>8. ASSUME NEW d \in Deliveries, RequeueFromDlq(d)
      PROVE  TypeOK'
  BY <1>8 DEF RequeueFromDlq, Request, TypeOK
<1>9. ASSUME NEW d \in Deliveries, RequeueReset(d)
      PROVE  TypeOK'
  BY <1>9, ResetTypes DEF RequeueReset, TypeOK
<1>10. ASSUME NEW d \in Deliveries, DiscardFromDlq(d)
      PROVE  TypeOK'
  <2>1. [row[d] EXCEPT !.status = "discarded"] \in Row
    <3>1. row[d] \in Row /\ "discarded" \in Statuses
      BY DEF TypeOK, Statuses
    <3> QED BY <3>1, RowMoves
  <2>2. row' \in [Deliveries -> Row]
    BY <1>10, <2>1 DEF DiscardFromDlq, TypeOK
  <2> QED BY <1>10, <2>2 DEF DiscardFromDlq, TypeOK
<1>11. ASSUME NEW p \in Processes, ClaimRank(p)
      PROVE  TypeOK'
  <2>1. Fair \subseteq Deliveries
    BY DEF Fair, Due, TypeOK
  <2>2. snap' \in [Processes -> SUBSET Deliveries]
    BY <1>11, <2>1 DEF ClaimRank, TypeOK
  <2> QED BY <1>11, <2>2 DEF ClaimRank, TypeOK
<1>12. ASSUME NEW p \in Processes, Crash(p)
      PROVE  TypeOK'
  BY <1>12 DEF Crash, Fault, TypeOK
<1>13. ASSUME NEW j \in jobs, Work(j) \/ CallFails(j)
      PROVE  TypeOK'
  <2>1. jobs' \in SUBSET Job /\ faults' \in Nat
    BY <1>13, WorkersMove, JobTypes
  <2>2. j.of \in Deliveries /\ EndpointOf(j.of) \in Endpoints
    BY JobParts DEF TypeOK
  <2>3. CASE Record(j)
    <3>1. CASE UNCHANGED <<row, failures, fresh, queueVars, snap>>
      BY <2>1, <2>3, <3>1 DEF Record, TypeOK
    <3>2. ASSUME NEW r, Recorded(j, r)
          PROVE  TypeOK'
      <4>1. row' \in [Deliveries -> Row] /\ fresh' \in SUBSET Deliveries
        BY <3>2 DEF Recorded, TypeOK
      <4>2. failures' \in [Endpoints -> Nat]
        BY <2>2, <3>2 DEF Recorded, TypeOK, Delivered, Retried, Deferred, Buried
      <4>3. due' \in SUBSET Deliveries /\ ahead' \in [Deliveries -> SUBSET Deliveries]
        <5>1. LeaveQueue(j.of) \/ UNCHANGED queueVars
          BY <3>2 DEF Recorded, Delivered, Retried, Deferred, Buried
        <5>2. CASE UNCHANGED queueVars
          BY <5>2 DEF TypeOK
        <5> QED BY <5>1, <5>2, QueueTypes
      <4>4. snap' \in [Processes -> SUBSET Deliveries]
        <5>1. UNCHANGED snap \/ DropFromSnaps(j.of)
          BY <3>2 DEF Recorded, Delivered, Retried, Deferred, Buried
        <5> QED BY <5>1, SnapTypes
      <4> QED BY <2>1, <2>3, <4>1, <4>2, <4>3, <4>4 DEF Record, TypeOK
    <3> QED BY <2>3, <3>1, <3>2, RecordsMove
  <2>4. CASE Lookup(j) \/ MaybeAutoDisable(j) \/ CallFails(j)
    BY <2>1, <2>4 DEF Lookup, MaybeAutoDisable, CallFails, TypeOK
  <2>5. CASE Post(j)
    BY <2>1, <2>2, <2>5 DEF Post, TypeOK
  <2>6. CASE AutoDisable(j)
    BY <2>1, <2>2, <2>6 DEF AutoDisable, DisableEndpoint, TypeOK
  <2> QED BY <1>13, <2>3, <2>4, <2>5, <2>6 DEF Work
<1>14. CASE UNCHANGED vars
  BY <1>14 DEF vars, TypeOK
<1> QED BY <1>1, <1>2, <1>3, <1>4, <1>5, <1>6, <1>7, <1>8, <1>9, <1>10, <1>11, <1>12,
           <1>13, <1>14, ClaimTypes DEF Next

-----------------------------------------------------------------------------
(* Rows, workers and the claims they answer for *)

\* Nothing is listed of an event that was not raised, and an event that is still
\* listed has no rows.
EventsAreNew ==
    /\ \A ev \in Events : listed[ev] # {} => ev \in raised
    /\ \A d \in Deliveries : (d[1] \notin raised \/ listed[d[1]] # {}) => row[d].status = "none"

\* A worker has claimed the row it works on, for every attempt it counts; what
\* it is about to record happened.
WorkIsGrounded ==
    \A j \in jobs :
        /\ row[j.of].status # "none"
        /\ j.attempts + 1 <= claims[j.of]
        /\ j.step = "ok" => j.of \in received
        /\ j.step = "gone" => state[EndpointOf(j.of)] = "disabled"
        /\ j.step = "recover" => faults > 0

\* A row counts no attempt that was not claimed, and only a claimed row is fresh.
AttemptsAreClaimed ==
    /\ \A d \in Deliveries : row[d].attempts <= claims[d]
    /\ \A d \in fresh : row[d].status = "in_flight"

Grounded == EventsAreNew /\ WorkIsGrounded /\ AttemptsAreClaimed /\ DeadLetterEarned

LEMMA GroundedInit == Init => Grounded
<1> SUFFICES ASSUME Init PROVE Grounded
  OBVIOUS
<1>1. EventsAreNew
  BY DEF Init, EventsAreNew, Deliveries
<1> QED BY <1>1 DEF Init, Grounded, WorkIsGrounded, AttemptsAreClaimed, DeadLetterEarned

\* What a step may do to a row.
RowSteps(d) ==
    \/ row'[d] = row[d]
    \/ /\ row[d].status = "none" /\ row'[d].status = "pending" /\ row'[d].attempts = 0
       /\ listed[d[1]] # {} /\ listed'[d[1]] = {} /\ raised' = raised /\ d[1] \in raised
    \/ /\ row[d].status \in {"pending", "delivered", "dlq"} /\ row'[d].status = "pending"
       /\ row'[d].attempts = 0 /\ DropFromSnaps(d)
    \/ /\ row[d].status = "dlq" /\ row'[d].status = "discarded"
       /\ row'[d].attempts = row[d].attempts
    \/ /\ Claimable(d) /\ row'[d].status = "in_flight" /\ row'[d].attempts = row[d].attempts
       /\ claims'[d] = claims[d] + 1
    \/ \E j \in jobs : j.of = d /\ d \notin fresh' /\ Recorded(j, row'[d])

\* The past stays: an endpoint disabled, an event raised, a delivery received, a
\* row claimed, a fault.
PastStays ==
    /\ \A e \in Endpoints : state[e] = "disabled" => state'[e] = "disabled"
    /\ raised \subseteq raised' /\ received \subseteq received'
    /\ \A d \in Deliveries : claims'[d] >= claims[d]
    /\ faults' >= faults

\* Where a job comes from: it stays, its worker moves it, or a claim takes a row.
JobSteps(k) ==
    \/ k \in jobs
    \/ \E j \in jobs, s \in Steps :
          /\ k = [j EXCEPT !.step = s]
          /\ s = "ok" => j.of \in received'
          /\ s = "gone" => state[EndpointOf(j.of)] = "disabled"
          /\ s = "recover" => faults' > 0
    \/ \E p \in Processes : \E d \in Taken(p) :
          k = NewJob(p, d) /\ claims'[d] = claims[d] + 1

ListSteps(ev) ==
    \/ listed'[ev] = listed[ev]
    \/ listed'[ev] = {}
    \/ ev \notin raised /\ ev \in raised'

Steady ==
    /\ PastStays
    /\ \A d \in Deliveries : RowSteps(d)
    /\ \A k \in jobs' : JobSteps(k)
    /\ \A ev \in Events : ListSteps(ev)
    /\ \A d \in fresh' : d \in fresh \/ row'[d].status = "in_flight"
    /\ \A d \in Deliveries : claims'[d] # claims[d] => Claimable(d)
    /\ failures' = failures \/ \E j \in jobs, r \in Row : Recorded(j, r)
    /\ \/ jobs \subseteq jobs' /\ failures' = failures
       \/ faults' > faults
       \/ \E j \in jobs : Work(j) /\ jobs \ {j} \subseteq jobs'

LEMMA JobsFollow ==
    ASSUME NEW j \in jobs, JobMoves(j)
    PROVE  \A k \in jobs' : JobSteps(k)
  BY DEF JobMoves, Goto, JobSteps

LEMMA ResetSteps ==
    ASSUME TypeOK, NEW d \in Deliveries, Resettable(d), ResetDeliveryToPending(d)
    PROVE  /\ \A x \in Deliveries : RowSteps(x)
           /\ jobs' = jobs /\ fresh' = fresh
           /\ UNCHANGED <<endpointVars, eventVars, received, claims, faults>>
<1> DEFINE r == [status |-> "pending", attempts |-> 0]
<1>1. /\ row' = [row EXCEPT ![d] = r] /\ r.status = "pending" /\ r.attempts = 0
      /\ DropFromSnaps(d)
  BY DEF ResetDeliveryToPending
<1> HIDE DEF r
<1>2. \A x \in Deliveries : RowSteps(x)
  BY <1>1 DEF RowSteps, TypeOK, Resettable
<1> QED BY <1>2 DEF ResetDeliveryToPending, endpointVars

LEMMA ClaimSteps ==
    ASSUME TypeOK, NEW p \in Processes, ClaimLock(p)
    PROVE  Steady
<1>1. Taken(p) \subseteq Deliveries /\ \A d \in Taken(p) : Claimable(d)
  BY DEF Taken, TypeOK
<1>2. ASSUME NEW d \in Deliveries
      PROVE  /\ RowSteps(d)
             /\ d \in Taken(p) => row'[d].status = "in_flight"
             /\ claims'[d] >= claims[d]
             /\ claims'[d] # claims[d] => Claimable(d)
             /\ d \in Taken(p) => claims'[d] = claims[d] + 1
  <2>1. CASE d \in Taken(p)
    <3> DEFINE r == [row[d] EXCEPT !.status = "in_flight"]
    <3>1. row[d] \in Row /\ "in_flight" \in Statuses /\ claims[d] \in Nat
      BY DEF TypeOK, Statuses
    <3>2. r.status = "in_flight" /\ r.attempts = row[d].attempts
      BY <3>1, RowMoves
    <3>3. row'[d] = r /\ claims'[d] = claims[d] + 1
      BY <2>1 DEF ClaimLock
    <3> HIDE DEF r
    <3> QED BY <1>1, <2>1, <3>1, <3>2, <3>3 DEF RowSteps
  <2>2. CASE d \notin Taken(p)
    <3>1. row'[d] = row[d] /\ claims'[d] = claims[d] /\ claims[d] \in Nat
      BY <2>2 DEF ClaimLock, TypeOK
    <3> QED BY <2>2, <3>1 DEF RowSteps
  <2> QED BY <2>1, <2>2
<1>3. \A k \in jobs' : JobSteps(k)
  BY <1>1, <1>2 DEF ClaimLock, JobSteps
<1>4. /\ UNCHANGED <<state, failures, raised, listed, received, faults>>
      /\ fresh' = fresh \cup Taken(p) /\ jobs \subseteq jobs'
  BY DEF ClaimLock, endpointVars, eventVars, envVars
<1>5. PastStays
  BY <1>2, <1>4 DEF PastStays, TypeOK
<1> QED BY <1>1, <1>2, <1>3, <1>4, <1>5 DEF Steady, ListSteps

LEMMA WorkSteps ==
    ASSUME TypeOK, NEW j \in jobs, Work(j) \/ CallFails(j)
    PROVE  Steady
<1>1. (\A k \in jobs' : JobSteps(k)) /\ faults' >= faults
  BY WorkersMove, JobsFollow
<1>2. j.of \in Deliveries /\ EndpointOf(j.of) \in Endpoints
  BY JobParts DEF TypeOK
<1>3. /\ UNCHANGED <<raised, listed, claims>> /\ received \subseteq received'
      /\ \A e \in Endpoints : state[e] = "disabled" => state'[e] = "disabled"
  BY <1>2 DEF Work, Lookup, Post, Record, MaybeAutoDisable, AutoDisable, DisableEndpoint, CallFails,
         endpointVars, envVars, eventVars, TypeOK
<1>4. PastStays
  BY <1>1, <1>3 DEF PastStays, TypeOK
<1>5. (\A d \in Deliveries : RowSteps(d)) /\ fresh' \subseteq fresh
  <2>1. CASE Record(j)
    <3>1. CASE UNCHANGED <<row, failures, fresh, queueVars, snap>>
      BY <3>1 DEF RowSteps
    <3>2. ASSUME NEW r, Recorded(j, r)
          PROVE  (\A d \in Deliveries : RowSteps(d)) /\ fresh' \subseteq fresh
      <4>1. row' = [row EXCEPT ![j.of] = r] /\ fresh' = fresh \ {j.of}
        BY <3>2 DEF Recorded
      <4>2. row'[j.of] = r /\ \A d \in Deliveries \ {j.of} : row'[d] = row[d]
        BY <1>2, <4>1 DEF TypeOK
      <4> QED BY <3>2, <4>1, <4>2 DEF RowSteps
    <3> QED BY <2>1, <3>1, <3>2, RecordsMove
  <2>2. CASE ~Record(j)
    BY <2>2 DEF Work, Lookup, Post, MaybeAutoDisable, AutoDisable, CallFails, RowSteps
  <2> QED BY <2>1, <2>2
<1>6. failures' = failures \/ \E r \in Row : Recorded(j, r)
  <2>1. CASE Record(j)
    BY <2>1, RecordsMove DEF Recorded
  <2>2. CASE ~Record(j)
    BY <2>2 DEF Work, Lookup, Post, MaybeAutoDisable, AutoDisable, CallFails, endpointVars
  <2> QED BY <2>1, <2>2
<1>7. jobs \ {j} \subseteq jobs' /\ (CallFails(j) => faults' > faults)
  <2>1. CallFails(j) => faults' > faults
    BY DEF CallFails, Fault, TypeOK
  <2>2. JobMoves(j)
    BY WorkersMove
  <2> QED BY <2>1, <2>2 DEF JobMoves, Goto
<1> QED BY <1>1, <1>3, <1>4, <1>5, <1>6, <1>7 DEF Steady, ListSteps

LEMMA NextSteady == TypeOK /\ EventsAreNew /\ [Next]_vars => Steady
<1> SUFFICES ASSUME TypeOK, EventsAreNew, [Next]_vars PROVE Steady
  OBVIOUS
<1> USE DEF endpointVars, queueVars, envVars, eventVars
<1>1. ASSUME UNCHANGED <<row, failures, raised, listed, received, claims>>,
             jobs' \subseteq jobs, jobs' = jobs \/ faults' > faults,
             fresh' \subseteq fresh, faults' >= faults,
             \A e \in Endpoints : state[e] = "disabled" => state'[e] = "disabled"
      PROVE  Steady
  BY <1>1 DEF Steady, PastStays, RowSteps, JobSteps, ListSteps, TypeOK
<1>2. \A d \in Deliveries : UNCHANGED row[d] => RowSteps(d)
  BY DEF RowSteps
<1>3. ASSUME NEW e \in Endpoints, CreateEndpoint(e) \/ Pause(e) \/ Resume(e) \/ Delete(e)
      PROVE  Steady
  BY <1>1, <1>3 DEF CreateEndpoint, Pause, Resume, Delete, DisableEndpoint, TypeOK
<1>4. ASSUME NEW ev \in Events, \/ ListEndpoints(ev)
                                \/ \E e \in Endpoints : SendTestEvent(ev, e)
      PROVE  Steady
  <2>1. /\ UNCHANGED <<state, failures, row, fresh, jobs, claims, received, faults>>
        /\ raised' = raised \cup {ev} /\ ev \notin raised
        /\ \A x \in Events \ {ev} : listed'[x] = listed[x]
    BY <1>4 DEF ListEndpoints, SendTestEvent, TypeOK
  <2>2. PastStays
    BY <2>1 DEF PastStays, TypeOK
  <2>3. \A x \in Events : ListSteps(x)
    BY <2>1 DEF ListSteps
  <2> QED BY <2>1, <2>2, <2>3 DEF Steady, RowSteps, JobSteps
<1>5. ASSUME NEW ev \in Events, EnqueueDeliveries(ev)
      PROVE  Steady
  <2>1. /\ UNCHANGED <<state, failures, raised, fresh, jobs, claims, received>> /\ faults' >= faults
        /\ listed[ev] # {} /\ listed' = [listed EXCEPT ![ev] = {}]
    BY <1>5 DEF EnqueueDeliveries, Fault, TypeOK
  <2>2. PastStays
    BY <2>1 DEF PastStays, TypeOK
  <2>3. ASSUME NEW d \in Deliveries
        PROVE  RowSteps(d)
    <3>1. CASE UNCHANGED row
      BY <3>1 DEF RowSteps
    <3>2. CASE Insert({ev} \X listed[ev])
      <4> DEFINE r == [status |-> "pending", attempts |-> 0]
      <4>1. CASE d \in {ev} \X listed[ev]
        <5>1. row'[d] = r /\ r.status = "pending" /\ r.attempts = 0 /\ d[1] = ev
          BY <3>2, <4>1 DEF Insert
        <5> HIDE DEF r
        <5>2. row[d].status = "none" /\ ev \in raised
          BY <1>5, <2>1, <5>1 DEF EventsAreNew
        <5>3. listed'[ev] = {}
          BY <2>1 DEF TypeOK
        <5> QED BY <2>1, <5>1, <5>2, <5>3 DEF RowSteps
      <4>2. CASE d \notin {ev} \X listed[ev]
        BY <3>2, <4>2 DEF Insert, RowSteps
      <4> QED BY <4>1, <4>2
    <3> QED BY <1>5, <3>1, <3>2 DEF EnqueueDeliveries
  <2>4. \A x \in Events : ListSteps(x)
    BY <2>1 DEF ListSteps, TypeOK
  <2> QED BY <2>1, <2>2, <2>3, <2>4 DEF Steady, JobSteps
<1>6. ASSUME NEW d \in Deliveries, Elapse(d) \/ Expire(d) \/ RequeueFromDlq(d)
      PROVE  Steady
  BY <1>1, <1>6 DEF Elapse, Expire, RequeueFromDlq, Fault, TypeOK
<1>7. ASSUME NEW d \in Deliveries, Resettable(d), ResetDeliveryToPending(d)
      PROVE  Steady
  <2>1. /\ \A x \in Deliveries : RowSteps(x)
        /\ jobs' = jobs /\ fresh' = fresh
        /\ UNCHANGED <<state, failures, raised, listed, received, claims, faults>>
    BY <1>7, ResetSteps
  <2> QED BY <2>1 DEF Steady, PastStays, JobSteps, ListSteps, TypeOK
<1>8. ASSUME NEW d \in Deliveries, ReplayDelivery(d) \/ RequeueReset(d)
      PROVE  Steady
  <2>1. CASE Resettable(d) /\ ResetDeliveryToPending(d)
    BY <1>7, <2>1
  <2>2. CASE ~(Resettable(d) /\ ResetDeliveryToPending(d))
    BY <1>1, <1>8, <2>2 DEF ReplayDelivery, RequeueReset, TypeOK
  <2> QED BY <2>1, <2>2
<1>9. ASSUME NEW d \in Deliveries, DiscardFromDlq(d)
      PROVE  Steady
  <2> DEFINE r == [row[d] EXCEPT !.status = "discarded"]
  <2>1. row[d] \in Row /\ "discarded" \in Statuses
    BY DEF TypeOK, Statuses
  <2>2. r.status = "discarded" /\ r.attempts = row[d].attempts
    BY <2>1, RowMoves
  <2>3. row' = [row EXCEPT ![d] = r] /\ row[d].status = "dlq"
    BY <1>9 DEF DiscardFromDlq
  <2> HIDE DEF r
  <2>4. \A x \in Deliveries : RowSteps(x)
    BY <2>2, <2>3 DEF RowSteps, TypeOK
  <2>5. UNCHANGED <<state, failures, raised, listed, received, claims, faults, jobs, fresh>>
    BY <1>9 DEF DiscardFromDlq
  <2> QED BY <2>4, <2>5 DEF Steady, PastStays, JobSteps, ListSteps, TypeOK
<1>10. ASSUME NEW p \in Processes, ClaimRank(p) \/ Crash(p)
      PROVE  Steady
  BY <1>1, <1>10 DEF ClaimRank, Crash, Fault, TypeOK
<1>11. CASE UNCHANGED vars
  BY <1>1, <1>11 DEF vars, TypeOK
<1> QED BY <1>3, <1>4, <1>5, <1>6, <1>8, <1>9, <1>10, <1>11, ClaimSteps, WorkSteps DEF Next

LEMMA GroundedStep == TypeOK /\ Grounded /\ [Next]_vars => Grounded'
<1> SUFFICES ASSUME TypeOK, Grounded, [Next]_vars PROVE Grounded'
  OBVIOUS
<1>1. Steady /\ TypeOK'
  BY NextSteady, TypeStep DEF Grounded
<1>2. EventsAreNew'
  <2>1. \A ev \in Events : listed'[ev] # {} => ev \in raised'
    BY <1>1 DEF Grounded, EventsAreNew, Steady, ListSteps, PastStays
  <2>2. ASSUME NEW d \in Deliveries, d[1] \notin raised' \/ listed'[d[1]] # {}
        PROVE  row'[d].status = "none"
    <3>1. d[1] \in Events
      BY DEF Deliveries
    <3>2. row[d].status = "none"
      BY <1>1, <2>2, <3>1 DEF Grounded, EventsAreNew, Steady, ListSteps, PastStays
    <3>3. RowSteps(d) /\ ~(listed[d[1]] # {} /\ listed'[d[1]] = {} /\ raised' = raised /\ d[1] \in raised)
      BY <1>1, <2>2, <3>1 DEF Steady
    <3> QED BY <3>2, <3>3 DEF RowSteps, Recorded, Claimable
  <2> QED BY <2>1, <2>2 DEF EventsAreNew
<1>3. \A d \in Deliveries : row[d].status # "none" => row'[d].status # "none"
  BY <1>1 DEF Steady, RowSteps, Recorded, Delivered, Retried, Deferred, Buried
<1>4. WorkIsGrounded'
  <2> SUFFICES ASSUME NEW k \in jobs'
               PROVE  /\ row'[k.of].status # "none"
                      /\ k.attempts + 1 <= claims'[k.of]
                      /\ k.step = "ok" => k.of \in received'
                      /\ k.step = "gone" => state'[EndpointOf(k.of)] = "disabled"
                      /\ k.step = "recover" => faults' > 0
    BY DEF WorkIsGrounded
  <2>1. PastStays /\ JobSteps(k)
    BY <1>1 DEF Steady
  <2>2. ASSUME NEW j \in jobs
        PROVE  /\ j \in Job /\ j.of \in Deliveries /\ EndpointOf(j.of) \in Endpoints
               /\ row'[j.of].status # "none"
               /\ j.attempts + 1 <= claims'[j.of]
               /\ state[EndpointOf(j.of)] = "disabled" => state'[EndpointOf(j.of)] = "disabled"
               /\ faults > 0 => faults' > 0
    <3>1. j \in Job
      BY DEF TypeOK
    <3>2. j.attempts \in Nat /\ j.of \in Deliveries /\ EndpointOf(j.of) \in Endpoints
      BY <3>1, JobParts, Constant
    <3>3. claims[j.of] \in Nat /\ claims'[j.of] \in Nat /\ faults \in Nat /\ faults' \in Nat
      BY <1>1, <3>2 DEF TypeOK
    <3>4. /\ row'[j.of].status # "none" /\ j.attempts + 1 <= claims[j.of]
          /\ claims'[j.of] >= claims[j.of] /\ faults' >= faults
      BY <1>3, <2>1, <3>2 DEF Grounded, WorkIsGrounded, PastStays
    <3> QED BY <2>1, <3>1, <3>2, <3>3, <3>4 DEF PastStays
  <2>3. CASE k \in jobs
    BY <2>1, <2>2, <2>3 DEF Grounded, WorkIsGrounded, PastStays
  <2>4. ASSUME NEW j \in jobs, NEW s \in Steps, k = [j EXCEPT !.step = s],
               s = "ok" => j.of \in received',
               s = "gone" => state[EndpointOf(j.of)] = "disabled",
               s = "recover" => faults' > 0
        PROVE  /\ row'[k.of].status # "none"
               /\ k.attempts + 1 <= claims'[k.of]
               /\ k.step = "ok" => k.of \in received'
               /\ k.step = "gone" => state'[EndpointOf(k.of)] = "disabled"
               /\ k.step = "recover" => faults' > 0
    <3>1. k.of = j.of /\ k.attempts = j.attempts /\ k.step = s
      BY <2>2, <2>4, JobParts
    <3> QED BY <2>2, <2>4, <3>1
  <2>5. ASSUME NEW p \in Processes, NEW d \in Taken(p), k = NewJob(p, d),
               claims'[d] = claims[d] + 1
        PROVE  /\ row'[k.of].status # "none"
               /\ k.attempts + 1 <= claims'[k.of]
               /\ k.step = "lookup"
    <3>1. d \in Deliveries /\ Claimable(d)
      BY DEF Taken, TypeOK
    <3>2. k.of = d /\ k.attempts = row[d].attempts /\ k.step = "lookup"
      BY <2>5 DEF NewJob
    <3>3. row[d].attempts \in Nat /\ claims[d] \in Nat /\ row[d].attempts <= claims[d]
      BY <3>1, RowMoves, Constant DEF TypeOK, Grounded, AttemptsAreClaimed
    <3> QED BY <1>3, <2>5, <3>1, <3>2, <3>3 DEF Claimable
  <2> QED BY <2>1, <2>3, <2>4, <2>5 DEF JobSteps
<1>5. ASSUME NEW d \in Deliveries
      PROVE  /\ row'[d].attempts <= claims'[d]
             /\ row'[d].status = "dlq" => \/ claims'[d] >= MaxAttempts
                                         \/ state'[EndpointOf(d)] = "disabled"
             /\ d \in fresh' => row'[d].status = "in_flight"
  <2>1. /\ RowSteps(d) /\ PastStays /\ claims'[d] >= claims[d]
        /\ d \in fresh' => d \in fresh \/ row'[d].status = "in_flight"
    BY <1>1 DEF Steady, PastStays
  <2>2. /\ row[d].attempts \in Nat /\ claims[d] \in Nat /\ claims'[d] \in Nat
        /\ EndpointOf(d) \in Endpoints
    BY <1>1, RowMoves, Constant, DeliveryParts DEF TypeOK
  <2>3. /\ row[d].attempts <= claims[d]
        /\ row[d].status = "dlq" => claims[d] >= MaxAttempts \/ state[EndpointOf(d)] = "disabled"
        /\ d \in fresh => row[d].status = "in_flight"
    BY DEF Grounded, AttemptsAreClaimed, DeadLetterEarned
  <2>4. state[EndpointOf(d)] = "disabled" => state'[EndpointOf(d)] = "disabled"
    BY <2>1, <2>2 DEF PastStays
  <2>5. ASSUME NEW j \in jobs, j.of = d, d \notin fresh', Recorded(j, row'[d])
        PROVE  /\ row'[d].attempts <= claims[d]
               /\ row'[d].status = "dlq" => \/ claims[d] >= MaxAttempts
                                           \/ state[EndpointOf(d)] = "disabled"
    <3>1. /\ j.attempts \in Nat /\ j.attempts + 1 <= claims[d]
          /\ j.step = "gone" => state[EndpointOf(d)] = "disabled"
      <4>1. j \in Job
        BY DEF TypeOK
      <4> QED BY <2>5, <4>1, JobParts, Constant DEF Grounded, WorkIsGrounded
    <3>2. \/ row'[d].attempts = row[d].attempts /\ row'[d].status # "dlq"
          \/ row'[d].attempts = j.attempts + 1 /\ row'[d].status = "pending"
          \/ /\ row'[d].attempts = row[d].attempts
             /\ j.step = "gone" \/ j.attempts + 1 >= MaxAttempts
      BY <2>5 DEF Recorded, Delivered, Retried, Deferred, Buried
    <3> QED BY <2>2, <2>3, <3>1, <3>2, Constant
  <2>6. \/ row'[d] = row[d]
        \/ row'[d].status \in {"pending", "discarded", "in_flight"} /\ row'[d].attempts \in {0, row[d].attempts}
        \/ \E j \in jobs : j.of = d /\ d \notin fresh' /\ Recorded(j, row'[d])
    BY <2>1 DEF RowSteps
  <2>7. row'[d].attempts <= claims[d]
    BY <2>2, <2>3, <2>5, <2>6
  <2>8. row'[d].attempts \in Nat
    BY <1>1, RowMoves, Constant DEF TypeOK
  <2>9. row'[d].status = "dlq" => claims[d] >= MaxAttempts \/ state[EndpointOf(d)] = "disabled"
    BY <2>3, <2>5, <2>6
  <2>10. d \in fresh' => row'[d].status = "in_flight"
    BY <2>1, <2>3 DEF RowSteps
  <2> QED BY <2>1, <2>2, <2>4, <2>7, <2>8, <2>9, <2>10, Constant
<1> QED BY <1>1, <1>2, <1>4, <1>5 DEF Grounded, AttemptsAreClaimed, DeadLetterEarned, TypeOK

LEMMA GroundedAlways == Spec => [](TypeOK /\ Grounded)
<1>1. Init => TypeOK /\ Grounded
  BY TypeInit, GroundedInit
<1>2. TypeOK /\ Grounded /\ [Next]_vars => (TypeOK /\ Grounded)'
  BY TypeStep, GroundedStep
<1> QED BY <1>1, <1>2, PTL DEF Spec

\* A row claimed within the stale window is in flight, and a claim takes one in
\* flight only when the window has passed.
THEOREM ClaimedStaysAlone == Spec => ClaimedRowIsLeftAlone
<1>1. TypeOK /\ Grounded /\ [Next]_vars => [\A d \in fresh : claims'[d] = claims[d]]_vars
  <2> SUFFICES ASSUME TypeOK, Grounded, [Next]_vars, NEW d \in fresh
               PROVE  claims'[d] = claims[d]
    OBVIOUS
  <2>1. d \in Deliveries /\ row[d].status = "in_flight"
    BY DEF Grounded, AttemptsAreClaimed, TypeOK
  <2>2. claims'[d] # claims[d] => Claimable(d)
    BY <2>1, NextSteady DEF Grounded, Steady
  <2> QED BY <2>1, <2>2 DEF Claimable
<1> QED BY <1>1, GroundedAlways, PTL DEF Spec, ClaimedRowIsLeftAlone

\* Only a record that takes a row from in flight to the dead letter queue counts
\* a failure, and what costs a delivery an attempt was begun before the pause.
THEOREM RecordsAlwaysSpendOnce == Spec => RecordsSpendOnce
<1>1. ASSUME TypeOK, Grounded, [Next]_vars
      PROVE  FailureCountsOnce
  <2> SUFFICES ASSUME NEW e \in Endpoints, failures'[e] > failures[e]
               PROVE  /\ failures'[e] = failures[e] + 1
                      /\ \E d \in Deliveries : /\ EndpointOf(d) = e
                                               /\ row[d].status = "in_flight"
                                               /\ row'[d].status = "dlq"
    BY DEF FailureCountsOnce
  <2>1. failures[e] \in Nat
    BY <1>1 DEF TypeOK
  <2>2. PICK j \in jobs, r \in Row : Recorded(j, r)
    BY <1>1, <2>1, NextSteady DEF Grounded, Steady
  <2>3. j.of \in Deliveries /\ EndpointOf(j.of) \in Endpoints
    BY <1>1, JobParts DEF TypeOK
  <2>4. Buried(j, r) /\ EndpointOf(j.of) = e
    BY <1>1, <2>1, <2>2, <2>3 DEF Recorded, Delivered, Retried, Deferred, Buried, TypeOK
  <2>5. failures'[e] = failures[e] + 1 /\ row'[j.of] = r
    BY <1>1, <2>2, <2>3, <2>4 DEF Recorded, Buried, TypeOK
  <2> QED BY <2>2, <2>3, <2>4, <2>5 DEF Recorded, Buried
<1>2. ASSUME TypeOK, Grounded, [Next]_vars
      PROVE  PauseSpendsNothing
  <2> SUFFICES ASSUME NEW d \in Deliveries, state[EndpointOf(d)] = "paused",
                      ~\E j \in jobs : j.of = d /\ j.step \in {"post", "ok", "fail", "recover"}
               PROVE  /\ row'[d].attempts \in {0, row[d].attempts}
                      /\ row'[d].status = "dlq" => row[d].status = "dlq"
    BY DEF PauseSpendsNothing
  <2>1. RowSteps(d)
    BY <1>2, NextSteady DEF Grounded, Steady
  <2>2. ASSUME NEW j \in jobs, j.of = d, Recorded(j, row'[d])
        PROVE  Deferred(j, row'[d])
    BY <1>2, <2>2 DEF Recorded, Delivered, Retried, Buried, Grounded, WorkIsGrounded
  <2> QED BY <2>1, <2>2 DEF RowSteps, Deferred
<1>3. ASSUME UNCHANGED vars, TypeOK
      PROVE  FailureCountsOnce /\ PauseSpendsNothing
  BY <1>3 DEF vars, FailureCountsOnce, PauseSpendsNothing, TypeOK
<1>4. TypeOK /\ Grounded /\ [Next]_vars => [FailureCountsOnce /\ PauseSpendsNothing]_vars
  BY <1>1, <1>2
<1> QED BY <1>4, GroundedAlways, PTL DEF Spec, RecordsSpendOnce

LEMMA FailingInit == Init => FailingEndpointIsDisabled
  BY Constant DEF Init, FailingEndpointIsDisabled

LEMMA FailingStep ==
    TypeOK /\ Grounded /\ FailingEndpointIsDisabled /\ [Next]_vars => FailingEndpointIsDisabled'
<1> SUFFICES ASSUME TypeOK, Grounded, FailingEndpointIsDisabled, [Next]_vars,
                    faults' = 0, NEW e \in Endpoints, failures'[e] >= Threshold
             PROVE  \/ state'[e] = "disabled"
                    \/ \E j \in jobs' : EndpointOf(j.of) = e /\ j.step \in {"check", "disable"}
  BY DEF FailingEndpointIsDisabled
<1>1. Steady /\ TypeOK'
  BY NextSteady, TypeStep DEF Grounded
<1>2. faults = 0 /\ failures[e] \in Nat
  BY <1>1 DEF Steady, PastStays, TypeOK
<1>3. state[e] = "disabled" => state'[e] = "disabled"
  BY <1>1 DEF Steady, PastStays
<1>4. \A j \in jobs : j.step # "recover" /\ j \in Job
  BY <1>2 DEF Grounded, WorkIsGrounded, TypeOK
<1>5. CASE failures[e] < Threshold
  <2>1. PICK j \in jobs, r \in Row : Recorded(j, r)
    BY <1>1, <1>2, <1>5, Constant DEF Steady
  <2>2. j.of \in Deliveries /\ EndpointOf(j.of) \in Endpoints
    BY JobParts DEF TypeOK
  <2>3. Buried(j, r) /\ EndpointOf(j.of) = e
    BY <1>2, <1>5, <2>1, <2>2, Constant DEF Recorded, Delivered, Retried, Deferred, Buried, TypeOK
  <2>4. CASE j.step = "gone"
    BY <1>3, <2>3, <2>4 DEF Grounded, WorkIsGrounded
  <2>5. CASE j.step = "fail"
    <3>1. Goto(j, "check")
      BY <1>2, <2>3, <2>5 DEF Buried
    <3>2. [j EXCEPT !.step = "check"] \in jobs'
      BY <3>1 DEF Goto
    <3>3. [j EXCEPT !.step = "check"].of = j.of /\ [j EXCEPT !.step = "check"].step = "check"
      BY <1>4, JobParts DEF Steps
    <3> QED BY <2>3, <3>2, <3>3
  <2> QED BY <1>4, <2>3, <2>4, <2>5 DEF Buried
<1>6. CASE failures[e] >= Threshold
  <2>1. CASE state[e] = "disabled"
    BY <1>3, <2>1
  <2>2. CASE state[e] # "disabled"
    <3>1. PICK j \in jobs : EndpointOf(j.of) = e /\ j.step \in {"check", "disable"}
      BY <1>2, <1>6, <2>2 DEF FailingEndpointIsDisabled
    <3>2. CASE j \in jobs'
      BY <3>1, <3>2
    <3>3. CASE j \notin jobs'
      <4>1. Work(j)
        BY <1>1, <1>2, <3>3 DEF Steady
      <4>2. CASE MaybeAutoDisable(j)
        <5>1. AtThreshold(e)
          BY <1>6, <2>2 DEF AtThreshold
        <5>2. Goto(j, "disable")
          BY <3>1, <4>2, <5>1 DEF MaybeAutoDisable
        <5>3. [j EXCEPT !.step = "disable"] \in jobs'
          BY <5>2 DEF Goto
        <5>4. [j EXCEPT !.step = "disable"].of = j.of /\ [j EXCEPT !.step = "disable"].step = "disable"
          BY <1>4, JobParts DEF Steps
        <5> QED BY <3>1, <5>3, <5>4
      <4>3. CASE AutoDisable(j)
        BY <3>1, <4>3 DEF AutoDisable, DisableEndpoint, TypeOK
      <4> QED BY <3>1, <4>1, <4>2, <4>3 DEF Work, Lookup, Post, Record
    <3> QED BY <3>2, <3>3
  <2> QED BY <2>1, <2>2
<1> QED BY <1>2, <1>5, <1>6, Constant

\* Whoever counts the failure that reaches the threshold looks at the count
\* afterwards, and it falls again only with a delivery that succeeds.
THEOREM FailingAlwaysDisabled == Spec => []FailingEndpointIsDisabled
<1>1. Spec => [](TypeOK /\ Grounded)
  BY GroundedAlways
<1> QED BY <1>1, FailingInit, FailingStep, PTL DEF Spec

-----------------------------------------------------------------------------
(* The contract *)

outcomes == [d \in Deliveries |-> Outcome(row[d].status)]

LEMMA OutcomeOf ==
    /\ Outcome("none") = "none"
    /\ Outcome("pending") = "owed" /\ Outcome("in_flight") = "owed"
    /\ Outcome("delivered") = "delivered" /\ Outcome("dlq") = "dead"
    /\ Outcome("discarded") = "gone"
  BY DEF Outcome

\* A step that changes one row changes one outcome.
LEMMA OneOutcome ==
    ASSUME TypeOK, NEW d \in Deliveries, NEW r, row' = [row EXCEPT ![d] = r]
    PROVE  outcomes' = [outcomes EXCEPT ![d] = Outcome(r.status)]
<1>1. \A x \in Deliveries : row'[x] = IF x = d THEN r ELSE row[x]
  BY DEF TypeOK
<1>2. \A x \in Deliveries :
         Outcome(row'[x].status) = IF x = d THEN Outcome(r.status) ELSE Outcome(row[x].status)
  BY <1>1
<1>3. outcomes' = [x \in Deliveries |-> Outcome(row'[x].status)]
  BY DEF outcomes
<1> HIDE DEF Outcome
<1> QED BY <1>2, <1>3 DEF outcomes

LEMMA SameOutcomes ==
    ASSUME \A d \in Deliveries : Outcome(row'[d].status) = Outcome(row[d].status),
           received' = received
    PROVE  UNCHANGED Contract!vars
  BY DEF Contract!vars

LEMMA RecordKeepsContract ==
    ASSUME TypeOK, Grounded, NEW j \in jobs, NEW r, Recorded(j, r), received' = received
    PROVE  Contract!Next \/ UNCHANGED Contract!vars
<1>1. j.of \in Deliveries
  BY JobParts DEF TypeOK
<1>2. outcomes' = [outcomes EXCEPT ![j.of] = Outcome(r.status)]
  BY <1>1, OneOutcome DEF Recorded
<1>3. outcomes[j.of] = "owed"
  BY <1>1, OutcomeOf DEF Recorded, outcomes
<1>4. CASE Delivered(j, r)
  <2>1. j.of \in received /\ Outcome(r.status) = "delivered"
    BY <1>4, OutcomeOf DEF Delivered, Grounded, WorkIsGrounded
  <2>2. Contract!Deliver(j.of)
    BY <1>2, <1>3, <2>1 DEF Contract!Deliver, Contract!Settle, outcomes
  <2> QED BY <1>1, <2>2 DEF Contract!Next
<1>5. CASE Buried(j, r)
  <2>1. Outcome(r.status) = "dead"
    BY <1>5, OutcomeOf DEF Buried
  <2>2. Contract!GiveUp(j.of)
    BY <1>2, <1>3, <2>1 DEF Contract!GiveUp, Contract!Settle, outcomes
  <2> QED BY <1>1, <2>2 DEF Contract!Next
<1>6. CASE Retried(j, r) \/ Deferred(j, r)
  <2>1. Outcome(r.status) = "owed"
    BY <1>6, OutcomeOf DEF Retried, Deferred
  <2>2. \A d \in Deliveries : row'[d] = IF d = j.of THEN r ELSE row[d]
    BY DEF Recorded, TypeOK
  <2>3. \A d \in Deliveries : Outcome(row'[d].status) = Outcome(row[d].status)
    BY <2>1, <2>2, OutcomeOf DEF Recorded
  <2> QED BY <2>3, SameOutcomes
<1> QED BY <1>4, <1>5, <1>6 DEF Recorded

LEMMA ContractStep ==
    TypeOK /\ Grounded /\ [Next]_vars => Contract!Next \/ UNCHANGED Contract!vars
<1> SUFFICES ASSUME TypeOK, Grounded, [Next]_vars
             PROVE  Contract!Next \/ UNCHANGED Contract!vars
  OBVIOUS
<1> USE DEF endpointVars, queueVars, envVars, eventVars
<1>1. ASSUME UNCHANGED <<row, received>>
      PROVE  UNCHANGED Contract!vars
  BY <1>1, SameOutcomes
<1>2. ASSUME NEW e \in Endpoints, CreateEndpoint(e) \/ Pause(e) \/ Resume(e) \/ Delete(e)
      PROVE  UNCHANGED Contract!vars
  BY <1>1, <1>2 DEF CreateEndpoint, Pause, Resume, Delete
<1>3. ASSUME NEW ev \in Events, ListEndpoints(ev) \/ \E e \in Endpoints : SendTestEvent(ev, e)
      PROVE  UNCHANGED Contract!vars
  BY <1>1, <1>3 DEF ListEndpoints, SendTestEvent
<1>4. ASSUME NEW ev \in Events, EnqueueDeliveries(ev)
      PROVE  Contract!Next \/ UNCHANGED Contract!vars
  <2> DEFINE S == {ev} \X listed[ev]
  <2>1. S \in SUBSET Deliveries /\ received' = received
    BY <1>4 DEF EnqueueDeliveries, TypeOK, Deliveries
  <2>2. CASE UNCHANGED row
    BY <1>1, <2>1, <2>2
  <2>3. CASE Insert(S)
    <3>1. \A d \in S : row[d].status = "none"
      BY <1>4, <2>1 DEF EnqueueDeliveries, Grounded, EventsAreNew
    <3>2. \A d \in Deliveries : row'[d] = IF d \in S THEN [status |-> "pending", attempts |-> 0]
                                                     ELSE row[d]
      BY <2>3 DEF Insert
    <3> HIDE DEF S
    <3>3. \A d \in Deliveries : row'[d].status = IF d \in S THEN "pending" ELSE row[d].status
      BY <3>2
    <3>4. \A d \in S : outcomes[d] = "none"
      BY <2>1, <3>1, OutcomeOf DEF outcomes
    <3>5. outcomes' = [d \in Deliveries |-> IF d \in S THEN "owed" ELSE outcomes[d]]
      BY <3>3, OutcomeOf DEF outcomes
    <3>6. Contract!Accept(S)
      BY <2>1, <3>4, <3>5 DEF Contract!Accept, outcomes
    <3> QED BY <2>1, <3>6 DEF Contract!Next
  <2> QED BY <1>4, <2>2, <2>3 DEF EnqueueDeliveries
<1>5. ASSUME NEW d \in Deliveries, Elapse(d) \/ Expire(d) \/ RequeueFromDlq(d)
      PROVE  UNCHANGED Contract!vars
  BY <1>1, <1>5 DEF Elapse, Expire, RequeueFromDlq
<1>6. ASSUME NEW d \in Deliveries, Resettable(d), ResetDeliveryToPending(d)
      PROVE  Contract!Next \/ UNCHANGED Contract!vars
  <2> DEFINE r == [status |-> "pending", attempts |-> 0]
  <2>1. row' = [row EXCEPT ![d] = r] /\ r.status = "pending" /\ received' = received
    BY <1>6 DEF ResetDeliveryToPending
  <2> HIDE DEF r
  <2>2. outcomes' = [outcomes EXCEPT ![d] = "owed"]
    <3>1. outcomes' = [outcomes EXCEPT ![d] = Outcome(r.status)]
      BY <2>1, OneOutcome
    <3>2. Outcome(r.status) = "owed"
      BY <2>1, OutcomeOf
    <3> QED BY <3>1, <3>2
  <2>3. CASE row[d].status = "pending"
    <3>1. \A x \in Deliveries : row'[x].status = row[x].status
      BY <2>1, <2>3 DEF TypeOK
    <3> QED BY <2>1, <3>1, SameOutcomes
  <2>4. CASE row[d].status \in {"delivered", "dlq"}
    <3>1. outcomes[d] \in {"delivered", "dead"}
      BY <2>4, OutcomeOf DEF outcomes
    <3>2. Contract!AskAgain(d)
      BY <2>1, <2>2, <3>1 DEF Contract!AskAgain, Contract!Settle, outcomes
    <3> QED BY <3>2 DEF Contract!Next
  <2> QED BY <1>6, <2>3, <2>4 DEF Resettable
<1>7. ASSUME NEW d \in Deliveries, ReplayDelivery(d) \/ RequeueReset(d)
      PROVE  Contract!Next \/ UNCHANGED Contract!vars
  BY <1>1, <1>6, <1>7 DEF ReplayDelivery, RequeueReset
<1>8. ASSUME NEW d \in Deliveries, DiscardFromDlq(d)
      PROVE  Contract!Next
  <2> DEFINE r == [row[d] EXCEPT !.status = "discarded"]
  <2>1. row[d] \in Row /\ "discarded" \in Statuses
    BY DEF TypeOK, Statuses
  <2>2. r.status = "discarded"
    BY <2>1, RowMoves
  <2>3. row' = [row EXCEPT ![d] = r] /\ row[d].status = "dlq" /\ received' = received
    BY <1>8 DEF DiscardFromDlq
  <2> HIDE DEF r
  <2>4. outcomes' = [outcomes EXCEPT ![d] = "gone"] /\ outcomes[d] = "dead"
    <3>1. outcomes' = [outcomes EXCEPT ![d] = Outcome(r.status)]
      BY <2>3, OneOutcome
    <3>2. Outcome(r.status) = "gone"
      BY <2>2, OutcomeOf
    <3> QED BY <2>3, <3>1, <3>2, OutcomeOf DEF outcomes
  <2>5. Contract!Discard(d)
    BY <2>3, <2>4 DEF Contract!Discard, Contract!Settle, outcomes
  <2> QED BY <2>5 DEF Contract!Next
<1>9. ASSUME NEW p \in Processes, ClaimRank(p) \/ Crash(p)
      PROVE  UNCHANGED Contract!vars
  BY <1>1, <1>9 DEF ClaimRank, Crash
<1>10. ASSUME NEW p \in Processes, ClaimLock(p)
       PROVE  UNCHANGED Contract!vars
  <2>1. ASSUME NEW d \in Deliveries
        PROVE  Outcome(row'[d].status) = Outcome(row[d].status)
    <3>1. row[d] \in Row /\ "in_flight" \in Statuses
      BY DEF TypeOK, Statuses
    <3>2. [row[d] EXCEPT !.status = "in_flight"].status = "in_flight"
      BY <3>1, RowMoves
    <3>3. row'[d].status = IF d \in Taken(p) THEN "in_flight" ELSE row[d].status
      BY <1>10, <3>2 DEF ClaimLock
    <3> QED BY <3>3, OutcomeOf DEF Taken, Claimable
  <2> QED BY <1>10, <2>1, SameOutcomes DEF ClaimLock
<1>11. ASSUME NEW j \in jobs, Post(j)
       PROVE  Contract!Next \/ UNCHANGED Contract!vars
  <2>1. j.of \in Deliveries /\ row[j.of].status \in Statuses /\ row[j.of].status # "none"
    BY JobParts, RowMoves DEF TypeOK, Grounded, WorkIsGrounded
  <2>2. outcomes[j.of] # "none"
    BY <2>1, OutcomeOf DEF outcomes, Statuses
  <2>3. row' = row /\ (received' = received \/ received' = received \cup {j.of})
    BY <1>11 DEF Post
  <2>4. CASE received' = received
    BY <1>1, <2>3, <2>4
  <2>5. CASE received' = received \cup {j.of}
    <3>1. Contract!Receive(j.of)
      BY <2>2, <2>3, <2>5 DEF Contract!Receive, outcomes
    <3> QED BY <2>1, <3>1 DEF Contract!Next
  <2> QED BY <2>3, <2>4, <2>5
<1>12. ASSUME NEW j \in jobs, Work(j) \/ CallFails(j), ~Post(j)
       PROVE  Contract!Next \/ UNCHANGED Contract!vars
  <2>1. CASE Record(j)
    BY <1>1, <2>1, RecordsMove, RecordKeepsContract DEF Record
  <2>2. CASE ~Record(j)
    BY <1>1, <1>12, <2>2 DEF Work, Lookup, MaybeAutoDisable, AutoDisable, CallFails
  <2> QED BY <2>1, <2>2
<1>13. CASE UNCHANGED vars
  BY <1>1, <1>13 DEF vars
<1> QED BY <1>2, <1>3, <1>4, <1>5, <1>7, <1>8, <1>9, <1>10, <1>11, <1>12, <1>13 DEF Next

\* The rows implement the contract: however workers stall, crash or lose answers,
\* a delivery is settled once and comes back only when somebody asks for it.
THEOREM DeliveriesKeepTheContract == Spec => DeliversAsPromised
<1>1. Init => Contract!Init
  BY OutcomeOf DEF Init, Contract!Init
<1>2. TypeOK /\ Grounded /\ [Next]_vars => [Contract!Next]_(Contract!vars)
  BY ContractStep
<1> QED BY <1>1, <1>2, GroundedAlways, PTL DEF Spec, DeliversAsPromised, Contract!Spec

-----------------------------------------------------------------------------
(* The share of one endpoint *)

FreshOf(e) == {x \in fresh : EndpointOf(x) = e}

\* The rows of d's endpoint that are due before d, and d.
Lead(d) == (ahead[d] \cup {d}) \cap SameEndpoint(d)

\* What is in flight of d's endpoint when every row before d has been claimed.
Zone(d) == FreshOf(EndpointOf(d)) \cup Lead(d)

\* Due rows wait for a worker or are with one, in the order they became due.
QueueOrdered ==
    /\ \A d \in Deliveries : /\ row[d].status = "in_flight" => d \in due
                             /\ d \in due => row[d].status \in {"pending", "in_flight"}
    /\ \A d \in due : /\ ahead[d] \subseteq due \ {d}
                      /\ \A x \in due \ {d} : x \in ahead[d] \/ d \in ahead[x]
                      /\ \A x \in ahead[d] : ahead[x] \subseteq ahead[d]

\* Of the rows a claim has ranked, those still due fit their endpoint's share
\* with all that is ahead of them, and the others are out of its reach.
SnapsFit ==
    \A p \in Processes : \A d \in snap[p] :
        IF d \in due THEN Cardinality(Zone(d)) <= Cap
                     ELSE row[d].status \in {"delivered", "dlq", "discarded"}

Shared == QueueOrdered /\ SnapsFit /\ EndpointCap

LEMMA FiniteDeliveries ==
    /\ IsFiniteSet(Deliveries)
    /\ \A S \in SUBSET Deliveries : IsFiniteSet(S) /\ Cardinality(S) \in Nat
    /\ \A S, T \in SUBSET Deliveries : S \subseteq T => Cardinality(S) <= Cardinality(T)
<1>1. IsFiniteSet(Deliveries)
  BY FS_Product DEF Deliveries
<1>2. ASSUME NEW S \in SUBSET Deliveries
      PROVE  IsFiniteSet(S) /\ Cardinality(S) \in Nat
  BY <1>1, FS_Subset, FS_CardinalityType
<1>3. ASSUME NEW S \in SUBSET Deliveries, NEW T \in SUBSET Deliveries, S \subseteq T
      PROVE  Cardinality(S) <= Cardinality(T)
  BY <1>2, <1>3, FS_Subset
<1> QED BY <1>1, <1>2, <1>3

LEMMA SharedInit == Init => Shared
<1> SUFFICES ASSUME Init PROVE Shared
  OBVIOUS
<1>1. QueueOrdered /\ SnapsFit
  BY DEF Init, QueueOrdered, SnapsFit
<1>2. \A e \in Endpoints : {d \in fresh : EndpointOf(d) = e} = {}
  BY DEF Init
<1>3. EndpointCap
  BY <1>2, FS_EmptySet, Constant DEF EndpointCap, Busy
<1> QED BY <1>1, <1>3 DEF Shared

LEMMA ZoneTypes ==
    ASSUME TypeOK
    PROVE  /\ \A e : FreshOf(e) \in SUBSET Deliveries
           /\ \A d \in Deliveries : /\ Lead(d) \in SUBSET Deliveries
                                    /\ Zone(d) \in SUBSET Deliveries
           /\ \A e : Busy(e) = Cardinality(FreshOf(e))
<1>1. \A e : FreshOf(e) \in SUBSET Deliveries /\ Busy(e) = Cardinality(FreshOf(e))
  BY DEF FreshOf, TypeOK, Busy
<1>2. ASSUME NEW d \in Deliveries
      PROVE  Lead(d) \in SUBSET Deliveries
  BY DEF Lead, SameEndpoint
<1> QED BY <1>1, <1>2 DEF Zone

\* Of several rows that are due, one was last.
LEMMA LastOf ==
    ASSUME TypeOK, QueueOrdered, NEW S, S \subseteq due, S # {}
    PROVE  \E m \in S : S \subseteq ahead[m] \cup {m}
<1>1. S \subseteq Deliveries
  BY DEF TypeOK
<1> DEFINE Rest(m) == Cardinality(Deliveries \ ahead[m])
           T == {Rest(m) : m \in S}
<1>2. T \subseteq Nat /\ T # {}
  BY FiniteDeliveries
<1>3. PICK m \in S : \A x \in S : Rest(m) <= Rest(x)
  <2>1. PICK n \in T : \A k \in T : n <= k
    <3> HIDE DEF T
    <3> QED BY <1>2, LeastElement
  <2> QED BY <2>1
<1>4. ASSUME NEW x \in S, x # m, x \notin ahead[m]
      PROVE  FALSE
  <2>1. m \in ahead[x]
    BY <1>4 DEF QueueOrdered
  <2>2. ahead[m] \subseteq ahead[x] /\ m \notin ahead[m]
    BY <2>1 DEF QueueOrdered
  <2>3. Deliveries \ ahead[x] \subseteq (Deliveries \ ahead[m]) \ {m} /\ m \in Deliveries \ ahead[m]
    BY <1>1, <2>1, <2>2
  <2>4. Cardinality((Deliveries \ ahead[m]) \ {m}) = Rest(m) - 1
    BY <2>3, FiniteDeliveries, FS_RemoveElement
  <2>5. Rest(x) <= Rest(m) - 1
    <3>1. Deliveries \ ahead[x] \in SUBSET Deliveries /\ (Deliveries \ ahead[m]) \ {m} \in SUBSET Deliveries
      OBVIOUS
    <3> QED BY <2>3, <2>4, <3>1, FiniteDeliveries
  <2>6. Rest(x) \in Nat /\ Rest(m) \in Nat /\ Rest(m) <= Rest(x)
    BY <1>3, FiniteDeliveries
  <2> HIDE DEF Rest
  <2> QED BY <2>5, <2>6
<1> QED BY <1>4

\* What a step other than the locking of ranked rows may do to the queue.
QueueSteps ==
    \/ UNCHANGED queueVars
    \/ \E d \in Deliveries :
          /\ LeaveQueue(d)
          /\ \/ row'[d].status \in {"delivered", "dlq"}
             \/ row'[d].status = "pending" /\ DropFromSnaps(d)
    \/ \E d \in Deliveries :
          /\ row[d].status = "pending" /\ d \notin due /\ UNCHANGED <<row, snap>>
          /\ due' = due \cup {d} /\ ahead' = [ahead EXCEPT ![d] = due]

Unlocked ==
    /\ QueueSteps
    /\ fresh' \subseteq fresh
    /\ \A d \in Deliveries : row'[d].status = "in_flight" => row[d].status = "in_flight"
    /\ \/ \A p \in Processes : snap'[p] \subseteq snap[p]
       \/ \E p \in Processes : ClaimRank(p)

LEMMA NextUnlocked ==
    ASSUME TypeOK, [Next]_vars, \A p \in Processes : ~ClaimLock(p)
    PROVE  Unlocked
<1> USE DEF endpointVars, queueVars, envVars, eventVars
<1>1. ASSUME UNCHANGED <<row, due, ahead, snap>>, fresh' \subseteq fresh
      PROVE  Unlocked
  BY <1>1 DEF Unlocked, QueueSteps
<1>2. ASSUME NEW e \in Endpoints, CreateEndpoint(e) \/ Pause(e) \/ Resume(e) \/ Delete(e)
      PROVE  Unlocked
  BY <1>1, <1>2 DEF CreateEndpoint, Pause, Resume, Delete
<1>3. ASSUME NEW ev \in Events, ListEndpoints(ev) \/ \E e \in Endpoints : SendTestEvent(ev, e)
      PROVE  Unlocked
  BY <1>1, <1>3 DEF ListEndpoints, SendTestEvent
<1>4. ASSUME NEW ev \in Events, EnqueueDeliveries(ev)
      PROVE  Unlocked
  <2>1. UNCHANGED <<due, ahead, snap, fresh>>
    BY <1>4 DEF EnqueueDeliveries
  <2>2. \A d \in Deliveries : row'[d].status = "in_flight" => row[d].status = "in_flight"
    BY <1>4 DEF EnqueueDeliveries, Insert
  <2> QED BY <2>1, <2>2 DEF Unlocked, QueueSteps
<1>5. ASSUME NEW d \in Deliveries, Elapse(d)
      PROVE  Unlocked
  BY <1>5 DEF Elapse, Unlocked, QueueSteps
<1>6. ASSUME NEW d \in Deliveries, Expire(d)
      PROVE  Unlocked
  BY <1>6 DEF Expire, Unlocked, QueueSteps, DropFromSnaps
<1>7. ASSUME NEW d \in Deliveries, ResetDeliveryToPending(d)
      PROVE  Unlocked
  <2> DEFINE r == [status |-> "pending", attempts |-> 0]
  <2>1. /\ row' = [row EXCEPT ![d] = r] /\ r.status = "pending" /\ LeaveQueue(d)
        /\ DropFromSnaps(d) /\ fresh' = fresh
    BY <1>7 DEF ResetDeliveryToPending
  <2> HIDE DEF r
  <2>2. QueueSteps
    BY <2>1 DEF QueueSteps, TypeOK
  <2>3. \A x \in Deliveries : row'[x].status = "in_flight" => row[x].status = "in_flight"
    BY <2>1 DEF TypeOK
  <2> QED BY <2>1, <2>2, <2>3 DEF Unlocked, DropFromSnaps
<1>8. ASSUME NEW d \in Deliveries, ReplayDelivery(d) \/ RequeueFromDlq(d) \/ RequeueReset(d)
      PROVE  Unlocked
  BY <1>1, <1>7, <1>8 DEF ReplayDelivery, RequeueFromDlq, RequeueReset
<1>9. ASSUME NEW d \in Deliveries, DiscardFromDlq(d)
      PROVE  Unlocked
  <2> DEFINE r == [row[d] EXCEPT !.status = "discarded"]
  <2>1. row[d] \in Row /\ "discarded" \in Statuses
    BY DEF TypeOK, Statuses
  <2>2. r.status = "discarded"
    BY <2>1, RowMoves
  <2>3. row' = [row EXCEPT ![d] = r] /\ UNCHANGED <<due, ahead, fresh, snap>>
    BY <1>9 DEF DiscardFromDlq
  <2> HIDE DEF r
  <2> QED BY <2>2, <2>3 DEF Unlocked, QueueSteps, TypeOK
<1>10. ASSUME NEW p \in Processes, ClaimRank(p) \/ Crash(p)
       PROVE  Unlocked
  <2>1. UNCHANGED <<row, due, ahead, fresh>>
    BY <1>10 DEF ClaimRank, Crash
  <2>2. ClaimRank(p) \/ \A q \in Processes : snap'[q] \subseteq snap[q]
    BY <1>10 DEF Crash, TypeOK
  <2> QED BY <2>1, <2>2 DEF Unlocked, QueueSteps
<1>11. ASSUME NEW j \in jobs, NEW r, Recorded(j, r)
       PROVE  Unlocked
  <2>1. j.of \in Deliveries
    BY JobParts DEF TypeOK
  <2>2. /\ row'[j.of] = r /\ \A d \in Deliveries \ {j.of} : row'[d] = row[d]
        /\ fresh' \subseteq fresh /\ row[j.of].status = "in_flight"
    BY <1>11, <2>1 DEF Recorded, TypeOK
  <2>3. \/ UNCHANGED queueVars /\ UNCHANGED snap
        \/ LeaveQueue(j.of) /\ r.status \in {"delivered", "dlq"} /\ UNCHANGED snap
        \/ LeaveQueue(j.of) /\ r.status = "pending" /\ DropFromSnaps(j.of)
    BY <1>11 DEF Recorded, Delivered, Retried, Deferred, Buried
  <2>4. QueueSteps
    BY <2>1, <2>2, <2>3 DEF QueueSteps
  <2>5. \A p \in Processes : snap'[p] \subseteq snap[p]
    BY <2>3 DEF DropFromSnaps
  <2> QED BY <2>2, <2>4, <2>5 DEF Unlocked
<1>12. ASSUME NEW j \in jobs, Work(j) \/ CallFails(j)
       PROVE  Unlocked
  <2>1. CASE Record(j)
    BY <1>1, <1>11, <2>1, RecordsMove
  <2>2. CASE ~Record(j)
    BY <1>1, <1>12, <2>2 DEF Work, Lookup, Post, MaybeAutoDisable, AutoDisable, CallFails
  <2> QED BY <2>1, <2>2
<1>13. CASE UNCHANGED vars
  BY <1>1, <1>13 DEF vars
<1> QED BY <1>2, <1>3, <1>4, <1>5, <1>6, <1>8, <1>9, <1>10, <1>12, <1>13 DEF Next

LEMMA QueueStaysOrdered ==
    ASSUME TypeOK, Grounded, QueueOrdered, [Next]_vars, Unlocked
    PROVE  QueueOrdered'
<1>1. \A d \in Deliveries : RowSteps(d)
  BY NextSteady DEF Grounded, Steady
<1>2. /\ due \in SUBSET Deliveries /\ ahead \in [Deliveries -> SUBSET Deliveries]
      /\ due' \in SUBSET Deliveries
  BY TypeStep DEF TypeOK
<1>3. ASSUME NEW d \in Deliveries
      PROVE  /\ row'[d].status = "in_flight" => d \in due'
             /\ d \in due' => row'[d].status \in {"pending", "in_flight"}
  <2>1. /\ row[d].status = "in_flight" => d \in due
        /\ d \in due => row[d].status \in {"pending", "in_flight"}
    BY DEF QueueOrdered
  <2>2. row'[d].status = "in_flight" => d \in due'
    BY <2>1, <1>3 DEF Unlocked, QueueSteps, queueVars, LeaveQueue
  <2>3. ASSUME d \in due'
        PROVE  row'[d].status \in {"pending", "in_flight"}
    <3>1. CASE d \notin due
      BY <2>3, <3>1 DEF Unlocked, QueueSteps, queueVars, LeaveQueue
    <3>2. CASE d \in due
      <4>1. \A j \in jobs : j.of = d => ~LeaveQueue(j.of)
        BY <2>3 DEF LeaveQueue
      <4>2. RowSteps(d)
        BY <1>1
      <4>3. \A j \in jobs : j.of = d /\ Recorded(j, row'[d]) => row'[d].status = "pending"
        BY <4>1 DEF Recorded, Delivered, Retried, Deferred, Buried
      <4> QED BY <2>1, <3>2, <4>2, <4>3 DEF RowSteps
    <3> QED BY <3>1, <3>2
  <2> QED BY <2>2, <2>3
<1>4. CASE UNCHANGED queueVars
  BY <1>3, <1>4 DEF QueueOrdered, queueVars
<1>5. ASSUME NEW d \in Deliveries, LeaveQueue(d)
      PROVE  QueueOrdered'
  <2>1. /\ due' = due \ {d}
        /\ \A x \in Deliveries : ahead'[x] = IF x = d THEN {} ELSE ahead[x] \ {d}
    BY <1>5 DEF LeaveQueue
  <2>2. ASSUME NEW x \in due'
        PROVE  /\ ahead'[x] \subseteq due' \ {x}
               /\ \A y \in due' \ {x} : y \in ahead'[x] \/ x \in ahead'[y]
               /\ \A y \in ahead'[x] : ahead'[y] \subseteq ahead'[x]
    <3>1. /\ x \in due /\ x # d /\ x \in Deliveries /\ ahead'[x] = ahead[x] \ {d}
          /\ ahead[x] \subseteq due \ {x}
          /\ \A y \in ahead[x] : ahead[y] \subseteq ahead[x]
      BY <1>2, <2>1, <2>2 DEF QueueOrdered
    <3>2. ASSUME NEW y \in due' \ {x}
          PROVE  y \in ahead'[x] \/ x \in ahead'[y]
      <4>1. y \in due /\ y # d /\ y \in Deliveries
        BY <1>2, <2>1
      <4>2. y \in ahead[x] \/ x \in ahead[y]
        BY <3>1, <4>1 DEF QueueOrdered
      <4> QED BY <2>1, <3>1, <4>1, <4>2
    <3>3. ASSUME NEW y \in ahead'[x]
          PROVE  ahead'[y] \subseteq ahead'[x]
      <4>1. y \in Deliveries /\ y # d /\ y \in ahead[x]
        BY <1>2, <3>1, <3>3
      <4> QED BY <2>1, <3>1, <4>1
    <3> QED BY <2>1, <3>1, <3>2, <3>3
  <2> QED BY <1>3, <2>2 DEF QueueOrdered
<1>6. ASSUME NEW d \in Deliveries, d \notin due, due' = due \cup {d},
             ahead' = [ahead EXCEPT ![d] = due]
      PROVE  QueueOrdered'
  <2>1. \A x \in Deliveries : ahead'[x] = IF x = d THEN due ELSE ahead[x]
    BY <1>2, <1>6
  <2>2. ASSUME NEW x \in due'
        PROVE  /\ ahead'[x] \subseteq due' \ {x}
               /\ \A y \in due' \ {x} : y \in ahead'[x] \/ x \in ahead'[y]
               /\ \A y \in ahead'[x] : ahead'[y] \subseteq ahead'[x]
    BY <1>2, <1>6, <2>1 DEF QueueOrdered
  <2> QED BY <1>3, <2>2 DEF QueueOrdered
<1> QED BY <1>4, <1>5, <1>6 DEF Unlocked, QueueSteps

\* Rows already in the zone of a row only leave it.
LEMMA ZonesShrink ==
    ASSUME TypeOK, QueueOrdered, Unlocked, NEW d \in due, d \in due'
    PROVE  Zone(d)' \subseteq Zone(d)
<1>1. d \in Deliveries /\ FreshOf(EndpointOf(d))' \subseteq FreshOf(EndpointOf(d))
  BY DEF Unlocked, FreshOf, TypeOK
<1>2. ahead'[d] \subseteq ahead[d]
  BY <1>1 DEF Unlocked, QueueSteps, queueVars, LeaveQueue, TypeOK
<1>3. Lead(d)' = (ahead'[d] \cup {d}) \cap SameEndpoint(d)
  BY DEF Lead, SameEndpoint, EndpointOf
<1> QED BY <1>1, <1>2, <1>3 DEF Zone, Lead, EndpointOf

\* A claim takes a row only if all that is ahead of it fits besides what is in flight.
LEMMA RankedFits ==
    ASSUME TypeOK, QueueOrdered, NEW d \in Fair
    PROVE  d \in due /\ Cardinality(Zone(d)) <= Cap
<1> DEFINE e == EndpointOf(d)
           P == (Due \cap SameEndpoint(d)) \cap (ahead[d] \cup {d})
<1>1. d \in due /\ d \in Deliveries /\ d \in Due /\ Cardinality(P) <= Cap - Busy(e)
  BY DEF Fair, Due, Place, TypeOK
<1>2. Lead(d) \subseteq FreshOf(e) \cup P
  <2> SUFFICES ASSUME NEW x \in Lead(d), x \notin fresh
               PROVE  x \in P
    BY DEF FreshOf, Lead, SameEndpoint
  <2>1. x \in due /\ x \in ahead[d] \cup {d} /\ x \in SameEndpoint(d) /\ EndpointOf(x) = e
    BY <1>1 DEF Lead, QueueOrdered, SameEndpoint
  <2>2. Claimable(x)
    BY <2>1 DEF Claimable, QueueOrdered, TypeOK
  <2>3. state[EndpointOf(x)] # "paused"
    BY <1>1, <2>1 DEF Due
  <2> QED BY <2>1, <2>2, <2>3 DEF Due
<1>3. /\ FreshOf(e) \in SUBSET Deliveries /\ P \in SUBSET Deliveries
      /\ Zone(d) \in SUBSET Deliveries /\ FreshOf(e) \cup P \in SUBSET Deliveries
      /\ Busy(e) = Cardinality(FreshOf(e))
  BY <1>1, ZoneTypes DEF SameEndpoint
<1>4. Zone(d) \subseteq FreshOf(e) \cup P
  BY <1>2 DEF Zone
<1> HIDE DEF P, e
<1>5. Cardinality(Zone(d)) <= Cardinality(FreshOf(e) \cup P)
  BY <1>3, <1>4, FiniteDeliveries
<1>6. Cardinality(FreshOf(e) \cup P)
        = Cardinality(FreshOf(e)) + Cardinality(P) - Cardinality(FreshOf(e) \cap P)
  BY <1>3, FiniteDeliveries, FS_Union
<1>7. /\ Cardinality(FreshOf(e)) \in Nat /\ Cardinality(P) \in Nat
      /\ Cardinality(FreshOf(e) \cap P) \in Nat /\ Cardinality(Zone(d)) \in Nat
  <2>1. FreshOf(e) \cap P \in SUBSET Deliveries
    BY <1>3
  <2> QED BY <1>3, <2>1, FiniteDeliveries
<1> QED BY <1>1, <1>3, <1>5, <1>6, <1>7, Constant

LEMMA SnapsStayFit ==
    ASSUME TypeOK, Grounded, QueueOrdered, SnapsFit, [Next]_vars, Unlocked
    PROVE  SnapsFit'
<1> SUFFICES ASSUME NEW p \in Processes, NEW d \in snap'[p]
             PROVE  IF d \in due' THEN Cardinality(Zone(d)') <= Cap
                                  ELSE row'[d].status \in {"delivered", "dlq", "discarded"}
  BY DEF SnapsFit
<1>1. TypeOK'
  BY TypeStep
<1>2. d \in Deliveries /\ RowSteps(d)
  <2>1. d \in Deliveries
    BY <1>1 DEF TypeOK
  <2> QED BY <2>1, NextSteady DEF Grounded, Steady
<1>3. ASSUME NEW q \in Processes, ClaimRank(q), d \notin snap[p]
      PROVE  d \in due' /\ Cardinality(Zone(d)') <= Cap
  <2>1. UNCHANGED <<due, ahead, fresh>> /\ d \in Fair
    BY <1>3 DEF ClaimRank, queueVars, TypeOK
  <2>2. Zone(d)' = Zone(d)
    BY <2>1 DEF Zone, FreshOf, Lead, SameEndpoint, EndpointOf
  <2> QED BY <2>1, <2>2, RankedFits
<1>4. CASE d \in snap[p]
  <2>1. IF d \in due THEN Cardinality(Zone(d)) <= Cap
                     ELSE row[d].status \in {"delivered", "dlq", "discarded"}
    BY <1>4 DEF SnapsFit
  <2>2. CASE d \in due /\ d \in due'
    <3>1. Zone(d)' \subseteq Zone(d)
      BY <2>2, ZonesShrink
    <3>2. Zone(d) \in SUBSET Deliveries /\ Zone(d)' \in SUBSET Deliveries
      BY <1>2, <3>1, ZoneTypes
    <3>3. Cardinality(Zone(d)') <= Cardinality(Zone(d)) /\ Cardinality(Zone(d)) \in Nat
          /\ Cardinality(Zone(d)') \in Nat
      BY <3>1, <3>2, FiniteDeliveries
    <3> QED BY <2>1, <2>2, <3>3, Constant
  <2>3. CASE d \in due /\ d \notin due'
    <3>1. ~DropFromSnaps(d)
      BY DEF DropFromSnaps
    <3> QED BY <2>3, <3>1 DEF Unlocked, QueueSteps, queueVars, LeaveQueue
  <2>4. CASE d \notin due
    <3>1. ~DropFromSnaps(d) /\ row[d].status \in {"delivered", "dlq", "discarded"}
      BY <2>1, <2>4 DEF DropFromSnaps
    <3>2. d \notin due'
      BY <2>4, <3>1 DEF Unlocked, QueueSteps, queueVars, LeaveQueue
    <3>3. row'[d].status \in {"delivered", "dlq", "discarded"}
      BY <1>2, <3>1 DEF RowSteps, Claimable, Recorded
    <3> QED BY <3>2, <3>3
  <2> QED BY <2>2, <2>3, <2>4
<1>5. CASE d \notin snap[p]
  <2>1. PICK q \in Processes : ClaimRank(q)
    BY <1>5 DEF Unlocked
  <2> QED BY <1>3, <1>5, <2>1
<1> QED BY <1>4, <1>5

\* The locking of ranked rows: those of one endpoint, and what another claim has
\* ranked, all lie in the zone of the last of them.
LEMMA LocksFit ==
    ASSUME TypeOK, Shared, NEW p \in Processes, ClaimLock(p),
           NEW S, S \subseteq due, S # {}, NEW e \in Endpoints,
           \A d \in S : EndpointOf(d) = e,
           \A d \in Taken(p) : EndpointOf(d) = e => d \in S
    PROVE  \E m \in S : S \subseteq ahead[m] \cup {m} /\ FreshOf(e)' \subseteq Zone(m)
<1>1. PICK m \in S : S \subseteq ahead[m] \cup {m}
  BY LastOf DEF Shared
<1>2. S \subseteq Deliveries /\ m \in Deliveries /\ EndpointOf(m) = e
  BY DEF TypeOK
<1>3. FreshOf(e)' \subseteq FreshOf(e) \cup S
  BY DEF ClaimLock, FreshOf, EndpointOf
<1> QED BY <1>1, <1>2, <1>3 DEF Zone, Lead, SameEndpoint

LEMMA ClaimShares ==
    ASSUME TypeOK, Shared, NEW p \in Processes, ClaimLock(p)
    PROVE  Shared'
<1>1. /\ due' = due /\ ahead' = ahead /\ fresh' = fresh \cup Taken(p)
      /\ snap' = [snap EXCEPT ![p] = {}]
  BY DEF ClaimLock, queueVars
<1>2. TypeOK'
  BY ClaimTypes
<1>3. \A d \in Deliveries : row'[d].status = IF d \in Taken(p) THEN "in_flight" ELSE row[d].status
  <2> SUFFICES ASSUME NEW d \in Deliveries
               PROVE  row'[d].status = IF d \in Taken(p) THEN "in_flight" ELSE row[d].status
    OBVIOUS
  <2>1. row[d] \in Row /\ "in_flight" \in Statuses
    BY DEF TypeOK, Statuses
  <2>2. [row[d] EXCEPT !.status = "in_flight"].status = "in_flight"
    BY <2>1, RowMoves
  <2> QED BY <2>2 DEF ClaimLock
<1>4. Taken(p) \subseteq due /\ Taken(p) \subseteq snap[p] /\ due \subseteq Deliveries
  BY DEF Taken, Claimable, Shared, QueueOrdered, TypeOK
<1>5. \A d \in Taken(p) : Cardinality(Zone(d)) <= Cap
  BY <1>4 DEF Shared, SnapsFit
<1>6. QueueOrdered'
  <2>1. ASSUME NEW d \in Deliveries
        PROVE  /\ row'[d].status = "in_flight" => d \in due'
               /\ d \in due' => row'[d].status \in {"pending", "in_flight"}
    BY <1>1, <1>3, <1>4 DEF Shared, QueueOrdered
  <2>2. ASSUME NEW x \in due'
        PROVE  /\ ahead'[x] \subseteq due' \ {x}
               /\ \A y \in due' \ {x} : y \in ahead'[x] \/ x \in ahead'[y]
               /\ \A y \in ahead'[x] : ahead'[y] \subseteq ahead'[x]
    BY <1>1, <2>2 DEF Shared, QueueOrdered
  <2> QED BY <2>1, <2>2 DEF QueueOrdered
<1>7. SnapsFit'
  <2> SUFFICES ASSUME NEW q \in Processes, NEW d \in snap'[q]
               PROVE  IF d \in due' THEN Cardinality(Zone(d)') <= Cap
                                    ELSE row'[d].status \in {"delivered", "dlq", "discarded"}
    BY DEF SnapsFit
  <2>1. d \in snap[q] /\ d \in Deliveries
    BY <1>1, <1>2 DEF TypeOK
  <2>2. CASE d \notin due
    BY <1>1, <1>3, <1>4, <2>1, <2>2 DEF Shared, SnapsFit
  <2>3. CASE d \in due
    <3>0. PICK e \in Endpoints : e = EndpointOf(d)
      BY <2>1, DeliveryParts
    <3> DEFINE T == {x \in Taken(p) : EndpointOf(x) = e}
    <3>1. T \cup {d} \subseteq due
      BY <1>4, <2>3
    <3>2. \A x \in T \cup {d} : EndpointOf(x) = e /\ Cardinality(Zone(x)) <= Cap
      BY <1>5, <2>1, <2>3, <3>0 DEF Shared, SnapsFit
    <3>3. \A x \in Taken(p) : EndpointOf(x) = e => x \in T \cup {d}
      OBVIOUS
    <3>4. PICK m \in T \cup {d} : /\ T \cup {d} \subseteq ahead[m] \cup {m}
                                  /\ FreshOf(e)' \subseteq Zone(m)
      <4>1. PICK S : S = T \cup {d}
        OBVIOUS
      <4>2. /\ S \subseteq due /\ S # {} /\ \A x \in S : EndpointOf(x) = e
            /\ \A x \in Taken(p) : EndpointOf(x) = e => x \in S
        BY <3>1, <3>2, <3>3, <4>1
      <4>3. \E m \in S : S \subseteq ahead[m] \cup {m} /\ FreshOf(e)' \subseteq Zone(m)
        BY <4>2, LocksFit
      <4> QED BY <4>1, <4>3
    <3>5. m \in Deliveries /\ Cardinality(Zone(m)) <= Cap /\ EndpointOf(m) = e /\ m \in due
      BY <1>4, <3>1, <3>2
    <3>6. Zone(d)' = FreshOf(e)' \cup Lead(d)
      BY <1>1, <3>0 DEF Zone, Lead, SameEndpoint, EndpointOf
    <3>7. Lead(d) \subseteq Zone(m)
      <4>1. d = m \/ ahead[d] \subseteq ahead[m]
        BY <3>4, <3>5 DEF Shared, QueueOrdered
      <4> QED BY <3>0, <3>4, <3>5, <4>1 DEF Lead, Zone, SameEndpoint
    <3>8. Zone(d)' \in SUBSET Deliveries /\ Zone(m) \in SUBSET Deliveries /\ Zone(d)' \subseteq Zone(m)
      BY <3>4, <3>5, <3>6, <3>7, ZoneTypes
    <3>9. /\ Cardinality(Zone(d)') <= Cardinality(Zone(m))
          /\ Cardinality(Zone(d)') \in Nat /\ Cardinality(Zone(m)) \in Nat
      BY <3>8, FiniteDeliveries
    <3> QED BY <1>1, <2>3, <3>5, <3>9, Constant
  <2> QED BY <2>2, <2>3
<1>8. EndpointCap'
  <2> SUFFICES ASSUME NEW e \in Endpoints
               PROVE  Busy(e)' <= Cap
    BY DEF EndpointCap
  <2> DEFINE T == {x \in Taken(p) : EndpointOf(x) = e}
  <2>1. Busy(e)' = Cardinality(FreshOf(e)')
    BY DEF Busy, FreshOf
  <2>2. CASE T = {}
    <3>1. FreshOf(e)' = FreshOf(e)
      BY <1>1, <2>2 DEF FreshOf, EndpointOf
    <3> QED BY <2>1, <3>1 DEF Shared, EndpointCap, Busy, FreshOf
  <2>3. CASE T # {}
    <3>1. /\ T \subseteq due /\ \A x \in T : EndpointOf(x) = e
          /\ \A x \in Taken(p) : EndpointOf(x) = e => x \in T
      BY <1>4
    <3>2. PICK m \in T : FreshOf(e)' \subseteq Zone(m)
      <4> HIDE DEF T
      <4> QED BY <2>3, <3>1, LocksFit
    <3>3. m \in Deliveries /\ Cardinality(Zone(m)) <= Cap
      BY <1>4, <1>5
    <3>4. Zone(m) \in SUBSET Deliveries /\ FreshOf(e)' \in SUBSET Deliveries
      BY <3>2, <3>3, ZoneTypes
    <3>5. /\ Cardinality(FreshOf(e)') <= Cardinality(Zone(m))
          /\ Cardinality(FreshOf(e)') \in Nat /\ Cardinality(Zone(m)) \in Nat
      BY <3>2, <3>4, FiniteDeliveries
    <3> QED BY <2>1, <3>3, <3>5, Constant
  <2> QED BY <2>2, <2>3
<1> QED BY <1>6, <1>7, <1>8 DEF Shared

LEMMA SharedStep == TypeOK /\ Grounded /\ Shared /\ [Next]_vars => Shared'
<1> SUFFICES ASSUME TypeOK, Grounded, Shared, [Next]_vars, \A p \in Processes : ~ClaimLock(p)
             PROVE  Shared'
  BY ClaimShares
<1>1. Unlocked
  BY NextUnlocked
<1>2. QueueOrdered' /\ SnapsFit'
  BY <1>1, QueueStaysOrdered, SnapsStayFit DEF Shared
<1>3. ASSUME NEW e \in Endpoints
      PROVE  Busy(e)' <= Cap
  <2>1. FreshOf(e)' \subseteq FreshOf(e) /\ FreshOf(e) \in SUBSET Deliveries
    BY <1>1, ZoneTypes DEF Unlocked, FreshOf
  <2>2. /\ Cardinality(FreshOf(e)') <= Cardinality(FreshOf(e)) /\ Cardinality(FreshOf(e)') \in Nat
        /\ Cardinality(FreshOf(e)) \in Nat
    BY <2>1, FiniteDeliveries
  <2>3. Busy(e)' = Cardinality(FreshOf(e)') /\ Busy(e) = Cardinality(FreshOf(e)) /\ Busy(e) <= Cap
    BY DEF Busy, FreshOf, Shared, EndpointCap
  <2> QED BY <2>2, <2>3, Constant
<1> QED BY <1>2, <1>3 DEF Shared, EndpointCap

\* However the snapshots of claims overlap, one endpoint never holds more than its
\* share of the pool; and a delivery is given up only when its attempts were begun
\* or its endpoint is gone.
THEOREM LimitsAlwaysHold == Spec => []LimitsHold
<1>1. Init => TypeOK /\ Grounded /\ Shared
  BY TypeInit, GroundedInit, SharedInit
<1>2. TypeOK /\ Grounded /\ Shared /\ [Next]_vars => (TypeOK /\ Grounded /\ Shared)'
  BY TypeStep, GroundedStep, SharedStep
<1>3. TypeOK /\ Grounded /\ Shared => LimitsHold
  BY DEF Grounded, Shared, LimitsHold
<1> QED BY <1>1, <1>2, <1>3, PTL DEF Spec
=============================================================================
