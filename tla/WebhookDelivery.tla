-------------------------- MODULE WebhookDelivery --------------------------
(***************************************************************************)
(* Outbound webhooks: the endpoints and the delivery rows                  *)
(* (db/webhooks-repo.ts), the fan-out of an event and the customer's and   *)
(* the admin's operations (services/webhooks.ts), and the pool of workers  *)
(* that claims rows, posts them and records what came of it                *)
(* (services/webhook-worker.ts).                                           *)
(*                                                                         *)
(* A claim is one SQL statement, but it ranks the rows on a snapshot and   *)
(* locks them later, so it is two steps.  Every other repo call is one     *)
(* transaction and one step; what happens between two of them may be       *)
(* anything, a crash, a stall longer than the stale window or an answer of *)
(* the database that got lost after the commit included.                   *)
(*                                                                         *)
(* Time is what the code compares: a pending row is due or not yet, a row  *)
(* in flight is fresh or stale, and due rows are ordered by when they      *)
(* became due.                                                             *)
(***************************************************************************)
EXTENDS Integers, FiniteSets

CONSTANTS
    Endpoints,    \* webhook endpoints of one account
    Events,       \* events raised, test pings included
    Processes,    \* server processes, each with one drain at a time
    MaxAttempts,  \* MAX_ATTEMPTS
    Threshold,    \* AUTO_DISABLE_AFTER_CONSECUTIVE_FAILURES
    Concurrency,  \* pool size of one process
    Cap,          \* perEndpointCap
    MaxEndpoints, \* MAX_ENDPOINTS_PER_ACCOUNT
    MaxFaults,    \* bound: crashes, stalls, failed and lost database calls
    MaxOps        \* bound: pauses, replays and other requests

ASSUME ConstantsAssumption ==
    /\ {Cap, MaxEndpoints, MaxFaults, MaxOps} \subseteq Nat
    /\ {Threshold, MaxAttempts, Concurrency} \subseteq Nat \ {0}
    /\ IsFiniteSet(Endpoints) /\ IsFiniteSet(Events)

Deliveries == Events \X Endpoints
EndpointOf(d) == d[2]

(***************************************************************************)
(* state     webhook_endpoints: active and disabled_at                     *)
(* failures  webhook_endpoints.consecutive_failures                        *)
(* raised    events raised so far                                          *)
(* listed    endpoints a running fan-out has read                          *)
(* row       webhook_deliveries: status and attempts                       *)
(* due       rows whose next_attempt_at has come                           *)
(* ahead     the due rows with an earlier next_attempt_at                  *)
(* fresh     rows in flight, claimed within the stale window               *)
(* snap      rows a running claim statement ranked                         *)
(* jobs      deliveries in the hands of a worker                           *)
(* claims    how often a row was claimed; numbers its jobs                 *)
(* received  deliveries the customer's server has accepted                 *)
(* asked     admin requeues that found the row in the dead letter queue    *)
(***************************************************************************)
VARIABLES state, failures, raised, listed, row, due, ahead, fresh, snap, jobs, claims,
          received, asked, faults, ops

queueVars == <<due, ahead>>
envVars == <<received, faults, ops>>
endpointVars == <<state, failures>>
eventVars == <<raised, listed>>
vars == <<state, failures, raised, listed, row, due, ahead, fresh, snap, jobs, claims,
          received, asked, faults, ops>>

Statuses == {"none", "pending", "in_flight", "delivered", "dlq", "discarded"}
Steps == {"lookup", "gone", "defer", "post", "ok", "fail", "check", "disable",
          "recover"}
Row == [status : Statuses, attempts : 0 .. MaxAttempts - 1]
Job == [proc : Processes, of : Deliveries, claim : Nat,
        attempts : 0 .. MaxAttempts - 1, step : Steps]

Init ==
    /\ state = [e \in Endpoints |-> "absent"]
    /\ failures = [e \in Endpoints |-> 0]
    /\ raised = {} /\ listed = [ev \in Events |-> {}]
    /\ row = [d \in Deliveries |-> [status |-> "none", attempts |-> 0]]
    /\ due = {} /\ ahead = [d \in Deliveries |-> {}] /\ fresh = {}
    /\ snap = [p \in Processes |-> {}]
    /\ jobs = {} /\ claims = [d \in Deliveries |-> 0]
    /\ received = {} /\ asked = {}
    /\ faults = 0 /\ ops = 0

Live(e) == state[e] \in {"active", "paused"}

Fault == faults < MaxFaults /\ faults' = faults + 1

Request == ops < MaxOps /\ ops' = ops + 1

-----------------------------------------------------------------------------
(* The order of next_attempt_at among the rows that are due *)

LeaveQueue(d) ==
    /\ due' = due \ {d}
    /\ ahead' = [x \in Deliveries |-> IF x = d THEN {} ELSE ahead[x] \ {d}]

\* A statement that began before a row was rescheduled, or before it went
\* stale, compares with its own earlier clock and no longer takes the row.
DropFromSnaps(d) == snap' = [p \in Processes |-> snap[p] \ {d}]

\* next_attempt_at comes.
Elapse(d) ==
    /\ row[d].status = "pending" /\ d \notin due
    /\ due' = due \cup {d}
    /\ ahead' = [ahead EXCEPT ![d] = due]
    /\ UNCHANGED <<endpointVars, envVars, eventVars, row, fresh, snap, jobs, claims, asked>>

\* RECLAIM_STALE_IN_FLIGHT_MS passes.  While a worker is still on the row
\* that takes a stall, for an attempt is timed out long before.
Expire(d) ==
    /\ d \in fresh
    /\ fresh' = fresh \ {d}
    /\ DropFromSnaps(d)
    /\ IF \E j \in jobs : j.of = d THEN Fault ELSE UNCHANGED faults
    /\ UNCHANGED <<endpointVars, queueVars, eventVars, row, jobs, claims, received, asked, ops>>

-----------------------------------------------------------------------------
(* Endpoints *)

CreateEndpoint(e) ==
    /\ state[e] = "absent"
    /\ Cardinality({x \in Endpoints : Live(x)}) < MaxEndpoints
    /\ state' = [state EXCEPT ![e] = "active"]
    /\ UNCHANGED <<failures, queueVars, envVars, eventVars, row, fresh, snap, jobs, claims, asked>>

Pause(e) ==
    /\ Request
    /\ state[e] = "active"
    /\ state' = [state EXCEPT ![e] = "paused"]
    /\ UNCHANGED <<failures, queueVars, eventVars, row, fresh, snap, jobs, claims, received,
                   asked, faults>>

Resume(e) ==
    /\ state[e] = "paused"
    /\ Cardinality({x \in Endpoints \ {e} : Live(x)}) < MaxEndpoints
    /\ state' = [state EXCEPT ![e] = "active"]
    /\ UNCHANGED <<failures, queueVars, envVars, eventVars, row, fresh, snap, jobs, claims, asked>>

DisableEndpoint(e) == state' = [state EXCEPT ![e] = "disabled"]

Delete(e) ==
    /\ Request
    /\ Live(e)
    /\ DisableEndpoint(e)
    /\ UNCHANGED <<failures, queueVars, eventVars, row, fresh, snap, jobs, claims, received,
                   asked, faults>>

-----------------------------------------------------------------------------
(* Events *)

Insert(S) ==
    row' = [d \in Deliveries |->
              IF d \in S THEN [status |-> "pending", attempts |-> 0] ELSE row[d]]

\* enqueueEvent reads the endpoints, paused ones included.
ListEndpoints(ev) ==
    /\ ev \notin raised
    /\ raised' = raised \cup {ev}
    /\ listed' = [listed EXCEPT ![ev] = {e \in Endpoints : Live(e)}]
    /\ UNCHANGED <<endpointVars, queueVars, envVars, row, fresh, snap, jobs, claims, asked>>

\* and inserts one row each; the insert may fail as a whole and is not retried.
EnqueueDeliveries(ev) ==
    /\ listed[ev] # {}
    /\ \/ Insert({ev} \X listed[ev]) /\ UNCHANGED faults
       \/ Fault /\ UNCHANGED row
    /\ listed' = [listed EXCEPT ![ev] = {}]
    /\ UNCHANGED <<raised, endpointVars, queueVars, fresh, snap, jobs, claims, received, asked, ops>>

\* A test ping goes to one endpoint, which has to be active when it is read.
SendTestEvent(ev, e) ==
    /\ ev \notin raised
    /\ raised' = raised \cup {ev}
    /\ state[e] = "active"
    /\ listed' = [listed EXCEPT ![ev] = {e}]
    /\ UNCHANGED <<endpointVars, queueVars, envVars, row, fresh, snap, jobs, claims, asked>>

-----------------------------------------------------------------------------
(* Replay, requeue and discard *)

Resettable(d) == row[d].status \in {"pending", "delivered", "dlq"}

ResetDeliveryToPending(d) ==
    /\ row' = [row EXCEPT ![d] = [status |-> "pending", attempts |-> 0]]
    /\ LeaveQueue(d)
    /\ DropFromSnaps(d)
    /\ UNCHANGED <<endpointVars, eventVars, fresh, jobs, claims, received, faults>>

\* The customer's replay and the admin's.
ReplayDelivery(d) ==
    /\ Request
    /\ Resettable(d)
    /\ ResetDeliveryToPending(d)
    /\ UNCHANGED asked

\* requeueFromDlq checks the status in one statement
RequeueFromDlq(d) ==
    /\ Request
    /\ row[d].status = "dlq" /\ d \notin asked
    /\ asked' = asked \cup {d}
    /\ UNCHANGED <<endpointVars, queueVars, eventVars, row, fresh, snap, jobs, claims,
                   received, faults>>

\* and resets the row in another.
RequeueReset(d) ==
    /\ d \in asked
    /\ asked' = asked \ {d}
    /\ \/ Resettable(d) /\ ResetDeliveryToPending(d)
       \/ /\ ~Resettable(d)
          /\ UNCHANGED <<endpointVars, queueVars, eventVars, row, fresh, snap, jobs, claims,
                         received, faults>>
    /\ UNCHANGED ops

DiscardFromDlq(d) ==
    /\ row[d].status = "dlq"
    /\ row' = [row EXCEPT ![d].status = "discarded"]
    /\ UNCHANGED <<endpointVars, queueVars, envVars, eventVars, fresh, snap, jobs, claims, asked>>

-----------------------------------------------------------------------------
(* claim *)

\* Mutant: a row left in flight is never claimed again.
ClaimableOnlyPending(d) == row[d].status = "pending" /\ d \in due

\* The due or stale predicate of the statement.
Claimable(d) ==
    \/ row[d].status = "pending" /\ d \in due
    \/ row[d].status = "in_flight" /\ d \notin fresh

Busy(e) == Cardinality({d \in fresh : EndpointOf(d) = e})

Due == {d \in due : Claimable(d) /\ state[EndpointOf(d)] # "paused"}

SameEndpoint(d) == {x \in Deliveries : EndpointOf(x) = EndpointOf(d)}

\* Place of d in S, in the order of next_attempt_at.
Place(d, S) == Cardinality(S \cap (ahead[d] \cup {d}))

\* Mutant: the cap does not count what is in flight already.
FairPerClaim == {d \in Due : Place(d, Due \cap SameEndpoint(d)) <= Cap}

Fair == {d \in Due : Place(d, Due \cap SameEndpoint(d)) <= Cap - Busy(EndpointOf(d))}

FreeSlots(p) == Concurrency - Cardinality({j \in jobs : j.proc = p})

\* The statement's snapshot: the rows it will try to lock.
ClaimRank(p) ==
    /\ snap[p] = {}
    /\ snap' = [snap EXCEPT ![p] = {d \in Fair : Place(d, Fair) <= FreeSlots(p)}]
    /\ snap' # snap
    /\ UNCHANGED <<endpointVars, queueVars, envVars, eventVars, row, fresh, jobs, claims, asked>>

NewJob(p, d) ==
    [proc |-> p, of |-> d, claim |-> claims[d] + 1, attempts |-> row[d].attempts,
     step |-> "lookup"]

\* Mutant: a ranked row is taken without looking at it again.
TakenAsRanked(p) == {d \in snap[p] : row[d].status \in {"pending", "in_flight"}}

\* It locks the ranked rows that still qualify
Taken(p) == {d \in snap[p] : Claimable(d)}

\* and takes them.
ClaimLock(p) ==
    /\ snap[p] # {}
    /\ row' = [d \in Deliveries |->
                  IF d \in Taken(p) THEN [row[d] EXCEPT !.status = "in_flight"] ELSE row[d]]
    /\ fresh' = fresh \cup Taken(p)
    /\ claims' = [d \in Deliveries |-> IF d \in Taken(p) THEN claims[d] + 1 ELSE claims[d]]
    /\ jobs' = jobs \cup {NewJob(p, d) : d \in Taken(p)}
    /\ snap' = [snap EXCEPT ![p] = {}]
    /\ UNCHANGED <<endpointVars, queueVars, envVars, eventVars, asked>>

-----------------------------------------------------------------------------
(* deliver *)

Goto(j, s) == jobs' = (jobs \ {j}) \cup {[j EXCEPT !.step = s]}

Done(j) == jobs' = jobs \ {j}

AfterLookup(e) == CASE state[e] = "disabled" -> "gone"
                    [] state[e] = "paused" -> "defer"
                    [] OTHER -> "post"

\* findEndpointById
Lookup(j) ==
    /\ j.step = "lookup"
    /\ Goto(j, AfterLookup(EndpointOf(j.of)))
    /\ UNCHANGED <<endpointVars, queueVars, envVars, eventVars, row, fresh, snap, claims, asked>>

\* The endpoint answers 2xx; or it answers otherwise, or not in time, having
\* perhaps taken the event all the same.
Post(j) ==
    /\ j.step = "post"
    /\ \/ received' = received \cup {j.of} /\ Goto(j, "ok")
       \/ received' \in {received, received \cup {j.of}} /\ Goto(j, "fail")
    /\ UNCHANGED <<endpointVars, queueVars, eventVars, row, fresh, snap, claims, asked, faults, ops>>

\* The database call did its work; its answer may get lost, which is a throw.
Returns(j, s) ==
    \/ UNCHANGED faults /\ (IF s = "done" THEN Done(j) ELSE Goto(j, s))
    \/ Fault /\ (IF j.step = "recover" THEN Done(j) ELSE Goto(j, "recover"))

\* Mutant: the record functions match on the id alone.
AnyStatus(d) == row[d].status # "none"

\* The fence of every record function.
InFlight(d) == row[d].status = "in_flight"

RecordDelivered(j) ==
    IF InFlight(j.of)
      THEN /\ row' = [row EXCEPT ![j.of].status = "delivered"]
           /\ failures' = [failures EXCEPT ![EndpointOf(j.of)] = 0]
           /\ fresh' = fresh \ {j.of}
           /\ LeaveQueue(j.of)
           /\ UNCHANGED snap
      ELSE UNCHANGED <<row, failures, fresh, queueVars, snap>>

RecordRetry(j) ==
    IF InFlight(j.of)
      THEN /\ row' = [row EXCEPT ![j.of] = [status |-> "pending", attempts |-> j.attempts + 1]]
           /\ fresh' = fresh \ {j.of}
           /\ LeaveQueue(j.of)
           /\ DropFromSnaps(j.of)
           /\ UNCHANGED failures
      ELSE UNCHANGED <<row, failures, fresh, queueVars, snap>>

\* Mutant: finding the endpoint paused costs an attempt.
RecordDeferredAsRetry(j) == RecordRetry(j)

RecordDeferred(j) ==
    IF InFlight(j.of)
      THEN /\ row' = [row EXCEPT ![j.of].status = "pending"]
           /\ fresh' = fresh \ {j.of}
           /\ UNCHANGED <<failures, queueVars, snap>>
      ELSE UNCHANGED <<row, failures, fresh, queueVars, snap>>

\* Mutant: the failure is counted whether or not the row matched.
RecordDlqCountsAlways(j) ==
    /\ failures' = [failures EXCEPT ![EndpointOf(j.of)] = @ + 1]
    /\ IF InFlight(j.of)
         THEN /\ row' = [row EXCEPT ![j.of].status = "dlq"]
              /\ fresh' = fresh \ {j.of}
              /\ LeaveQueue(j.of)
              /\ UNCHANGED snap
         ELSE UNCHANGED <<row, fresh, queueVars, snap>>

RecordDlq(j) ==
    IF InFlight(j.of)
      THEN /\ row' = [row EXCEPT ![j.of].status = "dlq"]
           /\ failures' = [failures EXCEPT ![EndpointOf(j.of)] = @ + 1]
           /\ fresh' = fresh \ {j.of}
           /\ LeaveQueue(j.of)
           /\ UNCHANGED snap
      ELSE UNCHANGED <<row, failures, fresh, queueVars, snap>>

\* Mutant: one attempt short.
LastAttemptEarly(j) == j.attempts + 2 >= MaxAttempts

\* Mutant: one attempt too many.
LastAttemptLate(j) == j.attempts + 1 > MaxAttempts

LastAttempt(j) == j.attempts + 1 >= MaxAttempts

FailedAttempt(j) == IF LastAttempt(j) THEN RecordDlq(j) ELSE RecordRetry(j)

\* handleOutcome, the branches of deliverInner that do not post, and
\* recoverFromUnexpectedThrow.
Record(j) ==
    /\ \/ j.step = "gone" /\ RecordDlq(j) /\ Returns(j, "done")
       \/ j.step = "defer" /\ RecordDeferred(j) /\ Returns(j, "done")
       \/ j.step = "ok" /\ RecordDelivered(j) /\ Returns(j, "done")
       \/ j.step = "fail" /\ FailedAttempt(j) /\ Returns(j, "check")
       \/ j.step = "recover" /\ FailedAttempt(j) /\ Returns(j, "done")
    /\ UNCHANGED <<state, eventVars, claims, received, asked, ops>>

\* Mutant: the threshold itself does not disable.
PastThreshold(e) == state[e] # "disabled" /\ failures[e] > Threshold

AtThreshold(e) == state[e] # "disabled" /\ failures[e] >= Threshold

\* maybeAutoDisable reads the endpoint again
MaybeAutoDisable(j) ==
    /\ j.step = "check"
    /\ IF AtThreshold(EndpointOf(j.of)) THEN Goto(j, "disable") ELSE Done(j)
    /\ UNCHANGED <<endpointVars, queueVars, envVars, eventVars, row, fresh, snap, claims, asked>>

\* and disables it in another statement.
AutoDisable(j) ==
    /\ j.step = "disable"
    /\ DisableEndpoint(EndpointOf(j.of))
    /\ Returns(j, "done")
    /\ UNCHANGED <<failures, queueVars, eventVars, row, fresh, snap, claims, received, asked, ops>>

\* A database call throws without having done anything.  A throw out of
\* recoverFromUnexpectedThrow leaves the row in flight.
CallFails(j) ==
    /\ Fault
    /\ j.step # "post"
    /\ IF j.step = "recover" THEN Done(j) ELSE Goto(j, "recover")
    /\ UNCHANGED <<endpointVars, queueVars, eventVars, row, fresh, snap, claims, received, asked, ops>>

Crash(p) ==
    /\ Fault
    /\ snap[p] # {} \/ \E j \in jobs : j.proc = p
    /\ jobs' = {j \in jobs : j.proc # p}
    /\ snap' = [snap EXCEPT ![p] = {}]
    /\ UNCHANGED <<endpointVars, queueVars, eventVars, row, fresh, claims, received, asked, ops>>

-----------------------------------------------------------------------------
Work(j) == Lookup(j) \/ Post(j) \/ Record(j) \/ MaybeAutoDisable(j) \/ AutoDisable(j)

Next ==
    \/ \E e \in Endpoints : CreateEndpoint(e) \/ Pause(e) \/ Resume(e) \/ Delete(e)
    \/ \E ev \in Events : ListEndpoints(ev) \/ EnqueueDeliveries(ev)
    \/ \E ev \in Events, e \in Endpoints : SendTestEvent(ev, e)
    \/ \E d \in Deliveries :
          \/ Elapse(d) \/ Expire(d)
          \/ ReplayDelivery(d) \/ RequeueFromDlq(d) \/ RequeueReset(d) \/ DiscardFromDlq(d)
    \/ \E p \in Processes : ClaimRank(p) \/ ClaimLock(p) \/ Crash(p)
    \/ \E j \in jobs : Work(j) \/ CallFails(j)

Spec == Init /\ [][Next]_vars

\* The poller ticks, time passes, the database answers in the end and every
\* attempt is answered or timed out.  Nobody has to resume an endpoint.
Fairness ==
    /\ \A p \in Processes : WF_vars(ClaimRank(p)) /\ WF_vars(ClaimLock(p))
    /\ \A d \in Deliveries :
          /\ WF_vars(Elapse(d))
          /\ WF_vars(Expire(d) /\ UNCHANGED faults)
          /\ WF_vars(\E j \in jobs : j.of = d /\ Work(j))

FairSpec == Spec /\ Fairness

-----------------------------------------------------------------------------
(* Properties *)

\* Every variable has its type.
TypeOK ==
    /\ state \in [Endpoints -> {"absent", "active", "paused", "disabled"}]
    /\ failures \in [Endpoints -> Nat]
    /\ raised \in SUBSET Events
    /\ listed \in [Events -> SUBSET Endpoints]
    /\ row \in [Deliveries -> Row]
    /\ due \in SUBSET Deliveries
    /\ ahead \in [Deliveries -> SUBSET Deliveries]
    /\ fresh \in SUBSET Deliveries
    /\ snap \in [Processes -> SUBSET Deliveries]
    /\ jobs \in SUBSET Job
    /\ claims \in [Deliveries -> Nat]
    /\ received \in SUBSET Deliveries
    /\ asked \in SUBSET Deliveries
    /\ faults \in Nat /\ ops \in Nat

Outcome(s) == CASE s \in {"pending", "in_flight"} -> "owed"
                [] s = "dlq" -> "dead"
                [] s = "discarded" -> "gone"
                [] OTHER -> s

Contract == INSTANCE DeliveryContract
              WITH outcome <- [d \in Deliveries |-> Outcome(row[d].status)]

\* Whatever workers stall, crash or lose answers, the rows behave as the
\* contract says: a delivery is settled once, as delivered only if the endpoint
\* took it, and comes back only when somebody asks for it.
DeliversAsPromised == Contract!Spec

\* A row claimed within the stale window is not claimed again, although a
\* claim ranks rows on a snapshot older than its locks.
ClaimedRowIsLeftAlone ==
    [][\A d \in fresh : claims'[d] = claims[d]]_vars

\* One endpoint never holds more than its share of the pool.
EndpointCap == \A e \in Endpoints : Busy(e) <= Cap

\* A delivery is given up only after it was claimed as often as attempts are
\* allowed, or because its endpoint is gone: a re-claim or a late record of a
\* stalled worker never uses up attempts nobody began.
DeadLetterEarned ==
    \A d \in Deliveries :
        row[d].status = "dlq" => \/ claims[d] >= MaxAttempts
                                \/ state[EndpointOf(d)] = "disabled"

\* No limit is passed: of attempts per delivery, of rows per endpoint in the
\* pool, and none is called exhausted before it is.
LimitsHold == TypeOK /\ EndpointCap /\ DeadLetterEarned

\* Each delivery given up counts once towards disabling its endpoint, and
\* nothing else does, whichever workers report it.
FailureCountsOnce ==
    \A e \in Endpoints : failures'[e] > failures[e] =>
        /\ failures'[e] = failures[e] + 1
        /\ \E d \in Deliveries : /\ EndpointOf(d) = e
                                 /\ row[d].status = "in_flight"
                                 /\ row'[d].status = "dlq"

\* While an endpoint is paused its deliveries keep their attempts and none is
\* given up, except by a worker that looked the endpoint up before the pause.
PauseSpendsNothing ==
    \A d \in Deliveries :
        /\ state[EndpointOf(d)] = "paused"
        /\ ~\E j \in jobs : j.of = d /\ j.step \in {"post", "ok", "fail", "recover"}
        => /\ row'[d].attempts \in {0, row[d].attempts}
           /\ row'[d].status = "dlq" => row[d].status = "dlq"

\* Records of several workers on one delivery cost its endpoint one failure, and
\* those of a paused one cost nothing.
RecordsSpendOnce == [][FailureCountsOnce /\ PauseSpendsNothing]_vars

\* An endpoint at the failure threshold is disabled or a worker is about to
\* look: parallel dead letters cannot all miss the crossing.
FailingEndpointIsDisabled ==
    faults = 0 =>
        \A e \in Endpoints : failures[e] >= Threshold =>
            \/ state[e] = "disabled"
            \/ \E j \in jobs : EndpointOf(j.of) = e /\ j.step \in {"check", "disable"}

Owed(d) == row[d].status \in {"pending", "in_flight"}

\* Once faults stop, every delivery reaches an outcome unless its endpoint is
\* paused: no crash, lost answer or busy neighbour strands it.
OwedIsSettled ==
    \A d \in Deliveries : Owed(d) ~> (~Owed(d) \/ state[EndpointOf(d)] = "paused")
=============================================================================
