------------------------------ MODULE PlanTier ------------------------------
(***************************************************************************)
(* The plan of one account: Stripe's subscription events                   *)
(* (services/stripe-webhooks.ts), the subscription mirror and the two      *)
(* recomputes of accounts.tier (db/stripe-webhooks-repo.ts), crypto terms  *)
(* (services/crypto-tier-activation.ts) and the sweeps that end a past-due *)
(* grace and an expired term.                                              *)
(*                                                                         *)
(* Stripe delivers every event at least once, in any order and more than   *)
(* once at a time; a delivery may fail between any two statements, and is  *)
(* then sent again.  Each statement or transaction is a step.              *)
(*                                                                         *)
(* A plan is its rank, 0 for free.  A trialing subscription behaves as an  *)
(* active one, a paused one as an unpaid one, an expired first payment as  *)
(* an incomplete one.  The clock counts Stripe's seconds, so that several  *)
(* events may bear one time.  Left out: prices the configuration does not  *)
(* name, e-mails, the refresh of credits (a failure of it is a failed      *)
(* delivery) and the auth cache (see AuthCache).                           *)
(***************************************************************************)
EXTENDS Integers, FiniteSets, FiniteSetsExt

CONSTANTS
    Subs,        \* Stripe subscriptions of the account
    Orders,      \* crypto orders that were paid
    Workers,     \* concurrent deliveries
    Plans,       \* paid plans, by rank
    Grace,       \* PAST_DUE_GRACE_DAYS, in ticks
    Term,        \* CRYPTO_ENTITLEMENT_TERM_DAYS, in ticks
    Dunning,     \* whether payments may fail in this instance
    None,
    MaxTime,     \* bound: the clock
    MaxEvents,   \* bound: events that Stripe issues
    MaxFaults    \* bound: failed deliveries, sweeps and cancellations

ASSUME ConstantsAssumption ==
    /\ Plans \subseteq Nat \ {0}
    /\ {Grace, Term} \subseteq Nat \ {0}
    /\ {MaxTime, MaxEvents, MaxFaults} \subseteq Nat
    /\ Dunning \in BOOLEAN
    /\ IsFiniteSet(Subs) /\ IsFiniteSet(Orders)

(***************************************************************************)
(* stripe  the subscription in Stripe: its status, plan, last status move  *)
(* events  what Stripe issued and processed_stripe_events does not name    *)
(* issued  how many events Stripe issued                                   *)
(* mirror  subscriptions: status, plan, updated_at, created_at,            *)
(*         past_due_since, past_due_grace_ended_at                         *)
(* terms   crypto_entitlements of each order                               *)
(* tier    accounts.tier                                                   *)
(* work    a delivery under way; sweep  the two sweeps and the refund      *)
(* alerted whether staff were told of a second subscription                *)
(***************************************************************************)
VARIABLES now, stripe, events, issued, mirror, terms, tier, work, sweep, alerted, faults

stripeVars == <<stripe, events, issued>>
planVars == <<mirror, terms, tier>>
vars == <<now, stripeVars, planVars, work, sweep, alerted, faults>>

Statuses == {"incomplete", "active", "past_due", "unpaid", "canceled"}
Event == [sub : Subs, deleted : BOOLEAN, status : Statuses,
          was : Statuses \cup {"same"}, plan : Plans, at : 0 .. MaxTime]
Subscription == [status : Statuses, plan : Plans, at : 0 .. MaxTime]
Row == [status : Statuses, plan : Plans, at : 0 .. MaxTime, created : 0 .. MaxTime,
        since : -1 .. MaxTime, ended : BOOLEAN]
CryptoTerm == [plan : Plans, starts : Int, ends : Int, done : BOOLEAN, refunded : BOOLEAN]
Steps == {"idle", "read", "upsert", "stale", "replace", "cancel", "grant", "leave", "record"}
Work == [step : Steps, event : Event \cup {None}, stored : Row \cup {None}, rest : SUBSET Subs]
Job == [step : {"idle", "recompute", "mark"}, ids : SUBSET (Subs \cup Orders), asOf : 0 .. MaxTime]

\* null is no record.
ASSUME NoneAssumption == None \notin Subscription \cup Event \cup Row \cup CryptoTerm

Jobs == {"grace", "expiry", "refund"}
IdleJob == [step |-> "idle", ids |-> {}, asOf |-> 0]
IdleWork == [step |-> "idle", event |-> None, stored |-> None, rest |-> {}]

Init ==
    /\ now = 0
    /\ stripe = [s \in Subs |-> None]
    /\ events = {} /\ issued = 0
    /\ mirror = [s \in Subs |-> None]
    /\ terms = [o \in Orders |-> None]
    /\ tier = 0
    /\ work = [w \in Workers |-> IdleWork]
    /\ sweep = [j \in Jobs |-> IdleJob]
    /\ alerted = FALSE
    /\ faults = 0

Fault == faults < MaxFaults /\ faults' = faults + 1

Tick ==
    /\ now < MaxTime
    /\ now' = now + 1
    /\ UNCHANGED <<stripeVars, planVars, work, sweep, alerted, faults>>

-----------------------------------------------------------------------------
(* Stripe *)

\* SAME_SECOND_STATUS_ORDER
StatusRank(st) ==
    CASE st = "incomplete" -> 0 [] st = "active" -> 3 [] st = "past_due" -> 4
      [] st = "unpaid" -> 5 [] st = "canceled" -> 7

\* The status a subscription may have after st.
Moves(st) ==
    CASE st = "incomplete" -> {"active"}
      [] st = "active" -> {"canceled"} \cup (IF Dunning THEN {"past_due"} ELSE {})
      [] st = "past_due" -> {"active", "unpaid", "canceled"}
      [] st = "unpaid" -> {"active", "canceled"}
      [] st = "canceled" -> {}

Issue(new) ==
    /\ issued + Cardinality(new) <= MaxEvents
    /\ issued' = issued + Cardinality(new)
    /\ events' = events \cup new

Body(s, deleted, status, was, plan) ==
    [sub |-> s, deleted |-> deleted, status |-> status, was |-> was, plan |-> plan, at |-> now]

\* The subscription as it is from now on.
Becomes(s, status, plan) ==
    stripe' = [stripe EXCEPT ![s] = [status |-> status, plan |-> plan, at |-> now]]

Subscribe(s, plan) ==
    /\ stripe[s] = None
    /\ \E st \in {"incomplete", "active"} :
          /\ Becomes(s, st, plan)
          /\ Issue({Body(s, FALSE, st, "same", plan)})
    /\ UNCHANGED <<now, planVars, work, sweep, alerted, faults>>

\* Within one second a subscription only moves on in the order of statuses.
Move(s) ==
    /\ stripe[s] # None
    /\ \E st \in Moves(stripe[s].status) \ {"canceled"} :
          /\ stripe[s].at < now \/ StatusRank(stripe[s].status) <= StatusRank(st)
          /\ Becomes(s, st, stripe[s].plan)
          /\ Issue({Body(s, FALSE, st, stripe[s].status, stripe[s].plan)})
    /\ UNCHANGED <<now, planVars, work, sweep, alerted, faults>>

ChangePlan(s, plan) ==
    /\ stripe[s] # None
    /\ stripe[s].status = "active" /\ stripe[s].at < now /\ plan # stripe[s].plan
    /\ Becomes(s, "active", plan)
    /\ Issue({Body(s, FALSE, "active", "same", plan)})
    /\ UNCHANGED <<now, planVars, work, sweep, alerted, faults>>

\* The end of a subscription is a deletion, to which an update may be added.
End(s, updateToo) ==
    /\ Becomes(s, "canceled", stripe[s].plan)
    /\ Issue({Body(s, TRUE, "canceled", stripe[s].status, stripe[s].plan)} \cup
                IF updateToo THEN {Body(s, FALSE, "canceled", stripe[s].status, stripe[s].plan)} ELSE {})

Cancel(s) ==
    /\ stripe[s] # None
    /\ "canceled" \in Moves(stripe[s].status)
    /\ \E updateToo \in BOOLEAN : End(s, updateToo)
    /\ UNCHANGED <<now, planVars, work, sweep, alerted, faults>>

\* A note is edited on a subscription that is over.
Edit(s) ==
    /\ stripe[s] # None
    /\ stripe[s].status = "canceled"
    /\ Issue({Body(s, FALSE, "canceled", "same", stripe[s].plan)})
    /\ UNCHANGED <<now, stripe, planVars, work, sweep, alerted, faults>>

-----------------------------------------------------------------------------
(* What holds a plan *)

\* Mutant: judged at the time of the event.
AtEventTime(at) == at

\* GREATEST(now(), at)
JudgedAt(at) == IF at > now THEN at ELSE now

InGrace(row, t) == row.status = "past_due" /\ row.since >= 0 /\ row.since > t - Grace

\* subscriptionStillGrantsAt
StillGrants(s, at) ==
    /\ mirror[s] # None
    /\ \/ mirror[s].status = "active"
       \/ InGrace(mirror[s], JudgedAt(at)) /\ ~mirror[s].ended

\* cryptoTermHoldsThePlanAt
TermHolds(term, t) == term # None /\ term.starts <= t /\ term.ends > t

TermPlans(t) == {terms[o].plan : o \in {x \in Orders : TermHolds(terms[x], t)}}

\* Mutant: a subscription that ends leaves the account on the free plan.
FreeAfterLeaving(at) == {Max(TermPlans(JudgedAt(at)) \cup {0})}

\* The row updated last gives its plan, unless a term gives more.
BestRemaining(at) ==
    LET remaining == {s \in Subs : StillGrants(s, at)}
        newest == {s \in remaining : \A x \in remaining : mirror[x].at <= mirror[s].at}
        floor == TermPlans(JudgedAt(at)) \cup {0}
    IN IF remaining = {} THEN {Max(floor)}
       ELSE {Max(floor \cup {mirror[s].plan}) : s \in newest}

\* Mutant: the maximum of nothing is written.
BestActiveOrNull(at) ==
    Max({-1} \cup TermPlans(JudgedAt(at))
             \cup {mirror[s].plan : s \in {x \in Subs : mirror[x] # None /\ mirror[x].status = "active"}})

\* The highest plan of an active row or a term; nothing if there is none.
BestActive(at) ==
    LET held == {mirror[s].plan : s \in {x \in Subs : mirror[x] # None /\ mirror[x].status = "active"}}
                   \cup TermPlans(JudgedAt(at))
    IN IF held = {} THEN tier ELSE Max(held)

-----------------------------------------------------------------------------
(* One delivery of one event *)

Step(w, s) == work[w].step = s
Goto(w, s) == work' = [work EXCEPT ![w].step = s]

\* handle: an event that is in the ledger is answered at once, without a step.
Begin(w, e) ==
    /\ Step(w, "idle")
    /\ work' = [work EXCEPT ![w] = [step |-> IF e.deleted THEN "upsert" ELSE "read",
                                    event |-> e, stored |-> None, rest |-> {}]]
    /\ UNCHANGED <<now, stripeVars, planVars, sweep, alerted, faults>>

FindSubscription(w) ==
    /\ Step(w, "read")
    /\ work' = [work EXCEPT ![w].step = "upsert", ![w].stored = mirror[work[w].event.sub]]
    /\ UNCHANGED <<now, stripeVars, planVars, sweep, alerted, faults>>

\* Mutant: within a second the event processed last wins.
SameSecondWins(row, e) == row = None \/ row.at <= e.at

\* The recency guard of the upsert.
Applies(row, e) ==
    \/ row = None
    \/ row.at < e.at
    \/ row.at = e.at /\ StatusRank(row.status) <= StatusRank(e.status)

Upserted(row, e) ==
    LET stays == row # None /\ e.status = "past_due" /\ row.status = "past_due"
    IN [status |-> e.status, plan |-> e.plan, at |-> e.at,
        created |-> IF row = None THEN e.at ELSE row.created,
        since |-> IF e.status # "past_due" THEN -1 ELSE IF stays THEN row.since ELSE e.at,
        ended |-> stays /\ row.ended]

HeldThePlan(st) == st \in {"active", "past_due"}

\* Mutant: a subscription that waited for its first payment replaces nothing.
FirstSeen(e, stored) == e.status = "active" /\ stored = None

FirstMove(e, stored) ==
    e.status = "active" /\ (stored = None \/ stored.status = "incomplete")

\* An update into a terminal status owes a recompute if it was this update
\* that left the plan: by the row it found, or by its own earlier write.
LeavesThePlan(e, stored) ==
    /\ stored # None
    /\ \/ HeldThePlan(stored.status)
       \/ stored.status = e.status /\ stored.at = e.at /\ HeldThePlan(e.was)

\* A stale update that left the plan for the status the row still has.
StaleMoveOut(e, stored) ==
    e.status = "canceled" /\ stored # None /\ stored.status = "canceled" /\ HeldThePlan(e.was)

AfterUpsert(e, stored, applied) ==
    IF e.deleted THEN IF applied THEN "leave" ELSE "stale"
    ELSE IF ~applied THEN IF StaleMoveOut(e, stored) THEN "leave" ELSE "record"
    ELSE IF e.status = "active" THEN IF FirstMove(e, stored) THEN "replace" ELSE "grant"
    ELSE IF e.status \in {"past_due", "unpaid"} \/ (e.status = "canceled" /\ LeavesThePlan(e, stored))
      THEN "leave"
    ELSE "record"

UpsertSubscription(w) ==
    LET e == work[w].event
        row == mirror[e.sub]
    IN /\ Step(w, "upsert")
       /\ mirror' = IF Applies(row, e) THEN [mirror EXCEPT ![e.sub] = Upserted(row, e)] ELSE mirror
       /\ Goto(w, AfterUpsert(e, work[w].stored, Applies(row, e)))
       /\ UNCHANGED <<now, stripeVars, terms, tier, sweep, alerted, faults>>

\* Mutant: a stale deletion is only recorded.
StaleIsIgnored(w) ==
    Step(w, "stale") /\ Goto(w, "record") /\ UNCHANGED <<now, stripeVars, planVars, sweep, alerted, faults>>

\* A stale deletion of a row that is cancelled still owes its recompute.
FindStale(w) ==
    /\ Step(w, "stale")
    /\ Goto(w, IF mirror[work[w].event.sub].status = "canceled" THEN "leave" ELSE "record")
    /\ UNCHANGED <<now, stripeVars, planVars, sweep, alerted, faults>>

\* cancelReplacedSubscriptions reads who else collects.  A newer one is reported,
\* as is a read that fails; older ones are to be ended in Stripe.
CancelReplaced(w) ==
    LET s == work[w].event.sub
        collecting == {x \in Subs : mirror[x] # None /\ mirror[x].status \in {"active", "past_due"}}
        others == IF s \in collecting THEN collecting \ {s} ELSE {}
        older == {x \in others : mirror[x].created < mirror[s].created}
    IN /\ Step(w, "replace")
       /\ \/ /\ alerted' = (alerted \/ others # older)
             /\ work' = [work EXCEPT ![w].step = IF older = {} THEN "grant" ELSE "cancel",
                                     ![w].rest = older]
             /\ UNCHANGED faults
          \/ /\ Fault
             /\ alerted' = TRUE
             /\ work' = [work EXCEPT ![w].step = "grant", ![w].rest = {}]
       /\ UNCHANGED <<now, stripeVars, planVars, sweep>>

\* One of them is ended, or Stripe refuses; the last one brings the report.
CancelOne(w, x) ==
    /\ Step(w, "cancel") /\ x \in work[w].rest
    /\ IF stripe[x].status = "canceled"
         THEN UNCHANGED <<stripeVars, faults>>
         ELSE \/ End(x, FALSE) /\ UNCHANGED faults
              \/ Fault /\ UNCHANGED stripeVars
    /\ LET rest == work[w].rest \ {x}
       IN /\ alerted' = (alerted \/ rest = {})
          /\ work' = [work EXCEPT ![w].step = IF rest = {} THEN "grant" ELSE "cancel",
                                  ![w].rest = rest]
    /\ UNCHANGED <<now, planVars, sweep>>

\* setAccountTierToBestActive
Grant(w) ==
    /\ Step(w, "grant")
    /\ tier' = BestActive(work[w].event.at)
    /\ Goto(w, "record")
    /\ UNCHANGED <<now, stripeVars, mirror, terms, sweep, alerted, faults>>

\* recomputeAfterLeavingThePlan
Leave(w) ==
    /\ Step(w, "leave")
    /\ tier' \in BestRemaining(work[w].event.at)
    /\ Goto(w, "record")
    /\ UNCHANGED <<now, stripeVars, mirror, terms, sweep, alerted, faults>>

RecordEvent(w) ==
    /\ Step(w, "record")
    /\ events' = events \ {work[w].event}
    /\ work' = [work EXCEPT ![w] = IdleWork]
    /\ UNCHANGED <<now, stripe, issued, planVars, sweep, alerted, faults>>

\* A transient error or the end of the process: nothing is recorded.
DeliveryFails(w) ==
    /\ ~Step(w, "idle") /\ Fault
    /\ work' = [work EXCEPT ![w] = IdleWork]
    /\ UNCHANGED <<now, stripeVars, planVars, sweep, alerted>>

-----------------------------------------------------------------------------
(* Crypto terms *)

\* Mutant: a term starts when it is paid.
NotStacked(plan, paidAt) == paidAt

\* A term of the same plan is stacked on the one that ends last.
StackedAt(plan, paidAt) ==
    Max({paidAt} \cup {terms[o].ends : o \in {x \in Orders : terms[x] # None /\ terms[x].plan = plan}})

\* activateCryptoEntitlement: one transaction, once per order.
Activate(o, plan, paidAt) ==
    /\ terms[o] = None /\ paidAt <= now
    /\ LET starts == StackedAt(plan, paidAt)
       IN terms' = [terms EXCEPT ![o] = [plan |-> plan, starts |-> starts, ends |-> starts + Term,
                                          done |-> FALSE, refunded |-> FALSE]]
    /\ tier' = Max({tier, plan})
    /\ UNCHANGED <<now, stripeVars, mirror, work, sweep, alerted, faults>>

\* The term ends now, and each later term of its plan moves up by what it had left.
Restacked(o, t) ==
    LET term == terms[o]
        unused == term.ends - Max({term.starts, t})
        later == {x \in Orders \ {o} : terms[x] # None /\ terms[x].plan = term.plan
                                         /\ terms[x].starts >= term.ends}
    IN [x \in Orders |->
          IF x = o THEN [term EXCEPT !.starts = Min({@, t}), !.ends = t, !.refunded = TRUE]
          ELSE IF x \in later THEN [terms[x] EXCEPT !.starts = @ - unused, !.ends = @ - unused]
          ELSE terms[x]]

\* revokeCryptoEntitlementByOrderId; the recompute is a transaction of its own.
Refund(o) ==
    /\ terms[o] # None /\ terms[o].ends > now
    /\ sweep["refund"].step = "idle"
    /\ terms' = Restacked(o, now)
    /\ sweep' = [sweep EXCEPT !["refund"] = [step |-> "recompute", ids |-> {o}, asOf |-> now]]
    /\ UNCHANGED <<now, stripeVars, mirror, tier, work, alerted, faults>>

\* A refund that finds no term records one that has ended.
RefundFirst(o, plan) ==
    /\ terms[o] = None
    /\ terms' = [terms EXCEPT ![o] = [plan |-> plan, starts |-> now, ends |-> now,
                                       done |-> TRUE, refunded |-> TRUE]]
    /\ UNCHANGED <<now, stripeVars, mirror, tier, work, sweep, alerted, faults>>

-----------------------------------------------------------------------------
(* The sweeps *)

\* pastDueGraceEndedBy
GraceEnded(t) ==
    {s \in Subs : /\ mirror[s] # None
                  /\ mirror[s].status = "past_due" /\ ~mirror[s].ended
                  /\ mirror[s].since <= t - Grace}

Expired(t) == {o \in Orders : terms[o] # None /\ terms[o].ends <= t /\ ~terms[o].done}

Listed(j) == IF j = "grace" THEN GraceEnded(now) ELSE Expired(now)

StartSweep(j) ==
    /\ sweep[j].step = "idle" /\ Listed(j) # {}
    /\ sweep' = [sweep EXCEPT ![j] = [step |-> "recompute", ids |-> Listed(j), asOf |-> now]]
    /\ UNCHANGED <<now, stripeVars, planVars, work, alerted, faults>>

Recompute(j) ==
    /\ sweep[j].step = "recompute"
    /\ tier' \in BestRemaining(sweep[j].asOf)
    /\ sweep' = [sweep EXCEPT ![j] = IF j = "refund" THEN IdleJob ELSE [@ EXCEPT !.step = "mark"]]
    /\ UNCHANGED <<now, stripeVars, mirror, terms, work, alerted, faults>>

\* Mutant: the mark leaves out the spell that ends at this very moment.
MarkStrictly(ids, asOf) == {s \in ids \cap GraceEnded(asOf) : mirror[s].since < asOf - Grace}

\* The mark tests again what the list tested.
Marked(ids, asOf) == ids \cap GraceEnded(asOf)

Mark(j) ==
    /\ sweep[j].step = "mark"
    /\ mirror' = IF j # "grace" THEN mirror
                 ELSE [s \in Subs |-> IF s \in Marked(sweep[j].ids, sweep[j].asOf)
                                        THEN [mirror[s] EXCEPT !.ended = TRUE] ELSE mirror[s]]
    /\ terms' = IF j # "expiry" THEN terms
                ELSE [o \in Orders |-> IF o \in sweep[j].ids
                                         THEN [terms[o] EXCEPT !.done = TRUE] ELSE terms[o]]
    /\ sweep' = [sweep EXCEPT ![j] = IdleJob]
    /\ UNCHANGED <<now, stripeVars, tier, work, alerted, faults>>

SweepFails(j) ==
    /\ sweep[j].step # "idle" /\ Fault
    /\ sweep' = [sweep EXCEPT ![j] = IdleJob]
    /\ UNCHANGED <<now, stripeVars, planVars, work, alerted>>

-----------------------------------------------------------------------------
Proceed(w) ==
    \/ FindSubscription(w) \/ UpsertSubscription(w) \/ FindStale(w) \/ CancelReplaced(w)
    \/ \E x \in Subs : CancelOne(w, x)
    \/ Grant(w) \/ Leave(w) \/ RecordEvent(w)

Sweep(j) == Recompute(j) \/ Mark(j) \/ (j # "refund" /\ StartSweep(j))

Next ==
    \/ Tick
    \/ \E s \in Subs, plan \in Plans : Subscribe(s, plan) \/ ChangePlan(s, plan)
    \/ \E s \in Subs : Move(s) \/ Cancel(s) \/ Edit(s)
    \/ \E w \in Workers, e \in events : Begin(w, e)
    \/ \E w \in Workers : Proceed(w) \/ DeliveryFails(w)
    \/ \E o \in Orders, plan \in Plans : \/ \E paidAt \in 0 .. MaxTime : Activate(o, plan, paidAt)
                                         \/ RefundFirst(o, plan)
    \/ \E o \in Orders : Refund(o)
    \/ \E j \in Jobs : Sweep(j) \/ SweepFails(j)

Spec == Init /\ [][Next]_vars

\* Stripe goes on delivering while an event is not answered, a delivery ends, and
\* both sweeps are jobs that arm themselves again (see ScheduledJobs).
Fairness ==
    /\ WF_vars(\E w \in Workers, e \in events : Begin(w, e))
    /\ \A w \in Workers : WF_vars(Proceed(w))
    /\ \A j \in Jobs : WF_vars(Sweep(j))

FairSpec == Spec /\ Fairness

-----------------------------------------------------------------------------
(* Properties *)

\* Every variable has its type.
TypeOK ==
    /\ now \in 0 .. MaxTime
    /\ stripe \in [Subs -> Subscription \cup {None}]
    /\ events \subseteq Event /\ issued \in 0 .. MaxEvents
    /\ mirror \in [Subs -> Row \cup {None}]
    /\ terms \in [Orders -> CryptoTerm \cup {None}]
    /\ tier \in Plans \cup {0}
    /\ work \in [Workers -> Work]
    /\ sweep \in [Jobs -> Job]
    /\ alerted \in BOOLEAN /\ faults \in 0 .. MaxFaults

Answered == events = {} /\ \A w \in Workers : Step(w, "idle")
Settled == Answered /\ (\A j \in Jobs : sweep[j] = IdleJob) /\ GraceEnded(now) = {} /\ Expired(now) = {}

HeldBySubs == {mirror[s].plan : s \in
    {x \in Subs : mirror[x] # None /\ (mirror[x].status = "active" \/ InGrace(mirror[x], now))}}
Held == HeldBySubs \cup TermPlans(now)

\* Once every event is answered, the mirror says what Stripe says of every
\* subscription, however the events were ordered, repeated or retried.
MirrorConverges ==
    Answered => \A s \in Subs : stripe[s] # None =>
        /\ mirror[s] # None
        /\ mirror[s].status = stripe[s].status
        /\ mirror[s].plan = stripe[s].plan

\* Once the events are answered and the sweeps are up to date, the account has
\* no plan that neither a subscription nor a term gives it.
NoUnpaidPlan == Settled => tier \in Held \cup {0}

\* ... and it is not on the free plan while one of them gives it a paid one.
PaidPlanIsKept == Settled /\ Held # {} => tier # 0

\* Once everything that happened is dealt with, the account's plan is one that a
\* subscription or a term gives it, and the free plan only if none does.
PlanIsEarned == TypeOK /\ NoUnpaidPlan /\ PaidPlanIsKept

\* A customer who pays for two subscriptions at once is never left so silently:
\* the older is ended, or staff are told.
NoSilentDoubleBilling ==
    Settled => \/ alerted
               \/ Cardinality({s \in Subs : stripe[s] # None /\ stripe[s].status \in {"active", "past_due"}}) <= 1

Covered(o) == terms[o].starts .. terms[o].ends - 1

\* A payment buys one term: a term that was not refunded keeps its length, and
\* no two terms of one plan cover the same time, whatever is refunded or comes
\* late.
OnePaymentOneTerm ==
    \A o \in Orders : terms[o] # None /\ ~terms[o].refunded =>
        /\ terms[o].ends - terms[o].starts = Term
        /\ \A x \in Orders \ {o} : terms[x] # None /\ terms[x].plan = terms[o].plan =>
              {terms[x].starts, terms[o].starts} \cap Covered(x) \cap Covered(o) = {}

\* An ended grace, an ended term and every event are dealt with in the end,
\* also after failed deliveries and failed sweeps.
PlanSettles == []<>Settled
=============================================================================
