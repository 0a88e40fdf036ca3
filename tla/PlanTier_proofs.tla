-------------------------- MODULE PlanTier_proofs --------------------------
(***************************************************************************)
(* Theorems about PlanTier: the mirror converges to what Stripe says, the  *)
(* account's plan is one it holds once all is dealt with, and one payment  *)
(* buys one term.                                                          *)
(***************************************************************************)
EXTENDS PlanTier, FiniteSetTheorems, WellFoundedInduction, TLAPS

USE ConstantsAssumption, NoneAssumption

-----------------------------------------------------------------------------
(* Numbers *)

\* Every nonempty set of natural numbers has a least element.
LEMMA LeastElement ==
    ASSUME NEW T, T \subseteq Nat, T # {}
    PROVE  \E x \in T : \A y \in T : x <= y
<1>1. PICK x \in T : \A y \in T : ~ (<<y, x>> \in OpToRel(<, Nat))
  BY NatLessThanWellFounded, WFMin
<1>2. ASSUME NEW y \in T PROVE ~ (y < x)
  <2>1. y \in Nat /\ x \in Nat
    OBVIOUS
  <2>2. QED
    BY <1>1, <2>1, Zenon DEF OpToRel
<1>3. QED
  BY <1>2

\* A finite set of numbers has a greatest one: that with the fewest above it.
LEMMA MaxIsGreatest ==
    ASSUME NEW S, S \subseteq Int, IsFiniteSet(S), S # {}
    PROVE  Max(S) \in S /\ \A y \in S : y <= Max(S)
<1> DEFINE Above(x) == {y \in S : y > x}
           N == {Cardinality(Above(x)) : x \in S}
<1>1. \A x \in S : IsFiniteSet(Above(x)) /\ Cardinality(Above(x)) \in Nat
  BY FS_Subset, FS_CardinalityType
<1>2. N \subseteq Nat /\ N # {}
  BY <1>1
<1>3. PICK n \in N : \A m \in N : n <= m
  <2> HIDE DEF N
  <2> QED BY <1>2, LeastElement
<1>4. PICK x \in S : n = Cardinality(Above(x))
  BY <1>3
<1>5. ASSUME NEW y \in S, y > x PROVE FALSE
  <2>1. \A z \in S : z \in Int
    OBVIOUS
  <2>2. Above(y) \in SUBSET Above(x)
    <3> SUFFICES ASSUME NEW z \in Above(y) PROVE z \in Above(x)
      OBVIOUS
    <3>1. z \in S /\ z > y /\ z \in Int /\ y \in Int /\ x \in Int
      BY <2>1
    <3> QED BY <3>1, <1>5
  <2>3. y \in Above(x) /\ y \notin Above(y)
    BY <1>5, <2>1
  <2>4. Cardinality(Above(y)) \in N
    OBVIOUS
  <2> HIDE DEF Above, N
  <2>5. Cardinality(Above(y)) <= Cardinality(Above(x)) /\ Cardinality(Above(y)) # Cardinality(Above(x))
    BY <1>1, <2>2, <2>3, FS_Subset
  <2> QED BY <1>1, <1>2, <1>3, <1>4, <2>4, <2>5
<1>6. \A y \in S : x >= y
  BY <1>5
<1> QED BY <1>6 DEF Max

\* What a function makes of a finite set is finite.
LEMMA FiniteImage ==
    ASSUME NEW S, IsFiniteSet(S), NEW f, NEW T, \A y \in T : \E x \in S : y = f[x]
    PROVE  IsFiniteSet(T)
<1> DEFINE g == [x \in S |-> f[x]]
           U == {f[x] : x \in S}
<1>1. g \in Surjection(S, U)
  BY DEF Surjection
<1>2. IsFiniteSet(U)
  BY <1>1, FS_Surjection
<1>3. T \subseteq U
  OBVIOUS
<1> QED BY <1>2, <1>3, FS_Subset

LEMMA MaxOfTwo == ASSUME NEW a \in Int, NEW b \in Int PROVE Max({a, b}) = IF a >= b THEN a ELSE b
BY DEF Max

LEMMA MinOfTwo == ASSUME NEW a \in Int, NEW b \in Int PROVE Min({a, b}) = IF a <= b THEN a ELSE b
BY DEF Min

\* The order of statuses within a second is strict, and an end comes last.
LEMMA Ranks ==
    /\ \A st \in Statuses : StatusRank(st) \in 0 .. 7
    /\ \A st, su \in Statuses : StatusRank(st) = StatusRank(su) => st = su
    /\ \A st \in Statuses : st # "canceled" => StatusRank(st) < StatusRank("canceled")
    /\ \A st \in Statuses : st # "incomplete" => StatusRank("incomplete") < StatusRank(st)
<1>1. StatusRank("incomplete") = 0
  BY DEF StatusRank
<1>2. StatusRank("active") = 3
  BY DEF StatusRank
<1>3. StatusRank("past_due") = 4
  BY DEF StatusRank
<1>4. StatusRank("unpaid") = 5
  BY DEF StatusRank
<1>5. StatusRank("canceled") = 7
  BY DEF StatusRank
<1> QED BY <1>1, <1>2, <1>3, <1>4, <1>5 DEF Statuses

LEMMA MovesAreStatuses ==
    \A st \in Statuses : Moves(st) \subseteq Statuses /\ st \notin Moves(st) /\ "incomplete" \notin Moves(st)
                         /\ (st = "canceled" => Moves(st) = {})
BY DEF Statuses, Moves

-----------------------------------------------------------------------------
(* What Stripe said and what is remembered of it *)

\* The order of the recency guard: x is no later than y.
NoLater(x, y) == x.at < y.at \/ (x.at = y.at /\ StatusRank(x.status) <= StatusRank(y.status))

Reached(s, x) == mirror[s] # None /\ NoLater(x, mirror[s])

\* What is known of subscription s: what is still to be delivered, what is being
\* delivered, and the row.
Facts(s) ==
    {e \in events : e.sub = s}
    \cup {work[w].event : w \in {v \in Workers : work[v].event # None /\ work[v].event.sub = s}}
    \cup ({mirror[s]} \ {None})

\* Nothing is known that Stripe did not say: x is no later than what the
\* subscription is now, or repeats its end.
Said(s, x) ==
    /\ stripe[s] # None /\ x.at <= now
    /\ IF x.status = "canceled"
         THEN /\ stripe[s].status = "canceled"
              /\ x.plan = stripe[s].plan /\ stripe[s].at <= x.at
         ELSE /\ NoLater(x, stripe[s])
              /\ x.at = stripe[s].at /\ x.status = stripe[s].status => x.plan = stripe[s].plan

\* What bears one time and status names one plan, and the first payment is
\* awaited before all else.
Agree(x, y) ==
    /\ x.at = y.at /\ x.status = y.status => x.plan = y.plan
    /\ x.status = "incomplete" => NoLater(x, y)

History ==
    \A s \in Subs : /\ stripe[s] # None => stripe[s].at <= now
                    /\ \A x \in Facts(s) : Said(s, x) /\ \A y \in Facts(s) : Agree(x, y)

\* What Stripe says now has reached the mirror, or an event that says as much is
\* still to come; the end of a subscription comes as a deletion.
Coming ==
    \A s \in Subs : stripe[s] # None =>
        /\ Reached(s, stripe[s]) \/ \E e \in events : e.sub = s /\ NoLater(stripe[s], e)
        /\ stripe[s].status = "canceled" =>
              \/ mirror[s] # None /\ mirror[s].status = "canceled"
              \/ \E e \in events : e.sub = s /\ e.deleted

Delivering(w) ==
    LET k == work[w]  e == work[w].event IN
    /\ k.step = "idle" <=> e = None
    /\ \A x \in k.rest : mirror[x] # None
    /\ k.step # "idle" =>
          /\ e \in events \/ Reached(e.sub, e)
          /\ e.deleted => e.status = "canceled" /\ k.step \in {"upsert", "stale", "leave", "record"}
          /\ k.step \notin {"read", "upsert"} => Reached(e.sub, e)
          /\ k.step = "stale" => e.deleted
          /\ k.step \in {"replace", "cancel", "grant"} => e.status = "active"

Deliveries ==
    /\ \A w \in Workers : Delivering(w)
    /\ \A e \in events : e.deleted => e.status = "canceled"

-----------------------------------------------------------------------------
(* Rows, terms and sweeps *)

\* A spell has a beginning, and its grace is marked as ended after it ended.
RowIsSound(row, t) ==
    /\ row.status = "past_due" => row.since >= 0
    /\ row.ended => row.status = "past_due" /\ row.since <= t - Grace

Rows == \A s \in Subs : mirror[s] # None => RowIsSound(mirror[s], now)

TermIsSound(term, t) ==
    /\ term.starts <= term.ends
    /\ term.done \/ term.refunded => term.ends <= t
    /\ ~term.refunded => term.ends = term.starts + Term

\* Two terms of one plan, the first of which was not refunded, follow one
\* another, or the second is empty.
Apart(t, u) ==
    t.plan = u.plan /\ ~t.refunded =>
        \/ t.ends <= u.starts \/ u.ends <= t.starts
        \/ u.refunded /\ u.starts = u.ends

\* A term that has not begun continues another.
Continues(o) ==
    terms[o].starts > now =>
        \E x \in Orders : /\ terms[x] # None /\ terms[x].plan = terms[o].plan
                          /\ terms[x].ends = terms[o].starts

Terms ==
    \A o \in Orders : terms[o] # None =>
        /\ TermIsSound(terms[o], now) /\ Continues(o)
        /\ \A x \in Orders \ {o} : terms[x] # None => Apart(terms[o], terms[x])

\* A sweep works on what its list found.
Sweeps ==
    /\ \A j \in Jobs : sweep[j].asOf <= now
    /\ sweep["grace"].ids \subseteq Subs
    /\ sweep["expiry"].ids \subseteq Orders
    /\ \A o \in sweep["expiry"].ids : terms[o] # None /\ terms[o].ends <= now
    /\ sweep["refund"].step # "mark"

-----------------------------------------------------------------------------
(* Who still has to recompute the plan *)

Fresh == tier \in Held \cup {0} /\ (Held # {} => tier # 0)

\* Nobody has recomputed the plan for event e and is about to record it.
Unanswered(e) == e \in events /\ \A w \in Workers : work[w].event = e => ~Step(w, "record")

\* The event that brought row s to its status has yet to be answered; of a
\* subscription that is over, its deletion.
RowOwes(s) ==
    /\ mirror[s] # None /\ mirror[s].status # "incomplete"
    /\ \E e \in events :
          /\ e.sub = s /\ Unanswered(e)
          /\ IF mirror[s].status = "canceled" THEN e.deleted
             ELSE e.at = mirror[s].at /\ e.status = mirror[s].status

\* A grace or a term is over, and no sweep that has recomputed since is about to
\* say so.
GraceOwes ==
    \E s \in GraceEnded(now) :
        ~(sweep["grace"].step = "mark" /\ s \in Marked(sweep["grace"].ids, sweep["grace"].asOf))
ExpiryOwes == \E o \in Expired(now) : ~(sweep["expiry"].step = "mark" /\ o \in sweep["expiry"].ids)

TierIsOwed == Fresh \/ (\E s \in Subs : RowOwes(s)) \/ GraceOwes \/ ExpiryOwes

-----------------------------------------------------------------------------
(* Two subscriptions at once *)

\* No payment fails.
Paid(st) == st \in {"incomplete", "active", "canceled"}

AllPaid ==
    /\ \A s \in Subs : /\ stripe[s] # None => Paid(stripe[s].status)
                       /\ mirror[s] # None => Paid(mirror[s].status)
    /\ \A e \in events : Paid(e.status)
    /\ \A w \in Workers : work[w].event # None => Paid(work[w].event.status)

Begun(s) == mirror[s] # None /\ mirror[s].status # "incomplete"

\* What a delivery has read of a row: the first payment is not awaited again.
Stored(w) ==
    /\ Step(w, "upsert") /\ ~work[w].event.deleted
    /\ work[w].stored # None /\ work[w].stored.status # "incomplete"
    => Begun(work[w].event.sub)

Active(s) == mirror[s] # None /\ mirror[s].status = "active"

\* Someone has reported the two, or is about to look, or is ending the older.
Noticed(s, x) ==
    \/ alerted
    \/ \E w \in Workers : \/ Step(w, "replace") /\ work[w].event.sub \in {s, x}
                          \/ Step(w, "cancel")

Pairs == \A s \in Subs : \A x \in Subs \ {s} : Active(s) /\ Active(x) => Noticed(s, x)

DoubleInv == AllPaid /\ (\A w \in Workers : Stored(w)) /\ Pairs
-----------------------------------------------------------------------------
(* Steps of Stripe *)

\* Later, and not at the same time with the same status.
Later(x, y) == NoLater(x, y) /\ ~(x.at = y.at /\ x.status = y.status)

\* Stripe announces, by the events N, that s is new from now on: its first
\* status, a later one, or its end; or it repeats the end.
Says(s, new, N) ==
    /\ new \in Subscription /\ N \in SUBSET Event
    /\ stripe' = [stripe EXCEPT ![s] = new] /\ events' = events \cup N
    /\ \A e \in N : /\ e.sub = s /\ e.status = new.status /\ e.plan = new.plan /\ e.at = now
                    /\ e.deleted => e.status = "canceled"
    /\ \/ stripe[s] = new /\ new.status = "canceled"
       \/ /\ new.at = now /\ N # {}
          /\ stripe[s] = None \/ (stripe[s].status # "canceled" /\ new.status # "incomplete")
          /\ IF new.status = "canceled"
               THEN stripe[s] # None /\ new.plan = stripe[s].plan /\ \E e \in N : e.deleted
               ELSE stripe[s] # None => Later(stripe[s], new)

StripeStep(s) == \E new \in Subscription, N \in SUBSET Event : Says(s, new, N)

LEMMA IssueType ==
    ASSUME TypeOK, NEW x, NEW y, NEW N, Issue(N), N = {x} \/ N = {x, y}
    PROVE  issued' \in 0 .. MaxEvents
<1>1. IsFiniteSet(N)
  <2>1. IsFiniteSet({x}) /\ IsFiniteSet({x} \cup {y})
    BY FS_Singleton, FS_AddElement
  <2>2. {x, y} = {x} \cup {y}
    OBVIOUS
  <2> QED BY <2>1, <2>2
<1>2. Cardinality(N) \in Nat
  BY <1>1, FS_CardinalityType
<1> QED BY <1>2 DEF Issue, TypeOK

\* A first status, a later one or another plan.
LEMMA NewsSays ==
    ASSUME TypeOK, NEW s \in Subs, NEW st \in Statuses, NEW plan \in Plans,
           NEW was \in Statuses \cup {"same"},
           Becomes(s, st, plan), Issue({Body(s, FALSE, st, was, plan)}), st # "canceled",
           stripe[s] # None =>
              /\ stripe[s].at <= now /\ stripe[s].status # "canceled" /\ st # "incomplete"
              /\ \/ stripe[s].at < now
                 \/ StatusRank(stripe[s].status) <= StatusRank(st) /\ st # stripe[s].status
    PROVE  StripeStep(s) /\ issued' \in 0 .. MaxEvents
<1> DEFINE new == [status |-> st, plan |-> plan, at |-> now]
           e == Body(s, FALSE, st, was, plan)
<1>1. new \in Subscription /\ new.status = st /\ new.plan = plan /\ new.at = now
  BY DEF Subscription, TypeOK
<1>2. /\ e \in Event /\ e.sub = s /\ e.status = st /\ e.plan = plan /\ e.at = now
      /\ e.deleted = FALSE
  BY DEF Event, TypeOK, Body
<1>3. events' = events \cup {e} /\ stripe' = [stripe EXCEPT ![s] = new]
  BY DEF Issue, Becomes
<1>4. stripe[s] # None => stripe[s] \in Subscription
  BY DEF TypeOK
<1>5. stripe[s] # None => Later(stripe[s], new)
  BY <1>1, <1>4 DEF Later, NoLater, Subscription, TypeOK
<1>6. issued' \in 0 .. MaxEvents
  BY IssueType
<1> HIDE DEF e, new
<1>7. \A x \in {e} : /\ x.sub = s /\ x.status = new.status /\ x.plan = new.plan /\ x.at = now
                     /\ x.deleted => x.status = "canceled"
  BY <1>1, <1>2
<1>8. Says(s, new, {e})
  BY <1>1, <1>2, <1>3, <1>5, <1>7 DEF Says
<1> QED BY <1>1, <1>2, <1>6, <1>8 DEF StripeStep

LEMMA SubscribeSays ==
    ASSUME TypeOK, NEW s \in Subs, NEW plan \in Plans, Subscribe(s, plan)
    PROVE  StripeStep(s) /\ issued' \in 0 .. MaxEvents
<1>1. PICK st \in {"incomplete", "active"} :
          Becomes(s, st, plan) /\ Issue({Body(s, FALSE, st, "same", plan)})
  BY DEF Subscribe
<1>2. st \in Statuses /\ stripe[s] = None
  BY DEF Statuses, Subscribe
<1> QED BY <1>1, <1>2, NewsSays

LEMMA MoveSays ==
    ASSUME TypeOK, NEW s \in Subs, stripe[s] # None => stripe[s].at <= now, Move(s)
    PROVE  StripeStep(s) /\ issued' \in 0 .. MaxEvents
<1>1. stripe[s] \in Subscription /\ stripe[s].at <= now
  BY DEF TypeOK, Move
<1>2. stripe[s].status \in Statuses /\ stripe[s].plan \in Plans
  BY <1>1 DEF Subscription
<1>3. PICK st \in Moves(stripe[s].status) \ {"canceled"} :
          /\ stripe[s].at < now \/ StatusRank(stripe[s].status) <= StatusRank(st)
          /\ Becomes(s, st, stripe[s].plan)
          /\ Issue({Body(s, FALSE, st, stripe[s].status, stripe[s].plan)})
  BY DEF Move
<1>4. st \in Statuses /\ st # stripe[s].status /\ st # "incomplete" /\ stripe[s].status # "canceled"
  BY <1>2, MovesAreStatuses
<1>5. st # "canceled" /\ stripe[s].status \in Statuses \cup {"same"}
  BY <1>2
<1> HIDE DEF Move
<1> QED BY <1>1, <1>2, <1>3, <1>4, <1>5, NewsSays

LEMMA ChangePlanSays ==
    ASSUME TypeOK, NEW s \in Subs, NEW plan \in Plans, ChangePlan(s, plan)
    PROVE  StripeStep(s) /\ issued' \in 0 .. MaxEvents
<1>1. stripe[s] \in Subscription /\ now \in Int
  BY DEF TypeOK, ChangePlan
<1>2. stripe[s].at \in Int
  BY <1>1 DEF Subscription
<1>3. /\ Issue({Body(s, FALSE, "active", "same", plan)}) /\ Becomes(s, "active", plan)
      /\ stripe[s].at < now /\ stripe[s].at <= now /\ stripe[s].status = "active" /\ "active" \in Statuses
  BY <1>1, <1>2 DEF ChangePlan, Statuses
<1> QED BY <1>1, <1>3, NewsSays

LEMMA EndSays ==
    ASSUME TypeOK, NEW s \in Subs, NEW updateToo \in BOOLEAN, End(s, updateToo),
           stripe[s] # None, stripe[s].status # "canceled"
    PROVE  StripeStep(s) /\ issued' \in 0 .. MaxEvents
<1>1. stripe[s] \in Subscription /\ now \in 0 .. MaxTime
  BY DEF TypeOK
<1> DEFINE new == [status |-> "canceled", plan |-> stripe[s].plan, at |-> now]
           e(d) == Body(s, d, "canceled", stripe[s].status, stripe[s].plan)
           N == {e(TRUE)} \cup IF updateToo THEN {e(FALSE)} ELSE {}
<1>2. new \in Subscription /\ new.status = "canceled" /\ new.plan = stripe[s].plan /\ new.at = now
  BY <1>1 DEF Subscription, Statuses
<1>3. \A d \in BOOLEAN : /\ e(d) \in Event /\ e(d).sub = s /\ e(d).status = "canceled"
                          /\ e(d).plan = stripe[s].plan /\ e(d).at = now /\ e(d).deleted = d
  BY <1>1 DEF Subscription, Event, Statuses, Body
<1>4. stripe' = [stripe EXCEPT ![s] = new]
  BY DEF End, Becomes
<1>5. Issue(N) /\ events' = events \cup N
  BY DEF End, Issue
<1> HIDE DEF e, new
<1>6. /\ N \in SUBSET Event /\ N # {} /\ e(TRUE) \in N /\ e(TRUE).deleted
      /\ \A x \in N : x.sub = s /\ x.status = "canceled" /\ x.plan = stripe[s].plan /\ x.at = now
  BY <1>3
<1>7. N = {e(TRUE)} \/ N = {e(TRUE), e(FALSE)}
  OBVIOUS
<1> HIDE DEF N
<1>8. Says(s, new, N)
  BY <1>2, <1>4, <1>5, <1>6 DEF Says
<1>9. issued' \in 0 .. MaxEvents
  BY <1>5, <1>7, IssueType
<1> QED BY <1>2, <1>6, <1>8, <1>9 DEF StripeStep

LEMMA EditSays ==
    ASSUME TypeOK, NEW s \in Subs, Edit(s)
    PROVE  StripeStep(s) /\ issued' \in 0 .. MaxEvents
<1>1. stripe[s] \in Subscription /\ now \in 0 .. MaxTime /\ stripe[s].status = "canceled"
  BY DEF TypeOK, Edit
<1> DEFINE e == Body(s, FALSE, "canceled", "same", stripe[s].plan)
<1>2. /\ e \in Event /\ e.sub = s /\ e.status = "canceled" /\ e.plan = stripe[s].plan /\ e.at = now
      /\ e.deleted = FALSE
  BY <1>1 DEF Subscription, Event, Statuses, Body
<1>3. events' = events \cup {e} /\ stripe' = [stripe EXCEPT ![s] = stripe[s]]
  BY DEF Edit, Issue, TypeOK
<1>4. issued' \in 0 .. MaxEvents
  BY IssueType DEF Edit
<1> HIDE DEF e
<1>5. \A x \in {e} : /\ x.sub = s /\ x.status = stripe[s].status /\ x.plan = stripe[s].plan /\ x.at = now
                     /\ x.deleted => x.status = "canceled"
  BY <1>1, <1>2
<1>6. Says(s, stripe[s], {e})
  BY <1>1, <1>2, <1>3, <1>5 DEF Says
<1> QED BY <1>1, <1>2, <1>4, <1>6 DEF StripeStep
-----------------------------------------------------------------------------
(* What the recomputes write *)

SubsPlans(S) == {mirror[s].plan : s \in S}

LEMMA PlansOfSubs ==
    ASSUME TypeOK, NEW S, S \subseteq Subs, \A s \in S : mirror[s] # None
    PROVE  SubsPlans(S) \subseteq Plans /\ IsFiniteSet(SubsPlans(S))
<1> DEFINE f == [s \in Subs |-> mirror[s].plan]
<1>1. IsFiniteSet(S)
  BY FS_Subset
<1>2. \A y \in SubsPlans(S) : \E s \in S : y = f[s]
  BY DEF SubsPlans
<1>3. \A s \in S : mirror[s].plan \in Plans
  BY DEF TypeOK, Row
<1>4. SubsPlans(S) \subseteq Plans
  BY <1>3 DEF SubsPlans
<1> HIDE DEF f
<1> QED BY <1>1, <1>2, <1>4, FiniteImage

LEMMA PlansOfTerms ==
    ASSUME TypeOK, NEW t
    PROVE  TermPlans(t) \subseteq Plans /\ IsFiniteSet(TermPlans(t))
<1> DEFINE f == [o \in Orders |-> terms[o].plan]
           S == {o \in Orders : TermHolds(terms[o], t)}
<1>1. IsFiniteSet(S)
  BY FS_Subset
<1>2. \A y \in TermPlans(t) : \E o \in S : y = f[o]
  BY DEF TermPlans
<1>3. \A o \in S : terms[o].plan \in Plans
  BY DEF TypeOK, CryptoTerm, TermHolds
<1>4. TermPlans(t) \subseteq Plans
  BY <1>3 DEF TermPlans
<1> HIDE DEF f, S
<1> QED BY <1>1, <1>2, <1>4, FiniteImage

LEMMA MaxOfPlans ==
    ASSUME NEW S, S \subseteq Plans \cup {0}, IsFiniteSet(S), S # {}
    PROVE  Max(S) \in S /\ Max(S) \in Int /\ \A x \in S : x <= Max(S)
<1>1. S \subseteq Int
  OBVIOUS
<1> QED BY <1>1, MaxIsGreatest

LEMMA FiniteWithOne ==
    ASSUME NEW S, IsFiniteSet(S), NEW x PROVE IsFiniteSet(S \cup {x})
BY FS_AddElement

\* What remains is the free plan, the plan of a term or, if subscriptions grant,
\* at least that of one of them.
LEMMA RemainingIsHeld ==
    ASSUME TypeOK, NEW at, NEW best \in BestRemaining(at)
    PROVE  LET remaining == {s \in Subs : StillGrants(s, at)}
               held == TermPlans(JudgedAt(at)) \cup SubsPlans(remaining)
           IN /\ best \in held \cup {0} /\ best \in Plans \cup {0}
              /\ held # {} => best # 0
<1> DEFINE remaining == {s \in Subs : StillGrants(s, at)}
           floor == TermPlans(JudgedAt(at)) \cup {0}
           newest == {s \in remaining : \A x \in remaining : mirror[x].at <= mirror[s].at}
<1>1. \A s \in remaining : mirror[s] # None /\ mirror[s].plan \in Plans /\ mirror[s].at \in Int
  BY DEF StillGrants, TypeOK, Row
<1>2. /\ TermPlans(JudgedAt(at)) \subseteq Plans
      /\ floor \subseteq Plans \cup {0} /\ IsFiniteSet(floor) /\ 0 \in floor
  BY PlansOfTerms, FiniteWithOne
<1>3. \A x \in Plans : x \in Int /\ x > 0
  OBVIOUS
<1>4. CASE remaining = {}
  <2>1. best = Max(floor)
    BY <1>4 DEF BestRemaining
  <2>2. best \in floor /\ \A x \in floor : x <= best
    BY <1>2, <2>1, MaxOfPlans
  <2>3. SubsPlans(remaining) = {}
    BY <1>4 DEF SubsPlans
  <2>4. 0 \notin TermPlans(JudgedAt(at))
    BY <1>2, <1>3
  <2>5. /\ best \in TermPlans(JudgedAt(at)) \cup SubsPlans(remaining) \cup {0} /\ best \in Plans \cup {0}
        /\ TermPlans(JudgedAt(at)) \cup SubsPlans(remaining) # {} => best # 0
    <3>1. ASSUME NEW x \in TermPlans(JudgedAt(at)) PROVE best # 0
      <4>1. x \in floor /\ x \in Plans
        BY <1>2
      <4>2. x <= best /\ x > 0 /\ x \in Int /\ best \in Int
        BY <1>2, <1>3, <2>2, <4>1
      <4> QED BY <4>2
    <3> HIDE DEF remaining
    <3> QED BY <1>2, <2>2, <2>3, <3>1
  <2> QED BY <2>5
<1>5. CASE remaining # {}
  <2>1. PICK s \in newest : best = Max(floor \cup {mirror[s].plan})
    BY <1>5 DEF BestRemaining
  <2>2. s \in remaining /\ mirror[s].plan \in Plans
    BY <1>1, <2>1
  <2> DEFINE S == floor \cup {mirror[s].plan}
  <2>3. S \subseteq Plans \cup {0} /\ IsFiniteSet(S) /\ S # {} /\ mirror[s].plan \in S
    BY <1>2, <2>2, FiniteWithOne
  <2>4. best \in S /\ mirror[s].plan <= best
    <3> HIDE DEF S, floor, newest
    <3>1. best = Max(S)
      BY <2>1 DEF S
    <3> QED BY <2>3, <3>1, MaxOfPlans
  <2>5. mirror[s].plan \in SubsPlans(remaining)
    BY <2>2 DEF SubsPlans
  <2>6. best # 0 /\ best \in Plans
    <3>1. best \in Plans \cup {0} /\ best \in Int /\ mirror[s].plan \in Int /\ mirror[s].plan > 0
      <4>1. mirror[s].plan \in Int /\ mirror[s].plan > 0
        BY <1>3, <2>2, Zenon
      <4>2. S \subseteq Plans \cup {0} /\ best \in S
        BY <2>3, <2>4
      <4> HIDE DEF S
      <4> QED BY <4>1, <4>2
    <3> QED BY <2>4, <3>1
  <2>7. best \in TermPlans(JudgedAt(at)) \cup SubsPlans(remaining)
    BY <2>4, <2>5, <2>6
  <2> QED BY <2>6, <2>7
<1> HIDE DEF remaining, floor, newest
<1> QED BY <1>4, <1>5 DEF remaining

\* Best of what is active or held by a term, if anything is.
LEMMA ActiveIsHeld ==
    ASSUME TypeOK, NEW at
    PROVE  LET active == {s \in Subs : mirror[s] # None /\ mirror[s].status = "active"}
               held == SubsPlans(active) \cup TermPlans(JudgedAt(at))
           IN IF held = {} THEN BestActive(at) = tier
              ELSE BestActive(at) \in held /\ BestActive(at) \in Plans
<1> DEFINE active == {s \in Subs : mirror[s] # None /\ mirror[s].status = "active"}
           held == SubsPlans(active) \cup TermPlans(JudgedAt(at))
<1>1. held \subseteq Plans /\ IsFiniteSet(held)
  BY PlansOfSubs, PlansOfTerms, FS_Union
<1>2. BestActive(at) = IF held = {} THEN tier ELSE Max(held)
  BY DEF BestActive, SubsPlans
<1> HIDE DEF held
<1>3. held # {} => Max(held) \in held
  BY <1>1, MaxOfPlans
<1>4. IF held = {} THEN BestActive(at) = tier ELSE BestActive(at) \in held /\ BestActive(at) \in Plans
  BY <1>1, <1>2, <1>3
<1> QED BY <1>4 DEF held

\* The end of the last term of a plan, or the payment.
LEMMA StackedIsLast ==
    ASSUME TypeOK, NEW plan, NEW paidAt \in Int
    PROVE  LET S == {o \in Orders : terms[o] # None /\ terms[o].plan = plan}
           IN /\ StackedAt(plan, paidAt) \in Int /\ StackedAt(plan, paidAt) >= paidAt
              /\ \A o \in S : StackedAt(plan, paidAt) >= terms[o].ends
              /\ StackedAt(plan, paidAt) = paidAt \/ \E o \in S : StackedAt(plan, paidAt) = terms[o].ends
<1> DEFINE S == {o \in Orders : terms[o] # None /\ terms[o].plan = plan}
           f == [o \in Orders |-> terms[o].ends]
           T == {paidAt} \cup {terms[o].ends : o \in S}
           U == {terms[o].ends : o \in S}
<1>1. IsFiniteSet(S) /\ \A y \in U : \E o \in S : y = f[o]
  BY FS_Subset
<1>2. IsFiniteSet(U)
  <2> HIDE DEF f, S, U
  <2> QED BY <1>1, FiniteImage
<1>3. IsFiniteSet(T)
  <2>1. T = U \cup {paidAt}
    OBVIOUS
  <2> HIDE DEF U, T
  <2> QED BY <1>2, <2>1, FiniteWithOne
<1>4. T \subseteq Int /\ T # {}
  BY DEF TypeOK, CryptoTerm
<1>5. Max(T) \in T /\ \A y \in T : y <= Max(T)
  <2> HIDE DEF T
  <2> QED BY <1>3, <1>4, MaxIsGreatest
<1>6. StackedAt(plan, paidAt) = Max(T)
  BY DEF StackedAt
<1>7. Max(T) \in Int /\ Max(T) >= paidAt /\ \A o \in S : Max(T) >= terms[o].ends
  BY <1>4, <1>5
<1>8. Max(T) = paidAt \/ \E o \in S : Max(T) = terms[o].ends
  BY <1>5
<1> QED BY <1>6, <1>7, <1>8
-----------------------------------------------------------------------------
(* The history *)

Dated(x) == x.at \in Int /\ x.status \in Statuses

LEMMA Order ==
    ASSUME NEW x, NEW y, Dated(x), Dated(y)
    PROVE  /\ NoLater(x, x)
           /\ NoLater(x, y) \/ NoLater(y, x)
           /\ NoLater(x, y) /\ NoLater(y, x) => x.at = y.at /\ x.status = y.status
           /\ NoLater(x, y) => x.at <= y.at
           /\ x.at <= y.at /\ y.status = "canceled" => NoLater(x, y)
           /\ \A z : Dated(z) /\ NoLater(x, y) /\ NoLater(y, z) => NoLater(x, z)
<1> DEFINE r(z) == StatusRank(z.status)
<1>1. r(x) \in Int /\ r(y) \in Int /\ x.at \in Int /\ y.at \in Int
  BY Ranks DEF Dated
<1>2. r(x) = r(y) => x.status = y.status
  BY Ranks DEF Dated
<1>3. y.status = "canceled" => r(x) <= r(y)
  BY <1>1, Ranks DEF Dated
<1>4. \A z : Dated(z) => z.at \in Int /\ r(z) \in Int
  BY Ranks DEF Dated
<1>5. \A z : NoLater(x, z) <=> x.at < z.at \/ (x.at = z.at /\ r(x) <= r(z))
  BY DEF NoLater
<1>6. \A z : NoLater(y, z) <=> y.at < z.at \/ (y.at = z.at /\ r(y) <= r(z))
  BY DEF NoLater
<1> HIDE DEF r
<1>7. ASSUME NEW z, Dated(z), NoLater(x, y), NoLater(y, z) PROVE NoLater(x, z)
  BY <1>1, <1>4, <1>5, <1>6, <1>7
<1> QED BY <1>1, <1>2, <1>3, <1>5, <1>6, <1>7

LEMMA FactsAre ==
    ASSUME TypeOK, NEW s \in Subs, NEW x
    PROVE  /\ x \in Facts(s) <=> \/ x \in events /\ x.sub = s
                                 \/ \E w \in Workers : /\ work[w].event # None /\ work[w].event.sub = s
                                                       /\ x = work[w].event
                                 \/ mirror[s] # None /\ x = mirror[s]
           /\ x \in Facts(s) => Dated(x) /\ x.at \in Nat /\ x.plan \in Plans
<1>1. x \in Facts(s) <=> \/ x \in events /\ x.sub = s
                         \/ \E w \in Workers : /\ work[w].event # None /\ work[w].event.sub = s
                                               /\ x = work[w].event
                         \/ mirror[s] # None /\ x = mirror[s]
  BY DEF Facts
<1>2. \A e \in Event : Dated(e) /\ e.at \in Nat /\ e.plan \in Plans
  BY DEF Event, Dated
<1>3. \A r \in Row : Dated(r) /\ r.at \in Nat /\ r.plan \in Plans
  BY DEF Row, Dated
<1>4. \A w \in Workers : work[w].event # None => work[w].event \in Event
  BY DEF TypeOK, Work
<1>5. mirror[s] # None => mirror[s] \in Row
  BY DEF TypeOK
<1>6. events \subseteq Event
  BY DEF TypeOK
<1> HIDE DEF Facts
<1> QED BY <1>1, <1>2, <1>3, <1>4, <1>5, <1>6

LEMMA StripeDated == ASSUME TypeOK, NEW s \in Subs, stripe[s] # None
                     PROVE  Dated(stripe[s]) /\ stripe[s].plan \in Plans /\ stripe[s].at \in Nat
BY DEF TypeOK, Subscription, Dated

Twins(x, y) == x.at = y.at /\ x.status = y.status /\ x.plan = y.plan

\* If Stripe says nothing and all that is known was known, the history stands.
LEMMA HistoryKept ==
    ASSUME TypeOK, now' \in Int, History, stripe' = stripe, now <= now',
           \A s \in Subs : \A x \in Facts(s)' : \E y \in Facts(s) : Twins(x, y)
    PROVE  History'
<1> SUFFICES ASSUME NEW s \in Subs
             PROVE  /\ stripe[s] # None => stripe[s].at <= now'
                    /\ \A x \in Facts(s)' : Said(s, x)' /\ \A y \in Facts(s)' : Agree(x, y)
  BY DEF History, Agree, NoLater
<1>1. now \in Int
  BY DEF TypeOK
<1>2. stripe[s] # None => stripe[s].at <= now'
  BY <1>1, StripeDated DEF History
<1>3. ASSUME NEW x, NEW y, Twins(x, y), y.at \in Int, Said(s, y) PROVE Said(s, x)'
  BY <1>1, <1>3 DEF Said, Twins, NoLater
<1>4. ASSUME NEW x, NEW y, NEW u, NEW v, Twins(x, u), Twins(y, v), Agree(u, v) PROVE Agree(x, y)
  BY <1>4 DEF Agree, Twins, NoLater
<1> QED BY <1>2, <1>3, <1>4, FactsAre DEF History, Dated

\* What Stripe says is later than all that is known.
LEMMA SaysKeepsHistory ==
    ASSUME TypeOK, History, NEW s \in Subs, NEW new, NEW N, Says(s, new, N), now' = now,
           \A t \in Subs : \A x \in Facts(t)' : \/ \E y \in Facts(t) : Twins(x, y)
                                                \/ t = s /\ x \in N
    PROVE  History'
<1>1. /\ \A t \in Subs \ {s} : stripe'[t] = stripe[t]
      /\ stripe'[s] = new /\ Dated(new) /\ new # None /\ new.at \in Nat /\ new.plan \in Plans
  BY DEF Says, TypeOK, Subscription, Dated
<1>2. \A t \in Subs : stripe[t] # None => stripe[t].at <= now /\ Dated(stripe[t]) /\ stripe[t].at \in Nat
  BY StripeDated DEF History
<1>3. now \in Nat /\ new.at <= now
  BY <1>1, <1>2 DEF TypeOK, Says
<1>4. \A x \in N : x.at = now /\ x.status = new.status /\ x.plan = new.plan /\ Dated(x)
  BY <1>1, <1>3 DEF Says, Dated
<1>5. \A t \in Subs : \A x \in Facts(t) : Said(t, x) /\ Dated(x) /\ \A y \in Facts(t) : Agree(x, y)
  BY FactsAre DEF History
\* What is known keeps to the new status.
<1>6. ASSUME NEW x \in Facts(s)
      PROVE  /\ Said(s, x)'
             /\ \A y \in N : Agree(x, y) /\ Agree(y, x)
  <2>1. /\ stripe[s] # None /\ x.at <= now /\ Dated(x) /\ x.at \in Int /\ Dated(stripe[s])
        /\ IF x.status = "canceled"
             THEN stripe[s].status = "canceled" /\ x.plan = stripe[s].plan /\ stripe[s].at <= x.at
             ELSE /\ NoLater(x, stripe[s])
                  /\ x.at = stripe[s].at /\ x.status = stripe[s].status => x.plan = stripe[s].plan
    BY <1>2, <1>5 DEF Said, Dated
  <2>2. CASE stripe[s] = new /\ new.status = "canceled"
    <3>1. Said(s, x)'
      BY <1>1, <1>5, <2>2 DEF Said, NoLater
    <3>2. x.status = "canceled" => x.plan = new.plan
      BY <2>1, <2>2
    <3>3. x.status # "canceled" => NoLater(x, [status |-> "canceled", at |-> now])
      BY <1>3, <2>1, Order DEF Dated, Statuses
    <3>4. \A y \in N : Agree(x, y) /\ Agree(y, x)
      <4> SUFFICES ASSUME NEW y \in N PROVE Agree(x, y) /\ Agree(y, x)
        OBVIOUS
      <4>1. y.status = "canceled" /\ y.plan = new.plan /\ y.at = now
        BY <1>4, <2>2
      <4> QED BY <3>2, <3>3, <4>1 DEF Agree, NoLater
    <3> QED BY <3>1, <3>4
  <2>3. CASE ~(stripe[s] = new /\ new.status = "canceled")
    <3>1. /\ new.at = now /\ stripe[s].status # "canceled" /\ new.status # "incomplete"
          /\ x.status # "canceled" /\ NoLater(x, stripe[s])
          /\ new.status # "canceled" => Later(stripe[s], new)
      BY <2>1, <2>3 DEF Says
    <3>2. NoLater(x, new) /\ ~(x.at = new.at /\ x.status = new.status)
      <4>1. CASE new.status = "canceled"
        BY <1>1, <2>1, <3>1, <4>1, Order
      <4>2. CASE new.status # "canceled"
        <5>1. NoLater(stripe[s], new) /\ ~(stripe[s].at = new.at /\ stripe[s].status = new.status)
          BY <3>1, <4>2 DEF Later
        <5>2. NoLater(x, new)
          BY <1>1, <2>1, <3>1, <5>1, Order
        <5>3. ASSUME x.at = new.at, x.status = new.status PROVE FALSE
          <6>1. NoLater(new, stripe[s])
            BY <3>1, <5>3 DEF NoLater
          <6> QED BY <1>1, <2>1, <5>1, <6>1, Order
        <5> QED BY <5>2, <5>3
      <4> QED BY <4>1, <4>2
    <3>3. Said(s, x)'
      BY <1>1, <1>3, <2>1, <3>1, <3>2 DEF Said, NoLater
    <3>4. \A y \in N : Agree(x, y) /\ Agree(y, x)
      <4> SUFFICES ASSUME NEW y \in N PROVE Agree(x, y) /\ Agree(y, x)
        OBVIOUS
      <4>1. y.status = new.status /\ y.plan = new.plan /\ y.at = new.at
        BY <1>4, <3>1
      <4> QED BY <3>1, <3>2, <4>1 DEF Agree, NoLater
    <3> QED BY <3>3, <3>4
  <2> QED BY <2>2, <2>3
<1>7. ASSUME NEW x \in N PROVE Said(s, x)' /\ \A y \in N : Agree(x, y)
  <2>1. x.at = now /\ x.status = new.status /\ x.plan = new.plan /\ Dated(x)
    BY <1>4
  <2>2. new.status # "canceled" => new.at = now
    BY DEF Says
  <2>3. Said(s, x)'
    <3>1. StatusRank(new.status) \in Int
      BY <1>1, Ranks DEF Dated
    <3> QED BY <1>1, <1>3, <2>1, <2>2, <3>1 DEF Said, NoLater
  <2>4. \A y \in N : Agree(x, y)
    BY <1>4, <2>1, Order DEF Agree, NoLater
  <2> QED BY <2>3, <2>4
<1>8. ASSUME NEW t \in Subs PROVE stripe'[t] # None => stripe'[t].at <= now
  BY <1>1, <1>2, <1>3
<1>9. ASSUME NEW t \in Subs, NEW x \in Facts(t)' PROVE Said(t, x)' /\ \A y \in Facts(t)' : Agree(x, y)
  <2> DEFINE Known(z) == \E y \in Facts(t) : Twins(z, y)
  <2>1. \A z \in Facts(t)' : Known(z) \/ (t = s /\ z \in N)
    OBVIOUS
  <2>2. ASSUME NEW y, NEW z, Twins(y, z), Said(t, z)' PROVE Said(t, y)'
    BY <2>2 DEF Twins, Said, NoLater
  <2>3. ASSUME NEW y, NEW z, NEW u, NEW v, Twins(y, u), Twins(z, v), Agree(u, v) PROVE Agree(y, z)
    BY <2>3 DEF Agree, Twins, NoLater
  <2>4. \A z \in Facts(t) : Said(t, z)'
    <3>1. CASE t = s
      BY <1>6, <3>1
    <3>2. CASE t # s
      BY <1>1, <1>5, <3>2 DEF Said
    <3> QED BY <3>1, <3>2
  <2>5. Said(t, x)'
    BY <1>7, <2>1, <2>2, <2>4
  <2>6. ASSUME NEW y \in Facts(t)' PROVE Agree(x, y)
    <3>1. \A z : Twins(z, z)
      BY DEF Twins
    <3>2. CASE Known(x) /\ Known(y)
      BY <1>5, <2>3, <3>2
    <3>3. CASE Known(x) /\ t = s /\ y \in N
      BY <1>6, <2>3, <3>1, <3>3
    <3>4. CASE t = s /\ x \in N /\ Known(y)
      BY <1>6, <2>3, <3>1, <3>4
    <3>5. CASE t = s /\ x \in N /\ y \in N
      BY <1>7, <3>5
    <3> QED BY <2>1, <3>2, <3>3, <3>4, <3>5
  <2> QED BY <2>5, <2>6
<1> QED BY <1>8, <1>9 DEF History, Agree, NoLater
-----------------------------------------------------------------------------
(* What is coming, and deliveries *)

\* A row moves on only, and the end of a subscription is final.
Grows ==
    /\ mirror' \in [Subs -> Row \cup {None}]
    /\ \A s \in Subs : mirror[s] # None =>
          /\ mirror'[s] # None /\ NoLater(mirror[s], mirror'[s])
          /\ mirror[s].status = "canceled" => mirror'[s].status = "canceled"

LEMMA RowDated == \A r \in Row : Dated(r)
BY DEF Row, Dated

LEMMA EventDated == \A e \in Event : Dated(e)
BY DEF Event, Dated

LEMMA UnchangedGrows == ASSUME TypeOK, mirror' = mirror PROVE Grows
<1>1. \A s \in Subs : mirror[s] # None => NoLater(mirror[s], mirror[s])
  BY RowDated, Order DEF TypeOK
<1> QED BY <1>1 DEF Grows, TypeOK

Reaches(s, x) == mirror'[s] # None /\ NoLater(x, mirror'[s])

LEMMA ReachedStays ==
    ASSUME TypeOK, Grows, NEW s \in Subs, NEW x, Dated(x), Reached(s, x)
    PROVE  Reaches(s, x)
<1>1. mirror[s] # None /\ mirror'[s] # None /\ Dated(mirror[s]) /\ Dated(mirror'[s])
      /\ NoLater(mirror[s], mirror'[s]) /\ NoLater(x, mirror[s])
  BY RowDated DEF Reached, Grows, TypeOK
<1>2. NoLater(x, mirror'[s])
  BY <1>1, Order
<1> QED BY <1>1, <1>2 DEF Reached, Reaches, NoLater

\* An event is recorded once the row has reached it.
Consumed ==
    \A e \in events : e \in events' \/ (/\ Reaches(e.sub, e)
                                        /\ e.deleted => mirror'[e.sub].status = "canceled")

LEMMA ComingKept ==
    ASSUME TypeOK, Coming, stripe' = stripe, Grows, Consumed
    PROVE  Coming'
<1> SUFFICES ASSUME NEW s \in Subs, stripe[s] # None
             PROVE  /\ Reaches(s, stripe[s]) \/ \E e \in events' : e.sub = s /\ NoLater(stripe[s], e)
                    /\ stripe[s].status = "canceled" =>
                         \/ mirror'[s] # None /\ mirror'[s].status = "canceled"
                         \/ \E e \in events' : e.sub = s /\ e.deleted
  BY DEF Coming, Reached, Reaches, NoLater
<1>1. Dated(stripe[s]) /\ \A e \in events : e \in Event /\ Dated(e)
  BY StripeDated, EventDated DEF TypeOK
<1>2. ASSUME NEW e \in events, e.sub = s, NoLater(stripe[s], e), e \notin events'
      PROVE  Reaches(s, stripe[s])
  <2>1. Reaches(s, e)
    BY <1>2 DEF Consumed, Reaches, NoLater
  <2>2. mirror'[s] # None /\ NoLater(e, mirror'[s]) /\ Dated(mirror'[s])
    BY <2>1, RowDated DEF Reaches, Grows, NoLater
  <2>3. NoLater(stripe[s], mirror'[s])
    BY <1>1, <1>2, <2>2, Order
  <2> QED BY <2>2, <2>3 DEF Reached, Reaches, NoLater
<1>3. ASSUME NEW e \in events, e.sub = s, e.deleted, e \notin events'
      PROVE  mirror'[s] # None /\ mirror'[s].status = "canceled"
  BY <1>3 DEF Consumed, Reaches
<1>4. Reached(s, stripe[s]) => Reaches(s, stripe[s])
  BY <1>1, ReachedStays
<1>5. mirror[s] # None /\ mirror[s].status = "canceled" => mirror'[s] # None /\ mirror'[s].status = "canceled"
  BY DEF Grows
<1> QED BY <1>2, <1>3, <1>4, <1>5 DEF Coming

LEMMA SaysKeepsComing ==
    ASSUME TypeOK, Coming, NEW s \in Subs, NEW new, NEW N, Says(s, new, N), mirror' = mirror
    PROVE  Coming'
<1> SUFFICES ASSUME NEW t \in Subs, stripe'[t] # None
             PROVE  /\ Reached(t, stripe'[t]) \/ \E e \in events' : e.sub = t /\ NoLater(stripe'[t], e)
                    /\ stripe'[t].status = "canceled" =>
                         \/ mirror[t] # None /\ mirror[t].status = "canceled"
                         \/ \E e \in events' : e.sub = t /\ e.deleted
  BY DEF Coming, Reached, NoLater
<1>1. events \subseteq events' /\ N \subseteq events' /\ stripe' = [stripe EXCEPT ![s] = new]
  BY DEF Says
<1>2. CASE stripe'[t] = stripe[t]
  BY <1>1, <1>2 DEF Coming
<1>3. CASE stripe'[t] # stripe[t]
  <2>1. t = s /\ stripe'[t] = new /\ Dated(new)
    BY <1>1, <1>3 DEF TypeOK, Says, Subscription, Dated
  <2>2. new.at = now /\ N # {} /\ (new.status = "canceled" => \E e \in N : e.deleted)
    BY <1>3, <2>1 DEF Says
  <2>3. \A e \in N : e.sub = s /\ e.at = new.at /\ e.status = new.status
    BY <2>2 DEF Says
  <2>4. StatusRank(new.status) \in Int
    BY <2>1, Ranks DEF Dated
  <2>5. \A e \in N : NoLater(new, e)
    BY <2>3, <2>4 DEF NoLater
  <2> QED BY <1>1, <2>1, <2>2, <2>3, <2>5
<1> QED BY <1>2, <1>3

LEMMA DeliveringKept ==
    ASSUME TypeOK, Grows, NEW w \in Workers, Delivering(w), work'[w] = work[w],
           work[w].event \in events => work[w].event \in events' \/ Reaches(work[w].event.sub, work[w].event)
    PROVE  Delivering(w)'
<1>0. work[w].rest \subseteq Subs /\ \A x \in work[w].rest : mirror'[x] # None
  BY DEF Delivering, Grows, TypeOK, Work
<1>1. CASE work[w].step = "idle"
  BY <1>0, <1>1 DEF Delivering
<1>2. CASE work[w].step # "idle"
  <2>1. work[w].event \in Event /\ work[w].event.sub \in Subs /\ Dated(work[w].event)
    BY <1>2, EventDated DEF TypeOK, Work, Delivering, Event
  <2>2. Reached(work[w].event.sub, work[w].event) => Reaches(work[w].event.sub, work[w].event)
    BY <2>1, ReachedStays
  <2>3. \A e : Reaches(e.sub, e) <=> Reached(e.sub, e)'
    BY DEF Reached, Reaches, NoLater
  <2> QED BY <1>0, <1>2, <2>2, <2>3 DEF Delivering
<1> QED BY <1>1, <1>2

\* A delivery goes on to a step that suits its event.
LEMMA DeliveringGoes ==
    ASSUME TypeOK, NEW w \in Workers, Delivering(w), Grows, events \subseteq events', ~Step(w, "idle"),
           work'[w].event = work[w].event, work'[w].step # "idle", work'[w].rest \subseteq Subs,
           \A x \in work'[w].rest : x \in work[w].rest \/ mirror[x] # None,
           LET e == work[w].event IN
              /\ e.deleted => work'[w].step \in {"upsert", "stale", "leave", "record"}
              /\ work'[w].step \notin {"read", "upsert"} => Reached(e.sub, e) \/ Reaches(e.sub, e)
              /\ work'[w].step = "stale" => e.deleted
              /\ work'[w].step \in {"replace", "cancel", "grant"} => e.status = "active"
    PROVE  Delivering(w)'
<1> DEFINE e == work[w].event
<1>1. e \in Event /\ e.sub \in Subs /\ Dated(e) /\ e # None
  BY EventDated DEF TypeOK, Work, Delivering, Event, Step
<1>2. Reached(e.sub, e) => Reaches(e.sub, e)
  BY <1>1, ReachedStays
<1>3. /\ e \in events' \/ Reaches(e.sub, e)
      /\ (e.deleted => e.status = "canceled")
  BY <1>2 DEF Delivering, Step
<1>4. work'[w].event = e
  OBVIOUS
<1>5. \A x : Reaches(x.sub, x) <=> Reached(x.sub, x)'
  BY DEF Reached, Reaches, NoLater
<1>6. \A x \in work'[w].rest : mirror'[x] # None
  BY DEF Delivering, Grows
<1> QED BY <1>1, <1>2, <1>3, <1>4, <1>5, <1>6 DEF Delivering

\* The recency guard is the order.
LEMMA AppliesIs ==
    ASSUME NEW row \in Row \cup {None}, NEW e
    PROVE  Applies(row, e) <=> row = None \/ NoLater(row, e)
BY DEF Applies, NoLater

LEMMA UpsertedRow ==
    ASSUME NEW row \in Row \cup {None}, NEW e \in Event
    PROVE  LET r == Upserted(row, e) IN
           /\ r \in Row /\ r.status = e.status /\ r.plan = e.plan /\ r.at = e.at
           /\ r.ended => row # None /\ row.ended /\ row.status = "past_due" /\ r.status = "past_due" /\ r.since = row.since
           /\ r.status = "past_due" => r.since >= 0 \/ (row # None /\ row.status = "past_due" /\ r.since = row.since)
           /\ row # None /\ row.status = "past_due" /\ r.status = "past_due" => r.since = row.since /\ r.ended = row.ended
           /\ r.created = IF row = None THEN e.at ELSE row.created
<1>1. row # None => row.since \in -1 .. MaxTime /\ row.created \in 0 .. MaxTime /\ row.ended \in BOOLEAN
  BY DEF Row
<1>2. e.at \in 0 .. MaxTime /\ e.status \in Statuses /\ e.plan \in Plans
  BY DEF Event
<1> DEFINE r == Upserted(row, e)
<1>3. /\ r.status = e.status /\ r.plan = e.plan /\ r.at = e.at
      /\ r.created = IF row = None THEN e.at ELSE row.created
      /\ r.since = IF e.status # "past_due" THEN -1
                   ELSE IF row # None /\ row.status = "past_due" THEN row.since ELSE e.at
      /\ r.ended <=> row # None /\ e.status = "past_due" /\ row.status = "past_due" /\ row.ended
  BY DEF Upserted
<1>4. r = [status |-> r.status, plan |-> r.plan, at |-> r.at, created |-> r.created,
           since |-> r.since, ended |-> r.ended]
  BY DEF Upserted
<1>5. r.since \in -1 .. MaxTime /\ r.created \in 0 .. MaxTime /\ r.ended \in BOOLEAN
  <2>1. r.ended \in BOOLEAN
    BY DEF Upserted
  <2> QED BY <1>1, <1>2, <1>3, <2>1
<1> HIDE DEF r
<1>6. r \in Row
  BY <1>2, <1>3, <1>4, <1>5 DEF Row
<1>7. row # None /\ row.status = "past_due" /\ r.status = "past_due" => r.since = row.since /\ r.ended = row.ended
  BY <1>1, <1>3, <1>5
<1>8. r.status = "past_due" => r.since >= 0 \/ (row # None /\ row.status = "past_due" /\ r.since = row.since)
  BY <1>2, <1>3
<1> QED BY <1>3, <1>6, <1>7, <1>8 DEF r

\* The upsert reaches its event.
LEMMA UpsertGrows ==
    ASSUME TypeOK, History, NEW w \in Workers, Delivering(w), UpsertSubscription(w)
    PROVE  LET e == work[w].event IN
           /\ Grows /\ e \in Event /\ e.sub \in Subs /\ Reaches(e.sub, e)
           /\ \A s \in Subs \ {e.sub} : mirror'[s] = mirror[s]
           /\ mirror'[e.sub] = IF Applies(mirror[e.sub], e) THEN Upserted(mirror[e.sub], e) ELSE mirror[e.sub]
<1> DEFINE e == work[w].event
           s == e.sub
           row == mirror[s]
<1>1. e \in Event /\ e # None /\ s \in Subs /\ row \in Row \cup {None} /\ Dated(e)
  BY EventDated DEF TypeOK, Work, Delivering, Event, UpsertSubscription, Step
<1>2. /\ \A t \in Subs \ {s} : mirror'[t] = mirror[t]
      /\ mirror'[s] = IF Applies(row, e) THEN Upserted(row, e) ELSE row
      /\ mirror' \in [Subs -> Row \cup {None}]
  BY <1>1, UpsertedRow DEF UpsertSubscription, TypeOK
<1>3. row # None => Dated(row) /\ NoLater(row, row)
  BY <1>1, RowDated, Order
<1>4. CASE Applies(row, e)
  <2>1. mirror'[s] = Upserted(row, e) /\ mirror'[s] # None
        /\ mirror'[s].at = e.at /\ mirror'[s].status = e.status
    BY <1>1, <1>2, <1>4, UpsertedRow
  <2>2. NoLater(e, mirror'[s]) /\ \A x : NoLater(x, mirror'[s]) <=> NoLater(x, e)
    BY <1>1, <2>1, Order DEF NoLater
  <2>3. row # None => NoLater(row, e)
    BY <1>1, <1>4, AppliesIs
  <2>4. ASSUME row # None, row.status = "canceled" PROVE e.status = "canceled"
    <3>1. row \in Facts(s) /\ e \in Facts(s)
      BY <1>1, <2>4, FactsAre
    <3>2. Said(s, row) /\ Said(s, e)
      BY <1>1, <3>1 DEF History
    <3>3. SUFFICES ASSUME e.status # "canceled" PROVE FALSE
      OBVIOUS
    <3>4. /\ stripe[s] # None /\ stripe[s].status = "canceled" /\ stripe[s].at <= row.at
          /\ NoLater(e, stripe[s]) /\ Dated(stripe[s])
      BY <1>1, <2>4, <3>2, <3>3, StripeDated DEF Said
    <3>5. NoLater(stripe[s], row)
      BY <1>3, <2>4, <3>4, Order
    <3>6. NoLater(e, row) /\ NoLater(row, e)
      BY <1>1, <1>3, <2>3, <2>4, <3>4, <3>5, Order
    <3> QED BY <1>1, <1>3, <2>4, <3>3, <3>6, Order
  <2>5. \A t \in Subs : mirror[t] # None => NoLater(mirror[t], mirror[t])
    BY RowDated, Order DEF TypeOK
  <2>6. Grows
    BY <1>2, <2>1, <2>2, <2>3, <2>4, <2>5 DEF Grows
  <2>7. Reaches(e.sub, e)
    BY <2>1, <2>2 DEF Reached, Reaches, NoLater
  <2> QED BY <1>1, <1>2, <2>6, <2>7
<1>5. CASE ~Applies(row, e)
  <2>1. mirror' = mirror /\ row # None /\ ~NoLater(row, e)
    BY <1>1, <1>5, AppliesIs DEF UpsertSubscription
  <2>2. Grows
    BY <2>1, UnchangedGrows
  <2>3. NoLater(e, row)
    BY <1>1, <1>3, <2>1, Order
  <2>4. Reaches(e.sub, e)
    BY <2>1, <2>3 DEF Reached, Reaches, NoLater
  <2> QED BY <1>1, <1>2, <2>2, <2>4
<1> QED BY <1>4, <1>5
-----------------------------------------------------------------------------
(* Rows *)

LEMMA RowsKept ==
    ASSUME TypeOK, Rows, now <= now', now' \in Int,
           \A s \in Subs : mirror'[s] # None => mirror'[s] = mirror[s] \/ RowIsSound(mirror'[s], now')
    PROVE  Rows'
<1> SUFFICES ASSUME NEW s \in Subs, mirror'[s] # None PROVE RowIsSound(mirror'[s], now')
  BY DEF Rows
<1>1. CASE mirror'[s] = mirror[s]
  <2>1. mirror[s] \in Row /\ RowIsSound(mirror[s], now) /\ now \in Int
    BY <1>1 DEF Rows, TypeOK
  <2>2. mirror[s].since \in Int /\ Grace \in Nat
    BY <2>1 DEF Row
  <2> QED BY <1>1, <2>1, <2>2 DEF RowIsSound
<1> QED BY <1>1

LEMMA UpsertKeepsRows ==
    ASSUME TypeOK, History, Rows, NEW w \in Workers, Delivering(w), UpsertSubscription(w)
    PROVE  Rows'
<1> DEFINE e == work[w].event
           s == e.sub
           row == mirror[s]
<1>1. /\ e \in Event /\ s \in Subs /\ \A t \in Subs \ {s} : mirror'[t] = mirror[t]
      /\ mirror'[s] = IF Applies(row, e) THEN Upserted(row, e) ELSE row
  BY UpsertGrows
<1>2. now' = now /\ now \in Int
  BY DEF UpsertSubscription, TypeOK
<1>3. CASE Applies(row, e)
  <2> DEFINE r == Upserted(row, e)
  <2>1. /\ row \in Row \cup {None}
        /\ row # None => RowIsSound(row, now)
    BY <1>1 DEF TypeOK, Rows
  <2>2. /\ r.ended => row # None /\ row.ended /\ row.status = "past_due" /\ r.status = "past_due" /\ r.since = row.since
        /\ r.status = "past_due" => r.since >= 0 \/ (row # None /\ row.status = "past_due" /\ r.since = row.since)
    BY <1>1, <2>1, UpsertedRow
  <2> HIDE DEF r, e, s, row
  <2>3. RowIsSound(r, now)
    BY <2>1, <2>2 DEF RowIsSound
  <2>4. RowIsSound(r, now')
    BY <1>2, <2>3
  <2>5. mirror'[s] = r /\ \A t \in Subs \ {s} : mirror'[t] = mirror[t]
    BY <1>1, <1>3 DEF r
  <2>6. \A t \in Subs : mirror'[t] # None => mirror'[t] = mirror[t] \/ RowIsSound(mirror'[t], now')
    BY <2>4, <2>5
  <2>7. now <= now' /\ now' \in Int
    BY <1>2
  <2> QED BY <2>6, <2>7, RowsKept
<1>4. CASE ~Applies(row, e)
  BY <1>1, <1>2, <1>4, RowsKept
<1> QED BY <1>3, <1>4

LEMMA MarkKeepsRows ==
    ASSUME TypeOK, Rows, Sweeps, NEW j \in Jobs, Mark(j)
    PROVE  Rows' /\ Grows
<1> DEFINE ids == Marked(sweep[j].ids, sweep[j].asOf)
<1>1. /\ now' = now /\ now \in Int /\ Grace \in Nat
      /\ sweep[j].asOf <= now /\ sweep[j].asOf \in Int
  BY DEF Mark, TypeOK, Sweeps, Job
<1>2. mirror' = IF j # "grace" THEN mirror
                ELSE [s \in Subs |-> IF s \in ids THEN [mirror[s] EXCEPT !.ended = TRUE] ELSE mirror[s]]
  BY DEF Mark
<1>3. \A s \in ids : /\ s \in Subs /\ mirror[s] # None /\ mirror[s].status = "past_due"
                     /\ mirror[s].since <= now - Grace /\ mirror[s] \in Row
  <2>1. \A s \in ids : /\ s \in Subs /\ mirror[s] # None /\ mirror[s].status = "past_due"
                       /\ mirror[s].since <= sweep[j].asOf - Grace
    BY DEF Marked, GraceEnded
  <2>2. \A s \in ids : mirror[s] \in Row /\ mirror[s].since \in Int
    BY <2>1 DEF TypeOK, Row
  <2> HIDE DEF ids
  <2> QED BY <1>1, <2>1, <2>2
<1>4. CASE j # "grace"
  BY <1>1, <1>2, <1>4, RowsKept, UnchangedGrows
<1>5. CASE j = "grace"
  <2> HIDE DEF ids
  <2>1. ASSUME NEW s \in ids
        PROVE  /\ mirror'[s] \in Row /\ mirror'[s] # None /\ mirror'[s].status = mirror[s].status
               /\ mirror'[s].since = mirror[s].since /\ mirror'[s].at = mirror[s].at
    <3>1. mirror'[s] = [mirror[s] EXCEPT !.ended = TRUE] /\ mirror[s] \in Row
      BY <1>2, <1>3, <1>5
    <3>2. \A r \in Row : LET q == [r EXCEPT !.ended = TRUE] IN
            q \in Row /\ q.status = r.status /\ q.since = r.since /\ q.at = r.at
      BY DEF Row
    <3>3. mirror'[s] \in Row => mirror'[s] # None
      OBVIOUS
    <3> QED BY <3>1, <3>2, <3>3
  <2>2. \A s \in Subs \ ids : mirror'[s] = mirror[s]
    BY <1>2, <1>5
  <2>3. ASSUME NEW s \in ids PROVE RowIsSound(mirror'[s], now')
    <3>1. RowIsSound(mirror[s], now) /\ mirror[s].status = "past_due" /\ mirror[s].since <= now - Grace
      BY <1>3 DEF Rows
    <3> QED BY <1>1, <2>1, <3>1 DEF RowIsSound
  <2>4. Rows'
    BY <1>1, <2>2, <2>3, RowsKept
  <2>5. \A s \in Subs : mirror[s] # None => NoLater(mirror[s], mirror[s])
    BY RowDated, Order DEF TypeOK
  <2>6. mirror' \in [Subs -> Row \cup {None}]
    <3>1. \A s \in Subs : mirror'[s] \in Row \cup {None}
      BY <2>1, <2>2 DEF TypeOK
    <3>2. DOMAIN mirror' = Subs /\ mirror' = [s \in Subs |-> mirror'[s]]
      BY <1>2, <1>5
    <3> QED BY <3>1, <3>2
  <2>7. Grows
    BY <1>3, <2>1, <2>2, <2>5, <2>6 DEF Grows, NoLater
  <2> QED BY <2>4, <2>7
<1> QED BY <1>4, <1>5

-----------------------------------------------------------------------------
(* Terms *)

LEMMA TermsTyped ==
    ASSUME TypeOK, NEW o \in Orders, terms[o] # None
    PROVE  /\ terms[o] \in CryptoTerm /\ terms[o].starts \in Int /\ terms[o].ends \in Int
           /\ terms[o].done \in BOOLEAN /\ terms[o].refunded \in BOOLEAN /\ terms[o].plan \in Plans
BY DEF TypeOK, CryptoTerm

LEMMA TickKeepsTerms ==
    ASSUME TypeOK, Terms, now' = now + 1, terms' = terms
    PROVE  Terms'
<1>1. now \in Int
  BY DEF TypeOK
<1> SUFFICES ASSUME NEW o \in Orders, terms[o] # None
             PROVE  /\ TermIsSound(terms[o], now') /\ Continues(o)'
                    /\ \A x \in Orders \ {o} : terms[x] # None => Apart(terms[o], terms[x])
  BY DEF Terms, Apart
<1>2. TermIsSound(terms[o], now')
  BY <1>1, TermsTyped DEF Terms, TermIsSound
<1>3. Continues(o)'
  BY <1>1, TermsTyped DEF Terms, Continues
<1> QED BY <1>2, <1>3 DEF Terms

\* A new term after all of its plan, or an empty refunded one.
LEMMA NewTermKeepsTerms ==
    ASSUME TypeOK, Terms, NEW o \in Orders, terms[o] = None, now' = now, NEW t \in CryptoTerm,
           t # None, terms' = [terms EXCEPT ![o] = t],
           TermIsSound(t, now),
           t.starts > now => \E x \in Orders : terms[x] # None /\ terms[x].plan = t.plan /\ terms[x].ends = t.starts,
           \/ \A x \in Orders : terms[x] # None /\ terms[x].plan = t.plan => terms[x].ends <= t.starts
           \/ t.refunded /\ t.starts = t.ends
    PROVE  Terms'
<1>1. terms'[o] = t /\ \A x \in Orders \ {o} : terms'[x] = terms[x]
  BY DEF TypeOK
<1> SUFFICES ASSUME NEW a \in Orders, terms'[a] # None
             PROVE  /\ TermIsSound(terms'[a], now) /\ Continues(a)'
                    /\ \A b \in Orders \ {a} : terms'[b] # None => Apart(terms'[a], terms'[b])
  BY DEF Terms, Apart
<1>2. TermIsSound(terms'[a], now)
  BY <1>1 DEF Terms
<1>3. Continues(a)'
  <2>1. terms'[a].starts > now =>
           \E x \in Orders : terms[x] # None /\ terms[x].plan = terms'[a].plan /\ terms[x].ends = terms'[a].starts
    BY <1>1 DEF Terms, Continues
  <2>2. \A x \in Orders : terms[x] # None => terms'[x] = terms[x]
    BY <1>1
  <2> QED BY <2>1, <2>2 DEF Continues
<1>4. ASSUME NEW b \in Orders \ {a}, terms'[b] # None PROVE Apart(terms'[a], terms'[b])
  <2>1. CASE a = o
    BY <1>1, <1>4, <2>1, TermsTyped DEF Apart
  <2>2. CASE b = o
    BY <1>1, <1>4, <2>2, TermsTyped DEF Apart
  <2>3. CASE a # o /\ b # o
    BY <1>1, <1>4, <2>3 DEF Terms
  <2> QED BY <2>1, <2>2, <2>3
<1> QED BY <1>2, <1>3, <1>4

LEMMA ActivateKeepsTerms ==
    ASSUME TypeOK, Terms, NEW o \in Orders, NEW plan \in Plans, NEW paidAt \in 0 .. MaxTime,
           Activate(o, plan, paidAt)
    PROVE  Terms' /\ terms' \in [Orders -> CryptoTerm \cup {None}]
           /\ terms[o] = None /\ \E t \in CryptoTerm : /\ terms' = [terms EXCEPT ![o] = t]
                                                      /\ t.plan = plan /\ t.ends = t.starts + Term
                                                      /\ ~t.done /\ ~t.refunded
<1> DEFINE starts == StackedAt(plan, paidAt)
           t == [plan |-> plan, starts |-> starts, ends |-> starts + Term, done |-> FALSE, refunded |-> FALSE]
           S == {x \in Orders : terms[x] # None /\ terms[x].plan = plan}
<1>1. /\ starts \in Int /\ starts >= paidAt /\ \A x \in S : starts >= terms[x].ends
      /\ starts = paidAt \/ \E x \in S : starts = terms[x].ends
  BY StackedIsLast
<1>2. terms[o] = None /\ paidAt <= now /\ now' = now /\ terms' = [terms EXCEPT ![o] = t] /\ now \in Int
  BY DEF Activate, TypeOK
<1> HIDE DEF starts
<1>3. t \in CryptoTerm /\ t # None /\ Term \in Nat
  <2>1. t \in CryptoTerm
    BY <1>1 DEF CryptoTerm
  <2> QED BY <2>1
<1>4. /\ t.plan = plan /\ t.starts = starts /\ t.ends = starts + Term /\ t.refunded = FALSE /\ t.done = FALSE
  OBVIOUS
<1> HIDE DEF t
<1>5. TermIsSound(t, now)
  BY <1>1, <1>3, <1>4 DEF TermIsSound
<1>6. t.starts > now => \E x \in Orders : terms[x] # None /\ terms[x].plan = t.plan /\ terms[x].ends = t.starts
  BY <1>1, <1>2, <1>4
<1>7. \A x \in Orders : terms[x] # None /\ terms[x].plan = t.plan => terms[x].ends <= t.starts
  BY <1>1, <1>4, TermsTyped
<1>8. Terms'
  BY <1>2, <1>3, <1>5, <1>6, <1>7, NewTermKeepsTerms
<1>9. terms' \in [Orders -> CryptoTerm \cup {None}]
  BY <1>2, <1>3 DEF TypeOK
<1> QED BY <1>2, <1>3, <1>4, <1>8, <1>9

LEMMA RefundFirstKeepsTerms ==
    ASSUME TypeOK, Terms, NEW o \in Orders, NEW plan \in Plans, RefundFirst(o, plan)
    PROVE  Terms' /\ terms' \in [Orders -> CryptoTerm \cup {None}]
           /\ terms[o] = None /\ \E t \in CryptoTerm : /\ terms' = [terms EXCEPT ![o] = t]
                                                      /\ t.starts = now /\ t.ends = now /\ t.done
<1> DEFINE t == [plan |-> plan, starts |-> now, ends |-> now, done |-> TRUE, refunded |-> TRUE]
<1>1. terms[o] = None /\ now' = now /\ terms' = [terms EXCEPT ![o] = t] /\ now \in Int
  BY DEF RefundFirst, TypeOK
<1>2. t \in CryptoTerm /\ t # None
  <2>1. t \in CryptoTerm
    BY <1>1 DEF CryptoTerm
  <2> QED BY <2>1
<1>3. t.starts = now /\ t.ends = now /\ t.refunded /\ t.done
  OBVIOUS
<1> HIDE DEF t
<1>4. TermIsSound(t, now)
  BY <1>1, <1>3 DEF TermIsSound
<1>5. ~(t.starts > now)
  BY <1>1, <1>3
<1>6. Terms'
  BY <1>1, <1>2, <1>3, <1>4, <1>5, NewTermKeepsTerms
<1>7. terms' \in [Orders -> CryptoTerm \cup {None}]
  BY <1>1, <1>2 DEF TypeOK
<1> QED BY <1>1, <1>2, <1>3, <1>6, <1>7
-----------------------------------------------------------------------------
(* A refund *)

\* When what is left of term o begins, and how much that is.
LeftFrom(o) == IF terms[o].starts >= now THEN terms[o].starts ELSE now
Unused(o) == terms[o].ends - LeftFrom(o)
IsLater(x, o) == terms[x] # None /\ terms[x].plan = terms[o].plan /\ terms[x].starts >= terms[o].ends

\* A term under way or ahead was not refunded and has its length.
LEMMA Unspent ==
    ASSUME TypeOK, Terms, NEW o \in Orders, terms[o] # None, terms[o].ends > now
    PROVE  /\ ~terms[o].refunded /\ ~terms[o].done /\ terms[o].ends = terms[o].starts + Term
           /\ terms[o].starts < terms[o].ends
           /\ Unused(o) \in Int /\ Unused(o) > 0 /\ LeftFrom(o) \in Int /\ LeftFrom(o) >= now
           /\ terms[o].starts <= LeftFrom(o)
<1>1. TermIsSound(terms[o], now) /\ now \in Int /\ terms[o].starts \in Int /\ terms[o].ends \in Int
      /\ terms[o].done \in BOOLEAN /\ terms[o].refunded \in BOOLEAN
  BY TermsTyped DEF Terms, TypeOK
<1>2. Term \in Int /\ Term > 0
  OBVIOUS
<1>3. ~terms[o].refunded /\ ~terms[o].done
  BY <1>1 DEF TermIsSound
<1>4. terms[o].ends = terms[o].starts + Term
  BY <1>1, <1>3 DEF TermIsSound
<1> QED BY <1>1, <1>2, <1>3, <1>4 DEF Unused, LeftFrom

LEMMA RestackedIs ==
    ASSUME TypeOK, Terms, NEW o \in Orders, terms[o] # None, terms[o].ends > now
    PROVE  LET r == Restacked(o, now) IN
           /\ r \in [Orders -> CryptoTerm \cup {None}]
           /\ r[o] # None /\ r[o].plan = terms[o].plan /\ r[o].ends = now /\ r[o].refunded
           /\ r[o].starts = (IF terms[o].starts <= now THEN terms[o].starts ELSE now)
           /\ r[o].done = terms[o].done
           /\ \A x \in Orders \ {o} :
                 IF IsLater(x, o)
                 THEN /\ r[x] # None /\ r[x].plan = terms[x].plan
                      /\ r[x].starts = terms[x].starts - Unused(o) /\ r[x].ends = terms[x].ends - Unused(o)
                      /\ r[x].done = terms[x].done /\ r[x].refunded = terms[x].refunded
                 ELSE r[x] = terms[x]
<1> DEFINE r == Restacked(o, now)
<1>1. /\ now \in Int /\ terms[o] \in CryptoTerm /\ terms[o].starts \in Int /\ terms[o].ends \in Int
      /\ Unused(o) \in Int
  BY TermsTyped, Unspent DEF TypeOK
<1>2. /\ Max({terms[o].starts, now}) = LeftFrom(o)
      /\ Min({terms[o].starts, now}) = IF terms[o].starts <= now THEN terms[o].starts ELSE now
  BY <1>1, MaxOfTwo, MinOfTwo DEF LeftFrom
<1> DEFINE first == IF terms[o].starts <= now THEN terms[o].starts ELSE now
           ended == [terms[o] EXCEPT !.starts = first, !.ends = now, !.refunded = TRUE]
           moved(x) == [terms[x] EXCEPT !.starts = @ - Unused(o), !.ends = @ - Unused(o)]
<1>3. r = [x \in Orders |-> IF x = o THEN ended ELSE IF IsLater(x, o) THEN moved(x) ELSE terms[x]]
  BY <1>2, Zenon DEF Restacked, Unused, IsLater
<1>4. /\ ended \in CryptoTerm /\ ended.plan = terms[o].plan /\ ended.ends = now /\ ended.refunded
      /\ ended.starts = first /\ ended.done = terms[o].done
  BY <1>1 DEF CryptoTerm
<1>5. ASSUME NEW x \in Orders, IsLater(x, o)
      PROVE  /\ moved(x) \in CryptoTerm /\ moved(x).plan = terms[x].plan
             /\ moved(x).starts = terms[x].starts - Unused(o) /\ moved(x).ends = terms[x].ends - Unused(o)
             /\ moved(x).done = terms[x].done /\ moved(x).refunded = terms[x].refunded
  <2>1. terms[x] \in CryptoTerm
    BY <1>5, TermsTyped DEF IsLater
  <2> DEFINE p == terms[x].starts - Unused(o)
             q == terms[x].ends - Unused(o)
  <2>2. terms[x].starts \in Int /\ terms[x].ends \in Int
    BY <2>1 DEF CryptoTerm
  <2>3. p \in Int /\ q \in Int
    BY <1>1, <2>2
  <2>4. moved(x) = [terms[x] EXCEPT !.starts = p, !.ends = q]
    OBVIOUS
  <2> HIDE DEF p, q, moved
  <2>5. /\ moved(x) \in CryptoTerm /\ moved(x).plan = terms[x].plan
        /\ moved(x).starts = p /\ moved(x).ends = q
        /\ moved(x).done = terms[x].done /\ moved(x).refunded = terms[x].refunded
    BY <2>1, <2>3, <2>4 DEF CryptoTerm
  <2> QED BY <2>5 DEF p, q
<1> HIDE DEF ended, moved, r
<1>6. \A x \in Orders : r[x] = IF x = o THEN ended ELSE IF IsLater(x, o) THEN moved(x) ELSE terms[x]
  BY <1>3
<1>7. r \in [Orders -> CryptoTerm \cup {None}]
  <2>1. \A x \in Orders : terms[x] \in CryptoTerm \cup {None}
    BY DEF TypeOK
  <2> QED BY <1>3, <1>4, <1>5, <2>1
<1>8. /\ r[o] # None /\ r[o].plan = terms[o].plan /\ r[o].ends = now /\ r[o].refunded
      /\ r[o].starts = first /\ r[o].done = terms[o].done
  BY <1>4, <1>6
<1>9. ASSUME NEW x \in Orders \ {o}
      PROVE  IF IsLater(x, o)
             THEN /\ r[x] # None /\ r[x].plan = terms[x].plan
                  /\ r[x].starts = terms[x].starts - Unused(o) /\ r[x].ends = terms[x].ends - Unused(o)
                  /\ r[x].done = terms[x].done /\ r[x].refunded = terms[x].refunded
             ELSE r[x] = terms[x]
  BY <1>5, <1>6
<1> QED BY <1>7, <1>8, <1>9 DEF r

\* No term is lost or doubled by a refund: the later terms of the plan move up.
LEMMA RefundKeepsTerms ==
    ASSUME TypeOK, Terms, NEW o \in Orders, terms[o] # None, terms[o].ends > now, now' = now,
           terms' = Restacked(o, now)
    PROVE  Terms'
<1> DEFINE T == terms[o]
           m == LeftFrom(o)
           u == Unused(o)
           later(x) == IsLater(x, o)
<1>1. /\ ~T.refunded /\ ~T.done /\ T.ends = T.starts + Term /\ T.starts < T.ends
      /\ u \in Int /\ u > 0 /\ m \in Int /\ m >= now /\ T.starts <= m /\ u = T.ends - m /\ now \in Int
      /\ IF T.starts > now THEN m = T.starts ELSE m = now
  <2>1. now \in Int /\ T.starts \in Int /\ T.ends \in Int
    BY TermsTyped DEF TypeOK
  <2>2. IF T.starts > now THEN m = T.starts ELSE m = now
    BY <2>1 DEF LeftFrom
  <2>3. u = T.ends - m
    BY DEF Unused
  <2> HIDE DEF T, m, u
  <2> QED BY <2>1, <2>2, <2>3, Unspent DEF T, m, u
<1>2. \A x \in Orders : terms[x] # None =>
         /\ terms[x].starts \in Int /\ terms[x].ends \in Int /\ TermIsSound(terms[x], now)
         /\ Continues(x) /\ terms[x].starts <= terms[x].ends
  BY TermsTyped DEF Terms, TermIsSound
<1>3. \A x, y \in Orders : x # y /\ terms[x] # None /\ terms[y] # None => Apart(terms[x], terms[y])
  BY DEF Terms
<1>4. /\ terms'[o] # None /\ terms'[o].plan = T.plan /\ terms'[o].ends = now /\ terms'[o].refunded
      /\ terms'[o].starts = (IF T.starts <= now THEN T.starts ELSE now)
      /\ terms'[o].done = T.done
  BY RestackedIs
<1>5. \A x \in Orders \ {o} :
         IF later(x)
         THEN /\ terms'[x] # None /\ terms'[x].plan = terms[x].plan
              /\ terms'[x].starts = terms[x].starts - u /\ terms'[x].ends = terms[x].ends - u
              /\ terms'[x].done = terms[x].done /\ terms'[x].refunded = terms[x].refunded
         ELSE terms'[x] = terms[x]
  BY RestackedIs
<1>6. ASSUME NEW x \in Orders \ {o}, later(x)
      PROVE  /\ terms[x] # None /\ terms[x].plan = T.plan /\ terms[x].starts >= T.ends
             /\ ~terms[x].refunded /\ ~terms[x].done /\ terms[x].ends > now /\ terms[x].starts > now
             /\ terms[x].ends = terms[x].starts + Term
             /\ terms[x].starts \in Int /\ terms[x].ends \in Int /\ terms[x].starts - u >= m
  <2>1. terms[x] # None /\ terms[x].plan = T.plan /\ terms[x].starts >= T.ends
    BY <1>6 DEF IsLater
  <2>2. terms[x].starts \in Int /\ terms[x].ends \in Int /\ terms[x].starts <= terms[x].ends /\ T.ends \in Int
    BY <1>2, <2>1
  <2>3. terms[x].ends > now /\ terms[x].starts > now /\ terms[x].starts - u >= m
    BY <1>1, <2>1, <2>2
  <2> HIDE DEF u, m, later
  <2> QED BY <2>1, <2>2, <2>3, Unspent
\* Another term of the plan that is not later is over when o begins, or empty.
<1>7. ASSUME NEW x \in Orders \ {o}, terms[x] # None, terms[x].plan = T.plan, ~later(x)
      PROVE  terms[x].ends <= T.starts \/ (terms[x].refunded /\ terms[x].starts = terms[x].ends)
  <2>1. Apart(T, terms[x])
    BY <1>3, <1>7
  <2>2. ~(T.ends <= terms[x].starts)
    BY <1>2, <1>7 DEF IsLater
  <2> QED BY <1>1, <1>7, <2>1, <2>2 DEF Apart
<1> HIDE DEF T, m, u, later
<1>8. T = terms[o] /\ T.starts \in Int /\ T.ends \in Int /\ T # None /\ T.ends > now
  BY <1>2 DEF T
<1>9. ASSUME NEW a \in Orders, terms'[a] # None PROVE TermIsSound(terms'[a], now)
  <2>1. CASE a = o
    BY <1>1, <1>4, <1>8, <2>1 DEF TermIsSound
  <2>2. CASE a # o /\ later(a)
    <3>1. /\ terms'[a].starts = terms[a].starts - u /\ terms'[a].ends = terms[a].ends - u
          /\ terms'[a].done = terms[a].done /\ terms'[a].refunded = terms[a].refunded
      BY <1>5, <2>2
    <3>2. /\ ~terms[a].refunded /\ ~terms[a].done /\ terms[a].ends = terms[a].starts + Term
          /\ terms[a].starts \in Int /\ terms[a].ends \in Int
      BY <1>6, <2>2
    <3>3. Term \in Nat
      OBVIOUS
    <3> QED BY <1>1, <3>1, <3>2, <3>3 DEF TermIsSound
  <2>3. CASE a # o /\ ~later(a)
    BY <1>2, <1>5, <1>9, <2>3
  <2> QED BY <2>1, <2>2, <2>3
<1>10. ASSUME NEW a \in Orders, terms'[a] # None PROVE Continues(a)'
  <2> SUFFICES ASSUME terms'[a].starts > now
               PROVE  \E y \in Orders : /\ terms'[y] # None /\ terms'[y].plan = terms'[a].plan
                                        /\ terms'[y].ends = terms'[a].starts
    BY DEF Continues
  <2>1. a # o
    BY <1>1, <1>4, <1>8
  <2>2. CASE later(a)
    <3>1. PICK y \in Orders : terms[y] # None /\ terms[y].plan = T.plan /\ terms[y].ends = terms[a].starts
      BY <1>2, <1>6, <2>1, <2>2 DEF Continues
    <3>2. /\ terms'[a].plan = T.plan /\ terms'[a].starts = terms[a].starts - u
          /\ terms[a].starts >= T.ends /\ terms[a].starts \in Int
      BY <1>5, <1>6, <2>1, <2>2
    <3>3. CASE y = o
      \* a continued o, and now continues what o continued.
      <4>1. terms'[a].starts = m /\ m = T.starts /\ T.starts > now
        BY <1>1, <1>8, <3>1, <3>2, <3>3
      <4>2. PICK z \in Orders : terms[z] # None /\ terms[z].plan = T.plan /\ terms[z].ends = T.starts
        BY <1>2, <1>8, <4>1 DEF Continues
      <4>3. z # o /\ ~later(z)
        BY <1>1, <1>2, <1>8, <4>2 DEF later, IsLater
      <4> QED BY <1>5, <3>2, <4>1, <4>2, <4>3
    <3>4. CASE y # o /\ later(y)
      BY <1>5, <3>1, <3>2, <3>4
    <3>5. CASE y # o /\ ~later(y)
      <4>1. terms[y].ends <= T.starts \/ terms[y].refunded
        BY <1>7, <3>1, <3>5
      <4>2. terms[y].ends >= T.ends /\ terms[y].ends > now /\ terms[y].ends \in Int
        BY <1>1, <1>2, <1>8, <3>1, <3>2
      <4>3. ~terms[y].refunded
        BY <3>1, <4>2, Unspent
      <4> QED BY <1>1, <1>8, <4>1, <4>2, <4>3
    <3> QED BY <3>3, <3>4, <3>5
  <2>3. CASE ~later(a)
    <3>1. terms'[a] = terms[a] /\ terms[a] # None
      BY <1>5, <1>10, <2>1, <2>3
    <3>2. PICK y \in Orders : terms[y] # None /\ terms[y].plan = terms[a].plan /\ terms[y].ends = terms[a].starts
      BY <1>2, <3>1 DEF Continues
    <3>3. y # o /\ ~later(y)
      <4>1. CASE terms[a].plan # T.plan
        BY <1>8, <3>2, <4>1 DEF later, IsLater
      <4>2. CASE terms[a].plan = T.plan
        <5>1. terms[a].starts < T.ends
          BY <1>2, <1>8, <2>3, <3>1, <4>2 DEF later, IsLater
        <5>2. terms[y].starts <= terms[y].ends /\ terms[y].starts \in Int /\ terms[y].ends \in Int
          BY <1>2, <3>2
        <5> QED BY <1>2, <1>8, <3>1, <3>2, <5>1, <5>2 DEF later, IsLater
      <4> QED BY <4>1, <4>2
    <3> QED BY <1>5, <3>1, <3>2, <3>3
  <2> QED BY <2>2, <2>3
<1>11. ASSUME NEW a \in Orders, NEW b \in Orders \ {a}, terms'[a] # None, terms'[b] # None
       PROVE  Apart(terms'[a], terms'[b])
  <2> SUFFICES ASSUME terms'[a].plan = terms'[b].plan, ~terms'[a].refunded
               PROVE  \/ terms'[a].ends <= terms'[b].starts \/ terms'[b].ends <= terms'[a].starts
                      \/ terms'[b].refunded /\ terms'[b].starts = terms'[b].ends
    BY DEF Apart
  <2>1. a # o
    BY <1>4
  <2>2. terms[a] # None /\ terms[a].plan = terms'[a].plan /\ ~terms[a].refunded
    BY <1>5, <1>6, <1>11, <2>1
  <2>3. terms[a].starts \in Int /\ terms[a].ends \in Int /\ terms[a].starts <= terms[a].ends
    BY <1>2, <2>2
  <2>4. CASE b = o
    <3>1. CASE later(a)
      <4>1. terms'[a].starts = terms[a].starts - u /\ terms[a].starts - u >= m
        BY <1>5, <1>6, <2>1, <3>1
      <4> QED BY <1>1, <1>4, <2>3, <2>4, <4>1
    <3>2. CASE ~later(a)
      <4>1. terms'[a] = terms[a] /\ terms[a].ends <= T.starts
        BY <1>4, <1>5, <1>7, <1>8, <2>1, <2>2, <2>4, <3>2
      <4> QED BY <1>1, <1>4, <1>8, <2>3, <2>4, <4>1
    <3> QED BY <3>1, <3>2
  <2>5. CASE b # o
    <3>1. terms[b] # None /\ terms[b].plan = terms'[b].plan
      BY <1>5, <1>6, <1>11, <2>5
    <3>2. /\ terms[b].starts \in Int /\ terms[b].ends \in Int /\ terms[b].starts <= terms[b].ends
          /\ Apart(terms[a], terms[b])
      BY <1>2, <1>3, <2>2, <3>1
    <3>3. CASE later(a) /\ later(b)
      <4>1. /\ terms'[a].starts = terms[a].starts - u /\ terms'[b].starts = terms[b].starts - u
            /\ terms'[a].ends = terms[a].ends - u /\ terms'[b].ends = terms[b].ends - u
            /\ ~terms[b].refunded
        BY <1>5, <1>6, <2>1, <2>5, <3>3
      <4> QED BY <1>1, <2>2, <2>3, <3>1, <3>2, <4>1 DEF Apart
    <3>4. CASE ~later(a) /\ ~later(b)
      BY <1>5, <2>1, <2>2, <2>5, <3>1, <3>2, <3>4 DEF Apart
    <3>5. CASE later(a) /\ ~later(b)
      <4>1. terms'[a].starts = terms[a].starts - u /\ terms[a].starts - u >= m /\ terms[a].plan = T.plan
        BY <1>5, <1>6, <2>1, <3>5
      <4>2. terms'[b] = terms[b] /\ (terms[b].ends <= T.starts \/ (terms[b].refunded /\ terms[b].starts = terms[b].ends))
        BY <1>5, <1>7, <2>2, <2>5, <3>1, <3>5, <4>1
      <4> QED BY <1>1, <1>8, <2>3, <3>2, <4>1, <4>2
    <3>6. CASE ~later(a) /\ later(b)
      <4>1. terms'[b].starts = terms[b].starts - u /\ terms[b].starts - u >= m /\ terms[b].plan = T.plan
        BY <1>5, <1>6, <2>5, <3>6
      <4>2. terms'[a] = terms[a] /\ terms[a].ends <= T.starts
        BY <1>5, <1>7, <2>1, <2>2, <3>1, <3>6, <4>1
      <4> QED BY <1>1, <1>8, <2>3, <3>2, <4>1, <4>2
    <3> QED BY <3>3, <3>4, <3>5, <3>6
  <2> QED BY <2>4, <2>5
<1>12. Terms' <=> \A a \in Orders : terms'[a] # None =>
                     /\ TermIsSound(terms'[a], now) /\ Continues(a)'
                     /\ \A b \in Orders \ {a} : terms'[b] # None => Apart(terms'[a], terms'[b])
  BY DEF Terms, Apart, TermIsSound
<1> QED BY <1>9, <1>10, <1>11, <1>12
-----------------------------------------------------------------------------
(* Every step keeps what is not about the plan itself *)

Basis == TypeOK /\ History /\ Coming /\ Deliveries /\ Rows /\ Terms /\ Sweeps

\* What may be known after a step.
LEMMA FactsCome ==
    ASSUME TypeOK, NEW N, events' \subseteq events \cup N,
           \A w \in Workers : work'[w].event \in {work[w].event, None} \cup events,
           \A s \in Subs : mirror'[s] # None => \E y \in Facts(s) : Twins(mirror'[s], y)
    PROVE  \A s \in Subs : \A x \in Facts(s)' : \/ \E y \in Facts(s) : Twins(x, y)
                                                \/ x \in N /\ x.sub = s
<1> SUFFICES ASSUME NEW s \in Subs, NEW x \in Facts(s)', ~(x \in N /\ x.sub = s)
             PROVE  \E y \in Facts(s) : Twins(x, y)
  OBVIOUS
<1>1. \/ x \in events' /\ x.sub = s
      \/ \E w \in Workers : work'[w].event # None /\ work'[w].event.sub = s /\ x = work'[w].event
      \/ mirror'[s] # None /\ x = mirror'[s]
  BY DEF Facts
<1>2. \A y : Twins(y, y)
  BY DEF Twins
<1>3. \A e \in events : e.sub = s => e \in Facts(s)
  BY FactsAre
<1>4. \A w \in Workers : work[w].event # None /\ work[w].event.sub = s => work[w].event \in Facts(s)
  BY FactsAre
<1> QED BY <1>1, <1>2, <1>3, <1>4

\* A row and its twin.
LEMMA RowIsFact ==
    ASSUME TypeOK, NEW s \in Subs, mirror[s] # None PROVE mirror[s] \in Facts(s) /\ Twins(mirror[s], mirror[s])
BY FactsAre DEF Twins

LEMMA FactsStay ==
    ASSUME TypeOK, events' \subseteq events,
           \A w \in Workers : work'[w].event \in {work[w].event, None} \cup events,
           mirror' = mirror
    PROVE  \A s \in Subs : \A x \in Facts(s)' : \E y \in Facts(s) : Twins(x, y)
<1>1. \A s \in Subs : mirror'[s] # None => \E y \in Facts(s) : Twins(mirror'[s], y)
  BY RowIsFact
<1> DEFINE N == {}
<1>2. events' \subseteq events \cup N /\ \A x : x \notin N
  OBVIOUS
<1> HIDE DEF N
<1>3. \A s \in Subs : \A x \in Facts(s)' : (\E y \in Facts(s) : Twins(x, y)) \/ (x \in N /\ x.sub = s)
  BY <1>1, <1>2, FactsCome
<1> QED BY <1>2, <1>3

\* A step of Stripe, while deliveries may go on.
LEMMA StripeKeeps ==
    ASSUME TypeOK, History, Coming, Deliveries, NEW s \in Subs, StripeStep(s), now' = now, mirror' = mirror,
           \A w \in Workers : work'[w].event = work[w].event
    PROVE  /\ History' /\ Coming'
           /\ stripe' \in [Subs -> Subscription \cup {None}] /\ events' \subseteq Event
           /\ events \subseteq events' /\ \A e \in events' : e.deleted => e.status = "canceled"
<1>1. PICK new \in Subscription, N \in SUBSET Event : Says(s, new, N)
  BY DEF StripeStep
<1>2. events' = events \cup N /\ \A e \in N : e.sub = s /\ (e.deleted => e.status = "canceled")
  BY <1>1 DEF Says
<1>3. \A t \in Subs : mirror'[t] # None => \E y \in Facts(t) : Twins(mirror'[t], y)
  BY RowIsFact
<1>4. \A t \in Subs : \A x \in Facts(t)' : (\E y \in Facts(t) : Twins(x, y)) \/ (t = s /\ x \in N)
  BY <1>2, <1>3, FactsCome
<1>5. History'
  BY <1>1, <1>4, SaysKeepsHistory
<1>6. Coming'
  BY <1>1, SaysKeepsComing
<1>7. stripe' \in [Subs -> Subscription \cup {None}]
  BY <1>1 DEF Says, TypeOK
<1> QED BY <1>2, <1>5, <1>6, <1>7 DEF Deliveries, TypeOK

\* Deliveries that do not move.
LEMMA OthersDeliver ==
    ASSUME TypeOK, Deliveries, Grows, events \subseteq events', NEW W \in SUBSET Workers,
           \A w \in W : work'[w] = work[w]
    PROVE  \A w \in W : Delivering(w)'
BY DeliveringKept DEF Deliveries

LEMMA StripeStepKeepsBasis ==
    ASSUME Basis, NEW s \in Subs, StripeStep(s), issued' \in 0 .. MaxEvents,
           UNCHANGED <<now, planVars, work, sweep, alerted, faults>>
    PROVE  Basis'
<1> USE DEF Basis
<1>1. UNCHANGED <<now, mirror, terms, tier, work, sweep, alerted, faults>>
  BY DEF planVars
<1>2. /\ History' /\ Coming'
      /\ stripe' \in [Subs -> Subscription \cup {None}] /\ events' \subseteq Event
      /\ events \subseteq events' /\ \A e \in events' : e.deleted => e.status = "canceled"
  BY <1>1, StripeKeeps
<1>3. Deliveries'
  <2>1. Grows
    BY <1>1, UnchangedGrows
  <2>2. \A w \in Workers : Delivering(w)'
    BY <1>1, <1>2, <2>1, OthersDeliver
  <2> QED BY <1>2, <2>2 DEF Deliveries
<1>4. TypeOK'
  BY <1>1, <1>2 DEF TypeOK
<1>5. Rows'
  BY <1>1 DEF Rows, RowIsSound
<1>6. Terms' /\ Sweeps'
  BY <1>1 DEF Terms, TermIsSound, Apart, Continues, Sweeps
<1> QED BY <1>2, <1>3, <1>4, <1>5, <1>6

\* If only deliveries, the tier and bookkeeping move, it is for the deliveries
\* to be sound.
LEMMA QuietStep ==
    ASSUME Basis, UNCHANGED <<now, stripe, mirror, terms>>, events' = events,
           \A w \in Workers : work'[w].event \in {work[w].event, None} \cup events
    PROVE  History' /\ Coming' /\ Rows' /\ Terms' /\ Grows
<1> USE DEF Basis
<1>1. Grows
  BY UnchangedGrows
<1>2. Coming'
  BY <1>1, ComingKept DEF Consumed
<1>3. History'
  <2>1. now' \in Int /\ now <= now'
    BY DEF TypeOK
  <2> QED BY <2>1, FactsStay, HistoryKept
<1>4. Rows'
  BY DEF Rows, RowIsSound
<1>5. Terms'
  BY DEF Terms, TermIsSound, Apart, Continues
<1> QED BY <1>1, <1>2, <1>3, <1>4, <1>5

LEMMA WorkOf ==
    ASSUME TypeOK, NEW w \in Workers, NEW k \in Work, work' = [work EXCEPT ![w] = k]
    PROVE  work' \in [Workers -> Work] /\ work'[w] = k /\ \A v \in Workers \ {w} : work'[v] = work[v]
BY DEF TypeOK

LEMMA GotoIs ==
    ASSUME TypeOK, NEW w \in Workers, NEW st \in Steps, Goto(w, st)
    PROVE  /\ work' \in [Workers -> Work] /\ \A v \in Workers \ {w} : work'[v] = work[v]
           /\ work'[w].step = st /\ work'[w].event = work[w].event
           /\ work'[w].stored = work[w].stored /\ work'[w].rest = work[w].rest
<1> DEFINE k == [work[w] EXCEPT !.step = st]
<1>1. work[w] \in Work
  BY DEF TypeOK
<1>2. /\ k \in Work /\ k.step = st /\ k.event = work[w].event
      /\ k.stored = work[w].stored /\ k.rest = work[w].rest
  BY <1>1 DEF Work
<1>3. work' = [work EXCEPT ![w] = k]
  BY DEF Goto
<1> HIDE DEF k
<1> QED BY <1>2, <1>3, WorkOf

LEMMA IdleIsWork == IdleWork \in Work
BY DEF IdleWork, Work, Steps

\* A delivery that is under way has an event.
LEMMA DeliveryHasEvent ==
    ASSUME TypeOK, Deliveries, NEW w \in Workers, ~Step(w, "idle")
    PROVE  /\ work[w].event \in Event /\ work[w].event # None /\ work[w].event.sub \in Subs
           /\ work[w].stored \in Row \cup {None} /\ work[w].rest \subseteq Subs /\ Delivering(w)
BY DEF Deliveries, Delivering, Step, TypeOK, Work, Event

\* A step of delivery w that goes on, by which nothing else of the basis moves.
LEMMA DeliveryGoesOn ==
    ASSUME Basis, NEW w \in Workers, ~Step(w, "idle"), UNCHANGED <<now, stripeVars, mirror, terms, sweep>>,
           tier' \in Plans \cup {0}, alerted' \in BOOLEAN, faults' \in 0 .. MaxFaults,
           work' \in [Workers -> Work], \A v \in Workers \ {w} : work'[v] = work[v],
           work'[w].event = work[w].event, work'[w].step # "idle",
           \A x \in work'[w].rest : x \in work[w].rest \/ mirror[x] # None,
           LET e == work[w].event IN
              /\ e.deleted => work'[w].step \in {"upsert", "stale", "leave", "record"}
              /\ work'[w].step \notin {"read", "upsert"} => Reached(e.sub, e)
              /\ work'[w].step = "stale" => e.deleted
              /\ work'[w].step \in {"replace", "cancel", "grant"} => e.status = "active"
    PROVE  Basis'
<1> USE DEF Basis
<1>1. UNCHANGED <<now, stripe, events, issued, mirror, terms, sweep>>
  BY DEF stripeVars
<1>2. \A v \in Workers : work'[v].event \in {work[v].event, None} \cup events
  OBVIOUS
<1>3. History' /\ Coming' /\ Rows' /\ Terms' /\ Grows
  BY <1>1, <1>2, QuietStep
<1>4. \A v \in Workers \ {w} : Delivering(v)'
  BY <1>1, <1>3, OthersDeliver
<1>5. Delivering(w)'
  <2>1. work'[w].rest \subseteq Subs
    BY DEF Work
  <2> QED BY <1>1, <1>3, <2>1, DeliveringGoes DEF Deliveries
<1>6. Deliveries'
  BY <1>1, <1>4, <1>5 DEF Deliveries
<1>7. TypeOK'
  BY <1>1 DEF TypeOK
<1>8. Sweeps'
  BY <1>1 DEF Sweeps
<1> QED BY <1>3, <1>6, <1>7, <1>8

LEMMA TickKeepsBasis == ASSUME Basis, Tick PROVE Basis'
<1> USE DEF Basis
<1>1. UNCHANGED <<stripe, events, issued, mirror, terms, tier, work, sweep, alerted, faults>>
  BY DEF Tick, stripeVars, planVars
<1>2. now' = now + 1 /\ now \in Int /\ now' \in 0 .. MaxTime
  BY DEF Tick, TypeOK
<1>3. TypeOK'
  BY <1>1, <1>2 DEF TypeOK
<1>4. Grows
  BY <1>1, UnchangedGrows
<1>5. History'
  <2>1. events' \subseteq events /\ \A w \in Workers : work'[w].event \in {work[w].event, None} \cup events
    BY <1>1
  <2> QED BY <1>1, <1>2, <2>1, FactsStay, HistoryKept
<1>6. Coming'
  BY <1>1, <1>4, ComingKept DEF Consumed
<1>7. Deliveries'
  BY <1>1, <1>4, OthersDeliver DEF Deliveries
<1>8. Rows'
  BY <1>1, <1>2, RowsKept
<1>9. Terms'
  BY <1>1, <1>2, TickKeepsTerms
<1>10. Sweeps'
  <2>1. \A j \in Jobs : sweep[j].asOf \in Int
    BY DEF TypeOK, Job
  <2>2. \A o \in sweep["expiry"].ids : o \in Orders /\ (terms[o] # None => terms[o].ends \in Int)
    BY TermsTyped DEF Sweeps
  <2> QED BY <1>1, <1>2, <2>1, <2>2 DEF Sweeps
<1> QED BY <1>3, <1>5, <1>6, <1>7, <1>8, <1>9, <1>10

LEMMA SubscriptionsKeepBasis ==
    ASSUME Basis, NEW s \in Subs, NEW plan \in Plans,
           Subscribe(s, plan) \/ ChangePlan(s, plan) \/ Move(s) \/ Cancel(s) \/ Edit(s)
    PROVE  Basis' /\ StripeStep(s) /\ UNCHANGED <<now, planVars, work, sweep, alerted, faults>>
<1>1. TypeOK /\ (stripe[s] # None => stripe[s].at <= now)
  BY DEF Basis, History
<1>2. UNCHANGED <<now, planVars, work, sweep, alerted, faults>>
  BY DEF Subscribe, ChangePlan, Move, Cancel, Edit
<1>3. StripeStep(s) /\ issued' \in 0 .. MaxEvents
  <2>1. CASE Subscribe(s, plan)
    BY <1>1, <2>1, SubscribeSays
  <2>2. CASE ChangePlan(s, plan)
    BY <1>1, <2>2, ChangePlanSays
  <2>3. CASE Move(s)
    BY <1>1, <2>3, MoveSays
  <2>4. CASE Cancel(s)
    <3>1. stripe[s] # None /\ stripe[s].status # "canceled"
      <4>1. stripe[s].status \in Statuses
        BY <1>1, <2>4 DEF Cancel, TypeOK, Subscription
      <4> QED BY <2>4, <4>1, MovesAreStatuses DEF Cancel
    <3>2. PICK updateToo \in BOOLEAN : End(s, updateToo)
      BY <2>4 DEF Cancel
    <3> QED BY <1>1, <3>1, <3>2, EndSays
  <2>5. CASE Edit(s)
    BY <1>1, <2>5, EditSays
  <2> QED BY <2>1, <2>2, <2>3, <2>4, <2>5
<1> QED BY <1>2, <1>3, StripeStepKeepsBasis

LEMMA BeginKeepsBasis ==
    ASSUME Basis, NEW w \in Workers, NEW e \in events, Begin(w, e)
    PROVE  Basis'
<1> USE DEF Basis
<1> DEFINE k == [step |-> IF e.deleted THEN "upsert" ELSE "read",
                 event |-> e, stored |-> None, rest |-> {}]
<1>1. UNCHANGED <<now, stripe, events, issued, mirror, terms, tier, sweep, alerted, faults>>
  BY DEF Begin, stripeVars, planVars
<1>2. work' = [work EXCEPT ![w] = k]
  BY DEF Begin
<1>3. e \in Event /\ e # None /\ e.deleted \in BOOLEAN /\ (e.deleted => e.status = "canceled")
  BY DEF TypeOK, Event, Deliveries
<1>4. k \in Work /\ k.event = e /\ k.step \in {"upsert", "read"} /\ (e.deleted => k.step = "upsert")
  BY <1>3 DEF Work, Steps
<1> HIDE DEF k
<1>5. work' \in [Workers -> Work] /\ work'[w] = k /\ \A v \in Workers \ {w} : work'[v] = work[v]
  BY <1>2, <1>4, WorkOf
<1>6. \A v \in Workers : work'[v].event \in {work[v].event, None} \cup events
  BY <1>4, <1>5
<1>7. History' /\ Coming' /\ Rows' /\ Terms' /\ Grows
  BY <1>1, <1>6, QuietStep
<1>8. \A v \in Workers \ {w} : Delivering(v)'
  BY <1>1, <1>5, <1>7, OthersDeliver
<1>9. Delivering(w)'
  <2>1. work'[w].rest = {}
    BY <1>5 DEF k
  <2> QED BY <1>1, <1>3, <1>4, <1>5, <2>1 DEF Delivering
<1>10. Deliveries'
  BY <1>1, <1>8, <1>9 DEF Deliveries
<1>11. TypeOK'
  BY <1>1, <1>5 DEF TypeOK
<1>12. Sweeps'
  BY <1>1 DEF Sweeps
<1> QED BY <1>7, <1>10, <1>11, <1>12

LEMMA FindSubscriptionKeepsBasis ==
    ASSUME Basis, NEW w \in Workers, FindSubscription(w)
    PROVE  /\ Basis' /\ work'[w].stored = mirror[work[w].event.sub] /\ work'[w].event = work[w].event
           /\ work'[w].step = "upsert" /\ \A v \in Workers \ {w} : work'[v] = work[v]
<1> DEFINE stored == mirror[work[w].event.sub]
           k == [work[w] EXCEPT !.step = "upsert", !.stored = stored]
<1>1. ~Step(w, "idle") /\ work[w].step = "read"
  BY DEF FindSubscription, Step
<1>2. work[w].event \in Event /\ work[w].event.sub \in Subs /\ Delivering(w) /\ work[w] \in Work
  BY <1>1, DeliveryHasEvent DEF Basis, TypeOK
<1>3. stored \in Row \cup {None}
  BY <1>2 DEF Basis, TypeOK
<1> HIDE DEF stored
<1>4. k \in Work /\ k.step = "upsert" /\ k.event = work[w].event /\ k.stored = stored /\ k.rest = work[w].rest
  BY <1>2, <1>3 DEF Work, Steps
<1>5. work' = [work EXCEPT ![w] = k]
  BY DEF FindSubscription, stored
<1> HIDE DEF k
<1>6. work' \in [Workers -> Work] /\ work'[w] = k /\ \A v \in Workers \ {w} : work'[v] = work[v]
  BY <1>4, <1>5, WorkOf DEF Basis
<1>7. UNCHANGED <<now, stripeVars, mirror, terms, sweep>> /\ UNCHANGED <<tier, alerted, faults>>
  BY DEF FindSubscription, planVars
<1>8. tier' \in Plans \cup {0} /\ alerted' \in BOOLEAN /\ faults' \in 0 .. MaxFaults
  BY <1>7 DEF Basis, TypeOK
<1>9. Basis'
  BY <1>1, <1>2, <1>4, <1>6, <1>7, <1>8, DeliveryGoesOn DEF Delivering
<1> QED BY <1>4, <1>6, <1>9 DEF stored

LEMMA UpsertKeepsBasis ==
    ASSUME Basis, NEW w \in Workers, UpsertSubscription(w)
    PROVE  Basis'
<1> USE DEF Basis
<1> DEFINE e == work[w].event
           row == mirror[e.sub]
           to == AfterUpsert(e, work[w].stored, Applies(row, e))
<1>1. ~Step(w, "idle") /\ work[w].step = "upsert"
  BY DEF UpsertSubscription, Step
<1>2. e \in Event /\ e # None /\ e.sub \in Subs /\ Delivering(w)
  BY <1>1, DeliveryHasEvent
<1>3. UNCHANGED <<now, stripe, events, issued, terms, tier, sweep, alerted, faults>>
  BY DEF UpsertSubscription, stripeVars
<1>4. /\ Grows /\ Reaches(e.sub, e) /\ \A s \in Subs \ {e.sub} : mirror'[s] = mirror[s]
      /\ mirror'[e.sub] = IF Applies(row, e) THEN Upserted(row, e) ELSE row
  BY <1>2, UpsertGrows
<1>5. /\ to \in {"leave", "stale", "record", "replace", "grant"}
      /\ e.deleted => to \in {"leave", "stale"}
      /\ to = "stale" => e.deleted
      /\ to \in {"replace", "grant"} => e.status = "active"
  BY DEF AfterUpsert
<1>6. Goto(w, to) /\ to \in Steps
  BY <1>5 DEF UpsertSubscription, Steps
<1> HIDE DEF to
<1>7. /\ work' \in [Workers -> Work] /\ \A v \in Workers \ {w} : work'[v] = work[v]
      /\ work'[w].step = to /\ work'[w].event = e /\ work'[w].rest = work[w].rest
      /\ work'[w].rest \subseteq Subs
  BY <1>6, GotoIs DEF Work
<1>8. \A v \in Workers \ {w} : Delivering(v)'
  BY <1>3, <1>4, <1>7, OthersDeliver
<1>9. Delivering(w)'
  BY <1>1, <1>2, <1>3, <1>4, <1>5, <1>7, DeliveringGoes
<1>10. Deliveries'
  BY <1>3, <1>8, <1>9 DEF Deliveries
<1>11. TypeOK'
  BY <1>3, <1>4, <1>7 DEF TypeOK, Grows
<1>12. History'
  <2>1. e \in Facts(e.sub)
    BY <1>2, FactsAre
  <2>2. ASSUME NEW s \in Subs, mirror'[s] # None PROVE \E y \in Facts(s) : Twins(mirror'[s], y)
    <3>1. CASE s = e.sub /\ Applies(row, e)
      <4>1. row \in Row \cup {None}
        BY <1>2 DEF TypeOK
      <4>2. Twins(mirror'[s], e)
        BY <1>2, <1>4, <3>1, <4>1, UpsertedRow DEF Twins
      <4> QED BY <2>1, <3>1, <4>2
    <3>2. CASE ~(s = e.sub /\ Applies(row, e))
      <4>1. mirror'[s] = mirror[s]
        BY <1>4, <3>2
      <4> QED BY <2>2, <4>1, RowIsFact
    <3> QED BY <3>1, <3>2
  <2> DEFINE N == {}
  <2>3. events' \subseteq events \cup N /\ \A x : x \notin N
    BY <1>3
  <2>4. \A v \in Workers : work'[v].event \in {work[v].event, None} \cup events
    BY <1>7
  <2> HIDE DEF N
  <2>5. \A s \in Subs : \A x \in Facts(s)' : (\E y \in Facts(s) : Twins(x, y)) \/ (x \in N /\ x.sub = s)
    BY <2>2, <2>3, <2>4, FactsCome
  <2>6. now' \in Int /\ now <= now' /\ stripe' = stripe
    BY <1>3 DEF TypeOK
  <2> QED BY <2>3, <2>5, <2>6, HistoryKept
<1>13. Coming'
  BY <1>3, <1>4, ComingKept DEF Consumed
<1>14. Rows'
  BY <1>2, UpsertKeepsRows
<1>15. Terms' /\ Sweeps'
  BY <1>3 DEF Terms, TermIsSound, Apart, Continues, Sweeps
<1> QED BY <1>10, <1>11, <1>12, <1>13, <1>14, <1>15

\* Once a row has reached the end of its subscription, it is cancelled.
LEMMA EndReached ==
    ASSUME TypeOK, History, NEW w \in Workers, work[w].event # None, work[w].event.sub \in Subs,
           work[w].event.status = "canceled", Reached(work[w].event.sub, work[w].event)
    PROVE  mirror[work[w].event.sub].status = "canceled"
<1> DEFINE e == work[w].event
           s == e.sub
           row == mirror[s]
<1>1. row # None /\ NoLater(e, row)
  BY DEF Reached
<1>2. e \in Facts(s) /\ row \in Facts(s) /\ Dated(e) /\ Dated(row)
  BY <1>1, FactsAre
<1>3. Said(s, e) /\ Said(s, row)
  BY <1>2 DEF History
<1> SUFFICES ASSUME row.status # "canceled" PROVE FALSE
  OBVIOUS
<1>4. /\ stripe[s] # None /\ stripe[s].status = "canceled" /\ stripe[s].at <= e.at
      /\ NoLater(row, stripe[s]) /\ Dated(stripe[s])
  BY <1>3, StripeDated DEF Said
<1> HIDE DEF e, s, row
<1>5. NoLater(stripe[s], e)
  BY <1>2, <1>4, Order DEF e
<1>6. NoLater(row, e)
  BY <1>2, <1>4, <1>5, Order
<1> QED BY <1>1, <1>2, <1>6, Order DEF e, row, s

LEMMA FindStaleKeepsBasis ==
    ASSUME Basis, NEW w \in Workers, FindStale(w)
    PROVE  /\ Basis' /\ work'[w].step = "leave" /\ work'[w].event = work[w].event
           /\ \A v \in Workers \ {w} : work'[v] = work[v]
<1> DEFINE e == work[w].event
<1>1. ~Step(w, "idle") /\ work[w].step = "stale"
  BY DEF FindStale, Step
<1>2. e \in Event /\ e # None /\ e.sub \in Subs /\ Delivering(w)
  BY <1>1, DeliveryHasEvent DEF Basis
<1>3. e.deleted /\ e.status = "canceled" /\ Reached(e.sub, e)
  BY <1>1, <1>2 DEF Delivering
<1>4. mirror[e.sub].status = "canceled"
  BY <1>2, <1>3, EndReached DEF Basis
<1>5. Goto(w, "leave") /\ "leave" \in Steps
  BY <1>4 DEF FindStale, Steps
<1>6. /\ work' \in [Workers -> Work] /\ \A v \in Workers \ {w} : work'[v] = work[v]
      /\ work'[w].step = "leave" /\ work'[w].event = e /\ work'[w].rest = work[w].rest
  BY <1>5, GotoIs DEF Basis
<1>7. UNCHANGED <<now, stripeVars, mirror, terms, sweep>> /\ UNCHANGED <<tier, alerted, faults>>
  BY DEF FindStale, planVars
<1>8. tier' \in Plans \cup {0} /\ alerted' \in BOOLEAN /\ faults' \in 0 .. MaxFaults
  BY <1>7 DEF Basis, TypeOK
<1>9. Basis'
  BY <1>1, <1>3, <1>6, <1>7, <1>8, DeliveryGoesOn
<1> QED BY <1>6, <1>9

LEMMA FaultIs == ASSUME TypeOK, Fault PROVE faults' \in 0 .. MaxFaults
BY DEF TypeOK, Fault

LEMMA CancelReplacedKeepsBasis ==
    ASSUME Basis, NEW w \in Workers, CancelReplaced(w)
    PROVE  /\ Basis' /\ work'[w].step \in {"grant", "cancel"} /\ work'[w].event = work[w].event
           /\ \A v \in Workers \ {w} : work'[v] = work[v]
<1>1. ~Step(w, "idle") /\ work[w].step = "replace"
  BY DEF CancelReplaced, Step
<1>2. Delivering(w) /\ work[w] \in Work
  BY <1>1, DeliveryHasEvent DEF Basis, TypeOK
<1>3. /\ work[w].event.status = "active" /\ Reached(work[w].event.sub, work[w].event)
      /\ ~work[w].event.deleted
  BY <1>1, <1>2 DEF Delivering
<1>4. \E to \in {"grant", "cancel"}, rest \in SUBSET {x \in Subs : mirror[x] # None} :
         /\ work' = [work EXCEPT ![w].step = to, ![w].rest = rest]
         /\ alerted' \in BOOLEAN /\ (faults' = faults \/ Fault)
         /\ UNCHANGED <<now, stripeVars, mirror, terms, sweep>> /\ UNCHANGED tier
  <2> DEFINE s == work[w].event.sub
             collecting == {x \in Subs : mirror[x] # None /\ mirror[x].status \in {"active", "past_due"}}
             others == IF s \in collecting THEN collecting \ {s} ELSE {}
             older == {x \in others : mirror[x].created < mirror[s].created}
  <2>1. older \in SUBSET {x \in Subs : mirror[x] # None} /\ alerted \in BOOLEAN
    BY DEF Basis, TypeOK
  <2>2. UNCHANGED <<now, stripeVars, mirror, terms, sweep>> /\ UNCHANGED tier
    BY DEF CancelReplaced, planVars
  <2>3. \/ /\ alerted' = (alerted \/ others # older) /\ faults' = faults
           /\ work' = [work EXCEPT ![w].step = IF older = {} THEN "grant" ELSE "cancel", ![w].rest = older]
        \/ alerted' = TRUE /\ Fault /\ work' = [work EXCEPT ![w].step = "grant", ![w].rest = {}]
    BY DEF CancelReplaced
  <2>4. alerted' \in BOOLEAN /\ (faults' = faults \/ Fault)
    BY <2>1, <2>3
  <2> HIDE DEF older, others
  <2> QED BY <2>1, <2>2, <2>3, <2>4
<1>5. PICK to \in {"grant", "cancel"}, rest \in SUBSET {x \in Subs : mirror[x] # None} :
         /\ work' = [work EXCEPT ![w].step = to, ![w].rest = rest]
         /\ alerted' \in BOOLEAN /\ (faults' = faults \/ Fault)
         /\ UNCHANGED <<now, stripeVars, mirror, terms, sweep>> /\ UNCHANGED tier
  BY <1>4
<1> DEFINE k == [work[w] EXCEPT !.step = to, !.rest = rest]
<1>6. /\ k \in Work /\ k.step = to /\ k.event = work[w].event /\ k.rest = rest
      /\ work' = [work EXCEPT ![w] = k]
  BY <1>2, <1>5 DEF Work, Steps
<1> HIDE DEF k
<1>7. work' \in [Workers -> Work] /\ work'[w] = k /\ \A v \in Workers \ {w} : work'[v] = work[v]
  BY <1>6, WorkOf DEF Basis
<1>8. tier' \in Plans \cup {0} /\ alerted' \in BOOLEAN /\ faults' \in 0 .. MaxFaults
  BY <1>5, FaultIs DEF Basis, TypeOK
<1>9. Basis'
  BY <1>1, <1>3, <1>5, <1>6, <1>7, <1>8, DeliveryGoesOn
<1> QED BY <1>5, <1>6, <1>7, <1>9

LEMMA CancelOneKeepsBasis ==
    ASSUME Basis, NEW w \in Workers, NEW x \in Subs, CancelOne(w, x)
    PROVE  /\ Basis' /\ work'[w].step \in {"grant", "cancel"} /\ work'[w].event = work[w].event
           /\ \A v \in Workers \ {w} : work'[v] = work[v]
           /\ events \subseteq events'
           /\ stripe[x] # None
           /\ \/ stripe' = stripe /\ events' = events
              \/ StripeStep(x)
<1> USE DEF Basis
<1> DEFINE rest == work[w].rest \ {x}
           to == IF rest = {} THEN "grant" ELSE "cancel"
           k == [work[w] EXCEPT !.step = to, !.rest = rest]
<1>1. ~Step(w, "idle") /\ work[w].step = "cancel" /\ x \in work[w].rest
  BY DEF CancelOne, Step
<1>2. Delivering(w) /\ work[w] \in Work /\ work[w].event \in Event /\ work[w].event # None
  BY <1>1, DeliveryHasEvent DEF TypeOK
<1>3. /\ work[w].event.status = "active" /\ Reached(work[w].event.sub, work[w].event)
      /\ ~work[w].event.deleted
  BY <1>1, <1>2 DEF Delivering
<1>4. rest \in SUBSET Subs /\ to \in {"grant", "cancel"} /\ rest \subseteq work[w].rest
  BY <1>2 DEF Work
<1>5. /\ work' = [work EXCEPT ![w] = k] /\ alerted' = (alerted \/ rest = {})
      /\ UNCHANGED <<now, mirror, terms, tier, sweep>>
  BY DEF CancelOne, planVars
<1> HIDE DEF rest, to
<1>6. k \in Work /\ k.step = to /\ k.event = work[w].event /\ k.rest = rest
  BY <1>2, <1>4 DEF Work, Steps
<1> HIDE DEF k
<1>7. work' \in [Workers -> Work] /\ work'[w] = k /\ \A v \in Workers \ {w} : work'[v] = work[v]
  BY <1>5, <1>6, WorkOf
<1>8. \A v \in Workers : work'[v].event = work[v].event
  BY <1>6, <1>7
<1>9. stripe[x] # None
  <2>1. mirror[x] # None
    BY <1>1, <1>2 DEF Delivering
  <2> QED BY <2>1, RowIsFact DEF History, Said
<1>10. /\ History' /\ Coming'
       /\ stripe' \in [Subs -> Subscription \cup {None}] /\ events' \subseteq Event
       /\ events \subseteq events' /\ \A e \in events' : e.deleted => e.status = "canceled"
       /\ issued' \in 0 .. MaxEvents /\ faults' \in 0 .. MaxFaults
       /\ \/ stripe' = stripe /\ events' = events
          \/ StripeStep(x)
  <2>1. CASE UNCHANGED stripeVars /\ (Fault \/ UNCHANGED faults)
    <3>1. UNCHANGED <<now, stripe, mirror, terms>> /\ events' = events /\ issued' = issued
      BY <1>5, <2>1 DEF stripeVars
    <3>2. \A v \in Workers : work'[v].event \in {work[v].event, None} \cup events
      BY <1>8
    <3>3. History' /\ Coming'
      BY <3>1, <3>2, QuietStep
    <3>4. faults' \in 0 .. MaxFaults
      BY <2>1, FaultIs DEF TypeOK
    <3> QED BY <3>1, <3>3, <3>4 DEF TypeOK, Deliveries
  <2>2. CASE stripe[x].status # "canceled" /\ End(x, FALSE) /\ UNCHANGED faults
    <3>1. StripeStep(x) /\ issued' \in 0 .. MaxEvents
      <4>1. FALSE \in BOOLEAN
        OBVIOUS
      <4> QED BY <1>9, <2>2, <4>1, EndSays
    <3>2. /\ History' /\ Coming'
          /\ stripe' \in [Subs -> Subscription \cup {None}] /\ events' \subseteq Event
          /\ events \subseteq events' /\ \A e \in events' : e.deleted => e.status = "canceled"
      BY <1>5, <1>8, <3>1, StripeKeeps
    <3> QED BY <2>2, <3>1, <3>2 DEF TypeOK
  <2> QED BY <2>1, <2>2 DEF CancelOne
<1>11. Grows
  BY <1>5, UnchangedGrows
<1>12. \A v \in Workers \ {w} : Delivering(v)'
  BY <1>7, <1>10, <1>11, OthersDeliver
<1>13. Delivering(w)'
  BY <1>1, <1>2, <1>3, <1>4, <1>6, <1>7, <1>10, <1>11, DeliveringGoes DEF Deliveries
<1>14. Deliveries'
  BY <1>10, <1>12, <1>13 DEF Deliveries
<1>15. TypeOK'
  BY <1>5, <1>7, <1>10 DEF TypeOK
<1>16. Rows' /\ Terms' /\ Sweeps'
  BY <1>5 DEF Rows, RowIsSound, Terms, TermIsSound, Apart, Continues, Sweeps
<1> QED BY <1>4, <1>6, <1>7, <1>9, <1>10, <1>14, <1>15, <1>16

LEMMA RecomputeKeepsBasis ==
    ASSUME Basis, NEW w \in Workers, Grant(w) \/ Leave(w)
    PROVE  /\ Basis' /\ work'[w].step = "record" /\ work'[w].event = work[w].event
           /\ \A v \in Workers \ {w} : work'[v] = work[v]
<1> DEFINE e == work[w].event
<1>1. ~Step(w, "idle") /\ work[w].step \in {"grant", "leave"}
  BY DEF Grant, Leave, Step
<1>2. Delivering(w)
  BY <1>1, DeliveryHasEvent DEF Basis
<1>3. Reached(e.sub, e)
  BY <1>1, <1>2 DEF Delivering
<1>4. Goto(w, "record") /\ "record" \in Steps
  BY DEF Grant, Leave, Steps
<1>5. /\ work' \in [Workers -> Work] /\ \A v \in Workers \ {w} : work'[v] = work[v]
      /\ work'[w].step = "record" /\ work'[w].event = e /\ work'[w].rest = work[w].rest
  BY <1>4, GotoIs DEF Basis
<1>6. UNCHANGED <<now, stripeVars, mirror, terms, sweep>> /\ UNCHANGED <<alerted, faults>>
  BY DEF Grant, Leave
<1>7. tier' \in Plans \cup {0}
  <2>1. tier \in Plans \cup {0}
    BY DEF Basis, TypeOK
  <2>2. CASE Grant(w)
    BY <2>1, <2>2, ActiveIsHeld DEF Basis, Grant
  <2>3. CASE Leave(w)
    BY <2>3, RemainingIsHeld DEF Basis, Leave
  <2> QED BY <2>2, <2>3
<1>8. alerted' \in BOOLEAN /\ faults' \in 0 .. MaxFaults
  BY <1>6 DEF Basis, TypeOK
<1>9. Basis'
  BY <1>1, <1>3, <1>5, <1>6, <1>7, <1>8, DeliveryGoesOn
<1> QED BY <1>5, <1>9

\* A delivery that is over.
LEMMA IdleDelivers == ASSUME NEW w \in Workers, work'[w] = IdleWork PROVE Delivering(w)'
BY DEF Delivering, IdleWork

LEMMA RecordKeepsBasis ==
    ASSUME Basis, NEW w \in Workers, RecordEvent(w)
    PROVE  /\ Basis' /\ work'[w] = IdleWork
           /\ \A v \in Workers \ {w} : work'[v] = work[v]
           /\ Reached(work[w].event.sub, work[w].event) /\ work[w].event \in Event
<1> USE DEF Basis
<1> DEFINE e == work[w].event
<1>1. ~Step(w, "idle") /\ work[w].step = "record"
  BY DEF RecordEvent, Step
<1>2. e \in Event /\ e # None /\ e.sub \in Subs /\ Delivering(w)
  BY <1>1, DeliveryHasEvent
<1>3. Reached(e.sub, e) /\ (e.deleted => e.status = "canceled")
  BY <1>1, <1>2 DEF Delivering
<1>4. UNCHANGED <<now, stripe, issued, mirror, terms, tier, sweep, alerted, faults>> /\ events' = events \ {e}
  BY DEF RecordEvent, planVars
<1>5. work' \in [Workers -> Work] /\ work'[w] = IdleWork /\ \A v \in Workers \ {w} : work'[v] = work[v]
  BY IdleIsWork, WorkOf DEF RecordEvent
<1>6. \A v \in Workers : work'[v].event \in {work[v].event, None} \cup events
  BY <1>5 DEF IdleWork
<1>7. Grows
  BY <1>4, UnchangedGrows
<1>8. Reaches(e.sub, e)
  BY <1>3, <1>4 DEF Reached, Reaches
<1>9. Consumed
  <2>1. e.deleted => mirror'[e.sub].status = "canceled"
    BY <1>2, <1>3, <1>4, EndReached
  <2> QED BY <1>4, <1>8, <2>1 DEF Consumed
<1>10. Coming'
  BY <1>4, <1>7, <1>9, ComingKept
<1>11. History'
  <2>1. now' \in Int /\ now <= now' /\ events' \subseteq events
    BY <1>4 DEF TypeOK
  <2> QED BY <1>4, <1>6, <2>1, FactsStay, HistoryKept
<1>12. \A v \in Workers \ {w} : Delivering(v)'
  BY <1>4, <1>5, <1>7, <1>8, DeliveringKept DEF Deliveries
<1>13. Deliveries'
  BY <1>4, <1>5, <1>12, IdleDelivers DEF Deliveries
<1>14. TypeOK'
  BY <1>4, <1>5 DEF TypeOK
<1>15. Rows' /\ Terms' /\ Sweeps'
  BY <1>4 DEF Rows, RowIsSound, Terms, TermIsSound, Apart, Continues, Sweeps
<1> QED BY <1>2, <1>3, <1>5, <1>10, <1>11, <1>13, <1>14, <1>15

LEMMA DeliveryFailsKeepsBasis ==
    ASSUME Basis, NEW w \in Workers, DeliveryFails(w)
    PROVE  Basis' /\ work'[w] = IdleWork /\ \A v \in Workers \ {w} : work'[v] = work[v]
<1> USE DEF Basis
<1>1. UNCHANGED <<now, stripe, events, issued, mirror, terms, tier, sweep, alerted>>
  BY DEF DeliveryFails, stripeVars, planVars
<1>2. work' \in [Workers -> Work] /\ work'[w] = IdleWork /\ \A v \in Workers \ {w} : work'[v] = work[v]
  BY IdleIsWork, WorkOf DEF DeliveryFails
<1>3. \A v \in Workers : work'[v].event \in {work[v].event, None} \cup events
  BY <1>2 DEF IdleWork
<1>4. History' /\ Coming' /\ Rows' /\ Terms' /\ Grows
  BY <1>1, <1>3, QuietStep
<1>5. Deliveries'
  <2>1. \A v \in Workers \ {w} : Delivering(v)'
    BY <1>1, <1>2, <1>4, OthersDeliver
  <2> QED BY <1>1, <1>2, <2>1, IdleDelivers DEF Deliveries
<1>6. TypeOK'
  <2>1. faults' \in 0 .. MaxFaults
    BY FaultIs DEF DeliveryFails
  <2> QED BY <1>1, <1>2, <2>1 DEF TypeOK
<1>7. Sweeps'
  BY <1>1 DEF Sweeps
<1> QED BY <1>2, <1>4, <1>5, <1>6, <1>7

-----------------------------------------------------------------------------

\* A step of terms and sweeps by which no delivery and no subscription moves.
LEMMA BackgroundStep ==
    ASSUME Basis, UNCHANGED <<now, stripeVars, work>>, Grows, TypeOK', Rows', Terms', Sweeps',
           \A s \in Subs : mirror[s] # None =>
              mirror'[s].at = mirror[s].at /\ mirror'[s].status = mirror[s].status /\ mirror'[s].plan = mirror[s].plan,
           \A s \in Subs : mirror[s] = None => mirror'[s] = None
    PROVE  Basis'
<1> USE DEF Basis
<1>1. UNCHANGED <<now, stripe, events, issued, work>>
  BY DEF stripeVars
<1>2. Coming'
  BY <1>1, ComingKept DEF Consumed
<1>3. Deliveries'
  BY <1>1, OthersDeliver DEF Deliveries
<1>4. History'
  <2>1. \A s \in Subs : mirror'[s] # None => \E y \in Facts(s) : Twins(mirror'[s], y)
    BY RowIsFact DEF Twins
  <2> DEFINE N == {}
  <2>2. events' \subseteq events \cup N /\ \A x : x \notin N
    BY <1>1
  <2>3. \A v \in Workers : work'[v].event \in {work[v].event, None} \cup events
    BY <1>1
  <2> HIDE DEF N
  <2>4. \A s \in Subs : \A x \in Facts(s)' : (\E y \in Facts(s) : Twins(x, y)) \/ (x \in N /\ x.sub = s)
    BY <2>1, <2>2, <2>3, FactsCome
  <2>5. now' \in Int /\ now <= now'
    BY <1>1 DEF TypeOK
  <2> QED BY <1>1, <2>2, <2>4, <2>5, HistoryKept
<1> QED BY <1>2, <1>3, <1>4

LEMMA ActivateKeepsBasis ==
    ASSUME Basis, NEW o \in Orders, NEW plan \in Plans, NEW paidAt \in 0 .. MaxTime,
           Activate(o, plan, paidAt)
    PROVE  Basis'
<1> USE DEF Basis
<1>1. UNCHANGED <<now, stripeVars, mirror, work, sweep, alerted, faults>>
  BY DEF Activate
<1>2. /\ Terms' /\ terms' \in [Orders -> CryptoTerm \cup {None}]
      /\ terms[o] = None /\ \E t \in CryptoTerm : terms' = [terms EXCEPT ![o] = t]
  BY ActivateKeepsTerms
<1>3. tier' \in Plans \cup {0}
  <2>1. tier \in Int /\ plan \in Int /\ tier \in Plans \cup {0} /\ tier' = Max({tier, plan})
    BY DEF TypeOK, Activate
  <2> QED BY <2>1, MaxOfTwo
<1>4. TypeOK'
  BY <1>1, <1>2, <1>3 DEF TypeOK, stripeVars
<1>5. Sweeps'
  <2>1. \A x \in Orders : terms[x] # None => terms'[x] = terms[x]
    BY <1>2 DEF TypeOK
  <2> QED BY <1>1, <2>1 DEF Sweeps
<1>6. Rows' /\ Grows
  BY <1>1, UnchangedGrows DEF Rows, RowIsSound
<1> QED BY <1>1, <1>2, <1>4, <1>5, <1>6, BackgroundStep

LEMMA RefundFirstKeepsBasis ==
    ASSUME Basis, NEW o \in Orders, NEW plan \in Plans, RefundFirst(o, plan)
    PROVE  Basis'
<1> USE DEF Basis
<1>1. UNCHANGED <<now, stripeVars, mirror, tier, work, sweep, alerted, faults>>
  BY DEF RefundFirst
<1>2. /\ Terms' /\ terms' \in [Orders -> CryptoTerm \cup {None}]
      /\ terms[o] = None /\ \E t \in CryptoTerm : terms' = [terms EXCEPT ![o] = t]
  BY RefundFirstKeepsTerms
<1>3. TypeOK'
  BY <1>1, <1>2 DEF TypeOK, stripeVars
<1>4. Sweeps'
  <2>1. \A x \in Orders : terms[x] # None => terms'[x] = terms[x]
    BY <1>2 DEF TypeOK
  <2> QED BY <1>1, <2>1 DEF Sweeps
<1>5. Rows' /\ Grows
  BY <1>1, UnchangedGrows DEF Rows, RowIsSound
<1> QED BY <1>1, <1>2, <1>3, <1>4, <1>5, BackgroundStep

LEMMA IdleIsJob == IdleJob \in Job /\ IdleJob.step = "idle" /\ IdleJob.ids = {} /\ IdleJob.asOf = 0
BY DEF IdleJob, Job

LEMMA RefundKeepsBasis ==
    ASSUME Basis, NEW o \in Orders, Refund(o)
    PROVE  Basis'
<1> USE DEF Basis
<1> DEFINE job == [step |-> "recompute", ids |-> {o}, asOf |-> now]
<1>1. /\ UNCHANGED <<now, stripeVars, mirror, tier, work, alerted, faults>>
      /\ terms[o] # None /\ terms[o].ends > now /\ terms' = Restacked(o, now)
      /\ sweep' = [sweep EXCEPT !["refund"] = job] /\ now \in 0 .. MaxTime
  BY DEF Refund, TypeOK
<1>2. Terms'
  BY <1>1, RefundKeepsTerms
<1>3. terms' \in [Orders -> CryptoTerm \cup {None}]
  BY <1>1, RestackedIs
<1>4. job \in Job /\ job.asOf = now /\ job.step = "recompute"
  BY <1>1 DEF Job
<1> HIDE DEF job
<1>5. /\ sweep' \in [Jobs -> Job] /\ sweep'["refund"] = job
      /\ sweep'["grace"] = sweep["grace"] /\ sweep'["expiry"] = sweep["expiry"]
  BY <1>1, <1>4 DEF TypeOK, Jobs
<1>6. TypeOK'
  BY <1>1, <1>3, <1>5 DEF TypeOK, stripeVars
<1>7. Sweeps'
  <2>1. ASSUME NEW x \in sweep["expiry"].ids PROVE terms'[x] # None /\ terms'[x].ends <= now
    <3>1. x \in Orders /\ terms[x] # None /\ terms[x].ends <= now
      BY DEF Sweeps
    <3>2. ~IsLater(x, o)
      <4>1. /\ terms[x].starts \in Int /\ terms[x].ends \in Int /\ terms[x].starts <= terms[x].ends
            /\ terms[o].ends \in Int
        BY <1>1, <3>1, TermsTyped DEF Terms, TermIsSound
      <4> QED BY <1>1, <3>1, <4>1 DEF IsLater
    <3>3. x # o
      BY <1>1, <3>1, TermsTyped
    <3> QED BY <1>1, <3>1, <3>2, <3>3, RestackedIs
  <2>2. \A j \in Jobs : sweep'[j].asOf <= now
    BY <1>1, <1>4, <1>5 DEF Sweeps, Jobs
  <2> QED BY <1>1, <1>4, <1>5, <2>1, <2>2 DEF Sweeps
<1>8. Rows' /\ Grows
  BY <1>1, UnchangedGrows DEF Rows, RowIsSound
<1> QED BY <1>1, <1>2, <1>6, <1>7, <1>8, BackgroundStep

\* A step of sweep j alone.
LEMMA SweepAlone ==
    ASSUME Basis, NEW j \in Jobs, NEW k \in Job, sweep' = [sweep EXCEPT ![j] = k],
           UNCHANGED <<now, stripeVars, mirror, terms, work, alerted>>,
           tier' \in Plans \cup {0}, faults' \in 0 .. MaxFaults, k.asOf <= now,
           j = "grace" => k.ids \subseteq Subs,
           j = "expiry" => k.ids \subseteq Orders /\ \A o \in k.ids : terms[o] # None /\ terms[o].ends <= now,
           j = "refund" => k.step # "mark"
    PROVE  Basis'
<1> USE DEF Basis
<1>1. sweep' \in [Jobs -> Job] /\ sweep'[j] = k /\ \A i \in Jobs \ {j} : sweep'[i] = sweep[i]
  BY DEF TypeOK
<1>2. TypeOK'
  BY <1>1 DEF TypeOK, stripeVars
<1>3. Sweeps'
  BY <1>1 DEF Sweeps, Jobs
<1>4. Rows' /\ Terms' /\ Grows
  BY UnchangedGrows DEF Rows, RowIsSound, Terms, TermIsSound, Apart, Continues
<1> QED BY <1>2, <1>3, <1>4, BackgroundStep

LEMMA StartSweepKeepsBasis ==
    ASSUME Basis, NEW j \in Jobs, j # "refund", StartSweep(j)
    PROVE  Basis'
<1> USE DEF Basis
<1> DEFINE k == [step |-> "recompute", ids |-> Listed(j), asOf |-> now]
<1>1. now \in 0 .. MaxTime /\ tier \in Plans \cup {0} /\ faults \in 0 .. MaxFaults
  BY DEF TypeOK
<1>2. /\ j = "grace" => Listed(j) \subseteq Subs
      /\ j = "expiry" => Listed(j) \subseteq Orders /\ \A o \in Listed(j) : terms[o] # None /\ terms[o].ends <= now
      /\ Listed(j) \subseteq Subs \cup Orders
  BY DEF Listed, GraceEnded, Expired, Jobs
<1>3. k \in Job
  BY <1>1, <1>2 DEF Job
<1>4. sweep' = [sweep EXCEPT ![j] = k] /\ UNCHANGED <<now, stripeVars, mirror, terms, tier, work, alerted, faults>>
  BY DEF StartSweep, planVars
<1>5. k.ids = Listed(j) /\ k.asOf = now /\ now <= now
  BY <1>1
<1> HIDE DEF k
<1> QED BY <1>1, <1>2, <1>3, <1>4, <1>5, SweepAlone

LEMMA SweepRecomputeKeepsBasis ==
    ASSUME Basis, NEW j \in Jobs, Recompute(j)
    PROVE  Basis'
<1> USE DEF Basis
<1> DEFINE k == IF j = "refund" THEN IdleJob ELSE [sweep[j] EXCEPT !.step = "mark"]
<1>1. tier' \in Plans \cup {0} /\ faults \in 0 .. MaxFaults /\ sweep[j] \in Job /\ now \in Nat
  <2>1. faults \in 0 .. MaxFaults /\ sweep[j] \in Job /\ now \in Nat
    BY DEF TypeOK
  <2>2. tier' \in BestRemaining(sweep[j].asOf)
    BY DEF Recompute
  <2>3. tier' \in Plans \cup {0}
    BY <2>2, RemainingIsHeld
  <2> QED BY <2>1, <2>3
<1>2. sweep' = [sweep EXCEPT ![j] = k] /\ UNCHANGED <<now, stripeVars, mirror, terms, work, alerted, faults>>
  BY DEF Recompute
<1>3. CASE j = "refund"
  <2>1. k = IdleJob /\ IdleJob \in Job /\ IdleJob.ids = {} /\ IdleJob.asOf <= now /\ IdleJob.step # "mark"
    BY <1>1, <1>3, IdleIsJob
  <2>2. sweep' = [sweep EXCEPT ![j] = IdleJob] /\ faults' \in 0 .. MaxFaults
    BY <1>1, <1>2, <2>1
  <2> QED BY <1>1, <1>2, <1>3, <2>1, <2>2, SweepAlone
<1>4. CASE j # "refund"
  <2>1. k \in Job /\ k.asOf = sweep[j].asOf /\ k.ids = sweep[j].ids
    BY <1>1, <1>4 DEF Job
  <2> HIDE DEF k
  <2>2. /\ k.asOf <= now
        /\ j = "grace" => k.ids \subseteq Subs
        /\ j = "expiry" => k.ids \subseteq Orders /\ \A o \in k.ids : terms[o] # None /\ terms[o].ends <= now
    BY <2>1 DEF Sweeps
  <2> QED BY <1>1, <1>2, <1>4, <2>1, <2>2, SweepAlone
<1> QED BY <1>3, <1>4

LEMMA MarkKeepsBasis ==
    ASSUME Basis, NEW j \in Jobs, Mark(j)
    PROVE  Basis'
<1> USE DEF Basis
<1>1. /\ UNCHANGED <<now, stripeVars, tier, work, alerted, faults>>
      /\ sweep' = [sweep EXCEPT ![j] = IdleJob] /\ now \in Nat
  BY DEF Mark, TypeOK
<1>2. Rows' /\ Grows
  BY MarkKeepsRows
<1>3. /\ sweep' \in [Jobs -> Job] /\ sweep'[j] = IdleJob /\ \A i \in Jobs \ {j} : sweep'[i] = sweep[i]
  BY <1>1, IdleIsJob DEF TypeOK
<1>4. \A s \in Subs : /\ mirror[s] # None => /\ mirror'[s].at = mirror[s].at /\ mirror'[s].status = mirror[s].status
                                             /\ mirror'[s].plan = mirror[s].plan
                      /\ mirror[s] = None => mirror'[s] = None
  <2> SUFFICES ASSUME NEW s \in Subs
               PROVE  /\ mirror[s] # None => /\ mirror'[s].at = mirror[s].at /\ mirror'[s].status = mirror[s].status
                                             /\ mirror'[s].plan = mirror[s].plan
                      /\ mirror[s] = None => mirror'[s] = None
    OBVIOUS
  <2>1. mirror'[s] = mirror[s] \/ (mirror[s] # None /\ mirror'[s] = [mirror[s] EXCEPT !.ended = TRUE])
    BY DEF Mark, Marked, GraceEnded
  <2>2. mirror[s] # None => mirror[s] \in Row
    BY DEF TypeOK
  <2>3. \A r \in Row : LET q == [r EXCEPT !.ended = TRUE] IN q.at = r.at /\ q.status = r.status /\ q.plan = r.plan
    BY DEF Row
  <2> QED BY <2>1, <2>2, <2>3
<1>5. /\ terms' \in [Orders -> CryptoTerm \cup {None}]
      /\ \A o \in Orders :
            \/ terms'[o] = terms[o]
            \/ /\ terms[o] # None /\ terms'[o] # None /\ terms[o].ends <= now /\ terms'[o].ends = terms[o].ends
               /\ terms'[o].starts = terms[o].starts /\ terms'[o].plan = terms[o].plan
               /\ terms'[o].refunded = terms[o].refunded
  <2> DEFINE ids == sweep["expiry"].ids
             q(o) == [terms[o] EXCEPT !.done = TRUE]
  <2>1. CASE j # "expiry"
    BY <2>1 DEF Mark, TypeOK
  <2>2. CASE j = "expiry"
    <3>1. terms' = [o \in Orders |-> IF o \in ids THEN q(o) ELSE terms[o]]
      BY <2>2 DEF Mark
    <3>2. \A o \in ids : o \in Orders /\ terms[o] \in CryptoTerm /\ terms[o] # None /\ terms[o].ends <= now
      BY TermsTyped DEF Sweeps
    <3>3. ASSUME NEW o \in ids
          PROVE  /\ q(o) \in CryptoTerm /\ q(o).ends = terms[o].ends /\ q(o).starts = terms[o].starts
                 /\ q(o).plan = terms[o].plan /\ q(o).refunded = terms[o].refunded
      <4>1. terms[o] \in CryptoTerm
        BY <3>2
      <4> QED BY <4>1 DEF CryptoTerm
    <3>4. \A o \in Orders : terms[o] \in CryptoTerm \cup {None}
      BY DEF TypeOK
    <3> HIDE DEF q, ids
    <3>5. \A o \in ids : q(o) # None
      BY <3>3
    <3>6. terms' \in [Orders -> CryptoTerm \cup {None}]
      BY <3>1, <3>3, <3>4
    <3> QED BY <3>1, <3>2, <3>3, <3>5, <3>6
  <2> QED BY <2>1, <2>2
<1>6. TypeOK'
  BY <1>1, <1>2, <1>3, <1>5 DEF TypeOK, Grows, stripeVars
<1>7. Terms'
  <2> SUFFICES ASSUME NEW a \in Orders, terms'[a] # None
               PROVE  /\ TermIsSound(terms'[a], now) /\ Continues(a)'
                      /\ \A b \in Orders \ {a} : terms'[b] # None => Apart(terms'[a], terms'[b])
    BY <1>1 DEF Terms, Apart, TermIsSound
  <2>1. \A x \in Orders : /\ terms'[x] # None <=> terms[x] # None
                          /\ terms[x] # None =>
                               /\ terms'[x].ends = terms[x].ends /\ terms'[x].starts = terms[x].starts
                               /\ terms'[x].plan = terms[x].plan /\ terms'[x].refunded = terms[x].refunded
    BY <1>5
  <2>2. TermIsSound(terms'[a], now)
    BY <1>5, <2>1 DEF Terms, TermIsSound
  <2>3. Continues(a)'
    BY <1>1, <2>1 DEF Terms, Continues
  <2>4. ASSUME NEW b \in Orders \ {a}, terms'[b] # None PROVE Apart(terms'[a], terms'[b])
    <3>1. Apart(terms[a], terms[b])
      BY <2>1, <2>4 DEF Terms
    <3> QED BY <2>1, <2>4, <3>1 DEF Apart
  <2> QED BY <2>2, <2>3, <2>4
<1>8. Sweeps'
  <2>1. \A i \in Jobs : sweep'[i].asOf <= now
    BY <1>1, <1>3, IdleIsJob DEF Sweeps
  <2>2. \A i \in Jobs : sweep'[i] = sweep[i] \/ (sweep'[i].ids = {} /\ sweep'[i].step = "idle")
    BY <1>3, IdleIsJob
  <2>3. \A o \in Orders : terms[o] # None => terms'[o] # None /\ terms'[o].ends = terms[o].ends
    BY <1>5
  <2>4. {"grace", "expiry", "refund"} \subseteq Jobs
    BY DEF Jobs
  <2> QED BY <1>1, <2>1, <2>2, <2>3, <2>4 DEF Sweeps
<1> QED BY <1>1, <1>2, <1>4, <1>6, <1>7, <1>8, BackgroundStep

LEMMA SweepFailsKeepsBasis ==
    ASSUME Basis, NEW j \in Jobs, SweepFails(j)
    PROVE  Basis'
<1> USE DEF Basis
<1>1. /\ sweep' = [sweep EXCEPT ![j] = IdleJob] /\ UNCHANGED <<now, stripeVars, mirror, terms, tier, work, alerted>>
      /\ tier \in Plans \cup {0} /\ now \in Nat
  BY DEF SweepFails, planVars, TypeOK
<1>2. faults' \in 0 .. MaxFaults
  BY FaultIs DEF SweepFails
<1>3. IdleJob \in Job /\ IdleJob.ids = {} /\ IdleJob.asOf <= now /\ IdleJob.step # "mark"
  BY <1>1, IdleIsJob
<1>4. tier' \in Plans \cup {0}
  BY <1>1
<1> QED BY <1>1, <1>2, <1>3, <1>4, SweepAlone

LEMMA InitBasis == Init => Basis
<1> SUFFICES ASSUME Init PROVE Basis
  OBVIOUS
<1> USE DEF Init
<1>1. TypeOK
  <2>1. stripe \in [Subs -> Subscription \cup {None}] /\ mirror \in [Subs -> Row \cup {None}]
        /\ terms \in [Orders -> CryptoTerm \cup {None}]
    OBVIOUS
  <2>2. work \in [Workers -> Work] /\ sweep \in [Jobs -> Job]
    BY IdleIsWork, IdleIsJob
  <2>3. now \in 0 .. MaxTime /\ issued \in 0 .. MaxEvents /\ faults \in 0 .. MaxFaults
    OBVIOUS
  <2>4. events \subseteq Event /\ tier \in Plans \cup {0} /\ alerted \in BOOLEAN
    OBVIOUS
  <2> QED BY <2>1, <2>2, <2>3, <2>4 DEF TypeOK
<1>2. \A s \in Subs : Facts(s) = {}
  BY DEF Facts, IdleWork
<1>3. History
  BY <1>2 DEF History
<1>4. Coming /\ Rows /\ Terms
  BY DEF Coming, Rows, Terms
<1>5. Deliveries
  BY DEF Deliveries, Delivering, IdleWork
<1>6. Sweeps
  BY IdleIsJob DEF Sweeps, Jobs
<1> QED BY <1>1, <1>3, <1>4, <1>5, <1>6 DEF Basis

LEMMA StutterKeepsBasis == ASSUME Basis, UNCHANGED vars PROVE Basis'
<1> USE DEF Basis
<1>1. UNCHANGED <<now, stripe, events, issued, mirror, terms, tier, work, sweep, alerted, faults>>
  BY DEF vars, stripeVars, planVars
<1>2. \A w \in Workers : work'[w].event \in {work[w].event, None} \cup events
  BY <1>1
<1>3. History' /\ Coming' /\ Rows' /\ Terms' /\ Grows
  BY <1>1, <1>2, QuietStep
<1>4. Deliveries'
  BY <1>1, <1>3, OthersDeliver DEF Deliveries
<1>5. TypeOK' /\ Sweeps'
  BY <1>1 DEF TypeOK, Sweeps
<1> QED BY <1>3, <1>4, <1>5

LEMMA BasisStep == Basis /\ [Next]_vars => Basis'
<1> SUFFICES ASSUME Basis, [Next]_vars PROVE Basis'
  OBVIOUS
<1>1. CASE UNCHANGED vars
  BY <1>1, StutterKeepsBasis
<1>2. CASE Tick
  BY <1>2, TickKeepsBasis
<1>3. CASE \E s \in Subs, plan \in Plans : Subscribe(s, plan) \/ ChangePlan(s, plan)
  BY <1>3, SubscriptionsKeepBasis
<1>4. CASE \E s \in Subs : Move(s) \/ Cancel(s) \/ Edit(s)
  <2>1. PICK s \in Subs : Move(s) \/ Cancel(s) \/ Edit(s)
    BY <1>4
  <2>2. stripe[s] # None
    BY <2>1 DEF Move, Cancel, Edit
  <2>3. stripe[s].plan \in Plans
    BY <2>2 DEF Basis, TypeOK, Subscription
  <2> QED BY <2>1, <2>3, SubscriptionsKeepBasis
<1>5. CASE \E w \in Workers, e \in events : Begin(w, e)
  BY <1>5, BeginKeepsBasis
<1>6. CASE \E w \in Workers : Proceed(w) \/ DeliveryFails(w)
  <2>1. PICK w \in Workers : Proceed(w) \/ DeliveryFails(w)
    BY <1>6
  <2>2. CASE DeliveryFails(w)
    BY <2>2, DeliveryFailsKeepsBasis
  <2>3. CASE Proceed(w)
    BY <2>3, FindSubscriptionKeepsBasis, UpsertKeepsBasis, FindStaleKeepsBasis, CancelReplacedKeepsBasis,
       CancelOneKeepsBasis, RecomputeKeepsBasis, RecordKeepsBasis DEF Proceed
  <2> QED BY <2>1, <2>2, <2>3
<1>7. CASE \E o \in Orders, plan \in Plans : \/ \E paidAt \in 0 .. MaxTime : Activate(o, plan, paidAt)
                                             \/ RefundFirst(o, plan)
  BY <1>7, ActivateKeepsBasis, RefundFirstKeepsBasis
<1>8. CASE \E o \in Orders : Refund(o)
  BY <1>8, RefundKeepsBasis
<1>9. CASE \E j \in Jobs : Sweep(j) \/ SweepFails(j)
  BY <1>9, StartSweepKeepsBasis, SweepRecomputeKeepsBasis, MarkKeepsBasis, SweepFailsKeepsBasis DEF Sweep
<1> QED BY <1>1, <1>2, <1>3, <1>4, <1>5, <1>6, <1>7, <1>8, <1>9 DEF Next

\* What Stripe said, what is still to be delivered, what each delivery holds, the rows
\* and the terms stay in accord, whatever is lost, repeated, reordered or fails.
THEOREM BasisHolds == Spec => []Basis
<1>1. Init => Basis
  BY InitBasis
<1>2. Basis /\ [Next]_vars => Basis'
  BY BasisStep
<1> QED BY <1>1, <1>2, PTL DEF Spec

\* Once every event is answered, the mirror says what Stripe says.
LEMMA BasisConverges == Basis => MirrorConverges
<1> SUFFICES ASSUME Basis, Answered, NEW s \in Subs, stripe[s] # None
             PROVE  mirror[s] # None /\ mirror[s].status = stripe[s].status /\ mirror[s].plan = stripe[s].plan
  BY DEF MirrorConverges
<1>1. Reached(s, stripe[s])
  BY DEF Basis, Coming, Answered
<1>2. mirror[s] # None /\ NoLater(stripe[s], mirror[s])
  BY <1>1 DEF Reached
<1>3. mirror[s] \in Facts(s) /\ Dated(mirror[s]) /\ Dated(stripe[s])
  BY <1>2, FactsAre, StripeDated DEF Basis
<1>4. Said(s, mirror[s])
  BY <1>3 DEF Basis, History
<1>5. CASE mirror[s].status = "canceled"
  BY <1>2, <1>4, <1>5 DEF Said
<1>6. CASE mirror[s].status # "canceled"
  <2>1. NoLater(mirror[s], stripe[s])
    BY <1>4, <1>6 DEF Said
  <2>2. mirror[s].at = stripe[s].at /\ mirror[s].status = stripe[s].status
    BY <1>2, <1>3, <2>1, Order
  <2> QED BY <1>2, <1>4, <1>6, <2>2 DEF Said
<1> QED BY <1>5, <1>6

\* Once every event is answered, the rows say what Stripe says (the recency guard
\* of upsertSubscription).
THEOREM MirrorConvergesHolds == Spec => []MirrorConverges
BY BasisHolds, BasisConverges, PTL

LEMMA TermsArePaid == Basis => OnePaymentOneTerm
<1> SUFFICES ASSUME Basis, NEW o \in Orders, terms[o] # None, ~terms[o].refunded
             PROVE  /\ terms[o].ends - terms[o].starts = Term
                    /\ \A x \in Orders \ {o} : terms[x] # None /\ terms[x].plan = terms[o].plan =>
                          {terms[x].starts, terms[o].starts} \cap Covered(x) \cap Covered(o) = {}
  BY DEF OnePaymentOneTerm
<1>1. /\ TermIsSound(terms[o], now) /\ terms[o].starts \in Int /\ terms[o].ends \in Int /\ Term \in Int
  BY TermsTyped DEF Basis, Terms
<1>2. terms[o].ends - terms[o].starts = Term
  BY <1>1 DEF TermIsSound
<1>3. ASSUME NEW x \in Orders \ {o}, terms[x] # None, terms[x].plan = terms[o].plan
      PROVE  {terms[x].starts, terms[o].starts} \cap Covered(x) \cap Covered(o) = {}
  <2>1. Apart(terms[o], terms[x]) /\ terms[x].starts \in Int /\ terms[x].ends \in Int
    BY <1>3, TermsTyped DEF Basis, Terms
  <2>2. \/ terms[o].ends <= terms[x].starts \/ terms[x].ends <= terms[o].starts
        \/ terms[x].starts = terms[x].ends
    BY <1>3, <2>1 DEF Apart
  <2> QED BY <1>1, <2>1, <2>2 DEF Covered
<1> QED BY <1>2, <1>3

\* A payment buys one term: what was not refunded keeps its length, and no two terms
\* of a plan overlap (activateCryptoEntitlement, revokeCryptoEntitlementByOrderId).
THEOREM OnePaymentOneTermHolds == Spec => []OnePaymentOneTerm
BY BasisHolds, TermsArePaid, PTL
-----------------------------------------------------------------------------
(* The plan *)

RowHolds(row, t) == row # None /\ (row.status = "active" \/ InGrace(row, t))

LEMMA HeldIs ==
    /\ \A p : p \in Held <=> \/ \E s \in Subs : RowHolds(mirror[s], now) /\ p = mirror[s].plan
                             \/ \E o \in Orders : TermHolds(terms[o], now) /\ p = terms[o].plan
    /\ \A p : p \in Held' <=> \/ \E s \in Subs : RowHolds(mirror'[s], now') /\ p = mirror'[s].plan
                              \/ \E o \in Orders : TermHolds(terms'[o], now') /\ p = terms'[o].plan
BY DEF Held, HeldBySubs, TermPlans, RowHolds, TermHolds, InGrace

LEMMA HeldSame ==
    ASSUME \A s \in Subs : /\ RowHolds(mirror'[s], now') <=> RowHolds(mirror[s], now)
                           /\ RowHolds(mirror[s], now) => mirror'[s].plan = mirror[s].plan,
           \A o \in Orders : /\ TermHolds(terms'[o], now') <=> TermHolds(terms[o], now)
                             /\ TermHolds(terms[o], now) => terms'[o].plan = terms[o].plan
    PROVE  Held' = Held
<1>1. \A p : p \in Held' <=> p \in Held
  BY HeldIs
<1> QED BY <1>1

LEMMA HeldUnchanged == ASSUME UNCHANGED <<now, mirror, terms>> PROVE Held' = Held
BY HeldSame

\* What a delivery has said of a time is in the past.
LEMMA EventIsPast == ASSUME Basis, NEW w \in Workers, work[w].event \in Event
                     PROVE  work[w].event.at <= now /\ work[w].event.at \in Int /\ now \in Int
<1> DEFINE e == work[w].event
<1>1. e # None /\ e.sub \in Subs /\ e.at \in Int /\ now \in Int
  BY DEF Event, Basis, TypeOK
<1>2. e \in Facts(e.sub)
  BY <1>1, FactsAre DEF Basis
<1> QED BY <1>1, <1>2 DEF Basis, History, Said

LEMMA JudgedNow == ASSUME NEW at \in Int, now \in Int, at <= now PROVE JudgedAt(at) = now
BY DEF JudgedAt

\* A recompute of what remains makes the plan one that is held.
LEMMA RemainingIsFresh ==
    ASSUME Basis, NEW at \in Int, at <= now, tier' \in BestRemaining(at), UNCHANGED <<now, mirror, terms>>
    PROVE  Fresh'
<1> DEFINE remaining == {s \in Subs : StillGrants(s, at)}
           held == TermPlans(JudgedAt(at)) \cup SubsPlans(remaining)
<1>1. now \in Int /\ JudgedAt(at) = now
  BY JudgedNow DEF Basis, TypeOK
<1>2. /\ tier' \in held \cup {0} /\ (held # {} => tier' # 0)
  BY RemainingIsHeld DEF Basis
<1>3. \A s \in Subs : StillGrants(s, at) <=> RowHolds(mirror[s], now)
  <2> SUFFICES ASSUME NEW s \in Subs, mirror[s] # None
               PROVE  StillGrants(s, at) <=> RowHolds(mirror[s], now)
    BY DEF StillGrants, RowHolds
  <2>1. RowIsSound(mirror[s], now) /\ mirror[s] \in Row
    BY DEF Basis, Rows, TypeOK
  <2>2. mirror[s].ended => ~InGrace(mirror[s], now)
    <3>1. mirror[s].since \in Int /\ Grace \in Int
      BY <2>1 DEF Row
    <3> QED BY <1>1, <2>1, <3>1 DEF RowIsSound, InGrace
  <2> QED BY <1>1, <2>2 DEF StillGrants, RowHolds
<1>4. held = Held
  BY <1>1, <1>3, HeldIs DEF SubsPlans, TermPlans
<1>5. Held' = Held
  BY HeldUnchanged
<1> HIDE DEF held
<1> QED BY <1>2, <1>4, <1>5 DEF Fresh

\* The rows, the terms and the plan are as they were, nobody is about to record an
\* event who was not, and no sweep is about to mark that was not.
LEMMA OwedStays ==
    ASSUME TierIsOwed, UNCHANGED <<now, mirror, terms, tier>>, events \subseteq events',
           \A w \in Workers : work'[w].step = "record" => work[w].step = "record" /\ work'[w].event = work[w].event,
           \A j \in Jobs : sweep'[j].step = "mark" => sweep'[j] = sweep[j]
    PROVE  TierIsOwed'
<1>1. Held' = Held
  BY HeldUnchanged
<1>2. CASE Fresh
  BY <1>1, <1>2 DEF Fresh, TierIsOwed
<1>3. ASSUME NEW s \in Subs, RowOwes(s) PROVE RowOwes(s)'
  <2>1. \A e \in events : Unanswered(e) => Unanswered(e)'
    BY DEF Unanswered, Step
  <2> QED BY <1>3, <2>1 DEF RowOwes
<1>4. GraceOwes => GraceOwes'
  BY DEF GraceOwes, GraceEnded, Marked, Jobs
<1>5. ExpiryOwes => ExpiryOwes'
  BY DEF ExpiryOwes, Expired, Jobs
<1> QED BY <1>2, <1>3, <1>4, <1>5 DEF TierIsOwed

LEMMA SubscriptionsStillOwe ==
    ASSUME TierIsOwed, NEW s \in Subs, StripeStep(s),
           UNCHANGED <<now, planVars, work, sweep, alerted, faults>>
    PROVE  TierIsOwed'
<1>1. UNCHANGED <<now, mirror, terms, tier, work, sweep>> /\ events \subseteq events'
  BY DEF planVars, StripeStep, Says
<1> QED BY <1>1, OwedStays

\* A delivery that does not record.
LEMMA DeliveryStillOwes ==
    ASSUME TierIsOwed, NEW w \in Workers, UNCHANGED <<now, mirror, terms, tier, sweep>>, events \subseteq events',
           work'[w].step # "record", \A v \in Workers \ {w} : work'[v] = work[v]
    PROVE  TierIsOwed'
BY OwedStays

LEMMA SweepStillOwes ==
    ASSUME Basis, TierIsOwed, NEW j \in Jobs, StartSweep(j) \/ SweepFails(j)
    PROVE  TierIsOwed'
<1>1. UNCHANGED <<now, mirror, terms, tier, work>> /\ events \subseteq events'
  BY DEF StartSweep, SweepFails, planVars, stripeVars
<1>2. \A i \in Jobs : sweep'[i].step = "mark" => sweep'[i] = sweep[i]
  BY DEF StartSweep, SweepFails, IdleJob, Basis, TypeOK
<1> QED BY <1>1, <1>2, OwedStays

LEMMA RecordStillOwes ==
    ASSUME Basis, TierIsOwed, NEW w \in Workers, RecordEvent(w)
    PROVE  TierIsOwed'
<1> DEFINE e == work[w].event
<1>1. /\ UNCHANGED <<now, mirror, terms, tier, sweep>> /\ events' = events \ {e} /\ Step(w, "record")
  BY DEF RecordEvent, planVars
<1>2. work'[w] = IdleWork /\ \A v \in Workers \ {w} : work'[v] = work[v]
  BY RecordKeepsBasis
<1>3. Held' = Held
  BY <1>1, HeldUnchanged
<1>4. CASE Fresh
  BY <1>1, <1>3, <1>4 DEF Fresh, TierIsOwed
<1>5. ASSUME NEW s \in Subs, RowOwes(s) PROVE RowOwes(s)'
  <2>1. \A x \in events : Unanswered(x) => x # e
    BY <1>1 DEF Unanswered
  <2>2. \A x \in events : Unanswered(x) => Unanswered(x)'
    BY <1>1, <1>2, <2>1 DEF Unanswered, Step, IdleWork
  <2> QED BY <1>1, <1>5, <2>2 DEF RowOwes, Unanswered
<1>6. GraceOwes => GraceOwes'
  BY <1>1 DEF GraceOwes, GraceEnded, Marked
<1>7. ExpiryOwes => ExpiryOwes'
  BY <1>1 DEF ExpiryOwes, Expired
<1> QED BY <1>4, <1>5, <1>6, <1>7 DEF TierIsOwed

LEMMA LeaveIsFresh ==
    ASSUME Basis, NEW w \in Workers, Leave(w)
    PROVE  TierIsOwed'
<1>1. ~Step(w, "idle")
  BY DEF Leave, Step
<1>2. work[w].event \in Event
  BY <1>1, DeliveryHasEvent DEF Basis
<1>3. work[w].event.at \in Int /\ work[w].event.at <= now
  BY <1>2, EventIsPast
<1>4. tier' \in BestRemaining(work[w].event.at) /\ UNCHANGED <<now, mirror, terms>>
  BY DEF Leave
<1>5. Fresh'
  BY <1>3, <1>4, RemainingIsFresh
<1> QED BY <1>5 DEF TierIsOwed

LEMMA SweepIsFresh ==
    ASSUME Basis, NEW j \in Jobs, Recompute(j)
    PROVE  TierIsOwed'
<1>1. sweep[j].asOf \in Int /\ sweep[j].asOf <= now
  BY DEF Basis, TypeOK, Job, Sweeps
<1>2. tier' \in BestRemaining(sweep[j].asOf) /\ UNCHANGED <<now, mirror, terms>>
  BY DEF Recompute
<1>3. Fresh'
  BY <1>1, <1>2, RemainingIsFresh
<1> QED BY <1>3 DEF TierIsOwed

\* A grant makes the plan one that is held, or there is no active row for its
\* event to have made.
LEMMA GrantStillOwes ==
    ASSUME Basis, TierIsOwed, NEW w \in Workers, Grant(w)
    PROVE  TierIsOwed'
<1> DEFINE e == work[w].event
           active == {s \in Subs : mirror[s] # None /\ mirror[s].status = "active"}
           held == SubsPlans(active) \cup TermPlans(JudgedAt(e.at))
<1>1. ~Step(w, "idle") /\ work[w].step = "grant"
  BY DEF Grant, Step
<1>2. e \in Event /\ e # None /\ e.sub \in Subs /\ Delivering(w)
  BY <1>1, DeliveryHasEvent DEF Basis
<1>3. JudgedAt(e.at) = now
  BY <1>2, EventIsPast, JudgedNow
<1>4. e.status = "active" /\ ~e.deleted
  BY <1>1, <1>2 DEF Delivering
<1>5. UNCHANGED <<now, mirror, terms, sweep, events>> /\ tier' = BestActive(e.at)
  BY DEF Grant, stripeVars
<1>6. Held' = Held
  BY <1>5, HeldUnchanged
<1>7. held \subseteq Held
  BY <1>3, HeldIs DEF SubsPlans, TermPlans, RowHolds
<1>8. work'[w].step = "record" /\ work'[w].event = e /\ \A v \in Workers \ {w} : work'[v] = work[v]
  BY RecomputeKeepsBasis
<1>9. CASE held # {}
  <2>1. tier' \in held /\ tier' \in Plans
    BY <1>5, <1>9, ActiveIsHeld DEF Basis
  <2>2. tier' \in Held' /\ tier' # 0
    <3> HIDE DEF held
    <3> QED BY <1>6, <1>7, <2>1
  <2> QED BY <2>2 DEF TierIsOwed, Fresh
<1>10. CASE held = {}
  <2>1. tier' = tier
    BY <1>5, <1>10, ActiveIsHeld DEF Basis
  <2>2. \A s \in Subs : mirror[s] # None => mirror[s].status # "active"
    BY <1>10 DEF SubsPlans
  <2>3. CASE Fresh
    BY <1>6, <2>1, <2>3 DEF Fresh, TierIsOwed
  <2>4. ASSUME NEW s \in Subs, RowOwes(s) PROVE RowOwes(s)'
    <3>1. PICK x \in events : /\ x.sub = s /\ Unanswered(x)
                              /\ IF mirror[s].status = "canceled" THEN x.deleted
                                 ELSE x.at = mirror[s].at /\ x.status = mirror[s].status
      BY <2>4 DEF RowOwes
    <3>2. x # e
      BY <1>4, <2>2, <2>4, <3>1 DEF RowOwes
    <3>3. Unanswered(x)'
      BY <1>5, <1>8, <3>1, <3>2 DEF Unanswered, Step
    <3> QED BY <1>5, <2>4, <3>1, <3>3 DEF RowOwes
  <2>5. GraceOwes => GraceOwes'
    BY <1>5 DEF GraceOwes, GraceEnded, Marked
  <2>6. ExpiryOwes => ExpiryOwes'
    BY <1>5 DEF ExpiryOwes, Expired
  <2> QED BY <2>3, <2>4, <2>5, <2>6 DEF TierIsOwed
<1> QED BY <1>9, <1>10

\* The upsert of an event that changes what the row says is an obligation to
\* recompute the plan, and no other upsert changes what is held.
LEMMA UpsertStillOwes ==
    ASSUME Basis, TierIsOwed, NEW w \in Workers, UpsertSubscription(w),
           NEW e, e = work[w].event, NEW s, s = e.sub
    PROVE  TierIsOwed'
<1> USE DEF Basis
<1> DEFINE row == mirror[s]
           r == mirror'[s]
           to == AfterUpsert(e, work[w].stored, Applies(row, e))
<1>1. ~Step(w, "idle") /\ work[w].step = "upsert"
  BY DEF UpsertSubscription, Step
<1>2. /\ e \in Event /\ e # None /\ s \in Subs /\ Delivering(w) /\ Dated(e)
      /\ row \in Row \cup {None} /\ e.deleted \in BOOLEAN /\ e.status \in Statuses
  BY <1>1, DeliveryHasEvent, EventDated DEF TypeOK, Event
<1>3. UNCHANGED <<now, events, stripe, terms, tier, sweep>>
  BY DEF UpsertSubscription, stripeVars
<1>4. /\ \A x \in Subs \ {s} : mirror'[x] = mirror[x]
      /\ r = IF Applies(row, e) THEN Upserted(row, e) ELSE row
  BY <1>2, UpsertGrows
<1>5. /\ e.deleted => e.status = "canceled"
      /\ e \in events \/ Reached(s, e)
  BY <1>1, <1>2 DEF Delivering
<1>6. /\ e.deleted => to # "record"
      /\ Applies(row, e) /\ e.status \in {"active", "past_due", "unpaid"} => to # "record"
  BY <1>5 DEF AfterUpsert
<1>7. to \in Steps
  BY DEF AfterUpsert, Steps
<1>8. Goto(w, to)
  BY DEF UpsertSubscription
<1> HIDE DEF to
<1>9. work'[w].event = e /\ work'[w].step = to /\ \A v \in Workers \ {w} : work'[v] = work[v]
  BY <1>7, <1>8, GotoIs
<1>10. row # None => row \in Facts(s) /\ Dated(row) /\ row \in Row
  BY <1>2, FactsAre
<1>11. e \in Facts(s)
  BY <1>2, FactsAre
\* Who is not about to record the event is not concerned.
<1>12. \A x \in events : Unanswered(x) /\ (x = e => to # "record") => Unanswered(x)'
  BY <1>3, <1>9 DEF Unanswered, Step
<1>13. ASSUME NEW x \in Subs \ {s}, RowOwes(x) PROVE RowOwes(x)'
  <2>1. mirror'[x] = mirror[x]
    BY <1>4
  <2>2. PICK y \in events : /\ y.sub = x /\ Unanswered(y)
                            /\ IF mirror[x].status = "canceled" THEN y.deleted
                               ELSE y.at = mirror[x].at /\ y.status = mirror[x].status
    BY <1>13 DEF RowOwes
  <2>3. y # e
    BY <2>2
  <2>4. Unanswered(y)' /\ y \in events'
    BY <1>3, <1>12, <2>2, <2>3
  <2> QED BY <1>13, <2>1, <2>2, <2>4 DEF RowOwes
<1>14. ExpiryOwes => ExpiryOwes'
  BY <1>3 DEF ExpiryOwes, Expired
\* If the row still holds what it held, only the row's own event is in question.
<1>15. ASSUME /\ RowHolds(r, now) <=> RowHolds(row, now)
              /\ RowHolds(row, now) => r.plan = row.plan,
              s \in GraceEnded(now) => r # None /\ r.status = row.status /\ r.ended = row.ended /\ r.since = row.since,
              RowOwes(s) => RowOwes(s)'
       PROVE  TierIsOwed'
  <2>1. Held' = Held
    BY <1>3, <1>4, <1>15, HeldSame
  <2>2. Fresh => Fresh'
    BY <1>3, <2>1 DEF Fresh
  <2>3. \A t \in Int : \A x \in Subs : s # x => (x \in GraceEnded(t)' <=> x \in GraceEnded(t))
    BY <1>4 DEF GraceEnded
  <2>4. s \in GraceEnded(now) => \A t : s \in GraceEnded(t) <=> s \in GraceEnded(t)'
    BY <1>15 DEF GraceEnded
  <2>5. GraceOwes => GraceOwes'
    <3> SUFFICES ASSUME NEW x \in GraceEnded(now),
                        ~(sweep["grace"].step = "mark" /\ x \in Marked(sweep["grace"].ids, sweep["grace"].asOf))
                 PROVE  GraceOwes'
      BY DEF GraceOwes
    <3>1. sweep["grace"].asOf \in Int /\ now \in Int
      BY DEF TypeOK, Jobs, Job
    <3>2. x \in Subs
      BY DEF GraceEnded
    <3>3. \A t \in Int : x \in GraceEnded(t) <=> x \in GraceEnded(t)'
      BY <2>3, <2>4, <3>2
    <3>5. x \in GraceEnded(now)'
      BY <1>3, <3>1, <3>3 DEF GraceEnded
    <3>4. x \in Marked(sweep["grace"].ids, sweep["grace"].asOf)' => x \in Marked(sweep["grace"].ids, sweep["grace"].asOf)
      BY <1>3, <3>1, <3>3 DEF Marked, GraceEnded
    <3> QED BY <1>3, <3>4, <3>5 DEF GraceOwes
  <2> QED BY <1>13, <1>14, <1>15, <2>2, <2>5 DEF TierIsOwed
<1>16. CASE ~Applies(row, e)
  <2>1. r = row /\ row # None /\ ~NoLater(row, e)
    BY <1>2, <1>4, <1>16, AppliesIs
  <2>2. ASSUME RowOwes(s) PROVE RowOwes(s)'
    <3>1. PICK y \in events : /\ y.sub = s /\ Unanswered(y)
                              /\ IF row.status = "canceled" THEN y.deleted
                                 ELSE y.at = row.at /\ y.status = row.status
      BY <2>2 DEF RowOwes
    <3>2. y = e => to # "record"
      <4>1. CASE row.status = "canceled"
        BY <1>6, <3>1, <4>1
      <4>2. CASE row.status # "canceled"
        <5>1. StatusRank(row.status) \in Int
          BY <1>10, <2>1, Ranks DEF Dated
        <5> QED BY <2>1, <3>1, <4>2, <5>1 DEF NoLater
      <4> QED BY <4>1, <4>2
    <3>3. Unanswered(y)' /\ y \in events'
      BY <1>3, <1>12, <3>1, <3>2
    <3> QED BY <2>1, <2>2, <3>1, <3>3 DEF RowOwes
  <2> QED BY <1>15, <2>1, <2>2
<1>17. CASE Applies(row, e)
  <2>1. /\ r \in Row /\ r # None /\ r.status = e.status /\ r.plan = e.plan /\ r.at = e.at
        /\ row # None /\ row.status = "past_due" /\ r.status = "past_due" => r.since = row.since /\ r.ended = row.ended
    BY <1>2, <1>4, <1>17, UpsertedRow
  <2>2. row # None => NoLater(row, e)
    BY <1>2, <1>17, AppliesIs
  <2>3. CASE e.status = "canceled" /\ row # None /\ row.status = "canceled"
    <3>1. ~RowHolds(r, now) /\ ~RowHolds(row, now) /\ s \notin GraceEnded(now)
      BY <2>1, <2>3 DEF RowHolds, InGrace, GraceEnded
    <3>2. ASSUME RowOwes(s) PROVE RowOwes(s)'
      <4>1. PICK y \in events : y.sub = s /\ Unanswered(y) /\ y.deleted
        BY <2>3, <3>2 DEF RowOwes
      <4>2. Unanswered(y)' /\ y \in events'
        BY <1>3, <1>6, <1>12, <4>1
      <4> QED BY <2>1, <2>3, <4>1, <4>2 DEF RowOwes
    <3> QED BY <1>15, <3>1, <3>2
  <2>4. CASE e.status = "canceled" /\ ~(row # None /\ row.status = "canceled")
    \* The deletion has yet to be answered.
    <3>1. stripe[s] # None /\ stripe[s].status = "canceled"
      BY <1>2, <1>11, <2>4 DEF History, Said
    <3>2. PICK y \in events : y.sub = s /\ y.deleted
      BY <1>2, <2>4, <3>1 DEF Coming
    <3>3. \A v \in Workers \ {w} : work[v].event = y => ~Step(v, "record")
      <4> SUFFICES ASSUME NEW v \in Workers \ {w}, work[v].event = y, Step(v, "record") PROVE FALSE
        OBVIOUS
      <4>1. Delivering(v) /\ work[v].event # None /\ work[v].event.sub = s /\ work[v].event.status = "canceled"
        BY <3>2, DeliveryHasEvent DEF Step, Deliveries
      <4>2. Reached(s, y)
        BY <4>1 DEF Delivering, Step
      <4>3. row # None
        BY <4>2 DEF Reached
      <4> QED BY <1>2, <2>4, <4>1, <4>2, <4>3, EndReached
    <3>4. Unanswered(y)' /\ y \in events'
      BY <1>3, <1>6, <1>9, <3>2, <3>3 DEF Unanswered, Step
    <3>5. RowOwes(s)'
      BY <2>1, <2>4, <3>2, <3>4 DEF RowOwes
    <3> QED BY <1>2, <3>5 DEF TierIsOwed
  <2>5. CASE e.status # "canceled" /\ row # None /\ row.at = e.at /\ row.status = e.status
    \* The row says it already.
    <3>1. row.plan = e.plan
      BY <1>2, <1>10, <1>11, <2>5 DEF History, Agree
    <3>2. /\ RowHolds(r, now) <=> RowHolds(row, now)
          /\ r.plan = row.plan /\ r.status = row.status /\ r.at = row.at
          /\ s \in GraceEnded(now) => r # None /\ r.status = row.status /\ r.ended = row.ended /\ r.since = row.since
      BY <2>1, <2>5, <3>1 DEF RowHolds, InGrace, GraceEnded
    <3>3. ASSUME RowOwes(s) PROVE RowOwes(s)'
      <4>1. PICK y \in events : y.sub = s /\ Unanswered(y) /\ y.at = row.at /\ y.status = row.status
        BY <2>5, <3>3 DEF RowOwes
      <4>2. row.status # "incomplete"
        BY <3>3 DEF RowOwes
      <4>3. to # "record"
        BY <1>2, <1>6, <1>17, <2>5, <4>2 DEF Statuses
      <4>4. Unanswered(y)' /\ y \in events'
        BY <1>3, <1>12, <4>1, <4>3
      <4> QED BY <2>1, <2>5, <3>2, <4>1, <4>2, <4>4 DEF RowOwes
    <3> QED BY <1>15, <3>2, <3>3
  <2>6. CASE e.status # "canceled" /\ ~(row # None /\ row.at = e.at /\ row.status = e.status)
    <3>1. ~Reached(s, e)
      <4> SUFFICES ASSUME row # None, NoLater(e, row) PROVE FALSE
        BY DEF Reached
      <4> QED BY <1>2, <1>10, <2>2, <2>6, Order
    <3>2. CASE e.status = "incomplete"
      <4>1. row = None
        <5> SUFFICES ASSUME row # None PROVE FALSE
          OBVIOUS
        <5>1. NoLater(e, row)
          BY <1>2, <1>10, <1>11, <3>2 DEF History, Agree
        <5> QED BY <3>1, <5>1 DEF Reached
      <4>2. ~RowHolds(r, now) /\ ~RowHolds(row, now) /\ s \notin GraceEnded(now) /\ ~RowOwes(s)
        BY <2>1, <3>2, <4>1 DEF RowHolds, InGrace, GraceEnded, RowOwes
      <4> QED BY <1>15, <4>2
    <3>3. CASE e.status # "incomplete"
      <4>1. to # "record"
        BY <1>2, <1>6, <1>17, <2>6, <3>3 DEF Statuses
      <4>2. \A v \in Workers \ {w} : work[v].event = e => ~Step(v, "record")
        <5> SUFFICES ASSUME NEW v \in Workers \ {w}, work[v].event = e, Step(v, "record") PROVE FALSE
          OBVIOUS
        <5>1. Delivering(v)
          BY DEF Deliveries
        <5> QED BY <3>1, <5>1 DEF Delivering, Step
      <4>3. Unanswered(e)' /\ e \in events'
        BY <1>3, <1>5, <1>9, <3>1, <4>1, <4>2 DEF Unanswered, Step
      <4>4. r # None /\ r.status # "incomplete" /\ r.status # "canceled" /\ r.at = e.at /\ r.status = e.status
        BY <2>1, <2>6, <3>3
      <4>5. RowOwes(s)'
        BY <4>3, <4>4 DEF RowOwes
      <4> QED BY <1>2, <4>5 DEF TierIsOwed
    <3> QED BY <3>2, <3>3
  <2> QED BY <2>3, <2>4, <2>5, <2>6
<1> QED BY <1>16, <1>17

\* When a grace or a term ends at a tick, a sweep owes a recompute; and a term
\* that begins follows one that ends.
LEMMA TickStillOwes ==
    ASSUME Basis, TierIsOwed, Tick
    PROVE  TierIsOwed'
<1> USE DEF Basis
<1>1. UNCHANGED <<events, mirror, terms, tier, work, sweep>> /\ now' = now + 1 /\ now \in Nat /\ Grace \in Nat
  BY DEF Tick, stripeVars, planVars, TypeOK
<1>2. \A s \in Subs : mirror[s] # None =>
         mirror[s].since \in Int /\ mirror[s].ended \in BOOLEAN /\ RowIsSound(mirror[s], now)
  BY DEF TypeOK, Row, Rows
<1>3. \A o \in Orders : terms[o] # None =>
         /\ terms[o].starts \in Int /\ terms[o].ends \in Int /\ terms[o].done \in BOOLEAN
         /\ TermIsSound(terms[o], now) /\ Continues(o)
  BY TermsTyped DEF Terms
<1>4. sweep["grace"].asOf \in Int /\ sweep["grace"].asOf <= now
  BY DEF TypeOK, Jobs, Job, Sweeps
\* A grace that ends now.
<1>5. ASSUME NEW s \in Subs, RowHolds(mirror[s], now), ~RowHolds(mirror[s], now') PROVE GraceOwes'
  <2>1. /\ mirror[s] # None /\ mirror[s].status = "past_due"
        /\ mirror[s].since > now - Grace /\ ~(mirror[s].since > now' - Grace)
    BY <1>5 DEF RowHolds, InGrace
  <2>2. ~mirror[s].ended /\ mirror[s].since <= now' - Grace /\ ~(mirror[s].since <= sweep["grace"].asOf - Grace)
    BY <1>1, <1>2, <1>4, <2>1 DEF RowIsSound
  <2>3. s \in GraceEnded(now)'
    BY <2>1, <2>2, <1>1 DEF GraceEnded
  <2>4. s \notin Marked(sweep["grace"].ids, sweep["grace"].asOf)'
    BY <1>1, <2>2 DEF Marked, GraceEnded
  <2> QED BY <2>3, <2>4 DEF GraceOwes
\* A term that ends now.
<1>6. ASSUME NEW o \in Orders, terms[o] # None, terms[o].ends > now, terms[o].ends <= now' PROVE ExpiryOwes'
  <2>1. ~terms[o].done
    BY <1>1, <1>3, <1>6 DEF TermIsSound
  <2>2. o \in Expired(now)' /\ o \notin sweep["expiry"].ids
    BY <1>1, <1>3, <1>6, <2>1 DEF Expired, Sweeps
  <2> QED BY <1>1, <2>2 DEF ExpiryOwes
\* A term that begins now.
<1>7. ASSUME NEW o \in Orders, terms[o] # None, terms[o].starts > now, terms[o].starts <= now' PROVE ExpiryOwes'
  <2>1. PICK x \in Orders : terms[x] # None /\ terms[x].ends = terms[o].starts
    BY <1>3, <1>7 DEF Continues
  <2> QED BY <1>6, <1>7, <2>1
<1>8. CASE GraceOwes' \/ ExpiryOwes'
  BY <1>8 DEF TierIsOwed
<1>9. CASE ~(GraceOwes' \/ ExpiryOwes')
  <2>1. \A s \in Subs : RowHolds(mirror'[s], now') <=> RowHolds(mirror[s], now)
    <3> SUFFICES ASSUME NEW s \in Subs, RowHolds(mirror[s], now') PROVE RowHolds(mirror[s], now)
      BY <1>1, <1>5, <1>9
    <3> QED BY <1>1, <1>2 DEF RowHolds, InGrace
  <2>2. \A o \in Orders : TermHolds(terms'[o], now') <=> TermHolds(terms[o], now)
    <3> SUFFICES ASSUME NEW o \in Orders, terms[o] # None
                 PROVE  TermHolds(terms[o], now') <=> TermHolds(terms[o], now)
      BY <1>1 DEF TermHolds
    <3>1. ~(terms[o].ends > now /\ terms[o].ends <= now') /\ ~(terms[o].starts > now /\ terms[o].starts <= now')
      BY <1>6, <1>7, <1>9
    <3> QED BY <1>1, <1>3, <3>1 DEF TermHolds
  <2>3. Held' = Held
    BY <1>1, <2>1, <2>2, HeldSame
  <2>4. Fresh => Fresh'
    BY <1>1, <2>3 DEF Fresh
  <2>5. \A s \in Subs : RowOwes(s) => RowOwes(s)'
    BY <1>1 DEF RowOwes, Unanswered, Step
  <2>6. GraceOwes => GraceOwes'
    <3> SUFFICES ASSUME NEW s \in GraceEnded(now),
                        ~(sweep["grace"].step = "mark" /\ s \in Marked(sweep["grace"].ids, sweep["grace"].asOf))
                 PROVE  GraceOwes'
      BY DEF GraceOwes
    <3>1. s \in GraceEnded(now)'
      BY <1>1, <1>2 DEF GraceEnded
    <3>2. s \in Marked(sweep["grace"].ids, sweep["grace"].asOf)' => s \in Marked(sweep["grace"].ids, sweep["grace"].asOf)
      BY <1>1 DEF Marked, GraceEnded
    <3> QED BY <1>1, <3>1, <3>2 DEF GraceOwes
  <2>7. ExpiryOwes => ExpiryOwes'
    <3>1. Expired(now) \subseteq Expired(now)'
      BY <1>1, <1>3 DEF Expired
    <3> QED BY <1>1, <3>1 DEF ExpiryOwes
  <2> QED BY <2>4, <2>5, <2>6, <2>7 DEF TierIsOwed
<1> QED BY <1>8, <1>9

\* If only terms and the plan move, rows and sweeps owe what they owed.
LEMMA RowsStillOwe ==
    ASSUME UNCHANGED <<now, mirror, events, work>>, sweep'["grace"] = sweep["grace"]
    PROVE  (\A s \in Subs : RowOwes(s) => RowOwes(s)') /\ (GraceOwes => GraceOwes')
BY DEF RowOwes, Unanswered, Step, GraceOwes, GraceEnded, Marked

\* A plan of which a term ends later has a term now.
LEMMA StackHolds ==
    ASSUME Basis, NEW plan, NEW o \in Orders, terms[o] # None, terms[o].plan = plan, terms[o].ends > now
    PROVE  plan \in TermPlans(now)
<1> DEFINE E == {x \in Orders : terms[x] # None /\ terms[x].plan = plan /\ terms[x].ends > now}
           T == {terms[x].starts : x \in E}
<1> SUFFICES ASSUME plan \notin TermPlans(now) PROVE FALSE
  OBVIOUS
<1>1. now \in Nat
  BY DEF Basis, TypeOK
<1>2. \A x \in E : /\ terms[x].starts \in Int /\ terms[x].ends \in Int /\ Continues(x)
                   /\ terms[x].starts < terms[x].ends
  BY TermsTyped, Unspent DEF Basis, Terms
<1>3. \A x \in E : terms[x].starts > now
  BY <1>1, <1>2 DEF TermPlans, TermHolds
<1>4. T \subseteq Nat /\ T # {}
  BY <1>1, <1>2, <1>3
<1>5. PICK t \in T : \A u \in T : t <= u
  <2> HIDE DEF T
  <2> QED BY <1>4, LeastElement
<1>6. PICK x \in E : t = terms[x].starts
  BY <1>5
<1>7. PICK y \in Orders : terms[y] # None /\ terms[y].plan = terms[x].plan /\ terms[y].ends = terms[x].starts
  BY <1>2, <1>3 DEF Continues
<1>8. y \in E /\ terms[y].starts < terms[x].starts
  <2>1. y \in E
    BY <1>3, <1>7
  <2> QED BY <1>2, <1>7, <2>1
<1> QED BY <1>2, <1>5, <1>6, <1>8

LEMMA ActivateStillOwes ==
    ASSUME Basis, TierIsOwed, NEW o \in Orders, NEW plan \in Plans, NEW paidAt \in 0 .. MaxTime,
           Activate(o, plan, paidAt)
    PROVE  TierIsOwed'
<1> USE DEF Basis
<1>1. UNCHANGED <<now, mirror, events, work, sweep>> /\ tier' = Max({tier, plan}) /\ now \in Nat
  BY DEF Activate, stripeVars, TypeOK
<1>2. /\ terms[o] = None /\ terms' \in [Orders -> CryptoTerm \cup {None}]
      /\ \E t \in CryptoTerm : terms' = [terms EXCEPT ![o] = t] /\ t.plan = plan /\ t.ends = t.starts + Term
                               /\ ~t.done /\ ~t.refunded
  BY ActivateKeepsTerms
<1>3. PICK t \in CryptoTerm : /\ terms' = [terms EXCEPT ![o] = t] /\ t.plan = plan /\ t.ends = t.starts + Term
                              /\ ~t.done /\ ~t.refunded
  BY <1>2
<1>4. /\ terms'[o] = t /\ t # None /\ \A x \in Orders \ {o} : terms'[x] = terms[x]
      /\ t.starts \in Int /\ t.ends \in Int /\ Term \in Nat
  BY <1>3 DEF TypeOK, CryptoTerm
<1>5. t.starts = StackedAt(plan, paidAt) /\ paidAt <= now
  BY <1>4 DEF Activate
<1>6. (\A s \in Subs : RowOwes(s) => RowOwes(s)') /\ (GraceOwes => GraceOwes')
  BY <1>1, RowsStillOwe
<1>7. \A x \in Orders : terms[x] # None => terms'[x] = terms[x]
  BY <1>2, <1>4
<1>8. ExpiryOwes => ExpiryOwes'
  BY <1>1, <1>7 DEF ExpiryOwes, Expired
<1>9. Held \subseteq Held'
  <2>1. \A p : p \in Held => p \in Held'
    BY <1>1, <1>7, HeldIs DEF TermHolds
  <2> QED BY <2>1
<1>10. /\ tier \in Plans \cup {0} /\ tier \in Int /\ plan \in Int /\ plan > 0
       /\ tier' = IF tier >= plan THEN tier ELSE plan
  BY <1>1, MaxOfTwo DEF TypeOK
\* The plan that was paid for is held, or its term is over already.
<1>11. plan \in Held' \/ ExpiryOwes'
  <2>1. CASE t.ends <= now
    <3>1. o \in Expired(now)'
      BY <1>1, <1>3, <1>4, <2>1 DEF Expired
    <3>2. o \notin sweep["expiry"].ids
      BY <1>2 DEF Sweeps
    <3> QED BY <1>1, <3>1, <3>2 DEF ExpiryOwes
  <2>2. CASE t.ends > now /\ t.starts <= now
    BY <1>1, <1>3, <1>4, <2>2, HeldIs DEF TermHolds
  <2>3. CASE t.starts > now
    <3>1. PICK x \in Orders : terms[x] # None /\ terms[x].plan = plan /\ terms[x].ends = t.starts
      BY <1>1, <1>5, <2>3, StackedIsLast
    <3>2. plan \in TermPlans(now)
      BY <2>3, <3>1, StackHolds
    <3> QED BY <1>9, <3>2 DEF Held
  <2> QED BY <1>1, <1>4, <2>1, <2>2, <2>3
<1>12. Fresh => Fresh' \/ ExpiryOwes'
  BY <1>9, <1>10, <1>11 DEF Fresh
<1> QED BY <1>6, <1>8, <1>12 DEF TierIsOwed

LEMMA RefundFirstStillOwes ==
    ASSUME Basis, TierIsOwed, NEW o \in Orders, NEW plan \in Plans, RefundFirst(o, plan)
    PROVE  TierIsOwed'
<1> USE DEF Basis
<1>1. UNCHANGED <<now, mirror, events, work, sweep, tier>> /\ now \in Nat
  BY DEF RefundFirst, stripeVars, TypeOK
<1>2. terms[o] = None
  BY DEF RefundFirst
<1>3. PICK t \in CryptoTerm : terms' = [terms EXCEPT ![o] = t] /\ t.starts = now /\ t.ends = now /\ t.done
  BY RefundFirstKeepsTerms
<1>4. terms'[o] = t /\ \A x \in Orders \ {o} : terms'[x] = terms[x]
  BY <1>3 DEF TypeOK
<1>5. (\A s \in Subs : RowOwes(s) => RowOwes(s)') /\ (GraceOwes => GraceOwes')
  BY <1>1, RowsStillOwe
<1>6. ExpiryOwes => ExpiryOwes'
  BY <1>1, <1>2, <1>4 DEF ExpiryOwes, Expired
<1>7. Held' = Held
  <2>1. \A x \in Orders : /\ TermHolds(terms'[x], now') <=> TermHolds(terms[x], now)
                          /\ TermHolds(terms[x], now) => terms'[x].plan = terms[x].plan
    BY <1>1, <1>2, <1>3, <1>4 DEF TermHolds
  <2> QED BY <1>1, <2>1, HeldSame
<1>8. Fresh => Fresh'
  BY <1>1, <1>7 DEF Fresh
<1> QED BY <1>5, <1>6, <1>8 DEF TierIsOwed

LEMMA RefundOwes ==
    ASSUME Basis, NEW o \in Orders, Refund(o)
    PROVE  TierIsOwed'
<1> USE DEF Basis
<1>1. /\ terms[o] # None /\ terms[o].ends > now /\ terms' = Restacked(o, now) /\ now' = now /\ now \in Nat
      /\ sweep'["expiry"] = sweep["expiry"]
  BY DEF Refund, TypeOK, Jobs
<1>2. terms'[o] # None /\ terms'[o].ends = now /\ terms'[o].done = terms[o].done /\ ~terms[o].done
  BY <1>1, RestackedIs, Unspent
<1>3. o \in Expired(now)'
  BY <1>1, <1>2 DEF Expired
<1>4. o \notin sweep["expiry"].ids
  BY <1>1, TermsTyped DEF Sweeps
<1> QED BY <1>1, <1>3, <1>4 DEF ExpiryOwes, TierIsOwed

LEMMA MarkStillOwes ==
    ASSUME Basis, TierIsOwed, NEW j \in Jobs, Mark(j)
    PROVE  TierIsOwed'
<1> USE DEF Basis
<1> DEFINE ids == Marked(sweep["grace"].ids, sweep["grace"].asOf)
<1>1. /\ UNCHANGED <<now, events, work, tier>> /\ now \in Nat /\ sweep[j].step = "mark"
      /\ sweep' = [sweep EXCEPT ![j] = IdleJob] /\ Grace \in Nat
      /\ sweep["grace"].asOf \in Int /\ sweep["grace"].asOf <= now
  BY DEF Mark, stripeVars, TypeOK, Jobs, Job, Sweeps
<1>2. sweep'[j] = IdleJob /\ IdleJob.step = "idle" /\ (\A i \in Jobs \ {j} : sweep'[i] = sweep[i]) /\ j # "refund"
      /\ j \in {"grace", "expiry"} /\ {"grace", "expiry"} \subseteq Jobs
  BY <1>1, IdleIsJob DEF TypeOK, Sweeps, Jobs
<1>3. CASE j = "grace"
  <2>1. /\ terms' = terms
        /\ mirror' = [s \in Subs |-> IF s \in ids THEN [mirror[s] EXCEPT !.ended = TRUE] ELSE mirror[s]]
    BY <1>3 DEF Mark
  <2>2. \A s \in ids : /\ s \in Subs /\ mirror[s] # None /\ mirror[s] \in Row /\ mirror[s].status = "past_due"
                       /\ mirror[s].since <= sweep["grace"].asOf - Grace /\ mirror[s].since \in Int
    BY DEF Marked, GraceEnded, TypeOK, Row
  <2> HIDE DEF ids
  <2>3. ASSUME NEW s \in ids
        PROVE  /\ mirror'[s].status = mirror[s].status /\ mirror'[s].since = mirror[s].since
               /\ mirror'[s].at = mirror[s].at /\ mirror'[s] # None
    <3>1. mirror'[s] = [mirror[s] EXCEPT !.ended = TRUE] /\ mirror[s] \in Row
      BY <2>1, <2>2
    <3>2. \A r \in Row : LET q == [r EXCEPT !.ended = TRUE] IN
            q \in Row /\ q.status = r.status /\ q.since = r.since /\ q.at = r.at
      BY DEF Row
    <3>3. mirror'[s] \in Row => mirror'[s] # None
      OBVIOUS
    <3> QED BY <3>1, <3>2, <3>3
  <2>4. \A s \in Subs \ ids : mirror'[s] = mirror[s]
    BY <2>1
  <2>5. \A s \in ids : ~RowHolds(mirror[s], now) /\ ~RowHolds(mirror'[s], now)
    <3> SUFFICES ASSUME NEW s \in ids PROVE ~RowHolds(mirror[s], now) /\ ~RowHolds(mirror'[s], now)
      OBVIOUS
    <3>1. ~(mirror[s].since > now - Grace)
      BY <1>1, <2>2
    <3> QED BY <2>2, <2>3, <3>1 DEF RowHolds, InGrace
  <2>6. Held' = Held
    BY <1>1, <2>1, <2>4, <2>5, HeldSame
  <2>7. Fresh => Fresh'
    BY <1>1, <2>6 DEF Fresh
  <2>8. \A s \in Subs : RowOwes(s) => RowOwes(s)'
    <3> SUFFICES ASSUME NEW s \in Subs, RowOwes(s) PROVE RowOwes(s)'
      OBVIOUS
    <3>1. mirror'[s] # None /\ mirror'[s].status = mirror[s].status /\ mirror'[s].at = mirror[s].at
      BY <2>3, <2>4 DEF RowOwes
    <3>2. \A x \in events : Unanswered(x) => Unanswered(x)'
      BY <1>1 DEF Unanswered, Step
    <3> QED BY <1>1, <3>1, <3>2 DEF RowOwes
  <2>9. GraceOwes => GraceOwes'
    <3> SUFFICES ASSUME NEW s \in GraceEnded(now), s \notin ids PROVE GraceOwes'
      BY <1>1, <1>3 DEF GraceOwes, ids
    <3>1. s \in Subs /\ mirror'[s] = mirror[s]
      BY <2>4 DEF GraceEnded
    <3>2. s \in GraceEnded(now)'
      BY <1>1, <3>1 DEF GraceEnded
    <3> QED BY <1>2, <1>3, <3>2 DEF GraceOwes
  <2>10. ExpiryOwes => ExpiryOwes'
    BY <1>1, <1>2, <1>3, <2>1 DEF ExpiryOwes, Expired
  <2> QED BY <2>7, <2>8, <2>9, <2>10 DEF TierIsOwed
<1>4. CASE j = "expiry"
  <2>1. /\ mirror' = mirror /\ sweep'["grace"] = sweep["grace"]
        /\ terms' = [o \in Orders |-> IF o \in sweep["expiry"].ids
                                        THEN [terms[o] EXCEPT !.done = TRUE] ELSE terms[o]]
    BY <1>2, <1>4 DEF Mark
  <2>2. \A o \in sweep["expiry"].ids : /\ o \in Orders /\ terms[o] # None /\ terms[o] \in CryptoTerm
                                       /\ terms[o].ends <= now /\ terms[o].ends \in Int
    BY TermsTyped DEF Sweeps
  <2>3. \A o \in Orders \ sweep["expiry"].ids : terms'[o] = terms[o]
    BY <2>1
  <2>4. \A o \in sweep["expiry"].ids : terms'[o].ends = terms[o].ends
    <3>1. \A r \in CryptoTerm : [r EXCEPT !.done = TRUE].ends = r.ends
      BY DEF CryptoTerm
    <3> QED BY <2>1, <2>2, <3>1
  <2>5. \A o \in sweep["expiry"].ids : ~TermHolds(terms[o], now) /\ ~TermHolds(terms'[o], now)
    <3> SUFFICES ASSUME NEW o \in sweep["expiry"].ids PROVE ~TermHolds(terms[o], now) /\ ~TermHolds(terms'[o], now)
      OBVIOUS
    <3>1. ~(terms[o].ends > now) /\ ~(terms'[o].ends > now)
      BY <1>1, <2>2, <2>4
    <3> QED BY <3>1 DEF TermHolds
  <2>6. Held' = Held
    BY <1>1, <2>1, <2>3, <2>5, HeldSame
  <2>7. Fresh => Fresh'
    BY <1>1, <2>6 DEF Fresh
  <2>8. (\A s \in Subs : RowOwes(s) => RowOwes(s)') /\ (GraceOwes => GraceOwes')
    BY <1>1, <2>1, RowsStillOwe
  <2>9. ExpiryOwes => ExpiryOwes'
    <3> SUFFICES ASSUME NEW o \in Expired(now), o \notin sweep["expiry"].ids PROVE ExpiryOwes'
      BY <1>1, <1>4 DEF ExpiryOwes
    <3>1. o \in Expired(now)'
      BY <1>1, <2>3 DEF Expired
    <3> QED BY <1>2, <1>4, <3>1 DEF ExpiryOwes
  <2> QED BY <2>7, <2>8, <2>9 DEF TierIsOwed
<1> QED BY <1>2, <1>3, <1>4

LEMMA OwedStep == Basis /\ TierIsOwed /\ [Next]_vars => TierIsOwed'
<1> SUFFICES ASSUME Basis, TierIsOwed, [Next]_vars PROVE TierIsOwed'
  OBVIOUS
<1>1. CASE UNCHANGED vars
  <2>1. UNCHANGED <<now, mirror, terms, tier, work, sweep, events>>
    BY <1>1 DEF vars, planVars, stripeVars
  <2> QED BY <2>1, OwedStays
<1>2. CASE Tick
  BY <1>2, TickStillOwes
<1>3. CASE \E s \in Subs, plan \in Plans : Subscribe(s, plan) \/ ChangePlan(s, plan)
  BY <1>3, SubscriptionsKeepBasis, SubscriptionsStillOwe
<1>4. CASE \E s \in Subs : Move(s) \/ Cancel(s) \/ Edit(s)
  <2>1. PICK s \in Subs : Move(s) \/ Cancel(s) \/ Edit(s)
    BY <1>4
  <2>2. stripe[s] # None
    BY <2>1 DEF Move, Cancel, Edit
  <2>3. stripe[s].plan \in Plans
    BY <2>2 DEF Basis, TypeOK, Subscription
  <2> QED BY <2>1, <2>3, SubscriptionsKeepBasis, SubscriptionsStillOwe
<1>5. CASE \E w \in Workers, e \in events : Begin(w, e)
  <2>1. PICK w \in Workers, e \in events : Begin(w, e)
    BY <1>5
  <2>2. /\ UNCHANGED <<now, mirror, terms, tier, sweep, events>> /\ work'[w].step # "record"
        /\ \A v \in Workers \ {w} : work'[v] = work[v]
    BY <2>1 DEF Begin, planVars, stripeVars, Basis, TypeOK
  <2> QED BY <2>2, DeliveryStillOwes
<1>6. CASE \E w \in Workers : Proceed(w) \/ DeliveryFails(w)
  <2>1. PICK w \in Workers : Proceed(w) \/ DeliveryFails(w)
    BY <1>6
  <2>2. CASE DeliveryFails(w)
    <3>1. UNCHANGED <<now, mirror, terms, tier, sweep, events>>
      BY <2>2 DEF DeliveryFails, planVars, stripeVars
    <3>2. work'[w].step # "record" /\ \A v \in Workers \ {w} : work'[v] = work[v]
      BY <2>2, DeliveryFailsKeepsBasis DEF IdleWork
    <3> QED BY <3>1, <3>2, DeliveryStillOwes
  <2>3. CASE FindSubscription(w)
    <3>1. UNCHANGED <<now, mirror, terms, tier, sweep, events>>
      BY <2>3 DEF FindSubscription, planVars, stripeVars
    <3>2. work'[w].step # "record" /\ \A v \in Workers \ {w} : work'[v] = work[v]
      BY <2>3, FindSubscriptionKeepsBasis
    <3> QED BY <3>1, <3>2, DeliveryStillOwes
  <2>4. CASE UpsertSubscription(w)
    BY <2>4, UpsertStillOwes
  <2>5. CASE FindStale(w)
    <3>1. UNCHANGED <<now, mirror, terms, tier, sweep, events>>
      BY <2>5 DEF FindStale, planVars, stripeVars
    <3>2. work'[w].step # "record" /\ \A v \in Workers \ {w} : work'[v] = work[v]
      BY <2>5, FindStaleKeepsBasis
    <3> QED BY <3>1, <3>2, DeliveryStillOwes
  <2>6. CASE CancelReplaced(w)
    <3>1. UNCHANGED <<now, mirror, terms, tier, sweep, events>>
      BY <2>6 DEF CancelReplaced, planVars, stripeVars
    <3>2. work'[w].step # "record" /\ \A v \in Workers \ {w} : work'[v] = work[v]
      BY <2>6, CancelReplacedKeepsBasis
    <3> QED BY <3>1, <3>2, DeliveryStillOwes
  <2>7. CASE \E x \in Subs : CancelOne(w, x)
    <3>1. UNCHANGED <<now, mirror, terms, tier, sweep>>
      BY <2>7 DEF CancelOne, planVars
    <3>2. events \subseteq events' /\ work'[w].step # "record" /\ \A v \in Workers \ {w} : work'[v] = work[v]
      BY <2>7, CancelOneKeepsBasis
    <3> QED BY <3>1, <3>2, DeliveryStillOwes
  <2>8. CASE Grant(w)
    BY <2>8, GrantStillOwes
  <2>9. CASE Leave(w)
    BY <2>9, LeaveIsFresh
  <2>10. CASE RecordEvent(w)
    BY <2>10, RecordStillOwes
  <2> QED BY <2>1, <2>2, <2>3, <2>4, <2>5, <2>6, <2>7, <2>8, <2>9, <2>10 DEF Proceed
<1>7. CASE \E o \in Orders, plan \in Plans : \/ \E paidAt \in 0 .. MaxTime : Activate(o, plan, paidAt)
                                             \/ RefundFirst(o, plan)
  BY <1>7, ActivateStillOwes, RefundFirstStillOwes
<1>8. CASE \E o \in Orders : Refund(o)
  BY <1>8, RefundOwes
<1>9. CASE \E j \in Jobs : Sweep(j) \/ SweepFails(j)
  BY <1>9, SweepStillOwes, SweepIsFresh, MarkStillOwes DEF Sweep
<1> QED BY <1>1, <1>2, <1>3, <1>4, <1>5, <1>6, <1>7, <1>8, <1>9 DEF Next

LEMMA InitOwes == Init => TierIsOwed
<1> SUFFICES ASSUME Init PROVE Fresh
  BY DEF TierIsOwed
<1>1. Held = {} /\ tier = 0
  BY HeldIs DEF Init, RowHolds, TermHolds
<1> QED BY <1>1 DEF Fresh

\* The account's plan is held by a subscription or a term, or someone still has to
\* recompute it.
THEOREM TierIsOwedHolds == Spec => []TierIsOwed
<1>1. Init => Basis /\ TierIsOwed
  BY InitBasis, InitOwes
<1>2. Basis /\ TierIsOwed /\ [Next]_vars => (Basis /\ TierIsOwed)'
  BY BasisStep, OwedStep
<1> QED BY <1>1, <1>2, PTL DEF Spec

LEMMA OwedIsEarned == Basis /\ TierIsOwed => PlanIsEarned
<1> SUFFICES ASSUME Basis, TierIsOwed, Settled PROVE TypeOK /\ NoUnpaidPlan /\ PaidPlanIsKept
  BY DEF PlanIsEarned, NoUnpaidPlan, PaidPlanIsKept, Basis
<1>1. \A s \in Subs : ~RowOwes(s)
  BY DEF RowOwes, Settled, Answered
<1>2. ~GraceOwes /\ ~ExpiryOwes
  BY DEF GraceOwes, ExpiryOwes, Settled
<1>3. Fresh
  BY <1>1, <1>2 DEF TierIsOwed
<1> QED BY <1>3 DEF Fresh, NoUnpaidPlan, PaidPlanIsKept, Basis

\* Once everything that happened is dealt with, accounts.tier is a plan that a
\* subscription or a term gives, and the free plan only if none does.
THEOREM PlanIsEarnedHolds == Spec => []PlanIsEarned
BY BasisHolds, TierIsOwedHolds, OwedIsEarned, PTL
-----------------------------------------------------------------------------
(* Two subscriptions at once *)

LEMMA PaidMoves == ~Dunning => \A st \in {"incomplete", "active", "canceled"} : \A su \in Moves(st) : Paid(su)
BY DEF Moves, Paid

\* No payment fails: a subscription that pays goes on paying until it is cancelled.
LEMMA StripeKeepsPaid ==
    ASSUME ~Dunning, Basis, AllPaid, NEW s \in Subs, NEW plan \in Plans,
           Subscribe(s, plan) \/ ChangePlan(s, plan) \/ Move(s) \/ Cancel(s) \/ Edit(s)
    PROVE  AllPaid'
<1>1. UNCHANGED <<mirror, work>>
  BY SubscriptionsKeepBasis DEF planVars
<1>2. stripe \in [Subs -> Subscription \cup {None}] /\ (stripe[s] # None => Paid(stripe[s].status))
  BY DEF Basis, TypeOK, AllPaid
<1>3. Paid("incomplete") /\ Paid("active") /\ Paid("canceled")
  BY DEF Paid
<1>4. \E st : /\ Paid(st) /\ (stripe' = stripe \/ \E p : Becomes(s, st, p))
              /\ \A e \in events' : e \in events \/ e.status = st
  <2>1. CASE Subscribe(s, plan)
    <3>1. PICK st \in {"incomplete", "active"} : Becomes(s, st, plan) /\ Issue({Body(s, FALSE, st, "same", plan)})
      BY <2>1 DEF Subscribe
    <3> QED BY <1>3, <3>1 DEF Issue, Body
  <2>2. CASE ChangePlan(s, plan)
    <3>1. Becomes(s, "active", plan) /\ Issue({Body(s, FALSE, "active", "same", plan)})
      BY <2>2 DEF ChangePlan
    <3> QED BY <1>3, <3>1 DEF Issue, Body
  <2>3. CASE Move(s)
    <3>1. PICK st \in Moves(stripe[s].status) :
             Becomes(s, st, stripe[s].plan) /\ Issue({Body(s, FALSE, st, stripe[s].status, stripe[s].plan)})
      BY <2>3 DEF Move
    <3>2. Paid(st)
      BY <1>2, <2>3, <3>1, PaidMoves DEF Move, Paid
    <3> QED BY <3>1, <3>2 DEF Issue, Body
  <2>4. CASE Cancel(s)
    <3>1. PICK updateToo \in BOOLEAN : End(s, updateToo)
      BY <2>4 DEF Cancel
    <3>2. Becomes(s, "canceled", stripe[s].plan) /\ \A e \in events' : e \in events \/ e.status = "canceled"
      BY <3>1 DEF End, Issue, Body
    <3> QED BY <1>3, <3>2
  <2>5. CASE Edit(s)
    <3>1. stripe' = stripe /\ \A e \in events' : e \in events \/ e.status = "canceled"
      BY <2>5 DEF Edit, Issue, Body
    <3> QED BY <1>3, <3>1
  <2> QED BY <2>1, <2>2, <2>3, <2>4, <2>5
<1>5. PICK st : /\ Paid(st) /\ (stripe' = stripe \/ \E p : Becomes(s, st, p))
                /\ \A e \in events' : e \in events \/ e.status = st
  BY <1>4
<1>6. ASSUME NEW t \in Subs, stripe'[t] # None PROVE Paid(stripe'[t].status)
  BY <1>2, <1>5, <1>6 DEF Becomes, AllPaid
<1> QED BY <1>1, <1>5, <1>6 DEF AllPaid

\* Nothing that the pairs are about moves, but deliveries that neither look for
\* another subscription nor end one.
LEMMA DoubleKept ==
    ASSUME DoubleInv, AllPaid', alerted => alerted',
           \A s \in Subs : /\ Active(s)' => Active(s)
                           /\ Begun(s) => Begun(s)',
           \A w \in Workers : \/ work'[w].event = work[w].event /\ work'[w].stored = work[w].stored
                                 /\ (work'[w].step = work[w].step \/ Stored(w)')
                              \/ Stored(w)',
           \A w \in Workers : Step(w, "replace") \/ Step(w, "cancel") =>
              alerted' \/ (work'[w].event = work[w].event /\ work'[w].step = work[w].step),
           \A w \in Workers : work[w].event # None => work[w].event.sub \in Subs,
           \A w \in Workers : Step(w, "upsert") => work[w].event # None
    PROVE  DoubleInv'
<1>1. ASSUME NEW w \in Workers PROVE Stored(w)'
  <2>1. CASE work'[w].event = work[w].event /\ work'[w].stored = work[w].stored /\ work'[w].step = work[w].step
    BY <2>1 DEF DoubleInv, Stored, Step, Begun
  <2> QED BY <2>1
<1>2. ASSUME NEW s \in Subs, NEW x \in Subs \ {s}, Active(s)', Active(x)' PROVE Noticed(s, x)'
  <2>1. Noticed(s, x)
    BY <1>2 DEF DoubleInv, Pairs
  <2> QED BY <2>1 DEF Noticed, Step
<1> QED BY <1>1, <1>2 DEF DoubleInv, Pairs

LEMMA QuietIsPaid ==
    ASSUME AllPaid, stripe' = stripe, events' \subseteq events,
           \A w \in Workers : work'[w].event \in {work[w].event, None} \cup events,
           \A s \in Subs : mirror'[s] # None => mirror[s] # None /\ mirror'[s].status = mirror[s].status
    PROVE  AllPaid'
<1>1. ASSUME NEW w \in Workers, work'[w].event # None PROVE Paid(work'[w].event.status)
  BY <1>1 DEF AllPaid
<1> QED BY <1>1 DEF AllPaid

\* A step that is not one of a delivery.
LEMMA BackgroundKeepsDouble ==
    ASSUME Basis, DoubleInv, AllPaid', UNCHANGED <<work, alerted>>,
           \A s \in Subs : /\ mirror[s] = None <=> mirror'[s] = None
                           /\ mirror[s] # None => mirror'[s].status = mirror[s].status
    PROVE  DoubleInv'
<1>1. \A s \in Subs : (Active(s)' => Active(s)) /\ (Begun(s) => Begun(s)')
  BY DEF Active, Begun
<1>2. \A w \in Workers : ~Step(w, "idle") => work[w].event # None /\ work[w].event.sub \in Subs
  BY DeliveryHasEvent DEF Basis
<1>3. \A w \in Workers : work[w].event # None => work[w].event.sub \in Subs
  BY DEF Basis, TypeOK, Work, Event
<1>4. \A w \in Workers : Step(w, "upsert") => work[w].event # None
  BY <1>2 DEF Step
<1> QED BY <1>1, <1>3, <1>4, DoubleKept

\* A step of delivery w that leaves the rows alone.
LEMMA DeliveryKeepsDouble ==
    ASSUME Basis, DoubleInv, AllPaid', NEW w \in Workers, mirror' = mirror, alerted => alerted',
           \A v \in Workers \ {w} : work'[v] = work[v], Stored(w)',
           Step(w, "replace") \/ Step(w, "cancel") =>
              alerted' \/ (work'[w].event = work[w].event /\ work'[w].step = work[w].step)
    PROVE  DoubleInv'
<1>1. \A s \in Subs : (Active(s)' => Active(s)) /\ (Begun(s) => Begun(s)')
  BY DEF Active, Begun
<1>2. \A v \in Workers : ~Step(v, "idle") => work[v].event # None /\ work[v].event.sub \in Subs
  BY DeliveryHasEvent DEF Basis
<1>3. \A v \in Workers : work[v].event # None => work[v].event.sub \in Subs
  BY DEF Basis, TypeOK, Work, Event
<1>4. \A v \in Workers : Step(v, "upsert") => work[v].event # None
  BY <1>2 DEF Step
<1> QED BY <1>1, <1>3, <1>4, DoubleKept

LEMMA QuietDeliveryKeepsDouble ==
    ASSUME Basis, DoubleInv, NEW w \in Workers, mirror' = mirror, stripe' = stripe, events' \subseteq events,
           alerted' = alerted, \A v \in Workers \ {w} : work'[v] = work[v],
           work'[w].event \in {work[w].event, None} \cup events, Stored(w)',
           ~Step(w, "replace"), ~Step(w, "cancel")
    PROVE  DoubleInv'
<1>1. \A v \in Workers : work'[v].event \in {work[v].event, None} \cup events
  OBVIOUS
<1>2. AllPaid'
  BY <1>1, QuietIsPaid DEF DoubleInv
<1> QED BY <1>2, DeliveryKeepsDouble

\* A row that becomes active is one whose first payment was awaited, so the
\* delivery goes on to look for another subscription.
LEMMA UpsertKeepsDouble ==
    ASSUME Basis, DoubleInv, NEW w \in Workers, UpsertSubscription(w)
    PROVE  DoubleInv'
<1> DEFINE e == work[w].event
           s == e.sub
           row == mirror[s]
           to == AfterUpsert(e, work[w].stored, Applies(row, e))
<1>1. Step(w, "upsert") /\ ~Step(w, "idle")
  BY DEF UpsertSubscription, Step
<1>2. e \in Event /\ e # None /\ s \in Subs /\ Delivering(w) /\ row \in Row \cup {None}
  BY <1>1, DeliveryHasEvent DEF Basis, TypeOK
<1>3. UNCHANGED <<stripe, events, alerted>>
  BY DEF UpsertSubscription, stripeVars
<1>4. /\ Grows /\ \A t \in Subs \ {s} : mirror'[t] = mirror[t]
      /\ mirror'[s] = IF Applies(row, e) THEN Upserted(row, e) ELSE row
  BY <1>2, UpsertGrows DEF Basis
<1>5. Applies(row, e) => mirror'[s] # None /\ mirror'[s].status = e.status
  BY <1>2, <1>4, UpsertedRow
<1>6. Goto(w, to) /\ to \in Steps /\ to # "upsert"
  BY DEF UpsertSubscription, AfterUpsert, Steps
<1> HIDE DEF to
<1>7. /\ \A v \in Workers \ {w} : work'[v] = work[v]
      /\ work'[w].step = to /\ work'[w].event = e
  BY <1>6, GotoIs DEF Basis
<1>8. \A v \in Workers : work'[v].event = work[v].event
  BY <1>7
<1>9. AllPaid'
  <2>1. ASSUME NEW t \in Subs, mirror'[t] # None PROVE Paid(mirror'[t].status)
    BY <1>2, <1>4, <1>5, <2>1 DEF DoubleInv, AllPaid
  <2> QED BY <1>3, <1>8, <2>1 DEF DoubleInv, AllPaid
<1>10. ASSUME NEW t \in Subs, Begun(t) PROVE Begun(t)'
  <2>1. CASE t = s /\ Applies(row, e)
    <3>1. row # None /\ row.status # "incomplete" /\ Dated(row) /\ Dated(e)
      BY <1>2, <1>10, <2>1, RowDated, EventDated DEF Begun
    <3>2. NoLater(row, e)
      BY <1>2, <2>1, <3>1, AppliesIs
    <3>3. row \in Facts(s) /\ e \in Facts(s)
      BY <1>2, <3>1, FactsAre DEF Basis
    <3>4. Agree(e, row)
      BY <1>2, <3>3 DEF Basis, History
    <3>5. e.status # "incomplete"
      BY <3>1, <3>2, <3>4, Order DEF Agree
    <3> QED BY <1>5, <2>1, <3>5 DEF Begun
  <2>2. CASE ~(t = s /\ Applies(row, e))
    <3>1. mirror'[t] = mirror[t]
      BY <1>4, <2>2
    <3> QED BY <1>10, <3>1 DEF Begun
  <2> QED BY <2>1, <2>2
<1>11. ASSUME NEW v \in Workers PROVE Stored(v)'
  <2>1. CASE v = w
    BY <1>6, <1>7, <2>1 DEF Stored, Step
  <2>2. CASE v # w
    <3>1. work'[v] = work[v] /\ Stored(v)
      BY <1>7, <2>2 DEF DoubleInv
    <3>2. Step(v, "upsert") => work[v].event.sub \in Subs
      BY DeliveryHasEvent DEF Basis, Step
    <3>3. ASSUME NEW t, t = work[v].event.sub, t \in Subs, Begun(t) PROVE Begun(t)'
      BY <1>10, <3>3
    <3>4. \A t : Begun(t)' <=> mirror'[t] # None /\ mirror'[t].status # "incomplete"
      BY DEF Begun
    <3>5. Begun(work[v].event.sub)' <=> mirror'[work'[v].event.sub] # None /\ mirror'[work'[v].event.sub].status # "incomplete"
      BY DEF Begun
    <3> QED BY <3>1, <3>2, <3>3, <3>4, <3>5 DEF Stored, Step
  <2> QED BY <2>1, <2>2
<1>12. ASSUME NEW t \in Subs, Active(t)', ~Active(t) PROVE t = s /\ work'[w].step = "replace"
  <2>1. t = s /\ Applies(row, e) /\ e.status = "active"
    BY <1>4, <1>5, <1>12 DEF Active
  <2>2. ~e.deleted
    BY <1>1, <1>2, <2>1 DEF Delivering, Step
  <2>3. row = None \/ row.status = "incomplete"
    <3> SUFFICES ASSUME row # None PROVE row.status = "incomplete"
      OBVIOUS
    <3>1. row.status \in {"incomplete", "canceled"}
      BY <1>2, <1>12, <2>1 DEF DoubleInv, AllPaid, Paid, Active
    <3>2. row.status # "canceled"
      BY <1>2, <1>5, <2>1, <1>4 DEF Grows
    <3> QED BY <3>1, <3>2
  <2>4. FirstMove(e, work[w].stored)
    BY <1>1, <2>1, <2>2, <2>3 DEF FirstMove, DoubleInv, Stored, Begun
  <2> QED BY <1>7, <2>1, <2>2, <2>4 DEF to, AfterUpsert
<1>13. ASSUME NEW t \in Subs, NEW x \in Subs \ {t}, Active(t)', Active(x)' PROVE Noticed(t, x)'
  <2>1. CASE Active(t) /\ Active(x)
    <3>1. Noticed(t, x)
      BY <2>1 DEF DoubleInv, Pairs
    <3> QED BY <1>1, <1>3, <1>7, <3>1 DEF Noticed, Step
  <2>2. CASE ~(Active(t) /\ Active(x))
    <3>1. s \in {t, x} /\ work'[w].step = "replace"
      BY <1>12, <1>13, <2>2
    <3> QED BY <1>7, <3>1 DEF Noticed, Step
  <2> QED BY <2>1, <2>2
<1> QED BY <1>9, <1>11, <1>13 DEF DoubleInv, Pairs

\* Whoever looks finds the other one: either it is older and will be ended, or
\* staff are told.
LEMMA CancelReplacedKeepsDouble ==
    ASSUME Basis, DoubleInv, NEW w \in Workers, CancelReplaced(w), ~Fault
    PROVE  DoubleInv'
<1> DEFINE s == work[w].event.sub
           collecting == {x \in Subs : mirror[x] # None /\ mirror[x].status \in {"active", "past_due"}}
           others == IF s \in collecting THEN collecting \ {s} ELSE {}
           older == {x \in others : mirror[x].created < mirror[s].created}
<1> DEFINE to == IF older = {} THEN "grant" ELSE "cancel"
           k == [work[w] EXCEPT !.step = to, !.rest = older]
<1>1. /\ work' = [work EXCEPT ![w] = k] /\ alerted' = (alerted \/ others # older)
      /\ UNCHANGED <<now, stripeVars, mirror, terms, sweep>>
  BY DEF CancelReplaced, planVars
<1>2. UNCHANGED <<stripe, events, mirror>> /\ Step(w, "replace")
  <2>1. Step(w, "replace")
    BY DEF CancelReplaced
  <2> HIDE DEF older, others, k
  <2> QED BY <1>1, <2>1 DEF stripeVars
<1>3. /\ work'[w].event = work[w].event /\ \A v \in Workers \ {w} : work'[v] = work[v]
  BY CancelReplacedKeepsBasis
<1>4. ASSUME NEW t \in Subs, NEW x \in Subs \ {t}, Active(t), Active(x), s \in {t, x}
      PROVE  others # {}
  BY <1>4 DEF Active
<1> HIDE DEF older, others
<1>5. work'[w].step = to
  <2>1. work \in [Workers -> Work] /\ work[w] \in Work
    BY DEF Basis, TypeOK
  <2>2. work'[w] = k
    BY <1>1, <2>1
  <2> QED BY <2>1, <2>2 DEF Work
<1>6. others # {} => alerted' \/ work'[w].step = "cancel"
  BY <1>1, <1>5
<1>7. (alerted => alerted') /\ to \in {"grant", "cancel"}
  BY <1>1
<1> HIDE DEF to, k
<1>8. AllPaid'
  <2>1. \A v \in Workers : work'[v].event \in {work[v].event, None} \cup events
    BY <1>3
  <2> QED BY <1>2, <2>1, QuietIsPaid DEF DoubleInv
<1>9. ASSUME NEW v \in Workers PROVE Stored(v)'
  <2>1. CASE v = w
    BY <1>5, <1>7, <2>1 DEF Stored, Step
  <2>2. CASE v # w
    BY <1>2, <1>3, <2>2 DEF DoubleInv, Stored, Step, Begun
  <2> QED BY <2>1, <2>2
<1>10. ASSUME NEW t \in Subs, NEW x \in Subs \ {t}, Active(t)', Active(x)' PROVE Noticed(t, x)'
  <2>1. Active(t) /\ Active(x) /\ Noticed(t, x)
    BY <1>2, <1>10 DEF DoubleInv, Pairs, Active
  <2>2. CASE alerted
    BY <1>7, <2>2 DEF Noticed
  <2>3. CASE \E v \in Workers \ {w} : (Step(v, "replace") /\ work[v].event.sub \in {t, x}) \/ Step(v, "cancel")
    BY <1>3, <2>3 DEF Noticed, Step
  <2>4. CASE s \in {t, x}
    <3>1. others # {}
      BY <1>4, <2>1, <2>4
    <3> QED BY <1>6, <3>1 DEF Noticed, Step
  <2>5. ~Step(w, "cancel")
    BY <1>2 DEF Step
  <2> QED BY <2>1, <2>2, <2>3, <2>4, <2>5 DEF Noticed
<1> QED BY <1>8, <1>9, <1>10 DEF DoubleInv, Pairs

LEMMA CancelOneKeepsDouble ==
    ASSUME Basis, DoubleInv, NEW w \in Workers, NEW x \in Subs, CancelOne(w, x)
    PROVE  DoubleInv'
<1> DEFINE rest == work[w].rest \ {x}
<1>1. /\ mirror' = mirror /\ alerted' = (alerted \/ rest = {}) /\ Step(w, "cancel")
      /\ work' = [work EXCEPT ![w].step = IF rest = {} THEN "grant" ELSE "cancel", ![w].rest = rest]
  BY DEF CancelOne, planVars
<1>2. /\ work'[w].event = work[w].event /\ \A v \in Workers \ {w} : work'[v] = work[v]
      /\ work'[w].step \in {"grant", "cancel"}
  BY CancelOneKeepsBasis
<1>3. alerted' \/ work'[w].step = work[w].step
  <2>1. work \in [Workers -> Work] /\ work[w] \in Work
    BY DEF Basis, TypeOK
  <2> HIDE DEF rest
  <2> QED BY <1>1, <2>1 DEF Work, Step
<1>4. AllPaid'
  <2>1. \A v \in Workers : work'[v].event = work[v].event
    BY <1>2
  <2>2. \A e \in events' : e \in events \/ e.status = "canceled"
    BY DEF CancelOne, End, Issue, Body, stripeVars
  <2>3. ASSUME NEW t \in Subs, stripe'[t] # None PROVE Paid(stripe'[t].status)
    <3>1. stripe' = stripe \/ \E p : Becomes(x, "canceled", p)
      BY DEF CancelOne, End, stripeVars
    <3>2. stripe \in [Subs -> Subscription \cup {None}] /\ Paid("canceled")
      BY DEF Basis, TypeOK, Paid
    <3> QED BY <2>3, <3>1, <3>2 DEF Becomes, DoubleInv, AllPaid
  <2>4. Paid("canceled")
    BY DEF Paid
  <2> QED BY <1>1, <2>1, <2>2, <2>3, <2>4 DEF DoubleInv, AllPaid
<1>5. Stored(w)'
  BY <1>2 DEF Stored, Step
<1>6. alerted => alerted'
  BY <1>1
<1> QED BY <1>1, <1>2, <1>3, <1>4, <1>5, <1>6, DeliveryKeepsDouble

LEMMA DeliveryStepKeepsDouble ==
    ASSUME Basis, DoubleInv, NEW w \in Workers, Proceed(w), ~Fault
    PROVE  DoubleInv'
<1>1. CASE FindSubscription(w)
  <2>1. /\ work'[w].stored = mirror[work[w].event.sub] /\ work'[w].event = work[w].event
        /\ work'[w].step = "upsert" /\ \A v \in Workers \ {w} : work'[v] = work[v]
    BY <1>1, FindSubscriptionKeepsBasis
  <2>2. UNCHANGED <<stripe, events, mirror, alerted>> /\ Step(w, "read")
    BY <1>1 DEF FindSubscription, stripeVars, planVars
  <2>3. Stored(w)'
    BY <2>1, <2>2 DEF Stored, Step, Begun
  <2>4. ~Step(w, "replace") /\ ~Step(w, "cancel")
    BY <2>2 DEF Step
  <2> QED BY <2>1, <2>2, <2>3, <2>4, QuietDeliveryKeepsDouble
<1>2. CASE FindStale(w)
  <2>1. /\ work'[w].step = "leave" /\ work'[w].event = work[w].event
        /\ \A v \in Workers \ {w} : work'[v] = work[v]
    BY <1>2, FindStaleKeepsBasis
  <2>2. UNCHANGED <<stripe, events, mirror, alerted>> /\ Step(w, "stale")
    BY <1>2 DEF FindStale, stripeVars, planVars
  <2>3. Stored(w)' /\ ~Step(w, "replace") /\ ~Step(w, "cancel")
    BY <2>1, <2>2 DEF Stored, Step
  <2> QED BY <2>1, <2>2, <2>3, QuietDeliveryKeepsDouble
<1>3. CASE Grant(w) \/ Leave(w)
  <2>1. /\ work'[w].step = "record" /\ work'[w].event = work[w].event
        /\ \A v \in Workers \ {w} : work'[v] = work[v]
    BY <1>3, RecomputeKeepsBasis
  <2>2. UNCHANGED <<stripe, events, mirror, alerted>> /\ (Step(w, "grant") \/ Step(w, "leave"))
    BY <1>3 DEF Grant, Leave, stripeVars
  <2>3. Stored(w)' /\ ~Step(w, "replace") /\ ~Step(w, "cancel")
    BY <2>1, <2>2 DEF Stored, Step
  <2> QED BY <2>1, <2>2, <2>3, QuietDeliveryKeepsDouble
<1>4. CASE RecordEvent(w)
  <2>1. work'[w] = IdleWork /\ \A v \in Workers \ {w} : work'[v] = work[v]
    BY <1>4, RecordKeepsBasis
  <2>2. UNCHANGED <<stripe, mirror, alerted>> /\ events' \subseteq events /\ Step(w, "record")
    BY <1>4 DEF RecordEvent, planVars
  <2>3. Stored(w)' /\ ~Step(w, "replace") /\ ~Step(w, "cancel") /\ work'[w].event = None
    BY <2>1, <2>2 DEF Stored, Step, IdleWork
  <2> QED BY <2>1, <2>2, <2>3, QuietDeliveryKeepsDouble
<1> QED BY <1>1, <1>2, <1>3, <1>4, UpsertKeepsDouble, CancelReplacedKeepsDouble, CancelOneKeepsDouble
        DEF Proceed

\* Without a failed payment and a fault, two active rows never go unnoticed.
LEMMA DoubleStep == ~Dunning /\ Basis /\ DoubleInv /\ [Next]_vars /\ faults' = faults => DoubleInv'
<1> SUFFICES ASSUME ~Dunning, Basis, DoubleInv, [Next]_vars, faults' = faults PROVE DoubleInv'
  OBVIOUS
<1>0. ~Fault
  BY DEF Fault, Basis, TypeOK
<1>1. CASE UNCHANGED <<stripe, events, work, alerted>> /\ (UNCHANGED mirror \/ \E j \in Jobs : Mark(j))
  <2>1. ASSUME NEW s \in Subs PROVE /\ mirror[s] = None <=> mirror'[s] = None
                                    /\ mirror[s] # None => mirror'[s].status = mirror[s].status
    <3>1. CASE UNCHANGED mirror
      BY <3>1
    <3>2. CASE \E j \in Jobs : Mark(j)
      <4>1. PICK j \in Jobs : Mark(j)
        BY <3>2
      <4>2. mirror \in [Subs -> Row \cup {None}] /\ (mirror[s] # None => mirror[s] \in Row)
        BY DEF Basis, TypeOK
      <4>3. \/ mirror'[s] = mirror[s]
            \/ mirror[s] # None /\ mirror'[s] = [mirror[s] EXCEPT !.ended = TRUE]
        BY <4>1, <4>2 DEF Mark, Marked, GraceEnded
      <4>4. Basis'
        BY <4>1, MarkKeepsBasis
      <4>5. mirror[s] # None => mirror'[s] # None
        BY <4>1, MarkKeepsRows DEF Basis, Grows
      <4> QED BY <4>2, <4>3, <4>5 DEF Row
    <3> QED BY <1>1, <3>1, <3>2
  <2>2. AllPaid'
    <3>1. \A v \in Workers : work'[v].event \in {work[v].event, None} \cup events
      BY <1>1
    <3> QED BY <1>1, <2>1, <3>1, QuietIsPaid DEF DoubleInv
  <2> QED BY <1>1, <2>1, <2>2, BackgroundKeepsDouble
<1>2. CASE \/ UNCHANGED vars
           \/ Tick
           \/ \E o \in Orders, plan \in Plans : \/ \E paidAt \in 0 .. MaxTime : Activate(o, plan, paidAt)
                                                \/ RefundFirst(o, plan)
           \/ \E o \in Orders : Refund(o)
           \/ \E j \in Jobs : Sweep(j) \/ SweepFails(j)
  <2>1. UNCHANGED <<stripe, events, work, alerted>> /\ (UNCHANGED mirror \/ \E j \in Jobs : Mark(j))
    BY <1>0, <1>2
    DEF vars, stripeVars, planVars, Tick, Activate, RefundFirst, Refund, Sweep, SweepFails, StartSweep, Recompute, Mark
  <2> QED BY <1>1, <2>1
<1>3. ASSUME NEW s \in Subs, NEW plan \in Plans,
             Subscribe(s, plan) \/ ChangePlan(s, plan) \/ Move(s) \/ Cancel(s) \/ Edit(s)
      PROVE  DoubleInv'
  <2>1. AllPaid'
    BY <1>3, StripeKeepsPaid DEF DoubleInv
  <2>2. UNCHANGED <<work, alerted, mirror>>
    BY <1>3, SubscriptionsKeepBasis DEF planVars
  <2> QED BY <2>1, <2>2, BackgroundKeepsDouble
<1>4. ASSUME NEW s \in Subs, Move(s) \/ Cancel(s) \/ Edit(s) PROVE DoubleInv'
  <2>1. stripe[s].plan \in Plans
    BY <1>4 DEF Move, Cancel, Edit, Basis, TypeOK, Subscription
  <2> QED BY <1>3, <1>4, <2>1
<1>5. ASSUME NEW w \in Workers, NEW e \in events, Begin(w, e) PROVE DoubleInv'
  <2>1. /\ Step(w, "idle") /\ UNCHANGED <<mirror, stripe, events, alerted>>
        /\ work' = [work EXCEPT ![w] = [step |-> IF e.deleted THEN "upsert" ELSE "read",
                                        event |-> e, stored |-> None, rest |-> {}]]
    BY <1>5 DEF Begin, stripeVars, planVars
  <2>2. /\ work'[w].event = e /\ work'[w].stored = None
        /\ \A v \in Workers \ {w} : work'[v] = work[v]
    BY <2>1 DEF Basis, TypeOK
  <2>3. Stored(w)' /\ ~Step(w, "replace") /\ ~Step(w, "cancel")
    BY <2>1, <2>2 DEF Stored, Step
  <2> QED BY <2>1, <2>2, <2>3, QuietDeliveryKeepsDouble
<1>6. ASSUME NEW w \in Workers, DeliveryFails(w) PROVE FALSE
  BY <1>0, <1>6 DEF DeliveryFails
<1> QED BY <1>0, <1>2, <1>3, <1>4, <1>5, <1>6, DeliveryStepKeepsDouble DEF Next

LEMMA FaultsGrow == Basis /\ [Next]_vars => faults' \in {faults, faults + 1}
<1> SUFFICES ASSUME Basis, [Next]_vars PROVE faults' \in {faults, faults + 1}
  OBVIOUS
<1>1. CASE faults' = faults \/ Fault
  BY <1>1 DEF Fault
<1>2. ASSUME NEW w \in Workers, Proceed(w) PROVE faults' = faults \/ Fault
  <2>1. CASE FindSubscription(w) \/ UpsertSubscription(w) \/ FindStale(w) \/ Grant(w) \/ Leave(w) \/ RecordEvent(w)
    BY <2>1 DEF FindSubscription, UpsertSubscription, FindStale, Grant, Leave, RecordEvent
  <2>2. CASE CancelReplaced(w)
    BY <2>2 DEF CancelReplaced
  <2>3. CASE \E x \in Subs : CancelOne(w, x)
    BY <2>3 DEF CancelOne
  <2> QED BY <1>2, <2>1, <2>2, <2>3 DEF Proceed
<1>3. ASSUME NEW j \in Jobs, Sweep(j) \/ SweepFails(j) PROVE faults' = faults \/ Fault
  <2>1. CASE SweepFails(j)
    BY <2>1 DEF SweepFails
  <2>2. CASE StartSweep(j)
    BY <2>2 DEF StartSweep
  <2>3. CASE Recompute(j)
    BY <2>3 DEF Recompute
  <2>4. CASE Mark(j)
    BY <2>4 DEF Mark
  <2> QED BY <1>3, <2>1, <2>2, <2>3, <2>4 DEF Sweep
<1>4. ASSUME NEW s \in Subs, NEW plan \in Plans,
             Subscribe(s, plan) \/ ChangePlan(s, plan) \/ Move(s) \/ Cancel(s) \/ Edit(s)
      PROVE  faults' = faults
  BY <1>4 DEF Subscribe, ChangePlan, Move, Cancel, Edit
<1>5. ASSUME NEW s \in Subs, Move(s) \/ Cancel(s) \/ Edit(s) PROVE faults' = faults
  BY <1>5 DEF Move, Cancel, Edit
<1>6. ASSUME NEW w \in Workers, NEW e \in events, Begin(w, e) PROVE faults' = faults
  BY <1>6 DEF Begin
<1>7. ASSUME NEW w \in Workers, DeliveryFails(w) PROVE Fault
  BY <1>7 DEF DeliveryFails
<1>8. ASSUME NEW o \in Orders, NEW plan \in Plans,
             Refund(o) \/ RefundFirst(o, plan) \/ \E paidAt \in 0 .. MaxTime : Activate(o, plan, paidAt)
      PROVE  faults' = faults
  BY <1>8 DEF Refund, RefundFirst, Activate
<1>9. ASSUME NEW o \in Orders, Refund(o) PROVE faults' = faults
  BY <1>9 DEF Refund
<1>10. CASE Tick \/ UNCHANGED vars
  BY <1>10 DEF Tick, vars
<1> QED BY <1>1, <1>2, <1>3, <1>4, <1>5, <1>6, <1>7, <1>8, <1>9, <1>10 DEF Next

LEMMA AtMostOne ==
    ASSUME NEW S, IsFiniteSet(S), \A x, y \in S : x = y
    PROVE  Cardinality(S) <= 1
<1>1. CASE S = {}
  BY <1>1, FS_EmptySet
<1>2. CASE S # {}
  <2>1. PICK x \in S : S = {x}
    BY <1>2
  <2> QED BY <2>1, FS_Singleton
<1> QED BY <1>1, <1>2

LEMMA NoticedIsTold == Basis /\ DoubleInv /\ MirrorConverges => NoSilentDoubleBilling
<1> SUFFICES ASSUME Basis, DoubleInv, MirrorConverges, Settled, ~alerted
             PROVE  Cardinality({s \in Subs : stripe[s] # None /\ stripe[s].status \in {"active", "past_due"}}) <= 1
  BY DEF NoSilentDoubleBilling
<1> DEFINE S == {s \in Subs : stripe[s] # None /\ stripe[s].status \in {"active", "past_due"}}
<1>1. Answered
  BY DEF Settled
<1>2. ASSUME NEW s \in S PROVE Active(s)
  BY <1>1, <1>2 DEF MirrorConverges, DoubleInv, AllPaid, Paid, Active
<1>3. \A s \in Subs : \A x \in Subs \ {s} : ~Noticed(s, x)
  BY <1>1 DEF Noticed, Answered, Step
<1>4. \A s, x \in S : s = x
  BY <1>2, <1>3 DEF DoubleInv, Pairs
<1>5. IsFiniteSet(S)
  BY FS_Subset
<1> HIDE DEF S
<1>6. Cardinality(S) <= 1
  BY <1>4, <1>5, AtMostOne
<1> QED BY <1>6 DEF S

LEMMA InitDouble == Init => DoubleInv
BY DEF Init, DoubleInv, AllPaid, Stored, Step, Pairs, Active, IdleWork

\* As long as no payment failed and no delivery or sweep did, a customer who pays for
\* two subscriptions at once is never left so silently.
THEOREM NoSilentDoubleBillingHolds ==
    ASSUME ~Dunning
    PROVE  Spec => [](faults = 0 => NoSilentDoubleBilling)
<1>1. Init => (faults = 0 => DoubleInv)
  BY InitDouble
<1>2. Basis /\ (faults = 0 => DoubleInv) /\ [Next]_vars => (faults = 0 => DoubleInv)'
  <2> SUFFICES ASSUME Basis, faults = 0 => DoubleInv, [Next]_vars, faults' = 0 PROVE DoubleInv'
    OBVIOUS
  <2>1. faults' = faults
    BY FaultsGrow DEF Basis, TypeOK
  <2> QED BY <2>1, DoubleStep
<1>3. Basis /\ MirrorConverges /\ (faults = 0 => DoubleInv) => (faults = 0 => NoSilentDoubleBilling)
  BY NoticedIsTold
<1> QED BY <1>1, <1>2, <1>3, BasisHolds, MirrorConvergesHolds, PTL DEF Spec
=============================================================================
