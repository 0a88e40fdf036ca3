--------------------------- MODULE CreditAccount ---------------------------
(***************************************************************************)
(* Where one account's AI credit comes from and goes to: its lots          *)
(* (db/credit-ledger-repo.ts), the holds and claims of its tasks           *)
(* (services/credit-reservations.ts, db/credit-reservations-repo.ts), the  *)
(* grants, clawbacks and give-backs (services/credit-grants.ts,            *)
(* credit-clawbacks.ts) and the admin adjustments                          *)
(* (routes/admin-ai-credits.ts).                                           *)
(*                                                                         *)
(* Every writer takes the account's row lock first, so a transaction is    *)
(* one step.  It is written as a chain of operators from account to        *)
(* account, in the order the code calls them.                              *)
(*                                                                         *)
(* A lot's number is its place in the spend order (spend_rank, expires_at, *)
(* created_at, id); seq is the order lots were created in.  Clawbacks are  *)
(* numbered as they are inserted.  What a task is charged is any amount up *)
(* to what it reserved, which is ChargedWithinReservation of CreditTasks.  *)
(* Not here: a won dispute and what it undoes, revoked lots.               *)
(***************************************************************************)
EXTENDS Integers, FiniteSets, Sums

CONSTANTS
    Units,      \* payments that earned credit in a window (window:coverage)
    Annual,     \* the units an annual payment earned
    Covers,     \* the units of payments that stand alone above a window's own
    None,       \* SQL NULL
    MaxLot,     \* bound: lots inserted
    MaxTask,    \* bound: enforced tasks
    MaxClaw,    \* bound: clawbacks inserted
    MaxSlots,   \* MAX_ENFORCED_TASKS
    MinStart,   \* the least credit a task starts on
    MaxReserve, \* the most a task reserves
    Grants,     \* amounts a lot may be granted
    Reversals,  \* amounts a reversed payment may take back of a unit
    Downgrades, \* amounts a plan change may take back
    Shortfalls, \* amounts a unit may stand below what it keeps
    MaxMoves,   \* bound: tasks, clawbacks and what give-backs undo, in all
    MaxTime     \* bound: the clock stops here

ASSUME ConstantsAssumption ==
    /\ {MaxLot, MaxTask, MaxClaw, MaxSlots, MaxMoves, MaxTime} \subseteq Nat
    /\ MinStart \in Nat \ {0} /\ MaxReserve \in Nat /\ MinStart <= MaxReserve
    /\ Grants \subseteq Nat \ {0}
    /\ Reversals \subseteq Nat \ {0}
    /\ Downgrades \subseteq Nat \ {0}
    /\ Shortfalls \subseteq Nat \ {0}
    /\ Annual \subseteq Units /\ Covers \subseteq Units
    /\ None \notin Units

Lots == 1 .. MaxLot
Tasks == 1 .. MaxTask
Claws == 1 .. MaxClaw

(***************************************************************************)
(* acct   credit_lots with each lot's ledger totals by kind,               *)
(*        credit_clawbacks, credit_accounts.debt_micro, and the ledger     *)
(*        totals of give-backs (`reinstate:` rows, released claims)        *)
(* task   credit_reservations in enforce mode                              *)
(* hold   credit_reservation_holds.held_micro; open while the task is      *)
(* taken  credit_reservation_holds.charged_micro                           *)
(***************************************************************************)
VARIABLES acct, task, hold, taken, now

vars == <<acct, task, hold, taken, now>>

\* A lot without a unit is goodwill.  rank is spend_rank: 0 for included credit,
\* 1 for goodwill and for a lot a give-back made.
Lot == [unit : Units \cup {None}, rank : {0, 1}, ends : Nat, seq : 0 .. MaxLot,
        granted : Nat, remaining : Nat, held : Nat,
        expired : Nat, spent : Nat, repaid : Nat]

\* want is the part of the amount that the lots ever held; took, what came out
\* of each lot at once; paid, what a settlement paid of its claim out of each.
Claw == [state : {"none", "applied"}, source : {"plan_change", "reversal", "cover"},
         unit : Units \cup {None}, want : Nat, took : [Lots -> Nat],
         paid : [Lots -> Nat], pending : Nat, debt : Nat, dropped : Nat]

\* What give-backs released of each claim; put back into each lot of what was
\* taken from its own unit, and of what it had paid for another charge; and, for
\* each unit, forgave of its debt and undid of its other charges.
Back == [released : [Claws -> Nat], restored : [Lots -> Nat], returned : [Lots -> Nat],
         excused : [Units -> Nat], undone : [Units -> Nat]]

Account == [lot : [Lots -> Lot], claw : [Claws -> Claw], debt : Nat, forgiven : Nat,
            back : Back]

Task == [state : {"none", "open", "settled"}, reserved : Nat, charged : Nat]

NoLot == [unit |-> None, rank |-> 0, ends |-> 0, seq |-> 0, granted |-> 0, remaining |-> 0,
          held |-> 0, expired |-> 0, spent |-> 0, repaid |-> 0]

NoClaw == [state |-> "none", source |-> "reversal", unit |-> None, want |-> 0,
           took |-> [l \in Lots |-> 0], paid |-> [l \in Lots |-> 0],
           pending |-> 0, debt |-> 0, dropped |-> 0]

NoneBack == [released |-> [k \in Claws |-> 0], restored |-> [l \in Lots |-> 0],
             returned |-> [l \in Lots |-> 0], excused |-> [u \in Units |-> 0],
             undone |-> [u \in Units |-> 0]]

Least(m, n) == IF m < n THEN m ELSE n
Natural(n) == IF n < 0 THEN 0 ELSE n

Init ==
    /\ acct = [lot |-> [l \in Lots |-> NoLot], claw |-> [k \in Claws |-> NoClaw],
               debt |-> 0, forgiven |-> 0, back |-> NoneBack]
    /\ task = [t \in Tasks |-> [state |-> "none", reserved |-> 0, charged |-> 0]]
    /\ hold = [t \in Tasks |-> [l \in Lots |-> 0]]
    /\ taken = [t \in Tasks |-> [l \in Lots |-> 0]]
    /\ now = 0

Open == {t \in Tasks : task[t].state = "open"}

-----------------------------------------------------------------------------
(* Taking an amount out of a row of pots, first pot first *)

\* What the i-th of the pots gives towards want.
Waterfall(want, pot, i) == Least(pot[i], Natural(want - SumTo(pot, i - 1)))

Total(f) == SumTo(f, MaxLot)

-----------------------------------------------------------------------------
(* Lots *)

Exists(a, l) == a.lot[l].seq > 0
Done(a, l) == a.lot[l].ends <= now
Free(a, l) == a.lot[l].remaining - a.lot[l].held

\* starts_at is in the past of the transaction that inserts the lot.
Spendable(a) == [l \in Lots |-> IF Done(a, l) THEN 0 ELSE Free(a, l)]

SpendableMicro(a) == Total(Spendable(a))
HeldMicro(a) == Total([l \in Lots |-> a.lot[l].held])

\* Mutant: a due lot gives up what a running task still holds.
ExpireDueLotsWhole(a) ==
    [a EXCEPT !.lot = [l \in Lots |->
        LET gone == IF Done(a, l) THEN a.lot[l].remaining ELSE 0
        IN  [a.lot[l] EXCEPT !.remaining = @ - gone, !.expired = @ + gone]]]

ExpireDueLots(a) ==
    [a EXCEPT !.lot = [l \in Lots |->
        LET gone == IF Done(a, l) THEN Free(a, l) ELSE 0
        IN  [a.lot[l] EXCEPT !.remaining = @ - gone, !.expired = @ + gone]]]

SettleDebtFromFree(a) ==
    LET repay == [l \in Lots |-> Waterfall(a.debt, Spendable(a), l)]
    IN  [a EXCEPT !.debt = @ - Total(repay),
                  !.lot = [l \in Lots |->
                      [a.lot[l] EXCEPT !.remaining = @ - repay[l],
                                       !.repaid = @ + repay[l]]]]

\* Whether a new lot belongs behind lot m: it is the youngest, so ties go to m.
Behind(a, m, rank, ends) ==
    a.lot[m].rank < rank \/ (a.lot[m].rank = rank /\ a.lot[m].ends <= ends)

InsertLot(a, l, unit, rank, ends, granted) ==
    [a EXCEPT !.lot[l] =
        [NoLot EXCEPT !.unit = unit, !.rank = rank, !.ends = ends, !.granted = granted,
                      !.remaining = granted,
                      !.seq = 1 + Cardinality({m \in Lots : Exists(a, m)})]]

OfUnit(a, unit) == {l \in Lots : a.lot[l].unit = unit}

\* A unit of the window that runs.
Running(a, unit) == \A l \in OfUnit(a, unit) : ~ Done(a, l)

\* The accounts that one more lot of one of the amounts can make of a.  A unit's
\* lots end with its window.
LotAdded(a, unit, rank, amounts) ==
    LET rows == {l \in Lots : ~ Exists(a, l)}
    IN  {InsertLot(a, p[1], unit, rank, p[2], p[3]) :
            p \in {q \in rows \X (now + 1 .. MaxTime + 1) \X amounts :
                      /\ \A m \in OfUnit(a, unit) \ OfUnit(a, None) : a.lot[m].ends = q[2]
                      /\ \A m \in Lots : Exists(a, m) =>
                            (m < q[1] <=> Behind(a, m, rank, q[2]))}}

\* Included credits are spent before goodwill.
Granted(a, unit) == LotAdded(a, unit, IF unit = None THEN 1 ELSE 0, Grants)

-----------------------------------------------------------------------------
(* What MaxMoves counts *)

\* What give-backs have put into a lot, the lot itself when one made it.
GivenInto(a, l) ==
    a.back.restored[l] + a.back.returned[l]
    + IF a.lot[l].rank = 1 /\ a.lot[l].unit # None THEN a.lot[l].granted ELSE 0

MovesOf(a) ==
    Cardinality({t \in Tasks : task[t].state # "none"})
    + Cardinality({k \in Claws : a.claw[k].state # "none"})
    + Total([l \in Lots |-> GivenInto(a, l)]) + SumTo(a.back.released, MaxClaw)
    + Cardinality({u \in Units : a.back.excused[u] > 0})

-----------------------------------------------------------------------------
(* Clawbacks *)

EverHeld(a, l) == Natural(a.lot[l].granted - a.lot[l].expired)

PendingClaimTotal(a) == SumTo([k \in Claws |-> a.claw[k].pending], MaxClaw)

ClaimsOf(a, unit) ==
    SumTo([k \in Claws |-> IF a.claw[k].unit = unit THEN a.claw[k].pending ELSE 0], MaxClaw)

\* What running tasks hold on the unit's own lots and its clawbacks do not claim.
ClaimableOf(a, unit) ==
    Natural(Total([l \in Lots |-> IF l \in OfUnit(a, unit) THEN a.lot[l].held ELSE 0])
            - ClaimsOf(a, unit))

\* Mutant: held credit is claimed whatever claims stand against it.
ClaimableTwice(a, source, unit) == HeldMicro(a)

Claimable(a, source, unit) ==
    LET onAccount == Natural(HeldMicro(a) - PendingClaimTotal(a))
    IN  IF source = "plan_change" THEN onAccount ELSE Least(onAccount, ClaimableOf(a, unit))

\* What clawbacks took out of a lot of its own unit's credit: at once, or as a
\* claim of the unit's own.
TakenFrom(a, l) ==
    SumTo([k \in Claws |-> a.claw[k].took[l]
                            + IF a.claw[k].unit = a.lot[l].unit THEN a.claw[k].paid[l] ELSE 0],
          MaxClaw)

\* What a lot paid of other charges: debt, and claims of other units' clawbacks.
PaidFrom(a, l) ==
    a.lot[l].repaid
    + SumTo([k \in Claws |-> IF a.claw[k].unit = a.lot[l].unit THEN 0 ELSE a.claw[k].paid[l]],
            MaxClaw)

\* What left the unit's lots on the customer's work, task charges and what they
\* paid of other charges, less what of that came back.
ConsumedOf(a, unit) ==
    Total([l \in Lots |-> IF l \in OfUnit(a, unit)
                          THEN a.lot[l].spent + PaidFrom(a, l) - a.back.returned[l] ELSE 0])

DebtOf(a, unit) ==
    SumTo([k \in Claws |-> IF a.claw[k].unit = unit THEN a.claw[k].debt ELSE 0], MaxClaw)

\* What the unit's clawbacks charged beyond its lots, but for standing claims.
BilledOf(a, unit) ==
    LET elsewhere(k) == Total([l \in Lots |-> IF l \in OfUnit(a, unit) THEN 0
                                              ELSE a.claw[k].paid[l]])
    IN  SumTo([k \in Claws |-> IF a.claw[k].unit = unit
                               THEN a.claw[k].debt + a.claw[k].dropped + elsewhere(k)
                               ELSE 0], MaxClaw)

\* What of it no give-back has undone.
ChargedBeyond(a, unit) ==
    BilledOf(a, unit) - a.back.excused[unit] - a.back.undone[unit]

PositionOf(a, unit) ==
    Total([l \in Lots |-> IF l \in OfUnit(a, unit) THEN a.lot[l].remaining ELSE 0])
        + ConsumedOf(a, unit) - (ChargedBeyond(a, unit) + ClaimsOf(a, unit))

\* What an amount takes of each pot, the pot of the newest lot first.
FromNewest(a, pot, want) ==
    LET newer(l) == Total([m \in Lots |-> IF a.lot[m].seq > a.lot[l].seq THEN pot[m] ELSE 0])
    IN  [l \in Lots |-> Least(pot[l], Natural(want - newer(l)))]

\* Mutant: each lot's share is fixed before it is asked.
PlanClawbackFixed(a, targets, want) ==
    LET held == [l \in Lots |-> IF l \in targets THEN EverHeld(a, l) ELSE 0]
        newer(l) == Total([m \in Lots |-> IF a.lot[m].seq > a.lot[l].seq THEN held[m] ELSE 0])
    IN  [l \in Lots |-> Least(Least(held[l], Natural(Free(a, l))), Natural(want - newer(l)))]

\* What the lots of targets give up.
PlanClawback(a, targets, want) ==
    FromNewest(a, [l \in Lots |-> IF l \in targets THEN Least(Natural(Free(a, l)), EverHeld(a, l))
                                  ELSE 0], want)

\* Clawback k of amount on the lots of the units in line.
ClawBack(a, k, source, unit, line, amount) ==
    LET targets == {l \in Lots : a.lot[l].unit \in line}
        want == Least(amount, Total([l \in Lots |-> IF l \in targets THEN EverHeld(a, l) ELSE 0]))
        take == PlanClawback(a, targets, want)
        pending == Least(want - Total(take), Claimable(a, source, unit))
        debt == want - Total(take) - pending
    IN  [a EXCEPT !.lot = [l \in Lots |-> [a.lot[l] EXCEPT !.remaining = @ - take[l]]],
                  !.claw[k] = [NoClaw EXCEPT !.state = "applied", !.source = source,
                                             !.unit = unit, !.want = want, !.took = take,
                                             !.pending = pending, !.debt = debt],
                  !.debt = @ + debt]

\* The number the next clawback gets.
NextClaws(a) ==
    {k \in Claws : /\ MovesOf(a) < MaxMoves
                   /\ a.claw[k].state = "none"
                   /\ \A j \in 1 .. k - 1 : a.claw[j].state # "none"}

\* The accounts that taking credit of unit back can make of a: down to what the
\* payment still pays for, at the least nothing.  The caller settles the debt.
TakenBack(a, source, unit) ==
    {ClawBack(a, p[1], source, unit, {unit}, p[2]) :
        p \in NextClaws(a) \X {r \in Reversals : r <= PositionOf(a, unit)}}

\* The accounts a downgrade can make of a; its debt is settled at once.
Downgraded(a) ==
    LET lines == {line \in SUBSET Units : /\ \A u \in line : Running(a, u)
                                          /\ \E l \in Lots : a.lot[l].unit \in line}
        less(k) == UNION {{ClawBack(a, k, "plan_change", p[1], line, p[2]) :
                              p \in line \X Downgrades} : line \in lines}
    IN  {SettleDebtFromFree(b) : b \in UNION {less(k) : k \in NextClaws(a)}}

\* The accounts a plan change can make of a: nothing to reconcile, more credit
\* for an upgrade, or less for a downgrade.
LevelReconciled(a) == {a} \cup Downgraded(a) \cup UNION {Granted(a, u) : u \in Units}

-----------------------------------------------------------------------------
(* Give-backs *)

\* The unit's claims on held credit are released, the oldest clawback's first.
ClaimsReleased(a, unit, amount) ==
    LET owed == [k \in Claws |-> IF a.claw[k].unit = unit THEN a.claw[k].pending ELSE 0]
        release == [k \in Claws |-> Waterfall(amount, owed, k)]
    IN  [a EXCEPT !.claw = [k \in Claws |-> [a.claw[k] EXCEPT !.pending = @ - release[k]]],
                  !.back.released = [k \in Claws |-> @[k] + release[k]]]

\* What may be put back into a lot: nothing once it is done.
Room(a, l) == IF Done(a, l) THEN 0 ELSE a.lot[l].granted - a.lot[l].remaining

\* Debt of the unit is forgiven, and credit goes back into lots that paid for it.
Undone(a, unit, forgive, return) ==
    LET undone == [a.back EXCEPT !.excused[unit] = @ + forgive,
                                 !.undone[unit] = @ + Total(return),
                                 !.returned = [l \in Lots |-> @[l] + return[l]]]
    IN  [a EXCEPT !.debt = @ - forgive, !.forgiven = @ + forgive,
                  !.lot = [l \in Lots |-> [a.lot[l] EXCEPT !.remaining = @ + return[l]]],
                  !.back = undone]

\* The accounts that giving back part of what the unit was charged beyond its
\* lots can make of a.  Which of the account's debt is still the unit's, and
\* whose credit repaid the rest (debtFates), is any that the totals allow; what
\* was dropped, or came from a lot that is done, gives nothing back.
ChargesUndone(a, unit, part) ==
    {Undone(a, unit, p[1], p[2]) :
        p \in {q \in (0 .. Least(part, a.debt)) \X [Lots -> 0 .. part] :
                  /\ q[1] + Total(q[2]) <= part
                  /\ q[1] <= DebtOf(a, unit) - a.back.excused[unit]
                  /\ \A l \in Lots : /\ q[2][l] <= Room(a, l)
                                     /\ q[2][l] <= PaidFrom(a, l) - a.back.returned[l]}}

\* Mutant: what was put back before is put back again.
StillTakenTwice(a, l) == TakenFrom(a, l)

StillTaken(a, l) == TakenFrom(a, l) - a.back.restored[l]

\* What the unit's own lots get back of an amount, the newest lot first.
PutBack(a, unit, amount) ==
    FromNewest(a, [l \in Lots |-> IF l \in OfUnit(a, unit)
                                  THEN Least(StillTaken(a, l), Room(a, l)) ELSE 0], amount)

Restored(a, give) ==
    [a EXCEPT !.lot = [l \in Lots |-> [a.lot[l] EXCEPT !.remaining = @ + give[l]]],
              !.back.restored = [l \in Lots |-> @[l] + give[l]]]

\* The accounts that putting an amount back into the unit can make of a: what its
\* lots do not take is a lot of its own, raised to an amount that can be granted.
Reinstated(a, unit, amount) ==
    LET give == PutBack(a, unit, amount)
        rest == amount - Total(give)
        enough == {g \in Grants : g >= rest}
    IN  IF rest = 0 THEN {Restored(a, give)}
        ELSE LotAdded(Restored(a, give), unit, 1, {g \in enough : \A h \in enough : g <= h})

\* The accounts that taking back what was raised too much can make of a.
Trimmed(a, source, unit, target) ==
    LET over == PositionOf(a, unit) - target
    IN  IF over <= 0 THEN {a}
        ELSE {ClawBack(a, k, source, unit, {unit}, over) : k \in NextClaws(a)}

\* The accounts that giving the unit back what it stands short of its target can
\* make of a: claims first, then what was charged beyond its lots, then credit.
GivenBack(a, source, unit) ==
    LET left(s) == Natural(s - ClaimsOf(a, unit))
        part(s) == Least(left(s), ChargedBeyond(a, unit))
        undone(s) == ChargesUndone(ClaimsReleased(a, unit, s), unit, part(s))
        raised(s) == UNION {Reinstated(b, unit, left(s) - part(s)) : b \in undone(s)}
        given(s) == UNION {Trimmed(c, source, unit, PositionOf(a, unit) + s) : c \in raised(s)}
    IN  UNION {given(s) : s \in {r \in Shortfalls : /\ MovesOf(a) + r <= MaxMoves
                                                   /\ PositionOf(a, unit) + r >= 0}}

\* The accounts that bringing the unit to its target can make of a.
UnitReconciled(a, source, unit) ==
    TakenBack(a, source, unit) \cup GivenBack(a, source, unit)

\* The accounts that following the window's payments can make of a: the share
\* of a cover that stands alone rises or falls to its target.
CoverReconciled(a) ==
    {a} \cup UNION {UnitReconciled(a, "cover", u) : u \in {v \in Covers : Running(a, v)}}

Disputed(a, unit) ==
    \E k \in Claws : a.claw[k].source = "reversal" /\ a.claw[k].unit = unit

\* A refresh expires, draws a window if one is due and follows the plan.  If it
\* changed what a disputed payment bought, the dispute's share of that is
\* brought to its target.  Last it does so with the cover's, and repays debt.
Refreshed(a) ==
    LET due == ExpireDueLots(a)
        drawn == {due} \cup UNION {Granted(due, u) : u \in Units}
        level == UNION {LevelReconciled(b) : b \in drawn}
        share(b) == UNION {UnitReconciled(b, "reversal", u) :
                              u \in {v \in Units : Disputed(a, v) /\ Running(b, v)}}
        cover == UNION {CoverReconciled(b) : b \in level \cup UNION {share(b) : b \in level \ {due}}}
    IN  {SettleDebtFromFree(b) : b \in cover}

RefreshCredits ==
    /\ acct' \in Refreshed(acct)
    /\ UNCHANGED <<task, hold, taken, now>>

\* A refund or a dispute of the payment that earned unit.
Reverse(unit) ==
    /\ \E a \in LevelReconciled(acct) : \E b \in TakenBack(a, "reversal", unit) :
          \E c \in CoverReconciled(b) : acct' = SettleDebtFromFree(c)
    /\ UNCHANGED <<task, hold, taken, now>>

-----------------------------------------------------------------------------
(* Admin adjustments *)

\* Mutant: the debt is not settled from the new lot.
GrantGoodwillBesideDebt ==
    /\ acct' \in Granted(acct, None)
    /\ UNCHANGED <<task, hold, taken, now>>

GrantGoodwill ==
    /\ \E a \in Granted(acct, None) : acct' = SettleDebtFromFree(a)
    /\ UNCHANGED <<task, hold, taken, now>>

ForgiveDebt ==
    /\ acct.debt > 0
    /\ acct' = [acct EXCEPT !.debt = 0, !.forgiven = @ + acct.debt]
    /\ UNCHANGED <<task, hold, taken, now>>

-----------------------------------------------------------------------------
(* Tasks *)

\* The refresh inside a reservation may fail; the task goes on without it.
\* A refusal commits what the refresh did and is RefreshCredits.
Reserve(t) ==
    /\ task[t].state = "none" /\ \A u \in 1 .. t - 1 : task[u].state # "none"
    /\ Cardinality(Open) < MaxSlots
    /\ \E a \in {acct} \cup Refreshed(acct) :
          LET reserved == Least(MaxReserve, SpendableMicro(a))
              held == [l \in Lots |-> Waterfall(reserved, Spendable(a), l)]
          IN  /\ MovesOf(a) < MaxMoves
              /\ a.debt = 0
              /\ SpendableMicro(a) >= MinStart
              /\ task' = [task EXCEPT ![t] = [@ EXCEPT !.state = "open", !.reserved = reserved]]
              /\ hold' = [hold EXCEPT ![t] = held]
              /\ acct' = [a EXCEPT !.lot = [l \in Lots |->
                                               [a.lot[l] EXCEPT !.held = @ + held[l]]]]
    /\ UNCHANGED <<taken, now>>

\* Mutant: any claim is paid from any lot.
MayPayAnyLot(a, k, l) == TRUE

\* Mutant: what is released on a lot that is done expires before it pays a claim.
MayPayLiveLots(a, k, l) ==
    ~ Done(a, l) /\ (a.claw[k].source = "plan_change" \/ a.claw[k].unit = a.lot[l].unit)

\* A reversal's claim is paid only from its own unit's lots.
MayPay(a, k, l) ==
    a.claw[k].source = "plan_change" \/ a.claw[k].unit = a.lot[l].unit

\* Mutant: a second lot pays the same claim over again.
PaidTwice(a, released) ==
    LET owed(l) == [k \in Claws |-> IF MayPay(a, k, l) THEN a.claw[k].pending ELSE 0]
        paid[l \in 0 .. MaxLot] ==
            IF l = 0 THEN [k \in Claws |-> 0]
            ELSE [k \in Claws |-> paid[l - 1][k] + Waterfall(released[l], owed(l), k)]
    IN  paid

\* What each claim has been paid once lots 1 .. l have been released.
PaidUpTo(a, released) ==
    LET paid[l \in 0 .. MaxLot] ==
            IF l = 0 THEN [k \in Claws |-> 0]
            ELSE LET owed == [k \in Claws |->
                                 IF MayPay(a, k, l) THEN a.claw[k].pending - paid[l - 1][k] ELSE 0]
                 IN  [k \in Claws |-> paid[l - 1][k] + Waterfall(released[l], owed, k)]
    IN  paid

\* Release the holds of a task: charge, then pay claims, then expire what is
\* left on a lot that is done.
ReleaseHolds(a, held, take, paid) ==
    LET payment(l, k) == paid[l][k] - paid[l - 1][k]
        pays(l) == SumTo([k \in Claws |-> payment(l, k)], MaxClaw)
        rest(l) == IF Done(a, l) THEN held[l] - take[l] - pays(l) ELSE 0
    IN  [a EXCEPT !.lot = [l \in Lots |->
                      [a.lot[l] EXCEPT !.held = @ - held[l],
                                       !.remaining = @ - take[l] - pays(l) - rest(l),
                                       !.spent = @ + take[l],
                                       !.expired = @ + rest(l)]],
                  !.claw = [k \in Claws |->
                      [a.claw[k] EXCEPT !.pending = @ - paid[MaxLot][k],
                                        !.paid = [l \in Lots |-> @[l] + payment(l, k)]]]]

\* Mutant: the claims become debt although another task still holds credit.
ClaimsBecomeDebtNow(a, others) ==
    [a EXCEPT !.debt = @ + PendingClaimTotal(a),
              !.claw = [k \in Claws |-> [a.claw[k] EXCEPT !.pending = 0, !.debt = @ + a.claw[k].pending]]]

\* Mutant: the claims stand although the last task is over.
ClaimsStayPending(a, others) == a

\* Mutant: the clawback's own record is left saying it caused no debt.
ClaimsBecomeDebtUnrecorded(a, others) ==
    IF others # {} THEN a
    ELSE [a EXCEPT !.debt = @ + PendingClaimTotal(a),
                   !.claw = [k \in Claws |-> [a.claw[k] EXCEPT !.pending = 0]]]

\* Mutant: every claim that is left is dropped, not only an annual payment's.
ClaimsDropped(a, others) ==
    IF others # {} THEN a
    ELSE [a EXCEPT !.claw = [k \in Claws |->
                       [a.claw[k] EXCEPT !.pending = 0, !.dropped = @ + a.claw[k].pending]]]

ClaimsLeftBecomeDebt(a, others) ==
    LET annual(k) == a.claw[k].source = "reversal" /\ a.claw[k].unit \in Annual
        owed == [k \in Claws |-> IF annual(k) THEN 0 ELSE a.claw[k].pending]
    IN  IF others # {} THEN a
        ELSE [a EXCEPT !.debt = @ + SumTo(owed, MaxClaw),
                       !.claw = [k \in Claws |->
                           [a.claw[k] EXCEPT !.pending = 0,
                                             !.debt = @ + owed[k],
                                             !.dropped = @ + a.claw[k].pending - owed[k]]]]

\* Mutant: every lot is charged up to the whole amount.
TakeFromEach(held, charged) == [l \in Lots |-> Least(held[l], charged)]

\* What a task's charge takes of each lot it holds, in spend order.
TakeInSpendOrder(held, charged) == [l \in Lots |-> Waterfall(charged, held, l)]

SettleIn(t, charged) ==
    /\ t \in Open
    /\ charged \in 0 .. task[t].reserved
    /\ LET take == TakeInSpendOrder(hold[t], charged)
           paid == PaidUpTo(acct, [l \in Lots |-> hold[t][l] - take[l]])
           over == ReleaseHolds(acct, hold[t], take, paid)
       IN  /\ taken' = [taken EXCEPT ![t] = take]
           /\ acct' = SettleDebtFromFree(ClaimsLeftBecomeDebt(over, Open \ {t}))
    /\ task' = [task EXCEPT ![t] = [@ EXCEPT !.state = "settled", !.charged = charged]]
    /\ UNCHANGED <<hold, now>>

Advance ==
    /\ now < MaxTime
    /\ now' = now + 1
    /\ UNCHANGED <<acct, task, hold, taken>>

Settle(t) == \E charged \in 0 .. MaxReserve : SettleIn(t, charged)

Next ==
    \/ RefreshCredits
    \/ \E u \in Units : Reverse(u)
    \/ GrantGoodwill
    \/ ForgiveDebt
    \/ \E t \in Tasks : Reserve(t) \/ Settle(t)
    \/ Advance

Spec == Init /\ [][Next]_vars

-----------------------------------------------------------------------------
(* Properties *)

\* Every amount is a natural number: no transaction takes a lot, a claim or the
\* debt below zero, which the database's CHECKs would refuse.
TypeOK ==
    /\ acct \in Account
    /\ task \in [Tasks -> Task]
    /\ hold \in [Tasks -> [Lots -> Nat]]
    /\ taken \in [Tasks -> [Lots -> Nat]]
    /\ now \in Nat

\* What a lot holds is what running tasks hold of it, the lot still has it
\* (also once its term has ended), and a task's holds are its reservation
\* (held_micro, credit_check_reservation).
HoldsAreBacked ==
    /\ \A l \in Lots :
          /\ acct.lot[l].held =
                SumTo([t \in Tasks |-> IF t \in Open THEN hold[t][l] ELSE 0], MaxTask)
          /\ acct.lot[l].held <= acct.lot[l].remaining
    /\ \A t \in Open : Total(hold[t]) = task[t].reserved

\* What a settled task was charged came out of the lots it held
\* ("the walk always ends with nothing left to charge").
ChargeIsTaken ==
    \A t \in Tasks : task[t].state = "settled" =>
        /\ Total(taken[t]) = task[t].charged
        /\ \A l \in Lots : taken[t][l] <= hold[t][l]

\* No transaction commits debt beside spendable credit.
NoDebtBesideCredit == acct.debt > 0 => SpendableMicro(acct) = 0

\* A claim waits for a running task: none outlives the last one.
ClaimsHaveATask == Open = {} => PendingClaimTotal(acct) = 0

\* What a lot was granted, or was given back, is what is left of it and what
\* left it, and the debt is what clawbacks made of it, less what was repaid and
\* forgiven.
LedgerAddsUp ==
    /\ \A l \in Lots :
          LET clawed == SumTo([k \in Claws |-> acct.claw[k].took[l] + acct.claw[k].paid[l]], MaxClaw)
              spent == SumTo([t \in Tasks |-> taken[t][l]], MaxTask)
          IN  acct.lot[l].granted + acct.back.restored[l] + acct.back.returned[l]
                = acct.lot[l].remaining + acct.lot[l].expired + spent
                    + acct.lot[l].repaid + clawed
    /\ acct.debt = SumTo([k \in Claws |-> acct.claw[k].debt], MaxClaw)
                   - Total([l \in Lots |-> acct.lot[l].repaid]) - acct.forgiven

\* Every microcredit a clawback asked for was taken, is claimed, was released
\* by a give-back, is owed or, of an annual payment only, was dropped.
ClawbackIsAccounted ==
    \A k \in Claws :
        LET c == acct.claw[k]
        IN  /\ c.want = Total(c.took) + Total(c.paid) + c.pending + acct.back.released[k]
                        + c.debt + c.dropped
            /\ c.dropped > 0 => c.source = "reversal" /\ c.unit \in Annual

\* A give-back never gives what was not taken: a lot gets back no more than
\* clawbacks took of it and than it paid of other charges, and no more of a
\* unit's charges is undone than there was ("taken_micro", chargedBeyond).
NothingGivenBackTwice ==
    /\ \A l \in Lots : /\ acct.back.restored[l] <= TakenFrom(acct, l)
                       /\ acct.back.returned[l] <= PaidFrom(acct, l)
    /\ \A u \in Units : ChargedBeyond(acct, u) >= 0

\* A reversal takes nothing out of another payment's lots.
ReversalsStayHome ==
    \A k \in Claws : \A l \in Lots :
        acct.claw[k].source # "plan_change" /\ acct.lot[l].unit # acct.claw[k].unit =>
            acct.claw[k].took[l] = 0 /\ acct.claw[k].paid[l] = 0

\* Reversing a payment never takes or charges more than its credit was worth:
\* what its lots ever held and did not let expire.  This is so while nothing
\* else is taken back: a claim of another payment that can no longer be paid
\* still counts against the held credit, and turns part of this one into debt.
ReversalsWithinWorth ==
    \A u \in Units :
        (\A k \in Claws : acct.claw[k].state = "none"
                             \/ (acct.claw[k].source = "reversal" /\ acct.claw[k].unit = u))
            => PositionOf(acct, u) >= 0

\* The books of the account balance: charges, lots, clawbacks and debt are
\* explained by one another to the last microcredit.
BooksBalance ==
    ChargeIsTaken /\ LedgerAddsUp /\ ClawbackIsAccounted /\ NothingGivenBackTwice

\* Neither claims nor debt are left standing without a cause: claims wait for a
\* running task, debt for credit to repay it with.
NothingOwedIdly == NoDebtBesideCredit /\ ClaimsHaveATask

\* A reversal keeps to its own payment: to its lots, and to what they were worth.
ReversalsKeepToTheirPayment == ReversalsStayHome /\ ReversalsWithinWorth

\* New claims only ever stand on held credit that no other claim stands on.
ClaimsStandOnHeldCredit ==
    PendingClaimTotal(acct') > PendingClaimTotal(acct)
        => PendingClaimTotal(acct') <= HeldMicro(acct')

\* A standing claim becomes debt only when no task runs that might yet pay it.
DebtWaitsForTheLastTask ==
    \A k \in Claws :
        acct.claw[k].state = "applied" /\ acct'.claw[k].debt > acct.claw[k].debt
            => \A t \in Tasks : task'[t].state # "open"

\* A clawback claims or charges only what the payment's lots could not give: it
\* leaves no free credit in them but what the same transaction gave back.
ShortfallMeansEmpty ==
    \A k \in Claws :
        /\ acct.claw[k].state = "none"
        /\ acct'.claw[k].pending + acct'.claw[k].debt > 0
        => \A l \in OfUnit(acct', acct'.claw[k].unit) :
              Free(acct', l) <= GivenInto(acct', l) - GivenInto(acct, l)

\* Credit that is there is taken before any is claimed, credit that is held is
\* claimed before any is owed, and a claim is owed only when nothing can pay it.
DebtIsTheLastResort ==
    [][ClaimsStandOnHeldCredit /\ DebtWaitsForTheLastTask /\ ShortfallMeansEmpty]_vars
=============================================================================
