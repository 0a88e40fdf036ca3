---------------------------- MODULE CryptoOrders ----------------------------
(***************************************************************************)
(* One crypto order: checkouts that mint and bind its payment              *)
(* (routes/billing-crypto.ts), the provider's notifications                *)
(* (services/crypto-orders.ts applyIpnStatus), cancellation, the expiry    *)
(* sweep and the sweep that grants what a paid order is still owed.        *)
(*                                                                         *)
(* The provider sends a notification (IPN) for every move of a payment, in *)
(* any order, again and again, several at a time.  A step that holds the   *)
(* order's row lock is one action; what follows the lock is a later one,   *)
(* and the process may die between the two.                                *)
(*                                                                         *)
(* The money of a payment is "full" or "short" of its quote.  The term     *)
(* that a paid order buys is "none", "live" or "ended" (see PlanTier).     *)
(* Left out: currencies, notes, e-mails, webhooks of failed orders, and    *)
(* orders without an account.                                              *)
(***************************************************************************)
EXTENDS Naturals, FiniteSets

CONSTANTS
    Payments,   \* payments the provider may create for the order
    Checkouts,  \* concurrent checkout requests
    Workers,    \* concurrent notifications
    None,
    MaxMints,   \* MAX_PAYMENT_MINTS_PER_DAY
    MaxFaults   \* bound: crashes and failed calls

ASSUME ConstantsAssumption == {MaxMints, MaxFaults} \subseteq Nat

(***************************************************************************)
(* order     status, payment_id, age of the claim to mint, payments claimed*)
(* old       whether the order is older than the expiry sweep's limit      *)
(* money     the provider's payments: status and what was paid             *)
(* shown     payments whose address a checkout has answered                *)
(* ipns      notifications sent; acked  settled ones that were answered 200*)
(* term      the entitlement of the order                                  *)
(* checkout, ipn, sweep  requests, notifications and sweeps under way      *)
(* alarms    integrity alarms raised for a person to act on                *)
(***************************************************************************)
VARIABLES order, old, money, shown, ipns, acked, term, checkout, ipn, sweep, alarms, faults

providerVars == <<money, ipns>>
flowVars == <<checkout, ipn, sweep>>
vars == <<order, old, money, shown, ipns, acked, term, checkout, ipn, sweep, alarms, faults>>

Statuses == {"pending", "confirming", "partial", "paid", "failed", "cancelled"}
ProviderStatuses ==
    {"waiting", "confirming", "confirmed", "partially_paid", "finished", "failed", "expired", "refunded"}
Notice == [payment : Payments, status : ProviderStatuses, paid : {"full", "short"}]

Order == [status : Statuses, payment : Payments \cup {None},
          claim : {"none", "fresh", "stale"}, mints : 0 .. MaxMints]
Money == [status : ProviderStatuses, paid : {"full", "short"}]
Checkout == [step : {"idle", "create", "bind", "get"}, payment : Payments \cup {None}]
Ipn == [step : {"idle", "activate", "revoke", "mismatch", "dropped", "ack"},
        notice : Notice \cup {None}]

\* None stands for a payment that does not exist and a notice that is not there.
ASSUME NoneAssumption == None \notin Payments \cup Money \cup Notice

IdleCheckout == [step |-> "idle", payment |-> None]
IdleIpn == [step |-> "idle", notice |-> None]

Init ==
    /\ order = [status |-> "pending", payment |-> None, claim |-> "none", mints |-> 0]
    /\ old = FALSE
    /\ money = [p \in Payments |-> None]
    /\ shown = {} /\ ipns = {} /\ acked = {} /\ alarms = {}
    /\ term = "none"
    /\ checkout = [c \in Checkouts |-> IdleCheckout]
    /\ ipn = [w \in Workers |-> IdleIpn]
    /\ sweep = [expiry |-> FALSE, reconcile |-> FALSE]
    /\ faults = 0

Fault == faults < MaxFaults /\ faults' = faults + 1

-----------------------------------------------------------------------------
(* The provider and the customer *)

Notify(p, status, paid) ==
    /\ money' = [money EXCEPT ![p] = [status |-> status, paid |-> paid]]
    /\ ipns' = ipns \cup {[payment |-> p, status |-> status, paid |-> paid]}
    /\ UNCHANGED <<order, old, shown, acked, term, flowVars, alarms, faults>>

\* The customer pays an address that a checkout has shown.
Pay(p, paid) ==
    /\ p \in shown /\ money[p].status = "waiting"
    /\ Notify(p, "confirming", paid)

TopUp(p) ==
    /\ money[p] # None
    /\ money[p].status = "partially_paid" /\ money[p].paid = "short"
    /\ Notify(p, "confirming", "full")

Progresses(p) ==
    /\ money[p] # None
    /\ \E to \in CASE money[p].status = "waiting" -> {"expired"}
                   [] money[p].status = "confirming" ->
                        IF money[p].paid = "full" THEN {"confirmed", "failed"} ELSE {"partially_paid"}
                   [] money[p].status \in {"confirmed", "partially_paid"} -> {"finished"}
                   [] money[p].status = "finished" -> {"refunded"}
                   [] OTHER -> {} :
          Notify(p, to, money[p].paid)

-----------------------------------------------------------------------------
(* A checkout *)

\* Mutant: a claim counts against no budget.
ClaimOverBudget(c) ==
    /\ checkout[c].step = "idle"
    /\ order.payment = None /\ order.status = "pending" /\ order.claim # "fresh"
    /\ order' = [order EXCEPT !.claim = "fresh", !.mints = @ + 1]
    /\ checkout' = [checkout EXCEPT ![c].step = "create"]
    /\ UNCHANGED <<old, providerVars, shown, acked, term, ipn, sweep, alarms, faults>>

\* claimPaymentMint, under the row lock; the order's bound payment, a claim of
\* another checkout, a closed order or a spent budget mint nothing.
Claim(c) ==
    LET claimable == /\ order.payment = None /\ order.status = "pending"
                     /\ order.claim # "fresh" /\ order.mints < MaxMints
    IN /\ checkout[c].step = "idle"
       /\ \/ /\ order.payment # None /\ order.status = "pending"
             /\ checkout' = [checkout EXCEPT ![c] = [step |-> "get", payment |-> order.payment]]
             /\ UNCHANGED order
          \/ /\ claimable
             /\ order' = [order EXCEPT !.claim = "fresh", !.mints = @ + 1]
             /\ checkout' = [checkout EXCEPT ![c].step = "create"]
       /\ UNCHANGED <<old, providerVars, shown, acked, term, ipn, sweep, alarms, faults>>

\* PAYMENT_MINT_CLAIM_STALE_AFTER_MS has passed; the holder may still run.
ClaimGoesStale ==
    /\ order.claim = "fresh"
    /\ order' = [order EXCEPT !.claim = "stale"]
    /\ UNCHANGED <<old, providerVars, shown, acked, term, flowVars, alarms, faults>>

CreatePayment(c) ==
    \E p \in {x \in Payments : money[x] = None} :
        /\ checkout[c].step = "create"
        /\ money' = [money EXCEPT ![p] = [status |-> "waiting", paid |-> "short"]]
        /\ ipns' = ipns \cup {[payment |-> p, status |-> "waiting", paid |-> "short"]}
        /\ checkout' = [checkout EXCEPT ![c] = [step |-> "bind", payment |-> p]]
        /\ UNCHANGED <<order, old, shown, acked, term, ipn, sweep, alarms, faults>>

Answer(c, p) ==
    /\ checkout' = [checkout EXCEPT ![c] = IdleCheckout]
    /\ shown' = IF p = None THEN shown ELSE shown \cup {p}

\* Mutant: the checkout answers the address it created.
AnswersOwnMint(c) ==
    /\ checkout[c].step = "bind"
    /\ order' = [order EXCEPT !.payment = IF @ = None THEN checkout[c].payment ELSE @]
    /\ Answer(c, IF order.status = "pending" THEN checkout[c].payment ELSE None)
    /\ UNCHANGED <<old, providerVars, acked, term, ipn, sweep, alarms, faults>>

\* recordPaymentId, under the row lock: the first payment stays bound, and an
\* address is answered only if it is the bound one's of an order still open.
RecordPaymentId(c) ==
    LET mine == checkout[c].payment
        bound == IF order.payment = None THEN mine ELSE order.payment
    IN /\ checkout[c].step = "bind"
       /\ order' = [order EXCEPT !.payment = bound]
       /\ IF bound = mine
            THEN Answer(c, IF order.status = "pending" THEN mine ELSE None)
            ELSE /\ checkout' = [checkout EXCEPT ![c] =
                       IF order.status = "pending" THEN [step |-> "get", payment |-> bound] ELSE IdleCheckout]
                 /\ UNCHANGED shown
       /\ UNCHANGED <<old, providerVars, acked, term, ipn, sweep, alarms, faults>>

\* getPayment: the address of the bound payment, while it waits for money.
GetPayment(c) ==
    LET p == checkout[c].payment
    IN /\ checkout[c].step = "get"
       /\ Answer(c, IF money[p].status = "waiting" THEN p ELSE None)
       /\ UNCHANGED <<order, old, providerVars, acked, term, ipn, sweep, alarms, faults>>

\* The provider or the binding fails, or the process dies: no address.
CheckoutFails(c) ==
    /\ checkout[c].step # "idle" /\ Fault
    /\ Answer(c, None)
    /\ UNCHANGED <<order, old, providerVars, acked, term, ipn, sweep, alarms>>

-----------------------------------------------------------------------------
(* A notification *)

MapNowpaymentsStatus(status) ==
    CASE status = "waiting" -> "pending"
      [] status = "confirming" -> "confirming"
      [] status = "partially_paid" -> "partial"
      [] status = "finished" -> "paid"
      [] status \in {"failed", "expired", "refunded"} -> "failed"
      [] OTHER -> "unknown"

\* Mutant: finished is paid, whatever arrived.
MappedByStatus(n) == MapNowpaymentsStatus(n.status)

\* A payment that finished short of its quote counts as partial.
Mapped(n) ==
    IF n.status = "finished" /\ n.paid = "short" THEN "partial" ELSE MapNowpaymentsStatus(n.status)

IsTerminalForward(current, next) ==
    \/ current = next
    \/ current = "partial" /\ next \in {"paid", "failed"}
    \/ current \in {"pending", "confirming"} /\ next # "pending"

\* Mutant: money on a closed order is dropped in silence.
DropsSilently(o, n) ==
    CASE o.payment \notin {None, n.payment} -> "mismatch"
      [] Mapped(n) = "failed" /\ o.status = "paid" -> "revoke"
      [] Mapped(n) = "paid" /\ IsTerminalForward(o.status, "paid") /\ o.status # "paid" -> "activate"
      [] OTHER -> "ack"

\* What a notification owes once the lock is released.
Owes(o, n) ==
    LET bound == o.payment \in {None, n.payment}
        forward == IsTerminalForward(o.status, Mapped(n))
    IN CASE ~bound -> "mismatch"
         [] bound /\ Mapped(n) = "failed" /\ o.status = "paid" -> "revoke"
         [] bound /\ Mapped(n) = "paid" /\ o.status # "paid" /\ forward -> "activate"
         [] bound /\ Mapped(n) = "paid" /\ ~forward /\ o.payment # None -> "dropped"
         [] OTHER -> "ack"

\* applyIpnStatus up to the end of its lock.
ApplyIpnStatus(w, n) ==
    LET next == Mapped(n)
        applies == order.payment \in {None, n.payment} /\ next # "unknown"
    IN /\ ipn[w].step = "idle"
       /\ order' = IF ~applies THEN order
                   ELSE [order EXCEPT !.payment = n.payment,
                                      !.status = IF IsTerminalForward(@, next) THEN next ELSE @]
       /\ ipn' = [ipn EXCEPT ![w] = [step |-> Owes(order, n), notice |-> n]]
       /\ UNCHANGED <<old, providerVars, shown, acked, term, checkout, sweep, alarms, faults>>

Goto(w, step) == ipn' = [ipn EXCEPT ![w].step = step]

\* activateTierForPaidOrder: once for each order.
Activated == IF term = "none" THEN "live" ELSE term

Activate(w) ==
    /\ ipn[w].step = "activate"
    /\ term' = Activated
    /\ Goto(w, "ack")
    /\ UNCHANGED <<order, old, providerVars, shown, acked, checkout, sweep, alarms, faults>>

\* Mutant: a refund that finds no term leaves none behind.
RevokedIfAny == IF term = "live" THEN "ended" ELSE term

\* revokeTierForRefundedOrder: a term not yet granted is recorded as ended.
Revoked == "ended"

Revoke(w) ==
    /\ ipn[w].step = "revoke"
    /\ term' = Revoked
    /\ Goto(w, "ack")
    /\ UNCHANGED <<order, old, providerVars, shown, acked, checkout, sweep, alarms, faults>>

\* An alarm is all that follows a mismatch or a payment that came too late.
Alarm(w) ==
    /\ ipn[w].step \in {"mismatch", "dropped"}
    /\ alarms' = alarms \cup {ipn[w].step}
    /\ Goto(w, "ack")
    /\ UNCHANGED <<order, old, providerVars, shown, acked, term, checkout, sweep, faults>>

\* The activation or the clawback throws: an alarm, and still a 200.
SideEffectFails(w) ==
    /\ ipn[w].step \in {"activate", "revoke"} /\ Fault
    /\ alarms' = alarms \cup {ipn[w].step}
    /\ Goto(w, "ack")
    /\ UNCHANGED <<order, old, providerVars, shown, acked, term, checkout, sweep>>

\* The 200; acks of settled payments are remembered for the properties.
Ack(w) ==
    /\ ipn[w].step = "ack"
    /\ acked' = IF ipn[w].notice.status \in {"finished", "refunded"}
                  THEN acked \cup {ipn[w].notice} ELSE acked
    /\ ipn' = [ipn EXCEPT ![w] = IdleIpn]
    /\ UNCHANGED <<order, old, providerVars, shown, term, checkout, sweep, alarms, faults>>

IpnCrashes(w) ==
    /\ ipn[w].step # "idle" /\ Fault
    /\ ipn' = [ipn EXCEPT ![w] = IdleIpn]
    /\ UNCHANGED <<order, old, providerVars, shown, acked, term, checkout, sweep, alarms>>

-----------------------------------------------------------------------------
(* The customer cancels; the sweeps *)

CancelOrder ==
    /\ order.status = "pending"
    /\ order' = [order EXCEPT !.status = "cancelled"]
    /\ UNCHANGED <<old, providerVars, shown, acked, term, flowVars, alarms, faults>>

OrderGrowsOld ==
    /\ ~old
    /\ old' = TRUE
    /\ UNCHANGED <<order, providerVars, shown, acked, term, flowVars, alarms, faults>>

\* sweepExpiredOrders lists without a lock ...
ListPendingOlderThan ==
    /\ ~sweep.expiry /\ old /\ order.status = "pending"
    /\ sweep' = [sweep EXCEPT !.expiry = TRUE]
    /\ UNCHANGED <<order, old, providerVars, shown, acked, term, checkout, ipn, alarms, faults>>

\* Mutant: the listed order is failed without a second look.
ExpireAsListed ==
    /\ sweep.expiry
    /\ order' = [order EXCEPT !.status = "failed"]
    /\ sweep' = [sweep EXCEPT !.expiry = FALSE]
    /\ UNCHANGED <<old, providerVars, shown, acked, term, checkout, ipn, alarms, faults>>

\* ... and decides again under it.
ExpireOrder ==
    /\ sweep.expiry
    /\ order' = [order EXCEPT !.status = IF @ = "pending" THEN "failed" ELSE @]
    /\ sweep' = [sweep EXCEPT !.expiry = FALSE]
    /\ UNCHANGED <<old, providerVars, shown, acked, term, checkout, ipn, alarms, faults>>

\* Mutant: only an activation that threw is looked for, not one that never ran.
ListFailedActivations ==
    /\ ~sweep.reconcile /\ order.status = "paid" /\ term = "none" /\ "activate" \in alarms
    /\ sweep' = [sweep EXCEPT !.reconcile = TRUE]
    /\ UNCHANGED <<order, old, providerVars, shown, acked, term, checkout, ipn, alarms, faults>>

\* listPaidOrdersMissingEntitlement, then the same activation.
ListPaidOrdersMissingEntitlement ==
    /\ ~sweep.reconcile /\ order.status = "paid" /\ term = "none"
    /\ sweep' = [sweep EXCEPT !.reconcile = TRUE]
    /\ UNCHANGED <<order, old, providerVars, shown, acked, term, checkout, ipn, alarms, faults>>

Reconcile ==
    /\ sweep.reconcile
    /\ term' = Activated
    /\ sweep' = [sweep EXCEPT !.reconcile = FALSE]
    /\ UNCHANGED <<order, old, providerVars, shown, acked, checkout, ipn, alarms, faults>>

ReconcileFails ==
    /\ sweep.reconcile /\ Fault
    /\ sweep' = [sweep EXCEPT !.reconcile = FALSE]
    /\ UNCHANGED <<order, old, providerVars, shown, acked, term, checkout, ipn, alarms>>

-----------------------------------------------------------------------------
Proceed(w) == Activate(w) \/ Revoke(w) \/ Alarm(w) \/ Ack(w)

SweepPaid == ListPaidOrdersMissingEntitlement \/ Reconcile

Next ==
    \/ \E p \in Payments : TopUp(p) \/ Progresses(p) \/ \E paid \in {"full", "short"} : Pay(p, paid)
    \/ \E c \in Checkouts :
          Claim(c) \/ CreatePayment(c) \/ RecordPaymentId(c) \/ GetPayment(c) \/ CheckoutFails(c)
    \/ ClaimGoesStale \/ CancelOrder \/ OrderGrowsOld
    \/ \E w \in Workers, n \in ipns : ApplyIpnStatus(w, n)
    \/ \E w \in Workers : Proceed(w) \/ SideEffectFails(w) \/ IpnCrashes(w)
    \/ ListPendingOlderThan \/ ExpireOrder
    \/ SweepPaid \/ ReconcileFails

Spec == Init /\ [][Next]_vars

\* The provider sends a settled payment's notification until it is answered, a
\* request ends, and the sweep of paid orders runs as a scheduled job.
Fairness ==
    /\ \A w \in Workers : WF_vars(Proceed(w))
    /\ \A p \in Payments : SF_vars(\E w \in Workers, n \in ipns \ acked :
          n.payment = p /\ n.status = "finished" /\ ApplyIpnStatus(w, n))
    /\ WF_vars(SweepPaid)

FairSpec == Spec /\ Fairness

-----------------------------------------------------------------------------
(* Properties *)

\* Every variable has its type.
TypeOK ==
    /\ order \in Order
    /\ money \in [Payments -> Money \cup {None}]
    /\ shown \subseteq Payments
    /\ acked \subseteq ipns /\ ipns \subseteq Notice
    /\ term \in {"none", "live", "ended"}
    /\ checkout \in [Checkouts -> Checkout]
    /\ ipn \in [Workers -> Ipn]
    /\ sweep \in [expiry : BOOLEAN, reconcile : BOOLEAN] /\ old \in BOOLEAN
    /\ alarms \subseteq {"mismatch", "dropped", "activate", "revoke"}
    /\ faults \in 0 .. MaxFaults

\* A customer is only ever shown the address of the payment whose notifications
\* the order accepts, however checkouts overlap and whatever they fail to bind.
OnlyBoundAddressShown == shown \subseteq {order.payment}

\* Money that arrived in full is never answered with nothing: when its
\* notification has been acknowledged, the order is paid or a person was told.
NoSilentDrop ==
    \A n \in acked : n.status = "finished" /\ n.paid = "full" =>
        order.status = "paid" \/ "dropped" \in alarms \/ "mismatch" \in alarms

\* Once its refund has been acknowledged, an order holds no running term, even
\* if the refund overtook the payment or the activation; a clawback that failed
\* has raised its alarm.
RefundLeavesNoTerm ==
    \A n \in acked : n.status = "refunded" /\ term = "live" => "revoke" \in alarms

\* A term is only granted for an order whose own payment arrived in full.
TermWasPaidInFull ==
    term = "live" => order.payment # None /\ money[order.payment].paid = "full"

\* Money and term answer each other: no full payment is acknowledged for nothing,
\* no term runs without one, and none runs on after its refund.
MoneyIsMet == TypeOK /\ NoSilentDrop /\ RefundLeavesNoTerm /\ TermWasPaidInFull

\* A paid, failed or cancelled order never changes its status again, whatever
\* notification or sweep was decided on what it was before.
TerminalIsFinal ==
    [][order.status \in {"paid", "failed", "cancelled"} => order'.status = order.status]_vars

\* A full payment to an address that was shown leads to a term, or to an alarm
\* for a person to act on, though processes die between the two commits.
MoneyIsAnswered ==
    \A p \in Payments :
        (p \in shown /\ [payment |-> p, status |-> "finished", paid |-> "full"] \in ipns)
            ~> (term # "none" \/ alarms # {})
=============================================================================
