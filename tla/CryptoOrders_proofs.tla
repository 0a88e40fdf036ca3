------------------------- MODULE CryptoOrders_proofs -------------------------
(***************************************************************************)
(* Money and term of a crypto order answer each other, only the bound      *)
(* address is shown and a closed order stays closed, for every number of   *)
(* payments, checkouts, notifications and faults.                          *)
(***************************************************************************)
EXTENDS CryptoOrders, TLAPS

USE ConstantsAssumption, NoneAssumption

-----------------------------------------------------------------------------
(* Types *)

LEMMA TypeInit == Init => TypeOK
<1> SUFFICES ASSUME Init PROVE TypeOK
  OBVIOUS
<1>1. MaxMints \in Nat /\ MaxFaults \in Nat
  OBVIOUS
<1>2. order \in Order
  BY <1>1 DEF Init, Order, Statuses
<1>3. IdleCheckout \in Checkout /\ IdleIpn \in Ipn
  BY DEF IdleCheckout, IdleIpn, Checkout, Ipn
<1>4. sweep \in [expiry : BOOLEAN, reconcile : BOOLEAN] /\ old \in BOOLEAN
  BY DEF Init
<1>5. /\ money \in [Payments -> Money \cup {None}]
      /\ checkout \in [Checkouts -> Checkout] /\ ipn \in [Workers -> Ipn]
  BY <1>3 DEF Init
<1>6. /\ shown \subseteq Payments /\ acked \subseteq ipns /\ ipns \subseteq Notice
      /\ alarms \subseteq {"mismatch", "dropped", "activate", "revoke"}
      /\ term \in {"none", "live", "ended"}
  BY DEF Init
<1>7. faults \in 0 .. MaxFaults
  BY <1>1 DEF Init
<1> QED BY <1>2, <1>4, <1>5, <1>6, <1>7 DEF TypeOK

\* What the steps make of the order's record.
LEMMA OrderMoves ==
    ASSUME NEW o \in Order
    PROVE  /\ o.status \in Statuses /\ o.payment \in Payments \cup {None} /\ o.mints \in Nat
           /\ \A s \in Statuses : /\ [o EXCEPT !.status = s] \in Order
                                  /\ [o EXCEPT !.status = s].status = s
                                  /\ [o EXCEPT !.status = s].payment = o.payment
           /\ \A p \in Payments \cup {None} : /\ [o EXCEPT !.payment = p] \in Order
                                              /\ [o EXCEPT !.payment = p].status = o.status
                                              /\ [o EXCEPT !.payment = p].payment = p
           /\ \A p \in Payments, s \in Statuses :
                 /\ [o EXCEPT !.payment = p, !.status = s] \in Order
                 /\ [o EXCEPT !.payment = p, !.status = s].payment = p
                 /\ [o EXCEPT !.payment = p, !.status = s].status = s
           /\ /\ [o EXCEPT !.claim = "stale"] \in Order
              /\ [o EXCEPT !.claim = "stale"].status = o.status
              /\ [o EXCEPT !.claim = "stale"].payment = o.payment
           /\ \A m \in 0 .. MaxMints :
                 /\ [o EXCEPT !.claim = "fresh", !.mints = m] \in Order
                 /\ [o EXCEPT !.claim = "fresh", !.mints = m].status = o.status
                 /\ [o EXCEPT !.claim = "fresh", !.mints = m].payment = o.payment
<1>1. o.status \in Statuses /\ o.payment \in Payments \cup {None} /\ o.mints \in Nat
  BY DEF Order
<1>2. ASSUME NEW s \in Statuses
      PROVE  /\ [o EXCEPT !.status = s] \in Order
             /\ [o EXCEPT !.status = s].status = s
             /\ [o EXCEPT !.status = s].payment = o.payment
  BY DEF Order
<1>3. ASSUME NEW p \in Payments \cup {None}
      PROVE  /\ [o EXCEPT !.payment = p] \in Order
             /\ [o EXCEPT !.payment = p].status = o.status
             /\ [o EXCEPT !.payment = p].payment = p
  BY DEF Order
<1>4. ASSUME NEW p \in Payments, NEW s \in Statuses
      PROVE  /\ [o EXCEPT !.payment = p, !.status = s] \in Order
             /\ [o EXCEPT !.payment = p, !.status = s].payment = p
             /\ [o EXCEPT !.payment = p, !.status = s].status = s
  BY DEF Order
<1>5. /\ [o EXCEPT !.claim = "stale"] \in Order
      /\ [o EXCEPT !.claim = "stale"].status = o.status
      /\ [o EXCEPT !.claim = "stale"].payment = o.payment
  BY DEF Order
<1>6. ASSUME NEW m \in 0 .. MaxMints
      PROVE  /\ [o EXCEPT !.claim = "fresh", !.mints = m] \in Order
             /\ [o EXCEPT !.claim = "fresh", !.mints = m].status = o.status
             /\ [o EXCEPT !.claim = "fresh", !.mints = m].payment = o.payment
  BY DEF Order
<1> QED BY <1>1, <1>2, <1>3, <1>4, <1>5, <1>6

\* A move of a payment, seen from outside: a payment that waits is paid at an
\* address that was shown or expires, and an expired one moves no more.
PaymentMoves(p, st, pd) ==
    /\ money[p] # None
    /\ st \in ProviderStatuses \ {"waiting"} /\ pd \in {"full", "short"}
    /\ money[p].status = "waiting" => p \in shown \/ (st = "expired" /\ pd = money[p].paid)
    /\ money[p].status # "waiting" => /\ money[p].status # "expired"
                                      /\ money[p].paid = "full" => pd = "full"
    /\ Notify(p, st, pd)

LEMMA ProviderSteps ==
    ASSUME TypeOK, NEW p \in Payments, money[p] # None,
           TopUp(p) \/ Progresses(p) \/ \E paid \in {"full", "short"} : Pay(p, paid)
    PROVE  \E st, pd : PaymentMoves(p, st, pd)
<1>1. money[p] \in Money
  BY DEF TypeOK
<1>2. CASE TopUp(p)
  BY <1>1, <1>2 DEF TopUp, PaymentMoves, ProviderStatuses
<1>3. CASE Progresses(p)
  <2> DEFINE next == CASE money[p].status = "waiting" -> {"expired"}
                       [] money[p].status = "confirming" ->
                            IF money[p].paid = "full" THEN {"confirmed", "failed"} ELSE {"partially_paid"}
                       [] money[p].status \in {"confirmed", "partially_paid"} -> {"finished"}
                       [] money[p].status = "finished" -> {"refunded"}
                       [] OTHER -> {}
  <2>1. PICK to \in next : Notify(p, to, money[p].paid)
    BY <1>3 DEF Progresses
  <2>2. CASE money[p].status = "waiting"
    BY <1>1, <2>1, <2>2 DEF PaymentMoves, ProviderStatuses, Money
  <2>3. CASE money[p].status = "confirming"
    BY <1>1, <2>1, <2>3 DEF PaymentMoves, ProviderStatuses, Money
  <2>4. CASE money[p].status \in {"confirmed", "partially_paid"}
    BY <1>1, <2>1, <2>4 DEF PaymentMoves, ProviderStatuses, Money
  <2>5. CASE money[p].status = "finished"
    BY <1>1, <2>1, <2>5 DEF PaymentMoves, ProviderStatuses, Money
  <2>6. CASE money[p].status \notin {"waiting", "confirming", "confirmed", "partially_paid", "finished"}
    BY <2>1, <2>6
  <2> QED BY <2>2, <2>3, <2>4, <2>5, <2>6
<1>4. ASSUME NEW paid \in {"full", "short"}, Pay(p, paid)
      PROVE  PaymentMoves(p, "confirming", paid)
  BY <1>4 DEF Pay, PaymentMoves, ProviderStatuses
<1> QED BY <1>2, <1>3, <1>4

-----------------------------------------------------------------------------
(* The invariant *)

\* Only a payment that was created is notified, only one that was shown is paid,
\* and what is paid in full stays so.
Created ==
    /\ \A n \in ipns :
          /\ money[n.payment] # None
          /\ n.status \notin {"waiting", "expired"} => n.payment \in shown
          /\ n.paid = "full" => money[n.payment].paid = "full"
    /\ \A p \in Payments : money[p] # None =>
          /\ money[p].status \notin {"waiting", "expired"} => p \in shown
          /\ money[p].paid = "full" => money[p].status # "waiting"
    /\ \A p \in shown : money[p] # None

\* A checkout asks for the bound payment, or is about to bind one of its own.
Bound ==
    /\ OnlyBoundAddressShown
    /\ order.payment # None => money[order.payment] # None
    /\ \A c \in Checkouts :
          /\ checkout[c].step = "get" => checkout[c].payment = order.payment /\ order.payment # None
          /\ checkout[c].step = "bind" => /\ checkout[c].payment # None
                                          /\ money[checkout[c].payment] # None

\* A paid order was paid in full, and only a paid order is activated.
Earned ==
    /\ order.status = "paid" => order.payment # None /\ money[order.payment].paid = "full"
    /\ term = "live" \/ sweep.reconcile => order.status = "paid"
    /\ \A w \in Workers : ipn[w].step = "activate" => order.status = "paid"

\* What the acknowledgement of a full payment, and of a refund, stands for.
Answered == order.status = "paid" \/ "dropped" \in alarms \/ "mismatch" \in alarms
Over == order.status \in {"failed", "cancelled"} \/ term = "ended" \/ "revoke" \in alarms

\* A notification under way still owes the step that gives its answer, or gave it.
Owing ==
    \A w \in Workers : ipn[w].step # "idle" =>
        /\ ipn[w].notice \in ipns
        /\ ipn[w].notice.status = "finished" /\ ipn[w].notice.paid = "full"
              => \/ ipn[w].step \in {"activate", "mismatch", "dropped"}
                 \/ ipn[w].step = "ack" /\ Answered
        /\ ipn[w].notice.status = "refunded"
              => ipn[w].step = "revoke" \/ (ipn[w].step = "ack" /\ Over)

Settled ==
    \A n \in acked : /\ n.status = "finished" /\ n.paid = "full" => Answered
                     /\ n.status = "refunded" => Over

Inv == TypeOK /\ Created /\ Bound /\ Earned /\ Owing /\ Settled

LEMMA InvInit == Init => Inv
<1> SUFFICES ASSUME Init PROVE Inv
  OBVIOUS
<1>1. TypeOK
  BY TypeInit
<1>2. /\ order.payment = None /\ order.status = "pending" /\ term = "none" /\ ~sweep.reconcile
      /\ shown = {} /\ ipns = {} /\ acked = {}
      /\ \A p \in Payments : money[p] = None
      /\ \A c \in Checkouts : checkout[c].step = "idle"
      /\ \A w \in Workers : ipn[w].step = "idle"
  BY DEF Init, IdleCheckout, IdleIpn
<1> QED BY <1>1, <1>2 DEF Inv, Created, Bound, OnlyBoundAddressShown, Earned, Owing, Settled

\* The order goes forward only: what is bound stays bound, what is closed stays
\* closed, and what is over stays over.
Forward ==
    /\ order.payment # None => order'.payment = order.payment
    /\ order.status \in {"paid", "failed", "cancelled"} => order'.status = order.status
    /\ alarms \subseteq alarms'
    /\ term = "ended" => term' = "ended"

LEMMA ForwardKeeps ==
    ASSUME Forward
    PROVE  (Answered => Answered') /\ (Over => Over')
  BY DEF Forward, Answered, Over

-----------------------------------------------------------------------------
(* The provider *)

LEMMA NotifyKeeps ==
    ASSUME Inv, NEW p \in Payments, NEW st, NEW pd, PaymentMoves(p, st, pd)
    PROVE  Inv' /\ Forward
<1> DEFINE m == [status |-> st, paid |-> pd]
           n == [payment |-> p, status |-> st, paid |-> pd]
<1>1. /\ money' = [money EXCEPT ![p] = m] /\ ipns' = ipns \cup {n}
      /\ UNCHANGED <<order, old, shown, acked, term, checkout, ipn, sweep, alarms, faults>>
  BY DEF PaymentMoves, Notify, flowVars
<1>2. /\ m \in Money /\ n \in Notice /\ m.status = st /\ m.paid = pd
      /\ n.payment = p /\ n.status = st /\ n.paid = pd
  BY DEF PaymentMoves, Money, Notice
<1> HIDE DEF m, n
<1>3. TypeOK
  BY DEF Inv
<1>4. money \in [Payments -> Money \cup {None}] /\ m # None
  BY <1>2, <1>3 DEF TypeOK
<1>5. TypeOK'
  BY <1>1, <1>2, <1>3 DEF TypeOK
<1>6. \A q \in Payments : money'[q] = IF q = p THEN m ELSE money[q]
  BY <1>1, <1>4
<1>7. money[p].paid = "full" /\ money[p] # None => pd = "full"
  BY DEF PaymentMoves, Inv, Created
<1>8. st \notin {"waiting", "expired"} => p \in shown
  <2>1. money[p].status \notin {"waiting", "expired"} => p \in shown
    BY DEF PaymentMoves, Inv, Created
  <2> QED BY <2>1 DEF PaymentMoves
<1>9. Created'
  <2>1. \A x \in ipns : x.payment \in Payments
    BY <1>3 DEF TypeOK, Notice
  <2>2. ASSUME NEW x \in ipns'
        PROVE  /\ money'[x.payment] # None
               /\ x.status \notin {"waiting", "expired"} => x.payment \in shown
               /\ x.paid = "full" => money'[x.payment].paid = "full"
    <3>1. CASE x = n
      BY <1>2, <1>4, <1>6, <1>8, <3>1
    <3>2. CASE x \in ipns
      BY <1>2, <1>4, <1>6, <1>7, <2>1, <3>2 DEF Inv, Created
    <3> QED BY <1>1, <3>1, <3>2
  <2>3. ASSUME NEW q \in Payments, money'[q] # None
        PROVE  /\ money'[q].status \notin {"waiting", "expired"} => q \in shown
               /\ money'[q].paid = "full" => money'[q].status # "waiting"
    BY <1>2, <1>6, <1>8, <2>3 DEF Inv, Created, PaymentMoves
  <2>4. \A q \in shown : money'[q] # None
    BY <1>3, <1>4, <1>6 DEF Inv, Created, TypeOK
  <2> QED BY <1>1, <2>2, <2>3, <2>4 DEF Created
<1>10. Bound'
  <2>1. order.payment # None => order.payment \in Payments
    BY <1>3 DEF TypeOK, Order
  <2>2. \A c \in Checkouts : checkout[c].payment # None => checkout[c].payment \in Payments
    BY <1>3 DEF TypeOK, Checkout
  <2> QED BY <1>1, <1>4, <1>6, <2>1, <2>2 DEF Inv, Bound, OnlyBoundAddressShown
<1>11. Earned'
  <2>1. order.payment # None => order.payment \in Payments /\ money[order.payment] # None
    BY <1>3 DEF TypeOK, Order, Inv, Bound
  <2> QED BY <1>1, <1>2, <1>6, <1>7, <2>1 DEF Inv, Earned
<1>12. Owing' /\ Settled'
  BY <1>1 DEF Inv, Owing, Settled, Answered, Over
<1>13. Forward
  BY <1>1 DEF Forward
<1> QED BY <1>5, <1>9, <1>10, <1>11, <1>12, <1>13 DEF Inv

-----------------------------------------------------------------------------
(* Checkouts *)

\* A step that keeps the order's status and its bound payment, and shows none
\* but the bound one.
LEMMA CheckoutMoves ==
    ASSUME Inv, NEW o \in Order, order' = o, o.status = order.status,
           order.payment # None => o.payment = order.payment,
           o.payment # None => money[o.payment] # None,
           shown \subseteq shown', shown' \subseteq Payments, shown' \subseteq {o.payment},
           NEW k \in [Checkouts -> Checkout], checkout' = k,
           \A c \in Checkouts :
              /\ k[c].step = "get" => k[c].payment = o.payment /\ o.payment # None
              /\ k[c].step = "bind" => k[c].payment # None /\ money[k[c].payment] # None,
           UNCHANGED <<old, money, ipns, acked, term, ipn, sweep, alarms>>,
           faults' \in 0 .. MaxFaults
    PROVE  Inv' /\ Forward
<1>1. TypeOK'
  BY DEF Inv, TypeOK
<1>2. Created'
  BY DEF Inv, Created
<1>3. Bound'
  BY DEF Bound, OnlyBoundAddressShown
<1>4. Earned'
  BY DEF Inv, Earned
<1>5. Owing' /\ Settled'
  BY DEF Inv, Owing, Settled, Answered, Over
<1>6. Forward
  BY DEF Forward
<1> QED BY <1>1, <1>2, <1>3, <1>4, <1>5, <1>6 DEF Inv

\* The same, for a step of one checkout.
LEMMA OneCheckoutMoves ==
    ASSUME Inv, NEW o \in Order, order' = o, o.status = order.status,
           order.payment # None => o.payment = order.payment,
           o.payment # None => money[o.payment] # None,
           shown \subseteq shown', shown' \subseteq Payments, shown' \subseteq {o.payment},
           NEW c \in Checkouts, NEW x \in Checkout, checkout' = [checkout EXCEPT ![c] = x],
           x.step = "get" => x.payment = o.payment /\ o.payment # None,
           x.step # "bind",
           UNCHANGED <<old, money, ipns, acked, term, ipn, sweep, alarms>>,
           faults' \in 0 .. MaxFaults
    PROVE  Inv' /\ Forward
<1> DEFINE k == [checkout EXCEPT ![c] = x]
<1>1. checkout \in [Checkouts -> Checkout]
  BY DEF Inv, TypeOK
<1>2. k \in [Checkouts -> Checkout] /\ \A d \in Checkouts : k[d] = IF d = c THEN x ELSE checkout[d]
  BY <1>1
<1>3. checkout' = k
  OBVIOUS
<1> HIDE DEF k
<1>4. \A d \in Checkouts :
        /\ k[d].step = "get" => k[d].payment = o.payment /\ o.payment # None
        /\ k[d].step = "bind" => k[d].payment # None /\ money[k[d].payment] # None
  BY <1>2 DEF Inv, Bound
<1> QED BY <1>2, <1>3, <1>4, CheckoutMoves

LEMMA CheckoutKeeps ==
    ASSUME Inv, NEW c \in Checkouts,
           Claim(c) \/ RecordPaymentId(c) \/ GetPayment(c) \/ CheckoutFails(c)
    PROVE  Inv' /\ Forward
<1>1. /\ TypeOK /\ order \in Order /\ checkout[c] \in Checkout
      /\ order.payment # None => money[order.payment] # None
      /\ shown \subseteq Payments /\ shown \subseteq {order.payment} /\ faults \in 0 .. MaxFaults
  BY DEF Inv, TypeOK, Bound, OnlyBoundAddressShown
<1>2. IdleCheckout \in Checkout /\ IdleCheckout.step = "idle"
  BY DEF IdleCheckout, Checkout
<1>3. CASE Claim(c)
  <2>1. UNCHANGED <<old, money, ipns, shown, acked, term, ipn, sweep, alarms, faults>>
    BY <1>3 DEF Claim, providerVars
  <2>2. CASE /\ order.payment # None /\ order' = order
             /\ checkout' = [checkout EXCEPT ![c] = [step |-> "get", payment |-> order.payment]]
    <3> DEFINE x == [step |-> "get", payment |-> order.payment]
    <3>1. x \in Checkout /\ x.step = "get" /\ x.payment = order.payment
      BY <1>1, OrderMoves DEF Checkout
    <3>2. checkout' = [checkout EXCEPT ![c] = x]
      BY <2>2
    <3> HIDE DEF x
    <3> QED BY <1>1, <2>1, <2>2, <3>1, <3>2, OneCheckoutMoves
  <2>3. CASE /\ order' = [order EXCEPT !.claim = "fresh", !.mints = order.mints + 1]
             /\ order.mints < MaxMints
             /\ checkout' = [checkout EXCEPT ![c] = [checkout[c] EXCEPT !.step = "create"]]
    <3> DEFINE x == [checkout[c] EXCEPT !.step = "create"]
               o == [order EXCEPT !.claim = "fresh", !.mints = order.mints + 1]
    <3>1. x \in Checkout /\ x.step = "create"
      BY <1>1 DEF Checkout
    <3>2. order.mints + 1 \in 0 .. MaxMints
      <4>1. order.mints \in Nat /\ MaxMints \in Nat /\ order.mints < MaxMints
        BY <1>1, <2>3, OrderMoves
      <4> QED BY <4>1
    <3>3. o \in Order /\ o.status = order.status /\ o.payment = order.payment
      BY <1>1, <3>2, OrderMoves
    <3>4. checkout' = [checkout EXCEPT ![c] = x] /\ order' = o
      BY <2>3
    <3> HIDE DEF x, o
    <3> QED BY <1>1, <2>1, <3>1, <3>3, <3>4, OneCheckoutMoves
  <2> QED BY <1>3, <2>2, <2>3 DEF Claim
<1>4. CASE RecordPaymentId(c)
  <2> DEFINE mine == checkout[c].payment
             bound == IF order.payment = None THEN mine ELSE order.payment
             o == [order EXCEPT !.payment = bound]
  <2>1. /\ checkout[c].step = "bind" /\ order' = o
        /\ UNCHANGED <<old, money, ipns, acked, term, ipn, sweep, alarms, faults>>
    BY <1>4 DEF RecordPaymentId, providerVars
  <2>2. mine \in Payments /\ money[mine] # None
    BY <1>1, <2>1 DEF Inv, Bound, Checkout
  <2>3. /\ bound \in Payments /\ money[bound] # None /\ bound # None
        /\ order.payment # None => bound = order.payment
    BY <1>1, <2>2, OrderMoves
  <2>4. CASE bound = mine
    <3>1. /\ checkout' = [checkout EXCEPT ![c] = IdleCheckout]
          /\ shown' \in {shown, shown \cup {mine}}
      BY <1>4, <2>4 DEF RecordPaymentId, Answer
    <3> HIDE DEF mine, bound
    <3>2. o \in Order /\ o.status = order.status /\ o.payment = bound
      BY <1>1, <2>3 DEF Order
    <3> HIDE DEF o
    <3>3. shown \subseteq shown' /\ shown' \subseteq Payments /\ shown' \subseteq {o.payment}
      BY <1>1, <2>2, <2>3, <2>4, <3>1, <3>2
    <3> QED BY <1>1, <1>2, <2>1, <2>3, <3>1, <3>2, <3>3, OneCheckoutMoves
  <2>5. CASE bound # mine
    <3> DEFINE x == IF order.status = "pending" THEN [step |-> "get", payment |-> bound] ELSE IdleCheckout
    <3>1. checkout' = [checkout EXCEPT ![c] = x] /\ shown' = shown
      BY <1>4, <2>5 DEF RecordPaymentId
    <3> HIDE DEF mine, bound
    <3>2. x \in Checkout /\ (x.step = "get" => x.payment = bound) /\ x.step # "bind"
      BY <1>2, <2>3 DEF Checkout
    <3>3. o \in Order /\ o.status = order.status /\ o.payment = bound
      BY <1>1, <2>3 DEF Order
    <3> HIDE DEF x, o
    <3>4. shown \subseteq {o.payment}
      BY <1>1, <2>3, <3>3
    <3> QED BY <1>1, <2>1, <2>3, <3>1, <3>2, <3>3, <3>4, OneCheckoutMoves
  <2> QED BY <2>4, <2>5
<1>5. CASE GetPayment(c)
  <2>1. /\ checkout[c].step = "get" /\ checkout' = [checkout EXCEPT ![c] = IdleCheckout]
        /\ shown' \in {shown, shown \cup {checkout[c].payment}}
        /\ UNCHANGED <<order, old, money, ipns, acked, term, ipn, sweep, alarms, faults>>
    BY <1>5 DEF GetPayment, Answer, providerVars
  <2>2. checkout[c].payment = order.payment /\ order.payment \in Payments
    BY <1>1, <2>1, OrderMoves DEF Inv, Bound
  <2>3. shown \subseteq shown' /\ shown' \subseteq Payments /\ shown' \subseteq {order.payment}
    BY <1>1, <2>1, <2>2
  <2> QED BY <1>1, <1>2, <2>1, <2>3, OneCheckoutMoves
<1>6. CASE CheckoutFails(c)
  <2>1. /\ checkout' = [checkout EXCEPT ![c] = IdleCheckout] /\ shown' = shown
        /\ UNCHANGED <<order, old, money, ipns, acked, term, ipn, sweep, alarms>>
        /\ faults' \in 0 .. MaxFaults
    BY <1>1, <1>6 DEF CheckoutFails, Answer, Fault, providerVars
  <2> QED BY <1>1, <1>2, <2>1, OneCheckoutMoves
<1> QED BY <1>3, <1>4, <1>5, <1>6

LEMMA CreateKeeps ==
    ASSUME Inv, NEW c \in Checkouts, CreatePayment(c)
    PROVE  Inv' /\ Forward
<1>1. TypeOK
  BY DEF Inv
<1>2. PICK p \in Payments :
        /\ money[p] = None
        /\ money' = [money EXCEPT ![p] = [status |-> "waiting", paid |-> "short"]]
        /\ ipns' = ipns \cup {[payment |-> p, status |-> "waiting", paid |-> "short"]}
        /\ checkout' = [checkout EXCEPT ![c] = [step |-> "bind", payment |-> p]]
        /\ UNCHANGED <<order, old, shown, acked, term, ipn, sweep, alarms, faults>>
  BY DEF CreatePayment
<1> DEFINE m == [status |-> "waiting", paid |-> "short"]
           n == [payment |-> p, status |-> "waiting", paid |-> "short"]
           x == [step |-> "bind", payment |-> p]
<1>3. /\ m \in Money /\ m.status = "waiting" /\ m.paid = "short"
      /\ n \in Notice /\ n.payment = p /\ n.status = "waiting" /\ n.paid = "short"
      /\ x \in Checkout /\ x.step = "bind" /\ x.payment = p
  BY DEF Money, Notice, Checkout, ProviderStatuses
<1>4. money' = [money EXCEPT ![p] = m] /\ ipns' = ipns \cup {n} /\ checkout' = [checkout EXCEPT ![c] = x]
  BY <1>2
<1> HIDE DEF m, n, x
<1>5. TypeOK'
  BY <1>1, <1>2, <1>3, <1>4 DEF TypeOK
<1>6. m # None /\ \A q \in Payments : money'[q] = IF q = p THEN m ELSE money[q]
  BY <1>1, <1>3, <1>4 DEF TypeOK
<1>7. Created'
  <2>1. \A y \in ipns : y.payment \in Payments
    BY <1>1 DEF TypeOK, Notice
  <2>2. ASSUME NEW y \in ipns'
        PROVE  /\ money'[y.payment] # None
               /\ y.status \notin {"waiting", "expired"} => y.payment \in shown
               /\ y.paid = "full" => money'[y.payment].paid = "full"
    BY <1>2, <1>3, <1>4, <1>6, <2>1, <2>2 DEF Inv, Created
  <2>3. ASSUME NEW q \in Payments, money'[q] # None
        PROVE  /\ money'[q].status \notin {"waiting", "expired"} => q \in shown
               /\ money'[q].paid = "full" => money'[q].status # "waiting"
    BY <1>3, <1>6, <2>3 DEF Inv, Created
  <2>4. \A q \in shown : money'[q] # None
    BY <1>1, <1>6 DEF Inv, Created, TypeOK
  <2> QED BY <1>2, <2>2, <2>3, <2>4 DEF Created
<1>8. Bound'
  <2>1. order.payment # None => order.payment \in Payments
    BY <1>1 DEF TypeOK, Order
  <2>2. ASSUME NEW d \in Checkouts
        PROVE  /\ checkout'[d].step = "get" =>
                     checkout'[d].payment = order.payment /\ order.payment # None
               /\ checkout'[d].step = "bind" => /\ checkout'[d].payment # None
                                                /\ money'[checkout'[d].payment] # None
    <3>1. CASE d = c
      BY <1>1, <1>3, <1>4, <1>6, <3>1 DEF TypeOK
    <3>2. CASE d # c
      <4>1. checkout'[d] = checkout[d] /\ (checkout[d].payment # None => checkout[d].payment \in Payments)
        BY <1>1, <1>4, <3>2 DEF TypeOK, Checkout
      <4> QED BY <1>6, <4>1 DEF Inv, Bound
    <3> QED BY <3>1, <3>2
  <2> QED BY <1>2, <1>6, <2>1, <2>2 DEF Inv, Bound, OnlyBoundAddressShown
<1>9. Earned'
  <2>1. order.payment # None => order.payment \in Payments /\ money[order.payment] # None
    BY <1>1 DEF TypeOK, Order, Inv, Bound
  <2> QED BY <1>2, <1>6, <2>1 DEF Inv, Earned
<1>10. Owing' /\ Settled'
  BY <1>2 DEF Inv, Owing, Settled, Answered, Over
<1>11. Forward
  BY <1>2 DEF Forward
<1> QED BY <1>5, <1>7, <1>8, <1>9, <1>10, <1>11 DEF Inv

-----------------------------------------------------------------------------
(* Notifications *)

LEMMA MappedTypes ==
    ASSUME NEW n \in Notice
    PROVE  /\ Mapped(n) \in {"pending", "confirming", "partial", "paid", "failed", "unknown"}
           /\ Mapped(n) = "paid" <=> (n.status = "finished" /\ n.paid = "full")
           /\ n.status = "refunded" => Mapped(n) = "failed"
<1>1. n.status \in ProviderStatuses /\ n.paid \in {"full", "short"}
  BY DEF Notice
<1> QED BY <1>1 DEF Mapped, MapNowpaymentsStatus, ProviderStatuses

\* What a notification does to the order, under the lock.
LEMMA ApplyMoves ==
    ASSUME Inv, NEW w \in Workers, NEW n \in ipns, ApplyIpnStatus(w, n)
    PROVE  /\ order' \in Order
           /\ order.payment # None => order'.payment = order.payment
           /\ order'.payment \in {order.payment, n.payment}
           /\ order.status \in {"paid", "failed", "cancelled"} => order'.status = order.status
           /\ order'.status = "paid" =>
                 order.status = "paid" \/ (Mapped(n) = "paid" /\ order'.payment = n.payment)
           /\ order.payment \in {None, n.payment} /\ Mapped(n) # "unknown" =>
                 order'.status = IF IsTerminalForward(order.status, Mapped(n)) THEN Mapped(n)
                                                                               ELSE order.status
<1> DEFINE next == Mapped(n)
           applies == order.payment \in {None, n.payment} /\ next # "unknown"
           s == IF IsTerminalForward(order.status, next) THEN next ELSE order.status
           o == [order EXCEPT !.payment = n.payment, !.status = s]
<1>1. order' = IF applies THEN o ELSE order
  BY DEF ApplyIpnStatus
<1>2. TypeOK /\ order \in Order /\ n \in Notice /\ n.payment \in Payments
  BY DEF Inv, TypeOK, Notice
<1>3. next \in {"pending", "confirming", "partial", "paid", "failed", "unknown"}
  BY <1>2, MappedTypes
<1>4. order.status \in Statuses
  BY <1>2 DEF Order
<1>5. /\ next # "unknown" => s \in Statuses
      /\ order.status \in {"paid", "failed", "cancelled"} => s = order.status
      /\ s = "paid" => order.status = "paid" \/ next = "paid"
  BY <1>3, <1>4 DEF IsTerminalForward, Statuses
<1>6. s = IF IsTerminalForward(order.status, Mapped(n)) THEN Mapped(n) ELSE order.status
  OBVIOUS
<1> HIDE DEF s
<1>7. next # "unknown" => o \in Order /\ o.payment = n.payment /\ o.status = s
  BY <1>2, <1>5 DEF Order
<1> HIDE DEF o
<1>8. CASE applies
  BY <1>1, <1>2, <1>5, <1>6, <1>7, <1>8
<1>9. CASE ~applies
  BY <1>1, <1>2, <1>9
<1> QED BY <1>8, <1>9

LEMMA ApplyKeeps ==
    ASSUME Inv, NEW w \in Workers, NEW n \in ipns, ApplyIpnStatus(w, n)
    PROVE  Inv' /\ Forward
<1> DEFINE x == [step |-> Owes(order, n), notice |-> n]
<1>1. /\ ipn[w].step = "idle" /\ ipn' = [ipn EXCEPT ![w] = x]
      /\ UNCHANGED <<old, money, ipns, shown, acked, term, checkout, sweep, alarms, faults>>
  BY DEF ApplyIpnStatus, providerVars
<1>2. /\ TypeOK /\ order \in Order /\ n \in Notice /\ n.payment \in Payments /\ shown \subseteq Payments
      /\ ipn \in [Workers -> Ipn]
  BY DEF Inv, TypeOK, Notice
<1>3. Owes(order, n) \in {"activate", "revoke", "mismatch", "dropped", "ack"}
  BY DEF Owes
<1>4. x \in Ipn /\ x.step = Owes(order, n) /\ x.notice = n
  BY <1>2, <1>3 DEF Ipn
<1> HIDE DEF x
<1>5. \A v \in Workers : ipn'[v] = IF v = w THEN x ELSE ipn[v]
  BY <1>1, <1>2
<1>6. TypeOK'
  BY <1>1, <1>2, <1>4, ApplyMoves DEF TypeOK
<1>7. Created'
  BY <1>1 DEF Inv, Created
<1>8. order.payment = None => shown = {}
  BY <1>2 DEF Inv, Bound, OnlyBoundAddressShown
<1>9. money[n.payment] # None /\ (n.paid = "full" => money[n.payment].paid = "full")
  BY DEF Inv, Created
<1>10. Bound'
  <2>1. OnlyBoundAddressShown'
    BY <1>1, <1>8, ApplyMoves DEF Inv, Bound, OnlyBoundAddressShown
  <2>2. order'.payment # None => money'[order'.payment] # None
    BY <1>1, <1>9, ApplyMoves DEF Inv, Bound
  <2>3. ASSUME NEW c \in Checkouts, checkout'[c].step = "get"
        PROVE  checkout'[c].payment = order'.payment /\ order'.payment # None
    <3>1. checkout[c].payment = order.payment /\ order.payment # None
      BY <1>1, <2>3 DEF Inv, Bound
    <3> QED BY <1>1, <3>1, ApplyMoves
  <2>4. ASSUME NEW c \in Checkouts, checkout'[c].step = "bind"
        PROVE  checkout'[c].payment # None /\ money'[checkout'[c].payment] # None
    BY <1>1, <2>4 DEF Inv, Bound
  <2> QED BY <2>1, <2>2, <2>3, <2>4 DEF Bound
<1>11. Forward
  BY <1>1, ApplyMoves DEF Forward
<1>12. Earned'
  <2>1. order.status = "paid" => order'.status = "paid"
    BY ApplyMoves
  <2>2. ASSUME order'.status = "paid"
        PROVE  order'.payment # None /\ money'[order'.payment].paid = "full"
    <3>1. CASE order.status = "paid"
      BY <1>1, <3>1, ApplyMoves DEF Inv, Earned
    <3>2. CASE Mapped(n) = "paid" /\ order'.payment = n.payment
      BY <1>1, <1>2, <1>9, <3>2, MappedTypes
    <3> QED BY <2>2, <3>1, <3>2, ApplyMoves
  <2>3. ASSUME x.step = "activate"
        PROVE  order'.status = "paid"
    <3>1. /\ Mapped(n) = "paid" /\ IsTerminalForward(order.status, Mapped(n))
          /\ order.payment \in {None, n.payment}
      BY <1>4, <2>3 DEF Owes
    <3> QED BY <3>1, ApplyMoves
  <2> QED BY <1>1, <1>5, <2>1, <2>2, <2>3 DEF Inv, Earned
<1>13. Owing'
  <2>1. ASSUME n.status = "finished", n.paid = "full"
        PROVE  x.step \in {"activate", "mismatch", "dropped"} \/ (x.step = "ack" /\ Answered')
    <3>1. Mapped(n) = "paid" /\ n.payment \in shown
      BY <1>2, <2>1, MappedTypes DEF Inv, Created
    <3>2. order.payment = n.payment
      BY <3>1 DEF Inv, Bound, OnlyBoundAddressShown
    <3>3. CASE order.status = "paid"
      BY <1>3, <1>4, <3>1, <3>2, <3>3, ApplyMoves DEF Owes, Answered
    <3>4. CASE order.status # "paid"
      BY <1>2, <1>4, <3>1, <3>2, <3>4 DEF Owes
    <3> QED BY <3>3, <3>4
  <2>2. ASSUME n.status = "refunded"
        PROVE  x.step = "revoke" \/ (x.step = "ack" /\ Over')
    <3>1. Mapped(n) = "failed" /\ n.payment \in shown
      BY <1>2, <2>2, MappedTypes DEF Inv, Created
    <3>2. order.payment = n.payment
      BY <3>1 DEF Inv, Bound, OnlyBoundAddressShown
    <3>3. CASE order.status = "paid"
      BY <1>4, <3>1, <3>2, <3>3 DEF Owes
    <3>4. CASE order.status # "paid"
      <4>1. x.step = "ack"
        BY <1>4, <3>1, <3>2, <3>4 DEF Owes
      <4>2. order.status \in {"pending", "confirming", "partial", "failed", "cancelled"}
        BY <1>2, <3>4 DEF Order, Statuses
      <4>3. order'.status \in {"failed", "cancelled"}
        BY <3>1, <3>2, <4>2, ApplyMoves DEF IsTerminalForward
      <4> QED BY <4>1, <4>3 DEF Over
    <3> QED BY <3>3, <3>4
  <2>3. ASSUME NEW v \in Workers, v # w, ipn'[v].step # "idle"
        PROVE  /\ ipn'[v].notice \in ipns'
               /\ ipn'[v].notice.status = "finished" /\ ipn'[v].notice.paid = "full"
                     => \/ ipn'[v].step \in {"activate", "mismatch", "dropped"}
                        \/ ipn'[v].step = "ack" /\ Answered'
               /\ ipn'[v].notice.status = "refunded"
                     => ipn'[v].step = "revoke" \/ (ipn'[v].step = "ack" /\ Over')
    BY <1>1, <1>5, <1>11, <2>3, ForwardKeeps DEF Inv, Owing
  <2> QED BY <1>1, <1>4, <1>5, <2>1, <2>2, <2>3 DEF Owing
<1>14. Settled'
  BY <1>1, <1>11, ForwardKeeps DEF Inv, Settled
<1> QED BY <1>6, <1>7, <1>10, <1>11, <1>12, <1>13, <1>14 DEF Inv

\* What follows the lock: a worker goes on, the term moves, an alarm is raised.
LEMMA WorkerMoves ==
    ASSUME Inv, NEW w \in Workers, NEW x \in Ipn, ipn' = [ipn EXCEPT ![w] = x],
           UNCHANGED <<order, old, money, ipns, shown, checkout, sweep>>,
           term' \in {"none", "live", "ended"}, term = "ended" => term' = "ended",
           term' = "live" => order.status = "paid",
           alarms \subseteq alarms', alarms' \subseteq {"mismatch", "dropped", "activate", "revoke"},
           faults' \in 0 .. MaxFaults,
           acked' = acked \/ (acked' = acked \cup {ipn[w].notice} /\ ipn[w].step = "ack"),
           x.step \in {"idle", "ack"},
           x.step = "ack" => /\ ipn[w].step # "idle" /\ x.notice = ipn[w].notice
                             /\ ipn[w].step = "revoke" => Over'
                             /\ ipn[w].step = "activate" => Answered'
                             /\ ipn[w].step \in {"mismatch", "dropped"} => Answered'
    PROVE  Inv' /\ Forward
<1>1. TypeOK /\ ipn \in [Workers -> Ipn] /\ ipn[w] \in Ipn
  BY DEF Inv, TypeOK
<1>2. Forward
  BY DEF Forward
<1>3. \A v \in Workers : ipn'[v] = IF v = w THEN x ELSE ipn[v]
  BY <1>1
<1>4. ipn[w].step # "idle" =>
        /\ ipn[w].notice \in ipns
        /\ ipn[w].notice.status = "finished" /\ ipn[w].notice.paid = "full"
              => \/ ipn[w].step \in {"activate", "mismatch", "dropped"}
                 \/ ipn[w].step = "ack" /\ Answered'
        /\ ipn[w].notice.status = "refunded"
              => ipn[w].step = "revoke" \/ (ipn[w].step = "ack" /\ Over')
  BY <1>2, ForwardKeeps DEF Inv, Owing
<1>5. acked' \subseteq ipns
  BY <1>1, <1>4 DEF TypeOK
<1>6. TypeOK'
  BY <1>1, <1>5 DEF TypeOK
<1>7. Created' /\ Bound'
  BY DEF Inv, Created, Bound, OnlyBoundAddressShown
<1>8. Earned'
  BY <1>3 DEF Inv, Earned
<1>9. Owing'
  <2>1. ASSUME NEW v \in Workers, v # w, ipn'[v].step # "idle"
        PROVE  /\ ipn'[v].notice \in ipns'
               /\ ipn'[v].notice.status = "finished" /\ ipn'[v].notice.paid = "full"
                     => \/ ipn'[v].step \in {"activate", "mismatch", "dropped"}
                        \/ ipn'[v].step = "ack" /\ Answered'
               /\ ipn'[v].notice.status = "refunded"
                     => ipn'[v].step = "revoke" \/ (ipn'[v].step = "ack" /\ Over')
    BY <1>2, <1>3, <2>1, ForwardKeeps DEF Inv, Owing
  <2> QED BY <1>3, <1>4, <2>1 DEF Owing
<1>10. Settled'
  <2>1. ASSUME NEW n \in acked
        PROVE  (n.status = "finished" /\ n.paid = "full" => Answered') /\ (n.status = "refunded" => Over')
    BY <1>2, ForwardKeeps DEF Inv, Settled
  <2> QED BY <1>4, <2>1 DEF Settled
<1> QED BY <1>2, <1>6, <1>7, <1>8, <1>9, <1>10 DEF Inv

LEMMA WorkerKeeps ==
    ASSUME Inv, NEW w \in Workers, Proceed(w) \/ SideEffectFails(w) \/ IpnCrashes(w)
    PROVE  Inv' /\ Forward
<1>1. /\ TypeOK /\ ipn[w] \in Ipn /\ term \in {"none", "live", "ended"} /\ faults \in 0 .. MaxFaults
      /\ alarms \subseteq {"mismatch", "dropped", "activate", "revoke"}
      /\ term = "live" => order.status = "paid"
  BY DEF Inv, TypeOK, Earned
<1> DEFINE x == [ipn[w] EXCEPT !.step = "ack"]
<1>2. /\ x \in Ipn /\ x.step = "ack" /\ x.notice = ipn[w].notice
      /\ IdleIpn \in Ipn /\ IdleIpn.step = "idle"
  BY <1>1 DEF Ipn, IdleIpn
<1>3. Goto(w, "ack") => ipn' = [ipn EXCEPT ![w] = x]
  BY DEF Goto
<1> HIDE DEF x
<1>4. CASE Activate(w)
  <2>1. order.status = "paid"
    BY <1>4 DEF Activate, Inv, Earned
  <2>2. /\ ipn[w].step = "activate" /\ ipn' = [ipn EXCEPT ![w] = x] /\ term' = Activated
        /\ UNCHANGED <<order, old, money, ipns, shown, acked, checkout, sweep, alarms, faults>>
    BY <1>3, <1>4 DEF Activate, providerVars
  <2>3. Answered'
    BY <2>1, <2>2 DEF Answered
  <2> QED BY <1>1, <1>2, <2>1, <2>2, <2>3, WorkerMoves DEF Activated
<1>5. CASE Revoke(w)
  <2>1. /\ ipn[w].step = "revoke" /\ ipn' = [ipn EXCEPT ![w] = x] /\ term' = "ended"
        /\ UNCHANGED <<order, old, money, ipns, shown, acked, checkout, sweep, alarms, faults>>
    BY <1>3, <1>5 DEF Revoke, Revoked, providerVars
  <2>2. Over'
    BY <2>1 DEF Over
  <2> QED BY <1>1, <1>2, <2>1, <2>2, WorkerMoves
<1>6. CASE Alarm(w)
  <2>1. /\ ipn[w].step \in {"mismatch", "dropped"} /\ ipn' = [ipn EXCEPT ![w] = x]
        /\ alarms' = alarms \cup {ipn[w].step}
        /\ UNCHANGED <<order, old, money, ipns, shown, acked, term, checkout, sweep, faults>>
    BY <1>3, <1>6 DEF Alarm, providerVars
  <2>2. Answered'
    BY <2>1 DEF Answered
  <2> QED BY <1>1, <1>2, <2>1, <2>2, WorkerMoves
<1>7. CASE SideEffectFails(w)
  <2>1. /\ ipn[w].step \in {"activate", "revoke"} /\ ipn' = [ipn EXCEPT ![w] = x]
        /\ alarms' = alarms \cup {ipn[w].step} /\ faults' \in 0 .. MaxFaults
        /\ UNCHANGED <<order, old, money, ipns, shown, acked, term, checkout, sweep>>
    BY <1>1, <1>3, <1>7 DEF SideEffectFails, Fault, providerVars
  <2>2. ipn[w].step = "revoke" => Over'
    BY <2>1 DEF Over
  <2>3. ipn[w].step = "activate" => Answered'
    BY <2>1 DEF Answered, Inv, Earned
  <2> QED BY <1>1, <1>2, <2>1, <2>2, <2>3, WorkerMoves
<1>8. CASE Ack(w)
  <2>1. /\ ipn[w].step = "ack" /\ ipn' = [ipn EXCEPT ![w] = IdleIpn]
        /\ acked' \in {acked, acked \cup {ipn[w].notice}}
        /\ UNCHANGED <<order, old, money, ipns, shown, term, checkout, sweep, alarms, faults>>
    BY <1>8 DEF Ack, providerVars
  <2> QED BY <1>1, <1>2, <2>1, WorkerMoves
<1>9. CASE IpnCrashes(w)
  <2>1. /\ ipn' = [ipn EXCEPT ![w] = IdleIpn] /\ faults' \in 0 .. MaxFaults
        /\ UNCHANGED <<order, old, money, ipns, shown, acked, term, checkout, sweep, alarms>>
    BY <1>1, <1>9 DEF IpnCrashes, Fault, providerVars
  <2> QED BY <1>1, <1>2, <2>1, WorkerMoves
<1> QED BY <1>4, <1>5, <1>6, <1>7, <1>8, <1>9 DEF Proceed

-----------------------------------------------------------------------------
(* Cancellation, age and sweeps *)

\* An open order is closed, or only its claim, its age or a sweep moves on.
LEMMA OrderCloses ==
    ASSUME Inv, NEW o \in Order, order' = o, o.payment = order.payment,
           o.status = order.status
             \/ (order.status = "pending" /\ o.status \in {"failed", "cancelled"}),
           old' \in BOOLEAN, sweep' \in [expiry : BOOLEAN, reconcile : BOOLEAN],
           term' \in {"none", "live", "ended"}, term = "ended" => term' = "ended",
           term' = "live" \/ sweep'.reconcile => order.status = "paid",
           faults' \in 0 .. MaxFaults,
           UNCHANGED <<money, ipns, shown, acked, checkout, ipn, alarms>>
    PROVE  Inv' /\ Forward
<1>1. Forward
  BY DEF Forward
<1>2. TypeOK'
  BY DEF Inv, TypeOK
<1>3. Created' /\ Bound'
  BY DEF Inv, Created, Bound, OnlyBoundAddressShown
<1>4. Earned'
  BY DEF Inv, Earned
<1>5. Owing' /\ Settled'
  BY <1>1, ForwardKeeps DEF Inv, Owing, Settled
<1> QED BY <1>1, <1>2, <1>3, <1>4, <1>5 DEF Inv

LEMMA SweepsKeep ==
    ASSUME Inv,
           \/ ClaimGoesStale \/ CancelOrder \/ OrderGrowsOld
           \/ ListPendingOlderThan \/ ExpireOrder \/ SweepPaid \/ ReconcileFails
    PROVE  Inv' /\ Forward
<1>1. /\ order \in Order /\ term \in {"none", "live", "ended"} /\ faults \in 0 .. MaxFaults
      /\ sweep \in [expiry : BOOLEAN, reconcile : BOOLEAN] /\ old \in BOOLEAN
      /\ term = "live" \/ sweep.reconcile => order.status = "paid"
  BY DEF Inv, TypeOK, Earned
<1>2. \A b \in BOOLEAN :
        /\ [sweep EXCEPT !.expiry = b] \in [expiry : BOOLEAN, reconcile : BOOLEAN]
        /\ [sweep EXCEPT !.expiry = b].reconcile = sweep.reconcile
        /\ [sweep EXCEPT !.reconcile = b] \in [expiry : BOOLEAN, reconcile : BOOLEAN]
        /\ [sweep EXCEPT !.reconcile = b].reconcile = b
  BY <1>1
<1>3. CASE ClaimGoesStale
  <2> DEFINE o == [order EXCEPT !.claim = "stale"]
  <2>1. o \in Order /\ o.status = order.status /\ o.payment = order.payment
    BY <1>1, OrderMoves
  <2>2. /\ order' = o
        /\ UNCHANGED <<old, money, ipns, shown, acked, term, checkout, ipn, sweep, alarms, faults>>
    BY <1>3 DEF ClaimGoesStale, providerVars, flowVars
  <2> HIDE DEF o
  <2> QED BY <1>1, <2>1, <2>2, OrderCloses
<1>4. CASE CancelOrder
  <2> DEFINE o == [order EXCEPT !.status = "cancelled"]
  <2>1. o \in Order /\ o.status = "cancelled" /\ o.payment = order.payment
    BY <1>1, OrderMoves DEF Statuses
  <2>2. /\ order' = o /\ order.status = "pending"
        /\ UNCHANGED <<old, money, ipns, shown, acked, term, checkout, ipn, sweep, alarms, faults>>
    BY <1>4 DEF CancelOrder, providerVars, flowVars
  <2> HIDE DEF o
  <2> QED BY <1>1, <2>1, <2>2, OrderCloses
<1>5. CASE OrderGrowsOld
  <2>1. /\ old' \in BOOLEAN
        /\ UNCHANGED <<order, money, ipns, shown, acked, term, checkout, ipn, sweep, alarms, faults>>
    BY <1>5 DEF OrderGrowsOld, providerVars, flowVars
  <2> QED BY <1>1, <2>1, OrderCloses
<1>6. CASE ListPendingOlderThan
  <2>1. /\ sweep' = [sweep EXCEPT !.expiry = TRUE]
        /\ UNCHANGED <<order, old, money, ipns, shown, acked, term, checkout, ipn, alarms, faults>>
    BY <1>6 DEF ListPendingOlderThan, providerVars
  <2> QED BY <1>1, <1>2, <2>1, OrderCloses
<1>7. CASE ExpireOrder
  <2> DEFINE s == IF order.status = "pending" THEN "failed" ELSE order.status
             o == [order EXCEPT !.status = s]
  <2>1. s \in Statuses
    BY <1>1, OrderMoves DEF Statuses
  <2>2. /\ order' = o /\ sweep' = [sweep EXCEPT !.expiry = FALSE]
        /\ UNCHANGED <<old, money, ipns, shown, acked, term, checkout, ipn, alarms, faults>>
    BY <1>7 DEF ExpireOrder, providerVars
  <2>3. s = order.status \/ (order.status = "pending" /\ s = "failed")
    OBVIOUS
  <2> HIDE DEF s
  <2>4. o \in Order /\ o.status = s /\ o.payment = order.payment
    BY <1>1, <2>1, OrderMoves
  <2> HIDE DEF o
  <2> QED BY <1>1, <1>2, <2>2, <2>3, <2>4, OrderCloses
<1>8. CASE SweepPaid
  <2>1. CASE ListPaidOrdersMissingEntitlement
    <3>1. /\ sweep' = [sweep EXCEPT !.reconcile = TRUE] /\ order.status = "paid"
          /\ UNCHANGED <<order, old, money, ipns, shown, acked, term, checkout, ipn, alarms, faults>>
      BY <2>1 DEF ListPaidOrdersMissingEntitlement, providerVars
    <3> QED BY <1>1, <1>2, <3>1, OrderCloses
  <2>2. CASE Reconcile
    <3>1. /\ sweep' = [sweep EXCEPT !.reconcile = FALSE] /\ sweep.reconcile /\ term' = Activated
          /\ UNCHANGED <<order, old, money, ipns, shown, acked, checkout, ipn, alarms, faults>>
      BY <2>2 DEF Reconcile, providerVars
    <3> QED BY <1>1, <1>2, <3>1, OrderCloses DEF Activated
  <2> QED BY <1>8, <2>1, <2>2 DEF SweepPaid
<1>9. CASE ReconcileFails
  <2>1. /\ sweep' = [sweep EXCEPT !.reconcile = FALSE] /\ faults' \in 0 .. MaxFaults
        /\ UNCHANGED <<order, old, money, ipns, shown, acked, term, checkout, ipn, alarms>>
    BY <1>1, <1>9 DEF ReconcileFails, Fault, providerVars
  <2> QED BY <1>1, <1>2, <2>1, OrderCloses
<1> QED BY <1>3, <1>4, <1>5, <1>6, <1>7, <1>8, <1>9

-----------------------------------------------------------------------------
(* Theorems *)

LEMMA InvStep == Inv /\ [Next]_vars => Inv' /\ Forward
<1>1. ASSUME Inv, Next
      PROVE  Inv' /\ Forward
  <2>1. ASSUME NEW p \in Payments,
               TopUp(p) \/ Progresses(p) \/ \E paid \in {"full", "short"} : Pay(p, paid)
        PROVE  Inv' /\ Forward
    <3>1. money[p] # None
      BY <1>1, <2>1 DEF TopUp, Progresses, Pay, Inv, Created
    <3>2. PICK st, pd : PaymentMoves(p, st, pd)
      BY <1>1, <2>1, <3>1, ProviderSteps DEF Inv
    <3> QED BY <1>1, <3>2, NotifyKeeps
  <2> QED BY <1>1, <2>1, CheckoutKeeps, CreateKeeps, ApplyKeeps, WorkerKeeps, SweepsKeep DEF Next
<1>2. ASSUME Inv, UNCHANGED vars
      PROVE  Inv' /\ Forward
  <2>1. Forward
    BY <1>2 DEF vars, Forward
  <2>2. Inv'
    BY <1>2 DEF vars, Inv, TypeOK, Created, Bound, OnlyBoundAddressShown, Earned, Owing, Settled,
                Answered, Over
  <2> QED BY <2>1, <2>2
<1> QED BY <1>1, <1>2

\* No full payment is acknowledged for nothing, no term runs without one, and
\* none runs on after its refund.
THEOREM MoneyAlwaysMet == Spec => []MoneyIsMet
<1>1. Inv => MoneyIsMet
  <2> SUFFICES ASSUME Inv PROVE MoneyIsMet
    OBVIOUS
  <2>1. NoSilentDrop
    BY DEF Inv, Settled, NoSilentDrop, Answered
  <2>2. RefundLeavesNoTerm
    BY DEF Inv, Settled, Earned, RefundLeavesNoTerm, Over
  <2>3. TermWasPaidInFull
    BY DEF Inv, Earned, TermWasPaidInFull
  <2> QED BY <2>1, <2>2, <2>3 DEF Inv, MoneyIsMet
<1>2. Inv /\ [Next]_vars => Inv'
  BY InvStep
<1> QED BY <1>1, <1>2, InvInit, PTL DEF Spec

\* A customer is only ever shown the address of the order's bound payment.
THEOREM ShownAlwaysBound == Spec => []OnlyBoundAddressShown
<1>1. Inv => OnlyBoundAddressShown
  BY DEF Inv, Bound
<1>2. Inv /\ [Next]_vars => Inv'
  BY InvStep
<1> QED BY <1>1, <1>2, InvInit, PTL DEF Spec

\* A paid, failed or cancelled order never changes its status again.
THEOREM TerminalStaysFinal == Spec => TerminalIsFinal
<1>1. Inv /\ [Next]_vars =>
        [order.status \in {"paid", "failed", "cancelled"} => order'.status = order.status]_vars
  BY InvStep DEF Forward
<1>2. Inv /\ [Next]_vars => Inv'
  BY InvStep
<1> QED BY <1>1, <1>2, InvInit, PTL DEF Spec, TerminalIsFinal
=============================================================================
