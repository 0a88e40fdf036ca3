------------------------- MODULE CreditTasks_proofs -------------------------
(***************************************************************************)
(* Proofs about CreditTasks, for any number of processes, tasks and calls. *)
(***************************************************************************)
EXTENDS CreditTasks, WellFoundedInduction, TLAPS

-----------------------------------------------------------------------------
(* Totals of a column (module Sums).  Induction is by least counterexample: the  *)
(* least number that violates a claim contradicts the claim for its predecessor. *)

\* Every nonempty set of natural numbers has a least element.
LEMMA LeastElement ==
    ASSUME NEW T, T \subseteq Nat, T # {}
    PROVE  \E x \in T : \A y \in T : x <= y
<1>1. PICK x \in T : \A y \in T : ~ (<<y, x>> \in OpToRel(<, Nat))
  BY NatLessThanWellFounded, WFMin
<1>2. ASSUME NEW y \in T PROVE ~ (y < x)
  <2>1. y \in Nat /\ x \in Nat
    OBVIOUS
  <2>2. QED
    BY <1>1, <2>1, Zenon DEF OpToRel
<1>3. QED
  BY <1>2

\* Induction over 0 .. n, with the claim given as the set of numbers it holds for.
LEMMA Induct ==
    ASSUME NEW n \in Nat, NEW G, 0 \in G,
           \A k \in 1 .. n : k - 1 \in G => k \in G
    PROVE  \A k \in 0 .. n : k \in G
<1> DEFINE Bad == {k \in 0 .. n : k \notin G}
<1>1. SUFFICES ASSUME Bad # {} PROVE FALSE
  OBVIOUS
<1>2. Bad \subseteq Nat
  OBVIOUS
<1>3. PICK k \in Bad : \A j \in Bad : k <= j
  <2> HIDE DEF Bad
  <2> QED BY <1>1, <1>2, LeastElement
<1>4. k \in 0 .. n /\ k \notin G
  BY <1>3
<1>5. k # 0
  BY <1>4
<1>6. k - 1 \in 0 .. n /\ k - 1 \notin Bad
  <2> HIDE DEF Bad
  <2> QED BY <1>3, <1>4, <1>5
<1>7. k - 1 \in G
  BY <1>6
<1>8. QED
  BY <1>4, <1>5, <1>7

IntsUpTo(f, n) == \A i \in 1 .. n : f[i] \in Int

IsPrefixSum(p, f, n) ==
    /\ p \in [0 .. n -> Int]
    /\ p[0] = 0
    /\ \A i \in 1 .. n : p[i] = p[i - 1] + f[i]

LEMMA PrefixSumExists ==
    ASSUME NEW n \in Nat, NEW f, IntsUpTo(f, n)
    PROVE  \E p : IsPrefixSum(p, f, n)
<1> DEFINE G == {k \in 0 .. n : \E p : IsPrefixSum(p, f, k)}
<1>1. 0 \in G
  <2>1. IsPrefixSum([i \in 0 .. 0 |-> 0], f, 0)
    BY DEF IsPrefixSum
  <2>2. QED
    BY <2>1
<1>2. ASSUME NEW k \in 1 .. n, k - 1 \in G PROVE k \in G
  <2>1. PICK p : IsPrefixSum(p, f, k - 1)
    BY <1>2
  <2>2. /\ p \in [0 .. k - 1 -> Int]
        /\ p[0] = 0
        /\ \A i \in 1 .. k - 1 : p[i] = p[i - 1] + f[i]
    BY <2>1 DEF IsPrefixSum
  <2> DEFINE q == [i \in 0 .. k |-> IF i = k THEN p[k - 1] + f[k] ELSE p[i]]
  <2>3. q \in [0 .. k -> Int] /\ q[0] = 0
    BY <2>2 DEF IntsUpTo
  <2>4. ASSUME NEW i \in 1 .. k PROVE q[i] = q[i - 1] + f[i]
    <3>1. CASE i = k
      BY <3>1
    <3>2. CASE i # k
      <4>1. i \in 1 .. k - 1 /\ i \in 0 .. k /\ i - 1 \in 0 .. k /\ i - 1 # k
        BY <3>2
      <4>2. QED
        BY <4>1, <3>2, <2>2
    <3>3. QED
      BY <3>1, <3>2
  <2>5. IsPrefixSum(q, f, k)
    <3> HIDE DEF q
    <3> QED BY <2>3, <2>4 DEF IsPrefixSum
  <2>6. QED
    BY <2>5
<1>3. \A k \in 0 .. n : k \in G
  <2> HIDE DEF G
  <2> QED BY <1>1, <1>2, Induct
<1>4. QED
  BY <1>3

LEMMA SumIsPrefixSum ==
    ASSUME NEW n \in Nat, NEW f, NEW p, IsPrefixSum(p, f, n)
    PROVE  SumTo(f, n) = p[n]
<1> DEFINE Eq(s) == s = [i \in 0 .. n |-> IF i = 0 THEN 0 ELSE s[i - 1] + f[i]]
           t == CHOOSE s : Eq(s)
           G == {k \in 0 .. n : t[k] = p[k]}
<1>1. Eq(p)
  BY DEF IsPrefixSum
<1>2. Eq(t)
  BY <1>1
<1>3. t[0] = 0 /\ \A i \in 1 .. n : t[i] = t[i - 1] + f[i]
  <2> HIDE DEF t
  <2> QED BY <1>2
<1>4. p[0] = 0 /\ \A i \in 1 .. n : p[i] = p[i - 1] + f[i]
  BY DEF IsPrefixSum
<1>5. 0 \in G /\ \A k \in 1 .. n : k - 1 \in G => k \in G
  <2> HIDE DEF t
  <2> QED BY <1>3, <1>4
<1>6. \A k \in 0 .. n : k \in G
  <2> HIDE DEF G
  <2> QED BY <1>5, Induct
<1>7. t[n] = p[n]
  <2> HIDE DEF t
  <2> QED BY <1>6
<1>8. SumTo(f, n) = t[n]
  BY DEF SumTo
<1>9. QED
  BY <1>7, <1>8

\* The recursion a total satisfies.
LEMMA SumStep ==
    ASSUME NEW n \in Nat, NEW f, IntsUpTo(f, n)
    PROVE  /\ SumTo(f, n) \in Int
           /\ SumTo(f, 0) = 0
           /\ \A k \in 1 .. n : SumTo(f, k) = SumTo(f, k - 1) + f[k]
<1>1. PICK p : IsPrefixSum(p, f, n)
  BY PrefixSumExists
<1>2. ASSUME NEW k \in 0 .. n PROVE SumTo(f, k) = p[k]
  <2> DEFINE q == [i \in 0 .. k |-> p[i]]
  <2>1. IsPrefixSum(q, f, k)
    BY <1>1 DEF IsPrefixSum
  <2>2. q[k] = p[k]
    OBVIOUS
  <2> HIDE DEF q
  <2>3. QED
    BY <2>1, <2>2, SumIsPrefixSum
<1>3. QED
  BY <1>1, <1>2 DEF IsPrefixSum

\* A total of amounts is an amount.
LEMMA SumNat ==
    ASSUME NEW n \in Nat, NEW f, \A i \in 1 .. n : f[i] \in Nat
    PROVE  SumTo(f, n) \in Nat
<1> DEFINE G == {k \in 0 .. n : SumTo(f, k) \in Nat}
<1>1. /\ SumTo(f, 0) = 0
      /\ \A k \in 1 .. n : SumTo(f, k) = SumTo(f, k - 1) + f[k]
  BY SumStep DEF IntsUpTo
<1>2. 0 \in G /\ \A k \in 1 .. n : k - 1 \in G => k \in G
  BY <1>1
<1>3. \A k \in 0 .. n : k \in G
  <2> HIDE DEF G
  <2> QED BY <1>2, Induct
<1>4. QED
  BY <1>3

\* A column of zeros totals zero.
LEMMA SumZero ==
    ASSUME NEW n \in Nat, NEW f, \A i \in 1 .. n : f[i] = 0
    PROVE  SumTo(f, n) = 0
<1> DEFINE G == {k \in 0 .. n : SumTo(f, k) = 0}
<1>1. /\ SumTo(f, 0) = 0
      /\ \A k \in 1 .. n : SumTo(f, k) = SumTo(f, k - 1) + f[k]
  BY SumStep DEF IntsUpTo
<1>2. 0 \in G
  BY <1>1
<1>3. \A k \in 1 .. n : k - 1 \in G => k \in G
  BY <1>1
<1> HIDE DEF G
<1>4. \A k \in 0 .. n : k \in G
  BY <1>2, <1>3, Induct
<1>5. QED
  BY <1>4 DEF G

\* A total moves by what one entry moves.
LEMMA SumChange ==
    ASSUME NEW n \in Nat, NEW f, NEW g, NEW j \in 1 .. n,
           IntsUpTo(f, n), IntsUpTo(g, n),
           \A i \in 1 .. n : i # j => g[i] = f[i]
    PROVE  SumTo(g, n) = SumTo(f, n) + g[j] - f[j]
<1> DEFINE d(k) == IF k < j THEN 0 ELSE g[j] - f[j]
           G == {k \in 0 .. n : SumTo(f, k) \in Int /\ SumTo(g, k) = SumTo(f, k) + d(k)}
<1>1. /\ SumTo(f, 0) = 0
      /\ \A k \in 1 .. n : SumTo(f, k) = SumTo(f, k - 1) + f[k]
      /\ SumTo(g, 0) = 0
      /\ \A k \in 1 .. n : SumTo(g, k) = SumTo(g, k - 1) + g[k]
  BY SumStep
<1>2. 0 \in G
  BY <1>1
<1>3. ASSUME NEW k \in 1 .. n, k - 1 \in G PROVE k \in G
  <2>1. g[k] \in Int /\ f[k] \in Int /\ g[j] \in Int /\ f[j] \in Int
    BY DEF IntsUpTo
  <2>2. k # j => g[k] = f[k]
    OBVIOUS
  <2>3. QED
    BY <1>1, <1>3, <2>1, <2>2
<1>4. \A k \in 0 .. n : k \in G
  <2> HIDE DEF G
  <2> QED BY <1>2, <1>3, Induct
<1>5. QED
  BY <1>4

\* Equal entries have equal totals; smaller entries have a smaller total.
LEMMA SumMonotone ==
    ASSUME NEW n \in Nat, NEW f, NEW g, IntsUpTo(f, n), IntsUpTo(g, n),
           \A i \in 1 .. n : f[i] <= g[i]
    PROVE  SumTo(f, n) <= SumTo(g, n)
<1> DEFINE G == {k \in 0 .. n : /\ SumTo(f, k) \in Int
                                /\ SumTo(g, k) \in Int
                                /\ SumTo(f, k) <= SumTo(g, k)}
<1>1. /\ SumTo(f, 0) = 0
      /\ \A k \in 1 .. n : SumTo(f, k) = SumTo(f, k - 1) + f[k]
      /\ SumTo(g, 0) = 0
      /\ \A k \in 1 .. n : SumTo(g, k) = SumTo(g, k - 1) + g[k]
  BY SumStep
<1>2. 0 \in G
  BY <1>1
<1>3. ASSUME NEW k \in 1 .. n, k - 1 \in G PROVE k \in G
  <2>1. g[k] \in Int /\ f[k] \in Int
    BY DEF IntsUpTo
  <2>2. QED
    BY <1>1, <1>3, <2>1
<1>4. \A k \in 0 .. n : k \in G
  <2> HIDE DEF G
  <2> QED BY <1>2, <1>3, Induct
<1>5. QED
  BY <1>4

-----------------------------------------------------------------------------
(* Constants and types *)

LEMMA ConstantFacts ==
    /\ MaxTask \in Nat /\ MaxCall \in Nat /\ MaxSlots \in Nat
    /\ MaxTime \in Nat /\ MaxFaults \in Nat
    /\ Lease \in Nat /\ MaxAge \in Nat /\ BeatGap \in Nat
    /\ Lease > 0 /\ MaxAge > 0 /\ BeatGap > 0
    /\ Modes \subseteq {"enforce", "shadow"}
    /\ Reserves \subseteq Nat /\ Bounds \subseteq Nat /\ Costs \subseteq Nat
    /\ None \notin Procs
BY ConstantsAssumption

USE ConstantFacts

-----------------------------------------------------------------------------
(* What the updates of a row are *)

LEMMA NoRowsType == NoTask \in Task /\ NoCall \in Call
BY DEF NoTask, NoCall, Task, Call

LEMMA NewTaskType ==
    ASSUME NEW p \in Procs, NEW mode \in {"enforce", "shadow"},
           NEW s \in 0 .. MaxSlots, NEW r \in Nat, now \in Nat
    PROVE  NewTask(p, mode, s, r) \in Task
BY DEF NewTask, Task

LEMMA TaskUpdates ==
    ASSUME NEW q \in Task
    PROVE  /\ \A n \in Nat : [q EXCEPT !.lease = n] \in Task
           /\ \A m \in Int : [q EXCEPT !.committed = m] \in Task
           /\ \A m \in Int, n \in Nat : [q EXCEPT !.committed = m, !.lease = n] \in Task
           /\ \A m \in Int, n \in Nat, r \in Reason :
                 [q EXCEPT !.state = "settled", !.committed = m, !.charged = n,
                           !.reason = r] \in Task
BY DEF Task

LEMMA CallUpdates ==
    ASSUME NEW k \in Call
    PROVE  /\ [k EXCEPT !.sent = TRUE] \in Call
           /\ \A b \in Basis, n \in Nat :
                 [k EXCEPT !.state = "settled", !.basis = b, !.charged = n] \in Call
           /\ \A t \in Tasks, n \in Nat :
                 [k EXCEPT !.state = "started", !.task = t, !.bound = n] \in Call
<1>1. [k EXCEPT !.sent = TRUE] \in Call
  BY DEF Call
<1>2. \A b \in Basis, n \in Nat :
         [k EXCEPT !.state = "settled", !.basis = b, !.charged = n] \in Call
  BY DEF Call
<1>3. Tasks \subseteq 0 .. MaxTask
  BY DEF Tasks
<1>4. ASSUME NEW t \in 0 .. MaxTask, NEW n \in Nat
      PROVE  [k EXCEPT !.state = "started", !.task = t, !.bound = n] \in Call
  BY DEF Call
<1>5. QED
  BY <1>1, <1>2, <1>3, <1>4

LEMMA AfterACrashType ==
    ASSUME NEW k \in Call
    PROVE  AfterACrash(k) \in Call
<1>1. k.sent \in BOOLEAN /\ k.bound \in Nat
  BY DEF Call
<1>2. (IF k.sent THEN "no_record" ELSE "never_sent") \in Basis
  BY DEF Basis
<1>3. (IF k.sent THEN k.bound ELSE 0) \in Nat
  BY <1>1
<1>4. QED
  BY <1>2, <1>3, CallUpdates DEF AfterACrash

\* What a settlement charges is an amount, and never more than the bound.
LEMMA SettlementBounded ==
    ASSUME NEW asked \in Basis, NEW sent \in BOOLEAN, NEW bound \in Nat, NEW cost \in Nat
    PROVE  /\ BasisTheRowAgreesWith(asked, sent) \in Basis
           /\ CallSettlement(BasisTheRowAgreesWith(asked, sent), bound, cost) \in 0 .. bound
BY DEF BasisTheRowAgreesWith, CallSettlement, Basis, FreeBasis

\* The call rows that settling a task leaves behind.
LEMMA AfterACrashFields ==
    ASSUME NEW k \in Call
    PROVE  /\ AfterACrash(k).state = "settled"
           /\ AfterACrash(k).task = k.task
           /\ AfterACrash(k).bound = k.bound
           /\ AfterACrash(k).sent = k.sent
           /\ AfterACrash(k).charged \in 0 .. k.bound
           /\ AfterACrash(k).charged = IF k.sent THEN k.bound ELSE 0
           /\ AfterACrash(k).basis = IF k.sent THEN "no_record" ELSE "never_sent"
<1>1. k.sent \in BOOLEAN /\ k.bound \in Nat
  BY DEF Call
<1> DEFINE b == IF k.sent THEN "no_record" ELSE "never_sent"
           n == IF k.sent THEN k.bound ELSE 0
<1>2. AfterACrash(k) = [k EXCEPT !.state = "settled", !.basis = b, !.charged = n]
  BY Zenon DEF AfterACrash
<1>3. (IF k.sent THEN k.bound ELSE 0) \in 0 .. k.bound
  BY <1>1
<1> HIDE DEF b, n
<1>4. /\ AfterACrash(k).state = "settled" /\ AfterACrash(k).task = k.task
      /\ AfterACrash(k).bound = k.bound /\ AfterACrash(k).sent = k.sent
      /\ AfterACrash(k).charged = n /\ AfterACrash(k).basis = b
  BY <1>2 DEF Call
<1>5. QED
  BY <1>3, <1>4 DEF b, n

LEMMA AmountsAreInts ==
    ASSUME NEW cs \in [Calls -> Call], NEW t
    PROVE  /\ \A c \in 1 .. MaxCall : [d \in Calls |-> Commits(cs, t, d)][c] \in Nat
           /\ \A c \in 1 .. MaxCall : [d \in Calls |-> Charges(cs, t, d)][c] \in Nat
           /\ IntsUpTo([d \in Calls |-> Commits(cs, t, d)], MaxCall)
           /\ IntsUpTo([d \in Calls |-> Charges(cs, t, d)], MaxCall)
<1>1. \A c \in 1 .. MaxCall : [d \in Calls |-> Commits(cs, t, d)][c] \in Nat
  BY DEF Commits, Call, Calls
<1>2. \A c \in 1 .. MaxCall : [d \in Calls |-> Charges(cs, t, d)][c] \in Nat
  BY DEF Charges, Call, Calls
<1>3. QED
  BY <1>1, <1>2 DEF IntsUpTo

LEMMA TotalsType ==
    ASSUME NEW cs \in [Calls -> Call], NEW t
    PROVE  CommittedByCalls(cs, t) \in Nat /\ ChargedByCalls(cs, t) \in Nat
BY AmountsAreInts, SumNat DEF CommittedByCalls, ChargedByCalls

\* A task no call names commits and is charged nothing.
LEMMA NoCallsNoTotals ==
    ASSUME NEW cs \in [Calls -> Call], NEW t, \A c \in Calls : cs[c].task # t
    PROVE  CommittedByCalls(cs, t) = 0 /\ ChargedByCalls(cs, t) = 0
<1>1. \A c \in 1 .. MaxCall : [d \in Calls |-> Commits(cs, t, d)][c] = 0
  BY DEF Commits, Calls
<1>2. \A c \in 1 .. MaxCall : [d \in Calls |-> Charges(cs, t, d)][c] = 0
  BY DEF Charges, Calls
<1>3. QED
  BY <1>1, <1>2, SumZero DEF CommittedByCalls, ChargedByCalls

-----------------------------------------------------------------------------
(* Type correctness *)

LEMMA SettleInType ==
    ASSUME TypeOK, NEW t \in Tasks, NEW r \in Reason, SettleIn(t, r)
    PROVE  task' \in [Tasks -> Task] /\ call' \in [Calls -> Call]
<1>1. CASE ~Open(t)
  BY <1>1 DEF SettleIn, TypeOK, rows
<1>2. CASE Open(t)
  <2>0. ASSUME NEW c \in Calls PROVE AfterACrash(call[c]) \in Call /\ call[c] \in Call
    BY AfterACrashType DEF TypeOK
  <2>1. call' \in [Calls -> Call]
    BY <1>2, <2>0 DEF SettleIn, SettleStartedCallsAfterACrash
  <2>2. CommittedByCalls(call', t) \in Nat /\ ChargedByCalls(call', t) \in Nat
    BY <2>1, TotalsType
  <2>3. task[t] \in Task /\ task[t].committed \in Int
    BY DEF TypeOK, Task
  <2> DEFINE m == IF call' = call THEN task[t].committed ELSE CommittedByCalls(call', t)
             n == ChargedByCalls(call', t)
  <2>a. m \in Int /\ n \in Nat
    BY <2>2, <2>3
  <2>b. task' = [task EXCEPT ![t] = [task[t] EXCEPT !.state = "settled", !.committed = m,
                                        !.charged = n, !.reason = r]]
    BY <1>2, Zenon DEF SettleIn, MarkSettled
  <2> HIDE DEF m, n
  <2>c. [task[t] EXCEPT !.state = "settled", !.committed = m, !.charged = n,
                        !.reason = r] \in Task
    BY <2>a, <2>3, TaskUpdates
  <2>4. task' \in [Tasks -> Task]
    BY <2>b, <2>c DEF TypeOK
  <2>5. QED
    BY <2>1, <2>4
<1>3. QED
  BY <1>1, <1>2

LEMMA TypeInductive == TypeOK /\ [Next]_vars => TypeOK'
<1> SUFFICES ASSUME TypeOK, [Next]_vars PROVE TypeOK'
  OBVIOUS
<1> USE DEF TypeOK, rows
<1>0. \A t \in Tasks : task[t] \in Task /\ task[t].lease \in Nat /\ task[t].committed \in Int
  BY DEF Task
<1>00. \A c \in Calls : /\ call[c] \in Call /\ call[c].bound \in Nat
                        /\ call[c].sent \in BOOLEAN /\ call[c].task \in 0 .. MaxTask
  BY DEF Call
<1>1. CASE UNCHANGED vars
  BY <1>1 DEF vars
<1>2. CASE Advance
  BY <1>2 DEF Advance
<1>3. ASSUME NEW p \in Procs, Boot(p) PROVE TypeOK'
  BY <1>3 DEF Boot
<1>4. ASSUME NEW p \in Procs, Crash(p) PROVE TypeOK'
  BY <1>4 DEF Crash, Attempt
<1>5. ASSUME NEW p \in Procs, Heartbeat(p) PROVE TypeOK'
  <2>0. ASSUME NEW t \in Tasks PROVE [task[t] EXCEPT !.lease = now + Lease] \in Task
    <3>1. now + Lease \in Nat
      OBVIOUS
    <3>2. QED
      BY ONLY <3>1, <1>0, TaskUpdates, t \in Tasks
  <2>1. task' \in [Tasks -> Task]
    BY <1>5, <1>0, <2>0 DEF Heartbeat
  <2>2. QED
    BY <1>5, <2>1 DEF Heartbeat
<1>6. ASSUME NEW p \in Procs, LapsedReservations(p) PROVE TypeOK'
  BY <1>6 DEF LapsedReservations
<1>7. ASSUME NEW p \in Procs, ReleaseOwnLeases(p) PROVE TypeOK'
  <2>0. ASSUME NEW t \in Tasks PROVE [task[t] EXCEPT !.lease = now] \in Task
    BY <1>0, TaskUpdates
  <2>1. task' \in [Tasks -> Task]
    BY <1>7, <1>0, <2>0 DEF ReleaseOwnLeases
  <2>2. QED
    BY <1>7, <2>1 DEF ReleaseOwnLeases, Answered, Unanswered
<1>8. ASSUME NEW p \in Procs, NEW t \in Tasks, Reserve(p, t) PROVE TypeOK'
  <2>1. \E mode \in {"enforce", "shadow"}, s \in 0 .. MaxSlots, r \in Nat :
            task' = [task EXCEPT ![t] = NewTask(p, mode, s, r)]
    BY <1>8 DEF Reserve, InsertEnforceReservation, InsertShadowReservation
  <2>2. task' \in [Tasks -> Task]
    BY <2>1, NewTaskType
  <2>3. QED
    BY <1>8, <2>2 DEF Reserve, Answered, Unanswered
<1>9. ASSUME NEW p \in Procs, NEW t \in Tasks, EndTurn(p, t) PROVE TypeOK'
  <2>1. task' \in [Tasks -> Task] /\ call' \in [Calls -> Call]
    BY <1>9, SettleInType DEF EndTurn, Reason
  <2>2. QED
    BY <1>9, <2>1 DEF EndTurn, Answered, Unanswered
<1>10. ASSUME NEW p \in Procs, NEW t \in Tasks, SettleOneLapsed(p, t) PROVE TypeOK'
  <2>1. LapsedReason(t) \in Reason
    BY DEF LapsedReason, Reason
  <2>2. task' \in [Tasks -> Task] /\ call' \in [Calls -> Call]
    BY <1>10, <2>1, SettleInType DEF SettleOneLapsed
  <2>3. QED
    BY <1>10, <2>2 DEF SettleOneLapsed, Answered, Unanswered
<1>11. ASSUME NEW p \in Procs, NEW c \in Calls, MarkSent(p, c) PROVE TypeOK'
  <2>0. [call[c] EXCEPT !.sent = TRUE] \in Call
    BY <1>00, CallUpdates
  <2>1. call' \in [Calls -> Call]
    BY <1>11, <2>0 DEF MarkSent, MarkCallSent
  <2>2. attempt' \in [Calls -> Attempt] /\ left' \subseteq Calls
    BY <1>11 DEF MarkSent, NotMarked, Attempt
  <2>3. QED
    BY <1>11, <2>1, <2>2 DEF MarkSent, Answered, Unanswered
<1>12. ASSUME NEW p \in Procs, NEW c \in Calls, Fetch(p, c) PROVE TypeOK'
  BY <1>12 DEF Fetch, Attempt
<1>13. ASSUME NEW p \in Procs, NEW c \in Calls, SettleCall(p, c) PROVE TypeOK'
  <2>1. /\ task' \in [Tasks -> Task]
        /\ call' \in [Calls -> Call]
    <3>1. CASE UNCHANGED rows
      BY <3>1
    <3>2. ASSUME NEW asked \in AskedBasis(c), NEW cost \in Costs,
                 NEW basis, basis = BasisTheRowAgreesWith(asked, call[c].sent),
                 NEW charge, charge = CallSettlement(basis, call[c].bound, cost),
                 IF Started(c)
                 THEN /\ SettleOneCall(c, basis, charge)
                      /\ ReleaseCommittedBound(call[c].task, call[c].bound, charge)
                 ELSE UNCHANGED rows
          PROVE  /\ task' \in [Tasks -> Task]
                 /\ call' \in [Calls -> Call]
      <4>1. asked \in Basis /\ cost \in Nat
        BY DEF AskedBasis, Basis
      <4>2. basis \in Basis /\ charge \in 0 .. call[c].bound
        <5>1. call[c].sent \in BOOLEAN /\ call[c].bound \in Nat
          BY <1>00
        <5>2. QED
          BY ONLY <5>1, <3>2, <4>1, SettlementBounded
      <4>3. charge \in Nat
        BY <4>2, <1>00
      <4>4. [call[c] EXCEPT !.state = "settled", !.basis = basis, !.charged = charge] \in Call
        BY ONLY <4>2, <4>3, <1>00, CallUpdates, c \in Calls
      <4>5. call' \in [Calls -> Call]
        BY <3>2, <4>4 DEF SettleOneCall
      <4>6. ASSUME NEW t \in Tasks
            PROVE  [task[t] EXCEPT !.committed = @ - call[c].bound + charge] \in Task
        <5>1. task[t].committed - call[c].bound + charge \in Int
          BY <1>0, <1>00, <4>3
        <5>2. QED
          BY ONLY <5>1, <1>0, TaskUpdates, t \in Tasks
      <4>7. task' \in [Tasks -> Task]
        BY <3>2, <4>6 DEF ReleaseCommittedBound
      <4>8. QED
        BY <3>2, <4>5, <4>7
    <3>3. QED
      BY <1>13, <3>1, <3>2 DEF SettleCall
  <2>2. /\ faults' \in 0 .. MaxFaults
        /\ attempt' = [attempt EXCEPT ![c] = "over"]
        /\ UNCHANGED <<proc, live, sweep, beat, now, left>>
    BY <1>13 DEF SettleCall, Answered, Unanswered
  <2>3. QED
    BY <2>1, <2>2 DEF Attempt
<1>14. ASSUME NEW p \in Procs, NEW t \in Tasks, NEW c \in Calls, AdmitCall(p, t, c)
       PROVE TypeOK'
  <2>1. PICK b \in Bounds :
            /\ CommitCallBound(t, b)
            /\ call' = [call EXCEPT ![c] = [NoCall EXCEPT !.state = "started",
                                                          !.task = t, !.bound = b]]
    BY <1>14 DEF AdmitCall
  <2>2. call' \in [Calls -> Call]
    BY <2>1, NoRowsType, CallUpdates
  <2>3. Later(task[t].lease, now + Lease) \in Nat
    BY <1>0 DEF Later
  <2>4. task' \in [Tasks -> Task]
    <3>1. task[t].committed + b \in Int /\ task[t] \in Task
      BY <1>0
    <3>2. [task[t] EXCEPT !.committed = @ + b, !.lease = Later(@, now + Lease)] \in Task
      BY ONLY <3>1, <2>3, TaskUpdates
    <3>3. QED
      BY <2>1, <3>2 DEF CommitCallBound
  <2>5. QED
    BY <1>14, <2>2, <2>4 DEF AdmitCall, Answered, Unanswered, Attempt
<1>15. QED
  BY <1>1, <1>2, <1>3, <1>4, <1>5, <1>6, <1>7, <1>8, <1>9, <1>10, <1>11, <1>12, <1>13, <1>14
     DEF Next

\* Every reachable row, counter and set of a process has its type: in
\* particular every charge and every lease is an amount.
THEOREM TypeCorrect == Spec => []TypeOK
<1>1. Init => TypeOK
  BY NoRowsType DEF Init, TypeOK, Attempt
<1>2. QED
  BY <1>1, TypeInductive, PTL DEF Spec

-----------------------------------------------------------------------------
(***************************************************************************)
(* What a task commits and is charged.  The two properties are inductive   *)
(* only together with which task a call belongs to, that a call under way  *)
(* keeps its task open, and that a charge stays within its bound.          *)
(***************************************************************************)
CallsBelong ==
    \A c \in Calls :
        /\ call[c].state = "none" => call[c].task = 0
        /\ call[c].state # "none" =>
              call[c].task \in Tasks /\ task[call[c].task].state # "none"
        /\ call[c].state = "started" => Open(call[c].task)

ChargesBounded ==
    \A c \in Calls :
        /\ call[c].charged <= call[c].bound
        /\ call[c].state # "settled" => call[c].charged = 0

MoneyInv ==
    /\ TypeOK
    /\ CallsBelong
    /\ ChargesBounded
    /\ CommitmentsAddUp
    /\ ChargedWithinReservation

\* A table of calls that differs in one row differs in its totals by that row.
LEMMA OneCallChanges ==
    ASSUME NEW cs \in [Calls -> Call], NEW ds \in [Calls -> Call], NEW c \in Calls, NEW t,
           \A d \in Calls : d # c => ds[d] = cs[d]
    PROVE  /\ CommittedByCalls(ds, t) =
                  CommittedByCalls(cs, t) + Commits(ds, t, c) - Commits(cs, t, c)
           /\ ChargedByCalls(ds, t) =
                  ChargedByCalls(cs, t) + Charges(ds, t, c) - Charges(cs, t, c)
<1> DEFINE f == [d \in Calls |-> Commits(cs, t, d)]
           g == [d \in Calls |-> Commits(ds, t, d)]
           h == [d \in Calls |-> Charges(cs, t, d)]
           k == [d \in Calls |-> Charges(ds, t, d)]
<1>0. MaxCall \in Nat
  OBVIOUS
<1>1. c \in 1 .. MaxCall
  BY DEF Calls
<1>2. IntsUpTo(f, MaxCall) /\ IntsUpTo(g, MaxCall)
  BY AmountsAreInts
<1>3. IntsUpTo(h, MaxCall) /\ IntsUpTo(k, MaxCall)
  BY AmountsAreInts
<1>4. \A d \in 1 .. MaxCall : d # c => g[d] = f[d]
  BY DEF Commits, Calls
<1>4a. \A d \in 1 .. MaxCall : d # c => k[d] = h[d]
  BY DEF Charges, Calls
<1>5. f[c] = Commits(cs, t, c) /\ g[c] = Commits(ds, t, c)
      /\ h[c] = Charges(cs, t, c) /\ k[c] = Charges(ds, t, c)
  OBVIOUS
<1> HIDE DEF f, g, h, k
<1>6. SumTo(g, MaxCall) = SumTo(f, MaxCall) + g[c] - f[c]
  BY ONLY <1>1, <1>2, <1>4, <1>0, SumChange
<1>7. SumTo(k, MaxCall) = SumTo(h, MaxCall) + k[c] - h[c]
  BY ONLY <1>1, <1>3, <1>4a, <1>0, SumChange
<1>8. QED
  BY <1>5, <1>6, <1>7 DEF CommittedByCalls, ChargedByCalls, f, g, h, k

\* Tables that agree on the calls of a task have the same totals for it.
LEMMA SameTotals ==
    ASSUME NEW cs \in [Calls -> Call], NEW ds \in [Calls -> Call], NEW t,
           \A d \in Calls : /\ Commits(ds, t, d) = Commits(cs, t, d)
                            /\ Charges(ds, t, d) = Charges(cs, t, d)
    PROVE  /\ CommittedByCalls(ds, t) = CommittedByCalls(cs, t)
           /\ ChargedByCalls(ds, t) = ChargedByCalls(cs, t)
<1>1. [d \in Calls |-> Commits(ds, t, d)] = [d \in Calls |-> Commits(cs, t, d)]
  OBVIOUS
<1>2. [d \in Calls |-> Charges(ds, t, d)] = [d \in Calls |-> Charges(cs, t, d)]
  OBVIOUS
<1>3. QED
  BY <1>1, <1>2 DEF CommittedByCalls, ChargedByCalls

\* The amounts a step may leave alone.
SameAmounts ==
    /\ \A t \in Tasks :
          /\ task'[t].state = task[t].state
          /\ task'[t].mode = task[t].mode
          /\ task'[t].reserved = task[t].reserved
          /\ task'[t].committed = task[t].committed
          /\ task'[t].charged = task[t].charged
    /\ \A c \in Calls :
          /\ call'[c].state = call[c].state
          /\ call'[c].task = call[c].task
          /\ call'[c].bound = call[c].bound
          /\ call'[c].charged = call[c].charged

LEMMA QuietStep ==
    ASSUME MoneyInv, TypeOK', SameAmounts
    PROVE  MoneyInv'
<1>0. call \in [Calls -> Call] /\ call' \in [Calls -> Call]
  BY DEF MoneyInv, TypeOK
<1>1. CallsBelong' /\ ChargesBounded'
  BY DEF MoneyInv, CallsBelong, ChargesBounded, SameAmounts, Open
<1>2. ASSUME NEW t \in Tasks
      PROVE  /\ CommittedByCalls(call', t) = CommittedByCalls(call, t)
             /\ ChargedByCalls(call', t) = ChargedByCalls(call, t)
  <2>1. \A d \in Calls : /\ Commits(call', t, d) = Commits(call, t, d)
                         /\ Charges(call', t, d) = Charges(call, t, d)
    BY DEF SameAmounts, Commits, Charges
  <2>2. QED
    BY ONLY <1>0, <2>1, SameTotals
<1>3. CommitmentsAddUp'
  BY <1>2 DEF MoneyInv, CommitmentsAddUp, SameAmounts
<1>4. ChargedWithinReservation'
  BY <1>2 DEF MoneyInv, ChargedWithinReservation, SameAmounts, Started
<1>5. QED
  BY <1>1, <1>3, <1>4 DEF MoneyInv

\* One call of an open task moves, and its task's commitment with it.
LEMMA OneCallMoney ==
    ASSUME MoneyInv, TypeOK', NEW c \in Calls, NEW t \in Tasks,
           Open(t), task'[t].state = "open",
           task'[t].mode = task[t].mode, task'[t].reserved = task[t].reserved,
           \A u \in Tasks : u # t => task'[u] = task[u],
           \A d \in Calls : d # c => call'[d] = call[d],
           call[c].task = 0 \/ call[c].task = t,
           call'[c].task = t, call'[c].state # "none",
           call'[c].charged <= call'[c].bound,
           call'[c].state # "settled" => call'[c].charged = 0,
           task'[t].committed =
               task[t].committed + Commits(call', t, c) - Commits(call, t, c),
           task'[t].mode = "enforce" => task'[t].committed <= task'[t].reserved
    PROVE  MoneyInv'
<1>0. /\ call \in [Calls -> Call] /\ call' \in [Calls -> Call]
      /\ \A d \in Calls : d # c => call'[d] = call[d]
  BY DEF MoneyInv, TypeOK
<1>1. CommittedByCalls(call', t) =
          CommittedByCalls(call, t) + Commits(call', t, c) - Commits(call, t, c)
  BY ONLY <1>0, OneCallChanges, c \in Calls
<1>2. ASSUME NEW u \in Tasks, u # t
      PROVE  /\ CommittedByCalls(call', u) = CommittedByCalls(call, u)
             /\ ChargedByCalls(call', u) = ChargedByCalls(call, u)
  <2>0. u # 0
    BY DEF Tasks
  <2>1. \A d \in Calls : /\ Commits(call', u, d) = Commits(call, u, d)
                         /\ Charges(call', u, d) = Charges(call, u, d)
    BY <1>2, <2>0 DEF Commits, Charges
  <2>2. QED
    BY ONLY <1>0, <2>1, SameTotals
<1>3. CallsBelong' /\ ChargesBounded'
  <2>1. CallsBelong'
    BY DEF MoneyInv, CallsBelong, Open
  <2>2. QED
    BY <2>1 DEF MoneyInv, ChargesBounded
<1>4. CommitmentsAddUp'
  BY <1>1, <1>2 DEF MoneyInv, CommitmentsAddUp, Open
<1>5. ASSUME NEW u \in Tasks, u # t, task'[u].state = "settled"
      PROVE  /\ task'[u].charged = ChargedByCalls(call', u)
             /\ task'[u].charged = task'[u].committed
             /\ \A d \in Calls : call'[d].task = u => call'[d].state # "started"
  BY <1>2, <1>5 DEF MoneyInv, ChargedWithinReservation, Started
<1>6. \A u \in Tasks : task'[u].mode = "enforce" => task'[u].committed <= task'[u].reserved
  BY DEF MoneyInv, ChargedWithinReservation
<1>7. ChargedWithinReservation'
  BY <1>5, <1>6 DEF ChargedWithinReservation, Started
<1>8. QED
  BY <1>3, <1>4, <1>7 DEF MoneyInv

LEMMA SettleInMoney ==
    ASSUME MoneyInv, TypeOK', NEW t \in Tasks, NEW r \in Reason, Open(t), SettleIn(t, r)
    PROVE  MoneyInv'
<1>1. /\ call \in [Calls -> Call] /\ call' \in [Calls -> Call]
      /\ task \in [Tasks -> Task] /\ task' \in [Tasks -> Task]
  BY DEF MoneyInv, TypeOK
<1>2. \A c \in Calls : call'[c] = IF call[c].task = t /\ call[c].state = "started"
                                  THEN AfterACrash(call[c]) ELSE call[c]
  BY DEF SettleIn, SettleStartedCallsAfterACrash, Started
<1>3. ASSUME NEW c \in Calls
      PROVE  /\ call'[c].task = call[c].task
             /\ call'[c].bound = call[c].bound
             /\ call'[c].task = t => call'[c].state # "started"
             /\ call'[c].state = "none" <=> call[c].state = "none"
             /\ call'[c].state = "started" <=> call[c].task # t /\ call[c].state = "started"
             /\ call[c].task # t => call'[c] = call[c]
             /\ call'[c].charged <= call'[c].bound
             /\ call'[c].state # "settled" => call'[c].charged = 0
             /\ Commits(call', t, c) = Charges(call', t, c)
             /\ Commits(call', t, c) <= Commits(call, t, c)
  <2>1. call[c] \in Call /\ call[c].charged <= call[c].bound
        /\ (call[c].state # "settled" => call[c].charged = 0)
    BY <1>1 DEF MoneyInv, ChargesBounded
  <2>2. CASE call[c].task = t /\ call[c].state = "started"
    <3>1. /\ call'[c].state = "settled" /\ call'[c].task = t
          /\ call'[c].bound = call[c].bound
          /\ call'[c].charged \in 0 .. call[c].bound
      BY <1>2, <2>1, <2>2, AfterACrashFields
    <3>2. QED
      BY <2>1, <2>2, <3>1 DEF Commits, Charges, Call
  <2>3. CASE ~(call[c].task = t /\ call[c].state = "started")
    <3>1. call'[c] = call[c]
      BY <1>2, <2>3
    <3>2. QED
      BY <2>1, <2>3, <3>1 DEF Commits, Charges, Call
  <2>4. QED
    BY <2>2, <2>3
<1>4. CommittedByCalls(call', t) = ChargedByCalls(call', t)
  <2>1. [c \in Calls |-> Commits(call', t, c)] = [c \in Calls |-> Charges(call', t, c)]
    BY <1>3
  <2>2. QED
    BY <2>1 DEF CommittedByCalls, ChargedByCalls
<1>5. CommittedByCalls(call', t) <= CommittedByCalls(call, t)
  <2> DEFINE f == [c \in Calls |-> Commits(call', t, c)]
             g == [c \in Calls |-> Commits(call, t, c)]
  <2>1. IntsUpTo(f, MaxCall) /\ IntsUpTo(g, MaxCall)
    BY <1>1, AmountsAreInts
  <2>2. \A c \in 1 .. MaxCall : f[c] <= g[c]
    BY <1>3 DEF Calls
  <2> HIDE DEF f, g
  <2>3. SumTo(f, MaxCall) <= SumTo(g, MaxCall)
    BY ONLY <2>1, <2>2, SumMonotone, ConstantFacts
  <2>4. QED
    BY <2>3 DEF f, g, CommittedByCalls
<1>6. /\ task[t].committed = CommittedByCalls(call, t)
      /\ task[t].mode = "enforce" => task[t].committed <= task[t].reserved
  BY DEF MoneyInv, CommitmentsAddUp, ChargedWithinReservation, Open
<1>7. /\ task'[t].state = "settled"
      /\ task'[t].mode = task[t].mode
      /\ task'[t].reserved = task[t].reserved
      /\ task'[t].committed = CommittedByCalls(call', t)
      /\ task'[t].charged = ChargedByCalls(call', t)
  <2>1. task[t] \in Task
    BY <1>1
  <2> DEFINE m == IF call' = call THEN task[t].committed ELSE CommittedByCalls(call', t)
             n == ChargedByCalls(call', t)
  <2>2. m = CommittedByCalls(call', t)
    BY <1>6
  <2>3. task'[t] = [task[t] EXCEPT !.state = "settled", !.committed = m,
                                   !.charged = n, !.reason = r]
    BY <1>1 DEF SettleIn, MarkSettled
  <2> HIDE DEF m
  <2>4. QED
    BY <2>1, <2>2, <2>3 DEF Task
<1>8. \A u \in Tasks : u # t => task'[u] = task[u]
  BY <1>1 DEF SettleIn, MarkSettled
<1>9. ASSUME NEW u \in Tasks, u # t
      PROVE  /\ CommittedByCalls(call', u) = CommittedByCalls(call, u)
             /\ ChargedByCalls(call', u) = ChargedByCalls(call, u)
  <2>1. \A d \in Calls : /\ Commits(call', u, d) = Commits(call, u, d)
                         /\ Charges(call', u, d) = Charges(call, u, d)
    BY <1>3, <1>9 DEF Commits, Charges
  <2>2. QED
    BY ONLY <1>1, <2>1, SameTotals
<1>10. CallsBelong' /\ ChargesBounded'
  BY <1>3, <1>7, <1>8 DEF MoneyInv, CallsBelong, ChargesBounded, Open
<1>11. CommitmentsAddUp'
  BY <1>7, <1>8, <1>9 DEF MoneyInv, CommitmentsAddUp
<1>12. ChargedWithinReservation'
  <2>1. task'[t].mode = "enforce" => task'[t].committed <= task'[t].reserved
    <3>1. CommittedByCalls(call, t) \in Nat /\ CommittedByCalls(call', t) \in Nat
          /\ task[t].reserved \in Nat
      BY <1>1, TotalsType DEF Task
    <3>2. QED
      BY <1>5, <1>6, <1>7, <3>1
  <2>2. /\ task'[t].charged = ChargedByCalls(call', t)
        /\ task'[t].charged = task'[t].committed
        /\ \A c \in Calls : call'[c].task = t => call'[c].state # "started"
    BY <1>3, <1>4, <1>7
  <2>3. ASSUME NEW u \in Tasks, u # t
        PROVE  /\ task'[u].mode = "enforce" => task'[u].committed <= task'[u].reserved
               /\ task'[u].state = "settled" =>
                     /\ task'[u].charged = ChargedByCalls(call', u)
                     /\ task'[u].charged = task'[u].committed
                     /\ \A c \in Calls : call'[c].task = u => call'[c].state # "started"
    BY <1>3, <1>8, <1>9, <2>3 DEF MoneyInv, ChargedWithinReservation, Started
  <2>4. QED
    BY <2>1, <2>2, <2>3 DEF ChargedWithinReservation, Started
<1>13. QED
  BY <1>10, <1>11, <1>12 DEF MoneyInv

LEMMA ReserveMoney ==
    ASSUME MoneyInv, TypeOK', NEW p \in Procs, NEW t \in Tasks, Reserve(p, t)
    PROVE  MoneyInv'
<1>1. PICK mode \in {"enforce", "shadow"}, s \in 0 .. MaxSlots, r \in Nat :
          task' = [task EXCEPT ![t] = NewTask(p, mode, s, r)]
  BY DEF Reserve, InsertEnforceReservation, InsertShadowReservation
<1>2. /\ task'[t].state = "open" /\ task'[t].committed = 0 /\ task'[t].reserved \in Nat
      /\ \A u \in Tasks : u # t => task'[u] = task[u]
  BY <1>1 DEF NewTask, MoneyInv, TypeOK
<1>3. call' = call /\ task[t].state = "none" /\ t # 0
  BY DEF Reserve, NextTask, Tasks
<1>4. \A c \in Calls : call[c].task # t
  BY <1>3 DEF MoneyInv, CallsBelong
<1>5. CommittedByCalls(call, t) = 0
  BY <1>4, NoCallsNoTotals DEF MoneyInv, TypeOK
<1>6. CallsBelong' /\ ChargesBounded'
  <2>1. CallsBelong'
    BY <1>2, <1>3, <1>4 DEF MoneyInv, CallsBelong, Open
  <2>2. QED
    BY <1>3, <2>1 DEF MoneyInv, ChargesBounded
<1>7. CommitmentsAddUp'
  BY <1>2, <1>3, <1>5 DEF MoneyInv, CommitmentsAddUp
<1>8. ChargedWithinReservation'
  BY <1>2, <1>3 DEF MoneyInv, ChargedWithinReservation, Started
<1>9. QED
  BY <1>6, <1>7, <1>8 DEF MoneyInv

LEMMA AdmitCallMoney ==
    ASSUME MoneyInv, TypeOK', NEW p \in Procs, NEW t \in Tasks, NEW c \in Calls,
           AdmitCall(p, t, c)
    PROVE  MoneyInv'
<1>1. PICK b \in Bounds :
          /\ Admissible(t, b)
          /\ CommitCallBound(t, b)
          /\ call' = [call EXCEPT ![c] = [NoCall EXCEPT !.state = "started",
                                                        !.task = t, !.bound = b]]
  BY DEF AdmitCall
<1>2. /\ task \in [Tasks -> Task] /\ call \in [Calls -> Call]
      /\ task[t].committed \in Int /\ task[t].reserved \in Nat /\ b \in Nat
  BY DEF MoneyInv, TypeOK, Task
<1>3. /\ call'[c].state = "started" /\ call'[c].task = t /\ call'[c].bound = b
      /\ call'[c].charged = 0
      /\ \A d \in Calls : d # c => call'[d] = call[d]
  BY <1>1, <1>2 DEF NoCall
<1>4. /\ task'[t].state = task[t].state
      /\ task'[t].mode = task[t].mode
      /\ task'[t].reserved = task[t].reserved
      /\ task'[t].committed = task[t].committed + b
      /\ \A u \in Tasks : u # t => task'[u] = task[u]
  BY <1>1, <1>2 DEF CommitCallBound, Task
<1>5. call[c].state = "none" /\ call[c].task = 0 /\ t # 0
  BY DEF AdmitCall, NextCall, MoneyInv, CallsBelong, Tasks
<1>6. Commits(call', t, c) = b /\ Commits(call, t, c) = 0
  BY <1>3, <1>5 DEF Commits
<1>7. Open(t) /\ (task[t].mode = "enforce" => task[t].committed + b <= task[t].reserved)
  BY <1>1 DEF Admissible
<1>8. task'[t].committed = task[t].committed + Commits(call', t, c) - Commits(call, t, c)
  BY <1>2, <1>4, <1>6
<1>9. /\ task'[t].state = "open"
      /\ call'[c].charged <= call'[c].bound
      /\ call'[c].state # "none" /\ call'[c].state # "settled"
      /\ task'[t].mode = "enforce" => task'[t].committed <= task'[t].reserved
  BY <1>2, <1>3, <1>4, <1>7 DEF Open
<1>10. QED
  BY <1>3, <1>4, <1>5, <1>7, <1>8, <1>9, OneCallMoney

LEMMA SettleCallMoney ==
    ASSUME MoneyInv, TypeOK', NEW p \in Procs, NEW c \in Calls, SettleCall(p, c)
    PROVE  MoneyInv'
<1>0. /\ task \in [Tasks -> Task] /\ call \in [Calls -> Call] /\ call[c] \in Call
      /\ call[c].bound \in Nat /\ call[c].charged \in Nat /\ call[c].sent \in BOOLEAN
  BY DEF MoneyInv, TypeOK, Call
<1>1. CASE UNCHANGED rows
  BY <1>1, QuietStep DEF SameAmounts, rows
<1>2. ASSUME NEW asked \in AskedBasis(c), NEW cost \in Costs, NEW basis, NEW charge,
             basis = BasisTheRowAgreesWith(asked, call[c].sent),
             charge = CallSettlement(basis, call[c].bound, cost),
             Started(c),
             SettleOneCall(c, basis, charge),
             ReleaseCommittedBound(call[c].task, call[c].bound, charge)
      PROVE  MoneyInv'
  <2>0. PICK t \in Tasks : t = call[c].task /\ Open(t)
    BY <1>2 DEF MoneyInv, CallsBelong, Started
  <2>1. charge \in 0 .. call[c].bound
    <3>1. asked \in Basis /\ cost \in Nat
      BY DEF AskedBasis, Basis
    <3>2. QED
      BY ONLY <1>0, <1>2, <3>1, SettlementBounded
  <2>2. /\ call'[c].state = "settled" /\ call'[c].task = t
        /\ call'[c].bound = call[c].bound /\ call'[c].charged = charge
        /\ \A d \in Calls : d # c => call'[d] = call[d]
    BY <1>0, <1>2, <2>0 DEF SettleOneCall, Call
  <2>3. /\ task[t].committed \in Int /\ task[t].reserved \in Nat
        /\ task[t].mode = "enforce" => task[t].committed <= task[t].reserved
    BY <1>0 DEF MoneyInv, ChargedWithinReservation, Task
  <2>4. /\ task'[t].state = task[t].state
        /\ task'[t].mode = task[t].mode
        /\ task'[t].reserved = task[t].reserved
        /\ task'[t].committed = task[t].committed - call[c].bound + charge
        /\ \A u \in Tasks : u # t => task'[u] = task[u]
    BY <1>0, <1>2, <2>0 DEF ReleaseCommittedBound, Task
  <2>5. Commits(call', t, c) = charge /\ Commits(call, t, c) = call[c].bound
    BY <1>2, <2>0, <2>2 DEF Commits, Started
  <2>6. task'[t].committed = task[t].committed + Commits(call', t, c) - Commits(call, t, c)
    BY <1>0, <2>1, <2>3, <2>4, <2>5
  <2>7. /\ task'[t].state = "open"
        /\ call'[c].charged <= call'[c].bound
        /\ task'[t].mode = "enforce" => task'[t].committed <= task'[t].reserved
    BY <1>0, <2>0, <2>1, <2>2, <2>3, <2>4 DEF Open
  <2>8. QED
    BY <2>0, <2>2, <2>4, <2>6, <2>7, OneCallMoney
<1>3. QED
  BY <1>1, <1>2 DEF SettleCall, rows

LEMMA MoneyInductive == MoneyInv /\ [Next]_vars => MoneyInv'
<1> SUFFICES ASSUME MoneyInv, [Next]_vars PROVE MoneyInv'
  OBVIOUS
<1>0. TypeOK /\ TypeOK'
  BY TypeInductive DEF MoneyInv
<1>1. CASE UNCHANGED rows
  BY <1>0, <1>1, QuietStep DEF SameAmounts, rows
<1>2. ASSUME NEW t \in Tasks, NEW r \in Reason, SettleIn(t, r) PROVE MoneyInv'
  BY <1>0, <1>1, <1>2, SettleInMoney DEF SettleIn
<1>3. ASSUME call' = call,
             \A t \in Tasks : \/ task'[t] = task[t]
                              \/ \E n \in Nat : task'[t] = [task[t] EXCEPT !.lease = n]
      PROVE  MoneyInv'
  <2>1. \A t \in Tasks : task[t] \in Task
    BY <1>0 DEF TypeOK
  <2>a. ASSUME NEW t \in Tasks
        PROVE  /\ task'[t].state = task[t].state
               /\ task'[t].mode = task[t].mode
               /\ task'[t].reserved = task[t].reserved
               /\ task'[t].committed = task[t].committed
               /\ task'[t].charged = task[t].charged
    <3>1. CASE task'[t] = task[t]
      BY <3>1
    <3>2. ASSUME NEW n \in Nat, task'[t] = [task[t] EXCEPT !.lease = n]
          PROVE  /\ task'[t].state = task[t].state
                 /\ task'[t].mode = task[t].mode
                 /\ task'[t].reserved = task[t].reserved
                 /\ task'[t].committed = task[t].committed
                 /\ task'[t].charged = task[t].charged
      BY <2>1, <3>2 DEF Task
    <3>3. QED
      BY <1>3, <3>1, <3>2
  <2>2. SameAmounts
    BY <1>3, <2>a DEF SameAmounts
  <2>3. QED
    BY <1>0, <2>2, QuietStep
<1>4. ASSUME NEW p \in Procs, Heartbeat(p) PROVE MoneyInv'
  <2>1. now + Lease \in Nat
    BY <1>0 DEF TypeOK
  <2>2. QED
    BY <1>3, <1>4, <2>1 DEF Heartbeat
<1>5. ASSUME NEW p \in Procs, ReleaseOwnLeases(p) PROVE MoneyInv'
  <2>1. now \in Nat
    BY <1>0 DEF TypeOK
  <2>2. QED
    BY <1>3, <1>5, <2>1 DEF ReleaseOwnLeases
<1>6. ASSUME NEW p \in Procs, NEW c \in Calls, MarkSent(p, c) PROVE MoneyInv'
  <2>1. task' = task /\ (call' = call \/ call' = [call EXCEPT ![c].sent = TRUE])
    BY <1>6 DEF MarkSent, MarkCallSent
  <2>2. SameAmounts
    BY <1>0, <2>1 DEF SameAmounts, TypeOK, Call
  <2>3. QED
    BY <1>0, <2>2, QuietStep
<1>7. ASSUME NEW p \in Procs, NEW t \in Tasks, EndTurn(p, t) PROVE MoneyInv'
  BY <1>1, <1>2, <1>7 DEF EndTurn, Reason
<1>8. ASSUME NEW p \in Procs, NEW t \in Tasks, SettleOneLapsed(p, t) PROVE MoneyInv'
  BY <1>1, <1>2, <1>8 DEF SettleOneLapsed, LapsedReason, Reason
<1>9. CASE UNCHANGED vars \/ Advance
  BY <1>1, <1>9 DEF vars, rows, Advance
<1>10. ASSUME NEW p \in Procs, Boot(p) \/ Crash(p) \/ LapsedReservations(p) PROVE MoneyInv'
  BY <1>1, <1>10 DEF Boot, Crash, LapsedReservations, rows
<1>11. ASSUME NEW p \in Procs, NEW c \in Calls, Fetch(p, c) PROVE MoneyInv'
  BY <1>1, <1>11 DEF Fetch, rows
<1>12. QED
  BY <1>0, <1>4, <1>5, <1>6, <1>7, <1>8, <1>9, <1>10, <1>11,
     ReserveMoney, AdmitCallMoney, SettleCallMoney DEF Next

LEMMA MoneyInit == Init => MoneyInv
<1> SUFFICES ASSUME Init PROVE MoneyInv
  OBVIOUS
<1>1. TypeOK
  BY NoRowsType DEF Init, TypeOK, Attempt
<1>2. \A t \in Tasks : task[t].state = "none" /\ task[t].committed = 0 /\ task[t].reserved = 0
  BY DEF Init, NoTask
<1>3. \A c \in Calls : call[c] = NoCall
  BY DEF Init
<1>4. CallsBelong /\ ChargesBounded
  BY <1>3 DEF CallsBelong, ChargesBounded, NoCall
<1>5. QED
  BY <1>1, <1>2, <1>4 DEF MoneyInv, CommitmentsAddUp, ChargedWithinReservation

\* The inductive invariant behind the two theorems that follow holds throughout.
THEOREM MoneyInvariant == Spec => []MoneyInv
BY MoneyInit, MoneyInductive, PTL DEF Spec

\* A task's committed_micro is the sum of what its calls commit, however
\* admissions, settlements, crashes and sweeps interleave.
THEOREM CommitmentsAlwaysAddUp == Spec => []CommitmentsAddUp
<1>1. MoneyInv => CommitmentsAddUp
  BY DEF MoneyInv
<1>2. QED
  BY <1>1, MoneyInvariant, PTL

\* An enforced task never costs more than it reserved, and a settled task is
\* charged exactly what its calls were charged.
THEOREM AlwaysChargedWithinReservation == Spec => []ChargedWithinReservation
<1>1. MoneyInv => ChargedWithinReservation
  BY DEF MoneyInv
<1>2. QED
  BY <1>1, MoneyInvariant, PTL

\* The money of a task adds up in every interleaving of calls, crash
\* settlements and late settlements.
THEOREM MoneyAlwaysAddsUp == Spec => []MoneyAddsUp
BY CommitmentsAlwaysAddUp, AlwaysChargedWithinReservation, PTL DEF MoneyAddsUp

-----------------------------------------------------------------------------
(* Finality *)

\* Rows that are settled are not written again: not by an owner that settles
\* late, not by a heartbeat that read its task before, not by a second sweep.
THEOREM SettledStaysFinal == Spec => SettledIsFinal
<1> DEFINE Final == /\ \A t \in Tasks : task[t].state = "settled" => task'[t] = task[t]
                    /\ \A c \in Calls : call[c].state = "settled" => call'[c] = call[c]
<1>1. TypeOK /\ [Next]_vars => [Final]_vars
  <2> SUFFICES ASSUME TypeOK, Next PROVE Final
    OBVIOUS
  <2>0. task \in [Tasks -> Task] /\ call \in [Calls -> Call]
    BY DEF TypeOK
  <2>1. CASE UNCHANGED rows
    BY <2>1 DEF rows
  <2>2. ASSUME NEW t \in Tasks, NEW r, SettleIn(t, r) PROVE Final
    BY <2>0, <2>1, <2>2
       DEF SettleIn, SettleStartedCallsAfterACrash, MarkSettled, Open, Started
  <2>3. ASSUME NEW p \in Procs, NEW t \in Tasks, Reserve(p, t) PROVE Final
    BY <2>0, <2>3
       DEF Reserve, InsertEnforceReservation, InsertShadowReservation, NextTask
  <2>4. ASSUME NEW p \in Procs, NEW t \in Tasks, NEW c \in Calls, AdmitCall(p, t, c)
        PROVE  Final
    BY <2>0, <2>4 DEF AdmitCall, NextCall, Admissible, CommitCallBound, Open
  <2>5. ASSUME NEW p \in Procs, NEW c \in Calls, MarkSent(p, c) PROVE Final
    BY <2>0, <2>5 DEF MarkSent, MarkCallSent, Started
  <2>6. ASSUME NEW p \in Procs, NEW c \in Calls, SettleCall(p, c) PROVE Final
    BY <2>0, <2>1, <2>6
       DEF SettleCall, SettleOneCall, ReleaseCommittedBound, Started, Open, rows
  <2>7. ASSUME NEW p \in Procs, Heartbeat(p) PROVE Final
    BY <2>0, <2>7 DEF Heartbeat, Renewable, Open
  <2>8. ASSUME NEW p \in Procs, ReleaseOwnLeases(p) PROVE Final
    BY <2>0, <2>8 DEF ReleaseOwnLeases, Open
  <2>9. ASSUME NEW p \in Procs, NEW t \in Tasks, EndTurn(p, t) \/ SettleOneLapsed(p, t)
        PROVE  Final
    BY <2>1, <2>2, <2>9 DEF EndTurn, SettleOneLapsed
  <2>10. ASSUME NEW p \in Procs,
                Boot(p) \/ Crash(p) \/ LapsedReservations(p) \/ \E c \in Calls : Fetch(p, c)
         PROVE  Final
    BY <2>1, <2>10 DEF Boot, Crash, LapsedReservations, Fetch, rows
  <2>11. CASE Advance
    BY <2>1, <2>11 DEF Advance
  <2>12. QED
    BY <2>3, <2>4, <2>5, <2>6, <2>7, <2>8, <2>9, <2>10, <2>11 DEF Next
<1>2. QED
  BY <1>1, TypeCorrect, PTL DEF Spec, SettledIsFinal

-----------------------------------------------------------------------------
(* Slots *)

\* A step that inserts no task leaves the open enforced tasks and their slots
\* alone, or closes some.
LEMMA SlotsKept ==
    ASSUME SlotsAreExclusive,
           \A t \in Tasks : task'[t].state = "open" =>
               /\ task[t].state = "open"
               /\ task'[t].mode = task[t].mode
               /\ task'[t].slot = task[t].slot
    PROVE  SlotsAreExclusive'
BY DEF SlotsAreExclusive, OpenEnforce, Open

LEMMA SlotsInductive == TypeOK /\ SlotsAreExclusive /\ [Next]_vars => SlotsAreExclusive'
<1> SUFFICES ASSUME TypeOK, SlotsAreExclusive, [Next]_vars PROVE SlotsAreExclusive'
  OBVIOUS
<1> DEFINE Kept == \A t \in Tasks : task'[t].state = "open" =>
               /\ task[t].state = "open"
               /\ task'[t].mode = task[t].mode
               /\ task'[t].slot = task[t].slot
<1>0. task \in [Tasks -> Task]
  BY DEF TypeOK
<1>1. Kept => SlotsAreExclusive'
  BY SlotsKept
<1>2. CASE UNCHANGED task
  BY <1>1, <1>2
<1>3. ASSUME NEW t \in Tasks, NEW r, SettleIn(t, r) PROVE Kept
  <2>1. CASE UNCHANGED rows
    BY <2>1 DEF rows
  <2>2. CASE MarkSettled(t, r)
    <3>1. task'[t].state = "settled" /\ \A u \in Tasks : u # t => task'[u] = task[u]
      <4> DEFINE m == IF call' = call THEN task[t].committed ELSE CommittedByCalls(call', t)
                 n == ChargedByCalls(call', t)
      <4>1. task' = [task EXCEPT ![t] = [task[t] EXCEPT !.state = "settled", !.committed = m,
                                            !.charged = n, !.reason = r]]
        BY <2>2, Zenon DEF MarkSettled
      <4> HIDE DEF m, n
      <4>2. QED
        BY <1>0, <4>1 DEF Task
    <3>2. QED
      BY <3>1
  <2>3. QED
    BY <1>3, <2>1, <2>2 DEF SettleIn
<1>4. ASSUME NEW p \in Procs, NEW t \in Tasks, Reserve(p, t) PROVE SlotsAreExclusive'
  <2>1. \A u \in Tasks : u # t => task'[u] = task[u]
    BY <1>0, <1>4 DEF Reserve, InsertEnforceReservation, InsertShadowReservation
  <2>2. CASE \E r : InsertShadowReservation(p, t, r)
    <3>1. task'[t].mode = "shadow"
      BY <1>0, <2>2 DEF InsertShadowReservation, NewTask
    <3>2. QED
      BY <2>1, <3>1 DEF SlotsAreExclusive, OpenEnforce, Open
  <2>3. CASE \E r : InsertEnforceReservation(p, t, r)
    <3>1. PICK s \in 1 .. MaxSlots : FreeSlot(s) /\ task'[t].slot = s
      BY <1>0, <2>3 DEF InsertEnforceReservation, NewTask
    <3>2. QED
      BY <2>1, <3>1 DEF FreeSlot, SlotsAreExclusive, OpenEnforce, Open
  <2>4. QED
    BY <1>4, <2>2, <2>3 DEF Reserve
<1>5. ASSUME NEW p \in Procs, NEW t \in Tasks, NEW c \in Calls, AdmitCall(p, t, c)
      PROVE  Kept
  <2>1. PICK b \in Bounds :
            task' = [task EXCEPT ![t].committed = @ + b, ![t].lease = Later(@, now + Lease)]
    BY <1>5 DEF AdmitCall, CommitCallBound
  <2>2. QED
    BY <1>0, <2>1 DEF Task
<1>6. ASSUME NEW p \in Procs, NEW c \in Calls, SettleCall(p, c) PROVE Kept
  <2>1. \/ task' = task
        \/ \E t, m : task' = [task EXCEPT ![t].committed = m]
    BY <1>6 DEF SettleCall, ReleaseCommittedBound, rows
  <2>2. QED
    BY <1>0, <2>1 DEF Task
<1>7. ASSUME NEW p \in Procs, Heartbeat(p) PROVE Kept
  BY <1>0, <1>7 DEF Heartbeat, Task
<1>8. ASSUME NEW p \in Procs, ReleaseOwnLeases(p) PROVE Kept
  BY <1>0, <1>8 DEF ReleaseOwnLeases, Task
<1>9. ASSUME NEW p \in Procs, NEW t \in Tasks, EndTurn(p, t) \/ SettleOneLapsed(p, t)
      PROVE  SlotsAreExclusive'
  <2>1. task' = task \/ \E r : SettleIn(t, r)
    BY <1>9 DEF EndTurn, SettleOneLapsed, rows
  <2>2. QED
    BY <1>1, <1>2, <1>3, <2>1
<1>10. CASE UNCHANGED vars \/ Advance
  BY <1>2, <1>10 DEF vars, Advance, rows
<1>11. ASSUME NEW p \in Procs, Boot(p) \/ Crash(p) \/ LapsedReservations(p)
       PROVE  SlotsAreExclusive'
  BY <1>2, <1>11 DEF Boot, Crash, LapsedReservations, rows
<1>12. ASSUME NEW p \in Procs, NEW c \in Calls, Fetch(p, c) \/ MarkSent(p, c)
       PROVE  SlotsAreExclusive'
  BY <1>2, <1>12 DEF Fetch, MarkSent, rows
<1> HIDE DEF Kept
<1>13. QED
  BY <1>1, <1>4, <1>5, <1>6, <1>7, <1>8, <1>9, <1>10, <1>11, <1>12 DEF Next

\* Two enforced tasks in flight never hold the same slot, although the one
\* that frees a slot may be any process's keeper.
THEOREM SlotsStayExclusive == Spec => []SlotsAreExclusive
<1>1. Init => SlotsAreExclusive
  BY DEF Init, SlotsAreExclusive, OpenEnforce, Open, NoTask
<1>2. QED
  BY <1>1, SlotsInductive, TypeCorrect, PTL DEF Spec

-----------------------------------------------------------------------------
(***************************************************************************)
(* Leases.  The keeper's promise needs heartbeats no further apart than a  *)
(* lease is long.  What carries it: a task in a live set belongs to that   *)
(* process, and its lease reaches past the process's next heartbeat or     *)
(* past the task's ceiling (after the ceiling heartbeats renew nothing).   *)
(***************************************************************************)
LiveSetsOwned ==
    \A p \in Procs :
        /\ \A t \in live[p] : task[t].owner = p /\ task[t].state # "none"
        /\ proc[p] = "unborn" => live[p] = {}

BeatsOnTime ==
    \A p \in Procs : proc[p] = "up" => beat[p] <= now /\ now <= beat[p] + BeatGap

LeasesReach ==
    \A p \in Procs : \A t \in live[p] :
        proc[p] = "up" /\ Open(t) =>
            task[t].lease >= beat[p] + Lease \/ task[t].lease >= task[t].until

LeaseInv == TypeOK /\ LiveSetsOwned /\ BeatsOnTime /\ LeasesReach

\* A step that neither beats, nor reserves, nor ends a process, and shortens no
\* lease.
LEMMA LeasesKept ==
    ASSUME LeaseInv, TypeOK', proc' = proc, beat' = beat, now' = now,
           \A p \in Procs : live'[p] \subseteq live[p],
           \A t \in Tasks :
              /\ task'[t].owner = task[t].owner
              /\ task'[t].until = task[t].until
              /\ task'[t].lease >= task[t].lease
              /\ task[t].state # "none" => task'[t].state # "none"
              /\ task'[t].state = "open" => task[t].state = "open"
    PROVE  LeaseInv'
<1>1. LiveSetsOwned' /\ BeatsOnTime'
  BY DEF LeaseInv, TypeOK, LiveSetsOwned, BeatsOnTime
<1>2. ASSUME NEW p \in Procs, NEW t \in live'[p], proc'[p] = "up", Open(t)'
      PROVE  task'[t].lease >= beat'[p] + Lease \/ task'[t].lease >= task'[t].until
  <2>1. t \in live[p] /\ t \in Tasks /\ proc[p] = "up" /\ Open(t)
    BY <1>2 DEF LeaseInv, TypeOK, Open
  <2>2. task[t].lease >= beat[p] + Lease \/ task[t].lease >= task[t].until
    BY <2>1 DEF LeaseInv, LeasesReach
  <2>3. /\ task[t].lease \in Nat /\ task'[t].lease \in Nat /\ task[t].until \in Nat
        /\ beat[p] \in Nat
    BY <2>1 DEF LeaseInv, TypeOK, Task
  <2>4. task'[t].lease >= task[t].lease /\ task'[t].until = task[t].until
    BY <2>1
  <2>5. QED
    BY <2>2, <2>3, <2>4
<1>3. QED
  BY <1>1, <1>2 DEF LeaseInv, LeasesReach

\* What settling a task keeps of every task.
LEMMA SettleInLeases ==
    ASSUME task \in [Tasks -> Task], NEW t \in Tasks, NEW r, SettleIn(t, r)
    PROVE  \A u \in Tasks :
              /\ task'[u].owner = task[u].owner
              /\ task'[u].mode = task[u].mode
              /\ task'[u].until = task[u].until
              /\ task'[u].lease = task[u].lease
              /\ task[u].state # "none" => task'[u].state # "none"
              /\ task'[u].state = "open" => task[u].state = "open"
<1>1. CASE UNCHANGED rows
  BY <1>1 DEF rows
<1>2. CASE MarkSettled(t, r)
  <2> DEFINE m == IF call' = call THEN task[t].committed ELSE CommittedByCalls(call', t)
             n == ChargedByCalls(call', t)
  <2>1. task' = [task EXCEPT ![t] = [task[t] EXCEPT !.state = "settled", !.committed = m,
                                        !.charged = n, !.reason = r]]
    BY <1>2, Zenon DEF MarkSettled
  <2> HIDE DEF m, n
  <2>2. QED
    BY <2>1 DEF Task
<1>3. QED
  BY <1>1, <1>2 DEF SettleIn

LEMMA LeaseInductive ==
    ASSUME BeatGap <= Lease
    PROVE  LeaseInv /\ [Next]_vars => LeaseInv'
<1> SUFFICES ASSUME LeaseInv, [Next]_vars PROVE LeaseInv'
  OBVIOUS
<1>0. TypeOK /\ TypeOK'
  BY TypeInductive DEF LeaseInv
<1>a. /\ task \in [Tasks -> Task] /\ now \in Nat
      /\ \A t \in Tasks : task[t].lease \in Nat /\ task[t].until \in Nat
      /\ \A p \in Procs : beat[p] \in Nat /\ live[p] \subseteq Tasks
  BY <1>0 DEF TypeOK, Task
<1> DEFINE Quiet == /\ proc' = proc /\ beat' = beat /\ now' = now
                    /\ \A p \in Procs : live'[p] \subseteq live[p]
           Kept(t) == /\ task'[t].owner = task[t].owner
                      /\ task'[t].until = task[t].until
                      /\ task'[t].lease >= task[t].lease
                      /\ task[t].state # "none" => task'[t].state # "none"
                      /\ task'[t].state = "open" => task[t].state = "open"
<1>1. Quiet /\ (\A t \in Tasks : Kept(t)) => LeaseInv'
  BY <1>0, LeasesKept
<1>2. task' = task => \A t \in Tasks : Kept(t)
  BY <1>a
<1>3. CASE UNCHANGED vars
  BY <1>1, <1>2, <1>3 DEF vars
<1>4. CASE Advance
  <2>1. BeatsOnTime'
    BY <1>4, <1>a DEF Advance, LeaseInv, BeatsOnTime
  <2>2. LiveSetsOwned' /\ LeasesReach'
    BY <1>4 DEF Advance, rows, LeaseInv, LiveSetsOwned, LeasesReach, Open
  <2>3. QED
    BY <1>0, <2>1, <2>2 DEF LeaseInv
<1>5. ASSUME NEW q \in Procs, Boot(q) PROVE LeaseInv'
  <2>1. /\ proc[q] = "unborn" /\ live' = live /\ task' = task /\ now' = now
        /\ proc'[q] = "up" /\ beat'[q] = now
        /\ \A p \in Procs : p # q => proc'[p] = proc[p] /\ beat'[p] = beat[p]
    BY <1>0, <1>5 DEF Boot, rows, TypeOK
  <2>2. live[q] = {}
    BY <2>1 DEF LeaseInv, LiveSetsOwned
  <2>3. LiveSetsOwned'
    BY <2>1, <2>2 DEF LeaseInv, LiveSetsOwned
  <2>4. BeatsOnTime'
    BY <1>a, <2>1 DEF LeaseInv, BeatsOnTime
  <2>5. LeasesReach'
    BY <2>1, <2>2 DEF LeaseInv, LeasesReach, Open
  <2>6. QED
    BY <1>0, <2>3, <2>4, <2>5 DEF LeaseInv
<1>6. ASSUME NEW q \in Procs, Crash(q) PROVE LeaseInv'
  <2>1. /\ live'[q] = {} /\ task' = task /\ now' = now /\ proc'[q] = "gone"
        /\ \A p \in Procs : p # q =>
              proc'[p] = proc[p] /\ beat'[p] = beat[p] /\ live'[p] = live[p]
    BY <1>0, <1>6 DEF Crash, rows, TypeOK
  <2>2. QED
    BY <1>0, <2>1 DEF LeaseInv, LiveSetsOwned, BeatsOnTime, LeasesReach, Open
<1>7. ASSUME NEW q \in Procs, Heartbeat(q) PROVE LeaseInv'
  <2>1. /\ proc' = proc /\ live' = live /\ now' = now /\ beat'[q] = now
        /\ \A p \in Procs : p # q => beat'[p] = beat[p]
    BY <1>0, <1>7 DEF Heartbeat, TypeOK
  <2>2. \A t \in Tasks : /\ task'[t].owner = task[t].owner
                         /\ task'[t].until = task[t].until
                         /\ task'[t].state = task[t].state
                         /\ task'[t].lease = IF Renewable(q, t) THEN now + Lease
                                             ELSE task[t].lease
    BY <1>7, <1>a DEF Heartbeat, Task
  <2>3. LiveSetsOwned' /\ BeatsOnTime'
    <3>1. LiveSetsOwned'
      BY <1>a, <2>1, <2>2 DEF LeaseInv, LiveSetsOwned
    <3>2. BeatsOnTime'
      BY <1>a, <2>1 DEF LeaseInv, BeatsOnTime
    <3>3. QED
      BY <3>1, <3>2
  <2>4. ASSUME NEW p \in Procs, NEW t \in live'[p], proc'[p] = "up", Open(t)'
        PROVE  task'[t].lease >= beat'[p] + Lease \/ task'[t].lease >= task'[t].until
    <3>1. /\ t \in live[p] /\ t \in Tasks /\ proc[p] = "up" /\ Open(t)
          /\ task[t].owner = p
      BY <1>a, <2>1, <2>2, <2>4 DEF LeaseInv, LiveSetsOwned, Open
    <3>2. /\ task[t].lease >= beat[p] + Lease \/ task[t].lease >= task[t].until
          /\ beat[p] <= now
      BY <3>1 DEF LeaseInv, LeasesReach, BeatsOnTime
    <3>3. CASE p # q
      <4>1. ~Renewable(q, t)
        BY <3>1, <3>3 DEF Renewable
      <4>2. task'[t].lease = task[t].lease /\ task'[t].until = task[t].until /\ beat'[p] = beat[p]
        BY <2>1, <2>2, <3>1, <3>3, <4>1
      <4>3. QED
        BY <3>2, <4>2
    <3>4. CASE p = q /\ now < task[t].until
      <4>1. Renewable(q, t)
        BY <3>1, <3>4 DEF Renewable
      <4>2. task'[t].lease = now + Lease /\ beat'[p] = now
        BY <2>1, <2>2, <3>1, <3>4, <4>1
      <4>3. QED
        BY <1>a, <4>2
    <3>5. CASE p = q /\ ~(now < task[t].until)
      <4>1. ~Renewable(q, t)
        BY <3>5 DEF Renewable
      <4>2. /\ task'[t].lease = task[t].lease /\ task'[t].until = task[t].until
            /\ task[t].lease \in Nat /\ task[t].until \in Nat /\ beat[p] \in Nat
        BY <1>a, <2>2, <3>1, <4>1
      <4>3. now <= beat[p] + BeatGap
        BY <3>1 DEF LeaseInv, BeatsOnTime
      <4>4. QED
        BY <1>a, <3>2, <3>5, <4>2, <4>3
    <3>6. QED
      BY <3>3, <3>4, <3>5
  <2>5. QED
    BY <1>0, <2>3, <2>4 DEF LeaseInv, LeasesReach
<1>8. ASSUME NEW q \in Procs, ReleaseOwnLeases(q) PROVE LeaseInv'
  <2>1. /\ proc'[q] = "draining" /\ live' = live /\ now' = now /\ beat' = beat
        /\ \A p \in Procs : p # q => proc'[p] = proc[p]
    BY <1>0, <1>8 DEF ReleaseOwnLeases, TypeOK
  <2>2. \A t \in Tasks : /\ task'[t].owner = task[t].owner
                         /\ task'[t].until = task[t].until
                         /\ task'[t].state = task[t].state
                         /\ task[t].owner # q => task'[t].lease = task[t].lease
    BY <1>8, <1>a DEF ReleaseOwnLeases, Task
  <2>3. LiveSetsOwned'
    BY <1>a, <2>1, <2>2 DEF LeaseInv, LiveSetsOwned
  <2>4. BeatsOnTime'
    BY <2>1 DEF LeaseInv, BeatsOnTime
  <2>5. LeasesReach'
    BY <1>a, <2>1, <2>2 DEF LeaseInv, LiveSetsOwned, LeasesReach, Open
  <2>6. QED
    BY <1>0, <2>3, <2>4, <2>5 DEF LeaseInv
<1>9. ASSUME NEW q \in Procs, NEW t \in Tasks, Reserve(q, t) PROVE LeaseInv'
  <2>1. PICK mode, s, r : task' = [task EXCEPT ![t] = NewTask(q, mode, s, r)]
    BY <1>9 DEF Reserve, InsertEnforceReservation, InsertShadowReservation
  <2>2. /\ task'[t].owner = q /\ task'[t].state = "open" /\ task'[t].lease = now + Lease
        /\ \A u \in Tasks : u # t => task'[u] = task[u]
    BY <1>a, <2>1 DEF NewTask
  <2>3. /\ proc[q] = "up" /\ task[t].state = "none"
        /\ proc' = proc /\ beat' = beat /\ now' = now
        /\ live'[q] \subseteq live[q] \cup {t}
        /\ \A p \in Procs : p # q => live'[p] = live[p]
    BY <1>0, <1>9 DEF Reserve, NextTask, TypeOK
  <2>4. \A p \in Procs : t \notin live[p]
    BY <2>3 DEF LeaseInv, LiveSetsOwned
  <2>5. LiveSetsOwned'
    BY <1>a, <2>2, <2>3, <2>4 DEF LeaseInv, LiveSetsOwned
  <2>6. BeatsOnTime'
    BY <2>3 DEF LeaseInv, BeatsOnTime
  <2>7. now + Lease >= beat[q] + Lease
    BY <1>a, <2>3 DEF LeaseInv, BeatsOnTime
  <2>8. LeasesReach'
    BY <1>a, <2>2, <2>3, <2>4, <2>7 DEF LeaseInv, LeasesReach, Open
  <2>9. QED
    BY <1>0, <2>5, <2>6, <2>8 DEF LeaseInv
<1>10. ASSUME NEW q \in Procs, NEW t \in Tasks, EndTurn(q, t) \/ SettleOneLapsed(q, t)
       PROVE  LeaseInv'
  <2>1. task' = task \/ \E r : SettleIn(t, r)
    BY <1>10 DEF EndTurn, SettleOneLapsed, rows
  <2>2. \A u \in Tasks : Kept(u)
    BY <1>2, <1>a, <2>1, SettleInLeases
  <2>3. Quiet
    BY <1>0, <1>10 DEF EndTurn, SettleOneLapsed, TypeOK
  <2>4. QED
    BY <1>1, <2>2, <2>3
<1>11. ASSUME NEW q \in Procs, NEW t \in Tasks, NEW c \in Calls, AdmitCall(q, t, c)
       PROVE  LeaseInv'
  <2>1. PICK b \in Bounds :
            task' = [task EXCEPT ![t].committed = @ + b, ![t].lease = Later(@, now + Lease)]
    BY <1>11 DEF AdmitCall, CommitCallBound
  <2>2. Later(task[t].lease, now + Lease) >= task[t].lease
    BY <1>a DEF Later
  <2>3. \A u \in Tasks : Kept(u)
    <3>1. /\ task'[t].owner = task[t].owner
          /\ task'[t].until = task[t].until
          /\ task'[t].lease = Later(task[t].lease, now + Lease)
          /\ task'[t].state = task[t].state
          /\ \A u \in Tasks : u # t => task'[u] = task[u]
      BY <1>a, <2>1 DEF Task
    <3>2. QED
      BY <1>a, <2>2, <3>1
  <2>4. QED
    BY <1>1, <1>11, <2>3 DEF AdmitCall
<1>12. ASSUME NEW q \in Procs, NEW c \in Calls, SettleCall(q, c) PROVE LeaseInv'
  <2>1. task' = task \/ \E t, m : task' = [task EXCEPT ![t].committed = m]
    BY <1>12 DEF SettleCall, ReleaseCommittedBound, rows
  <2>2. \A u \in Tasks : Kept(u)
    BY <1>a, <2>1 DEF Task
  <2>3. QED
    BY <1>1, <1>12, <2>2 DEF SettleCall
<1>13. ASSUME NEW q \in Procs, NEW c \in Calls, MarkSent(q, c) \/ Fetch(q, c) PROVE LeaseInv'
  BY <1>1, <1>2, <1>13 DEF MarkSent, Fetch, rows
<1>14. ASSUME NEW q \in Procs, LapsedReservations(q) PROVE LeaseInv'
  BY <1>1, <1>2, <1>14 DEF LapsedReservations, rows
<1> HIDE DEF Quiet, Kept
<1>15. QED
  BY <1>3, <1>4, <1>5, <1>6, <1>7, <1>8, <1>9, <1>10, <1>11, <1>12, <1>13, <1>14 DEF Next

\* A task is settled by the end of its own turn, or by a keeper that finds it
\* lapsed, and by nothing else.
LEMMA WhoSettles ==
    ASSUME TypeOK, Next, NEW t \in Tasks, Open(t), task'[t].state = "settled"
    PROVE  \E p \in Procs : EndTurn(p, t) \/ (SettleOneLapsed(p, t) /\ Lapsed(t))
<1>0. task \in [Tasks -> Task] /\ task[t].state = "open"
  BY DEF TypeOK, Open
<1>1. ~ UNCHANGED task
  BY <1>0
<1>2. ASSUME NEW u \in Tasks, NEW r, SettleIn(u, r) PROVE u = t
  <2>1. CASE UNCHANGED rows
    BY <1>1, <2>1 DEF rows
  <2>2. CASE MarkSettled(u, r)
    BY <1>0, <2>2 DEF MarkSettled
  <2>3. QED
    BY <1>2, <2>1, <2>2 DEF SettleIn
<1>3. ASSUME NEW q \in Procs, NEW u \in Tasks, SettleOneLapsed(q, u) PROVE u = t /\ Lapsed(u)
  BY <1>1, <1>2, <1>3 DEF SettleOneLapsed, rows
<1>4. ASSUME NEW q \in Procs, NEW u \in Tasks, EndTurn(q, u) PROVE u = t
  BY <1>1, <1>2, <1>4 DEF EndTurn, rows
<1>5. ASSUME NEW q \in Procs, NEW u \in Tasks, Reserve(q, u) PROVE FALSE
  <2>1. PICK mode, s, r : task' = [task EXCEPT ![u] = NewTask(q, mode, s, r)]
    BY <1>5 DEF Reserve, InsertEnforceReservation, InsertShadowReservation
  <2>2. QED
    BY <1>0, <2>1 DEF NewTask
<1>6. ASSUME NEW q \in Procs, NEW u \in Tasks, NEW c \in Calls, AdmitCall(q, u, c) PROVE FALSE
  <2>1. PICK b \in Bounds :
            task' = [task EXCEPT ![u].committed = @ + b, ![u].lease = Later(@, now + Lease)]
    BY <1>6 DEF AdmitCall, CommitCallBound
  <2>2. QED
    BY <1>0, <2>1 DEF Task
<1>7. ASSUME NEW q \in Procs, NEW c \in Calls, SettleCall(q, c) PROVE FALSE
  <2>1. task' = task \/ \E u, m : task' = [task EXCEPT ![u].committed = m]
    BY <1>7 DEF SettleCall, ReleaseCommittedBound, rows
  <2>2. QED
    BY <1>0, <2>1 DEF Task
<1>8. ASSUME NEW q \in Procs, Heartbeat(q) \/ ReleaseOwnLeases(q) PROVE FALSE
  BY <1>0, <1>8 DEF Heartbeat, ReleaseOwnLeases, Task
<1>9. ASSUME NEW q \in Procs, NEW c \in Calls, MarkSent(q, c) \/ Fetch(q, c) PROVE FALSE
  BY <1>1, <1>9 DEF MarkSent, Fetch, rows
<1>10. ASSUME NEW q \in Procs, Boot(q) \/ Crash(q) \/ LapsedReservations(q) PROVE FALSE
  BY <1>1, <1>10 DEF Boot, Crash, LapsedReservations, rows
<1>11. CASE Advance
  BY <1>1, <1>11 DEF Advance, rows
<1>12. QED
  BY <1>3, <1>4, <1>5, <1>6, <1>7, <1>8, <1>9, <1>10, <1>11 DEF Next

\* A keeper never settles a task on what it read before: at the moment of the
\* settlement the lease or the ceiling is in the past.
THEOREM RenewedTasksAreLeftAlone == Spec => RenewedTaskIsLeftAlone
<1> DEFINE Alone == \A t \in Tasks : Open(t) /\ task'[t].state = "settled" =>
              \/ \E p \in Procs : t \in live[p] \ live'[p]
              \/ task[t].lease < now
              \/ task[t].until < now
<1>1. TypeOK /\ [Next]_vars => [Alone]_vars
  <2> SUFFICES ASSUME TypeOK, Next, NEW t \in Tasks, Open(t), task'[t].state = "settled",
                      ~(task[t].lease < now), ~(task[t].until < now)
               PROVE  \E p \in Procs : t \in live[p] \ live'[p]
    OBVIOUS
  <2>1. PICK p \in Procs : EndTurn(p, t)
    BY WhoSettles DEF Lapsed
  <2>2. t \in live[p] \ live'[p]
    BY <2>1 DEF EndTurn, TypeOK
  <2>3. QED
    BY <2>2
<1>2. QED
  BY <1>1, TypeCorrect, PTL DEF Spec, RenewedTaskIsLeftAlone

\* A process whose heartbeats are no further apart than a lease keeps every
\* task it runs up to that task's ceiling: no other keeper settles it.
THEOREM LiveTasksAreLeftAlone ==
    ASSUME BeatGap <= Lease
    PROVE  Spec => LiveTaskIsLeftAlone
<1> DEFINE Alone == \A p \in Procs : \A t \in live[p] :
              /\ proc[p] = "up"
              /\ Open(t)
              /\ task'[t].state = "settled"
              /\ live'[p] = live[p]
              => task[t].until < now
<1>1. LeaseInv /\ [Next]_vars => [Alone]_vars
  <2> SUFFICES ASSUME LeaseInv, Next, NEW p \in Procs, NEW t \in live[p], proc[p] = "up",
                      Open(t), task'[t].state = "settled", live'[p] = live[p]
               PROVE  task[t].until < now
    OBVIOUS
  <2>0. /\ t \in Tasks /\ now \in Nat /\ beat[p] \in Nat
        /\ task[t].lease \in Nat /\ task[t].until \in Nat /\ task[t].owner = p
        /\ live \in [Procs -> SUBSET Tasks]
    BY DEF LeaseInv, LiveSetsOwned, TypeOK, Task
  <2>1. PICK q \in Procs : EndTurn(q, t) \/ (SettleOneLapsed(q, t) /\ Lapsed(t))
    BY <2>0, WhoSettles DEF LeaseInv
  <2>2. ~ EndTurn(q, t)
    BY <2>0 DEF EndTurn, LeaseInv, LiveSetsOwned
  <2>3. /\ task[t].lease >= beat[p] + Lease \/ task[t].lease >= task[t].until
        /\ now <= beat[p] + BeatGap
    BY DEF LeaseInv, LeasesReach, BeatsOnTime
  <2>4. QED
    BY <2>0, <2>1, <2>2, <2>3 DEF Lapsed
<1>2. Init => LeaseInv
  BY NoRowsType DEF Init, LeaseInv, TypeOK, Attempt, LiveSetsOwned, BeatsOnTime, LeasesReach
<1>3. QED
  BY <1>1, <1>2, LeaseInductive, PTL DEF Spec, LiveTaskIsLeftAlone

-----------------------------------------------------------------------------
(***************************************************************************)
(* Sending and paying.  The property needs what the adapter's order of     *)
(* steps leaves behind: a call in hand is on record as sent before its     *)
(* request may leave, so whoever settles it meanwhile charges its bound,   *)
(* and an enforced one that is not yet to be sent has   *)
(* not left.                                                               *)
(***************************************************************************)
PaidOrExcused(c) ==
    call[c].state = "settled" /\ call[c].charged < call[c].bound =>
        call[c].basis \in {"provider_rejected", "provider_usage"}

SentBeforeLeaving ==
    \A c \in Calls :
        /\ attempt[c] \in {"marked", "out"} => call[c].sent /\ PaidOrExcused(c)
        /\ attempt[c] \in {"admitted", "unsent"} /\ Mode(c) = "enforce" => c \notin left

AttemptsHaveRows ==
    \A c \in Calls : call[c].state = "none" => attempt[c] = "none" /\ c \notin left

SentInv ==
    /\ MoneyInv
    /\ AttemptsHaveRows
    /\ SentBeforeLeaving
    /\ SentIsPaidFor

\* What a step may do to one call without disturbing the invariant: nothing,
\* or something the invariant allows whatever the mode.
LEMMA CallByCall ==
    ASSUME SentInv, MoneyInv',
           \A c \in Calls : call[c].state # "none" =>
               call'[c].task = call[c].task /\ Mode(c)' = Mode(c),
           \A c \in Calls :
               /\ call'[c].state = "none" => attempt'[c] = "none" /\ c \notin left'
               /\ attempt'[c] \in {"marked", "out"} => call'[c].sent /\ PaidOrExcused(c)'
               /\ attempt'[c] \in {"admitted", "unsent"} /\ Mode(c)' = "enforce" => c \notin left'
               /\ call'[c].charged > 0 => call'[c].sent
               /\ c \in left' /\ Mode(c)' = "enforce" => call'[c].sent /\ PaidOrExcused(c)'
    PROVE  SentInv'
BY DEF SentInv, AttemptsHaveRows, SentBeforeLeaving, SentIsPaidFor, PaidOrExcused

LEMMA SentInductive == SentInv /\ [Next]_vars => SentInv'
<1> SUFFICES ASSUME SentInv, [Next]_vars PROVE SentInv'
  OBVIOUS
<1>0. MoneyInv /\ MoneyInv' /\ TypeOK /\ TypeOK'
  BY MoneyInductive DEF SentInv, MoneyInv
<1>a. /\ task \in [Tasks -> Task] /\ call \in [Calls -> Call]
      /\ attempt \in [Calls -> Attempt] /\ left \subseteq Calls
      /\ \A c \in Calls : /\ call[c] \in Call /\ call[c].sent \in BOOLEAN
                           /\ call[c].bound \in Nat /\ call[c].charged \in Nat
  BY <1>0 DEF TypeOK, Call
<1> DEFINE Same(c) == call[c].state # "none" =>
                          call'[c].task = call[c].task /\ Mode(c)' = Mode(c)
           Good(c) == 
               /\ call'[c].state = "none" => attempt'[c] = "none" /\ c \notin left'
               /\ attempt'[c] \in {"marked", "out"} => call'[c].sent /\ PaidOrExcused(c)'
               /\ attempt'[c] \in {"admitted", "unsent"} /\ Mode(c)' = "enforce" => c \notin left'
               /\ call'[c].charged > 0 => call'[c].sent
               /\ c \in left' /\ Mode(c)' = "enforce" => call'[c].sent /\ PaidOrExcused(c)'
<1>b. (\A c \in Calls : Same(c) /\ Good(c)) => SentInv'
  BY <1>0, CallByCall
<1>c. ASSUME NEW c \in Calls, call'[c] = call[c], attempt'[c] = attempt[c] \/ attempt'[c] = "over",
             call[c].state = "none" => attempt'[c] = attempt[c],
             c \in left' => c \in left, Mode(c)' = Mode(c)
      PROVE  Same(c) /\ Good(c)
  BY <1>c DEF SentInv, AttemptsHaveRows, SentBeforeLeaving, SentIsPaidFor, PaidOrExcused
<1>d. ASSUME \A t \in Tasks : task'[t].mode = task[t].mode, NEW c \in Calls,
             call'[c].task = call[c].task, call[c].state # "none"
      PROVE  Mode(c)' = Mode(c)
  BY <1>0, <1>d DEF MoneyInv, CallsBelong, Mode
<1>e. ASSUME NEW c \in Calls, call'[c] = call[c], attempt'[c] = attempt[c], left' = left,
             \/ call[c].state = "none"
             \/ Mode(c)' = Mode(c)
      PROVE  Same(c) /\ Good(c)
  BY <1>e DEF SentInv, AttemptsHaveRows, SentBeforeLeaving, SentIsPaidFor, PaidOrExcused
<1>1. ASSUME call' = call, attempt' = attempt, left' = left,
             \A t \in Tasks : task'[t].mode = task[t].mode
      PROVE  SentInv'
  BY <1>1, <1>b, <1>d, <1>e
<1>2. CASE UNCHANGED vars
  BY <1>1, <1>2 DEF vars
<1>3. CASE Advance
  BY <1>1, <1>3 DEF Advance, rows
<1>4. ASSUME NEW p \in Procs, Boot(p) \/ LapsedReservations(p) PROVE SentInv'
  BY <1>1, <1>4 DEF Boot, LapsedReservations, rows
<1>5. ASSUME NEW p \in Procs, Heartbeat(p) \/ ReleaseOwnLeases(p) PROVE SentInv'
  <2>1. \A t \in Tasks : task'[t].mode = task[t].mode
    BY <1>5, <1>a DEF Heartbeat, ReleaseOwnLeases, Task
  <2>2. QED
    BY <1>1, <1>5, <2>1 DEF Heartbeat, ReleaseOwnLeases
<1>6. ASSUME NEW p \in Procs, Crash(p) PROVE SentInv'
  <2>1. call' = call /\ task' = task /\ left' = left
    BY <1>6 DEF Crash, rows
  <2>1a. ASSUME NEW c \in Calls
         PROVE  /\ attempt'[c] = attempt[c] \/ attempt'[c] = "over"
                /\ attempt[c] = "none" => attempt'[c] = attempt[c]
    BY <1>6 DEF Crash
  <2>2. \A c \in Calls : call[c].state = "none" => attempt[c] = "none"
    BY DEF SentInv, AttemptsHaveRows
  <2>3. \A c \in Calls : Mode(c)' = Mode(c)
    BY <2>1 DEF Mode
  <2>4. ASSUME NEW c \in Calls PROVE Same(c) /\ Good(c)
    <3>1. call[c].state = "none" => attempt'[c] = attempt[c]
      BY <2>1a, <2>2
    <3>2. call'[c] = call[c] /\ (c \in left' => c \in left) /\ Mode(c)' = Mode(c)
      BY <2>1, <2>3
    <3>3. attempt'[c] = attempt[c] \/ attempt'[c] = "over"
      BY <2>1a
    <3>4. QED
      BY <1>c, <3>1, <3>2, <3>3
  <2>5. QED
    BY <1>b, <2>4
<1>7. ASSUME NEW p \in Procs, NEW t \in Tasks, Reserve(p, t) PROVE SentInv'
  <2>1. /\ call' = call /\ attempt' = attempt /\ left' = left /\ task[t].state = "none"
        /\ \A u \in Tasks : u # t => task'[u] = task[u]
    BY <1>7, <1>a DEF Reserve, NextTask, InsertEnforceReservation, InsertShadowReservation
  <2>2. ASSUME NEW c \in Calls, call[c].state # "none" PROVE Mode(c)' = Mode(c)
    <3>1. call[c].task \in Tasks /\ call[c].task # t
      BY <1>0, <2>1, <2>2 DEF MoneyInv, CallsBelong
    <3>2. QED
      BY <2>1, <3>1 DEF Mode
  <2>3. QED
    BY <1>b, <1>e, <2>1, <2>2
<1>8. ASSUME NEW p \in Procs, NEW t \in Tasks, NEW r, SettleIn(t, r),
             attempt' = attempt, left' = left
      PROVE  SentInv'
  <2>1. \A u \in Tasks : task'[u].mode = task[u].mode
    BY <1>8, <1>a, SettleInLeases
  <2>2. CASE UNCHANGED rows
    BY <1>1, <1>8, <2>1, <2>2 DEF rows
  <2>3. CASE SettleStartedCallsAfterACrash(t)
    <3>1. ASSUME NEW c \in Calls, ~(call[c].task = t /\ Started(c)) PROVE Same(c) /\ Good(c)
      <4>1. call'[c] = call[c]
        BY <2>3, <3>1 DEF SettleStartedCallsAfterACrash
      <4>2. QED
        BY <1>8, <1>d, <1>e, <2>1, <4>1
    <3>2. ASSUME NEW c \in Calls, call[c].task = t, Started(c) PROVE Same(c) /\ Good(c)
      <4>1. call'[c] = AfterACrash(call[c])
        BY <2>3, <3>2 DEF SettleStartedCallsAfterACrash
      <4>2. /\ call'[c].state = "settled" /\ call'[c].task = call[c].task
            /\ call'[c].sent = call[c].sent /\ call'[c].bound = call[c].bound
            /\ call'[c].charged = IF call[c].sent THEN call[c].bound ELSE 0
        BY <1>a, <4>1, AfterACrashFields
      <4>3. Mode(c)' = Mode(c)
        BY <1>d, <2>1, <3>2, <4>2 DEF Started
      <4>4. /\ attempt[c] \in {"marked", "out"} => call[c].sent
            /\ attempt[c] \in {"admitted", "unsent"} /\ Mode(c) = "enforce" => c \notin left
            /\ c \in left /\ Mode(c) = "enforce" => call[c].sent
        BY DEF SentInv, SentBeforeLeaving, SentIsPaidFor
      <4>5. PaidOrExcused(c)' \/ ~call[c].sent
        BY <1>a, <4>2 DEF PaidOrExcused
      <4>6. call'[c].charged > 0 => call'[c].sent
        BY <1>a, <4>2
      <4>7. QED
        BY <1>8, <4>2, <4>3, <4>4, <4>5, <4>6
    <3>3. QED
      BY <1>b, <3>1, <3>2
  <2>4. QED
    BY <1>8, <2>2, <2>3 DEF SettleIn
<1>9. ASSUME NEW p \in Procs, NEW t \in Tasks, EndTurn(p, t) \/ SettleOneLapsed(p, t)
      PROVE  SentInv'
  <2>1. \/ task' = task /\ call' = call
        \/ \E r : SettleIn(t, r)
    BY <1>9 DEF EndTurn, SettleOneLapsed, rows
  <2>2. attempt' = attempt /\ left' = left
    BY <1>9 DEF EndTurn, SettleOneLapsed
  <2>3. QED
    BY <1>1, <1>8, <2>1, <2>2
<1>10. ASSUME NEW p \in Procs, NEW t \in Tasks, NEW c \in Calls, AdmitCall(p, t, c)
       PROVE  SentInv'
  <2>1. PICK b \in Bounds :
            /\ task' = [task EXCEPT ![t].committed = @ + b, ![t].lease = Later(@, now + Lease)]
            /\ call' = [call EXCEPT ![c] = [NoCall EXCEPT !.state = "started",
                                                          !.task = t, !.bound = b]]
    BY <1>10 DEF AdmitCall, CommitCallBound
  <2>2. /\ call'[c].state = "started" /\ call'[c].charged = 0
        /\ attempt'[c] \in {"admitted", "over"} /\ left' = left
        /\ \A d \in Calls : d # c => call'[d] = call[d] /\ attempt'[d] = attempt[d]
    BY <1>10, <1>a, <2>1 DEF AdmitCall, NoCall
  <2>3. c \notin left /\ call[c].state = "none"
    BY <1>10 DEF AdmitCall, NextCall, SentInv, AttemptsHaveRows
  <2>4. \A u \in Tasks : task'[u].mode = task[u].mode
    BY <1>a, <2>1 DEF Task
  <2>5. Same(c) /\ Good(c)
    BY <2>2, <2>3
  <2>6. ASSUME NEW d \in Calls, d # c PROVE Same(d) /\ Good(d)
    BY <1>d, <1>e, <2>2, <2>4, <2>6
  <2>7. QED
    BY <1>b, <2>5, <2>6
<1>11. ASSUME NEW p \in Procs, NEW c \in Calls, Fetch(p, c) PROVE SentInv'
  <2>1. /\ task' = task /\ call' = call /\ attempt[c] = "marked" /\ attempt'[c] = "out"
        /\ left' = left \cup {c}
        /\ \A d \in Calls : d # c => attempt'[d] = attempt[d]
    BY <1>11, <1>a DEF Fetch, rows
  <2>2. \A d \in Calls : Mode(d)' = Mode(d)
    BY <2>1 DEF Mode
  <2>3. call[c].sent /\ PaidOrExcused(c) /\ call[c].state # "none"
    BY <2>1 DEF SentInv, SentBeforeLeaving, AttemptsHaveRows
  <2>4. Same(c) /\ Good(c)
    BY <2>1, <2>2, <2>3 DEF PaidOrExcused
  <2>5. ASSUME NEW d \in Calls, d # c PROVE Same(d) /\ Good(d)
    BY <1>c, <2>1, <2>2, <2>5
  <2>6. QED
    BY <1>b, <2>4, <2>5
<1>12. ASSUME NEW p \in Procs, NEW c \in Calls, MarkSent(p, c) PROVE SentInv'
  <2>1. /\ task' = task /\ attempt[c] = "admitted"
        /\ \A d \in Calls : d # c => attempt'[d] = attempt[d]
        /\ \A d \in Calls : d # c => call'[d] = call[d]
        /\ \A d \in Calls : d # c => (d \in left' => d \in left)
    BY <1>12, <1>a DEF MarkSent, NotMarked, MarkCallSent
  <2>2. call[c].state # "none"
    BY <2>1 DEF SentInv, AttemptsHaveRows
  <2>3. /\ call'[c].state = call[c].state /\ call'[c].task = call[c].task
        /\ call'[c].bound = call[c].bound /\ call'[c].charged = call[c].charged
        /\ call'[c].basis = call[c].basis
        /\ call[c].sent => call'[c].sent
    BY <1>12, <1>a DEF MarkSent, MarkCallSent, Call
  <2>4. Mode(c)' = Mode(c)
    BY <2>1, <2>3 DEF Mode
  <2>5. \/ /\ attempt'[c] = "marked" /\ left' = left /\ call[c].state = "started"
           /\ call'[c].sent
        \/ /\ attempt'[c] = "unsent" /\ left' = left
        \/ /\ attempt'[c] = "over" /\ Mode(c) # "enforce"
    BY <1>12, <1>a DEF MarkSent, NotMarked, MarkCallSent, Started, Call
  <2>6. /\ Mode(c) = "enforce" => c \notin left
        /\ call[c].charged > 0 => call[c].sent
    BY <2>1 DEF SentInv, SentBeforeLeaving, SentIsPaidFor
  <2>7. Same(c) /\ Good(c)
    BY <2>2, <2>3, <2>4, <2>5, <2>6 DEF PaidOrExcused
  <2>8. ASSUME NEW d \in Calls, d # c PROVE Same(d) /\ Good(d)
    <3>1. Mode(d)' = Mode(d)
      BY <2>1, <2>8 DEF Mode
    <3>2. QED
      BY <1>c, <2>1, <2>8, <3>1
  <2>9. QED
    BY <1>b, <2>7, <2>8
<1>13. ASSUME NEW p \in Procs, NEW c \in Calls, SettleCall(p, c) PROVE SentInv'
  <2>1. /\ left' = left /\ attempt'[c] = "over"
        /\ attempt[c] \in {"admitted", "unsent", "out"}
        /\ \A d \in Calls : d # c => attempt'[d] = attempt[d]
        /\ \A d \in Calls : d # c => call'[d] = call[d]
    BY <1>13, <1>a DEF SettleCall, SettleOneCall, rows
  <2>2. call[c].state # "none"
    BY <2>1 DEF SentInv, AttemptsHaveRows
  <2>3. \A t \in Tasks : task'[t].mode = task[t].mode
    <3>1. task' = task \/ \E t, m : task' = [task EXCEPT ![t].committed = m]
      BY <1>13 DEF SettleCall, ReleaseCommittedBound, rows
    <3>2. QED
      BY <1>a, <3>1 DEF Task
  <2>4. CASE UNCHANGED rows
    <3>1. \A d \in Calls : Mode(d)' = Mode(d)
      BY <2>4 DEF rows, Mode
    <3>2. QED
      BY <1>b, <1>c, <2>1, <2>2, <2>4, <3>1 DEF rows
  <2>5. ASSUME NEW asked \in AskedBasis(c), NEW cost \in Costs, NEW basis, NEW charge,
               basis = BasisTheRowAgreesWith(asked, call[c].sent),
               charge = CallSettlement(basis, call[c].bound, cost),
               SettleOneCall(c, basis, charge)
        PROVE  SentInv'
    <3>1. /\ call'[c].state = "settled" /\ call'[c].task = call[c].task
          /\ call'[c].bound = call[c].bound /\ call'[c].charged = charge
          /\ call'[c].sent = call[c].sent /\ call'[c].basis = basis
      BY <1>a, <2>5 DEF SettleOneCall, Call
    <3>2. Mode(c)' = Mode(c)
      BY <1>d, <2>2, <2>3, <3>1
    <3>3. asked \in Basis /\ cost \in Nat
      BY DEF AskedBasis, Basis
    <3>4. ~call[c].sent => charge = 0
      BY <2>5, <3>3 DEF BasisTheRowAgreesWith, CallSettlement, FreeBasis, Basis
    <3>5. attempt[c] = "out" => call[c].sent /\ asked # "never_sent"
      BY DEF AskedBasis, SentInv, SentBeforeLeaving
    <3>6. attempt[c] = "out" /\ charge < call[c].bound =>
              basis \in {"provider_rejected", "provider_usage"}
      <4>1. ASSUME attempt[c] = "out", basis = "no_record" PROVE charge = call[c].bound
        BY <2>5, <4>1 DEF CallSettlement, FreeBasis
      <4>2. attempt[c] = "out" => basis = asked
        BY <2>5, <3>5 DEF BasisTheRowAgreesWith
      <4>3. QED
        BY <1>a, <3>3, <3>5, <4>1, <4>2 DEF Basis
    <3>7. Mode(c) = "enforce" /\ c \in left => attempt[c] = "out"
      BY <2>1 DEF SentInv, SentBeforeLeaving
    <3>8. Same(c) /\ Good(c)
      BY <2>1, <3>1, <3>2, <3>4, <3>5, <3>6, <3>7 DEF PaidOrExcused
    <3>9. ASSUME NEW d \in Calls, d # c PROVE Same(d) /\ Good(d)
      BY <1>d, <1>e, <2>1, <2>3, <3>9
    <3>10. QED
      BY <1>b, <3>8, <3>9
  <2>6. QED
    BY <1>13, <2>4, <2>5 DEF SettleCall, rows
<1> HIDE DEF Same, Good
<1>14. QED
  BY <1>2, <1>3, <1>4, <1>5, <1>6, <1>7, <1>9, <1>10, <1>11, <1>12, <1>13 DEF Next

\* No call is charged that is not on record as sent, and an enforced request
\* that left the process is paid for in full unless the provider said less.
THEOREM SentIsAlwaysPaidFor == Spec => []SentIsPaidFor
<1>1. Init => MoneyInv
  BY MoneyInit
<1>2. Init => SentInv
  <2>1. Init => \A c \in Calls : call[c] = NoCall /\ attempt[c] = "none" /\ c \notin left
    BY DEF Init
  <2>2. QED
    BY <1>1, <2>1
       DEF SentInv, AttemptsHaveRows, SentBeforeLeaving, SentIsPaidFor, NoCall
<1>3. SentInv => SentIsPaidFor
  BY DEF SentInv
<1>4. QED
  BY <1>2, <1>3, SentInductive, PTL DEF Spec
=============================================================================
