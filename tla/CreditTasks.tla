---------------------------- MODULE CreditTasks ----------------------------
(***************************************************************************)
(* One account's AI tasks and the model calls they make: the reservation   *)
(* rows (db/credit-reservations-repo.ts), the service that moves them      *)
(* (services/credit-reservations.ts), the meter inside the model adapter   *)
(* (services/agent-credit-meter.ts, agent-decomposer-claude.ts) and the    *)
(* lease keeper every server process runs (ai-credit-lease-keeper.ts).     *)
(*                                                                         *)
(* A transaction is one step: reserve and settle hold the account's row    *)
(* lock, admission and call settlement the reservation's, markSent the     *)
(* call's.  Between transactions every process interleaves with every      *)
(* other.  Where a task's credit comes from is module CreditAccount; here  *)
(* a task may reserve any amount of Reserves.                              *)
(*                                                                         *)
(* Tasks and calls are numbered in the order their rows are inserted.  An  *)
(* answer may be lost after its transaction committed, and a transaction   *)
(* may fail; MaxFaults bounds how often.                                   *)
(***************************************************************************)
EXTENDS Integers, FiniteSets, Sums

CONSTANTS
    Procs,      \* boot ids; one is never used again after its process ends
    None,       \* SQL NULL
    MaxTask,    \* bound: reservations inserted
    MaxCall,    \* bound: model calls inserted
    MaxSlots,   \* MAX_ENFORCED_TASKS
    Lease,      \* CREDIT_LEASE_SECONDS
    MaxAge,     \* CREDIT_MAX_UNTIL_MINUTES
    BeatGap,    \* the longest a live process goes between two heartbeats
    Modes,      \* the metering modes in use: "enforce", "shadow"
    Reserves,   \* amounts a task may come to reserve
    Bounds,     \* bounds a call may be admitted under
    Costs,      \* costs the provider may report
    MaxTime,    \* bound: the clock stops here
    MaxFaults   \* bound: database calls that fail or whose answer is lost

ASSUME ConstantsAssumption ==
    /\ {MaxTask, MaxCall, MaxSlots, MaxTime, MaxFaults} \subseteq Nat
    /\ {Lease, MaxAge, BeatGap} \subseteq Nat \ {0}
    /\ Modes \subseteq {"enforce", "shadow"}
    /\ Reserves \subseteq Nat \ {0}
    /\ Bounds \subseteq Nat \ {0}
    /\ Costs \subseteq Nat
    /\ None \notin Procs

Tasks == 1 .. MaxTask
Calls == 1 .. MaxCall

(***************************************************************************)
(* task      credit_reservations                                           *)
(* call      credit_model_calls                                            *)
(* proc      whether a process runs, is shutting down, or is gone          *)
(* live      the tasks a process's keeper heartbeats for                   *)
(* attempt   where the process that admitted a call is with it             *)
(* sweep     the lapsed tasks a keeper has read and not come to yet        *)
(* beat      when a process last heartbeat                                 *)
(* left      history: calls whose request left the process                 *)
(***************************************************************************)
VARIABLES task, call, proc, live, attempt, sweep, beat, now, faults, left

rows == <<task, call>>
vars == <<task, call, proc, live, attempt, sweep, beat, now, faults, left>>

Reason == {"completed", "lease_expired", "max_age"}
Basis == {"never_sent", "no_record", "provider_rejected", "provider_usage"}

Task == [state : {"none", "open", "settled"}, mode : {"enforce", "shadow"},
         slot : 0 .. MaxSlots, reserved : Nat, committed : Int, lease : Nat,
         until : Nat, owner : Procs \cup {None}, charged : Nat,
         reason : Reason \cup {None}]

Call == [state : {"none", "started", "settled"}, task : 0 .. MaxTask,
         sent : BOOLEAN, bound : Nat, charged : Nat, basis : Basis \cup {None}]

NoTask == [state |-> "none", mode |-> "enforce", slot |-> 0, reserved |-> 0,
           committed |-> 0, lease |-> 0, until |-> 0, owner |-> None,
           charged |-> 0, reason |-> None]

NoCall == [state |-> "none", task |-> 0, sent |-> FALSE, bound |-> 0,
           charged |-> 0, basis |-> None]

\* "admitted": not sent yet.  "unsent": must not be sent.  "marked": sent is
\* on record.  "out": the request has left.  "over": nothing more to do.
Attempt == {"none", "admitted", "unsent", "marked", "out", "over"}

Open(t) == task[t].state = "open"

OpenEnforce == {t \in Tasks : Open(t) /\ task[t].mode = "enforce"}

\* Mutant: the writes do not ask that the call is still started.
StartedOnce(c) == call[c].state # "none"

Started(c) == call[c].state = "started"

Attempting(t) ==
    \E c \in Calls : call[c].task = t /\ attempt[c] \notin {"none", "over"}

\* Rows are inserted in order, so the next one is the first that is missing.
NextTask(t) == task[t].state = "none" /\ \A u \in 1 .. t - 1 : task[u].state # "none"
NextCall(c) == call[c].state = "none" /\ \A d \in 1 .. c - 1 : call[d].state # "none"

Init ==
    /\ task = [t \in Tasks |-> NoTask]
    /\ call = [c \in Calls |-> NoCall]
    /\ proc = [p \in Procs |-> "unborn"]
    /\ live = [p \in Procs |-> {}]
    /\ attempt = [c \in Calls |-> "none"]
    /\ sweep = [p \in Procs |-> {}]
    /\ beat = [p \in Procs |-> 0]
    /\ now = 0
    /\ faults = 0
    /\ left = {}

-----------------------------------------------------------------------------
(* Processes, time and faults *)

Boot(p) ==
    /\ proc[p] = "unborn"
    /\ proc' = [proc EXCEPT ![p] = "up"]
    /\ beat' = [beat EXCEPT ![p] = now]
    /\ UNCHANGED <<rows, live, attempt, sweep, now, faults, left>>

\* The process ends, at any point of anything it was doing.
Crash(p) ==
    /\ proc[p] \in {"up", "draining"}
    /\ proc' = [proc EXCEPT ![p] = "gone"]
    /\ live' = [live EXCEPT ![p] = {}]
    /\ sweep' = [sweep EXCEPT ![p] = {}]
    /\ beat' = [beat EXCEPT ![p] = 0]
    /\ attempt' = [c \in Calls |->
                      IF attempt[c] # "none" /\ call[c].task \in Tasks
                         /\ task[call[c].task].owner = p
                      THEN "over" ELSE attempt[c]]
    /\ UNCHANGED <<rows, now, faults, left>>

\* A live process heartbeats at least every BeatGap.
Advance ==
    /\ now < MaxTime
    /\ \A p \in Procs : proc[p] = "up" => now - beat[p] < BeatGap
    /\ now' = now + 1
    /\ UNCHANGED <<rows, proc, live, attempt, sweep, beat, faults, left>>

\* A database call that was answered, or one that was not.
Answered == faults' = faults
Unanswered == faults < MaxFaults /\ faults' = faults + 1

-----------------------------------------------------------------------------
(* Reserving a task *)

FreeSlot(s) == \A t \in OpenEnforce : task[t].slot # s

NewTask(p, mode, slot, r) ==
    [state |-> "open", mode |-> mode, slot |-> slot, reserved |-> r,
     committed |-> 0, lease |-> now + Lease, until |-> now + MaxAge, owner |-> p,
     charged |-> 0, reason |-> None]

InsertEnforceReservation(p, t, r) ==
    /\ Cardinality(OpenEnforce) < MaxSlots
    /\ \E s \in 1 .. MaxSlots :
          /\ FreeSlot(s)
          /\ \A lower \in 1 .. s - 1 : ~FreeSlot(lower)
          /\ task' = [task EXCEPT ![t] = NewTask(p, "enforce", s, r)]

\* Reserves nothing for a model the rate card cannot price.
InsertShadowReservation(p, t, r) ==
    task' = [task EXCEPT ![t] = NewTask(p, "shadow", 0, r)]

\* A turn whose reserve was answered runs, and its keeper looks after it.
Reserve(p, t) ==
    /\ proc[p] = "up"
    /\ NextTask(t)
    /\ \/ /\ "enforce" \in Modes
          /\ \E r \in Reserves : InsertEnforceReservation(p, t, r)
       \/ /\ "shadow" \in Modes
          /\ \E r \in Reserves \cup {0} : InsertShadowReservation(p, t, r)
    /\ \/ Answered /\ live' = [live EXCEPT ![p] = @ \cup {t}]
       \/ Unanswered /\ UNCHANGED live
    /\ UNCHANGED <<call, proc, attempt, sweep, beat, now, left>>

-----------------------------------------------------------------------------
(* One model call *)

\* Mutant: only the bound itself has to fit.
AdmissibleAlone(t, b) ==
    /\ Open(t)
    /\ now < task[t].until
    /\ task[t].mode = "shadow" \/ b <= task[t].reserved

Admissible(t, b) ==
    /\ Open(t)
    /\ now < task[t].until
    /\ task[t].mode = "shadow" \/ task[t].committed + b <= task[t].reserved

Later(a, b) == IF a < b THEN b ELSE a

CommitCallBound(t, b) ==
    task' = [task EXCEPT ![t].committed = @ + b, ![t].lease = Later(@, now + Lease)]

\* The plan is read without a lock and is not trusted: any bound may be asked.
AdmitCall(p, t, c) ==
    /\ t \in live[p]
    /\ ~Attempting(t)
    /\ NextCall(c)
    /\ task[t].reserved > 0
    /\ \E b \in Bounds :
          /\ Admissible(t, b)
          /\ CommitCallBound(t, b)
          /\ call' = [call EXCEPT ![c] = [NoCall EXCEPT !.state = "started",
                                                        !.task = t, !.bound = b]]
    /\ \/ Answered /\ attempt' = [attempt EXCEPT ![c] = "admitted"]
       \/ Unanswered /\ attempt' = [attempt EXCEPT ![c] = "over"]
    /\ UNCHANGED <<proc, live, sweep, beat, now, left>>

\* The owner of a call that is under way.
Owns(p, c) == call[c].task \in live[p]

Mode(c) == task[call[c].task].mode

\* An enforced call that may have been settled around its owner is not sent.  A
\* shadow call is sent whatever happens, and is then no longer measured.
NotMarked(c) ==
    IF Mode(c) = "enforce"
    THEN attempt' = [attempt EXCEPT ![c] = "unsent"] /\ UNCHANGED left
    ELSE attempt' = [attempt EXCEPT ![c] = "over"] /\ left' = left \cup {c}

MarkCallSent(c) == call' = [call EXCEPT ![c].sent = TRUE]

MarkSent(p, c) ==
    /\ attempt[c] = "admitted"
    /\ Owns(p, c)
    /\ \/ /\ Answered
          /\ Started(c)
          /\ MarkCallSent(c)
          /\ attempt' = [attempt EXCEPT ![c] = "marked"]
          /\ UNCHANGED left
       \/ /\ Answered
          /\ ~Started(c)
          /\ NotMarked(c)
          /\ UNCHANGED call
       \/ /\ Unanswered
          /\ UNCHANGED call \/ (Started(c) /\ MarkCallSent(c))
          /\ NotMarked(c)
    /\ UNCHANGED <<task, proc, live, sweep, beat, now>>

\* The request leaves, only after sent is on record.
Fetch(p, c) ==
    /\ attempt[c] = "marked"
    /\ Owns(p, c)
    /\ attempt' = [attempt EXCEPT ![c] = "out"]
    /\ left' = left \cup {c}
    /\ UNCHANGED <<rows, proc, live, sweep, beat, now, faults>>

\* What the owner names: the one fact it knows about its attempt.
AskedBasis(c) ==
    IF attempt[c] = "out" THEN Basis \ {"never_sent"} ELSE {"never_sent"}

FreeBasis == {"provider_rejected", "never_sent"}

BasisTheRowAgreesWith(asked, sent) ==
    IF sent THEN IF asked = "never_sent" THEN "no_record" ELSE asked
            ELSE IF asked \in FreeBasis THEN asked ELSE "never_sent"

\* partial_usage is provider_usage with another cost.
CallSettlement(basis, bound, cost) ==
    CASE basis \in FreeBasis         -> 0
      [] basis = "no_record"         -> bound
      [] basis = "provider_usage"    -> IF cost < bound THEN cost ELSE bound

SettleOneCall(c, basis, charge) ==
    call' = [call EXCEPT ![c] = [@ EXCEPT !.state = "settled", !.basis = basis,
                                          !.charged = charge]]

ReleaseCommittedBound(t, bound, charge) ==
    task' = IF Open(t) THEN [task EXCEPT ![t].committed = @ - bound + charge] ELSE task

SettleCall(p, c) ==
    /\ attempt[c] \in {"admitted", "unsent", "out"}
    /\ Owns(p, c)
    /\ \/ /\ Answered
          /\ \E asked \in AskedBasis(c), cost \in Costs :
                LET basis  == BasisTheRowAgreesWith(asked, call[c].sent)
                    charge == CallSettlement(basis, call[c].bound, cost)
                IN  IF Started(c)
                    THEN /\ SettleOneCall(c, basis, charge)
                         /\ ReleaseCommittedBound(call[c].task, call[c].bound, charge)
                    ELSE UNCHANGED rows
       \/ Unanswered /\ UNCHANGED rows
    /\ attempt' = [attempt EXCEPT ![c] = "over"]
    /\ UNCHANGED <<proc, live, sweep, beat, now, left>>

-----------------------------------------------------------------------------
(* Settling a task *)

\* Mutant: a call without an answer is free.
AfterACrashFree(k) ==
    [k EXCEPT !.state = "settled", !.basis = "never_sent", !.charged = 0]

\* What a call that nobody settled costs: sent decides.
AfterACrash(k) ==
    [k EXCEPT !.state   = "settled",
              !.basis   = IF k.sent THEN "no_record" ELSE "never_sent",
              !.charged = IF k.sent THEN k.bound ELSE 0]

SettleStartedCallsAfterACrash(t) ==
    call' = [c \in Calls |-> IF call[c].task = t /\ Started(c)
                             THEN AfterACrash(call[c]) ELSE call[c]]

\* What one row of calls table cs commits, and charges, for task t.
Commits(cs, t, c) ==
    IF cs[c].task # t THEN 0
    ELSE IF cs[c].state = "started" THEN cs[c].bound ELSE cs[c].charged

Charges(cs, t, c) == IF cs[c].task # t THEN 0 ELSE cs[c].charged

CommittedByCalls(cs, t) == SumTo([c \in Calls |-> Commits(cs, t, c)], MaxCall)
ChargedByCalls(cs, t) == SumTo([c \in Calls |-> Charges(cs, t, c)], MaxCall)

\* Mutant: committed is never re-added.
MarkSettledAsCommitted(t, reason) ==
    task' = [task EXCEPT ![t] =
        [@ EXCEPT !.state = "settled", !.charged = ChargedByCalls(call', t), !.reason = reason]]

\* committed is re-added only if a started call was found.
MarkSettled(t, reason) ==
    task' = [task EXCEPT ![t] =
        [@ EXCEPT !.state = "settled",
                  !.committed = IF call' = call THEN task[t].committed
                                ELSE CommittedByCalls(call', t),
                  !.charged = ChargedByCalls(call', t),
                  !.reason = reason]]

SettleIn(t, reason) ==
    IF Open(t)
    THEN SettleStartedCallsAfterACrash(t) /\ MarkSettled(t, reason)
    ELSE UNCHANGED rows

\* The end of a turn: settle, and stop the heartbeat whatever came of that.
EndTurn(p, t) ==
    /\ t \in live[p]
    /\ ~Attempting(t)
    /\ \/ Answered /\ SettleIn(t, "completed")
       \/ Unanswered /\ UNCHANGED rows
    /\ live' = [live EXCEPT ![p] = @ \ {t}]
    /\ UNCHANGED <<proc, attempt, sweep, beat, now, left>>

-----------------------------------------------------------------------------
(* The lease keeper *)

Renewable(p, t) ==
    t \in live[p] /\ Open(t) /\ task[t].owner = p /\ now < task[t].until

Heartbeat(p) ==
    /\ proc[p] = "up"
    /\ task' = [t \in Tasks |-> IF Renewable(p, t)
                                THEN [task[t] EXCEPT !.lease = now + Lease]
                                ELSE task[t]]
    /\ beat' = [beat EXCEPT ![p] = now]
    /\ UNCHANGED <<call, proc, live, attempt, sweep, now, faults, left>>

Lapsed(t) == Open(t) /\ (task[t].lease < now \/ task[t].until < now)

\* Mutant: a keeper looks only at what its own process reserved.
LapsedOfMine(p) ==
    /\ proc[p] = "up"
    /\ \E t \in Tasks : Lapsed(t) /\ task[t].owner = p
    /\ sweep' = [sweep EXCEPT ![p] = @ \cup {t \in Tasks : Lapsed(t) /\ task[t].owner = p}]
    /\ UNCHANGED <<rows, proc, live, attempt, beat, now, faults, left>>

\* Candidates are read without a lock.  Ticks may overlap, so they add up.
LapsedReservations(p) ==
    /\ proc[p] = "up"
    /\ \E t \in Tasks : Lapsed(t)
    /\ sweep' = [sweep EXCEPT ![p] = @ \cup {t \in Tasks : Lapsed(t)}]
    /\ UNCHANGED <<rows, proc, live, attempt, beat, now, faults, left>>

\* Mutant: a reason the column does not know.
LapsedReasonUnlisted(t) == IF task[t].until < now THEN "max_age" ELSE "crashed"

LapsedReason(t) == IF task[t].until < now THEN "max_age" ELSE "lease_expired"

\* Mutant: what was read as lapsed is settled.
SettleAsRead(p, t) ==
    /\ t \in sweep[p]
    /\ Answered
    /\ SettleIn(t, LapsedReason(t))
    /\ sweep' = [sweep EXCEPT ![p] = @ \ {t}]
    /\ UNCHANGED <<proc, live, attempt, beat, now, left>>

\* The claim asks again, under the row's lock, and settles in its transaction.
SettleOneLapsed(p, t) ==
    /\ t \in sweep[p]
    /\ \/ Answered /\ Lapsed(t) /\ SettleIn(t, LapsedReason(t))
       \/ Answered /\ ~Lapsed(t) /\ UNCHANGED rows
       \/ Unanswered /\ UNCHANGED rows
    /\ sweep' = [sweep EXCEPT ![p] = @ \ {t}]
    /\ UNCHANGED <<proc, live, attempt, beat, now, left>>

\* Teardown: the timer stops and the leases go back.  Turns still in flight
\* run on until the process ends.
ReleaseOwnLeases(p) ==
    /\ proc[p] = "up"
    /\ proc' = [proc EXCEPT ![p] = "draining"]
    /\ \/ /\ Answered
          /\ task' = [t \in Tasks |-> IF Open(t) /\ task[t].owner = p
                                      THEN [task[t] EXCEPT !.lease = now]
                                      ELSE task[t]]
       \/ Unanswered /\ UNCHANGED task
    /\ UNCHANGED <<call, live, attempt, sweep, beat, now, left>>

-----------------------------------------------------------------------------
Next ==
    \/ Advance
    \/ \E p \in Procs :
          \/ Boot(p)
          \/ Crash(p)
          \/ Heartbeat(p)
          \/ LapsedReservations(p)
          \/ ReleaseOwnLeases(p)
          \/ \E t \in Tasks : Reserve(p, t) \/ EndTurn(p, t) \/ SettleOneLapsed(p, t)
          \/ \E c \in Calls : MarkSent(p, c) \/ Fetch(p, c) \/ SettleCall(p, c)
          \/ \E t \in Tasks, c \in Calls : AdmitCall(p, t, c)

Spec == Init /\ [][Next]_vars

-----------------------------------------------------------------------------
(* Properties *)

\* Every row, counter and set of a process has its type.
TypeOK ==
    /\ task \in [Tasks -> Task]
    /\ call \in [Calls -> Call]
    /\ proc \in [Procs -> {"unborn", "up", "draining", "gone"}]
    /\ live \in [Procs -> SUBSET Tasks]
    /\ attempt \in [Calls -> Attempt]
    /\ sweep \in [Procs -> SUBSET Tasks]
    /\ beat \in [Procs -> Nat]
    /\ now \in Nat
    /\ faults \in 0 .. MaxFaults
    /\ left \subseteq Calls

\* A task's committed_micro is what its calls commit: the bound of a call that
\* is under way, the charge of one that is settled, through every admission,
\* late settlement and crash settlement.
CommitmentsAddUp ==
    \A t \in Tasks : task[t].state # "none" => task[t].committed = CommittedByCalls(call, t)

\* An enforced task never costs more than it set aside, and a settled task
\* costs exactly what its calls were charged, none of them still under way.
ChargedWithinReservation ==
    \A t \in Tasks :
        /\ task[t].mode = "enforce" => task[t].committed <= task[t].reserved
        /\ task[t].state = "settled" =>
              /\ task[t].charged = ChargedByCalls(call, t)
              /\ task[t].charged = task[t].committed
              /\ \A c \in Calls : call[c].task = t => call[c].state # "started"

\* The money of a task adds up while it runs and when it is settled.
MoneyAddsUp == CommitmentsAddUp /\ ChargedWithinReservation

\* A call whose request is not on record as sent is free.  An enforced request
\* that left is on record, and costs less than its bound only if the provider
\* said so: no crash, lost answer or keeper turns a served call into a free one.
SentIsPaidFor ==
    \A c \in Calls :
        /\ call[c].charged > 0 => call[c].sent
        /\ c \in left /\ Mode(c) = "enforce" =>
              /\ call[c].sent
              /\ call[c].state = "settled" /\ call[c].charged < call[c].bound =>
                    call[c].basis \in {"provider_rejected", "provider_usage"}

\* No two enforced tasks in flight share a slot, so there are never more of
\* them than there are slots.
SlotsAreExclusive ==
    \A t, u \in OpenEnforce : t # u => task[t].slot # task[u].slot

\* A settled task and a settled call are final: no late settlement, heartbeat,
\* admission or sweep moves them.
SettledIsFinal ==
    [][/\ \A t \in Tasks : task[t].state = "settled" => task'[t] = task[t]
       /\ \A c \in Calls : call[c].state = "settled" => call'[c] = call[c]]_vars

\* While a process heartbeats on time, nobody settles a task it is running
\* before that task's ceiling, however many other processes sweep.
LiveTaskIsLeftAlone ==
    [][\A p \in Procs : \A t \in live[p] :
          /\ proc[p] = "up"
          /\ Open(t)
          /\ task'[t].state = "settled"
          /\ live'[p] = live[p]
          => task[t].until < now]_vars

\* Nobody settles a task but its own turn or a keeper that finds its lease or
\* ceiling in the past at that moment: a process that stalled past its lease
\* and renewed it in time keeps a task that others had already read as lapsed.
RenewedTaskIsLeftAlone ==
    [][\A t \in Tasks : Open(t) /\ task'[t].state = "settled" =>
          \/ \E p \in Procs : t \in live[p] \ live'[p]
          \/ task[t].lease < now
          \/ task[t].until < now]_vars

=============================================================================
