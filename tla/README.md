# Driftstack control plane: a TLA+ verification project

Driftstack's API server (`apps/server`) is the control plane of a hosted
iPhone-Safari automation service: a Fastify process over Postgres and Redis. A
deploy overlaps two processes, a process may die at any step, and nearly all
coordination goes through database rows. This project models the parts of that
server where the order of steps decides whether work is lost, a customer is
charged or given a plan wrongly, or somebody acts without the authority to: the
durable job queue, the AI credit system, outbound webhooks, the plan of an
account, crypto payments, the auth cache, and the control of an agent session.

Paths below are relative to `src/apps/server/src/` unless they begin with `src/`.

## 1. Inventory

### Parts that are modelled

| part | state it keeps | operations | what is hard | what makes it correct |
|---|---|---|---|---|
| scheduled jobs (`services/scheduled-jobs.ts`, `db/scheduled-jobs-repo.ts`, the sweepers) | `scheduled_jobs` rows with a lock, a run time and an attempt count; handler invocations in flight | `enqueue` (with and without dedup), `claimDue`, `markComplete`, `markRetry`, `markFailed`, prune, re-arm, boot seeding | a poller without an in-flight guard, handlers that outlive the stale-lock window, crashes, settles that fail after their commit, chains that exist only as their own successor | outcomes are earned and final; a lock is respected; a chain neither dies nor fans out; a due row reaches an outcome |
| AI credit tasks and model calls (`services/credit-reservations.ts`, `db/credit-reservations-repo.ts`, `services/agent-credit-meter.ts`, `services/agent-decomposer-claude.ts`) | `credit_reservations`, `credit_model_calls`, the adapter's place in each call | reserve, admit a call, mark it sent, send it, settle it, settle the task | one account, several processes; the answer of a transaction is lost; a keeper settles what its owner is still settling | commitments add up; an enforced task stays inside its reservation; a sent call is never free; settled rows are final; slots are exclusive |
| AI credit lease keeper (`services/ai-credit-lease-keeper.ts`) | each process's live set and its last heartbeat | heartbeat, sweep of lapsed tasks, boot pass, lease hand-back | a stalled process renews a lease that others have read as lapsed; teardown races turns | a live or renewed task is left alone; an abandoned one is settled |
| AI credit account (`db/credit-ledger-repo.ts`, `services/credit-grants.ts`, `services/credit-clawbacks.ts`, `routes/admin-ai-credits.ts`) | `credit_lots` and their ledger totals, `credit_reservation_holds`, `credit_clawbacks`, `debt_micro` | refresh (expire, grant, take back, give back), reverse a payment, goodwill, forgive, reserve, settle | credit that is held cannot be taken and is claimed instead; lots end while a task holds them; payments may only be reversed from their own lots; what was taken, claimed or owed is given back when a payment's share rises again | holds are backed; the books balance; nothing is given back twice; no debt beside spendable credit; no claim outlives the last task; a reversal keeps to its payment; debt is the last resort |
| outbound webhooks (`services/webhooks.ts`, `services/webhook-worker.ts`, `db/webhooks-repo.ts`) | `webhook_endpoints` with a failure count, `webhook_deliveries` with status and attempts, the worker pool of each process | create, pause, resume, delete; fan-out; claim, post, record; replay, requeue, discard; auto-disable | claims rank on a snapshot older than their locks; workers stall past the stale window; records whose answer is lost; parallel dead letters | the rows implement an at-least-once contract; limits hold; a failing endpoint is disabled; every delivery is settled |
| authentication (`services/auth.ts`, `services/auth-cache.ts`, `services/auth-coalescer.ts`) | a Redis entry tagged with versions, two version counters, the slow path under way in each process | get with version gate and live re-reads, slow path, set, invalidate | a slow path writes after the revocation it missed; Redis fails or is emptied; a failure is shared by those who wait for it | no stale authority is granted, no request refused for an earlier failure; every request is answered |
| plan of an account (`services/stripe-webhooks.ts`, `db/stripe-webhooks-repo.ts`, `services/crypto-tier-activation.ts`, the grace and expiry sweepers) | the subscription mirror, `crypto_entitlements`, `accounts.tier`, the event ledger | apply a subscription event, recompute the plan twice over, end a grace, activate, refund and expire a crypto term | events repeat, overlap and arrive out of order; sweeps list first and write later; late events judge terms | the mirror converges; the plan is one somebody pays for; one payment buys one term; nobody is billed twice in silence |
| crypto orders (`services/crypto-orders.ts`, `routes/billing-crypto.ts`, `db/crypto-orders-repo.ts`) | `crypto_orders` with a mint claim, the provider's payments and notifications | mint and bind, apply a notification, activate, revoke, raise an alarm, cancel, expire, reconcile | two checkouts mint at once; notifications repeat and overtake; the process dies after the lock | only the bound address is shown; money and term answer each other; a closed order stays closed; money is answered |
| control of an agent session (`routes/agent-sessions.ts`, `db/agent-sessions-repo.ts`, `services/agent-runtime.ts`, `services/agent-pair-mode-*.ts`, `services/agent-executor-control-plane.ts`) | the row with mode, pair state and authority revision, the Redis takeover lock, the heartbeat tracker, the slot of the running turn | takeover, input event, mode change, stop, close; admit, verify, elect, dispatch, publish; heartbeat sweep; boot seed | control moves between any two awaits of a turn and may come back to where it was; the tracker dies with the process | a turn that lost control does nothing more; a stop is heard; a pending takeover stays in the sweep's view |

How they interact. A turn of an agent session opens a credit task
(`routes/agent-sessions.ts`), the model adapter meters every request through it,
and the end of the turn settles it. Every server process runs a lease keeper, so
any process may settle any process's task. Reserving first refreshes the account
(expiry and grants), then places holds on lots; settling releases them, charges,
pays claims and repays debt. Stripe events and paid crypto orders decide the
plan; a change of plan refreshes the credits and is announced to the auth cache,
as are revocation and suspension. Orders, plans and sessions raise events
that the outbound webhooks deliver. The grant jobs, the grace, expiry and
reconcile sweeps, and every other recurring sweep of the server, run as chains on
the job queue; that such a chain stays alive is what the fairness of the other
modules rests on.

### Parts that are not modelled

| part | why it matters | status |
|---|---|---|
| browser sessions | create under a limit and a profile lock; a session destroyed while its driver starts (`services/sessions.ts:648`) | open, see the plan |
| fleet control and correlators | a dispatch resolves once, by result, status, timeout or disconnect (`services/harness-dispatch-correlator.ts:132`) | open |
| sign-in flows | single use of tokens and challenges (`services/auth-flows.ts:1197`) | open |
| disputes that are won | cancelled clawbacks, what a dispute removed from months that have ended, and the terms a win sets for a give-back (`services/credit-clawbacks.ts:447`) | open |
| account lifecycle and deletion | purge after a grace period | open |
| webhook secret rotation | one statement; its forced form is not started | left out |
| agent telemetry and receipts | observability | left out |
| billing calls, email, incidents, status, cost, usage, audit, legal, team members, recipes, profiles, proxies, bring-your-own keys | I/O, reports and single-row writes | left out |
| `src/packages/*`, user interfaces and sites | schemas, clients, numeric synthesis, pages: by far the most lines of the repository | left out |

`PROJECT.json` lists every part with its sources, and the hazards at their lines.

## 2. Modules

| module | models | extends |
|---|---|---|
| `ScheduledJobs` | job queue, poller, recurring chains | |
| `CreditTasks` | tasks, calls, lease keepers of one account | `Sums` |
| `CreditAccount` | lots, holds, clawbacks, claims and debt of one account | `Sums` |
| `WebhookDelivery` | endpoints, delivery rows and worker pools; implements `DeliveryContract` | |
| `DeliveryContract` | what a delivery is promised, abstractly | |
| `AuthCache` | authentication of one credential | |
| `PlanTier` | subscriptions, crypto terms and the plan of one account | |
| `CryptoOrders` | one crypto order | |
| `AgentControl` | who controls one agent session | |
| `Sums` | the sum of a column over the first n rows, as a recursive function | |
| `..._proofs` | theorems about the module of that name: all of the above but `DeliveryContract`, whose refinement is in `WebhookDelivery_proofs`, and `Sums`, about which the proofs of the two credit modules each hold the lemmas they need | the module, `TLAPS` |
| `MC...` | instances for TLC: symmetry, and the fairness and liveness of jobs and tasks | |

Definitions commented `Mutant:` are faulty variants of the
definition that follows them. Nothing uses them; each shows that a property
would notice that fault. Properties that belong together are parts of one named
conjunction, and each part has a fault of its own.

### ScheduledJobs

A worker is one boot of the server: its id goes into `locked_by`. Every SQL
statement is a step, and so is the dedup transaction of `enqueue`, which holds an
advisory lock. An invocation goes through the stages of `runOne`: handler, for a
chain the sweep and then the re-arm, then `markComplete` or the catch block.
`Tick` claims a batch in `run_at` order and needs no earlier invocation to be
over, as the poller's timer has no guard. `Crash` drops a worker's invocations
and leaves its locks. A database call may fail before or after its commit
(`Fault`), `MaxFaults` times in all. `Seed` is the deduplicated enqueue of each
chain at boot, before the poller is armed.

### CreditTasks

One transaction is one step. `Reserve` (enforced or shadow) takes a slot and
enters the task in its process's live set; `AdmitCall` commits a call's bound;
`MarkSent`, `Fetch` and `SettleCall` are the steps of the adapter's attempt loop;
`EndTurn` settles the task. `Heartbeat`, `LapsedReservations` (the unlocked read
of candidates), `SettleOneLapsed` (the claim under the row lock) and
`ReleaseOwnLeases` are the keeper. A call's answer may be lost after its commit or
the call may fail. Prices and token counts are amounts the module is given. In
shadow mode the code does not wait for its metering statements; here each lands
at once or never.

### CreditAccount

Every writer takes the account's row lock first, so a transaction is one step and
is written as a chain of operators from account to account, in the code's order:
`ExpireDueLots`, `Granted`, `LevelReconciled`, `UnitReconciled`, `CoverReconciled`,
`SettleDebtFromFree`. An operator with several outcomes is the set of accounts it
can lead to. A lot's index is its place in the spend order; a new lot is
inserted where that order puts it. The code's loops over lots in spend order
are `Waterfall`: what the i-th pot gives towards an amount.

- `RefreshCredits` is `refreshCredits`; `Reverse(u)` a refund or a dispute of the
  payment behind unit `u`; `GrantGoodwill` and `ForgiveDebt` the admin routes;
  `Reserve` and `Settle` the account's side of a task.
- The refresh inside a reservation runs in a savepoint and may fail, so `Reserve`
  starts from the account as it is or from a refreshed one.
- What a task is charged is any amount up to its reservation: that bound is
  `ChargedWithinReservation`, proved of `CreditTasks`.
- How a plan's level, a window or an event's amount is computed is not modelled:
  a grant, a downgrade or a reversal is any amount of a small set, a reversal at
  most the unit's position, as in the code.
- A unit is reconciled in both directions (`UnitReconciled`, the code's mode
  `both`): the stand-alone cover's after each refresh and reversal, and a standing
  dispute's when a refresh changed what its payment bought. No dispute has to be won
  for that: a refund of the window's own payment raises the cover's share. Where the
  unit stands below its target, `GivenBack` releases its claims, undoes what it was
  charged beyond its lots (`ChargesUndone`: debt is forgiven, credit that repaid debt
  or paid a claim elsewhere goes back where it came from), puts the rest into the
  lots it was taken from or into a lot of its own (`Reinstated`), and takes the
  rounding straight back (`Trimmed`). `acct.back` holds the ledger totals of all this.
- By how much a unit stands below its target is a member of `Shortfalls`. How a
  repayment is attributed to the debts it repaid (`debtFates`) is any division that
  the totals allow.
- The COMMIT-time trigger `credit_check_reservation` and the CHECKs of the tables
  are not guards. They are properties (`TypeOK`, `HoldsAreBacked`,
  `NoDebtBesideCredit`): the model shows that no transaction is refused by them.

### WebhookDelivery and DeliveryContract

A claim is one statement that ranks due rows on its snapshot and locks them
later, skipping what is locked and testing again what changed: `ClaimRank` and
`ClaimLock`. A claimed row becomes a job of its process and goes through
`processDelivery`: look the endpoint up, post, record the outcome, and after a
dead letter count the failure and ask for the threshold. Time is abstracted to
what the code compares: a row is due or not, an in-flight row fresh or stale, and
due rows are ordered by when they became due. A fault is a crash, a stall past
the stale window, a failed call, or a commit whose answer is lost.

`DeliveryContract` knows only which deliveries are owed, delivered, dead or gone
and which the endpoint received. `DeliversAsPromised` states that
`WebhookDelivery` implements it with the statuses `pending` and `in_flight` mapped
to "owed".

### AuthCache

One credential, one account. Every query and every Redis command is a step, on the
fast path (`Get`, the version `Gate`, the live re-reads, `AnswerHit`) and on the slow
path that the coalescer shares (`FindApiKey`, `CaptureVersions`, `Recheck`,
`GetAccount`, `Set`, `Resolve` or `Reject`). A change commits first and is
announced later (`InvalidateKey`, `InvalidateAccount`), if the process lives. The
account's row is its grade, which each change raises, so that an answer's age can
be compared with the request's beginning.

### PlanTier

Stripe is the environment: it moves subscriptions through their statuses, issues
one event per move with the clock's second on it, and delivers each until it is
answered, by any worker, in any order, several at once. A delivery is the chain of
statements in `dispatch`: find the stored row, upsert under the recency guard, a
stale deletion's recompute, the replaced subscriptions (one read, `CancelReplaced`,
and then one call to Stripe for each, `CancelOne`, between which anything may
happen), the raise or the recompute of the plan, the ledger row. `Grace` and `Expiry` sweeps list, recompute and mark
in separate statements. Crypto terms are activated with stacking, refunded with
re-stacking, and expire. What Stripe is assumed to do: within one second a
subscription only moves forward in `SAME_SECOND_STATUS_ORDER`, two changes of plan
bear different seconds, and a cancellation always issues its `deleted` event.

### CryptoOrders

Checkouts claim the right to mint, create a payment at the provider, and bind it
or lose it; the provider moves payments and notifies of each move, repeatedly and
in any order. `ApplyIpnStatus` is everything under the order's row lock, its result
what is still owed after it: activation, revocation, an alarm, or just the answer.
The process may die in between (`IpnCrashes`), a side effect may fail, and the
reconcile sweep grants what a paid order still misses.

### AgentControl

One session and one server process. Every statement and every stretch of code
between two awaits is a step. `Change` is the trigger that raises
`authority_revision` with each change of status, mode or pair state. A turn is
admitted from one read of the row, verified by a second, takes the slot, and reads
the authority again before each intent. A stop is asked once more between that read
and the intent (`Dispatch`), but not between the last read of the authority and a
read of the page (`Look`, `ReadPage`), so one page read may leave after a stop and
`StopIsHeard` allows exactly one. The publication of its transcript is
fenced by revision in the database. History variables count what a turn does after
control has moved. A takeover is named by its request, whose client is taken to be
its own; a heartbeat is stale or not. The pair states behind `takeover-pending` are
left out: no code emits the transitions that lead there. Nothing sets a session
to `paused` either.

## 3. Runs

All instances are small; each bound is a constant of the module and is named in
the `.cfg`.

| run | instance | shows | states |
|---|---|---|---|
| `jobs` | 1 row of a kind with or without a handler, 2 workers, 2 attempts, 1 fault, quiet after 3, clock to 5 | `TypeOK`, `OutcomeEarned`, `FinishedIsFinal`, `LockedRowIsLeftAlone`, `DueRowIsWorked` | 85 thousand |
| `jobs_chains` | 3 rows of one pruning chain, 2 workers, 1 fault, clock to 7 | `ChainIsSound` | 198 thousand |
| `tasks` | 1 task, 2 calls, both modes, 2 processes, 1 fault; costs above and below the bound; heartbeats late | `TypeOK`, `MoneyAddsUp`, `SentIsPaidFor`, `SettledIsFinal`, `RenewedTaskIsLeftAlone`, `AbandonedTaskIsSettled` | 853 thousand |
| `account` | 2 units (one annual, also a cover), 2 lots, 2 tasks, 2 clawbacks, 4 moves (tasks, clawbacks, credits given back), clock to 1 | `TypeOK`, `HoldsAreBacked`, `BooksBalance`, `NothingOwedIdly`, `ReversalsKeepToTheirPayment`, `DebtIsTheLastResort` | 322 thousand |
| `hooks` | 1 endpoint, 2 events, 2 processes, 2 attempts, 1 fault, 1 request of the customer or staff | `LimitsHold`, `FailingEndpointIsDisabled`, `ClaimedRowIsLeftAlone`, `RecordsSpendOnce`, `DeliversAsPromised` | 396 thousand |
| `hooks_live` | 2 endpoints, 1 event, 1 process with one slot, 1 fault, 1 request | `OwedIsSettled` | 61 thousand |
| `auth` | 2 requests, 2 processes, 1 change, 1 fault | `AnswersAreEarned`, `CurrentEntryIsTrue`, `EveryRequestIsAnswered` | 56 thousand |
| `plan` | 2 subscriptions, 2 plans, 2 workers, 3 events, clock to 2, no failed payment and no fault | `PlanIsEarned`, `MirrorConverges`, `NoSilentDoubleBilling` | 576 thousand |
| `plan_live` | 1 subscription that may fall behind, 2 crypto orders, 1 worker, 2 events, 1 fault | `OnePaymentOneTerm`, `PlanIsEarned`, `PlanSettles` | 376 thousand |
| `crypto` | 2 payments, 2 checkouts, 1 notification at a time, 2 mints, 1 fault | `MoneyIsMet`, `OnlyBoundAddressShown`, `TerminalIsFinal` | 441 thousand |
| `crypto_live` | 1 payment, 1 checkout, 1 fault | `MoneyIsAnswered` | 19 thousand |
| `control` | 2 takeovers, 2 mode changes and 2 turns, any 4 of them, 2 intents per turn, 1 fault | `TurnsAreFenced`, `ParkedIsTracked`, `StopIsHeard` | 2.7 million |

Why the bounds are enough for the questions asked.

- Jobs: two workers and one row are what a fence is about: an overrunning
  invocation, its re-claim by the same or another worker, and the settles of both
  in either order. `StaleLock` 1 and a clock to 5 leave room for an overrun and a
  retry. Chains need the row that runs, its successor and one more, and
  `Interval` 3 above `StaleLock`, as in the code.
- Tasks: two calls of one task show one settled while the other is under way; costs
  1 and 3 against a bound of 2 make a call cheaper and dearer than its bound; a
  reservation of 2 admits the second call only after the first was settled below
  its bound. `BeatGap` 2 above `Lease` 1 is a stalled process.
- Account: two lots and two tasks give a task that holds one lot and one that holds
  parts of both; two clawbacks give a claim beside another claim; the clock to 1
  lets a lot end while it is held. A give-back of 1 where lots have 2 is a part of
  what was taken, and one more of the same shows whether it is given twice.
  `MaxMoves` 4 allows two tasks and two clawbacks, or a task, a clawback and
  two credits given back; grants, goodwill, forgiveness and expiry are not counted.
- Webhooks: two rows, two processes and a share of one are the smallest instance in
  which two overlapping claims exceed the share, and with a threshold of one the two
  dead letters cross it together. Liveness asks about a busy neighbour, hence two
  endpoints on one slot.
- Auth: one change is all that a late write, a lost announcement or an emptied
  Redis can get wrong; two processes give two coalescers, two requests one that
  waits for the other.
- Plan: two subscriptions whose three events (created, updated, deleted) reach two
  workers in any order. Failed payments, faults and crypto terms multiply the states
  and have their own run with one worker. That run issues two events; a subscription
  that recovers and falls behind again between a sweep's list and its mark takes four,
  and is left to the theorem `PlanIsEarnedHolds`. `NoSilentDoubleBilling` is asked without
  failed payments and faults: see section 4.
- Crypto: the race of two checkouts needs two payments and two mints; the second
  notification of either payment may come before, between and after what the first
  one owes.
- Control: four requests suffice for control to leave the AI and return (a takeover
  and a timeout, or two mode changes) while each of two turns is between two reads.

`CHECK_DEADLOCK FALSE` is set throughout: an idle queue and an account nobody
uses have nothing to do, and the bounded clocks and requests stop in the end.
Symmetry is used only in safety runs, over sets whose members the modules never
compare other than for equality.

### Fairness

- `jobs`: the clock runs, the service manager restarts a dead process, boot
  seeds its chains, pollers tick, and a started handler ends, normally or not.
  After `Quiescence` no process dies and no call fails; the assumption
  `Quiescence + StaleLock < MaxTime` leaves a lock the time to go stale.
- `tasks`: the clock runs, one process is up or still to boot, timers of a
  running process fire (`Heartbeat`, `LapsedReservations`) and a sweep goes
  through what it read. Ending a turn is not fair: a turn may hang, and the
  ceiling must then settle it. No teardown begins in the last moment of the
  bounded clock, as it would move a lease to a time that never passes.
- `hooks_live`: the poll timer fires, back-off and stale window pass, and every
  attempt ends by an answer or its timeout. Nobody has to resume an endpoint.
- `auth`: queries and commands are answered or fail. Nothing else is assumed, in
  particular not that Redis works.
- `plan_live`: Stripe goes on delivering while an event is not answered, whichever it
  picks, a delivery ends, and the grace and expiry sweeps are jobs that arm
  themselves again (`ChainIsSound`).
- `crypto_live`: the provider repeats the notification of a finished payment until
  it is acknowledged (strongly fair, since other notifications use the same
  workers), a request ends, and the reconcile sweep is a scheduled job.

## 4. Where comments and code part

Met while modelling. None of them refutes a property above; each is why a
property says what it says and not what the comment says.

- **A settle after an overrun.** The fence of `markComplete`, `markRetry` and
  `markFailed` compares worker ids. When a handler outlives the stale window and a
  later tick of the same process re-claims the row, the first invocation still
  matches and settles the row the second one is running.
  `db/scheduled-jobs-repo.ts:167` and `services/scheduled-jobs.ts:187` say such a
  write is discarded. `LockedRowIsLeftAlone` therefore excepts the same process.
- **Two paths to a charge.** When a keeper settles a sent call that its owner has
  already priced, the call costs its bound and not what the provider reported; the
  comments say both paths lead to the same charge. `SentIsPaidFor` allows both.
- **Debt for credit that was not spent.** A claim that its own payment's lots can no
  longer pay still counts against all held credit. A second payment reversed
  then owes debt for credit a task merely holds. `ReversalsWithinWorth` is
  therefore asked only while no other payment is taken back.
- **A late webhook record.** `db/webhooks-repo.ts:1095` says the record of a worker
  that stalled past the window is a no-op once another tick reclaimed and finalized
  the row. It matches again when that row, finalized as a retry, has been claimed a
  third time.
- **Requeue.** `services/webhooks.ts:1043` says a requeue rejects what is not in the
  dead letter queue; status and reset are two statements, and a delivery that was
  replayed and delivered in between is sent again. `DeliveryContract` lets anybody
  ask again for a settled delivery.
- **A request that joins a slow path.** `services/auth-cache.ts:19` says a revoked
  key stops on the next request. A request that joins a slow path which read the
  key before the revocation is granted. `AnswersAreEarned` speaks of requests that do
  their own work.
- **The best plan.** `services/stripe-webhooks.ts:1102` speaks of the best plan an
  account still holds; `downgradeAccountTierToBestRemaining` takes the granting
  subscription updated last. `PlanIsEarned` asks for a plan that is held, not the best.
- **A crash before the replaced subscriptions are cancelled.** The retry finds the
  new subscription already active and ends nothing (`services/stripe-webhooks.ts:911`),
  so that two collect. `NoSilentDoubleBilling` is asked without faults.
- **A first move that is overtaken.** The comment at `services/stripe-webhooks.ts:890`
  counts on the event of a subscription's first move into collecting. When that event
  comes after the one of a first failed payment, the mirror holds `past_due`, the
  event is stale and nothing looks for an older subscription. After the recovery both
  collect and nobody was told. `NoSilentDoubleBilling` is asked without failed payments.
- **The second past-due spell.** When the recovery between two spells is applied after
  the second one's event, `past_due_since` is the first one's, and the grace ends early.
- **A takeover whose commit was not answered.** `lib/bootstrap.ts:1956` promises that
  stranded takeovers are swept. One whose commit succeeded and whose answer was lost
  enters the tracker only at the next boot; `ParkedIsTracked` excepts it.
- **An old heartbeat.** A heartbeat left by an earlier takeover of a session can be
  found stale while a fresh takeover is committed and not yet recorded, and times the
  fresh one out; and the sweep's roll-back compares states that may have come round.
  Control returns to the AI either way, and no turn acts across it (`TurnsAreFenced`).

## 5. Proofs

All theorems hold for every value of the constants that satisfies the modules'
`ConstantsAssumption`: counts and bounds are natural numbers, thresholds and pool
sizes positive ones, endpoints and events finite sets, and `None`, which stands for
SQL's NULL or an absent object, is none of the values it stands in for (no worker
and no time in `ScheduledJobs`; `NoneAssumption` says it of the records of
`AuthCache`, `CryptoOrders` and `PlanTier`). `ScheduledJobs` also assumes `BackoffAssumption`,
that a power of two times a natural number is one, for want of a theory of powers
in the provers. `LiveTasksAreLeftAlone` assumes `BeatGap <= Lease`, which is what a
heartbeat interval shorter than the lease means.

| theorem | statement |
|---|---|
| `ScheduledJobs_proofs!TypeCorrect` | `Spec => []TypeOK` |
| `ScheduledJobs_proofs!OutcomeEarnedAlways` | `Spec => []OutcomeEarned` |
| `ScheduledJobs_proofs!FinishedIsFinalAlways` | `Spec => FinishedIsFinal` |
| `ScheduledJobs_proofs!LockedRowsAreLeftAlone` | `Spec => LockedRowIsLeftAlone` |
| `ScheduledJobs_proofs!ChainsNeverDie` | `Spec => []ChainAlive`, one half of `ChainIsSound` |
| `ScheduledJobs_proofs!ChainsAreSound` | `Spec => [](faults = 0 => ChainIsSound)` |
| `CreditTasks_proofs!TypeCorrect` | `Spec => []TypeOK` |
| `CreditTasks_proofs!CommitmentsAlwaysAddUp` | `Spec => []CommitmentsAddUp` |
| `CreditTasks_proofs!AlwaysChargedWithinReservation` | `Spec => []ChargedWithinReservation` |
| `CreditTasks_proofs!MoneyAlwaysAddsUp` | `Spec => []MoneyAddsUp`, both of them |
| `CreditTasks_proofs!SettledStaysFinal` | `Spec => SettledIsFinal` |
| `CreditTasks_proofs!SlotsStayExclusive` | `Spec => []SlotsAreExclusive` |
| `CreditTasks_proofs!RenewedTasksAreLeftAlone` | `Spec => RenewedTaskIsLeftAlone` |
| `CreditTasks_proofs!LiveTasksAreLeftAlone` | `Spec => LiveTaskIsLeftAlone`, if `BeatGap <= Lease` |
| `CreditTasks_proofs!SentIsAlwaysPaidFor` | `Spec => []SentIsPaidFor` |
| `CreditAccount_proofs!AmountsStayNatural` | `Spec => []TypeOK` |
| `CreditAccount_proofs!HoldsAlwaysBacked` | `Spec => []HoldsAreBacked` |
| `CreditAccount_proofs!BooksAlwaysBalance` | `Spec => []BooksBalance` |
| `CreditAccount_proofs!NothingEverOwedIdly` | `Spec => []NothingOwedIdly` |
| `CreditAccount_proofs!ReversalsAlwaysStayHome` | `Spec => []ReversalsKeepToTheirPayment` |
| `CreditAccount_proofs!DebtIsAlwaysLast` | `Spec => DebtIsTheLastResort` |
| `WebhookDelivery_proofs!DeliveriesKeepTheContract` | `Spec => DeliversAsPromised`, the refinement of `DeliveryContract` |
| `WebhookDelivery_proofs!ClaimedStaysAlone` | `Spec => ClaimedRowIsLeftAlone` |
| `WebhookDelivery_proofs!RecordsAlwaysSpendOnce` | `Spec => RecordsSpendOnce` |
| `WebhookDelivery_proofs!FailingAlwaysDisabled` | `Spec => []FailingEndpointIsDisabled` |
| `WebhookDelivery_proofs!LimitsAlwaysHold` | `Spec => []LimitsHold` |
| `AuthCache_proofs!AnswersAlwaysEarned` | `Spec => []AnswersAreEarned` |
| `AuthCache_proofs!CurrentEntryAlwaysTrue` | `Spec => []CurrentEntryIsTrue` |
| `CryptoOrders_proofs!MoneyAlwaysMet` | `Spec => []MoneyIsMet` |
| `CryptoOrders_proofs!ShownAlwaysBound` | `Spec => []OnlyBoundAddressShown` |
| `CryptoOrders_proofs!TerminalStaysFinal` | `Spec => TerminalIsFinal` |
| `AgentControl_proofs!TurnsAlwaysFenced` | `Spec => []TurnsAreFenced` |
| `AgentControl_proofs!StopAlwaysHeard` | `Spec => StopIsHeard` |
| `AgentControl_proofs!ParkedAlwaysTracked` | `Spec => []ParkedIsTracked` |
| `PlanTier_proofs!MirrorConvergesHolds` | `Spec => []MirrorConverges` |
| `PlanTier_proofs!PlanIsEarnedHolds` | `Spec => []PlanIsEarned` |
| `PlanTier_proofs!TierIsOwedHolds` | `Spec => []TierIsOwed` |
| `PlanTier_proofs!OnePaymentOneTermHolds` | `Spec => []OnePaymentOneTerm` |
| `PlanTier_proofs!NoSilentDoubleBillingHolds` | `Spec => [](faults = 0 => NoSilentDoubleBilling)`, if `~Dunning` |

`SlotsAreExclusive` and `LiveTaskIsLeftAlone` are proved only: their instances (three
tasks over two slots, punctual heartbeats) add nothing to the proofs.

The arguments.

- **Job queue.** `OutcomeEarned` is not inductive: a late settle could hit a
  finished row. `Inv` adds that only a pending row is locked
  (`OnlyPendingLocked`), so no fence matches a finished one, and that an
  invocation reaches `markComplete` only after its handler returned and counts no
  more attempts than its row (`InvocationSound`). Each action is shown to keep to
  one shape of row change (`StepShape`), from which all parts follow.
  `LockedRowIsLeftAlone` needs that a claim has one invocation
  (`OneInvocationPerClaim`): whoever passes the fence beside the current
  invocation is then an earlier one of the same process.
- **Chains.** `ChainAlive` says nothing of a handler between its re-arm and its
  settle. `ChainInv` does: while no call has failed, an invocation of a chain works
  on a row that keeps the run time it was claimed for, so that `markComplete`
  closes a row of the chain only when a later one is pending (`Succession`). That
  there is one successor at most is `FanInv`: a row of the chain that nobody has
  claimed is due after every other pending row and after every run under way.
  A re-arm inserts only where no pending row is due after its run, so by `FanInv`
  only where every row of the chain has been claimed; and while no call has failed
  no row is retried, so all of them were due by now and the new one is not.
- **Money of a task.** The totals in `CommitmentsAddUp` are sums over calls, so
  each action needs what one changed call does to a sum: the lemma `SumChange`,
  proved from a least-element argument rather than an induction scheme. `MoneyInv` adds that calls belong to existing tasks and that a
  charge is at most its bound; a settled task then has no started call, and its
  commitments are its charges.
- **Leases.** A running task's lease reaches at least one lease past its
  process's last heartbeat, or to the ceiling (`LeaseInv`). With heartbeats no
  further apart than a lease, a keeper that finds it lapsed finds the ceiling past.
- **Sent calls.** `SentInv` adds where the adapter is with each call: a
  request leaves only after its row is on record as sent (enforced mode), so a
  crash settlement that reads the row cannot miss it.
- **Account.** `AccountIsSound` is `TypeOK`, the books of every lot, clawback and
  give-back (`Sound`), what a payment taken back alone may be charged (`Worth`), that a task
  holds and was charged what its lots say (`TasksAreSound`), and `NothingOwedIdly`.
  A refresh is a chain of operators over the account, so each has a lemma that
  carries `Sound` and `Worth` through it, and says whether it only adds credit (`Up`)
  or takes it back and adds none but what it gives back (`Down`). `Moves` composes them: only in that order is a
  chain unable to owe beside free credit. Below them are lemmas about `Waterfall`:
  it takes no more than a pot has, and in total the lesser of what is wanted and
  what there is. A release pays claims lot by lot; its lemma goes over the lots with
  a least-counterexample argument, as `SumChange` does. `Worth` is the part
  `ReversalsWithinWorth` needs: what is charged is within what was used, and with the
  claims within what is held and used, so a claim that becomes debt when its hold is
  released finds the release counted as use. A give-back moves both sides of it
  alike: what it forgives or returns is undone of the charge and of the use. `Sound`
  says of it that a lot gets back no more than was taken from it or than it paid, and
  that no more of a unit's charges is undone than there was, so that the unit's
  position stays what its lots, its use and its charges say.
- **Webhooks.** The refinement needs `Grounded`: what a worker is about to record
  happened, each attempt it counts was claimed, and an event still listed has no
  rows. `RowSteps` then lists all a step may do to a row, and each is a step of
  `DeliveryContract` or a stutter. The cap of an endpoint is the hard part, as a
  claim ranks rows on a snapshot and locks them later, while other claims do the
  same. `SnapsFit` says of every ranked row that is still due that the endpoint's
  rows in flight and all its rows due before this one fit the cap together. A claim
  elsewhere only moves a row from the second set to the first, and a record only
  takes rows out, which is why snapshots may go stale in any order.
- **Authentication.** `AnswerInv` dates what each request relies on: the database
  only moves on from where it was when the request began (`BeganBefore`), and what
  the fast path or a slow path of its own has read is no older (`LiveReads`,
  `OwnSlowPath`). For `CurrentEntryIsTrue` the number of changes is compared with the
  number of announcements: while no call fails, changes are what the versions count
  and what is still owed (`Announced`), and an entry was read after its tag, so it
  counts at least the changes its tag does (`TaggedBefore`). An entry whose tag is
  current with nothing owed has therefore seen every change.
- **Plan.** `Basis` holds in all states, whatever is lost or repeated. Its parts say
  that what a subscription's events report is its past (`History`), that the last of
  them is in the mirror or is yet to be answered (`Coming`), that a delivery past its
  upsert finds the mirror no older than its event (`Deliveries`), and what rows,
  terms and sweeps are worth (`Rows`, `Terms`, `Sweeps`). `MirrorConverges` follows
  when no event is left. `Terms` says that the terms of a plan are apart and that
  each begins when it was paid or continues another; without the second part a
  refund, which moves the later terms up, could move one over its neighbour.
- **The plan an account is given.** `PlanIsEarned` speaks of settled states only;
  `TierIsOwed` is what holds between them: the plan is one that somebody pays for, or
  something still owes a recompute, namely an event not answered yet, a grace that ended
  unmarked or a term that ended unmarked. The hard steps are the ones that seem to
  do nothing, as an upsert that is skipped, a mark that follows a list made earlier,
  and a recompute that judges terms at its event's time and not the clock's.
- **Two subscriptions.** `DoubleInv` follows the second subscription from its
  first move on (`Stored`: a delivery that read the row before its first move is still
  to upsert it) and says of any two active rows that staff were told or that a
  delivery of one of them has yet to look for the other or to end it (`Pairs`).
- **Crypto orders.** `Owing` says that a notification under way still has before
  it the step that gives its answer; `Earned` and `Settled` tie orders, terms and
  acknowledgements to the payment. Each action is shown with the invariant to move the
  order only forward (`Forward`), so that an answer once given stays one.
- **Control.** `TurnInv` says that an open turn acts under the authority it was
  admitted with or the revision of the row is past it; since revisions only grow, a
  return to the same mode is no return of authority, and the one late intent was
  cleared before. `TrackInv` says what a tick of the heartbeat sweep may still forget
  or roll back (`MayForget`), and that this is never a takeover that came meanwhile.

Only model-checked: every liveness property, since fairness and ENABLED are outside
the prover, and two invariants where their theorems stop. The runs check no
invariant and no action property that lacks a theorem.

- `NoFanOut`, the other half of `ChainIsSound`, after a failed database call. It does
  not hold there for all constants: with a batch of one and a back-off equal to the
  interval of the chain, a handler that re-armed and whose settle then failed is
  retried at the very time of its successor, and a claim that takes the older of the
  two leaves the chain with two new rows. The code's times are milliseconds from two
  readings of the clock, where such a tie is a coincidence; the run keeps the
  back-off below the interval and has one fault.
- `NoSilentDoubleBilling` with failed payments or failed calls is false, see section
  4; the run and the theorem both exclude them.

What `SumTo` computes for every input would need an induction scheme, which the
prover cannot instantiate; only its changes and comparisons are proved.

## 6. What the models leave out

- Jobs: what each sweep does to other tables; job payloads.
- Tasks: prices and token bounds; the limit of 50 candidates per sweep;
  metering statements of shadow mode that land late.
- Account: a dispute that is won, the clawbacks it cancels and what it returns of
  months that have ended (`returnWhatADisputeRemoved`); revoked lots and bought
  top-ups; the yearly cap on debt; windows, levels and proration; ledger
  pages. The fixed order in which the code takes up several units of one refresh is
  a choice here: at most one unit per step of the chain.
- Webhooks: signatures, payloads, filters, urls, secrets, and how many claims one
  drain makes before the next poll goes on.
- Auth: key creation and scopes, the cache of invalid tokens, OAuth tokens, expiry.
- Plan: invoices, mails, prices the configuration does not name; a third
  subscription; two deliveries at once beside a crypto term.
- Crypto orders: the limits over all orders of an account, currencies, notes, and
  notifications that bear no paid amount, which the code judges by status alone. Two
  notifications processed at once overlap only after the lock; the run has one.
- Control: creation of sessions, the orphan reaper, what a turn plans and does in
  the browser, two server processes for one session.
- Composition: `CreditTasks` and `CreditAccount` meet only through
  `ChargedWithinReservation`; `CryptoOrders` ends at the term that `PlanTier`
  takes up; `PlanTier` and `AuthCache` meet in the grade of the account row.

## 7. Plan

1. Disputes won: the clawbacks a win cancels and what it returns of months that
   have ended, once.
2. `SessionLifecycle`: create, destroy, expiry, boot reconciliation; limits and
   the profile lock.
3. `FleetDispatch`: registration, replacement, correlators; a dispatch resolves once.
4. `CreditWindows`: windows, levels and proration as functions, checked against
   a reference definition over bounded inputs.
5. `NoFanOut` after failed calls, with the back-offs kept apart from the interval.
