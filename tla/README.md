# ShipTrip: formal models of the delivery escrow

ShipTrip matches a sender's parcel with a traveler's trip. The sender pays the
platform; the traveler is paid after the delivery was confirmed by code, a
protection window has passed and no dispute holds the money. This directory
models the part of the monolith (`src/backend/monolith/apps`) where that promise
is kept: the marketplace that makes a Deal, the payments that fund it, its
handover codes, disputes, cancellation and settlement, the two rails that pay
the traveler, the mails and ratings around it, the durable job queue everything
relies on, and the row locks that keep it all atomic.

Paths below are relative to `src/backend/monolith/apps` unless they start with
`src/`.

## 1. Inventory

Every writer of a funded Deal enters through `lock_deal_lifecycle`
(`core/financial_locks.py:288`), which takes the Deal, its request graph, its
codes, disputes and reports in one order and keeps them until the transaction
ends. So a service call is atomic against every other call on the same Deal, and
the hard behaviour is which calls come in which order, what a durable job finds
when it finally runs, what is decided from rows other than the Deal's, and what
happens around calls to a provider, which are made outside every transaction.

| Component | State | Operations | Hard behaviour | What makes it correct |
|---|---|---|---|---|
| Job queue: `finance/jobs.py`, `operations.py`, `run_finance_worker` | `ScheduledJob` rows: status, run_at, lease, attempts, resolution | schedule, claim, run, record, requeue, dead-letter, retry, resolve | several workers, crashes, leases expiring under live workers, updates by primary key from a stale snapshot, `schedule_job` saving a row it read without a lock | no promised operation is recorded as done while it is owed; every job settles |
| Deal lifecycle: `deals/lifecycle.py` | status, stored instants | the `apply_*` transitions | transitions requested by jobs, parties and administrators | status, codes and money tell one story |
| Handover: `handover/services.py` | one live code per kind, failures, lockouts | issue, arm, release, reveal, rotate, submit | early and late jobs, reveal racing release, rotation | no code before the buffer, none on an ended Deal |
| Disputes: `disputes/services.py` | `Dispute` rows | open, move, resolve, close | freeze racing release; resolving money that has moved | a dispute holds the money; it is decided once |
| Cancellation: `deals/cancellation.py` | no-show party | quote, cancel, record a no-show | races pickup and settlement | the refund matches the status |
| Settlement: `finance/settlement.py` | none of its own | plan and apply | integer split, money already sent | cents reconcile; one euro goes to one person |
| Payout: `finance/payout_release.py`, `payout_domain.py`, `payout_manual.py` | `Payout`, attempts, allocations, holds | gate, freeze, hold, prepare, begin, release, confirm | two-step instruction with gates asked again | paid once, only when earned |
| Payments: `finance/services.py`, `providers/` | orders, attempts, events, refunds | checkout, reconcile, recover, expire, refund | webhooks twice, late, out of order or never; unknown outcomes | a capture is applied or refunded once |
| Stripe rail: `finance/payout_execution.py`, `payout_reconciliation.py` | attempts, operations, disbursements | reserve, commit, transfer, bank payout, recovery | lost answers, crashes between call and record, keys past their window, webhook order | one transfer per instruction, within the award |
| Outbox: `notifications/outbox.py`, Go `email` worker | messages, receipts | enqueue, dispatch, cancel | cancel racing dispatch, stream entries and receipts lost | sent when it says so, and settled |
| Matching, parcels, trips, boosts: `matching`, `deals/services.py`, `parcels`, `trips`, `boosts` | offers, Deals, leg capacity, requests, journeys, Boosts | offer, read, accept, reserve, fund, expire, cancel | capacity races, expiry racing payment, a cancellation in several transactions | one Deal per request; a leg is not oversold |
| Ratings: `ratings` | ratings, reveal job | submit, look, reveal | simultaneous submissions, the window's end | blind until both rated or the window is over |
| Row locks: `core/financial_locks.py` and its callers | PostgreSQL row locks | every transaction | opposite orders, foreign keys checked at COMMIT | no circle of waits |
| Ledger: `finance/ledger.py` | postings | balanced transactions | idempotency | sums are zero, keys are unique |
| Arrival reports: `deals/arrival.py` | one report per Deal | report, decide | same-second report and delivery, both under the Deal's lock | it moves neither status nor money |
| Push: `notifications/push.py`, Go `notification` worker | devices, results | register, enqueue, consume | duplicate results | a dead token is retired once |
| KYC (Django and Go), chat (Go) | documents, messages | review, relay | streams and retries | independent of the money |
| Payout accounts, admin console, accounts, locations, routing, wallet, legacy payments and verification, web, mobile | views, reference data, old rows | | | no rule of their own |

`PROJECT.json` lists each with its status, and under `hazards` each place of the
code where an order of events, a stale read, a crash or a boundary could break
it.

## 2. The plan

Modules in order of importance; all of them exist.

1. `ScheduledJobs`: the queue everything else relies on.
2. `Settlement`, `SettlementDecision`: the arithmetic, for any amount.
3. `DealLifecycle`, extended by `Handover` and `PayoutRelease`; `Disputes` and
   `Cancellation` extend both; `DealSystem` composes them and implements
   `Escrow`. `DealClaims` states what documents say and the code does not do.
4. `PaymentOrders`, extended by `Checkouts`, extended by `Payments`, which
   implements `Custody`. `PaymentRecovery` adds the retry budgets of its jobs.
5. `StripeRail`: the automatic rail, for one payout.
6. `Outbox`: one mail, its two dispatchers and its consumer.
7. `Marketplace`: offers, reservations, Boosts and journeys.
8. `RowLocks`, instantiated by `LockOrder`: who waits for whom.
9. `Ratings`.

Proofs are in modules of their own: `JobProofs` (the queue, `Outbox` and
`Ratings`), `SettlementProofs`, `DealProofs`, which builds on it,
`PaymentsProofs`, `MarketplaceProofs`, `StripeRailProofs` and `RowLocksProofs`.
`SumLemmas` is what three of them need of sums.

Left for later, in this order: `Payments` with console and partial refunds and
several Deals per request; `StripeRail` with two executors and their leases, and
with reversals; the posting-key discipline of the ledger; the arrival report.

## 3. The modules

**`ScheduledJobs`** models the `ScheduledJob` table and the loop of
`run_finance_worker`. `row[j]` is the row of key `j`; `batch[w]` and `hand[w]`
are the Python objects a worker holds between transactions. One action is one
transaction: `ClaimDueJobs`, `StartHandler` and `RunHandler` (the handler's own
transaction, whose outcome is free within what `HandlerMay` allows),
`RecordOutcome` (the update by primary key), `RequeueStuckJobs`. `schedule_job`
is two steps when the row exists: it reads without a lock (`reading[s]`) and saves
by primary key later (`SaveReactivated`, `SaveMoved`), when the row may have been
retried, claimed or finished.

`gate[j]` is whatever makes a handler defer, and may close again. `duty[j]` is
domain truth: the operation is *owed*, *done*, or *excused*, which is what the
handler finds when it answers `frozen_by_dispute`, `finance_hold_active`,
`financial_state_...`, `blocked_...` or `no_op`: a normal answer with nothing
done, recorded as succeeded. An excuse may lapse (`ExcuseLapses`), and a job that
it let off is then owed and discharged at once; `lifted` remembers those until
they are armed again. `MeetElsewhere` is the same operation done by somebody
else, who may mark the row succeeded (`_finish_event`, `mark_refund_succeeded`,
`dispatch_promptly`). Time is reduced to the two comparisons the code makes,
`due` and `stale`. Operators and the domain act through `ResolveFailedJob`,
`RetryFailedJob`, `ReactivateCompleted` and `CancelJob`.

**`Settlement`** translates `plan_settlement`, `DealMoney.settleable_eur_cents`
and the late compensation of `build_quote` as operators. **`SettlementDecision`**
is the small state machine that asks them every question: any money, then one
award or one late quote. Its inputs are wider than what a Deal reaches (paid may
exceed collected), because the code has a refusal for exactly that.

**`DealLifecycle`** holds the Deal's columns and one operator per `apply_*`
transition, used as a conjunct by the operation that calls it. Instants are a
discrete clock `now`; a gate compares `now` with a stored instant, as in the
code. `picked_up` and `delivery_confirmed` are overwritten inside the
transaction that writes them and are not statuses of the model.

**`Handover`** holds the latest code row per kind and the job
`delivery_code_release`. A secret is abstracted to whether a submission matches:
`ConfirmPickup` and `ConfirmDelivery` are right submissions, `SubmitWrong` a
wrong one with its failure count, lockouts and lock. A rotation is a fresh row,
since a superseded row is never read again. `Promote` is what the job and a late
reveal share.

**`PayoutRelease`** holds the payout, the latest instruction, the reservation,
the refunds and both gate jobs. `ReleaseAnswer` keeps the early returns of
`evaluate_payout_release` in their order; `EvaluateRelease` adds what each
answer writes. `RailGate`, `Prepare`, `Begin`, `ReleasePreparation` and
`Confirm` are `payout_manual.py`; `CompleteManualPayout` is the legacy rail.
`Versioned` chooses between them, as `snapshot_version` does. `MaySettle`,
`Awarded` and `ApplySettlement` are `apply_settlement` inside its caller's
transaction. `Committed` is `_externally_committed_cents`.

**`Disputes`** and **`Cancellation`** are the two callers of settlement, each
operation one transaction: freeze, status, settlement and code retirement
together.

**`DealSystem`** is the interleaving of all of them from `fund_deal` on.
**`Escrow`** is the abstract promise: money goes back, or it goes to the
traveler once, never more than was captured. `ImplementsEscrow` maps
`toSender` to the live refunds and `toTraveler` to `Committed`.

**`PaymentOrders`**, **`Checkouts`**, **`Payments`** model one request with its
posting deposit, the Deal accepted on it with its balance, and the attempts to
pay either. In the first, the money columns of an order are definitions over
attempts and refunds, because every transaction that changes one of those ends
in `_recompute_order_money`. `Reconcile` is `reconcile_attempt`, one operator
per outcome; `CaptureUnapplied` is the path that turns money nobody can use into
a refund. `Checkouts` splits every provider call in three: the request leaves,
the provider acts, the answer is stored. `event[a][k]` is a webhook: received,
perhaps bound to another attempt, and driven again after a crash. `PollProvider`
and `RecoverSession` are the `provider_reconcile` job. In `Payments` a refund is
driven by several callers at once; `asked` holds their calls, `reversed` says
what the provider really did and `wired` what an operator sent by bank transfer.
`SettleRefundManually` takes any unsettled refund on any rail, as the service
and its view do; `raced` remembers where it met a call to the provider.
**`Custody`** is the abstract promise: a captured payment is applied or owed, and
what is owed leaves.

**`PaymentRecovery`** is `Payments` with the rows of the two jobs that finish what
was left undone. `poll[a]` is `provider_reconcile` and `drive[a]` is
`refund_reconcile`, each with the attempts it has spent; `tries[a]` is
`processing_attempts` of the refund. Every answer that is not final spends an
attempt, the last one leaves a dead letter (`Spend`), a refusal buries the poll
and makes the refund an operator's (`PollRefused`, `Refused`), and
`_schedule_refund_reconciliation` arms a dead letter only, not the row that is
running (`Reactivate`). What takes a lease from a live worker is the queue's own
question and left to `ScheduledJobs`.

**`StripeRail`** is one payout paid from several captures: `op[n][s]` is the
transfer operation and the allocation of slice `s` in attempt `n`, `dis` the bank
payouts as the code knows them and `bank` as Stripe does. `call` is what the
running `execute_payout` still has to do after its commit, with the answer it
holds but has not recorded; `Crash` loses it. An idempotency key is *unused*,
*fresh* or *stale*, which is all `_recover_unknown_transfer` asks of its age.
`seen` is what a webhook or a reconciliation retrieved and has not applied yet.
`MayBecome` is the transition table that makes the code raise.

**`Marketplace`** has one row per pair of request and journey, with the latest
match, its offer and the Deal it led to. `Active` is
`DealLegAllocation.objects.active()`, which stops counting a reservation when its
grace is over. `shown` is the Boost the other party has read. `cancel_journey`
commits its status first and works through its list in later transactions, so it
is five actions, one of them its death.

**`Outbox`** has the row, the dispatch in flight (three transactions with the
stream in between), the stream entry with its consumer's marker and receipt, and
the job that drives it next to the worker loop's own sweep of the same table. A
mail is withdrawn by its domain (`Withdraw`) or by an operator who dismisses its
failed job (`DismissMailJob`); other resolutions and a retry leave it alone.

**`Ratings`** has the two ratings, the clock against the review window, what each
party has been shown and the job that stamps.

**`RowLocks`** is PostgreSQL as the services use it: locks taken one by one, kept
to the end, in the three modes that occur. **`LockOrder`** gives it the code's
transactions, each as the sequence of rows and modes it takes, built from the
helpers the way the code calls them, the foreign key checks of an `INSERT`
included. `RankOf` is the order the docstring of `financial_locks` lists.

Operators named `Bug...` are the plausible mistakes each property is tried
against: a dropped guard, a missing reset, an order swapped. No specification
uses them.

## 4. What the runs check

| Run | Module | States | Shows |
|---|---|---|---|
| `jobs` | `MCScheduledJobs` | 362 k | no obligation lost but to a lapsed excuse, claims exclusive until the row is rewritten under its holder, every job settles or waits at a closed gate |
| `settlement` | `SettlementDecision` | 82 k | plans reconcile, nothing is paid twice, a larger refund never raises the payout, late compensation is whole |
| `deal_versioned` | `DealSystem` | 505 k | versioned rail: an escrow, one payout, earned, covered by the capture; buffer and protection window end |
| `deal_legacy` | `DealSystem` | 451 k | legacy rail: codes, statuses and refunds agree |
| `payments` | `Payments` | 1.15 M | money is collected, applied, owed and returned once, whatever webhooks, crashes and cancellations do; twice only by hand beside a call to the provider |
| `payment_recovery` | `PaymentRecovery` | 103 k | with webhooks lost, refusals and providers that never answer, a payment ends recorded or in a dead letter, an owed one returned or with an operator |
| `marketplace` | `MCMarketplace` | 579 k | one Deal per request, oversold only by late money, a Boost promised once, a cancelled journey left empty, a reservation ends |
| `stripe_rail` | `MCStripeRail` | 1.82 M | a transfer executes once, a cent is refunded or transferred, the award is exceeded only as section 7 says, one bank payout |
| `outbox` | `Outbox` | 330 k | a mail called sent was sent, a withdrawn one mints nothing new, every mail settles |
| `ratings` | `Ratings` | 136 | nobody rates after reading, every rating is stamped |
| `lock_order` | `MCLockOrder` | 70 k | of 67 transactions any two wait in a circle only around a withdrawn mail |
| `claim_award_exceeded` | `MCStripeRail` | | a statement of the code violated (section 7) |

### Bounds, and why they are enough

* Jobs: two workers on one row, since exclusion and late writing need no more;
  one crash and two attempts reach the dead letter, a retry and an overwrite; one
  process inside `schedule_job` (`Schedulers`) is enough to save a row late.
  `MaxReschedules` bounds how often a pending row's `run_at` is moved. The
  theorems have no bound.
* Settlement: `MaxCents = 4` reaches every branch and every remainder class of
  the split between two shares; the theorems remove the bound. `Rates` holds
  the ends of the range and rates that round.
* Deal: the clock stops at `MaxTime`, past the protection deadline and the
  arrival floor of the latest delivery, because `LastHandover` bounds when a
  code may be confirmed: each gate is seen both closed and open. `Floor` is
  later than the protection end of an early delivery, so both orders of the two
  gates occur. Two disputes show re-litigation. `Reward` and `Fee` of one or two
  cents give splits that round, full awards, nothing and everything. `MaxFailed`
  and `MaxLockouts` are one where the run is about money and two where it is
  about codes.
* Payments: two attempts, of which one can be superseded by the other on either
  order and one is on the rail without a refund call; two cents, so that a
  deposit covers half of the balance or all of it; calls that crash. A card rail
  that refuses is left to the next run (`MayRefuse`).
* Recovery: one attempt on the card rail, since the jobs are per attempt and
  share nothing, with crashes and refusals; the dinar rail has no refund call, so
  its refund is an operator's at once. Budgets of three and an escalation after
  two stand for 32, 32 and 8: the budget outlasts the escalation, and retries
  before and after each occur.
* Stripe: two captures make two slices, so that one can be refused while the
  other is unknown; two attempts and two bank payouts make a retry meet what it
  replaces; one lost answer of a first request or one crash, any number of lost
  answers of a recovery, and one refunded cent, each at any point. The second
  capture is larger than its slice, so that a refund or a second attempt finds
  something left. Of two `Readers`, which are interchangeable and so a symmetry
  set, each retrieves and applies at any two moments: with one of them a reading
  can be old when it is applied, with two they can be applied in the order
  opposite to the one they were made in. `BoundedFaults` lets both hold one only
  while nothing was lost, killed or refunded. The theorems have none of these
  bounds.
* Marketplace: two requests and one place on one leg is where capacity is
  contended; the Boost is zero or one.
* Outbox: two dispatchers, three event ids and two attempts let a message be
  minted again, stale and exhausted; one death. `Ratings`: a window of two, so
  that a submission comes before, at and after its end.
* Lock order: two shipments, because opposite orders need two rows of a class;
  two sessions, and `OrderedLocksNeverDeadlock` for any number.
* Deadlock is checked in `jobs` and `lock_order` only. The other systems really
  stop: a Deal is completed, a request cancelled, a mail sent.

### Fairness

* `jobs`: the clock, and every action of a worker's loop. The loop of
  `run_finance_worker` repeats requeue, sweep, claim and run for ever; a worker
  that stops for good is a `Crash`, which is never obliged to happen. Nothing is
  assumed of gates and excuses: an operator's switch may stay off for ever, and
  `EveryJobSettles` then leaves the job waiting.
* `deal_versioned`: the clock, and the worker running an **armed** job. Running a
  job again after its outcome was recorded can happen (a requeued lease) but is
  not relied on. No party, administrator or operator is obliged to do anything.
  `ProtectionEnds` assumes that no finance hold is ever opened; section 7 says
  what happens otherwise.
* `payment_recovery`: the worker runs the two jobs when they are due and requeues
  the one a dead worker left (weak), and a refund call ends somehow, unless
  processes die at it again and again for ever (strong). How it ends is free: no
  provider is obliged to act, and nothing is assumed of payers, webhooks,
  operators or new checkouts. The properties therefore end in what the code
  really guarantees, which includes the dead letter and the operator's flag.
* `marketplace`: time passes, and the sweep releases what is due.
* `outbox`: both dispatchers loop and retries fall due. Nothing is assumed of the
  stream or its consumer, which may lose every entry: a message then fails.
* `ratings`: the clock and the reveal job.

## 5. What is proved

Everything here holds for every value of the constants that the named
assumptions allow, and was first checked by TLC.

`JobProofs`, for any finite set of jobs and any workers, schedulers, attempts and
crashes. `IInv` joins the type invariant to what the two properties need. An
answer `ok` that a worker holds is about an operation that is not owed, unless the
excuse has lapsed (`AnswersStand`), which is why `NoLostObligation` is not
inductive alone: the recording step relies on what the handler's own transaction
found, and somebody else's steps come in between. A job that is armed again is no
longer `lifted`, except where a worker that lost it may still write an earlier
answer. A job whose row was never rewritten under a holder is held by one worker,
in one snapshot, of a row that is running, or succeeded because somebody else
finished the operation (`HeldIsRunning`); without the second case a row marked by
`mark_refund_succeeded` could not be told from a free one.

Two handlers are proved in the same module. `RatingsAreBlind`, for any window:
whoever was shown the other's rating can no longer rate, because both have or the
window is over, and neither of these is ever undone. `TransportIsNotDelivery` and
`NothingIsMintedAfterwards`, for any event ids, attempts and faults: a marker, a
receipt or a consumer at work follows a send; and after the first withdrawal, by
the domain or by a dismissal, every id the row, a dispatch in flight or the stream
names is among those noted at that moment, and a row that a late write or a retry
brings back still has its old id, so that no new one is minted.

`SettlementProofs`, for all natural amounts. The
arithmetic is that a quotient is bounded (`(n * r) \div (r + f)` lies in `0..n`,
so the traveler's floor never exceeds what is left) and monotone (so a larger
refund leaves a smaller floor). `EveryPlanIsSound` follows branch by branch, and
`PlansReconcile`, `PlansPayNothingTwice`, `RefundsComeOutOfTheShare` and
`LateQuotesAreWhole` from the invariant that what is on the table was planned
from the money beside it.

`DealProofs` proves the Deal in five layers, for any amounts and fee mode,
buffer, window, arrival floor, limits, and any number of disputes.

* The codes: `CodesIInv` adds to the two properties that a parcel in
  carriage was picked up, that a release follows a pickup, and that a live code
  has a lockout left. Without the first, a rotation could be thought to happen
  on a Deal in transit that was never picked up. All operations outside
  `apps/handover` are `Quiet`: they bring no Deal into carriage and at most
  retire live codes. So seven operations remain to be looked at.
* The payout: `PayoutIInv` says that the payout is `Gone` when it was paid
  or its instruction is exposed, that `dispatched` is then one and otherwise
  zero, that what is not cancelled fits the capture beside the refunds, and that
  a prepared or exposed instruction is covered by its reservation. `StepKinds`
  is the heart: whatever the Deal does, its money sees a move of the gate, a
  settlement of a sound plan (`EveryPlanIsSound`), or a step of a rail.
* The whole Deal: from `StepKinds`, every step is a step of `Escrow` or
  leaves refunds and commitments alone (`DealImplementsEscrow`). `IInv` joins
  the two invariants to `DisputeIInv`: one dispute is active at a time and a
  refund closes the Deal in its own step. `DisputesHoldTheMoney` and
  `RefundsAreFinal` follow.
* What is earned: `PaidIsAlwaysEarned`. Being earned is being delivered and past
  the gate, or, on the legacy rail, judged. The invariant adds that a payout
  which may be completed is already earned there, since `complete_manual_payout`
  asks nothing again, and that a decision is never taken back. The versioned
  rail needs less, for `begin` asks the gate once more.
* How it ends: `EndedDealsAreClosed`. A step either decides the Deal's money and
  closes it whole (`Ends`), or ends it only by letting its protection window run
  out and touches no code of an ended Deal (`Ongoing`). A window that runs out
  has used both codes, because it opened with the delivery. The theorem has one
  hypothesis, `CompensationIsPartial`: `build_quote` caps a late sender's
  compensation at the collected cash and not below it, so a policy without a fee,
  at `LateBps = 10000` and with a large cap, refunds nothing on a Deal that is
  then `partially_refunded`. `EndedDealsWithFeeAreClosed` shows that any fee rules
  that out; the seeded policy (1000 basis points, at most 15 euros) meets it on any
  capture of two cents or more.

`PaymentsProofs`, for any number of attempts on either rail, any amounts, crashes
and refusals, first `PaymentsImplementCustody` and `MoneyLeavesOnce`. Neither needs a
sum. `IInv` follows one attempt through its row, its session and its refund: a
session is paid only once its address was stored, and no call is on the way by
then (`Reached`); an attempt succeeds only on a paid session, money is owed only
on a success, and it has left when a call was answered or a refund succeeded; an
operator sends it only before the refund succeeded, so once (`Repaid`); a report of success is bound to the attempt it is about (`Informed`).
`Reached` is why a `failed` written by a late checkout call cannot undo a payment,
and `Informed` why a webhook bound by the order's reference, which may close
another attempt, cannot pay it. The marketplace, reconciliation and expiry touch
several attempts at once, but only in two ways: they close open ones and owe back
captured ones (`QuietAttempts`, `MoreIsOwed`), or one attempt succeeds. Each is
shown to be a step of `Custody` or none, and each other action moves one attempt.

`MoneyLeavesOnce` says of the two ways back that each is used once at most, and
both only where an operator's transfer met a call in flight or one whose answer
was lost. What decides it is that a refund is unsettled exactly until one of them
was recorded, and that a call still counted in `asked` is seen by the settlement.
That the provider refunds once is its key's promise and not proved.

`RecoveryIsPayments`: every step of `PaymentRecovery` is a step of `Payments`, or
of the job rows alone. So all that is proved of `Payments` holds under the retry
budgets, dead letters and escalation too, whatever their values.

On top of `IInv`, `MoneyInv` adds up what each order was paid, for
`NothingIsCollectedTwice`, `IdleMoneyIsOwed`, `DepositIsSpentOnce` and
`FundingIsReal`. What makes the sums inductive is what each attempt is to its
order (`Assigned`): an attempt on the unfunded balance asks for exactly what is
missing beside the credit, whenever it was opened, so the first capture that
counts pays the balance and the next finds the Deal funded and is owed back; a
deposit is owed back only while no Deal is credited with it. Every action either
leaves the priced rows and who is owed alone, or closes attempts that were not
captured, or lets one capture count, or owes back what no order uses, and each
of these moves a sum in one direction.

`SumLemmas` is the part about sums. `SumFunctionOnSet` of the library takes out
the element `CHOOSE` picks, so nothing follows from its definition for an element
one wants. `SumTakesOne` shows that any may be taken out first, by induction over
the subsets of a finite set. The induction is stated with the *set* of subsets
for which the claim holds, which needs no theorem with an operator parameter: it
follows from the well-foundedness of strict inclusion (`SmallestSubset`).

`MarketplaceProofs`, for any requests, journeys, candidates, weights and Boosts:
`OneDealTakesARequest`, `BoostsArePromisedOnce` and
`CancelledJourneysAreCleared`. The three properties and the type invariant are
almost inductive together: a Boost can only be edited on a request without a live
Deal, and only the uniqueness of that Deal says that funding one does not strip
another of its Boost. What is added is `Clearing`: while `cancel_journey` works,
the journey is already cancelled, so its list, read in an earlier transaction,
still names every unpaid Deal. `OneByOne` says the same candidate by candidate,
which is the form the steps are proved in.

`LegsCarryWhatTheyCan`, for any weights, capacities and covered legs: what a leg
carries *on time* never exceeds it. Acceptance compares all that counts with the
capacity; from then on a Deal leaves the sum or stays, and one that comes back
into it, paid after its grace, is late. So a leg that carries too much carries
something that came late.

`StripeRailProofs`, for any captures, award, number of attempts, bank payouts,
faults and readers: `EachSliceIsTransferredOnce`, `NoCentIsSpentTwice`,
`AwardIsTheBound` and `BankPaysOnce`. `RailIInv` says of each row what Stripe can
have done for it. An unanswered slice keeps its key, so a request under a fresh
key that had executed is repeated and not executed again, and past the window it
is only looked up; a run that was told "rejected" holds that very answer
(`SliceSound`, `TransferSound`). A bank payout that is out holds the allocation of
its disbursement, of which one is active; a disbursement lets go of it only when
the bank payout failed, was never made, or came back (`BankSound`, `OneActive`).
A reading says "paid" only of a payout that was once paid and "failed" only of one
that has failed, for ever, which is all that is left of its freshness when it is
applied (`ReadsSound`). The money is in sums: the greedy plan takes
the award and from no capture more than it has (`MoneySound`). Then `Orderly`: an
attempt that another replaced has released every slice. It is not an invariant.
The steps that break it are the two orders of events `AwardExceededOnlyByFault`
names, and `Faulty` says that they stay visible; the proof found the second, a
"paid" read before the bank took the payout back and applied after, which closes
the attempt although its money is on the account.

`RowLocksProofs`, for any sessions, rows and operations:
`OrderedLocksNeverDeadlock` says that a circle of waits contains a transaction
that takes contended rows against the documented order. Suppose none does, and
take the session of the circle that wants the row of the highest rank: the one
it waits for holds that row and wants another, of a still higher rank. Only the
transactions that hold something need the order, which the lemma
`OrderlyHoldersMove` says for any group of sessions. Foreign key checks are why
`Canonical` counts contended locks only: they come against the order and conflict
with nobody as long as no writer uses the stronger mode, which is the argument of
the docstring.

`OnlyMailDeadlocks` adds what the code's table looks like, `MailTable`: every
operation but the dismissal keeps the order, the dismissal takes the job and then,
last, the message, and whoever locks a message and goes on is withdrawing a mail.
So a circle has a dismissal that holds its job and waits for the message, and the
session that holds this message and waits itself is a withdrawal, which is
`OnlyMailWaitsInACircle` for any number of sessions and any such table. The
hypothesis is about the table alone. It is true of `AllOperations` over two
shipments, where TLC evaluates it when a module that extends `MCLockOrder` assumes
it; the module does not assume it itself because a writer that took a bare
`FOR UPDATE` is to show up as a circle of waits and not as a refused constant.

Only model-checked: liveness, which the proof system does not reach. Every
invariant of the passing runs is also a theorem. What no proof says is that the
transactions over more than two shipments still satisfy `MailTable`: `LocksOf`
names the same rows per shipment whatever their number, and TLC reads it for two.

## 6. What is abstracted or left out

The map names 12.6 of the implementation's 98.4 thousand lines. The rest is
mostly code without state of its own: views and serializers, the admin console,
provider adapters that translate JSON, migrations, geography and release tools,
and the clients, none of which a property here could tell apart.

Deal

* One capture of `Reward + Fee` stands for the balance order, the credited
  deposit and the boost orders, which `_refund_sender_share` spends in turn.
* A refund counts from when it is raised: one the provider refuses goes back to
  pending and still counts, so the sum of live refunds never falls.
* Of the reasons that block a payout only `payout_setup_required` is modelled,
  the one that a review changes.
* `Deal.CANCELLED` needs a funded Deal that collected nothing and is not
  reached from `fund_deal`.
* Left out because nothing in the modelled part reads them: events, audit rows,
  ledger postings, evidence files, arrival reports.
* Left out because they only refuse: party and capability checks, the
  attempts-per-window limit, provider mode, `expected_state_version`.
* `complete_manual_payout` locks the payout row and not the Deal. It is one
  atomic step here because it reads and writes that row alone, and a settlement
  only ever meets a payout that this call refuses.

Job queue: `prune_scheduled_jobs`, which deletes old finished rows; the payloads.

Payments: one Deal per request and one refund, of the whole amount, per attempt.
Left out are console and partial refunds, boost orders (historical), provider
mode, captures of another amount or currency than asked (they close the attempt
as a failure does), and the age of the idempotency keys: a checkout's, and a
refund's, where the provider is taken to refuse a second full refund of a charge
however old the key is. Three assumptions are about time. `RecoverSession` waits
until the checkout call is over, because the job is due five minutes after the
attempt's time to live and the call has an HTTP timeout of seconds; an operator
who queues the reconciliation within those seconds could see the late call write
`failed` over a success. A refund call that was given up before the provider
acted never acts later. A manual settlement is recorded when it is made: an
operator who has sent the money and is then told that the refund has succeeded
meanwhile is outside the model. In `payments` no card refund is refused; that
is `payment_recovery`, and the theorems have both.

Stripe rail: one executor, since the lease of a payout's job is `jobs`'s
question; the award is fixed and no dispute freezes it, which is `DealSystem`'s
part. Left out are reversals and the accounting rows, the readiness refresh and
the minimum amount, which only postpone. `canceled` and `failed` bank payouts
are one status: the code treats them alike. The connected balance may suffice at
any time, because it also holds other Deals' money.

Marketplace: KYC, flight proof and account gates, prices, leg ranges of a route,
which party acts, replacing a route, and the legacy flow. The publication gates
count as passed.

Outbox: the direct SMTP path of mails that carry a secret, the kill switch
(a gate of `jobs`),
rendering errors, a second consumer pod. Push is best effort and has no reader.

Lock order: a row locked again by its holder; the deletion of a draft journey's
legs; retired boost orders. `ReconcileAttempt` leaves out its second withdrawn
mail, which adds a message and a job of the classes it already takes, and the
update of a guest's payment link, which everyone takes after the order: neither
opens a new circle.

Not modelled at all: the ledger (balanced postings beside each transition, which
no decision reads back), payout accounts, KYC, chat, push, wallet and legacy
payments, the console's views, reference data and the clients. `PROJECT.json`
gives the reason for each.

## 7. Where the code and its documents disagree

One disagreement is a run. `claim_award_exceeded`: `finance/payout_execution.py:1117`
says "An ambiguous operation outranks new work: nothing new is dispatched for a
payout whose last instruction's outcome is unknown." The check below that comment
looks for operations marked *unknown* and for attempts that are live. In the run
Stripe refuses the first slice, which fails the attempt; the second slice's
transfer is then executed and the worker dies before it records the answer, so
the operation is still *committed* under a failed attempt. The next run of the
job sees neither, reserves a new attempt for the whole award from what is left,
and transfers it: more than the award has left the platform.

The following are definitions no run lists. To see one fail, put its name into
the configuration given and use the module that has it.

* `RunJobNeverRaises` (`ScheduledJobs`, `MCScheduledJobs.cfg`).
  `finance/jobs.py:899`: "Never raises". A late failure written at line 978 over
  a row that was failed and resolved meanwhile violates
  `fin_job_resolution_complete`; the exception drops the rest of the batch.
* `NoSecondPartyDispute` (`DealClaims`, `MCDealVersioned.cfg`, like the next
  four). `src/docs/PHASE4_HANDOVER_DISPUTES.md:320-321`: "a party cannot open a
  second dispute once one has been resolved". Closing the resolved dispute lifts
  the refusal; the settlement bounds still hold.
* `ClearedHoldRestoresProgress`.
  `src/docs/PHASE8F_H7_FULL_TEST_PAYOUT_REHEARSAL.md:252`: "clearing the hold
  restored progression". Jobs that met the hold are discharged and `clear_hold`
  schedules nothing.
* `OnlyLiveInstructionsReserve`. `finance/payout_domain.py:113-114`: a reservation
  that never executed is undone by a `PayoutFundingRelease`.
  `cancel_prepared_locked` creates none, so after a full award `prepare` finds
  the capture still bound.
* `EarlyAwardIsReleased`.
  `src/docs/PHASE8F_H0_PAYOUT_FINANCE_ARCHITECTURE.md:381`: an early resolution
  "waits until the original protection deadline". A partial award made inside
  the window never becomes eligible after it: the refund makes the release check
  answer `financial_state_...`.
* `EligibleAwardCanBePrepared`. The same line: settlements are "explicit
  alternative eligibility bases". The gate of the manual rail asks for a delivery
  and for an order without refunds, so such an award is eligible and cannot be
  prepared.
* `NobodyWaitsInACircle` (`MCLockOrder`). The docstring of `financial_locks` ends
  its order with `ScheduledJob` and forbids a bare `select_for_update()`.
  `cancel_message` (`notifications/outbox.py:209`) uses one on the message and
  then updates the job; `resolve_failed_job` (`finance/operations.py:171`) locks
  the job and then the message. The server aborts one of the two.
* `DuplicateChangesNothing` (`MCStripeRail`). The comment of `_apply_payout_side`
  (`finance/payout_reconciliation.py:589`) lets a repeated report record nothing.
  A second delivery of a failed bank payout, applied after the operator has
  retried, fails and blocks the payout again, and a person must retry once more.
* `LegNeverOversold` (`MCMarketplace`). `deals/services.py:294-296`: "Funding a
  Deal whose capacity is gone would silently oversell a leg, so refuse". The
  refusal looks for pending allocations; one whose grace has lapsed but which
  the sweep has not released is pending and no longer counted, so its place can
  be taken before the late payment funds it.
* `FundedJourneyStands` (`MCMarketplace`). `trips/services.py:304`: "A journey
  with a funded or operational deal cannot be cancelled." A reservation that is
  paid between the status' commit and the release of the list ends as a funded
  Deal on a cancelled journey.
* `HeldDepositIsGuarded` (`Payments`). `finance/services.py:884-886`: a request
  can never be public "without its refund obligation also existing". The expiry
  job that finds a match is discharged; when the Deal is released afterwards the
  request is open again and nothing returns its deposit.
* `EventsFindTheirAttempt` (`Payments`, with `Dinar = {}`).
  `finance/services.py:1879`: "a late event can never be bound to the wrong
  attempt on an order that has several". The event of a first attempt whose
  session was never stored is bound to the second attempt while that one has
  none either.

* `OneWayBack` (`Payments`). The docstring of `mark_refund_succeeded`
  (`finance/services.py:2557-2559`): an operator calls it "for a rail that has no
  refund API". `settle_refund_manually` and its view accept any unsettled refund
  on any rail, also one whose provider call is in flight or has been carried out
  with its answer lost. The money then leaves by both ways.

Consequences of the code, not claimed otherwise or only in passing:

* A job whose handler met a hold, a dispute or a blocked payout is recorded as
  succeeded. When the cause is over it is owed and nobody runs it, unless its
  domain arms it again (`lifted`).
* `schedule_job` may save `pending` over a row that an operator has retried and a
  worker has claimed since it was read: a second worker claims it beside the
  first, without any lease having expired (`overtaken`).
* A payment whose webhook is lost and whose provider stays silent for 32 polls
  ends as a dead letter; nothing but an operator records it after that. A refund
  that is refused is an operator's at once, one that is not answered after
  eight tries.

* `requeue_stuck_jobs` takes a lease from a live but slow worker, so the "lock"
  of `finance/jobs.py:12` stops concurrent runs only below that time.
* A rotation after the buffer issues an active delivery code for a Deal that is
  not released; it cannot be submitted until then.
* An administrator's dispute about a versioned payout already committed can never
  be resolved: `require_uncommitted` refuses every settlement. A dispute closed
  without a decision while the parcel is on its way leaves the Deal disputed.
* A transfer operation left committed by a crash is sent again without asking
  its key's age, unlike an unknown one (`Late`).
* A worker that dies after a bank payout was created leaves its disbursement
  committed; the webhook for it opens a hold on the account, which `clear_hold`
  does not reach.
* A bank payout's observation is dated when it is applied, so the guard of
  `finance/payout_models.py:751` against an older answer never fires.
* A reading that says "paid", applied after the bank took that payout back, moves
  the Payout to paid and its attempt to succeeded. If the next bank payout,
  already under way, is then refused, the Payout is failed without a block reason and without a live attempt,
  and the job reserves and transfers the award once more
  (`AwardExceededOnlyByFault`).
* A slice accepted after its sibling's refusal had failed the attempt revives it,
  without the hold that the opposite order opens.
* A request that expires keeps its pending offers; none can be accepted.
* `cancel_message` runs inside the transactions that record a payment or open a
  dispute. If the mail's job has failed and was resolved, the constraint
  `fin_job_resolution_complete` refuses the update of that job and with it the
  whole enclosing transaction (`notifications/outbox.py:221`).

## 8. Running

    tlc -workers 2 -config MCDealVersioned.cfg DealSystem
    tlapm PaymentsProofs.tla

`PROJECT.json` names the module and the configuration of every run, the mutant
that each property is tried against, and the source lines of every definition.
