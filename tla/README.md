# Formal model of the battery rental service

TLA+ modules, TLC runs and TLAPS proofs about the Go service under `src/`: a
backend for renting batteries out of cabinets. A user scans a cabinet, a deposit
is frozen in the wallet, a door opens; a cabinet that detects the battery again
settles the rental out of the deposit. Cabinets report late and repeatedly, doors
jam, operators step in, and payments come from a provider that calls back as often
as it likes. What can go wrong is money and exclusivity: a deposit frozen twice,
settled twice or not at all, a payment credited twice or lost, a battery rented by
two users, a settled order that starts to rent again.

Paths below are relative to the repository; line numbers are those of
`PROJECT.json`, whose `map` gives the lines every definition models.

## 1. Inventory

| Part | Source | State | Operations | Model |
|---|---|---|---|---|
| Rental start | `handlers/rental_service.go` | `rental_orders`, `slots`, `batteries`, `users.balance`, `deposit_records` | ScanAndRent, createAbnormalOrder, markSlotAbnormal, ConfirmUnlock, ReportUnlockFailure | `OrderLifecycle`, `SettlementRaces` |
| Returns | `handlers/return_service.go` | the same, `return_records`, Redis `report:*` | DetectBatteryReturn, ManualReturn | `OrderLifecycle`, `SettlementRaces`, `ReturnReports` |
| Cross-return judgement | `handlers/return_service.go:641` | none (a function) | evaluateCrossReturn, classifyCrossReturn | `ReturnReports`; in the other modules its outcome |
| Loss, damage, disputes | `handlers/op_service.go`, `api/router.go` | orders, wallet, `dispute_records` | MarkLost, MarkDamage, CreateDispute, HandleDispute | `OrderLifecycle`, `SettlementRaces` |
| Compensation of abnormal orders | `handlers/report_service.go`, `api/router.go:950` | orders, wallet | handleCabinetRecovered, handleUnlockSuccess..., handleUnlockFailure..., decideCompensation..., HandleAbnormalCompensation | `OrderLifecycle`, `SettlementRaces` |
| Device reports | `handlers/report_service.go` | `cabinets`, `slots`, `cabinet_reports`, Redis `rpt:*`, `last_seq:*` | Heartbeat, LockReport, SlotReport, BatteryReport, OfflineReplay, saveReport | `DeviceReports`; the effects in `OrderLifecycle`; SlotReport's race in `SettlementRaces` |
| Payments | `handlers/op_service.go:38-236` | `payment_records`, wallet, Redis `pay_cb:*`, `lock:pay_cb_lock:*` | Recharge, HandleCallback, MockPay | `PaymentCallback` |
| Billing | `utils/utils.go:123` | `billing_rules` | CalcFee; CreateRule, UpdateRule | `BillingFee` |
| Redis locks | `redisx/redis.go` | keys with a time to live | AcquireLock, Release (Refresh is never called) | in `PaymentCallback`, `SettlementRaces`, `ReturnReports`, `DeviceReports` |
| Row locks | every transaction; `database/database.go:84` | PostgreSQL's row locks | SELECT FOR UPDATE, UPDATE, foreign keys | `RowLocks` |
| Stock administration | `api/router.go:494-680, 851` | cabinets, slots, batteries | AssignBattery, UpdateCabinet; CRUD | AssignBattery, UpdateCabinet |
| Repair orders | `handlers/op_service.go:592` | `repair_records`, `cabinets.status` | CreateRepair, ResolveRepair | `OrderLifecycle` |
| Idempotency middleware | `middleware/middleware.go:107` | Redis `idem:*` | Idempotent | no |
| Authentication, queries, start-up, migration | `auth`, `middleware`, `api`, `cmd`, `config`, `database` | accounts | | no |

The parts are handlers of one HTTP server, which run concurrently and share only
PostgreSQL and Redis. A handler typically takes a Redis lock, reads rows without
locking them, checks them, opens a transaction, locks and re-reads *some* rows
(usually just the wallet), writes whole rows back and commits. Lock names differ
between the handlers: `user_rent:{user}`, `return:{battery}`, `op_order:{order}`,
`comp:{order}`, `order_comp:{order}`, `dispute:{id}`, and for an operator's
compensation none at all.

Hard behaviours, each listed with its line under `hazards`: stale reads written
back after another handler's commit; handlers of one order under different locks;
a device report that decides several orders one by one, each in its own
transaction; late and repeated reports that meet a slot which serves somebody else
by now; numbers and keys of reports that are taken in separate calls;
deduplication keys that outlive the failure of what they deduplicate; locks that
expire under their holder; transactions that lock the same rows in different
orders; fee caps that meet.

What makes the parts correct:

- rentals and returns: a deposit is frozen once, settled once and completely; the
  wallet reconciles with payments and deposits; a settled order stays settled; one
  rental per battery and per user;
- compensation: an abnormal order ends without its deposit, is never decided
  twice, and no other rental suffers;
- reports: each takes effect at most once, in the order of the cabinet's numbers,
  and a return ends the rental it is about and no other;
- transactions: handlers do not wait for each other in a circle;
- payments: credited exactly once if successful, success is final, and what is
  acknowledged is not lost;
- billing: caps, honesty of `fee_cap_hit`, monotonicity.

## 2. Modules

`RentalStore` declares the tables and the transactions that settle an order, each
taking the order row *as the handler read it*. Two modules use it:

- `OrderLifecycle`: every handler is one action on the current rows. It answers
  whether the handlers are right when they do not overlap. The exception is
  modelled here already: a report first lists orders (`pending`), then decides them
  in separate steps (`DecideListed`).
- `SettlementRaces` extends it: a request starts (takes its Redis lock, reads), and
  finishes (commits from what it read, kept in `work[r].got`), with other requests
  in between. `Families` says which handlers may overlap, so that a run can ask
  about one pair; `Expiring` says which Redis locks may end under their holder.
  Scans that fail and inventory reports (SlotReport) are split like the others.
  Handlers that lock the rows they read, or write columns without reading, stay one
  step.

Three modules look at one layer each, and leave the money to those two:

- `DeviceReports`: saveReport, its callers and OfflineReplay, one step per call of
  Redis or PostgreSQL: key, `last_seq`, row, effect. What a report says is its number,
  so that a column shows which report it comes from. `Overlap` says which requests run
  at a time, `Faults` which calls fail.
- `ReturnReports`: DetectBatteryReturn from the arrival of a report to the answer, and
  ManualReturn beside it. The batteries themselves are part of the state (`place`), so
  that a report is *about* a rental: the one the battery came from when it was put in.
- `RowLocks`: each transaction as the list of row locks it takes, read off its
  statements and the foreign keys of what it inserts (one definition per handler).
  Transactions take their locks one by one, wait, and are aborted in a deadlock.

`LifecycleClaims` states that `OrderLifecycle` implements `DepositAccount`, the
abstract specification (open a deposit one can afford, close it once, split it),
under a refinement mapping, and holds the claims of documents and remarks that the
code does not keep. `PaymentCallback` is the callback, step by step, with faults.
`BillingFee` is CalcFee and a rental whose rule may change under way.
`OrderLifecycleProofs`, `WalletProofs`, `SettlementRacesProofs`,
`ReturnReportsProofs`, `DeviceReportsProofs`, `PaymentCallbackProofs`,
`BillingProofs` and `RowLocksProofs` hold the proofs. `MC*` modules give constants to TLC.
Operators commented "Mutant of ..." are wrong variants that a property must reject; they are used nowhere else.

### How state corresponds to the code

| Model | Code |
|---|---|
| `balance[u]` | `users.balance` |
| `orders[o]` | `rental_orders`: `status`, `depositAmt`, `depositStatus` (0 none, 1 frozen, 2 closed), fees, `comp` = `compensation_status`, `started` = `start_time IS NOT NULL`, `reason` folded to "offline" or "another failure" |
| `ledger[o]` | `deposit_records` of the order, summed per action |
| `returned` | `return_records.order_id`, unique |
| `slots[s]`, `batteries[b]`, `cabinets[c]` | their rows |
| `pending` | orders a running report has listed and not decided |
| `filed`, `disputes` | `dispute_records`; 0 for a closed one |
| `credited[u]` | successful `payment_records`, summed (history) |
| `attempted` | slots whose door was tried: only those report an unlock result |
| `pays[p]`, `seen`, `lock` | `payment_records`; the Redis keys `pay_cb:*` and `lock:pay_cb_lock:*` |
| `reqs[r]` | a running HandleCallback: where it is, and the row it has read |
| `work[r]` | a running handler: its kind and what it has read |
| `keys`, `lastSeq` (`DeviceReports`) | `rpt:*`, `offline_rpt:*`; `last_seq:{cabinet}` |
| `rows`, `shown`, `acted` | processed `cabinet_reports`; the report each slot (and, at 0, the battery) row shows; lock reports acted upon |
| `recovered` | whether handleCabinetRecovered ran since the cabinet was last set offline |
| `keys`, `lock`, `records` (`ReturnReports`) | `report:{cabinet}:{slot}:{seq}`; `lock:return:{battery}`; `return_records` |
| `reports`, `place` (`ReturnReports`) | what cabinets measured and may send at any time; where the batteries are |
| `job`, `taken`, `outcome` | a transaction's handler and rows; how many locks of its plan it holds; its end |

Actions carry the handlers' names. ScanAndRent has several: the outcomes of its
checks (`ScanOutcome`) lead to `ScanAndRent`, `ScanSlotFailed`,
`ScanBatteryUnusable`, `ScanCabinetDown` or `ScanFindsCabinetSilent`; an outcome
that changes nothing has no action. A foreign key that aborts a transaction (an
order or a return record without a battery or an order) shows as a missing action.

### Abstractions and assumptions

- Time is nondeterminism: whether a cabinet has been silent for five minutes,
  whether an order is older than 1, 24 or 48 hours, what a rental costs (`Fees`;
  0 without a `start_time`). State of charge is `charged` and `suspect`.
- Lock and unlock reports name existing slots. Battery statuses `charging` and
  `repair` and slot status `fault` are left out of `OrderLifecycle`: no handler assigns
  them. A cabinet may be under repair (`maintenance`) from CreateRepair to
  ResolveRepair, or as UpdateCabinet sets it; a scan then fails as for any cabinet that
  is not online. `repair_records` are read by no handler to decide anything.
- A dispute decision other than `resolve`/`partial` acts like a rejection.
- The update of `exception_records` in decideCompensationActionWithReason
  (`CONCAT(description, ?)`) is assumed to execute.
- Redis and PostgreSQL survive crashes of the server and execute each call
  atomically. go-redis refuses a call whose context is cancelled. Lock tokens are
  unique. The 30-day life of `pay_cb:*` keys is longer than any behaviour here.
- In `SettlementRaces` only the locks in `Expiring` may end before their holder.
- `DeviceReports`: one cabinet; live reports carry a number (a report without one has
  no key and is applied as it comes); `last_seq` does not expire; keys expire when no
  request is running. The README's 30 days are 7 for live reports in the code, which
  makes no difference here: keys expire at any time. A batch lists each number once.
- `ReturnReports`: the 7 days of `report:*` keys outlast a behaviour; a battery that is
  put in is detected once, and that report may be sent at any time and any number of
  times. At the start a slot holds one battery at most (`Stock` is injective). Fees are
  left out. Three attempts to take a lock are one.
- `RowLocks`: a transaction takes the longest way through its handler and is asked only
  for locks that another one could hold (not for cabinets, rules or new rows).
- `BillingFee`: durations are not negative, the float division rounds up exactly
  (true below 2^53), and `unit_min` is positive.

## 3. Runs

Bounds are constants: `MaxOrders`, `MaxBalance` (top-ups stop), `MaxFee` (damage
fees stop), `MaxDisputes`, `MaxDeliveries`, `MaxSeconds` with `Step`, `MaxSeq`,
`MaxRentals`, `MaxManual`, `MaxFaults`. Deadlock checking is off where a bounded
system may use its bounds up, or nobody has to rent, pay, return or report; it is on
in `RowLocks`, where every state must have a way on.

| Run | Checks | Instance and why it is enough |
|---|---|---|
| Settlement | types, deposits, wallet, refinement of `DepositAccount` | one user, battery, slot and order; fees and compensations below and above the deposit; a damage fee, a dispute, refunds of 0 and 1. All statuses and all paths between them occur; deposits of different orders share nothing but the wallet |
| Exclusive | `BatteryExclusive`, `OneRentalPerUser` | two deposit-free users (money cannot matter), two batteries, one slot; `PlainSpec` leaves out recreated orders and operators moving rented batteries, the two ways the code does break exclusivity; users are symmetric |
| PayFaults | `CreditedOnce`, `SuccessIsFinal`, `LockComesBack` | every kind of callback, two handlers, four deliveries, crashes, hang-ups, failing transactions |
| PayConfirmed | `AcknowledgedIsCredited`, `DeliveredIsCredited` | no faults, only successes; three handlers so that two can lose the lock to a third |
| SameLock | deposits, wallet and finality under overlap | two requests (symmetric) of handlers sharing a lock, or of one handler with credits and disputes; the lock of returns may expire |
| Scans | `BatterySoldOnce`, `SecondRentalWasRecreated`, `WalletReconciles` | two users, two batteries, two slots, three orders, overlapping scans, failed scans, and returns with inventories |
| Reports | `AppliedInOrder`, `StoredBeforeApplied` | two reports of any kinds, two slots, two requests: one at a time or retries of one report, live and in batches; crashes, refused keys, failing inserts. Two numbers give every order and repetition of a newer and an older report |
| Returns | `NumberedReportsEndTheirRental`, `OfferedIsThere`, `UnnumberedIsReturned` | one battery, two slots, two rentals, two requests, one return by hand, one fault of any kind anywhere. Two rentals are what a stray report needs; a second fault can only stop a request that the first one could have stopped |
| RowLocks | `OnlyTheseDeadlock`, `OrderlyNeverDeadlock` | any two transactions of 17 kinds, two users, three orders (two of one user, two of one battery), two batteries, two slots: rows that are the same and rows that are not, for every pair of kinds |
| Billing | the four fee properties | every half minute of 75 hours for the seeded rule and four others: no caps, total cap below the daily one, one billed day, a cap met exactly |

The passing runs show what holds: without overlap, deposits are conserved, closed
once and released by the end, wallets reconcile to the cent, and returned orders
stay returned, whatever devices, users and operators do in whatever order, repairs
included. Under overlap this still holds within the family of handlers that share a
lock. A payment is credited at most once through any faults, except a handler slower
than its lock. Reports take effect in order as long as a cabinet waits for an answer
before it sends the next one and Redis reads and writes `last_seq`. A numbered return
report ends the rental it is about or, if that one was ended otherwise, a later one;
one without a number is settled in the end whatever fails.

`OnlyTheseDeadlock` names every pair of handlers that can wait for each other, and
shows that there is no other:

| On | One | The other |
|---|---|---|
| one order | deciding a dispute | a return, a return by hand, either compensation |
| one order | an unlock failure reported by the cabinet | those, and a loss |
| one battery and slot | a failed scan | a scan, AssignBattery |
| one battery and slot | SlotReport saving the battery | a scan, AssignBattery, a return by hand |
| one user | a loss | a loss of another order |
| one user, one slot | a return by hand | a return, a failed scan |
| one user, one slot or battery | a scan | a return |
| one user, one battery | a scan | a return by hand |

Two more runs end with a counterexample. Each states something that a document of the
repository says:

| Run | Shows |
|---|---|
| RaceWallet | a scan overwrites a concurrent recharge (`rental_service.go:251`) |
| LateReturn | a return report that comes late or again ends the next rental of its battery (`return_service.go:95`) |

One more configuration passes and takes two minutes: MCOrderLifecycle with
Compensation.cfg, where two orders of one user share a battery and an abnormal one is
decided while, or after, the other rents (`NoEndedOrderHoldsDeposit`,
`WalletReconciles`, `DepositClosesOnce`, `Refinement`).

These configurations are not among the listed runs but can be run the same way, each
ending with a counterexample to the one property in it. "With" names what to put in
place of that property and of the constants:

| Module, configuration | Property | Shows |
|---|---|---|
| MCOrderLifecycle, Decisions with `INVARIANT FailedScansFreezeOnce` | FailedScansFreezeOnce | every further failed scan freezes another deposit (`rental_service.go:66`) |
| MCOrderLifecycle, DamageFee with `INVARIANT PaidFeeIsCovered` | PaidFeeIsCovered | a fee above the deposit is recorded as paid in full (`return_service.go:253`) |
| MCOrderLifecycle, DamageFee | DamageFeeStaysBilled | a return or a loss erases a damage fee (`return_service.go:257`) |
| MCOrderLifecycle, Decisions with `PROPERTY RecoveryDecidesOfflineOrders` | RecoveryDecidesOfflineOrders | an ordinary heartbeat never runs the recovery (`report_service.go:44`) |
| MCOrderLifecycle, Decisions | DecisionsCloseOrReview | a failed recreation stays open instead of going to review (`report_service.go:341`) |
| MCPaymentCallback, PayHangUp | AcknowledgedIsCredited | a provider that hangs up leaves the deduplication key behind (`op_service.go:109`) |
| MCPaymentCallback, PaySlow | CreditedOnce | a handler slower than its lock and a second callback both credit (`op_service.go:107`) |
| MCPaymentCallback, PayHangUp with `Messages <- AnyMessage`, `Faults = {}` and `PROPERTY OnlyExactAmounts` | OnlyExactAmounts | a callback without an amount is accepted (`op_service.go:149`) |
| MCSettlementRaces, RaceLost | DepositConservation | a loss and a return both settle the deposit (`op_service.go:264`). With `damage` for `lost`, ReturnedNeverRentsAgain fails: a damage fee undoes a concurrent return (`op_service.go:477`); with `fail` and the family `{{"compensate"}}`, two operators refund twice (`router.go:959`) |
| MCSettlementRaces, RaceLateFailure | ReturnedNeverRentsAgain | a failed unlocking reported during a return lets the settled order rent again (`rental_service.go:558`) |
| MCSettlementRaces, RaceInventory | BatterySoldOnce | an inventory report undoes a concurrent scan, and the battery is handed out again (`report_service.go:558`) |
| MCSettlementRaces, LockExpires | DepositConservation | a loss slower than its lock and a second one both settle the deposit (`redis.go:49`) |
| MCOrderLifecycle, RecreatedRental | RecreatedBatteryIsFree | another user's unlocking revives an old failed scan, which then rents the battery that user took (`report_service.go:218`) |
| MCPaymentCallback, PayDeclined | AcknowledgedIsCredited | a success after a decline of the same transaction is answered as a duplicate and lost (`op_service.go:93`) |
| MCDeviceReports, ReportsOverlap | AppliedInOrder | two different reports served at a time set `last_seq` back, and an older one takes effect after a newer one (`report_service.go:775`) |
| MCDeviceReports, ReportsRedis | AppliedInOrder | a failing GET counts as 0, a failing SETEX as done (`report_service.go:775, 783`) |
| MCDeviceReports, LateLock | LateReportsAreOnlyStored | a late or repeated lock report is acted upon (`report_service.go:137`; `README.md:52, 279`) |
| MCDeviceReports, ReplayedSlots | ReplayedSlotsTakeEffect | a numbered slot report out of a batch is refused by the `last_seq` the batch itself has set (`report_service.go:748`; `README.md:53`) |
| MCReturnReports, RefusedReturn | KeyMeansReturned | the key of a return that failed refuses its retry (`return_service.go:55`) |
| MCReturnReports, ReturnSlot | NormalReturnsUseGoodSlots | the judgement of the slot's state decides nothing (`return_service.go:827`) |
| MCReturnReports, SuspectReturn | OnlyChargeIsSuspect | a query that fails makes a return suspect, though its evidence says it does not matter (`return_service.go:689`) |
| MCRowLocks, ReturnDeadlock | ReturnsSurvive | a return is aborted to end a deadlock with a dispute, and its key stays (`op_service.go:530`) |
| MCBillingFee, Billing with `Rules <- OnlySeeded` and `INVARIANT EveryDayIsCapped` | EveryDayIsCapped | from the second day on the daily cap is not applied to the rest (`utils.go:159`) |

### Fairness

`PaymentCallback` assumes weak fairness of `Handle(r)`: the Go scheduler runs a
handler on, and each of its steps is a call that returns; and of the expiry of an
orphaned lock: Redis removes a key at the end of its time to live. Nothing is assumed
of the provider, of crashes or of hang-ups.

`ReturnReports` assumes the same of its handlers (`Serve`) and locks (`LockEnds`). In
addition a cabinet repeats the report of a battery as long as its rental goes on, and
is served some time (strong fairness of `Deliver`, since all requests may be busy in
between): `UnnumberedIsReturned` is about what a retry achieves. Faults are not fair
and are bounded by `MaxFaults`; no bound could be dropped, since a fault in every
attempt refutes any progress.

## 4. Proofs

`OrderLifecycleProofs` proves, for any users, batteries, slots, fees and any number
of orders: `TypeOK` (so no wallet is ever negative), `DepositConservation`,
`NoEndedOrderHoldsDeposit`, `ReturnedOrdersAreSettled`, `DepositClosesOnce` and
`ReturnedNeverRentsAgain`, from `StoreAssumption` and `LifecycleAssumption`.

None of them is inductive. Nothing in them says why a report that decides an order
long after it was listed cannot revive it or refund it again: decideCompensation...
re-reads the order but looks at its compensation only. The invariant `Inv` adds
that. `Settled` says what an order row may look like in each status (a rental of an
order that has no return record holds its deposit or never had one; a compensated
order has `comp = 1`; a completed one is in `returned`), and `Waiting` says that an
order in `pending` which a decision could still change is abnormal, disputed or lost,
and was never returned. Every handler then is shown to be a `GoodStep`: it keeps
each order `Settled`, leaves closed deposits alone and keeps `returned`. Lemmas cover
the four kinds of change (no order changes, one does, one is inserted, several become
abnormal); each action is reduced to one of them.

`PaymentCallbackProofs` proves `CreditedOnce` and `SuccessIsFinal` for any
payments, messages and number of handlers, assuming `"slow" \notin Faults`: the
counterexample of PaySlow shows that this is needed. The invariant says that a
handler past `Acquire` owns the lock and that the row it read is still current.

`BillingProofs` proves the fee properties for every rule, every duration and every
change of rules. The difficulty is division: lemmas give the bounds of the billed days
and the monotonicity of a quotient.

`RowLocksProofs` proves, for any number of transactions and rows, that a row locked
for update is locked by nobody else (`LocksTypeOK`), and that the orderly handlers
never wait in a circle (`OrderlyNeverDeadlock`). The argument: give each table a rank,
user < order < slot < battery. The plans of the orderly handlers lock in ascending
rank and lock only users for update (other lower-ranked locks that appear later are
key locks, which nothing orderly excludes). So if t waits for u at a row, u, if it waits
itself, waits at a row of a higher rank; the member of a circle that waits at the
highest rank could not be waited for.

It also proves `OnlyTheseDeadlock` for any number of transactions. Two transactions that
wait for each other have each locked one of two rows and want the other (or have a weak
lock of one row and want a stronger one). `Hop` says, for every ordered pair of tables,
which handlers hold what in the one when they ask for what in the other. Putting it
together for a pair of tables leaves the listed pairs of handlers and a few more; those
cannot get there, because one of them has locked a third row they share (`AlsoHolds`,
`NoClash`), or because Redis keeps them apart (`Apart`).

`DeviceReportsProofs` proves, for any number of reports, slots and requests,
`StoredBeforeApplied` whatever overlaps and fails, and `AppliedInOrder` from `InTurn`:
the cabinet sends nothing but repetitions while a report is served, and last_seq is
read and written (ReportsOverlap and ReportsRedis show that both are needed). Requests
may still die anywhere, keys may be refused or expire, inserts may fail. The property
relates a report to what is shown, and the code never compares these; it compares
last_seq. The invariant `Order` closes the gap: what is shown is never beyond
last_seq (`ShownUpTo`); of the requests for one report at most one is past the key, so
nobody else moves last_seq under it; and a request about to write is the last report
and has shown it nowhere yet (`Due`), which is what a retry after a crash and after the
key has expired cannot claim.

`WalletProofs` proves the results about money that range over all orders at once; first
without overlap.
`WalletReconciles` compares a balance with a sum over the orders of a user. `SumTo` is a
recursive function, and the lemmas about it (it adds one more order; it does not change
if no term does; it changes by what one term does) are proved by induction on a set of
numbers, since the provers cannot instantiate an induction rule. Every action is then
one of five kinds of step for a wallet: it leaves the money alone (`Idle`), credits a
payment, refunds a dispute, opens an order, or closes a deposit. The same five kinds
give the refinement (`DepositAccountIsImplemented`): a handler opens or closes one
deposit of the abstract account, moves money in or out, or stutters. Both use `Inv`: a
deposit that is closed must be the one the wallet still counts as frozen.

In `OrderLifecycleProofs`, `BatteriesAreExclusive` and `UsersRentOnce` prove
`BatteryExclusive` and `OneRentalPerUser` for `PlainSpec`. Together the two are
inductive on top of `TypeOK`: a step is quiet (it starts no rental and puts no battery
into a cabinet whose rental goes on), or it starts one rental, of a battery that was
in a cabinet, for a user who had none.

In `PaymentCallbackProofs`, `AcknowledgedAreCredited` needs no hypothesis about locks:
handlers may be slow, but nothing else goes wrong and only successes are reported.
The invariant `AckInv` extends the property from answers to keys: a key `pay_cb:*`,
which would make the next delivery a duplicate, is covered like an answer, by a
credited payment or by a handler still at work on it; and whoever holds the lock is
such a handler.

`ReturnReportsProofs` proves, for any batteries, slots, rentals, requests and faults,
`ReturnsTypeOK`, `NumberedReportsEndTheirRental` and `OfferedIsThere`. None of the three
uses the Redis lock of returns. The invariant has three parts. The unique index of
`return_records` gives one record for an order, and a battery that is out has one rental
without a record (`RowsOK`). The key of a numbered report is taken before anything is
done with it and never given back, so one request serves it and no record came of it
before (`ServedOnce`). While no record is misplaced, rows and cabinets agree on where
batteries are (`PlacesOK`); once a stray report has ended a rental it is not about they
need not agree any more, which is LateReturn.

`SettlementRacesProofs` proves six properties of handlers that overlap, for any number
of requests, orders, users, batteries and slots:

- `RacesTypesHold`: types, whichever handlers overlap (`Families`) and whichever locks
  expire. What a request has read is a row or a balance of the past, and that is enough:
  a balance is compared with the deposit before the deposit is taken from it.
- `SecondRentalsAreRecreated`, if `ScansApart`: the lock of scans does not expire; no
  scan overlaps a damage or the decision of a device report, the two handlers that may
  write a rental back as they read it; and scans and failed scans, which take the same
  lock, are not in one family. The invariant counts, for each user, the rentals that no
  compensation has opened: those in the table, those which a request may write back, and
  the one a scan is about to open are together at most one. The second hypothesis is
  needed: with `Families = {{"rent", "damage", "fail"}}` a damage reads a rental, its
  failed unlocking is reported, the user scans again, and the damage writes the first
  rental back.
- `BatteriesAreSoldOnce`, if `BatteriesApart`: no rental is recreated; no inventory
  report overlaps a scan (RaceInventory shows why); and no damage overlaps a return.
  All locks may expire. A battery that is counted as being in a cabinet is in no rental
  and in no row which a request may write back as a rental. The last hypothesis is
  sufficient: `{{"rent", "detect", "damage"}}` does violate the property, a damage that
  overlaps returns but no scan was not seen to.
- `OverlappingDepositsAreConserved`, `OverlappingDepositsCloseOnce` and
  `OverlappingReturnsStay`, if `DepositsApart`: the locks of operators (`op_order`) and of
  decisions (`comp`) do not expire; returns overlap no loss, damage, decision or failed
  unlocking; decisions overlap no loss or damage, damages no failed unlocking; and an
  operator's compensation overlaps nothing. The families of SameLock satisfy it; scans,
  inventories, reports, disputes and credits may overlap all of them, and the lock of
  returns may expire, because the unique index of `return_records` lets one of two returns
  commit. `DepositsInv` is `Inv` (deposits and their records agree), no two requests with
  the same operator or decision lock (`LockedOnce`), and `MayCommit`: the row a request
  has read still tells what became of the deposit, or the order has been returned and the
  commit will fail. That is what a stale row must not lose, and it is what the hypotheses
  protect: RaceLost and RaceLateFailure show two pairs they keep apart.

`WalletProofs` then takes up the wallet and the refinement again for `SettlementRaces`,
for any number of requests, orders and users:

- `OverlappingWalletsReconcile`, if `WalletApart`: the lock of scans does not expire, and
  nothing else that writes a balance overlaps a scan or a failed scan. Only scans write
  back a balance they have read before; every other handler reads the user under a row
  lock in the transaction that writes the balance, so settlements may overlap each other, whatever rows they hold and
  whichever of their locks expire. `BalancesInv` says that the row a request has read is
  of the user whose order it is, that the balance a scan has read is still the user's, and
  that a user has one scan at a time. The families of SameLock and Scans both satisfy
  `WalletApart`; RaceWallet shows what happens without it.
- `OverlappingHandlersImplementDeposits`, if `DepositsApart` and `WalletApart`: handlers
  that overlap still implement `DepositAccount`. A commit from a stale row closes the
  deposit the row holds, and `MayCommit` says that it is still open; a step that only
  reads, or fails, is a stutter.

Only model-checked: the liveness properties, which are out of the prover's reach
(`LockComesBack`, `DeliveredIsCredited`, `UnnumberedIsReturned`).

## 5. Plan

Done, in this order: `RentalStore`, `OrderLifecycle` with its proofs,
`LifecycleClaims` and `DepositAccount`, `PaymentCallback` with its proofs,
`SettlementRaces`, `BillingFee` with its proofs; then `DeviceReports` with its
proofs, failed scans, inventories and expiring locks in `SettlementRaces`,
`ReturnReports`, repairs in `OrderLifecycle`, `RowLocks` with its proofs; then the
proofs of the wallet, the refinement and exclusivity, of acknowledged payments, of
`ReturnReports` and of `SettlementRaces`, of the pairs that deadlock, and of deposits,
wallets and the refinement under overlap.

Next:

1. `DeviceReports` with reports that carry no number and with several cabinets.

## 6. Not modelled

- Authentication, listings, configuration, migration: no handler's state depends on
  them.
- The idempotency middleware looks for results that nothing saves, so it changes
  nothing.
- A second slot row with the number of an existing one (BatchCreateSlots twice, or two
  SlotReports of a new slot): no unique index forbids it, and every lookup by number
  then takes the first row. Slots are fixed in every module.
- Rules with `unit_min` 0, by which CalcFee divides: the handler recovers from the
  panic and answers nothing.
- The evidence texts of the judgement, state of charge and temperature beyond what
  they decide, receipts and remarks.
