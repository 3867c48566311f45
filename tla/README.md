# A formal model of rpay

rpay is a payment gateway: one process (Axum on a multi-threaded Tokio runtime)
in front of one MySQL database.  A merchant sends its buyer to `/submit.php`;
rpay creates or reuses a *gateway order*, opens a payment at Alipay, WeChat Pay,
PayPal or Stripe, learns of the payment by webhook or browser return, marks the
order paid and calls the merchant's `notify_url` until the merchant answers
`success`.  Merchants register, log in and change their keys and passwords in a
portal, administrators in another.  This directory holds a TLA+ specification of
the payment path, of the amounts on it, of the merchants' accounts and of the
administrators' requests, its model checking with TLC and proofs checked by TLAPS.

Paths such as `web.rs:507` are relative to `src/src/`; `schema.sql` is
`src/database/schema.sql`.

## 1. Inventory

| Component | State | Operations | Made correct by |
|---|---|---|---|
| Order store (`store.rs`, `schema.sql`) | `pay_order`, `pay_user`, `pay_channel` rows | one SQL statement each; only `mark_paid` is a transaction of two | a row never loses what it is for; "became paid" is answered once |
| Checkout (`web.rs:88-441`) | none between requests; the row, the provider's payment | find, create, route, set channel, dispatch; the Alipay QR page | one gateway order per merchant number; the amount paid is the order's |
| Expiry task (`web.rs:684`) | none | every 180 s closes unpaid orders older than 30 min | every unpaid order ends; a payment in flight is not lost |
| Notifier (`web.rs:595-682`) | the batch in the task's memory; `notify`, `notifytime` in the row | read, call the merchant, record; retry every 15 s | told only when paid; bounded calls; every paid order settles |
| Webhooks (`web.rs:468`, `732`, `778`, `889`, `980`) | none | authenticate, `mark_paid`, notify, answer | paid only if collected; a positive answer means recorded |
| Browser returns (`web.rs:450`, `531`, `856`, `951`) | none | verify, `mark_paid`, redirect with a signed `TRADE_SUCCESS` | an order is marked on its own payment and the merchant is shown success only for paid orders: neither holds at Stripe (sections 3, 5) |
| Refund (`admin.rs:849`, `alipay.rs:185`) | none | read order, call Alipay, write status 3 | recorded only if made; not undone by a late webhook |
| Administration (`admin.rs`) | rows, `pay_config`, a signed cookie | log in, set status, delete, ban, switch and limit channels, edit a merchant, save settings | one statement each, except the login (two reads), `merchant_update` (three writes) and `settings_update` (five): these must not leave or accept halves of two requests |
| Accounts (`portal.rs`, `session.rs`) | `pay_user`, signed cookies | register, log in, change password, reset key | a session is of one's own row; a login was right when it was decided; a page says only what happened; a registered merchant can log in |
| Money, signatures (`protocol.rs`, `stripe.rs:39`, `paypal.rs:37`) | none | `parse_yuan_to_fen`, `convert_fen_to_units`, MD5 | an amount is the same in every form it takes |
| Start-up, task monitor (`main.rs`) | two spawned tasks | start, log a panic | the tasks run as long as the process |
| Pages, statistics, templates | none | reads and text | - |

Components interact through the tables alone: no queue, lock or channel is
shared between two tasks, and a handler holds what it read across its awaits.
What makes this hard:

* a handler runs several statements and calls, and every other handler, both
  tasks, administrators, buyers and providers run in between;
* statements fail, and most failures are dropped (`let _ =`, `unwrap_or(false)`);
* hyper drops a handler at its next await when the peer closes the connection,
  and systemd restarts a process that died (the tables survive, the batch does
  not);
* providers repeat callbacks, and merchants answer late or never.

`PROJECT.json` lists these hazards at the lines where they bite, with the
properties that watch them.

## 2. Modules

```
OrderStore ── AdminOps ─┬─ Notifier ──┬─ Gateway ── MCGateway
                        └─ Checkout ──┘      └ INSTANCE PaymentPromise
MCNotifier (Notifier)       MCCheckout (Checkout)
Amounts ─┬─ Pricing ────┬─ Site ── MCSite
         └─ Backoffice ─┘
Accounts ── MCAccounts

StoreProofs (AdminOps)
NotifierProofs (Notifier, StoreProofs)     CheckoutProofs (Checkout, StoreProofs)
GatewayProofs (Gateway, NotifierProofs, CheckoutProofs)     PathProofs (GatewayProofs)
PricingProofs (Pricing)     SiteProofs (Site, PricingProofs)
AccountsProofs (Accounts)
```

**OrderStore** has the three tables as variables (`orders`, `users`, `enabled`)
and an operator per SQL statement.  A row is a record of the columns the payment
path decides on; times are reduced to what the statements ask ("older than 30
minutes", "older than 10 seconds") and advance by actions of their own.  A
negative `status` stands for a row that is not there: `Absent` before
`create_order`, `Gone` after a deletion.  History variables (`wasPaid`,
`wasRefunded`, `edited`) remember what happened to an order and are read by no
guard.  `GiveUp` and `Delivered` are the 5 and 99 of the code.

**AdminOps** has the administrator's requests that are one statement on those
tables.

**Notifier** models `notify_merchant` with one action per await (`NotifyRead`,
`NotifySend`, `NotifyRecord`) as run by every handler and by the retry task, and
the task's batch (`RetryTick`, `RetryNext`).  The query's missing `ORDER BY` is a
choice among the subsets of the right size.

**Checkout** models `submit` with one action per await and the payments the
providers hold.  Alipay and WeChat keep one payment per trade number, PayPal and
Stripe make one per call.

**Gateway** composes the two and replaces their simplified surroundings
(`ConfirmPayment`, `RefundRecorded`, `PaymentConfirmed`) with the real handlers:
webhooks, returns and refund.  A worker serves one request at a time and is in at
most one of `sub`, `cb` and `job`, but that a callback waits in `cb` while its
notification runs in `job`.  A webhook takes the order from its message, and the
refund from its row.  `stripe_return` takes order and session from two parameters of
the request: `ReturnReads(t, p)` lets p be any session that the key of t's channel can
retrieve, for whichever order and amount it was opened, and `StripeReturn(w, t, p)`
looks at `payment_status` only, as the code does.  What the buyer's browser is then
shown is not recorded: `poll_complete_return` and `build_callback_url` only read.

**PaymentPromise** is the abstract specification: place, collect, confirm, tell,
override.  Gateway implements it under the mapping in `Promise`: the amount due
is the row's `money`, confirmed is `wasPaid`, told is `told`.

**Accounts** models the merchant portal: `register_submit`, `login_submit` and
`settings_submit` with one action per await, the cookie in each client's browser,
and the administrator's requests on merchants.  It shares no code path with the
gateway, which asks of a merchant only its key and whether it is banned, and
stands alone.  A row is its status, the addresses it is found by, its password
hash and the number of keys it has had (`key`); the n-th key of row u is the value
`<<u, n>>`, for keys are 32 random characters.  Uids and addresses may be the same
value, since `login_submit` tries a number as a uid first and as a phone then.
`good[w]` gathers the uids which the request of worker w has fitted at some
moment since it began (`Fits`): an answer is right when the uid it is about is
among them.  A cookie is the uid it names: the codec signs it, and its end, by
logout or by its expiry, is the action `SessionEnds`.

**Amounts** has the forms of an amount: a decimal text as a record of its signs,
leading zeros, whole part, dots and digits; fen; a `DECIMAL(10,2)` column; the
hundredths of a foreign unit.  `ParseYuanToFen` translates `parse_yuan_to_fen` with
its overflow checks, `ConvertFen` the conversions of PayPal and Stripe: a binary
float divided by the rate and rounded to two decimals is one of the nearest
hundredths, either one at a tie.

**Pricing** runs `submit` and the callbacks again over one merchant order number,
with all that Checkout leaves out: the text of the request, `money` and
`realmoney` of the row, the limits of a channel and the sum each provider is
asked for.  It leaves out what Checkout has: routes, expiry, repeated messages.
`asked` are the payments providers were asked to collect, `taken` the orders that
were marked, each with the order (`of`), channel and sum of the payment that it was
marked for, `inForce` the limits each channel has had.  A message of `CallbackReads` is
about its own order; `StripeReturns(w, t, p)` marks t on a session p of any order and
sum, as above.

**Backoffice** models the administrators' requests that are several statements:
`login_submit` with two reads, `settings_update` key by key, `merchant_update` as
status, limits, adjustment and page.  Each administrator has one request at a time
and a cookie; `torn` remembers that a save ended between user name and password or
met another request there.  `applied` counts the adjustments made for one form and
`unseen` the errors answered after everything was done.

**Site** puts the two side by side: `submit` asks for the merchant's switches,
`channel_update` needs an administrator, and `MaxRequests` bounds the requests.

The definitions named as variants in the comments are slips of the kind the code
could have (a dropped status filter, a count that goes down).  No specification
uses them; they show that each property would notice.

### Abstractions

* Names, URLs, signatures and pages are left out.  A request that passes
  `submit`'s checks is the guard of `SubmitBegin`; a resubmit whose text differs
  from the row may be refused although its amount is the same (`SubmitFind`).
* A message is authentic for the channel its payment was opened on; channels have
  different credentials and never change them.
* Stripe reports a session complete when it is paid, as with cards and Alipay
  (the default methods); a method that is paid days after would need the event
  `checkout.session.async_payment_succeeded`, which the code ignores.
* A `mark_paid` or `INSERT` whose commit succeeds may still report an error.
* `pay_channel` rows are switched on and off and given other limits; their plugin,
  type, credentials and currency rate stay.
* MySQL is in strict mode, its default: a value too large for a column is an error.
* PayPal and Stripe collect what they were asked for or nothing, as their callbacks
  are not compared with the order; Alipay and WeChat may report less.
* Stripe knows the sessions that rpay opened on a channel and no others: one that
  another program opened with the same key is not modelled.
* Two clients never choose the same password and no password is a key.  A client
  types its own passwords and the keys of rows made for it, also of deleted ones.
* A client may register or be given any address, as the program verifies none.

## 3. Properties and runs

| Run | Instance | Checks |
|---|---|---|
| `notifier` | 2 orders, 2 handlers, batch of 1, `GiveUp` 2; 1 fault, 1 loss, 1 edit | `NotifierTypeOK`, `ToldWasPaid`, `AttemptsBounded`, `OneHandlerNotifies`, `DeliveredStays` |
| `checkout_one_client` | 1 submit at a time, 2 amounts, 2 types, 2 trade numbers; 1 fault, 1 loss, 1 edit | `UniqueOrder`, `UnpaidEnds` |
| `gateway_alipay` | 1 order, 2 amounts, 2 handlers, both tasks; 1 loss, 1 edit or refund | `GatewayTypeOK`, `FundedInFull`, `RefundedAtProvider`, `AckedIsRecorded`, `AmountAgreed`, `OneHandlerNotifies`, `KeepsPromise` |
| `gateway_cards` | 2 orders, 2 amounts, a Stripe and a PayPal channel, 1 payment, 1 handler; 1 fault | `PaidIsBacked`, `AmountAgreed` |
| `gateway_live` | 1 order, 1 handler, both tasks, an Alipay and a Stripe channel; 1 loss, 1 edit | `CollectedIsRecorded`, `NotifySettles` |
| `accounts` | 2 uids, 1 address equal to the second uid, 2 clients (2 passwords, none), 2 handlers; 2 keys per row, 1 administrator's request | `AccountsTypeOK`, `SessionIsOwn`, `RegisteredWhenFree`, `LoginWasGood`, `SavedWasSaved`, `RegisteredOpens` |
| `site` | 2 trade numbers, an Alipay, a WeChat and a Stripe channel, 2 handlers, 5 texts; at first a minimum on channel 1, a maximum on channel 2, no limit on channel 3; 2 administrators, 2 values, 3 forms of a merchant; 3 requests | `SiteTypeOK`, `ChargedIsExpected`, `PaidBySettling`, `ChargedWithinLimits`, `LoginWasPosted`, `CredentialsTogether`, `AdjustedOnce` |

Five more runs show where the program does not do what its documents say; TLC
finds each property violated:

| Run | Property | What happens |
|---|---|---|
| `notifier_starves` | `NotifySettles` | with a full batch of a deleted merchant's orders, another merchant's order is never retried |
| `checkout_twice` | `UniqueOrder` | two simultaneous submits create two gateway orders |
| `gateway_ack_lost` | `AckedIsRecorded` | `mark_paid` fails and the webhook answers success |
| `gateway_revival` | `NoRevival` | a webhook after the refund makes the order paid again |
| `gateway_paypal` | `FundedInFull` | an approved PayPal order counts as paid before the capture |

`AckedIsRecorded` therefore passes only without failed statements, `UniqueOrder` only
with one client at a time, and `FundedInFull` only with Alipay and WeChat: the passing
runs say how far the promise reaches, the others where it ends.  Section 4 has
theorems that draw the same line for every instance: `UniqueUnlessRaced`,
`AckedStaysRecorded` and `AckedUnlessRerouted`, `PaidOrdersAreFunded`.

`FundedInFull` does not hold on Stripe channels either.  `stripe_return` reads the order
of its `trade_no`, retrieves the session of its `session_id`, compares nothing but
`payment_status` (`web.rs:967-970`) and marks the order: neither the session's
`client_reference_id` nor its amount is looked at, so an order can become paid on the
session of another one.  `src/DEPLOY.md:1559-1560` describes the step as confirming
the payment and then marking the order.
`PaidIsBacked` and `PaidBySettling` are what is left of it on any channels.  By the
first, an order marked paid has its own amount collected, or a payment of it that
PayPal reported (approved at least), or the row's `api_trade_no` names a session that
Stripe did collect, for this order or another.  By the second, the payment that marked
it settles the order which that payment was made for, and this is the order marked
unless the channel is Stripe's.

**Bounds.**  `MaxFaults`, `MaxLosses` and `MaxEdits` cap failed statements, lost
tasks and administrator's requests in a behaviour.  Two handlers, the retry task
and one of each disturbance are what the races need: a handler against a handler,
a handler against the task, and either against an edit or a restart.  `GiveUp` 2
(or 1) instead of 5 keeps the retries short without changing the comparisons;
`Delivered` stays 99.  A batch of 1 with 2 orders is the smallest that overflows,
a batch of 2 the smallest that does not.

In `gateway_cards` two orders of the two amounts and one payment suffice: what must not
happen is that an order without a payment of its own is marked on nothing, and the
payment of the other order, open, approved or collected, on either channel, is all
there is to mark it on.  The two amounts race for one order, with two handlers, in
`gateway_alipay`: `submit` is the same for every plugin up to the dispatch.

In `accounts` one address that is also a uid makes both lookups of a login
matter; the two registrations that both find it free need two uids and two
handlers; a ban, a deletion, a key reset or a row without password, one of them,
meets every handler between any two of its statements.  The second client has no
password, so that the only rows it holds are an administrator's.  Faults are not
bounded there: `Stop` ends a handler before or after any statement.

In `site` the amounts are scaled down and their edges kept: the column ends at 1.99
and `i64` at 2.99, so that 2 parses and is refused by the column and 3 overflows;
1 yuan costs 100/7.2 hundredths, which is no whole number; the texts are `1.00`,
`0.5`, `2`, `3` and `1.005`.  Limits are a minimum, a maximum and a text that does not
parse.  Every property of the run needs at most three requests to be at stake: two
submits and an edit of limits, two saves and a login, a form saved again twice.
Faults are not bounded: any statement may fail, with or without effect.

Of three requests for one order, only the texts and channels differ, and the two
administrators are alike, hence the symmetry in `MCSite`.

In `gateway_live` a resubmit may send the order from Alipay to Stripe or back
between the payment and its callback.  `CollectedIsRecorded` ends there
(`Rerouted`): callbacks are checked against the channel the row names now, those of
Alipay fail and the one of Stripe is answered 200 and lost.  The property says that
no collected payment is lost in any other way.

**Deadlock** is not checked: with the bounds spent, all orders settled and every
trade number used, nothing is left to do, and a gateway without customers is
idle.

**Fairness.**  `WF` on the steps of a handler that has begun and of the tasks:
the runtime polls what is ready and every await ends (the merchant's call after 8
seconds, statements and provider calls with their answer or error).  `WF` on the
clock.  Nothing obliges buyers, administrators, losses or faults to happen.
`gateway_live` adds that a provider not yet acknowledged calls again until it is
served (`SF`, since handlers are busy in between); it is stated only for payments
rpay has not acknowledged.  The same run checks `NotifySettles` through the whole
system; `notifier_starves` shows that it needs a batch no deleted merchant fills.

## 4. Proofs

The theorems hold for any numbers of orders, merchants, channels, payments and
handlers and any bounds that satisfy the named assumptions (`StoreAssumption`,
`NotifierAssumption`, `CheckoutAssumption`, `AccountsAssumption`,
`AmountsAssumption`, `PricingAssumption`, `BackofficeAssumption`, `SiteAssumption`),
which the runs evaluate.

| Theorem | Statement |
|---|---|
| `NotifierTypeCorrect` | `NotifierSpec => []NotifierTypeOK` |
| `ToldOnlyWhenPaid` | `NotifierSpec => []ToldWasPaid` |
| `OnlyOneHandlerNotifies` | `NotifierSpec => []OneHandlerNotifies` |
| `DeliveredNotificationStays` | `NotifierSpec => DeliveredStays` |
| `CallsStayBounded` | `NotifierSpec => []AttemptsBounded` |
| `CheckoutTypeCorrect` | `CheckoutSpec => []CheckoutTypeOK` |
| `AmountsAgree` | `CheckoutSpec => []AmountAgreed` |
| `UniqueUnlessRaced` | finitely many handlers, `CheckoutSpec /\ []OneCreates => []UniqueOrder` |
| `OneClientUnique` | one handler, `CheckoutSpec => []UniqueOrder` |
| `OrdersStayBounded` | finitely many handlers, `CheckoutSpec => []OrdersPerNumber` |
| `GatewayTypeCorrect` | `GatewaySpec => []GatewayTypeOK` |
| `RefundsAreMade` | `GatewaySpec => []RefundedAtProvider` |
| `ComposedSafety` | `GatewaySpec => [](AmountAgreed /\ ToldWasPaid /\ OneHandlerNotifies)` |
| `PromiseKept` | Alipay and WeChat only, `GatewaySpec => KeepsPromise` |
| `PaidOrdersAreFunded` | Alipay and WeChat only, `GatewaySpec => []FundedInFull` |
| `GatewayDeliveredStays` | `GatewaySpec => DeliveredStays` |
| `GatewayCallsBounded` | `GatewaySpec => []AttemptsBounded` |
| `PaidOrdersAreBacked` | `GatewaySpec => []PaidIsBacked` |
| `GatewayUniqueUnlessRaced` | finitely many handlers, `GatewaySpec /\ []OneCreates => []UniqueOrder` |
| `AckedUnlessRerouted` | `GatewaySpec => [](faults = 0 => \A p \in acked : StaysServed(payments[p].c) => Recorded(payments[p].t))` |
| `AckedStaysRecorded` | if every channel `StaysServed`, `GatewaySpec => [](faults = 0 => AckedIsRecorded)` |
| `AccountsTypeCorrect` | `AccountsSpec => []AccountsTypeOK` |
| `SessionsAreOwn` | `AccountsSpec => []SessionIsOwn` |
| `RegistrationsWereFree` | `AccountsSpec => []RegisteredWhenFree` |
| `LoginsWereGood` | `AccountsSpec => []LoginWasGood` |
| `PagesWereTrue` | `AccountsSpec => []SavedWasSaved` |
| `RegisteredAlwaysOpens` | `AccountsSpec => []RegisteredOpens` |
| `SiteTyped` | `SiteSpec => []SiteTypeOK` |
| `ChargesAreExpected` | `SiteSpec => []ChargedIsExpected` |
| `OrdersArePaidBySettling` | `SiteSpec => []PaidBySettling` |
| `ChargesAreWithinLimits` | `SiteSpec => []ChargedWithinLimits` |
| `LoginsWerePosted` | `SiteSpec => []LoginWasPosted` |
| `CredentialsStayTogether` | `SiteSpec => []CredentialsTogether` |
| `BalanceAdjustedOnce` | `SiteSpec => []AdjustedOnce` |

`StoreProofs` proves, for every statement of `OrderStore`, that it keeps
`RowsInv` (the rows are well typed, a row with status 1 is in `wasPaid`, a number
never handed out was never announced) and what it cannot do: `KeepsRows` (no
order forgets that it was paid, changes its amount, its merchant or the merchant's
number, or loses its channel), `StaysBut(T)` (outside
`T` nothing paid becomes unpaid but by a recorded refund, and no delivered
notification is taken back) and `StandBut(U)` (outside `U` no row appears,
disappears or changes its amount).  `NoRowAppears` adds that only the INSERT of
`create_order` makes a row.  `StoreStep(T, U)` is all of this for one
step; every action of the modules above is a `StoreStep` next to changes of its
own variables, so their proofs cite one lemma for the store.

`NotifierInv` carries the notifier.  `ToldWasPaid` alone is not inductive: the
merchant is told by a job that read its order number earlier, from a batch that
was read earlier still; `JobsWerePaid` says that all of these held paid orders.
`OneHandlerNotifies` needs `HandlersOrderIsPaid`: while a handler notifies, its
order keeps status 1, unless it was refunded or edited, so `mark_paid` can answer
true to nobody else.  `DeliveredStays` needs that a trade number not yet handed
out has `notify = 0`.

`AttemptsBounded` says how many calls a merchant can get for one order, and the code
never counts that: the retry task reads `notify` with its batch, may hold an order
while its handler is still calling, and a lost record leaves `notify` behind.
`CallsInv` counts instead: the calls made are at most the handler's own, those in
`notify`, those whose record was lost, and the task's call in flight.  This stops
being an account when `notify` reaches `GiveUp`, since another job's record may have
put it there; but no batch takes the order from then on, so it is due at most once
more, for a batch read before, and `Due(t)` keeps one call to spare for it.  The
bound is `GiveUp + 1 + faults + losses`, for any number of handlers and orders.

`AmountsInv` carries checkout.  A payment's amount was taken from a request
several awaits after the row was read, so `AmountAgreed` needs `SubmitsAgree`: a
submit past its lookup holds the amount of its row, should the row still be there.
It lasts because numbers are handed out once and no statement writes `money`
again.  That the row has an amount at all, and that only administrators delete
rows, is `RowsPlaced`.

`UniqueOrder` is false when two submits race, and no lock or unique key prevents it;
the theorems say that nothing else breaks it.  `Creators(m, o)` are the submits that
found no order m, o and have not inserted theirs.  In every step rows and creators
together become more only when a submit finds no row (`NumberStep`), and an INSERT
turns one creator into one row.  Hence the invariant `OrdersAtMost(n)`: there are at most n rows
and creators of a number together.  While there is one creator at most
(`OneCreates`, the hypothesis of the theorem, which one handler always satisfies) the
number has one row; however many race, it has no more rows than there are handlers.
`OneCreates` is about the handlers alone, says nothing of rows, and holds whenever
submits of one number come one after the other.

`GatewayInv` joins the two with `CallbacksAgree`: a callback about to mark an
order serves a payment which a provider has reported, and a refund about to be
recorded was made.  That the payment is of the order marked (`Belongs`, `MayServe`) is
part of it except for a return at Stripe.  Payments in turn never return to an
earlier state (`PaymentsGrow`).  With it, each step maps to a step of `PaymentPromise`
or to a stutter: the INSERT to `Place`, the buyer's payment to `Collect`, `mark_paid`
to `Confirm` (the payment was collected, and is for the amount due, by `AmountsInv`),
the merchant call to `Tell`, an administrator's edit or deletion to `Override`.
`FundedInFull` is then proved of the abstract steps alone.  Only the step of
`mark_paid` needs the hypothesis `OnlyOnePerOrder` (every channel is Alipay's or
WeChat's): an approved PayPal payment reaches it before it is collected, as the run
`gateway_paypal` shows, and a return at Stripe with a payment of another order.

`PaidOrdersAreBacked` needs no hypothesis.  `BackedInv` adds to `GatewayInv` that only
PayPal's payments are ever approved, and says of every order marked paid what is behind
it.  A return at Stripe puts the session it looked up into the row
(`MarkIsBacked`); it must be shown that it stays there, or is replaced only by another
`mark_paid` which itself is backed (`ApiIsLeft`, `MarkWritesOne`).

`PathProofs` takes up what composition could break and what the answers of the
gateway are worth.  `CallsInv` is inductive in the whole gateway too: the notifier's
own steps are cited as they are; of the others only a callback's `mark_paid` starts
a call, for an order that has none behind it (`MarkKeepsCalls`, also when it commits
and reports an error), and a dropped handler or a restart pays for what it loses
(`BesideKeepsCalls`).  The count behind `UniqueOrder` is kept by the steps of
callbacks, refunds, losses and administrators because none of them inserts a row or
makes a creator.

`AckedIsRecorded` fails in three ways: a statement fails, PayPal's handler answers
200 for an order that names another channel now, or Stripe's for one that names
a channel of another provider.  The theorems assume the first away (`faults = 0`, in
the state) and name the other two: `StaysServed(c)` says that c is not PayPal's
unless it is the only channel, and Stripe's only among Stripe channels.  The
invariant has two parts.  `RoutesAgree`: an order that a payment was opened for has
a channel, since `set_channel` came before and no statement takes one away; it is
false after a `set_channel` that failed, which `submit` ignores.  `AcksAgree`: a
webhook past `mark_paid` is about a recorded order: `mark_paid` wrote it, or it was
paid before, or it is gone, and then an administrator deleted it
(`MissingWasEdited`).

`AccountsInv` carries the accounts.  That a session is one's own depends on what a
handler established several statements earlier, so the invariant says it of each
await: a registration past its check has seen its address free (`RegisterOK`); a
login between its lookups is credited with every uid it has fitted so far
(`LoginOK`); an answer about to set the cookie is for a row of that client
(`CookieOK`); a settings request holds a uid of its own, and a page that found the
row again was right (`SettingsOK`).  It also needs `RowsOK`: what opens a row is
known to its owner only, because keys are of one row and a password hash is of a
password of the owner.  These last while other handlers run, because owners stay,
key numbers do not go back and a deleted row does not return (`Grows`,
`HandlerKept`).

`SiteInv` carries the amounts and the administrators' requests, one invariant each.
In `PriceInv` a submit past its lookup holds a text that parses to its row's `money`
(`HandlerOK`): because the text of a column always parses back to it
(`ColumnTextReads`), and a parsed text is read alike by MySQL, Alipay and the code
(`ParsedIsRead`).  `realmoney`, where set, equals `money` (`RowOK`), so what is asked
settles the order and lies within limits the channel had when they were checked
(`PaymentOK`); these last because no statement writes `money` again and `inForce`
only grows (`Keeps`).  A callback about to mark an order carries a sum that settles
the order its payment was made for, since two texts that parse alike are the same
amount (`SameAmount`), and marks that order unless it is a return at Stripe.  In
`OfficeInv`, `Serial` says what holds while no two requests met between user name and
password: at most one request that saves is between the two (`Apart`), who is there
finds the user name as it was read or written (`Held`), and otherwise the settings
hold one form's credentials (`Together`).  `RequestOK` counts the adjustments: at the
page one may be made and not yet answered, at an error every one has been answered by
an error of the page.  The two parts share no variable; a step of one is a stutter of
the other.

Model-checked only: the liveness properties `UnpaidEnds`, `NotifySettles` and
`CollectedIsRecorded` (fairness and ENABLED are out of TLAPS's reach).  The sums and
texts of `Amounts` are finite choices and arithmetic without recursion, so nothing
there needed an induction over data.

The hypotheses are `OnlyOnePerOrder`, `StaysServed`, `OneCreates` and that the
handlers are finitely many; the runs have states for each: `gateway_alipay` has one
Alipay channel, `checkout_one_client` one handler.  The runs `gateway_paypal`,
`gateway_ack_lost` and `checkout_twice` show that the property is lost without the
hypothesis.

## 5. Not modelled

PayPal's capture on return asks for the merchant's order number (`web.rs:869`),
which PayPal does not know: the handler ends there and no state changes.
`alipay_return` is not reached, for the forms carry an empty `return_url`
(`web.rs:300`, `327-335`).  The JSON
configuration of a channel (credentials, currency rate) and its rate are never
changed in the models: a rotation of credentials makes callbacks of earlier payments
fail, which is what it is for.  The expiry of a session is one action at
any time instead of arithmetic on its 30 days.  Signatures and hashes
are cryptography.  A background task that panics is logged and not started again
(`main.rs:120`); nothing in the tasks' code is seen to panic.  Listings, statistics,
pages and deployment change no state, and the tables of the legacy system have no
code.

Some disagreements met on the way are noted here and are not runs of their own:
an administrator's new merchant gets the unsalted `md5` of its password
(`store.rs:549-553`), while login compares `legacy_password_hash`
(`portal.rs:179`), so that password never opens the row although the form says
only an empty one keeps the merchant out (`admin.rs:398`; in `Accounts` it is
`Salted(p, NoSalt)`, which `PwdIs` never meets); the column `account`, labelled
"账号（登录用）" (`admin.rs:389`), is looked up by no login.  Two
overlapping registrations of one address both succeed, against the message of
`portal.rs:101`: `RegisteredWhenFree` says what is left of it.

`stripe_return` sends the buyer on to the merchant with a signed `TRADE_SUCCESS` also
when the session is not paid or `mark_paid` failed, for `build_callback_url` does not
read the status (`web.rs:555-593`, `977`); the waiting page asks for it
(`web.rs:454`).

Of the amounts and the administrators' requests: the minimum and maximum of the
settings (`pay_minmoney`, `pay_maxmoney`) and of a merchant's row are stored and shown
but asked for by no code, so the only limits that bind are a channel's, and only
where their text parses.  An order whose amount was written as `1` or `0.5` is never
reused by the same request (the column gives `1.00`), although `src/DEPLOY.md:1237`
promises it.  `merchant_update` says "已保存" also when the balance was not adjusted
(`admin.rs:359-362`), and answers 500 also when all was done and only the page could
not be read, so that saving again adjusts twice: the `unseen` of `AdjustedOnce`.  Two
saves of the settings at once may leave the user name of one with the password of the
other, and a login in between may be let in by such a pair: the `torn` of
`LoginWasPosted` and `CredentialsTogether`.  `unseen` and `torn` excuse exactly these
cases, against which the code has no guard, so the three properties do not watch
them; they say that there are no others.  A form counts as one as long as its
administrator goes on with it: `MerchantLeave` begins a new count, so an adjustment
repeated after a dropped connection is not counted either.  An administrator's cookie is valid for 30
days whatever becomes of the password.  The comment of
`convert_fen_to_smallest_unit` speaks of the smallest unit of the currency, but the
code always multiplies by 100, which is not that of the yen.  `fen_to_yuan_string`
drops the sign of amounts above -1.00; only the tests call it.

## 6. Plan

1. *Done*: order store, administrator's statements, notifier, checkout, gateway,
   the abstract promise and the runs above; the proofs of section 4 up to the
   refinement.
2. *Done*: `Accounts`, the portal with its races, and its safety as theorems.
3. *Done*: `Amounts`, `Pricing`, `Backoffice` and `Site`, with all their safety
   properties as theorems; rerouting between two channels in `gateway_live`.
4. *Done*: `AttemptsBounded` as a theorem; every safety property of the runs as a
   theorem of the whole gateway or of its part, with the surroundings it needs as
   hypotheses (`PathProofs`).
5. A currency rate or credentials changed while payments are open.
