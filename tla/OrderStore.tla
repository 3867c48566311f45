----------------------------- MODULE OrderStore -----------------------------
(***************************************************************************)
(* The MySQL tables behind src/src/store.rs that the payment path reads and *)
(* writes: pay_order, pay_user and the on/off switch of pay_channel, with   *)
(* one operator per SQL statement.  A statement is atomic; what the Rust    *)
(* code does between two statements is in the modules that extend this one. *)
(***************************************************************************)
EXTENDS Integers, FiniteSets

CONSTANTS
  TradeNo,       \* numbers generate_trade_no can hand out, each at most once
  Merchant,      \* pay_user.uid
  OutTradeNo,    \* merchants' own order numbers
  Fen,           \* order amounts, in fen
  Channel,       \* pay_channel.id
  Payment,       \* payments opened at a provider; they fill api_trade_no
  Nil,           \* SQL NULL
  GiveUp,        \* retry stops at this many recorded failures (5 in the code)
  Delivered,     \* notify value of a delivered notification (99 in the code)
  Worker,        \* tasks serving one HTTP request each
  MaxFaults,     \* bound: failed SQL statements per behaviour
  MaxLosses,     \* bound: dropped handlers and restarts per behaviour
  MaxEdits       \* bound: administrator writes per behaviour

ASSUME StoreAssumption ==
  /\ Channel \subseteq Nat \ {0}
  /\ Fen \subseteq Nat
  /\ GiveUp \in Nat \ {0}
  /\ Delivered \in Nat /\ GiveUp < Delivered
  /\ MaxFaults \in Nat /\ MaxLosses \in Nat /\ MaxEdits \in Nat
  /\ Nil \notin TradeNo \cup Merchant \cup OutTradeNo \cup Fen \cup Payment

VARIABLES
  orders,        \* pay_order, by trade_no
  users,         \* pay_user: "active", "banned" or "deleted"
  enabled,       \* channels with pay_channel.status = 1 of an enabled type
  wasPaid,       \* history: orders whose row has held status 1
  wasRefunded,   \* history: orders order_set_refunded has written
  edited,        \* history: orders whose status an administrator set or
                 \* whose row an administrator deleted
  faults,        \* failed statements so far
  losses,        \* dropped handlers and restarts so far
  edits          \* administrator requests so far

rows     == <<orders, wasPaid, wasRefunded>>
tables   == <<orders, users, enabled>>
history  == <<wasPaid, wasRefunded, edited>>
counters == <<faults, losses, edits>>

storeVars == <<tables, history, counters>>

(* pay_order.status; the two negative values stand for no row at all.      *)
Gone     == -2     \* the row was deleted
Absent   == -1     \* the number was never handed out
Unpaid   == 0
Paid     == 1
Closed   == 2
Refunded == 3

NoChannel == 0     \* create_order inserts channel 0

Row ==
  [status     : {Gone, Absent, Unpaid, Paid, Closed, Refunded},
   uid        : Merchant \cup {Nil},
   out        : OutTradeNo \cup {Nil},
   money      : Fen \cup {Nil},
   channel    : Channel \cup {NoChannel},
   api        : Payment \cup {Nil},
   notify     : Nat,
   notifytime : {"null", "recent", "old"},   \* old: more than 10 s ago
   addtime    : {"recent", "old"}]           \* old: more than 30 min ago

NoRow ==
  [status |-> Absent, uid |-> Nil, out |-> Nil, money |-> Nil,
   channel |-> NoChannel, api |-> Nil, notify |-> 0,
   notifytime |-> "null", addtime |-> "recent"]

StoreTypeOK ==
  /\ orders \in [TradeNo -> Row]
  /\ users \in [Merchant -> {"active", "banned", "deleted"}]
  /\ enabled \subseteq Channel
  /\ wasPaid \subseteq TradeNo
  /\ wasRefunded \subseteq TradeNo
  /\ edited \subseteq TradeNo
  /\ faults \in 0 .. MaxFaults
  /\ losses \in 0 .. MaxLosses
  /\ edits \in 0 .. MaxEdits

HistoryEmpty ==
  /\ wasPaid = {} /\ wasRefunded = {} /\ edited = {}
  /\ faults = 0 /\ losses = 0 /\ edits = 0

-----------------------------------------------------------------------------
(* Reads.                                                                  *)

Exists(t) == orders[t].status >= Unpaid

MerchantExists(m) == m \in Merchant /\ users[m] # "deleted"

ExistingOrders(m, o) ==
  {t \in TradeNo : Exists(t) /\ orders[t].uid = m /\ orders[t].out = o}

(* Variants, for mutation: the status filter is forgotten; an order never    *)
(* tried (notifytime IS NULL) does not compare as old.                     *)
PendingAnyStatus ==
  {t \in TradeNo : /\ Exists(t)
                   /\ orders[t].notify < GiveUp
                   /\ orders[t].notifytime # "recent"}

PendingTriedBefore ==
  {t \in TradeNo : /\ orders[t].status = Paid
                   /\ orders[t].notify < GiveUp
                   /\ orders[t].notifytime = "old"}

PendingNotifications ==
  {t \in TradeNo : /\ orders[t].status = Paid
                   /\ orders[t].notify < GiveUp
                   /\ orders[t].notifytime # "recent"}

-----------------------------------------------------------------------------
(* Writes.  Each constrains orders, wasPaid and wasRefunded only.          *)

CreateOrder(t, m, o, f) ==
  /\ orders[t].status = Absent
  /\ orders' = [orders EXCEPT ![t] =
                  [NoRow EXCEPT !.status = Unpaid, !.uid = m,
                                !.out = o, !.money = f]]
  /\ UNCHANGED <<wasPaid, wasRefunded>>

(* No guard on status: a row in any state takes the new channel.           *)
SetChannel(t, c) ==
  /\ orders' = IF Exists(t) THEN [orders EXCEPT ![t].channel = c] ELSE orders
  /\ UNCHANGED <<wasPaid, wasRefunded>>

(* Variants, for mutation: the row's status is not tested; only an unpaid    *)
(* row is marked.                                                          *)
BecomesPaidAgain(t) == Exists(t)

BecomesPaidIfOpen(t) == orders[t].status = Unpaid

(* The committed outcomes of mark_paid: Ok(true) writes the row, Ok(false)  *)
(* leaves it alone.                                                        *)
BecomesPaid(t) == Exists(t) /\ orders[t].status # Paid

MarkPaid(t, api) ==
  IF BecomesPaid(t)
  THEN /\ orders' = [orders EXCEPT ![t].status = Paid,
                                   ![t].api = IF api = Nil THEN @ ELSE api]
       /\ wasPaid' = wasPaid \cup {t}
       /\ UNCHANGED wasRefunded
  ELSE UNCHANGED rows

(* Variants, for mutation: attempts are counted down; failures are not       *)
(* counted; a failure overwrites the count.                                *)
RecordCountingDown(t, success) ==
  /\ orders' = IF Exists(t)
               THEN [orders EXCEPT
                       ![t].notify = IF success THEN Delivered ELSE @ - 1,
                       ![t].notifytime = "recent"]
               ELSE orders
  /\ UNCHANGED <<wasPaid, wasRefunded>>

RecordTimeOnly(t, success) ==
  /\ orders' = IF Exists(t)
               THEN [orders EXCEPT
                       ![t].notify = IF success THEN Delivered ELSE @,
                       ![t].notifytime = "recent"]
               ELSE orders
  /\ UNCHANGED <<wasPaid, wasRefunded>>

RecordOverwriting(t, success) ==
  /\ orders' = IF Exists(t)
               THEN [orders EXCEPT
                       ![t].notify = IF success THEN Delivered ELSE 1,
                       ![t].notifytime = "recent"]
               ELSE orders
  /\ UNCHANGED <<wasPaid, wasRefunded>>

RecordNotifyAttempt(t, success) ==
  /\ orders' = IF Exists(t)
               THEN [orders EXCEPT
                       ![t].notify = IF success THEN Delivered ELSE @ + 1,
                       ![t].notifytime = "recent"]
               ELSE orders
  /\ UNCHANGED <<wasPaid, wasRefunded>>

(* Variant, for mutation: only orders with a channel expire.               *)
ExpireRoutedOrders ==
  /\ orders' = [t \in TradeNo |->
                  IF /\ orders[t].status = Unpaid /\ orders[t].addtime = "old"
                     /\ orders[t].channel # NoChannel
                  THEN [orders[t] EXCEPT !.status = Closed]
                  ELSE orders[t]]
  /\ UNCHANGED <<wasPaid, wasRefunded>>

ExpirePendingOrders ==
  /\ orders' = [t \in TradeNo |->
                  IF orders[t].status = Unpaid /\ orders[t].addtime = "old"
                  THEN [orders[t] EXCEPT !.status = Closed]
                  ELSE orders[t]]
  /\ UNCHANGED <<wasPaid, wasRefunded>>

OrderSetRefunded(t) ==
  IF orders[t].status = Paid
  THEN /\ orders' = [orders EXCEPT ![t].status = Refunded]
       /\ wasRefunded' = wasRefunded \cup {t}
       /\ UNCHANGED wasPaid
  ELSE UNCHANGED rows

OrderUpdateStatus(t, s) ==
  /\ Exists(t)
  /\ orders' = [orders EXCEPT
                  ![t].status = s,
                  ![t].notify = IF s = Paid /\ @ >= GiveUp THEN 0 ELSE @]
  /\ wasPaid' = IF s = Paid THEN wasPaid \cup {t} ELSE wasPaid
  /\ UNCHANGED wasRefunded

OrderDelete(T) ==
  /\ orders' = [t \in TradeNo |->
                  IF t \in T /\ Exists(t) THEN [NoRow EXCEPT !.status = Gone]
                                          ELSE orders[t]]
  /\ UNCHANGED <<wasPaid, wasRefunded>>

-----------------------------------------------------------------------------
(* The clock, as the statements see it: a row passes the 30 minutes of      *)
(* expire_pending_orders or the 10 seconds of pending_notifications.        *)

OrderAges(t) ==
  /\ Exists(t) /\ orders[t].addtime = "recent"
  /\ orders' = [orders EXCEPT ![t].addtime = "old"]
  /\ UNCHANGED <<wasPaid, wasRefunded>>

NotifyWindowPasses(t) ==
  /\ orders[t].notifytime = "recent"
  /\ orders' = [orders EXCEPT ![t].notifytime = "old"]
  /\ UNCHANGED <<wasPaid, wasRefunded>>

(* A statement fails: the connection is lost, MySQL is restarting.         *)
Fault ==
  /\ faults < MaxFaults
  /\ faults' = faults + 1

(* A task is lost at one of its awaits: the peer closed the connection and  *)
(* the server dropped the handler, or the process died.                    *)
Loss ==
  /\ losses < MaxLosses
  /\ losses' = losses + 1

(* An administrator's request, and the orders it edits.                    *)
Edit(T) ==
  /\ edits < MaxEdits
  /\ edits' = edits + 1
  /\ edited' = edited \cup T
=============================================================================
