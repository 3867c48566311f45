----------------------------- MODULE StoreProofs ----------------------------
(***************************************************************************)
(* Lemmas about the statements of OrderStore: what every write keeps true   *)
(* of the order table, cited by the proofs about the modules above it.      *)
(***************************************************************************)
EXTENDS AdminOps, TLAPS

RowsOK ==
  /\ orders \in [TradeNo -> Row]
  /\ wasPaid \subseteq TradeNo
  /\ wasRefunded \subseteq TradeNo

PaidIsRecorded == \A t \in TradeNo : orders[t].status = Paid => t \in wasPaid

AbsentUntried ==
  \A t \in TradeNo : orders[t].status = Absent => orders[t].notify = 0

RowsInv == RowsOK /\ PaidIsRecorded /\ AbsentUntried

(* What no statement does: forget that an order was paid, hand a number out *)
(* again, change what and whose an order is, or take its channel away.     *)
KeepsRows ==
  /\ wasPaid \subseteq wasPaid'
  /\ \A t \in TradeNo :
       /\ orders[t].status # Absent => orders'[t].status # Absent
       /\ orders[t].status # Absent /\ orders'[t].status >= Unpaid
            => /\ orders[t].status >= Unpaid
               /\ orders'[t].money = orders[t].money
               /\ orders'[t].uid = orders[t].uid
               /\ orders'[t].out = orders[t].out
               /\ orders[t].channel # NoChannel
                  => orders'[t].channel # NoChannel

(* What no statement does to the rows outside T: take back that an order is *)
(* paid, unless by recording a refund, or that its merchant was reached.   *)
StaysBut(T) ==
  /\ wasRefunded \subseteq wasRefunded'
  /\ \A t \in TradeNo \ T :
       /\ orders[t].status = Paid /\ t \notin wasRefunded'
            => orders'[t].status = Paid
       /\ orders[t].notify >= Delivered => orders'[t].notify >= Delivered

(* What no statement does to the rows outside T: let one appear, disappear, *)
(* or change its amount.                                                   *)
StandBut(T) ==
  \A t \in TradeNo \ T :
    /\ orders'[t].money = orders[t].money
    /\ orders'[t].status = Absent <=> orders[t].status = Absent
    /\ orders'[t].status = Gone <=> orders[t].status = Gone

(* create_order (store.rs:128) fills a row that was never there, and no    *)
(* other.                                                                  *)
LEMMA CreateOrderKeeps ==
  ASSUME RowsInv, NEW t \in TradeNo, NEW m \in Merchant, NEW o \in OutTradeNo,
         NEW f \in Fen, CreateOrder(t, m, o, f)
  PROVE  /\ RowsInv' /\ KeepsRows /\ StaysBut({}) /\ StandBut({t})
         /\ orders[t].status = Absent /\ orders'[t].status = Unpaid
         /\ orders'[t].money = f
         /\ \A u \in TradeNo \ {t} : orders'[u] = orders[u]
         /\ UNCHANGED <<wasPaid, wasRefunded>>
<1> DEFINE new == [NoRow EXCEPT !.status = Unpaid, !.uid = m, !.out = o,
                                !.money = f]
<1>1. new \in Row /\ new.status = Unpaid /\ new.money = f
  BY DEF NoRow, Row, Gone, Absent, Unpaid, Paid, Closed, Refunded, NoChannel
<1>2. orders' = [orders EXCEPT ![t] = new] /\ orders[t].status = Absent
      /\ UNCHANGED <<wasPaid, wasRefunded>>
  BY DEF CreateOrder
<1> HIDE DEF new
<1>3. RowsInv'
  BY <1>1, <1>2
  DEF RowsInv, RowsOK, PaidIsRecorded, AbsentUntried, Absent, Unpaid, Paid
<1>4. KeepsRows
  BY <1>1, <1>2 DEF RowsInv, RowsOK, KeepsRows, Unpaid, Absent
<1>5. StaysBut({}) /\ StandBut({t})
  BY <1>1, <1>2, StoreAssumption
  DEF RowsInv, RowsOK, AbsentUntried, StaysBut, StandBut, Gone, Absent,
      Unpaid, Paid
<1> QED  BY <1>1, <1>2, <1>3, <1>4, <1>5 DEF RowsInv, RowsOK

(* set_channel (store.rs:166) changes no column that a property counts on. *)
LEMMA SetChannelKeeps ==
  ASSUME RowsInv, NEW t \in TradeNo, NEW c \in Channel, SetChannel(t, c)
  PROVE  RowsInv' /\ KeepsRows /\ StaysBut({}) /\ StandBut({})
  BY StoreAssumption
  DEF RowsInv, RowsOK, PaidIsRecorded, AbsentUntried, KeepsRows, StaysBut,
      StandBut, Gone, SetChannel, Row, NoChannel, Exists, Absent, Unpaid, Paid

(* mark_paid (store.rs:207) leaves the order paid when it answers true.    *)
LEMMA MarkPaidKeeps ==
  ASSUME RowsInv, NEW t \in TradeNo, NEW api \in Payment \cup {Nil},
         MarkPaid(t, api)
  PROVE  /\ RowsInv' /\ KeepsRows /\ StaysBut({}) /\ StandBut({})
         /\ BecomesPaid(t) => orders'[t].status = Paid
         /\ BecomesPaid(t) => t \in wasPaid'
         /\ wasPaid' \subseteq wasPaid \cup {t}
         /\ wasRefunded' = wasRefunded
  BY DEF RowsInv, RowsOK, PaidIsRecorded, AbsentUntried, KeepsRows, StaysBut,
         StandBut, Gone, MarkPaid, BecomesPaid, rows, Row, Exists, Absent,
         Unpaid, Paid

(* record_notify_attempt (store.rs:236) never takes a delivered count      *)
(* back.                                                                   *)
LEMMA RecordNotifyAttemptKeeps ==
  ASSUME RowsInv, NEW t \in TradeNo, NEW success \in BOOLEAN,
         RecordNotifyAttempt(t, success)
  PROVE  RowsInv' /\ KeepsRows /\ StaysBut({}) /\ StandBut({})
<1> DEFINE count == IF success THEN Delivered ELSE orders[t].notify + 1
           new   == [orders[t] EXCEPT !.notify = count, !.notifytime = "recent"]
<1>1. orders[t] \in Row
  BY DEF RowsInv, RowsOK
<1>2. count \in Nat /\ (orders[t].notify >= Delivered => count >= Delivered)
  BY <1>1, StoreAssumption DEF Row
<1> HIDE DEF count
<1>3. /\ new \in Row /\ new.notify = count
      /\ new.uid = orders[t].uid /\ new.out = orders[t].out
      /\ new.channel = orders[t].channel
      /\ new.status = orders[t].status /\ new.money = orders[t].money
  BY <1>1, <1>2 DEF Row
<1>4. /\ orders' = IF Exists(t) THEN [orders EXCEPT ![t] = new] ELSE orders
      /\ UNCHANGED <<wasPaid, wasRefunded>>
  BY DEF RecordNotifyAttempt, count
<1> HIDE DEF new
<1> QED
  BY <1>1, <1>2, <1>3, <1>4
  DEF RowsInv, RowsOK, PaidIsRecorded, AbsentUntried, KeepsRows, StaysBut,
      StandBut, Gone, Exists, Absent, Unpaid, Paid

(* expire_pending_orders (store.rs:604) closes no order that is paid.      *)
LEMMA ExpirePendingOrdersKeeps ==
  ASSUME RowsInv, ExpirePendingOrders
  PROVE  RowsInv' /\ KeepsRows /\ StaysBut({}) /\ StandBut({})
  BY DEF RowsInv, RowsOK, PaidIsRecorded, AbsentUntried, KeepsRows, StaysBut,
         StandBut, Gone, ExpirePendingOrders, Row, Absent, Unpaid, Paid,
         Closed

(* order_set_refunded (store.rs:819) leaves a mark on what it takes back.  *)
LEMMA OrderSetRefundedKeeps ==
  ASSUME RowsInv, NEW t \in TradeNo, OrderSetRefunded(t)
  PROVE  RowsInv' /\ KeepsRows /\ StaysBut({}) /\ StandBut({})
  BY DEF RowsInv, RowsOK, PaidIsRecorded, AbsentUntried, KeepsRows, StaysBut,
         StandBut, Gone, OrderSetRefunded, rows, Row, Absent, Unpaid, Paid,
         Refunded

(* order_update_status (store.rs:830) disturbs the order it is given       *)
(* alone.                                                                  *)
LEMMA OrderUpdateStatusKeeps ==
  ASSUME RowsInv, NEW t \in TradeNo,
         NEW s \in {Unpaid, Paid, Closed, Refunded}, OrderUpdateStatus(t, s)
  PROVE  RowsInv' /\ KeepsRows /\ StaysBut({t}) /\ StandBut({})
<1> DEFINE count == IF s = Paid /\ orders[t].notify >= GiveUp
                    THEN 0 ELSE orders[t].notify
           new   == [orders[t] EXCEPT !.status = s, !.notify = count]
<1>1. orders[t] \in Row
  BY DEF RowsInv, RowsOK
<1>2. count \in Nat
  BY <1>1 DEF Row
<1> HIDE DEF count
<1>3. /\ new \in Row /\ new.status = s /\ new.money = orders[t].money
      /\ new.uid = orders[t].uid /\ new.out = orders[t].out
      /\ new.channel = orders[t].channel
  BY <1>1, <1>2 DEF Row
<1>4. /\ Exists(t) /\ orders' = [orders EXCEPT ![t] = new]
      /\ wasPaid' = IF s = Paid THEN wasPaid \cup {t} ELSE wasPaid
      /\ wasRefunded' = wasRefunded
  BY DEF OrderUpdateStatus, count
<1> HIDE DEF new
<1> QED
  BY <1>1, <1>3, <1>4
  DEF RowsInv, RowsOK, PaidIsRecorded, AbsentUntried, KeepsRows, StaysBut,
      StandBut, Gone, Exists, Absent, Unpaid, Paid, Closed, Refunded

(* order_delete and its batch (store.rs:797) disturb the given orders      *)
(* alone.                                                                  *)
LEMMA OrderDeleteKeeps ==
  ASSUME RowsInv, NEW T \in SUBSET TradeNo, OrderDelete(T)
  PROVE  RowsInv' /\ KeepsRows /\ StaysBut(T) /\ StandBut(T)
<1> DEFINE gone == [NoRow EXCEPT !.status = Gone]
<1>1. gone \in Row /\ gone.status = Gone
  BY DEF NoRow, Row, Gone, Absent, Unpaid, Paid, Closed, Refunded, NoChannel
<1>2. /\ orders' = [t \in TradeNo |->
                       IF t \in T /\ Exists(t) THEN gone ELSE orders[t]]
      /\ UNCHANGED <<wasPaid, wasRefunded>>
  BY DEF OrderDelete
<1> HIDE DEF gone
<1> QED
  BY <1>1, <1>2
  DEF RowsInv, RowsOK, PaidIsRecorded, AbsentUntried, KeepsRows, StaysBut,
      StandBut, Gone, Exists, Gone, Absent, Unpaid, Paid

(* An order passing its 30 minutes changes only its age (store.rs:606).    *)
LEMMA OrderAgesKeeps ==
  ASSUME RowsInv, NEW t \in TradeNo, OrderAges(t)
  PROVE  RowsInv' /\ KeepsRows /\ StaysBut({}) /\ StandBut({})
  BY DEF RowsInv, RowsOK, PaidIsRecorded, AbsentUntried, KeepsRows, StaysBut,
         StandBut, Gone, OrderAges, Row, Absent, Unpaid, Paid

(* The 10 seconds of the retry filter change only notifytime's age         *)
(* (store.rs:260).                                                         *)
LEMMA NotifyWindowPassesKeeps ==
  ASSUME RowsInv, NEW t \in TradeNo, NotifyWindowPasses(t)
  PROVE  RowsInv' /\ KeepsRows /\ StaysBut({}) /\ StandBut({})
  BY DEF RowsInv, RowsOK, PaidIsRecorded, AbsentUntried, KeepsRows, StaysBut,
         StandBut, Gone, NotifyWindowPasses, Row, Absent, Unpaid, Paid

(* A statement that failed, or found nothing to do, keeps everything.      *)
LEMMA RowsUnchanged ==
  ASSUME RowsInv, UNCHANGED rows
  PROVE  RowsInv' /\ KeepsRows /\ StaysBut({}) /\ StandBut({})
  BY DEF RowsInv, RowsOK, PaidIsRecorded, AbsentUntried, KeepsRows, StaysBut,
         StandBut, Gone, rows

(* Rows appear by the INSERT of create_order alone (store.rs:128).         *)
LEMMA NoRowAppears ==
  ASSUME RowsInv, NEW t \in TradeNo, orders[t].status = Absent,
         \/ \E u, c : SetChannel(u, c)
         \/ \E u, api : MarkPaid(u, api)
         \/ \E u, success : RecordNotifyAttempt(u, success)
         \/ \E u, s : OrderUpdateStatus(u, s)
         \/ \E u : OrderSetRefunded(u) \/ OrderAges(u) \/ NotifyWindowPasses(u)
         \/ \E T : OrderDelete(T)
         \/ ExpirePendingOrders
         \/ UNCHANGED rows
  PROVE  orders'[t].status = Absent
<1>1. orders \in [TradeNo -> Row] /\ ~ Exists(t)
  BY DEF RowsInv, RowsOK, Exists, Absent, Unpaid
<1>2. CASE \E u, c : SetChannel(u, c)
  BY <1>1, <1>2 DEF SetChannel, Row
<1>3. CASE \E u, api : MarkPaid(u, api)
  BY <1>1, <1>3 DEF MarkPaid, BecomesPaid, rows, Row
<1>4. CASE \E u, success : RecordNotifyAttempt(u, success)
  BY <1>1, <1>4 DEF RecordNotifyAttempt, Row
<1>5. CASE \E u, s : OrderUpdateStatus(u, s)
  BY <1>1, <1>5 DEF OrderUpdateStatus, Row
<1>6. CASE \E u : OrderSetRefunded(u) \/ OrderAges(u) \/ NotifyWindowPasses(u)
  BY <1>1, <1>6
  DEF OrderSetRefunded, OrderAges, NotifyWindowPasses, rows, Row, Absent, Paid
<1>7. CASE \E T : OrderDelete(T)
  BY <1>1, <1>7 DEF OrderDelete
<1>8. CASE ExpirePendingOrders \/ UNCHANGED rows
  BY <1>1, <1>8 DEF ExpirePendingOrders, rows, Absent, Unpaid
<1> QED  BY <1>2, <1>3, <1>4, <1>5, <1>6, <1>7, <1>8
-----------------------------------------------------------------------------
(* Whole steps.  Every step of the modules above is one of these statements *)
(* next to changes of other variables.                                     *)

BesideOK ==
  /\ users \in [Merchant -> {"active", "banned", "deleted"}]
  /\ enabled \subseteq Channel
  /\ edited \subseteq TradeNo
  /\ faults \in 0 .. MaxFaults
  /\ losses \in 0 .. MaxLosses
  /\ edits \in 0 .. MaxEdits

StoreInv == RowsInv /\ BesideOK

(* A step in which an administrator edits T and the rows of U appear or      *)
(* disappear.                                                              *)
StoreStep(T, U) ==
  /\ StoreInv'
  /\ KeepsRows
  /\ StaysBut(T) /\ edited' = edited \cup T
  /\ StandBut(U)

(* A number that was never handed out has no history; a row in the table is *)
(* for an amount; only administrators take rows out of it.                 *)
RowsPlaced ==
  \A t \in TradeNo :
    /\ orders[t].status = Absent
       => orders[t].money = Nil /\ t \notin wasPaid \cup edited
    /\ orders[t].status = Gone => orders[t].money = Nil /\ t \in edited
    /\ Exists(t) => orders[t].money \in Fen

(* The store's invariant carries its type invariant.                       *)
LEMMA StoreInvTypes == StoreInv => StoreTypeOK
  BY DEF StoreInv, RowsInv, RowsOK, BesideOK, StoreTypeOK

(* A table without orders satisfies the store's invariant, whatever is in   *)
(* the other tables.                                                       *)
LEMMA StoreInvInit ==
  ASSUME HistoryEmpty, orders \in [TradeNo -> Row],
         \A t \in TradeNo : orders[t].status # Paid /\ orders[t].notify = 0,
         users = [m \in Merchant |-> "active"], enabled \subseteq Channel
  PROVE  StoreInv
  BY StoreAssumption
  DEF HistoryEmpty, StoreInv, RowsInv, RowsOK, BesideOK, PaidIsRecorded,
      AbsentUntried

(* Nothing but a bounded counter moves: a failed statement, a lost task, a  *)
(* step of a handler between two statements.                               *)
LEMMA QuietStep ==
  ASSUME StoreInv, UNCHANGED <<tables, history>>,
         UNCHANGED faults \/ Fault, UNCHANGED losses \/ Loss, UNCHANGED edits
  PROVE  StoreStep({}, {})
<1>1. RowsInv' /\ KeepsRows /\ StaysBut({}) /\ StandBut({})
  BY RowsUnchanged DEF StoreInv, tables, history, rows
<1>2. BesideOK' /\ edited' = edited \cup {}
  BY StoreAssumption DEF StoreInv, BesideOK, tables, history, Fault, Loss
<1> QED  BY <1>1, <1>2 DEF StoreStep, StoreInv

(* A statement of a handler or task, or one that failed instead.           *)
LEMMA StatementStep ==
  ASSUME StoreInv, NEW U \in SUBSET TradeNo,
         RowsInv' /\ KeepsRows /\ StaysBut({}) /\ StandBut(U),
         UNCHANGED faults \/ Fault,
         UNCHANGED <<users, enabled, edited, losses, edits>>
  PROVE  StoreStep({}, U)
<1>1. BesideOK' /\ edited' = edited \cup {}
  BY StoreAssumption DEF StoreInv, BesideOK, Fault
<1> QED  BY <1>1 DEF StoreStep, StoreInv

(* order_update (admin.rs:754).                                            *)
LEMMA OrderUpdateStep ==
  ASSUME StoreInv, NEW t \in TradeNo,
         NEW s \in {Unpaid, Paid, Closed, Refunded}, OrderUpdate(t, s)
  PROVE  /\ StoreStep({t}, {}) /\ Exists(t)
         /\ wasPaid' = wasPaid \/ wasPaid' = wasPaid \cup {t}
<1>1. RowsInv' /\ KeepsRows /\ StaysBut({t}) /\ StandBut({})
  BY OrderUpdateStatusKeeps DEF StoreInv, OrderUpdate
<1>2. BesideOK' /\ edited' = edited \cup {t}
  BY StoreAssumption DEF StoreInv, BesideOK, OrderUpdate, Edit
<1> QED
  BY <1>1, <1>2 DEF StoreStep, StoreInv, OrderUpdate, OrderUpdateStatus

(* order_delete and the batch action (admin.rs:770-847), for one order.    *)
LEMMA OrderDeleteStep ==
  ASSUME StoreInv, NEW t \in TradeNo, OrdersDelete({t})
  PROVE  /\ StoreStep({t}, {t}) /\ Exists(t) /\ wasPaid' = wasPaid
         /\ orders'[t].status = Gone /\ orders'[t].money = Nil
<1>1. RowsInv' /\ KeepsRows /\ StaysBut({t}) /\ StandBut({t})
  BY OrderDeleteKeeps DEF StoreInv, OrdersDelete
<1>2. BesideOK' /\ edited' = edited \cup {t}
  BY StoreAssumption DEF StoreInv, BesideOK, OrdersDelete, Edit
<1>3. Exists(t) /\ orders'[t] = [NoRow EXCEPT !.status = Gone]
  BY DEF OrdersDelete, OrderDelete
<1>4. orders'[t].status = Gone /\ orders'[t].money = Nil
  BY <1>3 DEF NoRow
<1> QED
  BY <1>1, <1>2, <1>3, <1>4
  DEF StoreStep, StoreInv, OrdersDelete, OrderDelete

(* The three clauses of RowsPlaced through any step: rows appear by the     *)
(* INSERT alone, and go to an administrator alone.                         *)
LEMMA PlacedKeep ==
  ASSUME StoreInv, RowsPlaced, NEW T \in SUBSET TradeNo,
         NEW U \in SUBSET TradeNo, StoreStep(T, U),
         \A t \in T : Exists(t),
         \A t \in wasPaid' \ wasPaid : Exists(t),
         \A t \in U :
           \/ orders'[t].status = Unpaid /\ orders'[t].money \in Fen
           \/ orders'[t].status = Gone /\ orders'[t].money = Nil /\ t \in T
  PROVE  RowsPlaced'
<1> SUFFICES ASSUME NEW t \in TradeNo
             PROVE  /\ orders'[t].status = Absent
                       => orders'[t].money = Nil /\ t \notin wasPaid' \cup edited'
                    /\ orders'[t].status = Gone
                       => orders'[t].money = Nil /\ t \in edited'
                    /\ orders'[t].status >= Unpaid => orders'[t].money \in Fen
  BY DEF RowsPlaced, Exists
<1>1. orders[t] \in Row /\ orders'[t] \in Row
  BY DEF StoreStep, StoreInv, RowsInv, RowsOK
<1>2. CASE t \in U
  BY <1>2 DEF StoreStep, Unpaid, Absent, Gone
<1>3. CASE t \notin U
  <2>1. /\ orders'[t].money = orders[t].money
        /\ orders'[t].status = Absent <=> orders[t].status = Absent
        /\ orders'[t].status = Gone <=> orders[t].status = Gone
    BY <1>3 DEF StoreStep, StandBut
  <2>2. Exists(t) <=> orders[t].status \notin {Absent, Gone}
    BY <1>1 DEF Row, Exists, Gone, Absent, Unpaid, Paid, Closed, Refunded
  <2>3. orders'[t].status >= Unpaid <=> orders'[t].status \notin {Absent, Gone}
    BY <1>1 DEF Row, Gone, Absent, Unpaid, Paid, Closed, Refunded
  <2>4. edited' = edited \cup T
    BY DEF StoreStep
  <2> QED  BY <2>1, <2>2, <2>3, <2>4 DEF RowsPlaced
<1> QED  BY <1>2, <1>3

(* Merchants and channels change without a row of pay_order                *)
(* (admin.rs:339, 443, 989).                                               *)
LEMMA TableStep ==
  ASSUME StoreInv, \/ \E m \in Merchant : MerchantDelete(m) \/ MerchantUpdate(m)
                   \/ \E c \in Channel : ChannelUpdate(c)
  PROVE  StoreStep({}, {}) /\ UNCHANGED rows
<1>1. UNCHANGED rows
  BY DEF MerchantDelete, MerchantUpdate, ChannelUpdate
<1>2. RowsInv' /\ KeepsRows /\ StaysBut({}) /\ StandBut({})
  BY <1>1, RowsUnchanged DEF StoreInv
<1>3. /\ users' \in [Merchant -> {"active", "banned", "deleted"}]
      /\ enabled' \subseteq Channel
  BY DEF StoreInv, BesideOK, MerchantDelete, MerchantUpdate, ChannelUpdate
<1>4. Edit({}) /\ UNCHANGED <<faults, losses>>
  BY DEF MerchantDelete, MerchantUpdate, ChannelUpdate
<1>5. BesideOK' /\ edited' = edited \cup {}
  BY <1>3, <1>4, StoreAssumption DEF StoreInv, BesideOK, Edit
<1> QED  BY <1>1, <1>2, <1>5 DEF StoreStep, StoreInv
=============================================================================
