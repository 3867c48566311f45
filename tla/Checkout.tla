------------------------------ MODULE Checkout ------------------------------
(***************************************************************************)
(* submit and alipay_wappay of src/src/web.rs, the payments they open at    *)
(* the providers, and the task that expires unpaid orders.  submit runs one *)
(* statement after the other with other handlers in between: look up the    *)
(* order, create it, look up the channel, store the channel, call the       *)
(* provider.                                                               *)
(***************************************************************************)
EXTENDS AdminOps

CONSTANTS
  PayType,       \* pay_type.name
  TypeOf,        \* pay_channel.type, as the name of the type
  Plugin,        \* pay_channel.plugin
  PayMin, PayMax \* pay_channel.paymin and paymax, in fen

(* wxpaynp, the service-provider mode, runs the code of wxpayn.            *)
Plugins == {"alipay", "wxpay", "wxpayn", "paypal", "stripe"}

ASSUME CheckoutAssumption ==
  /\ TypeOf \in [Channel -> PayType]
  /\ Plugin \in [Channel -> Plugins]
  /\ PayMin \in [Channel -> Nat] /\ PayMax \in [Channel -> Nat]
  /\ Nil \notin PayType

VARIABLES
  sub,           \* submit, as run by each worker
  payments       \* what the providers hold (external)

checkoutVars == <<sub, payments>>

Submit == [pc  : {"idle", "find", "create", "route", "set", "dispatch"},
           uid : Merchant \cup {Nil}, out  : OutTradeNo \cup {Nil},
           fen : Fen \cup {Nil},      type : PayType \cup {Nil},
           t   : TradeNo \cup {Nil},  c    : Channel \cup {NoChannel}]

NoSubmit == [pc |-> "idle", uid |-> Nil, out |-> Nil, fen |-> Nil,
             type |-> Nil, t |-> Nil, c |-> NoChannel]

PaymentState ==
  [state : {"none", "open", "approved", "paid", "refunded"},
   t     : TradeNo \cup {Nil}, c : Channel \cup {NoChannel},
   fen   : Fen \cup {Nil}]

NoPayment == [state |-> "none", t |-> Nil, c |-> NoChannel, fen |-> Nil]

CheckoutTypeOK ==
  /\ StoreTypeOK
  /\ sub \in [Worker -> Submit]
  /\ payments \in [Payment -> PaymentState]

CheckoutIdle ==
  /\ sub = [w \in Worker |-> NoSubmit]
  /\ payments = [p \in Payment |-> NoPayment]

-----------------------------------------------------------------------------
(* The providers (external).  Alipay and WeChat know a payment by our       *)
(* trade_no and keep one per order; every call to PayPal and Stripe makes a *)
(* new one.                                                                *)

OnePerOrder(c) == Plugin[c] \in {"alipay", "wxpay", "wxpayn"}

Opened(t, c) ==
  {p \in Payment : payments[p].state # "none" /\ payments[p].t = t
                                              /\ payments[p].c = c}

OpenPayment(t, c, f) ==
  IF OnePerOrder(c) /\ Opened(t, c) # {}
  THEN UNCHANGED payments
  ELSE \E p \in Payment :
         /\ payments[p].state = "none"
         /\ payments' = [payments EXCEPT ![p] =
                           [state |-> "open", t |-> t, c |-> c, fen |-> f]]

(* The buyer completes the payment.  At PayPal this approves it; the money  *)
(* moves when the order is captured.                                       *)
BuyerPays(p) ==
  /\ payments[p].state = "open"
  /\ payments' = [payments EXCEPT ![p].state =
                    IF Plugin[payments[p].c] = "paypal" THEN "approved"
                                                        ELSE "paid"]
  /\ UNCHANGED <<storeVars, sub>>

-----------------------------------------------------------------------------
(* submit, one action per await.                                           *)

Submitting(w, pc) == sub[w].pc = pc

SubmitReturns(w) == sub' = [sub EXCEPT ![w] = NoSubmit]

(* A well-formed, correctly signed request of a merchant that may pay.     *)
SubmitBegin(w, m, o, f, y) ==
  /\ Submitting(w, "idle")
  /\ users[m] = "active"
  /\ sub' = [sub EXCEPT ![w] = [NoSubmit EXCEPT
               !.pc = "find", !.uid = m, !.out = o, !.fen = f, !.type = y]]
  /\ UNCHANGED <<storeVars, payments>>

(* Variants, for mutation: the amount is part of the lookup; the amount of   *)
(* the order found is not compared.                                        *)
SubmitFindByAmount(w) ==
  LET found == {t \in ExistingOrders(sub[w].uid, sub[w].out) :
                  orders[t].money = sub[w].fen} IN
  /\ Submitting(w, "find")
  /\ \/ /\ found = {}
        /\ sub' = [sub EXCEPT ![w].pc = "create"]
     \/ \E t \in found :
          /\ orders[t].status = Unpaid
          /\ sub' = [sub EXCEPT ![w].pc = "route", ![w].t = t]
     \/ /\ found # {}
        /\ SubmitReturns(w)
  /\ UNCHANGED <<storeVars, payments>>

SubmitFindAnyAmount(w) ==
  LET found == ExistingOrders(sub[w].uid, sub[w].out) IN
  /\ Submitting(w, "find")
  /\ \/ /\ found = {}
        /\ sub' = [sub EXCEPT ![w].pc = "create"]
     \/ \E t \in found :
          /\ orders[t].status = Unpaid
          /\ sub' = [sub EXCEPT ![w].pc = "route", ![w].t = t]
     \/ /\ found # {}
        /\ SubmitReturns(w)
  /\ UNCHANGED <<storeVars, payments>>

(* LIMIT 1 without ORDER BY: any of the rows, should there be several.  A    *)
(* row that is paid, closed or refunded ends the request, and so does one   *)
(* whose amount, name or URLs are not the request's, letter by letter.      *)
SubmitFind(w) ==
  LET found == ExistingOrders(sub[w].uid, sub[w].out) IN
  /\ Submitting(w, "find")
  /\ \/ /\ found = {}
        /\ sub' = [sub EXCEPT ![w].pc = "create"]
     \/ \E t \in found :
          /\ orders[t].status = Unpaid /\ orders[t].money = sub[w].fen
          /\ sub' = [sub EXCEPT ![w].pc = "route", ![w].t = t]
     \/ /\ found # {}
        /\ SubmitReturns(w)
  /\ UNCHANGED <<storeVars, payments>>

(* The INSERT may take effect although its answer is lost.                 *)
SubmitCreate(w) ==
  /\ Submitting(w, "create")
  /\ \E t \in TradeNo :
       /\ CreateOrder(t, sub[w].uid, sub[w].out, sub[w].fen)
       /\ \/ sub' = [sub EXCEPT ![w].pc = "route", ![w].t = t] /\ UNCHANGED faults
          \/ Fault /\ SubmitReturns(w)
  /\ UNCHANGED <<users, enabled, edited, losses, edits, payments>>

(* A statement fails, or five trade numbers in a row were taken.           *)
SubmitFails(w) ==
  /\ \/ sub[w].pc \in {"find", "create", "route"} /\ Fault
     \/ /\ Submitting(w, "create")
        /\ \A t \in TradeNo : orders[t].status # Absent
        /\ UNCHANGED faults
  /\ SubmitReturns(w)
  /\ UNCHANGED <<tables, history, losses, edits, payments>>

Routes(y) == {c \in enabled : TypeOf[c] = y}

FirstRoute(y) == CHOOSE c \in Routes(y) : \A d \in Routes(y) : c <= d

(* The order stays as created when there is no channel for the type or the  *)
(* amount is outside the channel's limits.                                 *)
SubmitRoute(w) ==
  LET c == FirstRoute(sub[w].type) IN
  /\ Submitting(w, "route")
  /\ IF Routes(sub[w].type) # {} /\ sub[w].fen \in PayMin[c] .. PayMax[c]
     THEN sub' = [sub EXCEPT ![w].pc = "set", ![w].c = c]
     ELSE SubmitReturns(w)
  /\ UNCHANGED <<storeVars, payments>>

(* The result of set_channel is dropped.                                   *)
SubmitSetChannel(w) ==
  /\ Submitting(w, "set")
  /\ \/ SetChannel(sub[w].t, sub[w].c) /\ UNCHANGED faults
     \/ Fault /\ UNCHANGED rows
  /\ sub' = [sub EXCEPT ![w].pc = "dispatch"]
  /\ UNCHANGED <<users, enabled, edited, losses, edits, payments>>

(* dispatch_pay opens a payment on the channel in hand, or shows the QR     *)
(* code of alipay_wappay, or the provider's call fails.                     *)
SubmitDispatch(w) ==
  /\ Submitting(w, "dispatch")
  /\ \/ OpenPayment(sub[w].t, sub[w].c, sub[w].fen)
     \/ UNCHANGED payments
  /\ SubmitReturns(w)
  /\ UNCHANGED storeVars

SubmitStep(w) ==
  \/ SubmitFind(w)
  \/ SubmitCreate(w)
  \/ SubmitFails(w)
  \/ SubmitRoute(w)
  \/ SubmitSetChannel(w)
  \/ SubmitDispatch(w)

-----------------------------------------------------------------------------
(* The page behind the QR code: only reads the tables.                     *)
AlipayWappay(t) ==
  /\ orders[t].status = Unpaid
  /\ orders[t].channel \in Channel /\ Plugin[orders[t].channel] = "alipay"
  /\ OpenPayment(t, orders[t].channel, orders[t].money)
  /\ UNCHANGED <<storeVars, sub>>

(* One round of the expire_pending_orders task.                            *)
ExpireTask ==
  /\ \E t \in TradeNo : orders[t].status = Unpaid /\ orders[t].addtime = "old"
  /\ ExpirePendingOrders
  /\ UNCHANGED <<users, enabled, edited, counters, checkoutVars>>

OrderTimePasses ==
  /\ \E t \in TradeNo : OrderAges(t)
  /\ UNCHANGED <<users, enabled, edited, counters, checkoutVars>>

-----------------------------------------------------------------------------
(* Checkout next to what else touches these tables: callbacks that confirm  *)
(* payments, administrators, dropped handlers and restarts.                *)

(* mark_paid in the callback for a completed payment.                      *)
PaymentConfirmed(p) ==
  /\ payments[p].state = "paid"
  /\ BecomesPaid(payments[p].t)
  /\ MarkPaid(payments[p].t, p)
  /\ UNCHANGED <<users, enabled, edited, counters, checkoutVars>>

DropSubmit(w) ==
  /\ Loss
  /\ sub[w].pc # "idle"
  /\ SubmitReturns(w)
  /\ UNCHANGED <<tables, history, faults, edits, payments>>

CheckoutInit ==
  /\ orders = [t \in TradeNo |-> NoRow]
  /\ users = [m \in Merchant |-> "active"]
  /\ enabled = Channel
  /\ HistoryEmpty
  /\ CheckoutIdle

CheckoutNext ==
  \/ \E w \in Worker, m \in Merchant, o \in OutTradeNo, f \in Fen, y \in PayType :
       SubmitBegin(w, m, o, f, y)
  \/ \E w \in Worker : SubmitStep(w)
  \/ \E w \in Worker : DropSubmit(w)
  \/ \E t \in TradeNo : AlipayWappay(t)
  \/ \E p \in Payment : BuyerPays(p)
  \/ \E p \in Payment : PaymentConfirmed(p)
  \/ ExpireTask
  \/ OrderTimePasses
  \/ \E c \in Channel : ChannelUpdate(c) /\ UNCHANGED checkoutVars
  \/ \E m \in Merchant : MerchantUpdate(m) /\ UNCHANGED checkoutVars
  \/ \E t \in TradeNo : OrdersDelete({t}) /\ UNCHANGED checkoutVars

cvars == <<storeVars, checkoutVars>>

CheckoutSpec == CheckoutInit /\ [][CheckoutNext]_cvars

(* A started submit runs to its end (every await ends: statements answer    *)
(* and provider calls time out), the interval ticks and the clock advances. *)
CheckoutFairness ==
  /\ \A w \in Worker : WF_cvars(SubmitStep(w))
  /\ WF_cvars(ExpireTask)
  /\ WF_cvars(OrderTimePasses)

FairCheckoutSpec == CheckoutSpec /\ CheckoutFairness

-----------------------------------------------------------------------------
(* Properties.                                                             *)

(* Every payment opened at a provider is for the amount the gateway order   *)
(* carries, however many submits raced, reused or re-created the order:     *)
(* PayPal and Stripe callbacks never compare amounts and rely on it         *)
(* (web.rs:170-178 compares, web.rs:226 dispatches with the request's fen). *)
AmountAgreed ==
  \A p \in Payment :
    payments[p].state # "none" /\ Exists(payments[p].t)
    => payments[p].fen = orders[payments[p].t].money

(* A merchant's order number stands for one gateway order: a repeated       *)
(* submit reuses it (web.rs:160-180).                                      *)
UniqueOrder ==
  \A m \in Merchant, o \in OutTradeNo : Cardinality(ExistingOrders(m, o)) <= 1

(* Every unpaid order is in the end paid, closed or deleted                 *)
(* (web.rs:684-700 runs store.rs:604-613).                                 *)
UnpaidEnds ==
  \A t \in TradeNo : orders[t].status = Unpaid ~> orders[t].status # Unpaid
=============================================================================
