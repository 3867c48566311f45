------------------------------ MODULE Gateway -------------------------------
(***************************************************************************)
(* The whole payment path of rpay: checkout and notifier composed with the  *)
(* provider callbacks and browser returns of src/src/web.rs and the refund  *)
(* of src/src/admin.rs.  A worker serves one request at a time; workers,    *)
(* the two background tasks, administrators, buyers and providers           *)
(* interleave at every await.                                              *)
(***************************************************************************)
EXTENDS Checkout, Notifier

VARIABLES
  cb,            \* callback, return or refund, as run by each worker
  acked          \* history: payments whose provider got a positive answer

gatewayVars == <<cb, acked>>

Callback ==
  [pc  : {"idle", "mark", "answer", "refund", "record"},
   via : {"none", "webhook", "return", "admin"},
   p   : Payment \cup {Nil},
   t   : TradeNo \cup {Nil},
   c   : Channel \cup {NoChannel}]

NoCallback ==
  [pc |-> "idle", via |-> "none", p |-> Nil, t |-> Nil, c |-> NoChannel]

Serves(t, p, via) ==
  [pc |-> "mark", via |-> via, p |-> p, t |-> t, c |-> payments[p].c]

GatewayTypeOK ==
  /\ CheckoutTypeOK
  /\ NotifierTypeOK
  /\ cb \in [Worker -> Callback]
  /\ acked \subseteq Payment

Idle(w) == cb[w].pc = "idle" /\ sub[w].pc = "idle" /\ job[w].pc = "idle"

HandlerReturns(w) == cb' = [cb EXCEPT ![w] = NoCallback]

-----------------------------------------------------------------------------
(* Webhooks.  A provider reports a payment it has collected as often as it  *)
(* likes, and PayPal one that is approved (external).                      *)

(* Variant, for mutation: a message about a payment still open passes.     *)
ReportedOpen(p) == payments[p].state # "none"

Reported(p) == payments[p].state \in {"approved", "paid", "refunded"}

(* What the five notify handlers check before mark_paid: the order is there *)
(* and the channel of its row authenticates the message.  Alipay and WeChat *)
(* handlers also compare the amounts.  Channels have credentials of their   *)
(* own.                                                                    *)
Verified(p) ==
  LET t == payments[p].t IN
  /\ Exists(t) /\ orders[t].channel = payments[p].c
  /\ OnePerOrder(payments[p].c) => orders[t].money = payments[p].fen

(* Variant, for mutation: the answer goes out before mark_paid.            *)
CallbackAcksFirst(w, p) ==
  /\ Idle(w) /\ Reported(p) /\ Verified(p)
  /\ cb' = [cb EXCEPT ![w] = Serves(payments[p].t, p, "webhook")]
  /\ acked' = acked \cup {p}
  /\ UNCHANGED <<storeVars, checkoutVars, notifierVars>>

CallbackVerified(w, p) ==
  /\ Idle(w) /\ Reported(p) /\ Verified(p)
  /\ cb' = [cb EXCEPT ![w] = Serves(payments[p].t, p, "webhook")]
  /\ UNCHANGED <<storeVars, checkoutVars, notifierVars, acked>>

(* The row's channel can be read, and is one of the payment's provider.    *)
ChannelFound(p) ==
  LET t == payments[p].t IN
  /\ Exists(t) /\ orders[t].channel # NoChannel
  /\ Plugin[orders[t].channel] = Plugin[payments[p].c]

(* Alipay and WeChat are told of the failure and will call again.  The      *)
(* PayPal and Stripe handlers answer 200 when the order or its channel is   *)
(* not found, and PayPal's when the message is not authentic too.  A read   *)
(* that fails counts as a row that is not there.                           *)
CallbackUnverified(p) ==
  /\ Reported(p)
  /\ \/ /\ Plugin[payments[p].c] = "paypal" /\ ~ Verified(p)
        /\ UNCHANGED faults
     \/ /\ Plugin[payments[p].c] = "stripe" /\ ~ ChannelFound(p)
        /\ UNCHANGED faults
     \/ Plugin[payments[p].c] \in {"paypal", "stripe"} /\ Fault
  /\ acked' = acked \cup {p}
  /\ UNCHANGED <<tables, history, losses, edits, checkoutVars, notifierVars,
                 cb>>

(* mark_paid, then notify_merchant if it returned true.  PayPal passes no   *)
(* transaction number.  An error counts as false, whether or not the        *)
(* transaction had committed.                                              *)
CallbackMark(w) ==
  LET t   == cb[w].t
      api == IF Plugin[cb[w].c] = "paypal" THEN Nil ELSE cb[w].p
  IN
  /\ cb[w].pc = "mark"
  /\ \/ /\ MarkPaid(t, api)
        /\ job' = IF BecomesPaid(t) THEN [job EXCEPT ![w] = Calls(t)] ELSE job
        /\ UNCHANGED faults
     \/ /\ Fault
        /\ MarkPaid(t, api) \/ UNCHANGED rows
        /\ UNCHANGED job
  /\ cb' = [cb EXCEPT ![w].pc = "answer"]
  /\ UNCHANGED <<users, enabled, edited, losses, edits, checkoutVars,
                 batch, told, sends, acked>>

(* The handlers answer success whatever mark_paid and the merchant said.    *)
CallbackAnswer(w) ==
  /\ cb[w].pc = "answer" /\ cb[w].via = "webhook" /\ job[w].pc = "idle"
  /\ acked' = acked \cup {cb[w].p}
  /\ HandlerReturns(w)
  /\ UNCHANGED <<storeVars, checkoutVars, notifierVars>>

-----------------------------------------------------------------------------
(* Browser returns.                                                        *)

(* The order and the session that stripe_return reads, each named by a       *)
(* parameter of its own: the session is any that the key of the channel in   *)
(* the row can retrieve.  Nothing compares it with the order.              *)
ReturnReads(t, p) ==
  /\ Exists(t)
  /\ payments[p].state # "none"
  /\ orders[t].channel = payments[p].c /\ Plugin[payments[p].c] = "stripe"

(* Variant, for mutation: payment_status is not looked at.                 *)
StripeReturnUnpaid(w, t, p) ==
  /\ Idle(w)
  /\ ReturnReads(t, p)
  /\ cb' = [cb EXCEPT ![w] = Serves(t, p, "return")]
  /\ UNCHANGED <<storeVars, checkoutVars, notifierVars, acked>>

(* stripe_return.  When the session is not paid the order is not marked, but *)
(* the buyer goes on to the merchant all the same.                         *)
StripeReturn(w, t, p) ==
  /\ Idle(w)
  /\ ReturnReads(t, p)
  /\ cb' = [cb EXCEPT ![w] =
              IF payments[p].state = "open"
              THEN [Serves(t, p, "return") EXCEPT !.pc = "answer"]
              ELSE Serves(t, p, "return")]
  /\ UNCHANGED <<storeVars, checkoutVars, notifierVars, acked>>

(* build_callback_url only reads: the buyer goes back to the merchant.       *)
ReturnAnswer(w) ==
  /\ cb[w].pc = "answer" /\ cb[w].via = "return" /\ job[w].pc = "idle"
  /\ HandlerReturns(w)
  /\ UNCHANGED <<storeVars, checkoutVars, notifierVars, acked>>

-----------------------------------------------------------------------------
(* order_refund: read the order, call Alipay, write the row.  Only Alipay   *)
(* channels can refund; Alipay finds the trade by our trade_no and refunds  *)
(* it once (external).                                                     *)

RefundRead(w, t) ==
  /\ Idle(w)
  /\ Edit({})
  /\ orders[t].status = Paid
  /\ orders[t].channel \in Channel /\ Plugin[orders[t].channel] = "alipay"
  /\ cb' = [cb EXCEPT ![w] = [pc |-> "refund", via |-> "admin", p |-> Nil,
                              t |-> t, c |-> orders[t].channel]]
  /\ UNCHANGED <<rows, users, enabled, faults, losses, checkoutVars,
                 notifierVars, acked>>

Refundable(t, c) ==
  {p \in Opened(t, c) : payments[p].state \in {"paid", "refunded"}}

RefundCall(w) ==
  /\ cb[w].pc = "refund"
  /\ \E p \in Refundable(cb[w].t, cb[w].c) :
       /\ payments' = [payments EXCEPT ![p].state = "refunded"]
       /\ \/ cb' = [cb EXCEPT ![w].pc = "record"]
          \/ HandlerReturns(w)                     \* Alipay's answer is lost
  /\ UNCHANGED <<storeVars, sub, notifierVars, acked>>

(* Variant, for mutation: Alipay's refusal is taken for success.           *)
RefundRefusalIgnored(w) ==
  /\ cb[w].pc = "refund"
  /\ cb' = [cb EXCEPT ![w].pc = "record"]
  /\ UNCHANGED <<storeVars, checkoutVars, notifierVars, acked>>

RefundRefused(w) ==
  /\ cb[w].pc = "refund"
  /\ HandlerReturns(w)
  /\ UNCHANGED <<storeVars, checkoutVars, notifierVars, acked>>

RefundRecord(w) ==
  /\ cb[w].pc = "record"
  /\ \/ OrderSetRefunded(cb[w].t) /\ UNCHANGED faults
     \/ Fault /\ UNCHANGED rows
  /\ HandlerReturns(w)
  /\ UNCHANGED <<users, enabled, edited, losses, edits, checkoutVars,
                 notifierVars, acked>>

HandlerStep(w) ==
  \/ CallbackMark(w)
  \/ CallbackAnswer(w)
  \/ ReturnAnswer(w)
  \/ RefundCall(w)
  \/ RefundRefused(w)
  \/ RefundRecord(w)

-----------------------------------------------------------------------------
(* Losses.                                                                 *)

DropHandler(w) ==
  /\ Loss
  /\ ~ Idle(w)
  /\ SubmitReturns(w)
  /\ HandlerReturns(w)
  /\ job' = [job EXCEPT ![w] = NoJob]
  /\ UNCHANGED <<tables, history, faults, edits, payments, batch, told, sends,
                 acked>>

(* The process dies with every handler and both tasks; the tables and the   *)
(* providers keep what they have.                                          *)
Restart ==
  /\ Loss
  /\ sub' = [w \in Worker |-> NoSubmit]
  /\ cb' = [w \in Worker |-> NoCallback]
  /\ job' = [p \in Notifying |-> NoJob]
  /\ batch' = {}
  /\ UNCHANGED <<tables, history, faults, edits, payments, told, sends,
                 acked>>

-----------------------------------------------------------------------------
GatewayInit ==
  /\ CheckoutInit
  /\ NotifierIdle
  /\ cb = [w \in Worker |-> NoCallback]
  /\ acked = {}

CheckoutPart ==
  /\ \/ \E w \in Worker, m \in Merchant, o \in OutTradeNo, f \in Fen, y \in PayType :
          Idle(w) /\ SubmitBegin(w, m, o, f, y)
     \/ \E w \in Worker : SubmitStep(w)
     \/ \E t \in TradeNo : AlipayWappay(t)
     \/ \E p \in Payment : BuyerPays(p)
     \/ ExpireTask
     \/ OrderTimePasses
  /\ UNCHANGED <<notifierVars, gatewayVars>>

NotifierPart ==
  /\ \/ \E p \in Notifying : NotifyStep(p)
     \/ RetryTick
     \/ RetryNext
     \/ NotifyTimePasses
  /\ UNCHANGED <<checkoutVars, gatewayVars>>

AdminPart ==
  /\ \/ \E t \in TradeNo, s \in {Unpaid, Paid, Closed, Refunded} : OrderUpdate(t, s)
     \/ \E t \in TradeNo : OrdersDelete({t})
     \/ \E m \in Merchant : MerchantDelete(m)
     \/ \E m \in Merchant : MerchantUpdate(m)
     \/ \E c \in Channel : ChannelUpdate(c)
  /\ UNCHANGED <<checkoutVars, notifierVars, gatewayVars>>

CallbackPart ==
  \/ \E w \in Worker, p \in Payment : CallbackVerified(w, p)
  \/ \E p \in Payment : CallbackUnverified(p)
  \/ \E w \in Worker, t \in TradeNo, p \in Payment : StripeReturn(w, t, p)
  \/ \E w \in Worker, t \in TradeNo : RefundRead(w, t)
  \/ \E w \in Worker : HandlerStep(w)
  \/ \E w \in Worker : DropHandler(w)
  \/ Restart

GatewayNext == CheckoutPart \/ NotifierPart \/ AdminPart \/ CallbackPart

gvars == <<storeVars, checkoutVars, notifierVars, gatewayVars>>

GatewaySpec == GatewayInit /\ [][GatewayNext]_gvars

(* A request that has begun goes on, in its own step or in the notification *)
(* it makes; the retry task ticks and the clock advances; a provider that   *)
(* was not acknowledged calls again until a call is served.                 *)
GatewayFairness ==
  /\ \A w \in Worker :
       /\ WF_gvars(HandlerStep(w))
       /\ WF_gvars(SubmitStep(w) /\ UNCHANGED <<notifierVars, gatewayVars>>)
  /\ \A p \in Notifying :
       WF_gvars(NotifyStep(p) /\ UNCHANGED <<checkoutVars, gatewayVars>>)
  /\ WF_gvars(RetryTick /\ UNCHANGED <<checkoutVars, gatewayVars>>)
  /\ WF_gvars(RetryNext /\ UNCHANGED <<checkoutVars, gatewayVars>>)
  /\ WF_gvars(NotifyTimePasses /\ UNCHANGED <<checkoutVars, gatewayVars>>)
  /\ \A p \in Payment :
       SF_gvars(p \notin acked /\ \E w \in Worker : CallbackVerified(w, p))

FairGatewaySpec == GatewaySpec /\ GatewayFairness

-----------------------------------------------------------------------------
(* Properties.                                                             *)

Collected(t) ==
  {payments[p].fen : p \in {q \in Payment : payments[q].t = t /\
                              payments[q].state \in {"paid", "refunded"}}}

(* An order the code itself marked paid was paid for, in full, at a         *)
(* provider, whichever of submit, callbacks, returns, expiry, refunds and   *)
(* losses came in between (web.rs:468-515 and the other four handlers).  It  *)
(* ends where PayPal's approval counts as paid (web.rs:932) and where        *)
(* stripe_return takes a session of another order (web.rs:951-978).         *)
FundedInFull ==
  \A t \in wasPaid \ edited : orders[t].money \in Collected(t)

(* A payment for t was at least approved at PayPal.                        *)
PaypalReported(t) ==
  \E p \in Payment : /\ Reported(p) /\ payments[p].t = t
                     /\ Plugin[payments[p].c] = "paypal"

(* The transaction number in t's row is of a session collected at Stripe,    *)
(* for whichever order it was opened.                                      *)
SessionCollected(t) ==
  \E p \in Payment : /\ orders[t].api = p
                     /\ payments[p].state \in {"paid", "refunded"}
                     /\ Plugin[payments[p].c] = "stripe"

(* What is left on any channels, for an order that the code marked paid:     *)
(* its own amount was collected, or PayPal reported a payment of it, or its  *)
(* row names the collected Stripe session that it was marked for (web.rs:   *)
(* 932, 967-972; store.rs:224-231).                                        *)
PaidIsBacked ==
  \A t \in wasPaid \ edited :
    \/ orders[t].money \in Collected(t)
    \/ PaypalReported(t)
    \/ SessionCollected(t)

(* The gateway keeps PaymentPromise: no step of it, however interleaved,    *)
(* does more to an order than placing, collecting, confirming what was      *)
(* collected, telling what was confirmed, or an administrator's override    *)
(* (web.rs, store.rs:128-234).                                             *)
Promise ==
  INSTANCE PaymentPromise WITH
    Order      <- TradeNo,
    Amount     <- Fen,
    None       <- Nil,
    due        <- [t \in TradeNo |-> orders[t].money],
    collected  <- [t \in TradeNo |-> Collected(t)],
    confirmed  <- wasPaid,
    overridden <- edited

KeepsPromise == Promise!PromiseSpec

(* A refund recorded in an order was made at the provider                   *)
(* (admin.rs:869-881).                                                     *)
RefundedAtProvider ==
  \A t \in wasRefunded :
    \E p \in Payment : payments[p].t = t /\ payments[p].state = "refunded"

(* A provider that got a positive answer needs not call again: the order    *)
(* of the payment is recorded as paid (web.rs:505-514).                    *)
AckedIsRecorded ==
  \A p \in acked : payments[p].t \in wasPaid \cup edited

(* A refunded order does not become paid again without an administrator     *)
(* (store.rs:207-234).                                                     *)
NoRevival ==
  [][\A t \in TradeNo :
       orders[t].status = Refunded /\ t \notin edited'
       => orders'[t].status = Refunded]_orders

(* The order of a payment has gone to another channel since.               *)
Rerouted(p) ==
  payments[p].state # "none" /\ orders[payments[p].t].channel # payments[p].c

(* A payment that the buyer made is in the end recorded in its order, even  *)
(* if handlers are dropped, the process restarts or the order expired       *)
(* meanwhile.  The promise ends where a later submit has sent the order to  *)
(* another channel: callbacks for the first one fail or, at Stripe, are     *)
(* answered and lost (web.rs:221-224, 477, 505-514).                        *)
CollectedIsRecorded ==
  \A p \in Payment :
    payments[p].state = "paid" /\ p \notin acked
    ~> payments[p].t \in wasPaid \cup edited \/ Rerouted(p)
=============================================================================
