---------------------------- MODULE GatewayProofs ---------------------------
(***************************************************************************)
(* Proofs about Gateway, for any number of orders, merchants, channels,     *)
(* payments and handlers and any bounds.  The invariants of checkout and    *)
(* notifier are carried through the composed system; what a callback holds   *)
(* ties them together: the payment it serves was reported by a provider and *)
(* belongs to the order it marks, or is any session of the order's channel   *)
(* at Stripe's return.  Where channels take one payment per order, every     *)
(* step is then a step of PaymentPromise.                                  *)
(***************************************************************************)
EXTENDS Gateway, CheckoutProofs, NotifierProofs

GoodCallback ==
  {k \in Callback :
     /\ k.pc # "idle" => k.t \in TradeNo /\ k.c \in Channel
     /\ k.pc \in {"mark", "answer"} => k.p \in Payment}

(* The payment that a callback serves: one for the order that it marks,      *)
(* except at Stripe's return.                                              *)
MayServe(t, p, via) ==
  \/ payments[p].t = t
  \/ via = "return" /\ Plugin[payments[p].c] = "stripe"

Belongs(k) == payments[k.p].c = k.c /\ MayServe(k.t, k.p, k.via)

(* A callback about to mark an order serves a payment that a provider        *)
(* reported; a refund about to be recorded was made.                       *)
CallbacksAgree ==
  \A w \in Worker :
    /\ cb[w].pc = "mark" => Reported(cb[w].p) /\ Belongs(cb[w])
    /\ cb[w].pc = "record" =>
         \E p \in Payment : /\ payments[p].t = cb[w].t
                            /\ payments[p].state = "refunded"

CallbacksOK ==
  /\ cb \in [Worker -> GoodCallback]
  /\ acked \subseteq Payment
  /\ CallbacksAgree

GatewayInv ==
  /\ NotifierInv
  /\ RowsPlaced
  /\ AmountsOK
  /\ CallbacksOK
  /\ RefundedAtProvider

(* What no step does to the payments: forget one, give it to another order   *)
(* or channel, change its amount, or let the provider return money it has    *)
(* collected, unless as a refund.                                          *)
PaymentsGrow ==
  \A p \in Payment :
    /\ payments[p].state # "none" => /\ payments'[p].state # "none"
                                     /\ payments'[p].t = payments[p].t
                                     /\ payments'[p].c = payments[p].c
                                     /\ payments'[p].fen = payments[p].fen
    /\ Reported(p) => Reported(p)'
    /\ payments[p].state \in {"paid", "refunded"}
         => payments'[p].state \in {"paid", "refunded"}
    /\ payments[p].state = "refunded" => payments'[p].state = "refunded"

(* What every step does, next to its meaning for PaymentPromise.           *)
SafeStep ==
  /\ GatewayInv'
  /\ PaymentsGrow
  /\ \E T, U \in SUBSET TradeNo : StoreStep(T, U)

(* The invariant carries the types.                                        *)
LEMMA GatewayInvTypes == GatewayInv => GatewayTypeOK
<1> SUFFICES ASSUME GatewayInv PROVE GatewayTypeOK
  OBVIOUS
<1>1. AmountsInv
  BY DEF GatewayInv, NotifierInv, AmountsInv
<1> QED
  BY <1>1, AmountsInvTypes, NotifierInvTypes
  DEF GatewayInv, GatewayTypeOK, CallbacksOK, GoodCallback

(* The invariant holds before the first request.                           *)
LEMMA GatewayInvInit == GatewayInit => GatewayInv
<1> SUFFICES ASSUME GatewayInit PROVE GatewayInv
  OBVIOUS
<1>1. AmountsInv /\ NotifierIdle
  BY AmountsInvInit DEF GatewayInit
<1>2. NotifierInv /\ RowsPlaced /\ AmountsOK
  BY <1>1, NotifierIdleInv DEF AmountsInv
<1>3. NoCallback \in GoodCallback /\ NoCallback.pc = "idle"
  BY DEF NoCallback, GoodCallback, Callback
<1>4. CallbacksOK
  BY <1>3 DEF GatewayInit, CallbacksOK, CallbacksAgree
<1>5. RefundedAtProvider
  BY DEF GatewayInit, CheckoutInit, HistoryEmpty, RefundedAtProvider
<1> QED  BY <1>2, <1>4, <1>5 DEF GatewayInv

-----------------------------------------------------------------------------
(* What a step does to the callbacks.                                      *)

(* A step next to them, or one that ends some of them.                     *)
LEMMA CallbacksKeep ==
  ASSUME CallbacksOK, PaymentsGrow, cb' \in [Worker -> GoodCallback],
         \A w \in Worker : cb'[w].pc \in {"mark", "record"} => cb'[w] = cb[w],
         acked' \subseteq Payment
  PROVE  CallbacksOK'
<1> SUFFICES ASSUME NEW w \in Worker, cb'[w].pc \in {"mark", "record"},
                    cb'[w] = cb[w]
             PROVE  /\ cb[w].pc = "mark" => Reported(cb[w].p)' /\ Belongs(cb[w])'
                    /\ cb[w].pc = "record" =>
                         \E p \in Payment : /\ payments'[p].t = cb[w].t
                                            /\ payments'[p].state = "refunded"
  BY DEF CallbacksOK, CallbacksAgree
<1>1. cb[w] \in GoodCallback
  BY DEF CallbacksOK
<1>2. CASE cb[w].pc = "mark"
  <2>1. cb[w].p \in Payment /\ Reported(cb[w].p) /\ Belongs(cb[w])
    BY <1>1, <1>2 DEF CallbacksOK, CallbacksAgree, GoodCallback
  <2> QED  BY <1>2, <2>1 DEF PaymentsGrow, Reported, Belongs, MayServe
<1>3. CASE cb[w].pc = "record"
  <2>1. PICK p \in Payment : /\ payments[p].t = cb[w].t
                             /\ payments[p].state = "refunded"
    BY <1>3 DEF CallbacksOK, CallbacksAgree
  <2> QED  BY <1>3, <2>1 DEF PaymentsGrow
<1> QED  BY <1>2, <1>3

(* A step of one of them.                                                  *)
LEMMA OneCallback ==
  ASSUME CallbacksOK, PaymentsGrow, NEW w \in Worker, NEW k \in GoodCallback,
         cb' = [cb EXCEPT ![w] = k],
         k.pc = "mark" => Reported(k.p)' /\ Belongs(k)',
         k.pc = "record" => \E p \in Payment : /\ payments'[p].t = k.t
                                               /\ payments'[p].state = "refunded",
         acked' \subseteq Payment
  PROVE  CallbacksOK'
<1>1. /\ cb' \in [Worker -> GoodCallback] /\ cb'[w] = k
      /\ \A v \in Worker \ {w} : cb'[v] = cb[v]
  BY DEF CallbacksOK
<1>2. ASSUME NEW v \in Worker
      PROVE  /\ cb'[v].pc = "mark" => Reported(cb[v].p)' /\ Belongs(cb[v])'
             /\ cb'[v].pc = "record" =>
                  \E p \in Payment : /\ payments'[p].t = cb'[v].t
                                     /\ payments'[p].state = "refunded"
  <2>1. CASE v = w
    BY <1>1, <2>1 DEF Reported, Belongs, MayServe
  <2>2. CASE v # w
    <3>1. cb'[v] = cb[v] /\ cb[v] \in GoodCallback
      BY <1>1, <2>2 DEF CallbacksOK
    <3>2. cb[v].pc = "mark" => /\ cb[v].p \in Payment /\ Reported(cb[v].p)
                               /\ Belongs(cb[v])
      BY <3>1 DEF CallbacksOK, CallbacksAgree, GoodCallback
    <3>3. cb[v].pc = "record" =>
            \E p \in Payment : /\ payments[p].t = cb[v].t
                               /\ payments[p].state = "refunded"
      BY DEF CallbacksOK, CallbacksAgree
    <3> QED  BY <3>1, <3>2, <3>3 DEF PaymentsGrow, Reported, Belongs, MayServe
  <2> QED  BY <2>1, <2>2
<1> QED  BY <1>1, <1>2 DEF CallbacksOK, CallbacksAgree

(* Refunds recorded stay made.                                             *)
LEMMA RefundsKeep ==
  ASSUME RefundedAtProvider, PaymentsGrow, UNCHANGED wasRefunded
  PROVE  RefundedAtProvider'
  BY DEF RefundedAtProvider, PaymentsGrow

-----------------------------------------------------------------------------
(* What each step does to the payments.                                    *)

(* The amounts collected for each order, in a step of the code.            *)
CollectedSame == \A t \in TradeNo : Collected(t)' = Collected(t)

(* Nothing happens at the providers.                                       *)
LEMMA PaymentsSame ==
  ASSUME UNCHANGED payments
  PROVE  PaymentsGrow /\ CollectedSame
  BY DEF PaymentsGrow, CollectedSame, Collected, Reported

(* A payment is opened where there was none.                               *)
LEMMA OpenPaymentGrows ==
  ASSUME AmountsOK, NEW t, NEW c, NEW f,
         OpenPayment(t, c, f) \/ UNCHANGED payments
  PROVE  PaymentsGrow /\ CollectedSame
<1>1. CASE UNCHANGED payments
  BY <1>1, PaymentsSame
<1>2. CASE ~ UNCHANGED payments
  <2> DEFINE new == [state |-> "open", t |-> t, c |-> c, fen |-> f]
  <2>1. PICK p \in Payment : /\ payments[p].state = "none"
                             /\ payments' = [payments EXCEPT ![p] = new]
    BY <1>2 DEF OpenPayment
  <2>2. new.state = "open"
    OBVIOUS
  <2> HIDE DEF new
  <2>3. /\ payments'[p].state = "open"
        /\ \A q \in Payment \ {p} : payments'[q] = payments[q]
    BY <2>1, <2>2 DEF AmountsOK
  <2> QED
    BY <2>1, <2>3 DEF PaymentsGrow, CollectedSame, Collected, Reported
<1> QED  BY <1>1, <1>2

(* A payment goes on to another state.                                     *)
LEMMA PaymentMoves ==
  ASSUME AmountsOK, NEW p \in Payment, NEW x,
         payments' = [payments EXCEPT ![p].state = x]
  PROVE  /\ payments'[p].state = x /\ payments'[p].t = payments[p].t
         /\ payments'[p].fen = payments[p].fen /\ payments'[p].c = payments[p].c
         /\ \A q \in Payment \ {p} : payments'[q] = payments[q]
<1>1. payments[p] \in PaymentState
  BY DEF AmountsOK, GoodPayment
<1>2. /\ payments'[p] = [payments[p] EXCEPT !.state = x]
      /\ \A q \in Payment \ {p} : payments'[q] = payments[q]
  BY DEF AmountsOK
<1> QED  BY <1>1, <1>2 DEF PaymentState

(* The buyer's payment is collected, or approved at PayPal.                *)
LEMMA BuyerPaysGrows ==
  ASSUME AmountsOK, NEW p \in Payment, BuyerPays(p)
  PROVE  /\ PaymentsGrow
         /\ payments[p].t \in TradeNo /\ payments[p].fen \in Fen
         /\ \/ CollectedSame
            \/ /\ Collected(payments[p].t)' =
                     Collected(payments[p].t) \cup {payments[p].fen}
               /\ \A t \in TradeNo \ {payments[p].t} :
                    Collected(t)' = Collected(t)
         /\ \A q \in Payment : payments'[q].state = "approved"
              => payments[q].state = "approved" \/ Plugin[payments[p].c] = "paypal"
<1>1. PICK x \in {"approved", "paid"} :
        /\ payments' = [payments EXCEPT ![p].state = x]
        /\ x = "approved" => Plugin[payments[p].c] = "paypal"
  BY DEF BuyerPays
<1>2. payments[p].state = "open"
  BY DEF BuyerPays
<1>3. /\ payments'[p].state = x /\ payments'[p].t = payments[p].t
      /\ payments'[p].fen = payments[p].fen /\ payments'[p].c = payments[p].c
      /\ \A q \in Payment \ {p} : payments'[q] = payments[q]
  BY <1>1, PaymentMoves
<1>4. payments[p].t \in TradeNo /\ payments[p].fen \in Fen
  BY <1>2 DEF AmountsOK, GoodPayment
<1>5. PaymentsGrow
  BY <1>2, <1>3 DEF PaymentsGrow, Reported
<1>6. CASE x = "approved"
  <2>1. CollectedSame
    BY <1>2, <1>3, <1>6 DEF CollectedSame, Collected
  <2> QED  BY <1>1, <1>3, <1>4, <1>5, <1>6, <2>1
<1>7. CASE x = "paid"
  <2>1. Collected(payments[p].t)' = Collected(payments[p].t) \cup {payments[p].fen}
    BY <1>2, <1>3, <1>7 DEF Collected
  <2>2. \A t \in TradeNo \ {payments[p].t} : Collected(t)' = Collected(t)
    BY <1>2, <1>3, <1>7 DEF Collected
  <2> QED  BY <1>3, <1>4, <1>5, <1>7, <2>1, <2>2
<1> QED  BY <1>6, <1>7

(* A submit and the QR page open payments at most.                         *)
LEMMA SubmitGrows ==
  ASSUME AmountsOK,
         \/ \E w \in Worker, m \in Merchant, o \in OutTradeNo, f \in Fen,
               y \in PayType : SubmitBegin(w, m, o, f, y)
         \/ \E w \in Worker : SubmitStep(w)
         \/ \E t \in TradeNo : AlipayWappay(t)
  PROVE  PaymentsGrow /\ CollectedSame /\ UNCHANGED wasRefunded
<1>1. CASE \E w \in Worker : SubmitDispatch(w)
  BY <1>1, OpenPaymentGrows DEF SubmitDispatch, storeVars, history
<1>2. CASE \E t \in TradeNo : AlipayWappay(t)
  BY <1>2, OpenPaymentGrows DEF AlipayWappay, storeVars, history
<1>3. CASE \/ \E w \in Worker, m \in Merchant, o \in OutTradeNo, f \in Fen,
                y \in PayType : SubmitBegin(w, m, o, f, y)
           \/ \E w \in Worker : \/ SubmitFind(w) \/ SubmitCreate(w)
                                 \/ SubmitFails(w) \/ SubmitRoute(w)
                                 \/ SubmitSetChannel(w)
  <2>1. UNCHANGED payments
    BY <1>3 DEF SubmitBegin, SubmitFind, SubmitCreate, SubmitFails, SubmitRoute,
                SubmitSetChannel
  <2>2. UNCHANGED wasRefunded
    BY <1>3 DEF SubmitBegin, SubmitFind, SubmitCreate, SubmitFails, SubmitRoute,
                SubmitSetChannel, CreateOrder, SetChannel, storeVars, history,
                rows
  <2> QED  BY <2>1, <2>2, PaymentsSame
<1> QED  BY <1>1, <1>2, <1>3 DEF SubmitStep

-----------------------------------------------------------------------------
(* What each step means to PaymentPromise.                                 *)

PromiseStep == [Promise!PromiseNext]_(Promise!promiseVars)

(* Nothing, when amounts, marks and collected payments stay.               *)
LEMMA PromiseSame ==
  ASSUME StoreStep({}, {}), CollectedSame, UNCHANGED <<wasPaid, told>>
  PROVE  PromiseStep
<1>1. \A t \in TradeNo : orders'[t].money = orders[t].money
  BY DEF StoreStep, StandBut
<1>2. edited' = edited
  BY DEF StoreStep
<1> QED
  BY <1>1, <1>2 DEF PromiseStep, Promise!promiseVars, CollectedSame

(* The INSERT places an order under a new number.                          *)
LEMMA PromisePlace ==
  ASSUME RowsPlaced, NEW t \in TradeNo, StoreStep({}, {t}), CollectedSame,
         orders[t].status = Absent, orders'[t].money \in Fen,
         UNCHANGED <<wasPaid, told>>
  PROVE  PromiseStep
<1>1. \A u \in TradeNo \ {t} : orders'[u].money = orders[u].money
  BY DEF StoreStep, StandBut
<1>2. edited' = edited /\ t \notin edited /\ orders[t].money = Nil
  BY DEF StoreStep, RowsPlaced
<1>3. PICK f \in Fen : orders'[t].money = f
  OBVIOUS
<1>4. Promise!Place(t, f)
  BY <1>1, <1>2, <1>3 DEF Promise!Place, CollectedSame
<1> QED
  BY <1>4 DEF PromiseStep, Promise!PromiseNext

(* A merchant is told of an order that was marked paid.                    *)
LEMMA PromiseTell ==
  ASSUME StoreStep({}, {}), CollectedSame, UNCHANGED wasPaid,
         NEW t \in wasPaid, t \in TradeNo, told' = told \cup {t}
  PROVE  PromiseStep
<1>1. \A u \in TradeNo : orders'[u].money = orders[u].money
  BY DEF StoreStep, StandBut
<1>2. edited' = edited
  BY DEF StoreStep
<1>3. Promise!Tell(t)
  BY <1>1, <1>2 DEF Promise!Tell, CollectedSame
<1> QED
  BY <1>3 DEF PromiseStep, Promise!PromiseNext

(* An administrator edits an order.                                        *)
LEMMA PromiseOverride ==
  ASSUME NEW t \in TradeNo, NEW U \in SUBSET {t}, StoreStep({t}, U),
         CollectedSame, UNCHANGED told,
         t \in U => orders'[t].money = Nil,
         wasPaid' = wasPaid \/ wasPaid' = wasPaid \cup {t}
  PROVE  PromiseStep
<1>1. \A u \in TradeNo \ U : orders'[u].money = orders[u].money
  BY DEF StoreStep, StandBut
<1>2. edited' = edited \cup {t}
  BY DEF StoreStep
<1>3. Promise!Override(t)
  <2>1. CASE U = {}
    BY <1>1, <1>2, <2>1 DEF Promise!Override, CollectedSame
  <2>2. CASE U = {t}
    BY <1>1, <1>2, <2>2 DEF Promise!Override, CollectedSame
  <2> QED  BY <2>1, <2>2
<1> QED
  BY <1>3 DEF PromiseStep, Promise!PromiseNext

(* A buyer's payment for an order in the table is for its amount; a row      *)
(* that is gone was deleted by an administrator.                           *)
LEMMA PromiseCollect ==
  ASSUME GatewayInv, NEW p \in Payment, BuyerPays(p), StoreStep({}, {}),
         UNCHANGED <<wasPaid, told>>
  PROVE  PromiseStep
<1>1. CASE CollectedSame
  BY <1>1, PromiseSame
<1>2. CASE /\ Collected(payments[p].t)' =
                Collected(payments[p].t) \cup {payments[p].fen}
           /\ \A t \in TradeNo \ {payments[p].t} : Collected(t)' = Collected(t)
  <2>1. PICK t \in TradeNo, f \in Fen : payments[p].t = t /\ payments[p].fen = f
    BY BuyerPaysGrows DEF GatewayInv
  <2>2. /\ Collected(t)' = Collected(t) \cup {f}
        /\ \A u \in TradeNo \ {t} : Collected(u)' = Collected(u)
    <3>1. payments'[p].t = payments[p].t
      BY PaymentMoves DEF BuyerPays, GatewayInv
    <3> QED  BY <1>2, <2>1, <3>1 DEF Collected
  <2>3. Agrees(t, f)
    BY <2>1 DEF BuyerPays, GatewayInv, AmountsOK, PaymentsAgree
  <2>4. orders[t].money = f \/ t \in edited
    <3>1. orders[t].status \in {Gone, Absent} \/ Exists(t)
      BY DEF GatewayInv, NotifierInv, StoreInv, RowsInv, RowsOK, Row, Exists,
             Gone, Absent, Unpaid, Paid, Closed, Refunded
    <3> QED  BY <2>3, <3>1 DEF Agrees, GatewayInv, RowsPlaced
  <2>5. /\ \A u \in TradeNo : orders'[u].money = orders[u].money
        /\ edited' = edited
    BY DEF StoreStep, StandBut
  <2>6. Promise!Collect(t, f)
    BY <2>2, <2>4, <2>5 DEF Promise!Collect
  <2> QED  BY <2>6 DEF PromiseStep, Promise!PromiseNext
<1> QED
  BY <1>1, <1>2, BuyerPaysGrows DEF GatewayInv

-----------------------------------------------------------------------------
(* The parts of the gateway.                                               *)

(* A step of one part next to the others.                                  *)
LEMMA BesideStep ==
  ASSUME GatewayInv, AmountsInv', NEW T \in SUBSET TradeNo,
         NEW U \in SUBSET TradeNo, StoreStep(T, U), PaymentsGrow,
         UNCHANGED wasRefunded, UNCHANGED <<notifierVars, gatewayVars>>
  PROVE  SafeStep
<1>1. NotifierInv'
  BY JobsEnd DEF GatewayInv, NotifierInv, notifierVars
<1>2. CallbacksOK'
  BY CallbacksKeep DEF GatewayInv, CallbacksOK, gatewayVars
<1>3. RefundedAtProvider'
  BY RefundsKeep DEF GatewayInv
<1> QED  BY <1>1, <1>2, <1>3 DEF SafeStep, GatewayInv, AmountsInv

(* Submits, buyers, expiry and the clock.                                  *)
LEMMA CheckoutPartStep ==
  ASSUME GatewayInv, CheckoutPart
  PROVE  SafeStep /\ PromiseStep
<1>1. AmountsInv /\ AmountsOK
  BY DEF GatewayInv, NotifierInv, AmountsInv
<1>2. /\ UNCHANGED <<notifierVars, gatewayVars>>
      /\ UNCHANGED told
  BY DEF CheckoutPart, notifierVars
<1>3. CASE \E p \in Payment : BuyerPays(p)
  <2>1. PICK p \in Payment : BuyerPays(p)
    BY <1>3
  <2>2. StoreStep({}, {}) /\ UNCHANGED <<wasPaid, wasRefunded>>
    BY <1>1, <2>1, BuyerPaysStep DEF storeVars, history
  <2>3. AmountsInv' /\ PaymentsGrow
    BY <1>1, <2>1, CheckoutOwnStep, BuyerPaysGrows
  <2>4. SafeStep
    BY <1>2, <2>2, <2>3, BesideStep
  <2> QED  BY <1>2, <2>1, <2>2, <2>4, PromiseCollect
<1>4. CASE ExpireTask \/ OrderTimePasses
  <2>1. StoreStep({}, {}) /\ UNCHANGED wasPaid /\ AmountsInv'
    BY <1>1, <1>4, ExpireStep
  <2>2. UNCHANGED wasRefunded /\ UNCHANGED payments
    BY <1>4 DEF ExpireTask, OrderTimePasses, ExpirePendingOrders, OrderAges,
                checkoutVars
  <2>3. SafeStep
    BY <1>2, <2>1, <2>2, PaymentsSame, BesideStep
  <2> QED  BY <1>2, <2>1, <2>2, <2>3, PaymentsSame, PromiseSame
<1>5. CASE \/ \E w \in Worker, m \in Merchant, o \in OutTradeNo, f \in Fen,
                y \in PayType : SubmitBegin(w, m, o, f, y)
           \/ \E w \in Worker : SubmitStep(w)
           \/ \E t \in TradeNo : AlipayWappay(t)
  <2>1. PaymentsGrow /\ CollectedSame /\ UNCHANGED wasRefunded
    BY <1>1, <1>5, SubmitGrows
  <2>2. /\ \/ StoreStep({}, {})
           \/ \E t \in TradeNo :
                /\ StoreStep({}, {t})
                /\ orders[t].status = Absent /\ orders'[t].status = Unpaid
                /\ orders'[t].money \in Fen
        /\ UNCHANGED wasPaid /\ AmountsInv'
    BY <1>1, <1>5, CheckoutOwnStep
  <2>3. SafeStep
    BY <1>2, <2>1, <2>2, BesideStep
  <2>4. PromiseStep
    BY <1>2, <2>1, <2>2, PromiseSame, PromisePlace DEF GatewayInv
  <2> QED  BY <2>3, <2>4
<1> QED  BY <1>3, <1>4, <1>5 DEF CheckoutPart

(* Notifications, their retries and the clock.                             *)
LEMMA NotifierPartStep ==
  ASSUME GatewayInv, NotifierPart
  PROVE  SafeStep /\ PromiseStep
<1>1. /\ StoreStep({}, {}) /\ UNCHANGED <<wasPaid, edited>> /\ NotifierInv'
      /\ told' = told \/ \E t \in wasPaid : told' = told \cup {t}
  BY NotifierOwnStep DEF GatewayInv, NotifierPart
<1>2. UNCHANGED checkoutVars /\ UNCHANGED payments /\ UNCHANGED gatewayVars
  BY DEF NotifierPart, checkoutVars
<1>3. UNCHANGED wasRefunded
  BY DEF NotifierPart, NotifyStep, NotifyRead, NotifyReadFails, NotifySend,
         NotifyRecord, RetryTick, RetryNext, NotifyTimePasses,
         RecordNotifyAttempt, NotifyWindowPasses, storeVars, history, rows
<1>4. PaymentsGrow /\ CollectedSame
  BY <1>2, PaymentsSame
<1>5. AmountsOK'
  BY <1>1, <1>2, AmountsKeep DEF GatewayInv, StoreStep
<1>6. RowsPlaced'
  BY <1>1, PlacedKeep DEF GatewayInv, NotifierInv
<1>7. CallbacksOK'
  BY <1>2, <1>4, CallbacksKeep DEF GatewayInv, CallbacksOK, gatewayVars
<1>8. RefundedAtProvider'
  BY <1>3, <1>4, RefundsKeep DEF GatewayInv
<1>9. PromiseStep
  <2>1. wasPaid \subseteq TradeNo
    BY DEF GatewayInv, NotifierInv, StoreInv, RowsInv, RowsOK
  <2> QED  BY <1>1, <1>4, <2>1, PromiseSame, PromiseTell
<1> QED
  BY <1>1, <1>4, <1>5, <1>6, <1>7, <1>8, <1>9 DEF SafeStep, GatewayInv

(* Administrators edit orders, merchants and channels.                     *)
LEMMA AdminPartStep ==
  ASSUME GatewayInv, AdminPart
  PROVE  SafeStep /\ PromiseStep
<1>1. StoreInv /\ AmountsInv
  BY DEF GatewayInv, NotifierInv, AmountsInv
<1>2. /\ UNCHANGED <<checkoutVars, notifierVars, gatewayVars>>
      /\ UNCHANGED <<payments, told, wasRefunded>>
  BY DEF AdminPart, checkoutVars, notifierVars, OrderUpdate, OrdersDelete,
         OrderUpdateStatus, OrderDelete, MerchantDelete, MerchantUpdate,
         ChannelUpdate, rows
<1>3. PaymentsGrow /\ CollectedSame
  BY <1>2, PaymentsSame
<1>4. ASSUME NEW T \in SUBSET TradeNo, NEW U \in SUBSET TradeNo,
             StoreStep(T, U), RowsPlaced'
      PROVE  SafeStep
  <2>1. AmountsInv'
    BY <1>2, <1>4, AmountsKeep DEF GatewayInv, AmountsInv, StoreStep
  <2> QED  BY <1>2, <1>3, <1>4, <2>1, BesideStep
<1>5. CASE \E t \in TradeNo, x \in {Unpaid, Paid, Closed, Refunded} :
             OrderUpdate(t, x)
  <2>1. PICK t \in TradeNo :
          /\ StoreStep({t}, {}) /\ Exists(t)
          /\ wasPaid' = wasPaid \/ wasPaid' = wasPaid \cup {t}
    BY <1>1, <1>5, OrderUpdateStep
  <2>2. RowsPlaced'
    BY <1>1, <2>1, PlacedKeep DEF AmountsInv
  <2>3. PromiseStep
    BY <1>2, <1>3, <2>1, PromiseOverride
  <2> QED  BY <1>4, <2>1, <2>2, <2>3
<1>6. CASE \E t \in TradeNo : OrdersDelete({t})
  <2>1. PICK t \in TradeNo :
          /\ StoreStep({t}, {t}) /\ Exists(t) /\ wasPaid' = wasPaid
          /\ orders'[t].status = Gone /\ orders'[t].money = Nil
    BY <1>1, <1>6, OrderDeleteStep
  <2>2. RowsPlaced'
    BY <1>1, <2>1, PlacedKeep DEF AmountsInv
  <2>3. PromiseStep
    BY <1>2, <1>3, <2>1, PromiseOverride
  <2> QED  BY <1>4, <2>1, <2>2, <2>3
<1>7. CASE \/ \E m \in Merchant : MerchantDelete(m) \/ MerchantUpdate(m)
           \/ \E c \in Channel : ChannelUpdate(c)
  <2>1. StoreStep({}, {}) /\ UNCHANGED wasPaid
    BY <1>1, <1>7, TableStep DEF rows
  <2>2. RowsPlaced'
    BY <1>1, <2>1, PlacedKeep DEF AmountsInv
  <2>3. PromiseStep
    BY <1>2, <1>3, <2>1, PromiseSame
  <2> QED  BY <1>4, <2>1, <2>2, <2>3
<1> QED  BY <1>5, <1>6, <1>7 DEF AdminPart

-----------------------------------------------------------------------------
(* Callbacks, returns and refunds.                                         *)

(* Steps that write no order and open no payment: reads, answers, refusals, *)
(* losses.                                                                 *)
LEMMA PlainStep ==
  ASSUME GatewayInv, UNCHANGED <<rows, users, enabled, payments, told, sends>>,
         UNCHANGED faults \/ Fault, UNCHANGED losses \/ Loss,
         UNCHANGED <<edits, edited>> \/ Edit({}),
         batch' \subseteq batch, job' \in [Notifying -> Job],
         \A p \in Notifying : job'[p].pc # "idle" => job'[p] = job[p],
         sub' \in [Worker -> GoodSubmit],
         \A w \in Worker : sub'[w].pc # "idle" => sub'[w] = sub[w],
         CallbacksOK'
  PROVE  SafeStep /\ PromiseStep
<1>1. StoreInv
  BY DEF GatewayInv, NotifierInv
<1>2. StoreStep({}, {})
  <2>1. RowsInv' /\ KeepsRows /\ StaysBut({}) /\ StandBut({})
    BY <1>1, RowsUnchanged DEF StoreInv
  <2>2. BesideOK' /\ edited' = edited \cup {}
    BY <1>1, StoreAssumption DEF StoreInv, BesideOK, Fault, Loss, Edit
  <2> QED  BY <2>1, <2>2 DEF StoreStep, StoreInv
<1>3. PaymentsGrow /\ CollectedSame
  BY PaymentsSame
<1>4. NotifierInv'
  BY <1>2, JobsEnd DEF GatewayInv
<1>5. RowsPlaced'
  BY <1>1, <1>2, PlacedKeep DEF GatewayInv, rows
<1>6. AmountsOK'
  <2>1. SubmitsAgree'
    BY <1>2, SubmitsKeep DEF GatewayInv, StoreStep
  <2>2. payments' \in [Payment -> GoodPayment] /\ PaymentsAgree'
    BY <1>2, PaymentsKeep DEF GatewayInv, AmountsOK, StoreStep
  <2> QED  BY <2>1, <2>2 DEF AmountsOK
<1>7. RefundedAtProvider'
  BY <1>3, RefundsKeep DEF GatewayInv, rows
<1>8. PromiseStep
  BY <1>2, <1>3, PromiseSame DEF rows
<1> QED
  BY <1>2, <1>3, <1>4, <1>5, <1>6, <1>7, <1>8 DEF SafeStep, GatewayInv

(* A handler begins to serve a payment.                                     *)
LEMMA ServingKeeps ==
  ASSUME AmountsOK, CallbacksOK, UNCHANGED payments,
         NEW w \in Worker, NEW t \in TradeNo, NEW p \in Payment,
         payments[p].state # "none", NEW via \in {"webhook", "return"},
         MayServe(t, p, via),
         \/ Reported(p) /\ cb' = [cb EXCEPT ![w] = Serves(t, p, via)]
         \/ cb' = [cb EXCEPT ![w] = [Serves(t, p, via) EXCEPT !.pc = "answer"]],
         acked' \subseteq Payment
  PROVE  CallbacksOK'
<1> SUFFICES ASSUME NEW j, j = Serves(t, p, via),
                    NEW a, a = [j EXCEPT !.pc = "answer"]
             PROVE  CallbacksOK'
  OBVIOUS
<1>1. /\ j \in GoodCallback /\ j.pc = "mark" /\ j.p = p /\ Belongs(j)
      /\ a \in GoodCallback /\ a.pc = "answer"
  <2>1. payments[p].t \in TradeNo /\ payments[p].c \in Channel
    BY DEF AmountsOK, GoodPayment
  <2>2. /\ j.pc = "mark" /\ j.t = t /\ j.p = p /\ j.via = via
        /\ j.c = payments[p].c /\ j \in Callback
    BY <2>1 DEF Serves, Callback
  <2>3. /\ a \in Callback /\ a.pc = "answer" /\ a.t = t /\ a.p = p
        /\ a.c = payments[p].c
    BY <2>2 DEF Callback
  <2> QED  BY <2>1, <2>2, <2>3 DEF GoodCallback, Belongs
<1>2. PaymentsGrow
  BY PaymentsSame
<1>3. \/ Reported(p) /\ cb' = [cb EXCEPT ![w] = j]
      \/ cb' = [cb EXCEPT ![w] = a]
  OBVIOUS
<1>4. CASE Reported(p) /\ cb' = [cb EXCEPT ![w] = j]
  <2>1. Reported(j.p)' /\ Belongs(j)'
    BY <1>1, <1>4 DEF Reported, Belongs, MayServe
  <2> QED  BY <1>1, <1>2, <1>4, <2>1, OneCallback
<1>5. CASE cb' = [cb EXCEPT ![w] = a]
  BY <1>1, <1>2, <1>5, OneCallback
<1> QED  BY <1>3, <1>4, <1>5

(* The steps that begin, answer or give up.                                *)
LEMMA PlainCallbackStep ==
  ASSUME GatewayInv,
         \/ \E w \in Worker, p \in Payment : CallbackVerified(w, p)
         \/ \E w \in Worker, t \in TradeNo, p \in Payment : StripeReturn(w, t, p)
         \/ \E p \in Payment : CallbackUnverified(p)
         \/ \E w \in Worker, t \in TradeNo : RefundRead(w, t)
         \/ \E w \in Worker : \/ CallbackAnswer(w) \/ ReturnAnswer(w)
                               \/ RefundRefused(w) \/ DropHandler(w)
         \/ Restart
  PROVE  SafeStep /\ PromiseStep
<1>1. /\ AmountsOK /\ CallbacksOK
      /\ sub \in [Worker -> GoodSubmit] /\ job \in [Notifying -> Job]
  BY DEF GatewayInv, AmountsOK, NotifierInv
<1>2. /\ NoSubmit \in GoodSubmit /\ NoSubmit.pc = "idle"
      /\ NoCallback \in GoodCallback /\ NoCallback.pc = "idle"
      /\ NoJob \in Job /\ NoJob.pc = "idle"
  BY JobRecords DEF NoSubmit, GoodSubmit, Submit, NoCallback, GoodCallback,
                    Callback
<1>3. /\ UNCHANGED <<rows, users, enabled, payments, told, sends>>
      /\ UNCHANGED faults \/ Fault
      /\ UNCHANGED losses \/ Loss
      /\ UNCHANGED <<edits, edited>> \/ Edit({})
      /\ batch' \subseteq batch
  BY DEF CallbackVerified, StripeReturn, CallbackUnverified, RefundRead,
         CallbackAnswer, ReturnAnswer, RefundRefused, DropHandler,
         Restart, storeVars, tables, history, counters, rows, checkoutVars,
         notifierVars
<1>4. /\ job' \in [Notifying -> Job]
      /\ \A p \in Notifying : job'[p].pc # "idle" => job'[p] = job[p]
  <2>1. CASE Restart
    BY <1>2, <2>1 DEF Restart
  <2>2. CASE \E w \in Worker : DropHandler(w)
    BY <1>1, <1>2, <2>2 DEF DropHandler
  <2>3. CASE UNCHANGED job
    BY <1>1, <2>3
  <2> QED
    BY <2>1, <2>2, <2>3
    DEF CallbackVerified, StripeReturn, CallbackUnverified, RefundRead,
         CallbackAnswer, ReturnAnswer, RefundRefused, notifierVars
<1>5. /\ sub' \in [Worker -> GoodSubmit]
      /\ \A w \in Worker : sub'[w].pc # "idle" => sub'[w] = sub[w]
  <2>1. CASE Restart
    BY <1>2, <2>1 DEF Restart
  <2>2. CASE \E w \in Worker : DropHandler(w)
    BY <1>1, <1>2, <2>2 DEF DropHandler, SubmitReturns
  <2>3. CASE UNCHANGED sub
    BY <1>1, <2>3
  <2> QED
    BY <2>1, <2>2, <2>3
    DEF CallbackVerified, StripeReturn, CallbackUnverified, RefundRead,
         CallbackAnswer, ReturnAnswer, RefundRefused, checkoutVars
<1>6. PaymentsGrow
  BY <1>3, PaymentsSame
<1>7. CallbacksOK'
  <2>1. acked' \subseteq Payment
    BY <1>1 DEF CallbacksOK, CallbackVerified, StripeReturn, CallbackUnverified,
         RefundRead, CallbackAnswer, ReturnAnswer, RefundRefused,
         DropHandler, Restart, GoodCallback
  <2>2. CASE \/ \E w \in Worker, p \in Payment : CallbackVerified(w, p)
             \/ \E w \in Worker, t \in TradeNo, p \in Payment :
                  StripeReturn(w, t, p)
    <3>1. UNCHANGED payments
      BY <1>3
    <3>2. ASSUME NEW w \in Worker, NEW p \in Payment, CallbackVerified(w, p)
          PROVE  CallbacksOK'
      <4>1. Reported(p) /\ payments[p].state # "none"
        BY <3>2 DEF CallbackVerified, Reported
      <4>2. PICK t \in TradeNo : payments[p].t = t
        BY <1>1, <4>1 DEF AmountsOK, GoodPayment
      <4>3. MayServe(t, p, "webhook")
        BY <4>2 DEF MayServe
      <4>4. cb' = [cb EXCEPT ![w] = Serves(t, p, "webhook")]
        BY <3>2, <4>2 DEF CallbackVerified
      <4> QED  BY <1>1, <2>1, <3>1, <4>1, <4>3, <4>4, ServingKeeps
    <3>3. ASSUME NEW w \in Worker, NEW t \in TradeNo, NEW p \in Payment,
                 StripeReturn(w, t, p)
          PROVE  CallbacksOK'
      <4>1. payments[p].state # "none" /\ MayServe(t, p, "return")
        BY <3>3 DEF StripeReturn, ReturnReads, MayServe
      <4>2. payments[p].state # "open" => Reported(p)
        BY <1>1, <4>1 DEF Reported, AmountsOK, GoodPayment, PaymentState
      <4>3. \/ Reported(p) /\ cb' = [cb EXCEPT ![w] = Serves(t, p, "return")]
            \/ cb' = [cb EXCEPT ![w] =
                         [Serves(t, p, "return") EXCEPT !.pc = "answer"]]
        <5>1. cb' = [cb EXCEPT ![w] = IF payments[p].state = "open"
                                        THEN [Serves(t, p, "return") EXCEPT !.pc = "answer"]
                                        ELSE Serves(t, p, "return")]
          BY <3>3 DEF StripeReturn
        <5>2. CASE payments[p].state = "open"
          BY <5>1, <5>2
        <5>3. CASE payments[p].state # "open"
          BY <4>2, <5>1, <5>3
        <5> QED  BY <5>2, <5>3
      <4> QED  BY <1>1, <2>1, <3>1, <4>1, <4>3, ServingKeeps
    <3> QED  BY <2>2, <3>2, <3>3
  <2>3. CASE \E w \in Worker, t \in TradeNo : RefundRead(w, t)
    <3>1. PICK w \in Worker, t \in TradeNo :
            /\ orders[t].channel \in Channel
            /\ cb' = [cb EXCEPT ![w] =
                        [pc |-> "refund", via |-> "admin", p |-> Nil, t |-> t,
                         c |-> orders[t].channel]]
      BY <2>3 DEF RefundRead
    <3>2. PICK c \in Channel :
            cb' = [cb EXCEPT ![w] = [pc |-> "refund", via |-> "admin",
                                     p |-> Nil, t |-> t, c |-> c]]
      BY <3>1
    <3> DEFINE k == [pc |-> "refund", via |-> "admin", p |-> Nil, t |-> t, c |-> c]
    <3>3. k \in GoodCallback /\ k.pc = "refund"
      BY DEF GoodCallback, Callback
    <3> HIDE DEF k
    <3> QED  BY <1>1, <1>6, <2>1, <3>2, <3>3, OneCallback DEF k
  <2>4. CASE \E w \in Worker : HandlerReturns(w)
    BY <1>1, <1>2, <1>6, <2>1, <2>4, OneCallback DEF HandlerReturns
  <2>5. CASE Restart
    BY <1>1, <1>2, <1>6, <2>1, <2>5, CallbacksKeep DEF Restart
  <2>6. CASE UNCHANGED cb
    BY <1>1, <1>6, <2>1, <2>6, CallbacksKeep DEF CallbacksOK
  <2> QED
    BY <2>2, <2>3, <2>4, <2>5, <2>6
    DEF CallbackUnverified, CallbackAnswer, ReturnAnswer,
        RefundRefused, DropHandler
<1> QED  BY <1>3, <1>4, <1>5, <1>7, PlainStep

(* mark_paid in a callback (web.rs:505).  The order is for the amount of a   *)
(* payment of its own, because every payment of it is; the payment was       *)
(* collected, but at PayPal.                                               *)
LEMMA CallbackMarkStep ==
  ASSUME GatewayInv, NEW w \in Worker, CallbackMark(w)
  PROVE  /\ SafeStep
         /\ payments[cb[w].p].state # "approved" /\ payments[cb[w].p].t = cb[w].t
              => PromiseStep
<1>1. PICK t \in TradeNo, p \in Payment :
        cb[w].t = t /\ cb[w].p = p /\ Reported(p)
  BY DEF CallbackMark, GatewayInv, CallbacksOK, CallbacksAgree, GoodCallback
<1>2. PICK api \in Payment \cup {Nil} :
        \/ /\ MarkPaid(t, api)
           /\ job' = IF BecomesPaid(t) THEN [job EXCEPT ![w] = Calls(t)] ELSE job
           /\ UNCHANGED faults
        \/ /\ Fault
           /\ MarkPaid(t, api) \/ UNCHANGED rows
           /\ UNCHANGED job
  BY <1>1 DEF CallbackMark
<1>3. /\ cb' = [cb EXCEPT ![w].pc = "answer"]
      /\ UNCHANGED <<users, enabled, edited, losses, edits, checkoutVars,
                     batch, told, sends, acked>>
      /\ UNCHANGED payments
  BY DEF CallbackMark, checkoutVars
<1>4. /\ RowsInv /\ StoreInv /\ NotifierInv
      /\ AmountsOK /\ CallbacksOK /\ RowsPlaced /\ RefundedAtProvider
  BY DEF GatewayInv, NotifierInv, StoreInv
<1>5. RowsInv' /\ KeepsRows /\ StaysBut({}) /\ StandBut({})
  <2>1. CASE MarkPaid(t, api)
    BY <1>4, <2>1, MarkPaidKeeps
  <2>2. CASE UNCHANGED rows
    BY <1>4, <2>2, RowsUnchanged
  <2> QED  BY <1>2, <2>1, <2>2
<1>6. StoreStep({}, {})
  BY <1>2, <1>3, <1>4, <1>5, StatementStep
<1>7. /\ \/ wasPaid' = wasPaid
         \/ wasPaid' = wasPaid \cup {t} /\ Exists(t)
      /\ UNCHANGED wasRefunded
  BY <1>2 DEF MarkPaid, BecomesPaid, rows
<1>8. NotifierInv'
  <2>1. CASE /\ MarkPaid(t, api) /\ BecomesPaid(t)
             /\ job' = [job EXCEPT ![w] = Calls(t)]
    BY <1>3, <1>4, <1>6, <2>1, HandlerStarts
  <2>2. CASE UNCHANGED job
    BY <1>3, <1>4, <1>6, <2>2, JobsEnd DEF NotifierInv
  <2> QED  BY <1>2, <2>1, <2>2
<1>9. PaymentsGrow /\ CollectedSame
  BY <1>3, PaymentsSame
<1>10. RowsPlaced' /\ AmountsOK' /\ RefundedAtProvider'
  BY <1>3, <1>4, <1>5, <1>6, <1>7, <1>9, PlacedKeep, AmountsKeep, RefundsKeep
<1>11. CallbacksOK'
  <2> DEFINE k == [cb[w] EXCEPT !.pc = "answer"]
  <2>1. k \in GoodCallback /\ k.pc = "answer"
    BY <1>1, <1>4 DEF CallbackMark, CallbacksOK, GoodCallback, Callback
  <2>2. cb' = [cb EXCEPT ![w] = k] /\ acked' \subseteq Payment
    BY <1>3, <1>4 DEF CallbacksOK
  <2> HIDE DEF k
  <2> QED  BY <1>4, <1>9, <2>1, <2>2, OneCallback
<1>12. ASSUME payments[p].state # "approved", payments[p].t = t
       PROVE  PromiseStep
  <2>1. CASE wasPaid' = wasPaid
    BY <1>3, <1>6, <1>9, <2>1, PromiseSame
  <2>2. CASE wasPaid' = wasPaid \cup {t} /\ Exists(t)
    <3>1. payments[p].state \in {"paid", "refunded"}
      BY <1>1, <1>12 DEF Reported
    <3>2. orders[t].money = payments[p].fen
      BY <1>4, <1>12, <2>2, <3>1 DEF AmountsOK, PaymentsAgree, Agrees
    <3>3. orders[t].money \in Collected(t)
      BY <1>12, <3>1, <3>2 DEF Collected
    <3>4. /\ \A u \in TradeNo : orders'[u].money = orders[u].money
          /\ edited' = edited
      BY <1>6 DEF StoreStep, StandBut
    <3>5. Promise!Confirm(t)
      BY <1>3, <1>9, <2>2, <3>3, <3>4 DEF Promise!Confirm, CollectedSame
    <3> QED  BY <3>5 DEF PromiseStep, Promise!PromiseNext
  <2> QED  BY <1>7, <2>1, <2>2
<1> QED
  BY <1>1, <1>6, <1>8, <1>9, <1>10, <1>11, <1>12 DEF SafeStep, GatewayInv

(* Alipay refunds the payment of the order (admin.rs:869).                 *)
LEMMA RefundCallStep ==
  ASSUME GatewayInv, NEW w \in Worker, RefundCall(w)
  PROVE  /\ SafeStep /\ PromiseStep
         /\ \A q \in Payment : payments'[q].state = "approved"
              => payments[q].state = "approved"
<1>1. PICK p \in Payment :
        /\ payments[p].t = cb[w].t
        /\ payments[p].state \in {"paid", "refunded"}
        /\ payments' = [payments EXCEPT ![p].state = "refunded"]
        /\ cb' = [cb EXCEPT ![w].pc = "record"] \/ HandlerReturns(w)
  BY DEF RefundCall, Refundable, Opened
<1>2. /\ cb[w].pc = "refund"
      /\ UNCHANGED <<storeVars, sub, notifierVars, acked>>
      /\ UNCHANGED <<wasPaid, wasRefunded, told>>
  BY DEF RefundCall, storeVars, history, notifierVars
<1>3. AmountsOK /\ CallbacksOK /\ NotifierInv /\ StoreInv
  BY DEF GatewayInv, NotifierInv
<1>4. /\ payments'[p].state = "refunded" /\ payments'[p].t = payments[p].t
      /\ payments'[p].fen = payments[p].fen /\ payments'[p].c = payments[p].c
      /\ \A q \in Payment \ {p} : payments'[q] = payments[q]
  BY <1>1, <1>3, PaymentMoves
<1>5. PaymentsGrow
  BY <1>1, <1>4 DEF PaymentsGrow, Reported
<1>6. CollectedSame
  BY <1>1, <1>4 DEF CollectedSame, Collected
<1>7. StoreStep({}, {})
  BY <1>2, <1>3, QuietStep DEF storeVars, counters
<1>8. AmountsOK'
  <2>1. payments' \in [Payment -> GoodPayment]
    <3>1. [payments[p] EXCEPT !.state = "refunded"] \in GoodPayment
      BY <1>1, <1>3 DEF AmountsOK, GoodPayment, PaymentState
    <3> QED  BY <1>1, <1>3, <3>1 DEF AmountsOK
  <2>2. PaymentsAgree'
    BY <1>1, <1>3, <1>4, <1>7, <2>1, PaymentsKeep DEF StoreStep
  <2>3. sub' \in [Worker -> GoodSubmit] /\ SubmitsAgree'
    BY <1>2, <1>3, <1>7, SubmitsKeep DEF AmountsOK, StoreStep
  <2> QED  BY <2>1, <2>2, <2>3 DEF AmountsOK
<1>9. NotifierInv' /\ RowsPlaced'
  BY <1>2, <1>3, <1>7, JobsEnd, PlacedKeep
  DEF NotifierInv, notifierVars, GatewayInv
<1>10. RefundedAtProvider'
  BY <1>2, <1>5, RefundsKeep DEF GatewayInv
<1>11. CallbacksOK'
  <2>1. acked' \subseteq Payment
    BY <1>2, <1>3 DEF CallbacksOK
  <2>2. CASE cb' = [cb EXCEPT ![w].pc = "record"]
    <3> DEFINE k == [cb[w] EXCEPT !.pc = "record"]
    <3>1. k \in GoodCallback /\ k.pc = "record" /\ k.t = cb[w].t
      BY <1>2, <1>3 DEF CallbacksOK, GoodCallback, Callback
    <3>2. cb' = [cb EXCEPT ![w] = k]
      BY <2>2
    <3> HIDE DEF k
    <3> QED
      BY <1>1, <1>3, <1>4, <1>5, <2>1, <3>1, <3>2, OneCallback
  <2>3. CASE HandlerReturns(w)
    <3>1. NoCallback \in GoodCallback /\ NoCallback.pc = "idle"
      BY DEF NoCallback, GoodCallback, Callback
    <3> QED
      BY <1>3, <1>5, <2>1, <2>3, <3>1, OneCallback DEF HandlerReturns
  <2> QED  BY <1>1, <2>2, <2>3
<1>12. PromiseStep
  BY <1>2, <1>6, <1>7, PromiseSame
<1> QED
  BY <1>4, <1>5, <1>7, <1>8, <1>9, <1>10, <1>11, <1>12
  DEF SafeStep, GatewayInv

(* The refund that was made is recorded (admin.rs:881), or its statement     *)
(* fails.                                                                  *)
LEMMA RefundRecordStep ==
  ASSUME GatewayInv, NEW w \in Worker, RefundRecord(w)
  PROVE  SafeStep /\ PromiseStep
<1>1. PICK t \in TradeNo :
        /\ cb[w].t = t
        /\ \E p \in Payment : /\ payments[p].t = t
                              /\ payments[p].state = "refunded"
        /\ \/ OrderSetRefunded(t) /\ UNCHANGED faults
           \/ Fault /\ UNCHANGED rows
  BY DEF RefundRecord, GatewayInv, CallbacksOK, CallbacksAgree, GoodCallback
<1>2. /\ HandlerReturns(w)
      /\ UNCHANGED <<users, enabled, edited, losses, edits, checkoutVars,
                     notifierVars, acked>>
      /\ UNCHANGED <<payments, told>>
  BY DEF RefundRecord, checkoutVars, notifierVars
<1>3. /\ RowsInv /\ StoreInv /\ NotifierInv /\ AmountsOK /\ CallbacksOK
      /\ RowsPlaced /\ RefundedAtProvider
  BY DEF GatewayInv, NotifierInv, StoreInv
<1>4. RowsInv' /\ KeepsRows /\ StaysBut({}) /\ StandBut({})
  <2>1. CASE OrderSetRefunded(t)
    BY <1>3, <2>1, OrderSetRefundedKeeps
  <2>2. CASE UNCHANGED rows
    BY <1>3, <2>2, RowsUnchanged
  <2> QED  BY <1>1, <2>1, <2>2
<1>5. StoreStep({}, {})
  BY <1>1, <1>2, <1>3, <1>4, StatementStep
<1>6. UNCHANGED wasPaid /\ wasRefunded' \in {wasRefunded, wasRefunded \cup {t}}
  BY <1>1 DEF OrderSetRefunded, rows
<1>7. PaymentsGrow /\ CollectedSame
  BY <1>2, PaymentsSame
<1>8. NotifierInv' /\ RowsPlaced' /\ AmountsOK'
  BY <1>2, <1>3, <1>4, <1>5, <1>6, JobsEnd, PlacedKeep, AmountsKeep
  DEF NotifierInv, notifierVars
<1>9. RefundedAtProvider'
  BY <1>1, <1>2, <1>3, <1>6 DEF RefundedAtProvider
<1>10. CallbacksOK'
  <2>1. NoCallback \in GoodCallback /\ NoCallback.pc = "idle"
    BY DEF NoCallback, GoodCallback, Callback
  <2>2. acked' \subseteq Payment
    BY <1>2, <1>3 DEF CallbacksOK
  <2> QED
    BY <1>2, <1>3, <1>7, <2>1, <2>2, OneCallback DEF HandlerReturns
<1>11. PromiseStep
  BY <1>2, <1>5, <1>6, <1>7, PromiseSame
<1> QED
  BY <1>5, <1>7, <1>8, <1>9, <1>10, <1>11 DEF SafeStep, GatewayInv

-----------------------------------------------------------------------------
(* The specification.                                                      *)

(* The step keeps the promise, unless payments may be approved only, or a    *)
(* callback may mark an order for a payment of another.                    *)
LEMMA GatewayStep ==
  ASSUME GatewayInv, [GatewayNext]_gvars
  PROVE  /\ SafeStep
         /\ /\ \A p \in Payment : payments[p].state # "approved"
            /\ \A w \in Worker : cb[w].pc = "mark" => payments[cb[w].p].t = cb[w].t
            => PromiseStep
<1>1. CASE UNCHANGED gvars
  <2>1. /\ UNCHANGED <<rows, users, enabled, payments, told, sends, batch, job,
                       sub, faults, losses, edits, edited, acked>>
        /\ UNCHANGED cb
    BY <1>1 DEF gvars, storeVars, tables, history, counters, rows, checkoutVars,
                notifierVars, gatewayVars
  <2>2. CallbacksOK'
    BY <2>1, PaymentsSame, CallbacksKeep DEF GatewayInv, CallbacksOK
  <2> QED  BY <2>1, <2>2, PlainStep DEF GatewayInv, NotifierInv, AmountsOK
<1>2. CASE CheckoutPart \/ NotifierPart \/ AdminPart
  BY <1>2, CheckoutPartStep, NotifierPartStep, AdminPartStep
<1>3. CASE \E w \in Worker : CallbackMark(w)
  <2>1. PICK w \in Worker : CallbackMark(w)
    BY <1>3
  <2>2. cb[w].p \in Payment /\ cb[w].pc = "mark"
    BY <2>1 DEF CallbackMark, GatewayInv, CallbacksOK, GoodCallback
  <2> QED  BY <2>1, <2>2, CallbackMarkStep
<1>4. CASE \E w \in Worker : RefundCall(w) \/ RefundRecord(w)
  BY <1>4, RefundCallStep, RefundRecordStep
<1>5. CASE CallbackPart /\ ~ \E w \in Worker : \/ CallbackMark(w) \/ RefundCall(w)
                                               \/ RefundRecord(w)
  BY <1>5, PlainCallbackStep DEF CallbackPart, HandlerStep
<1> QED  BY <1>1, <1>2, <1>3, <1>4, <1>5 DEF GatewayNext, CallbackPart

(* The invariant holds in every reachable state.                           *)
LEMMA GatewayInvariant == GatewaySpec => []GatewayInv
<1>1. GatewayInv /\ [GatewayNext]_gvars => GatewayInv'
  BY GatewayStep DEF SafeStep
<1> QED  BY <1>1, GatewayInvInit, PTL DEF GatewaySpec

(* Tables, requests, notifications, callbacks and payments keep their       *)
(* types.                                                                  *)
THEOREM GatewayTypeCorrect == GatewaySpec => []GatewayTypeOK
<1> QED  BY GatewayInvTypes, GatewayInvariant, PTL

(* A refund recorded in an order was made at Alipay (admin.rs:869-881),       *)
(* however many administrators refund, callbacks mark and restarts cut in.  *)
THEOREM RefundsAreMade == GatewaySpec => []RefundedAtProvider
<1>1. GatewayInv => RefundedAtProvider
  BY DEF GatewayInv
<1> QED  BY <1>1, GatewayInvariant, PTL

(* In the whole gateway too, payments are for the amounts of their orders,   *)
(* merchants are told only of orders that were marked paid, and one handler *)
(* alone notifies (web.rs:170, 505-513).                                   *)
THEOREM ComposedSafety ==
  GatewaySpec => [](AmountAgreed /\ ToldWasPaid /\ OneHandlerNotifies)
<1>1. GatewayInv => AmountAgreed /\ ToldWasPaid /\ OneHandlerNotifies
  BY DEF GatewayInv, AmountsOK, PaymentsAgree, Agrees, AmountAgreed, NotifierInv,
         JobsWerePaid, ToldWasPaid
<1> QED  BY <1>1, GatewayInvariant, PTL

-----------------------------------------------------------------------------
(* With Alipay and WeChat alone no payment is ever merely approved, and no   *)
(* order is marked for a payment of another.                               *)

OnlyOnePerOrder == \A c \in Channel : OnePerOrder(c)

NoneApproved == \A p \in Payment : payments[p].state # "approved"

(* Only a PayPal payment is approved before it is collected.               *)
LEMMA NoneApprovedStep ==
  ASSUME OnlyOnePerOrder, GatewayInv, NoneApproved, [GatewayNext]_gvars
  PROVE  NoneApproved'
<1>1. AmountsOK
  BY DEF GatewayInv
<1>2. CASE UNCHANGED payments
  BY <1>2 DEF NoneApproved
<1>3. CASE \E p \in Payment : BuyerPays(p)
  <2>1. PICK p \in Payment : BuyerPays(p)
    BY <1>3
  <2>2. Plugin[payments[p].c] # "paypal"
    BY <1>1, <2>1 DEF BuyerPays, AmountsOK, GoodPayment, OnlyOnePerOrder,
                      OnePerOrder
  <2> QED  BY <1>1, <2>1, <2>2, BuyerPaysGrows DEF NoneApproved
<1>4. CASE \E w \in Worker : RefundCall(w)
  BY <1>4, RefundCallStep DEF NoneApproved
<1>5. CASE \E t, c, f : OpenPayment(t, c, f)
  <2>1. CASE ~ UNCHANGED payments
    <3>1. PICK t, c, f : OpenPayment(t, c, f)
      BY <1>5
    <3>2. PICK p \in Payment :
            payments' = [payments EXCEPT ![p] =
                           [state |-> "open", t |-> t, c |-> c, fen |-> f]]
      BY <2>1, <3>1 DEF OpenPayment
    <3> QED  BY <1>1, <3>2 DEF NoneApproved, AmountsOK
  <2> QED  BY <1>2, <2>1
<1>6. CASE ExpireTask \/ OrderTimePasses \/ NotifierPart \/ AdminPart
           \/ UNCHANGED gvars
  BY <1>2, <1>6
  DEF ExpireTask, OrderTimePasses, NotifierPart, AdminPart, gvars, checkoutVars
<1>7. CASE \/ \E w \in Worker, m \in Merchant, o \in OutTradeNo, f \in Fen,
                y \in PayType : SubmitBegin(w, m, o, f, y)
           \/ \E w \in Worker : SubmitStep(w)
           \/ \E t \in TradeNo : AlipayWappay(t)
  BY <1>2, <1>5, <1>7
  DEF SubmitBegin, SubmitStep, SubmitFind, SubmitCreate, SubmitFails,
      SubmitRoute, SubmitSetChannel, SubmitDispatch, AlipayWappay
<1>8. CASE CallbackPart /\ ~ \E w \in Worker : RefundCall(w)
  BY <1>2, <1>8
  DEF CallbackPart, CallbackVerified, StripeReturn, CallbackUnverified,
      RefundRead, HandlerStep, CallbackMark, CallbackAnswer,
      ReturnAnswer, RefundRefused, RefundRecord, DropHandler, Restart,
      checkoutVars
<1> QED
  BY <1>3, <1>4, <1>6, <1>7, <1>8 DEF GatewayNext, CheckoutPart, CallbackPart

(* Only Stripe's return serves a payment of another order.                 *)
LEMMA MarksOwn ==
  ASSUME OnlyOnePerOrder, GatewayInv, NEW w \in Worker, cb[w].pc = "mark"
  PROVE  payments[cb[w].p].t = cb[w].t
<1>1. Belongs(cb[w]) /\ cb[w].c \in Channel
  BY DEF GatewayInv, CallbacksOK, CallbacksAgree, GoodCallback
<1> QED  BY <1>1 DEF Belongs, MayServe, OnlyOnePerOrder, OnePerOrder

(* The invariants of a gateway with such channels.                         *)
LEMMA NoneApprovedInvariant ==
  ASSUME OnlyOnePerOrder
  PROVE  GatewaySpec => [](GatewayInv /\ NoneApproved)
<1>1. GatewayInit => NoneApproved
  BY DEF GatewayInit, CheckoutInit, CheckoutIdle, NoPayment, NoneApproved
<1>2. GatewayInv /\ NoneApproved /\ [GatewayNext]_gvars => NoneApproved'
  BY NoneApprovedStep
<1> QED  BY <1>1, <1>2, GatewayInvariant, PTL DEF GatewaySpec

(* With Alipay and WeChat channels the gateway keeps PaymentPromise: whatever *)
(* requests, callbacks, retries, refunds, expiry, administrators and restarts *)
(* do to one another, an order is confirmed only after its own amount was    *)
(* collected.  PayPal's approvals and Stripe's return confirm without that.  *)
THEOREM PromiseKept ==
  ASSUME OnlyOnePerOrder
  PROVE  GatewaySpec => KeepsPromise
<1>1. GatewayInit => Promise!PromiseInit
  BY DEF GatewayInit, CheckoutInit, HistoryEmpty, NotifierIdle, CheckoutIdle,
         NoPayment, NoRow, Collected, Promise!PromiseInit
<1>2. GatewayInv /\ NoneApproved /\ [GatewayNext]_gvars
      => [Promise!PromiseNext]_(Promise!promiseVars)
  BY GatewayStep, MarksOwn DEF NoneApproved, PromiseStep
<1> QED
  BY <1>1, <1>2, NoneApprovedInvariant, PTL
  DEF GatewaySpec, KeepsPromise, Promise!PromiseSpec

(* What PaymentPromise says of an order that no administrator edited: a      *)
(* confirmed one is paid for.                                              *)
LEMMA PromiseFunds ==
  ASSUME GatewayInv, FundedInFull, PromiseStep
  PROVE  FundedInFull'
<1>1. \A t \in TradeNo : Collected(t) \subseteq Fen
  BY DEF GatewayInv, AmountsOK, GoodPayment, Collected
<1>2. wasPaid \subseteq TradeNo
  BY DEF GatewayInv, NotifierInv, StoreInv, RowsInv, RowsOK
<1> DEFINE money == [t \in TradeNo |-> orders[t].money]
           paid  == [t \in TradeNo |-> Collected(t)]
<1>3. \A t \in wasPaid \ edited : money[t] \in paid[t] /\ money[t] # Nil
  BY <1>1, <1>2, StoreAssumption DEF FundedInFull
<1>4. \A t \in wasPaid' \ edited' : t \in TradeNo /\ money'[t] \in paid'[t]
  <2>1. CASE UNCHANGED Promise!promiseVars
    BY <1>2, <1>3, <2>1 DEF Promise!promiseVars
  <2>2. ASSUME NEW t \in TradeNo, NEW f \in Fen, Promise!Place(t, f)
        PROVE  \A u \in wasPaid' \ edited' : u \in TradeNo /\ money'[u] \in paid'[u]
    BY <1>2, <1>3, <2>2 DEF Promise!Place
  <2>3. ASSUME NEW t \in TradeNo, NEW f \in Fen, Promise!Collect(t, f)
        PROVE  \A u \in wasPaid' \ edited' : u \in TradeNo /\ money'[u] \in paid'[u]
    BY <1>2, <1>3, <2>3 DEF Promise!Collect
  <2>4. ASSUME NEW t \in TradeNo, Promise!Confirm(t) \/ Promise!Tell(t)
        PROVE  \A u \in wasPaid' \ edited' : u \in TradeNo /\ money'[u] \in paid'[u]
    BY <1>2, <1>3, <2>4 DEF Promise!Confirm, Promise!Tell
  <2>5. ASSUME NEW t \in TradeNo, Promise!Override(t)
        PROVE  \A u \in wasPaid' \ edited' : u \in TradeNo /\ money'[u] \in paid'[u]
    BY <1>2, <1>3, <2>5 DEF Promise!Override
  <2> QED
    BY <2>1, <2>2, <2>3, <2>4, <2>5 DEF PromiseStep, Promise!PromiseNext
<1> QED  BY <1>4 DEF FundedInFull

(* With Alipay and WeChat channels an order the code itself marked paid was  *)
(* paid for in full (web.rs:468-515, 732-776, 778-839).                    *)
THEOREM PaidOrdersAreFunded ==
  ASSUME OnlyOnePerOrder
  PROVE  GatewaySpec => []FundedInFull
<1>1. GatewayInit => FundedInFull
  BY DEF GatewayInit, CheckoutInit, HistoryEmpty, FundedInFull
<1>2. GatewayInv /\ NoneApproved /\ FundedInFull /\ [GatewayNext]_gvars
      => FundedInFull'
  BY GatewayStep, MarksOwn, PromiseFunds DEF NoneApproved
<1> QED  BY <1>1, <1>2, NoneApprovedInvariant, PTL DEF GatewaySpec
=============================================================================
