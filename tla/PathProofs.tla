----------------------------- MODULE PathProofs ------------------------------
(***************************************************************************)
(* More about Gateway, for any constants: what holds of its whole payment   *)
(* path although the steps of checkout, notifier, callbacks, refunds and    *)
(* administrators fall between one another.  GatewayInv is not enough for    *)
(* any of it; each section adds what it needs and lists what its steps do.  *)
(***************************************************************************)
EXTENDS GatewayProofs

-----------------------------------------------------------------------------
(* Delivered notifications.                                                *)

(* In the whole gateway too a delivered notification stays delivered, but   *)
(* for an order that an administrator edits (store.rs:236-255).            *)
THEOREM GatewayDeliveredStays == GatewaySpec => DeliveredStays
<1>1. GatewayInv /\ [GatewayNext]_gvars
      => [\A t \in TradeNo :
            orders[t].notify >= Delivered /\ t \notin edited'
            => orders'[t].notify >= Delivered]_orders
  BY GatewayStep DEF SafeStep, StoreStep, StaysBut
<1> QED  BY <1>1, GatewayInvariant, PTL DEF GatewaySpec, DeliveredStays

-----------------------------------------------------------------------------
(* Calls of a merchant.                                                    *)

(* Next to the notifier and mark_paid no step marks an untouched order or    *)
(* writes its count.                                                       *)
LEMMA CountIsLeft ==
  ASSUME GatewayInv, [GatewayNext]_gvars, ~ NotifierPart,
         ~ \E w \in Worker : CallbackMark(w), NEW t \in TradeNo,
         t \notin edited'
  PROVE  orders'[t].notify = orders[t].notify /\ (t \in wasPaid' <=> t \in wasPaid)
<1>1. orders \in [TradeNo -> Row] /\ AbsentUntried
  BY DEF GatewayInv, NotifierInv, StoreInv, RowsInv, RowsOK
<1>2. CASE UNCHANGED rows
  BY <1>2 DEF rows
<1>3. CASE \E u \in TradeNo : \E m, o, f : CreateOrder(u, m, o, f)
  BY <1>1, <1>3 DEF CreateOrder, NoRow, AbsentUntried
<1>4. CASE \E u, c : SetChannel(u, c)
  BY <1>1, <1>4 DEF SetChannel, Row
<1>5. CASE ExpirePendingOrders
  BY <1>1, <1>5 DEF ExpirePendingOrders, Row
<1>6. CASE \E u : OrderAges(u)
  BY <1>1, <1>6 DEF OrderAges, Row
<1>7. CASE \E u : OrderSetRefunded(u)
  BY <1>1, <1>7 DEF OrderSetRefunded, rows, Row
<1>8. CASE \E u, s : OrderUpdate(u, s)
  BY <1>1, <1>8 DEF OrderUpdate, Edit, OrderUpdateStatus
<1>9. CASE \E u : OrdersDelete({u})
  BY <1>1, <1>9 DEF OrdersDelete, Edit, OrderDelete
<1>10. CASE CheckoutPart
  BY <1>2, <1>3, <1>4, <1>5, <1>6, <1>10
  DEF CheckoutPart, SubmitBegin, SubmitStep, SubmitFind, SubmitCreate,
      SubmitFails, SubmitRoute, SubmitSetChannel, SubmitDispatch, AlipayWappay,
      BuyerPays, ExpireTask, OrderTimePasses, storeVars, tables, history, rows
<1>11. CASE AdminPart \/ UNCHANGED gvars
  BY <1>2, <1>8, <1>9, <1>11
  DEF AdminPart, MerchantDelete, MerchantUpdate, ChannelUpdate, gvars,
      storeVars, tables, history, rows
<1>12. CASE CallbackPart
  BY <1>2, <1>7, <1>12
  DEF CallbackPart, CallbackVerified, CallbackUnverified, StripeReturn,
      RefundRead, HandlerStep, CallbackAnswer, ReturnAnswer,
      RefundCall, RefundRefused, RefundRecord, DropHandler, Restart, storeVars,
      tables, history, rows
<1> QED  BY <1>10, <1>11, <1>12 DEF GatewayNext

(* Nor does one make a call or begin one; tasks that are lost are counted.   *)
LEMMA JobsAreLeft ==
  ASSUME GatewayInv, [GatewayNext]_gvars, ~ NotifierPart,
         ~ \E w \in Worker : CallbackMark(w)
  PROVE  /\ sends' = sends /\ batch' \subseteq batch
         /\ \A p \in Notifying : job'[p].pc # "idle" => job'[p] = job[p]
         /\ \/ UNCHANGED job /\ (UNCHANGED faults \/ Fault) /\ UNCHANGED losses
            \/ UNCHANGED faults /\ Loss
<1>1. job \in [Notifying -> Job]
  BY DEF GatewayInv, NotifierInv
<1>2. CASE Restart
  BY <1>2 DEF Restart, NoJob
<1>3. CASE \E w \in Worker : DropHandler(w)
  BY <1>1, <1>3 DEF DropHandler, NoJob
<1>4. CASE /\ UNCHANGED notifierVars
           /\ UNCHANGED faults \/ Fault
           /\ UNCHANGED losses
  BY <1>4 DEF notifierVars
<1>5. CASE CheckoutPart
  <2>1. /\ UNCHANGED faults \/ Fault
        /\ UNCHANGED losses
    BY <1>5 DEF CheckoutPart, SubmitBegin, SubmitStep, SubmitFind, SubmitCreate,
                SubmitFails, SubmitRoute, SubmitSetChannel, SubmitDispatch,
                AlipayWappay, BuyerPays, ExpireTask, OrderTimePasses, storeVars,
                counters
  <2> QED  BY <1>4, <1>5, <2>1 DEF CheckoutPart
<1>6. CASE AdminPart \/ UNCHANGED gvars
  <2>1. UNCHANGED <<faults, losses>>
    BY <1>6 DEF AdminPart, OrderUpdate, OrdersDelete, MerchantDelete,
                MerchantUpdate, ChannelUpdate, gvars, storeVars, counters
  <2> QED  BY <1>4, <1>6, <2>1 DEF AdminPart, gvars
<1>7. CASE CallbackPart
  BY <1>2, <1>3, <1>4, <1>7
  DEF CallbackPart, CallbackVerified, CallbackUnverified, StripeReturn,
      RefundRead, HandlerStep, CallbackAnswer, ReturnAnswer,
      RefundCall, RefundRefused, RefundRecord, storeVars, counters
<1> QED  BY <1>5, <1>6, <1>7 DEF GatewayNext

(* Steps next to the notifier and mark_paid.                               *)
LEMMA BesideKeepsCalls ==
  ASSUME GatewayInv, CallsInv, [GatewayNext]_gvars, ~ NotifierPart,
         ~ \E w \in Worker : CallbackMark(w), NEW t \in TradeNo,
         t \notin Touched'
  PROVE  CallsOK(t)'
<1>1. PICK T \in SUBSET TradeNo, U \in SUBSET TradeNo : StoreStep(T, U)
  BY GatewayStep DEF SafeStep
<1>2. NotifierInv /\ NotifierInv' /\ StoreInv
  BY GatewayStep DEF SafeStep, GatewayInv, NotifierInv
<1>3. t \notin Touched /\ CallsOK(t) /\ t \notin T
  BY <1>1, UntouchedOK
<1>4. orders'[t].notify = orders[t].notify /\ (t \in wasPaid' <=> t \in wasPaid)
  BY CountIsLeft DEF Touched
<1>5. t \in wasPaid => orders'[t].status = Paid
  BY <1>1, <1>3 DEF StoreStep, StaysBut, Touched, CallsOK
<1>6. /\ sends' = sends /\ batch' \subseteq batch
      /\ \A p \in Notifying : job'[p].pc # "idle" => job'[p] = job[p]
      /\ \/ UNCHANGED job /\ (UNCHANGED faults \/ Fault) /\ UNCHANGED losses
         \/ UNCHANGED faults /\ Loss
  BY JobsAreLeft
<1>7. (Calling(t)' => Calling(t)) /\ (Due(t)' => Due(t))
  BY <1>6 DEF Calling, Due, Notifying
<1>8. /\ orders[t].notify \in Nat /\ Lost \in Nat
      /\ InFlight(t) \in {0, 1} /\ InFlight(t)' \in {0, 1}
  BY <1>2, LostIsNat DEF StoreInv, RowsInv, RowsOK, Row, InFlight
<1>9. CASE UNCHANGED job /\ (UNCHANGED faults \/ Fault) /\ UNCHANGED losses
  <2>1. Lost' >= Lost /\ Lost' \in Int
    BY <1>2, <1>9, LostGrows, LostIsNat DEF Lost, Fault
  <2>2. InFlight(t)' = InFlight(t)
    BY <1>9 DEF InFlight, Recording
  <2> QED
    BY <1>2, <1>3, <1>4, <1>5, <1>6, <1>7, <1>8, <2>1, <2>2, CallsKeep
<1>10. CASE UNCHANGED faults /\ Loss
  <2>1. Lost' = Lost + 1
    BY <1>2, <1>10, LostIsNat DEF Lost, Loss
  <2> QED
    BY <1>2, <1>3, <1>4, <1>5, <1>6, <1>7, <1>8, <2>1, CallsKeep
<1> QED  BY <1>6, <1>9, <1>10

(* mark_paid in a callback, which may commit although its answer is lost:    *)
(* an order that becomes paid has no call behind it (web.rs:505-513).       *)
LEMMA MarkKeepsCalls ==
  ASSUME GatewayInv, CallsInv, [GatewayNext]_gvars,
         NEW w \in Worker, CallbackMark(w), NEW t \in TradeNo,
         t \notin Touched'
  PROVE  CallsOK(t)'
<1>1. NotifierInv /\ NotifierInv' /\ StoreInv
  BY GatewayStep DEF SafeStep, GatewayInv, NotifierInv
<1>2. PICK T \in SUBSET TradeNo, U \in SUBSET TradeNo : StoreStep(T, U)
  BY GatewayStep DEF SafeStep
<1>3. t \notin Touched /\ CallsOK(t) /\ orders \in [TradeNo -> Row]
  BY <1>1, <1>2, UntouchedOK DEF StoreInv, RowsInv, RowsOK
<1>4. PICK u \in TradeNo : cb[w].t = u
  BY DEF CallbackMark, GatewayInv, CallbacksOK, GoodCallback
<1>5. /\ \/ UNCHANGED rows /\ UNCHANGED job
         \/ BecomesPaid(u) /\ \E api : MarkPaid(u, api)
      /\ job' \in {job, [job EXCEPT ![w] = Calls(u)]}
      /\ UNCHANGED faults \/ Fault
      /\ UNCHANGED <<losses, batch, sends>>
  <2>1. PICK api : \/ /\ MarkPaid(u, api)
                      /\ job' = IF BecomesPaid(u)
                                THEN [job EXCEPT ![w] = Calls(u)] ELSE job
                      /\ UNCHANGED faults
                   \/ /\ Fault
                      /\ MarkPaid(u, api) \/ UNCHANGED rows
                      /\ UNCHANGED job
    BY <1>4 DEF CallbackMark
  <2>2. BecomesPaid(u) \/ ~ MarkPaid(u, api) \/ UNCHANGED rows
    BY DEF MarkPaid
  <2>3. UNCHANGED <<losses, batch, sends>>
    BY DEF CallbackMark
  <2> QED  BY <2>1, <2>2, <2>3
<1>6. Lost' >= Lost
  BY <1>1, <1>5, LostGrows
<1>7. /\ RetryTask \notin Worker /\ RetryTask \in Notifying
      /\ job \in [Notifying -> Job]
      /\ Worker \subseteq Notifying
  BY <1>1, NotifierAssumption DEF NotifierInv, Notifying
<1>8. Due(t)' = Due(t) /\ InFlight(t)' = InFlight(t)
  BY <1>5, <1>7 DEF Due, InFlight, Recording
<1>9. /\ orders[t].notify \in Nat /\ Lost \in Nat /\ Lost' \in Nat
      /\ InFlight(t) \in Nat /\ GiveUp \in Nat /\ Own(t)' \in Nat
      /\ orders'[t].notify \in Nat
  <2>1. Lost' \in Nat
    BY <1>1, <1>5, LostIsNat DEF Lost, Fault
  <2> QED
    BY <1>1, <2>1, LostIsNat, StoreAssumption
    DEF NotifierInv, StoreInv, RowsInv, RowsOK, Row, InFlight, Own
<1>10. CASE UNCHANGED rows /\ UNCHANGED job
  <2>1. Calling(t)' = Calling(t) /\ UNCHANGED <<orders, wasPaid>>
    BY <1>5, <1>10 DEF Calling, rows
  <2> QED
    BY <1>1, <1>3, <1>5, <1>6, <1>8, <1>9, <2>1, CallsKeep DEF CallsOK
<1>11. CASE BecomesPaid(u) /\ \E api : MarkPaid(u, api)
  <2>1. /\ orders[u].status # Paid /\ orders'[u].status = Paid
        /\ wasPaid' = wasPaid \cup {u}
        /\ u # t => orders'[t] = orders[t]
    BY <1>3, <1>11 DEF MarkPaid, BecomesPaid, Row
  <2>2. CASE u # t
    <3>1. Calling(t)' => Calling(t)
      BY <1>5, <1>7, <2>2 DEF Calling, Calls
    <3> QED
      BY <1>1, <1>3, <1>5, <1>6, <1>8, <1>9, <2>1, <2>2, <3>1, CallsKeep
      DEF CallsOK
  <2>3. CASE u = t
    <3>1. t \notin wasPaid /\ sends[t] = 0
      BY <1>3, <2>1, <2>3 DEF CallsOK
    <3>2. ~ Due(t)'
      BY <1>1, <1>8, <3>1, CallsArePaid
    <3>3. InFlight(t)' \in Nat
      BY <1>8, <1>9
    <3> QED  BY <1>5, <1>9, <2>1, <2>3, <3>1, <3>2, <3>3 DEF CallsOK
  <2> QED  BY <2>2, <2>3
<1> QED  BY <1>5, <1>10, <1>11

(* Every step of the gateway.                                              *)
LEMMA GatewayCallsStep ==
  ASSUME GatewayInv, CallsInv, [GatewayNext]_gvars
  PROVE  CallsInv'
<1>1. CASE NotifierPart
  <2>1. [NotifierNext]_nvars
    BY <1>1 DEF NotifierPart, NotifierNext
  <2> QED  BY <2>1, CallsInvStep
<1>2. CASE ~ NotifierPart
  <2>1. NotifierInv'
    BY GatewayStep DEF SafeStep, GatewayInv
  <2>2. job'[RetryTask].pc # "idle"
        => job'[RetryTask] = job[RetryTask] /\ batch' \subseteq batch
    <3>1. RetryTask \in Notifying \ Worker /\ job \in [Notifying -> Job]
      BY NotifierAssumption DEF Notifying, GatewayInv, NotifierInv
    <3>2. CASE \E w \in Worker : CallbackMark(w)
      BY <3>1, <3>2 DEF CallbackMark
    <3> QED  BY <1>2, <3>1, <3>2, JobsAreLeft
  <2> QED
    BY <1>2, <2>1, <2>2, BesideKeepsCalls, MarkKeepsCalls DEF CallsInv
<1> QED  BY <1>1, <1>2

(* In the whole gateway too the calls for an order stay bounded: submits,    *)
(* expiry, refunds and administrators of other orders add none, and a        *)
(* callback whose answer is lost or that is repeated adds none either        *)
(* (web.rs:505-513, 667-682).                                              *)
THEOREM GatewayCallsBounded == GatewaySpec => []AttemptsBounded
<1>1. GatewayInit => CallsInv
  BY GatewayInvInit, NoCallsYet DEF GatewayInit, CheckoutInit, GatewayInv
<1>2. GatewayInv /\ CallsInv /\ [GatewayNext]_gvars => CallsInv'
  BY GatewayCallsStep
<1>3. CallsInv => AttemptsBounded
  BY CallsAreBounded
<1> QED  BY <1>1, <1>2, <1>3, GatewayInvariant, PTL DEF GatewaySpec

-----------------------------------------------------------------------------
(* What is behind a paid order on any channels.                            *)

Backed(t) ==
  \/ orders[t].money \in Collected(t)
  \/ PaypalReported(t)
  \/ SessionCollected(t)

BackedInv ==
  /\ \A p \in Payment : payments[p].state = "approved"
                        => Plugin[payments[p].c] = "paypal"
  /\ \A t \in wasPaid \ edited : Backed(t)

(* Only PayPal approves before it collects.                                *)
LEMMA ApprovedStep ==
  ASSUME GatewayInv, [GatewayNext]_gvars, NEW p \in Payment,
         payments[p].state = "approved" => Plugin[payments[p].c] = "paypal",
         payments'[p].state = "approved"
  PROVE  Plugin[payments'[p].c] = "paypal"
<1>1. AmountsOK /\ PaymentsGrow
  BY GatewayStep DEF SafeStep, GatewayInv
<1>2. CASE payments[p].state = "approved"
  BY <1>1, <1>2 DEF PaymentsGrow
<1>3. CASE \E q \in Payment : BuyerPays(q)
  <2>1. PICK q \in Payment : BuyerPays(q)
    BY <1>3
  <2>2. /\ payments'[q].c = payments[q].c
        /\ payments'[q].state = "approved" => Plugin[payments[q].c] = "paypal"
        /\ q # p => payments'[p] = payments[p]
    BY <1>1, <2>1 DEF BuyerPays, AmountsOK, GoodPayment, PaymentState
  <2> QED  BY <1>2, <2>2
<1>4. CASE \E w \in Worker : RefundCall(w)
  BY <1>2, <1>4, RefundCallStep
<1>5. CASE \E t, c, f : OpenPayment(t, c, f)
  <2>1. payments'[p].state = "open" \/ payments'[p] = payments[p]
    BY <1>1, <1>5 DEF OpenPayment, AmountsOK
  <2> QED  BY <1>2, <2>1
<1>6. CASE UNCHANGED payments
  BY <1>2, <1>6
<1>7. CASE CheckoutPart
  BY <1>3, <1>5, <1>6, <1>7
  DEF CheckoutPart, SubmitBegin, SubmitStep, SubmitFind, SubmitCreate,
      SubmitFails, SubmitRoute, SubmitSetChannel, SubmitDispatch, AlipayWappay,
      ExpireTask, OrderTimePasses, checkoutVars
<1>8. CASE NotifierPart \/ AdminPart \/ UNCHANGED gvars
  BY <1>6, <1>8 DEF NotifierPart, AdminPart, gvars, checkoutVars
<1>9. CASE CallbackPart
  BY <1>4, <1>6, <1>9
  DEF CallbackPart, CallbackVerified, StripeReturn, CallbackUnverified,
      RefundRead, HandlerStep, CallbackMark, CallbackAnswer,
      ReturnAnswer, RefundRefused, RefundRecord, DropHandler, Restart,
      checkoutVars
<1> QED  BY <1>7, <1>8, <1>9 DEF GatewayNext

(* Next to mark_paid no step writes the transaction number of an untouched   *)
(* order that was marked.                                                  *)
LEMMA ApiIsLeft ==
  ASSUME GatewayInv, [GatewayNext]_gvars, ~ \E w \in Worker : CallbackMark(w),
         NEW t \in TradeNo, t \in wasPaid, t \notin edited'
  PROVE  orders'[t].api = orders[t].api
<1>1. orders \in [TradeNo -> Row] /\ orders[t].status # Absent
  BY DEF GatewayInv, RowsPlaced, NotifierInv, StoreInv, RowsInv, RowsOK
<1>2. CASE UNCHANGED orders
  BY <1>2
<1>3. CASE \E u, m, o, f : CreateOrder(u, m, o, f)
  BY <1>1, <1>3 DEF CreateOrder
<1>4. CASE \/ \E u, c : SetChannel(u, c)
           \/ ExpirePendingOrders
           \/ \E u : OrderAges(u) \/ OrderSetRefunded(u)
  BY <1>1, <1>4 DEF SetChannel, ExpirePendingOrders, OrderAges, OrderSetRefunded,
                    rows, Row
<1>5. CASE \E u, success : RecordNotifyAttempt(u, success)
  BY <1>1, <1>5 DEF RecordNotifyAttempt, Row
<1>6. CASE \E u : NotifyWindowPasses(u)
  BY <1>1, <1>6 DEF NotifyWindowPasses, Row
<1>7. CASE \E u, s : OrderUpdate(u, s)
  BY <1>1, <1>7 DEF OrderUpdate, Edit, OrderUpdateStatus
<1>8. CASE \E u : OrdersDelete({u})
  BY <1>1, <1>8 DEF OrdersDelete, Edit, OrderDelete
<1>9. CASE CheckoutPart
  BY <1>2, <1>3, <1>4, <1>9
  DEF CheckoutPart, SubmitBegin, SubmitStep, SubmitFind, SubmitCreate,
      SubmitFails, SubmitRoute, SubmitSetChannel, SubmitDispatch, AlipayWappay,
      BuyerPays, ExpireTask, OrderTimePasses, storeVars, tables, rows
<1>10. CASE NotifierPart
  BY <1>2, <1>5, <1>6, <1>10
  DEF NotifierPart, NotifyStep, NotifyRead, NotifyReadFails, NotifySend,
      NotifyRecord, RetryTick, RetryNext, NotifyTimePasses, storeVars, tables,
      rows
<1>11. CASE AdminPart \/ UNCHANGED gvars
  BY <1>2, <1>7, <1>8, <1>11
  DEF AdminPart, MerchantDelete, MerchantUpdate, ChannelUpdate, gvars,
      storeVars, tables, rows
<1>12. CASE CallbackPart
  BY <1>2, <1>4, <1>12
  DEF CallbackPart, CallbackVerified, CallbackUnverified, StripeReturn,
      RefundRead, HandlerStep, CallbackAnswer, ReturnAnswer,
      RefundCall, RefundRefused, RefundRecord, DropHandler, Restart, storeVars,
      tables, rows
<1> QED  BY <1>9, <1>10, <1>11, <1>12 DEF GatewayNext

(* What is behind an untouched order stays, while its transaction number     *)
(* does, and so does what the order is for.                                *)
LEMMA StaysBacked ==
  ASSUME GatewayInv, [GatewayNext]_gvars, NEW t \in TradeNo, t \in wasPaid,
         t \notin edited', Backed(t), orders'[t].api = orders[t].api
  PROVE  Backed(t)'
<1>1. PaymentsGrow /\ GatewayInv'
  BY GatewayStep DEF SafeStep
<1>2. CASE PaypalReported(t)
  BY <1>1, <1>2 DEF PaypalReported, Reported, PaymentsGrow, Backed
<1>3. CASE SessionCollected(t)
  BY <1>1, <1>3 DEF SessionCollected, PaymentsGrow, Backed
<1>4. CASE orders[t].money \in Collected(t)
  <2>1. orders[t].money \in Collected(t)'
    BY <1>1, <1>4 DEF Collected, PaymentsGrow
  <2>2. orders'[t].money = orders[t].money
    <3>1. PICK T \in SUBSET TradeNo, U \in SUBSET TradeNo : StoreStep(T, U)
      BY GatewayStep DEF SafeStep
    <3>2. orders[t].status # Absent /\ orders'[t].status # Gone
      BY <1>1 DEF GatewayInv, RowsPlaced
    <3>3. orders'[t].status # Absent /\ orders'[t] \in Row
      BY <1>1, <3>1, <3>2
      DEF StoreStep, KeepsRows, GatewayInv, NotifierInv, StoreInv, RowsInv, RowsOK
    <3>4. orders'[t].status >= Unpaid
      BY <3>2, <3>3 DEF Row, Gone, Absent, Unpaid, Paid, Closed, Refunded
    <3> QED  BY <3>1, <3>2, <3>4 DEF StoreStep, KeepsRows
  <2> QED  BY <2>1, <2>2 DEF Backed
<1> QED  BY <1>2, <1>3, <1>4 DEF Backed

(* mark_paid writes the number of the session that Stripe's return looked    *)
(* up; every other callback serves a payment for the order (web.rs:505,      *)
(* 932, 967-972).                                                          *)
LEMMA MarkIsBacked ==
  ASSUME GatewayInv, BackedInv, NEW w \in Worker, CallbackMark(w),
         NEW t \in TradeNo, BecomesPaid(t), orders'[t] # orders[t]
  PROVE  Backed(t)'
<1>1. PICK u \in TradeNo, p \in Payment, c \in Channel :
        /\ cb[w].t = u /\ cb[w].p = p /\ cb[w].c = c
        /\ Reported(p) /\ payments[p].c = c /\ MayServe(u, p, cb[w].via)
  BY DEF CallbackMark, GatewayInv, CallbacksOK, CallbacksAgree, GoodCallback,
         Belongs
<1>2. MarkPaid(u, IF Plugin[c] = "paypal" THEN Nil ELSE p)
  BY <1>1 DEF CallbackMark, rows
<1>3. /\ u = t /\ Exists(t) /\ orders'[t].money = orders[t].money
      /\ Plugin[c] # "paypal" => orders'[t].api = p
      /\ UNCHANGED payments
  <2>1. orders \in [TradeNo -> Row] /\ p # Nil
    BY StoreAssumption DEF GatewayInv, NotifierInv, StoreInv, RowsInv, RowsOK
  <2> QED
    BY <1>2, <2>1 DEF MarkPaid, BecomesPaid, CallbackMark, checkoutVars, rows, Row
<1>4. CASE Plugin[c] = "paypal"
  <2>1. payments[p].t = t
    BY <1>1, <1>3, <1>4 DEF MayServe
  <2> QED  BY <1>1, <1>3, <1>4, <2>1 DEF PaypalReported, Reported, Backed
<1>5. CASE Plugin[c] # "paypal"
  <2>1. payments[p].state \in {"paid", "refunded"}
    BY <1>1, <1>5 DEF BackedInv, Reported
  <2>2. CASE payments[p].t = t
    <3>1. orders[t].money = payments[p].fen
      BY <1>1, <1>3, <2>1, <2>2 DEF GatewayInv, AmountsOK, PaymentsAgree, Agrees
    <3> QED  BY <1>1, <1>3, <2>1, <2>2, <3>1 DEF Collected, Backed
  <2>3. CASE Plugin[c] = "stripe"
    BY <1>1, <1>3, <1>5, <2>1, <2>3 DEF SessionCollected, Backed
  <2> QED  BY <1>1, <1>3, <2>2, <2>3 DEF MayServe
<1> QED  BY <1>4, <1>5

(* mark_paid writes one row, and only if the order becomes paid.           *)
LEMMA MarkWritesOne ==
  ASSUME GatewayInv, NEW w \in Worker, CallbackMark(w), NEW t \in TradeNo
  PROVE  \/ orders'[t] = orders[t] /\ (t \in wasPaid' => t \in wasPaid)
         \/ orders'[t] # orders[t] /\ BecomesPaid(t)
<1>1. PICK u, api : MarkPaid(u, api) \/ UNCHANGED rows
  BY DEF CallbackMark
<1>2. orders \in [TradeNo -> Row]
  BY DEF GatewayInv, NotifierInv, StoreInv, RowsInv, RowsOK
<1>3. CASE UNCHANGED rows \/ t # u
  BY <1>1, <1>2, <1>3 DEF MarkPaid, rows
<1>4. CASE MarkPaid(u, api) /\ t = u /\ BecomesPaid(t)
  <2>1. orders[t].status # Paid /\ orders'[t].status = Paid
    BY <1>2, <1>4 DEF MarkPaid, BecomesPaid, Row
  <2> QED  BY <1>4, <2>1
<1> QED  BY <1>1, <1>3, <1>4 DEF MarkPaid

(* Every step of the gateway.                                              *)
LEMMA BackedStep ==
  ASSUME GatewayInv, BackedInv, [GatewayNext]_gvars
  PROVE  BackedInv'
<1>1. ASSUME NEW t \in wasPaid' \ edited'
      PROVE  Backed(t)'
  <2>1. t \in TradeNo /\ t \notin edited
    BY <1>1, GatewayStep DEF SafeStep, GatewayInv, NotifierInv, StoreInv, RowsInv,
                             RowsOK, StoreStep
  <2>2. CASE ~ \E w \in Worker : CallbackMark(w)
    <3>1. t \in wasPaid
      <4>1. CASE NotifierPart
        BY <1>1, <4>1, NotifierOwnStep DEF GatewayInv, NotifierPart
      <4>2. CASE ~ NotifierPart
        BY <1>1, <2>1, <2>2, <4>2, CountIsLeft
      <4> QED  BY <4>1, <4>2
    <3> QED  BY <1>1, <2>1, <2>2, <3>1, ApiIsLeft, StaysBacked DEF BackedInv
  <2>3. ASSUME NEW w \in Worker, CallbackMark(w) PROVE Backed(t)'
    <3>1. CASE orders'[t] # orders[t]
      <4>1. BecomesPaid(t)
        BY <2>1, <2>3, <3>1, MarkWritesOne
      <4> QED  BY <2>1, <2>3, <3>1, <4>1, MarkIsBacked
    <3>2. CASE orders'[t] = orders[t]
      <4>1. t \in wasPaid
        BY <1>1, <2>1, <2>3, <3>2, MarkWritesOne
      <4> QED  BY <1>1, <2>1, <3>2, <4>1, StaysBacked DEF BackedInv
    <3> QED  BY <3>1, <3>2
  <2> QED  BY <2>2, <2>3
<1>2. \A p \in Payment : payments'[p].state = "approved"
                         => Plugin[payments'[p].c] = "paypal"
  BY ApprovedStep DEF BackedInv
<1> QED  BY <1>1, <1>2 DEF BackedInv

(* Whatever the channels, an order the code itself marked paid has its own   *)
(* amount collected, or a payment reported by PayPal, whose approval marks   *)
(* it before the money moves, or names the collected session at Stripe that  *)
(* it was marked for (web.rs:468-515, 932, 967-972).                       *)
THEOREM PaidOrdersAreBacked == GatewaySpec => []PaidIsBacked
<1>1. GatewayInit => BackedInv
  BY DEF GatewayInit, CheckoutInit, HistoryEmpty, CheckoutIdle, NoPayment,
         BackedInv
<1>2. GatewayInv /\ BackedInv /\ [GatewayNext]_gvars => BackedInv'
  BY BackedStep
<1>3. BackedInv => PaidIsBacked
  BY DEF BackedInv, Backed, PaidIsBacked
<1> QED  BY <1>1, <1>2, <1>3, GatewayInvariant, PTL DEF GatewaySpec

-----------------------------------------------------------------------------
(* One order number, several gateway orders.                               *)

(* Steps of everything next to checkout.                                   *)
LEMMA BesideNumberStep ==
  ASSUME GatewayInv, [GatewayNext]_gvars, ~ CheckoutPart,
         NEW m \in Merchant, NEW o \in OutTradeNo
  PROVE  NumberStep(m, o)
<1>1. /\ GatewayInv' /\ KeepsRows /\ RowsInv /\ RowsInv'
      /\ sub \in [Worker -> GoodSubmit]
  BY GatewayStep
  DEF SafeStep, StoreStep, GatewayInv, NotifierInv, StoreInv, AmountsOK
<1>2. \A w \in Worker : sub'[w].pc = "create" => sub'[w] = sub[w]
  <2>1. CASE \E w \in Worker : DropHandler(w)
    BY <1>1, <2>1 DEF DropHandler, SubmitReturns, NoSubmit
  <2>2. CASE Restart
    BY <2>2 DEF Restart, NoSubmit
  <2>3. CASE UNCHANGED sub
    BY <2>3
  <2> QED
    BY <2>1, <2>2, <2>3
    DEF GatewayNext, NotifierPart, AdminPart, CallbackPart, CallbackVerified,
        CallbackUnverified, StripeReturn, RefundRead, HandlerStep,
        CallbackMark, CallbackAnswer, ReturnAnswer, RefundCall, RefundRefused,
        RefundRecord, gvars, checkoutVars
<1>3. \/ \E t, api : MarkPaid(t, api)
      \/ \E t, success : RecordNotifyAttempt(t, success)
      \/ \E t, s : OrderUpdateStatus(t, s)
      \/ \E t : OrderSetRefunded(t) \/ NotifyWindowPasses(t)
      \/ \E T : OrderDelete(T)
      \/ UNCHANGED orders
  BY DEF GatewayNext, NotifierPart, NotifyStep, NotifyRead, NotifyReadFails,
         NotifySend, NotifyRecord, RetryTick, RetryNext, NotifyTimePasses,
         AdminPart, OrderUpdate, OrdersDelete, MerchantDelete, MerchantUpdate,
         ChannelUpdate, CallbackPart, CallbackVerified, CallbackUnverified,
         StripeReturn, RefundRead, HandlerStep, CallbackMark,
         CallbackAnswer, ReturnAnswer, RefundCall, RefundRefused, RefundRecord,
         DropHandler, Restart, gvars, storeVars, tables, rows
<1>4. \A t \in TradeNo : orders[t].status = Absent => orders'[t].status = Absent
  <2>1. CASE UNCHANGED orders
    BY <2>1
  <2>2. CASE ~ UNCHANGED orders
    BY <1>1, <1>3, <2>2, NoRowAppears
  <2> QED  BY <2>1, <2>2
<1> QED  BY <1>1, <1>2, <1>4, NumberStays

(* Every step of the gateway.                                              *)
LEMMA GatewayNumberStep ==
  ASSUME GatewayInv, [GatewayNext]_gvars,
         NEW m \in Merchant, NEW o \in OutTradeNo
  PROVE  NumberStep(m, o)
<1>1. AmountsInv /\ AmountsInv' /\ KeepsRows
  BY GatewayStep DEF SafeStep, StoreStep, GatewayInv, NotifierInv, AmountsInv
<1>2. CASE CheckoutPart
  BY <1>1, <1>2, SubmitNumberStep, PlainNumberStep DEF CheckoutPart, SubmitStep
<1> QED  BY <1>2, BesideNumberStep

(* The count of CheckoutProofs in the whole gateway.                       *)
LEMMA GatewayOrdersInvStep ==
  ASSUME IsFiniteSet(Worker), NEW n \in Nat
  PROVE  /\ GatewayInit => OrdersAtMost(n)
         /\ GatewayInv /\ [GatewayNext]_gvars
            /\ CreateAtMost(n)' /\ OrdersAtMost(n) => OrdersAtMost(n)'
<1>1. GatewayInit => OrdersAtMost(n)
  BY OrdersInvStep DEF GatewayInit
<1>2. GatewayInv /\ [GatewayNext]_gvars /\ CreateAtMost(n)' /\ OrdersAtMost(n)
      => OrdersAtMost(n)'
  BY GatewayNumberStep, NumberKeeps
<1> QED  BY <1>1, <1>2

(* Callbacks, refunds, restarts and administrators do not make a second      *)
(* order of a number either: while no two submits of it are between the      *)
(* lookup and the INSERT at once, it stands for one (web.rs:160-183).       *)
THEOREM GatewayUniqueUnlessRaced ==
  ASSUME IsFiniteSet(Worker)
  PROVE  GatewaySpec /\ []OneCreates => []UniqueOrder
<1>1. GatewayInit => OrdersAtMost(1)
  BY GatewayOrdersInvStep
<1>2. GatewayInv /\ [GatewayNext]_gvars /\ OneCreates' /\ OrdersAtMost(1)
      => OrdersAtMost(1)'
  BY GatewayOrdersInvStep DEF OneCreates
<1>3. OrdersAtMost(1) => UniqueOrder
  BY OrdersCounted DEF UniqueOrder
<1> QED  BY <1>1, <1>2, <1>3, GatewayInvariant, PTL DEF GatewaySpec

-----------------------------------------------------------------------------
(* Positive answers to providers, as long as no statement fails.           *)

(* A statement that failed stays counted.                                  *)
LEMMA FaultsStayCounted ==
  ASSUME GatewayInv, [GatewayNext]_gvars, faults' = 0
  PROVE  faults = 0 /\ ~ Fault
<1>1. faults \in Nat
  BY StoreAssumption DEF GatewayInv, NotifierInv, StoreInv, BesideOK
<1>2. CASE CheckoutPart
  <2>1. UNCHANGED faults \/ Fault
    BY <1>2 DEF CheckoutPart, SubmitBegin, SubmitStep, SubmitFind, SubmitCreate,
                SubmitFails, SubmitRoute, SubmitSetChannel, SubmitDispatch,
                AlipayWappay, BuyerPays, ExpireTask, OrderTimePasses, storeVars,
                counters
  <2> QED  BY <1>1, <2>1 DEF Fault
<1>3. CASE NotifierPart \/ AdminPart
  <2>1. UNCHANGED faults \/ Fault
    BY <1>3 DEF NotifierPart, NotifyStep, NotifyRead, NotifyReadFails,
                NotifySend, NotifyRecord, RetryTick, RetryNext,
                NotifyTimePasses, AdminPart, OrderUpdate, OrdersDelete,
                MerchantDelete, MerchantUpdate, ChannelUpdate, storeVars,
                counters
  <2> QED  BY <1>1, <2>1 DEF Fault
<1>4. CASE CallbackPart \/ UNCHANGED gvars
  <2>1. UNCHANGED faults \/ Fault
    BY <1>4 DEF CallbackPart, CallbackVerified, CallbackUnverified,
                StripeReturn, RefundRead, HandlerStep,
                CallbackMark, CallbackAnswer, ReturnAnswer, RefundCall,
                RefundRefused, RefundRecord, DropHandler, Restart, gvars,
                storeVars, counters
  <2> QED  BY <1>1, <2>1 DEF Fault
<1> QED  BY <1>2, <1>3, <1>4 DEF GatewayNext

(* The order, if it is there, has a channel.                               *)
Routed(t) == Exists(t) => orders[t].channel # NoChannel

(* No payment is opened for an order that has none.                        *)
RoutesAgree ==
  /\ \A w \in Worker : sub[w].pc = "dispatch" => Routed(sub[w].t)
  /\ \A p \in Payment : payments[p].state # "none" => Routed(payments[p].t)

(* A channel is changed, never taken away.                                 *)
LEMMA StaysRouted ==
  ASSUME KeepsRows, NEW t \in TradeNo, orders[t].status # Absent, Routed(t)
  PROVE  Routed(t)'
  BY DEF KeepsRows, Routed, Exists

(* A step that brings no submit to the provider and opens no payment, but    *)
(* for an order that has a channel.                                        *)
LEMMA RoutesKeep ==
  ASSUME GatewayInv, RoutesAgree, KeepsRows,
         \A w \in Worker : sub'[w].pc = "dispatch"
           => sub'[w] = sub[w] \/ \E t : sub'[w].t = t /\ Routed(t)',
         \A p \in Payment : payments'[p].state # "none"
           => \/ payments[p].state # "none" /\ payments'[p].t = payments[p].t
              \/ \E t : payments'[p].t = t /\ Routed(t)'
  PROVE  RoutesAgree'
<1>1. /\ AmountsOK /\ SubmitsAgree /\ PaymentsAgree
      /\ sub \in [Worker -> GoodSubmit] /\ payments \in [Payment -> GoodPayment]
  BY DEF GatewayInv, AmountsOK
<1>2. ASSUME NEW w \in Worker, sub'[w].pc = "dispatch"
      PROVE  Routed(sub[w].t)'
  <2>1. CASE \E t : sub'[w].t = t /\ Routed(t)'
    BY <2>1 DEF Routed, Exists
  <2>2. CASE sub'[w] = sub[w]
    <3>1. PICK t \in TradeNo : sub[w].t = t
      BY <1>1, <1>2, <2>2 DEF GoodSubmit
    <3>2. orders[t].status # Absent /\ Routed(t)
      BY <1>1, <1>2, <2>2, <3>1 DEF SubmitsAgree, Agrees, RoutesAgree
    <3>3. Routed(t)'
      BY <3>2, StaysRouted
    <3> QED  BY <2>2, <3>1, <3>3 DEF Routed, Exists
  <2> QED  BY <1>2, <2>1, <2>2
<1>3. ASSUME NEW p \in Payment, payments'[p].state # "none"
      PROVE  Routed(payments[p].t)'
  <2>1. CASE \E t : payments'[p].t = t /\ Routed(t)'
    BY <2>1 DEF Routed, Exists
  <2>2. CASE payments[p].state # "none" /\ payments'[p].t = payments[p].t
    <3>1. PICK t \in TradeNo : payments[p].t = t
      BY <1>1, <2>2 DEF GoodPayment
    <3>2. orders[t].status # Absent /\ Routed(t)
      BY <1>1, <2>2, <3>1 DEF PaymentsAgree, Agrees, RoutesAgree
    <3>3. Routed(t)'
      BY <3>2, StaysRouted
    <3> QED  BY <2>2, <3>1, <3>3 DEF Routed, Exists
  <2> QED  BY <1>3, <2>1, <2>2
<1> QED  BY <1>2, <1>3 DEF RoutesAgree

(* set_channel gives the order the channel it is dispatched to (web.rs:221). *)
LEMMA SetChannelRoutes ==
  ASSUME GatewayInv, NEW w \in Worker, SubmitSetChannel(w), ~ Fault
  PROVE  \E t \in TradeNo : sub[w].t = t /\ Routed(t)'
<1>1. PICK t \in TradeNo, c \in Channel : sub[w].t = t /\ sub[w].c = c
  BY DEF SubmitSetChannel, Submitting, GatewayInv, AmountsOK, GoodSubmit
<1>2. SetChannel(t, c)
  BY <1>1 DEF SubmitSetChannel
<1>3. orders \in [TradeNo -> Row] /\ c # NoChannel
  BY StoreAssumption
  DEF GatewayInv, NotifierInv, StoreInv, RowsInv, RowsOK, NoChannel
<1>4. Routed(t)'
  BY <1>2, <1>3 DEF SetChannel, Routed, Exists, Row
<1> QED  BY <1>1, <1>4

(* Every step whose statements succeed.                                    *)
LEMMA RoutesStep ==
  ASSUME GatewayInv, RoutesAgree, [GatewayNext]_gvars, ~ Fault
  PROVE  RoutesAgree'
<1>1. KeepsRows /\ AmountsOK
  BY GatewayStep DEF SafeStep, StoreStep, GatewayInv
<1>2. ASSUME NEW t, NEW c, NEW f, OpenPayment(t, c, f), Routed(t)',
             \A w \in Worker : sub'[w].pc = "dispatch" => sub'[w] = sub[w]
      PROVE  RoutesAgree'
  <2>1. \A p \in Payment : payments'[p] = payments[p] \/ payments'[p].t = t
    BY <1>1, <1>2 DEF OpenPayment, AmountsOK
  <2> QED  BY <1>1, <1>2, <2>1, RoutesKeep
<1>3. CASE \E w \in Worker : SubmitSetChannel(w)
  <2>1. PICK w \in Worker : SubmitSetChannel(w)
    BY <1>3
  <2>2. PICK t \in TradeNo : sub[w].t = t /\ Routed(t)'
    BY <2>1, SetChannelRoutes
  <2>3. sub' = [sub EXCEPT ![w].pc = "dispatch"] /\ UNCHANGED payments
    BY <2>1 DEF SubmitSetChannel
  <2>4. /\ sub'[w].t = t
        /\ \A v \in Worker \ {w} : sub'[v] = sub[v]
    BY <1>1, <2>2, <2>3 DEF AmountsOK, GoodSubmit, Submit
  <2> QED  BY <1>1, <2>2, <2>3, <2>4, RoutesKeep
<1>4. CASE \E w \in Worker : SubmitDispatch(w)
  <2>1. PICK w, t, c, f :
          /\ w \in Worker /\ sub[w].pc = "dispatch" /\ sub[w].t = t
          /\ OpenPayment(t, c, f) \/ UNCHANGED payments
          /\ SubmitReturns(w) /\ UNCHANGED storeVars
    BY <1>4 DEF SubmitDispatch, Submitting
  <2>2. Routed(t)'
    BY <2>1 DEF RoutesAgree, Routed, Exists, storeVars, tables
  <2>3. \A v \in Worker : sub'[v].pc = "dispatch" => sub'[v] = sub[v]
    BY <1>1, <2>1 DEF SubmitReturns, NoSubmit, AmountsOK
  <2> QED  BY <1>1, <1>2, <2>1, <2>2, <2>3, RoutesKeep
<1>5. CASE \E t \in TradeNo : AlipayWappay(t)
  <2>1. PICK t, c, f :
          /\ t \in TradeNo /\ orders[t].channel \in Channel
          /\ OpenPayment(t, c, f) /\ UNCHANGED <<storeVars, sub>>
    BY <1>5 DEF AlipayWappay
  <2>2. Routed(t)'
    BY <2>1, StoreAssumption DEF Routed, NoChannel, storeVars, tables
  <2> QED  BY <1>2, <2>1, <2>2
<1>6. CASE \E p \in Payment : BuyerPays(p)
  <2>1. PICK p \in Payment : BuyerPays(p)
    BY <1>6
  <2>2. /\ payments[p].state = "open" /\ UNCHANGED sub
        /\ payments'[p].t = payments[p].t
        /\ \A q \in Payment \ {p} : payments'[q] = payments[q]
    BY <1>1, <2>1 DEF BuyerPays, AmountsOK, GoodPayment, PaymentState
  <2> QED  BY <1>1, <2>2, RoutesKeep
<1>7. CASE \E w \in Worker : RefundCall(w)
  <2>1. PICK p \in Payment :
          /\ payments' = [payments EXCEPT ![p].state = "refunded"]
          /\ payments[p].state # "none" /\ UNCHANGED sub
    BY <1>7 DEF RefundCall, Refundable, Opened
  <2> QED  BY <1>1, <2>1, PaymentMoves, RoutesKeep
<1>8. CASE \/ \E w \in Worker, m \in Merchant, o \in OutTradeNo, f \in Fen,
                y \in PayType : SubmitBegin(w, m, o, f, y)
           \/ \E w \in Worker : \/ SubmitFind(w) \/ SubmitCreate(w)
                                 \/ SubmitFails(w) \/ SubmitRoute(w)
                                 \/ DropHandler(w)
           \/ Restart
  <2>1. UNCHANGED payments
    BY <1>8 DEF SubmitBegin, SubmitFind, SubmitCreate, SubmitFails, SubmitRoute,
                DropHandler, Restart
  <2>2. CASE Restart
    BY <1>1, <2>1, <2>2, RoutesKeep DEF Restart, NoSubmit
  <2>3. CASE \E w \in Worker : SubmitReturns(w)
    BY <1>1, <2>1, <2>3, RoutesKeep DEF SubmitReturns, NoSubmit, AmountsOK
  <2>4. CASE \E w \in Worker, m \in Merchant, o \in OutTradeNo, f \in Fen,
                y \in PayType : SubmitBegin(w, m, o, f, y)
    BY <1>1, <2>1, <2>4, RoutesKeep DEF SubmitBegin, NoSubmit, AmountsOK
  <2>5. CASE ~ \E w \in Worker : SubmitReturns(w)
    <3>1. CASE \E w \in Worker : SubmitFind(w) \/ SubmitCreate(w)
      BY <1>1, <2>1, <2>5, <3>1, RoutesKeep
      DEF SubmitFind, SubmitCreate, AmountsOK, GoodSubmit, Submit
    <3>2. CASE \E w \in Worker : SubmitRoute(w)
      BY <1>1, <2>1, <2>5, <3>2, RoutesKeep
      DEF SubmitRoute, AmountsOK, GoodSubmit, Submit
    <3> QED
      BY <1>8, <2>2, <2>4, <2>5, <3>1, <3>2 DEF SubmitFails, DropHandler
  <2> QED  BY <2>3, <2>5
<1>9. CASE UNCHANGED checkoutVars
  BY <1>1, <1>9, RoutesKeep DEF checkoutVars
<1>10. CASE CheckoutPart
  <2>1. CASE ExpireTask \/ OrderTimePasses
    BY <1>9, <2>1 DEF ExpireTask, OrderTimePasses
  <2> QED
    BY <1>3, <1>4, <1>5, <1>6, <1>8, <1>10, <2>1 DEF CheckoutPart, SubmitStep
<1>11. CASE NotifierPart \/ AdminPart \/ UNCHANGED gvars
  BY <1>9, <1>11 DEF NotifierPart, AdminPart, gvars
<1>12. CASE CallbackPart
  BY <1>7, <1>8, <1>9, <1>12
  DEF CallbackPart, CallbackVerified, CallbackUnverified, StripeReturn,
      RefundRead, HandlerStep, CallbackMark, CallbackAnswer,
      ReturnAnswer, RefundRefused, RefundRecord
<1> QED  BY <1>10, <1>11, <1>12 DEF GatewayNext

(* An order that is recorded as paid, or that an administrator edited.     *)
Recorded(t) == t \in wasPaid \cup edited

(* The channel of a payment's order, if it has one, is one that the handler *)
(* of a payment at c finds: a later submit cannot hide the order from it.   *)
StaysServed(c) ==
  /\ Plugin[c] = "paypal" => Channel = {c}
  /\ Plugin[c] = "stripe" => \A d \in Channel : Plugin[d] = "stripe"

(* A webhook about to be answered, and a payment that was, is recorded.    *)
AcksAgree ==
  /\ \A w \in Worker :
       cb[w].pc = "answer" /\ cb[w].via = "webhook"
       => /\ payments[cb[w].p].state # "none"
          /\ Recorded(payments[cb[w].p].t)
  /\ \A p \in acked :
       /\ payments[p].state # "none"
       /\ StaysServed(payments[p].c) => Recorded(payments[p].t)

(* What is recorded stays, and so do payments.                             *)
LEMMA StaysRecorded ==
  ASSUME SafeStep, NEW p \in Payment, payments[p].state # "none"
  PROVE  /\ payments'[p].state # "none" /\ payments'[p].c = payments[p].c
         /\ Recorded(payments[p].t) => Recorded(payments[p].t)'
<1>1. /\ payments'[p].state # "none" /\ payments'[p].c = payments[p].c
      /\ payments'[p].t = payments[p].t
  BY DEF SafeStep, PaymentsGrow
<1>2. wasPaid \subseteq wasPaid' /\ edited \subseteq edited'
  BY DEF SafeStep, StoreStep, KeepsRows
<1> QED  BY <1>1, <1>2 DEF Recorded

(* A payment's order that is in the table was created for it, and one that   *)
(* is not was deleted by an administrator.                                 *)
LEMMA MissingWasEdited ==
  ASSUME GatewayInv, NEW p \in Payment, payments[p].state # "none",
         ~ Exists(payments[p].t)
  PROVE  payments[p].t \in edited
<1>1. PICK t \in TradeNo : payments[p].t = t
  BY DEF GatewayInv, AmountsOK, GoodPayment
<1>2. orders[t].status # Absent /\ ~ Exists(t)
  BY <1>1 DEF GatewayInv, AmountsOK, PaymentsAgree, Agrees
<1>3. orders[t] \in Row
  BY DEF GatewayInv, NotifierInv, StoreInv, RowsInv, RowsOK
<1>4. orders[t].status = Gone
  BY <1>2, <1>3 DEF Row, Exists, Gone, Absent, Unpaid, Paid, Closed, Refunded
<1> QED  BY <1>1, <1>4 DEF GatewayInv, RowsPlaced

(* A step that answers no provider, or about a payment that is recorded.   *)
LEMMA AcksKeep ==
  ASSUME GatewayInv, AcksAgree, SafeStep,
         \A w \in Worker : cb'[w].pc = "answer" /\ cb'[w].via = "webhook"
           => \/ cb'[w] = cb[w]
              \/ \E p \in Payment : /\ cb'[w].p = p
                                    /\ payments[p].state # "none"
                                    /\ Recorded(payments[p].t)',
         \A p \in acked' \ acked :
           /\ payments[p].state # "none"
           /\ StaysServed(payments[p].c) => Recorded(payments[p].t)
  PROVE  AcksAgree'
<1>1. /\ cb \in [Worker -> GoodCallback] /\ acked \subseteq Payment
      /\ acked' \subseteq Payment /\ PaymentsGrow
  BY DEF GatewayInv, CallbacksOK, SafeStep
<1>2. ASSUME NEW w \in Worker, cb'[w].pc = "answer", cb'[w].via = "webhook"
      PROVE  payments'[cb'[w].p].state # "none" /\ Recorded(payments[cb[w].p].t)'
  <2>1. CASE cb'[w] = cb[w]
    <3>1. PICK p \in Payment : cb[w].p = p
      BY <1>1, <1>2, <2>1 DEF GoodCallback
    <3>2. payments[p].state # "none" /\ Recorded(payments[p].t)
      BY <1>2, <2>1, <3>1 DEF AcksAgree
    <3>3. payments'[p].state # "none" /\ Recorded(payments[p].t)'
      BY <3>2, StaysRecorded
    <3> QED  BY <2>1, <3>1, <3>3 DEF Recorded
  <2>2. CASE \E p \in Payment : /\ cb'[w].p = p
                                /\ payments[p].state # "none"
                                /\ Recorded(payments[p].t)'
    BY <1>1, <2>2 DEF PaymentsGrow, Recorded
  <2> QED  BY <1>2, <2>1, <2>2
<1>3. ASSUME NEW p \in acked'
      PROVE  /\ payments'[p].state # "none"
             /\ StaysServed(payments[p].c)' => Recorded(payments[p].t)'
  <2>1. /\ p \in Payment /\ payments[p].state # "none"
        /\ StaysServed(payments[p].c) => Recorded(payments[p].t)
    BY <1>1, <1>3 DEF AcksAgree
  <2>2. /\ payments'[p].state # "none" /\ payments'[p].c = payments[p].c
        /\ Recorded(payments[p].t) => Recorded(payments[p].t)'
    BY <2>1, StaysRecorded
  <2> QED  BY <2>1, <2>2 DEF StaysServed
<1> QED  BY <1>2, <1>3 DEF AcksAgree

(* mark_paid leaves the order of the payment recorded (web.rs:505).        *)
LEMMA MarkRecords ==
  ASSUME GatewayInv, NEW w \in Worker, CallbackMark(w), ~ Fault,
         cb[w].via = "webhook"
  PROVE  \E p \in Payment : /\ cb[w].p = p /\ payments[p].state # "none"
                            /\ Recorded(payments[p].t)'
<1>1. PICK t \in TradeNo, p \in Payment :
        /\ cb[w].t = t /\ cb[w].p = p /\ payments[p].t = t
        /\ payments[p].state # "none"
  BY DEF CallbackMark, GatewayInv, CallbacksOK, CallbacksAgree, GoodCallback,
         MayServe, Belongs, Reported
<1>2. PICK api : MarkPaid(t, api)
  BY <1>1 DEF CallbackMark
<1>3. UNCHANGED <<payments, edited>>
  BY DEF CallbackMark, checkoutVars
<1>4. CASE BecomesPaid(t)
  BY <1>1, <1>2, <1>3, <1>4 DEF MarkPaid, Recorded
<1>5. CASE ~ Exists(t)
  <2>1. t \in edited
    BY <1>1, <1>5, MissingWasEdited
  <2> QED  BY <1>1, <1>3, <2>1 DEF Recorded
<1>6. CASE orders[t].status = Paid /\ ~ BecomesPaid(t)
  <2>1. t \in wasPaid /\ UNCHANGED wasPaid
    BY <1>2, <1>6 DEF GatewayInv, NotifierInv, StoreInv, RowsInv,
                      PaidIsRecorded, MarkPaid, rows
  <2> QED  BY <1>1, <1>3, <2>1 DEF Recorded
<1> QED  BY <1>4, <1>5, <1>6 DEF BecomesPaid

(* A PayPal or Stripe handler answers 200 to what it does not find only if   *)
(* the order went to another channel or was deleted (web.rs:911-922,        *)
(* 992-1003).                                                              *)
LEMMA UnverifiedRecorded ==
  ASSUME GatewayInv, RoutesAgree, NEW p \in Payment, CallbackUnverified(p),
         ~ Fault
  PROVE  /\ payments[p].state # "none"
         /\ StaysServed(payments[p].c) => Recorded(payments[p].t)
<1>1. payments[p].state # "none"
  BY DEF CallbackUnverified, Reported
<1>2. PICK t \in TradeNo, c \in Channel : payments[p].t = t /\ payments[p].c = c
  BY <1>1 DEF GatewayInv, AmountsOK, GoodPayment
<1>3. ASSUME StaysServed(c), Exists(t) PROVE FALSE
  <2>1. orders[t].channel \in Channel
    BY <1>1, <1>2, <1>3 DEF RoutesAgree, Routed, GatewayInv, NotifierInv,
                            StoreInv, RowsInv, RowsOK, Row
  <2>2. CASE Plugin[c] = "paypal"
    <3>1. orders[t].channel = c /\ ~ OnePerOrder(c)
      BY <1>3, <2>1, <2>2 DEF StaysServed, OnePerOrder
    <3>2. Verified(p)
      BY <1>2, <1>3, <3>1 DEF Verified
    <3> QED  BY <1>2, <2>2, <3>2 DEF CallbackUnverified
  <2>3. CASE Plugin[c] = "stripe"
    <3>1. ChannelFound(p)
      BY <1>2, <1>3, <2>1, <2>3, StoreAssumption
      DEF StaysServed, ChannelFound, NoChannel
    <3> QED  BY <1>2, <2>3, <3>1 DEF CallbackUnverified
  <2> QED  BY <1>2, <2>2, <2>3 DEF CallbackUnverified
<1>4. StaysServed(c) => t \in edited
  BY <1>1, <1>2, <1>3, MissingWasEdited
<1> QED  BY <1>1, <1>2, <1>4 DEF Recorded

(* Every step whose statements succeed.                                    *)
LEMMA AcksStep ==
  ASSUME GatewayInv, RoutesAgree, AcksAgree, [GatewayNext]_gvars, ~ Fault
  PROVE  AcksAgree'
<1>1. /\ SafeStep /\ acked \subseteq Payment
      /\ cb \in [Worker -> GoodCallback]
      /\ \A w \in Worker : cb[w] \in Callback
  BY GatewayStep DEF GatewayInv, CallbacksOK, GoodCallback
<1>2. CASE UNCHANGED <<cb, acked>>
  BY <1>1, <1>2, AcksKeep
<1>3. CASE \/ \E w \in Worker, p \in Payment : CallbackVerified(w, p)
           \/ \E w \in Worker, t \in TradeNo, p \in Payment : StripeReturn(w, t, p)
  <2>1. /\ \E w \in Worker : \E call :
             /\ call.pc = "answer" => call.via # "webhook"
             /\ cb' = [cb EXCEPT ![w] = call]
        /\ UNCHANGED acked
    BY <1>3 DEF CallbackVerified, StripeReturn, Serves
  <2>2. \A v \in Worker : cb'[v].pc = "answer" /\ cb'[v].via = "webhook"
          => cb'[v] = cb[v]
    BY <1>1, <2>1
  <2> QED  BY <1>1, <2>1, <2>2, AcksKeep
<1>4. CASE \E p \in Payment : CallbackUnverified(p)
  <2>1. PICK p \in Payment : CallbackUnverified(p)
    BY <1>4
  <2>2. acked' = acked \cup {p} /\ UNCHANGED cb
    BY <2>1 DEF CallbackUnverified
  <2> QED  BY <1>1, <2>1, <2>2, UnverifiedRecorded, AcksKeep
<1>5. CASE \E w \in Worker, t \in TradeNo : RefundRead(w, t)
  BY <1>1, <1>5, AcksKeep DEF RefundRead
<1>6. CASE \E w \in Worker : CallbackMark(w)
  <2>1. PICK w \in Worker : CallbackMark(w)
    BY <1>6
  <2>2. cb' = [cb EXCEPT ![w].pc = "answer"] /\ UNCHANGED acked
    BY <2>1 DEF CallbackMark
  <2>3. /\ cb'[w].p = cb[w].p /\ cb'[w].via = cb[w].via
        /\ \A v \in Worker \ {w} : cb'[v] = cb[v]
    BY <1>1, <2>2 DEF Callback
  <2>4. CASE cb[w].via = "webhook"
    <3>1. PICK p \in Payment : /\ cb[w].p = p /\ payments[p].state # "none"
                               /\ Recorded(payments[p].t)'
      BY <2>1, <2>4, MarkRecords
    <3> QED  BY <1>1, <2>2, <2>3, <3>1, AcksKeep
  <2>5. CASE cb[w].via # "webhook"
    BY <1>1, <2>2, <2>3, <2>5, AcksKeep
  <2> QED  BY <2>4, <2>5
<1>7. CASE \E w \in Worker : CallbackAnswer(w)
  <2>1. PICK w \in Worker : CallbackAnswer(w)
    BY <1>7
  <2>2. PICK p \in Payment : cb[w].p = p /\ payments[p].state # "none"
                             /\ Recorded(payments[p].t)
    BY <1>1, <2>1 DEF CallbackAnswer, AcksAgree, GoodCallback
  <2>3. acked' = acked \cup {p} /\ HandlerReturns(w)
    BY <2>1, <2>2 DEF CallbackAnswer
  <2> QED
    BY <1>1, <2>2, <2>3, AcksKeep DEF HandlerReturns, NoCallback
<1>8. CASE \E w \in Worker : \/ ReturnAnswer(w) \/ RefundCall(w)
                             \/ RefundRefused(w) \/ RefundRecord(w)
                             \/ DropHandler(w)
  <2>1. /\ UNCHANGED acked
        /\ \E w \in Worker : HandlerReturns(w)
                             \/ cb' = [cb EXCEPT ![w].pc = "record"]
    BY <1>8 DEF ReturnAnswer, RefundCall, RefundRefused, RefundRecord,
                DropHandler
  <2>2. \A v \in Worker : cb'[v].pc = "answer" => cb'[v] = cb[v]
    BY <1>1, <2>1 DEF HandlerReturns, NoCallback, Callback
  <2> QED  BY <1>1, <2>1, <2>2, AcksKeep
<1>9. CASE Restart
  BY <1>1, <1>9, AcksKeep DEF Restart, NoCallback
<1> QED
  BY <1>2, <1>3, <1>4, <1>5, <1>6, <1>7, <1>8, <1>9
  DEF GatewayNext, CheckoutPart, NotifierPart, AdminPart, CallbackPart,
      HandlerStep, gvars, gatewayVars

(* The invariant of a gateway whose statements have all succeeded.         *)
LEMMA AcksInvariant == GatewaySpec => [](faults = 0 => RoutesAgree /\ AcksAgree)
<1>1. GatewayInit => RoutesAgree /\ AcksAgree
  BY DEF GatewayInit, CheckoutInit, CheckoutIdle, NoSubmit, NoPayment,
         NoCallback, RoutesAgree, AcksAgree
<1>2. GatewayInv /\ (faults = 0 => RoutesAgree /\ AcksAgree)
      /\ [GatewayNext]_gvars
      => (faults = 0 => RoutesAgree /\ AcksAgree)'
  BY FaultsStayCounted, RoutesStep, AcksStep
<1> QED  BY <1>1, <1>2, GatewayInvariant, PTL DEF GatewaySpec

(* As long as no SQL statement fails, a provider that was told all is well   *)
(* need not call again: the order is recorded, unless its payment was at     *)
(* PayPal or Stripe and another submit could send the order elsewhere        *)
(* (web.rs:221-224, 477, 505-514).                                         *)
THEOREM AckedUnlessRerouted ==
  GatewaySpec => [](faults = 0 =>
    \A p \in acked : StaysServed(payments[p].c) => Recorded(payments[p].t))
<1>1. (faults = 0 => RoutesAgree /\ AcksAgree)
      => (faults = 0 => \A p \in acked :
                          StaysServed(payments[p].c) => Recorded(payments[p].t))
  BY DEF AcksAgree
<1> QED  BY <1>1, AcksInvariant, PTL

(* Where no order can be sent out of its handler's sight, a positive answer  *)
(* means that the payment is recorded, until a statement fails.            *)
THEOREM AckedStaysRecorded ==
  ASSUME \A c \in Channel : StaysServed(c)
  PROVE  GatewaySpec => [](faults = 0 => AckedIsRecorded)
<1>1. ASSUME GatewayInv, faults = 0 => RoutesAgree /\ AcksAgree
      PROVE  faults = 0 => AckedIsRecorded
  <2>1. \A p \in acked : payments[p].state # "none" => payments[p].c \in Channel
    BY <1>1 DEF GatewayInv, CallbacksOK, AmountsOK, GoodPayment
  <2> QED  BY <1>1, <2>1 DEF AcksAgree, AckedIsRecorded, Recorded
<1> QED  BY <1>1, GatewayInvariant, AcksInvariant, PTL
=============================================================================
