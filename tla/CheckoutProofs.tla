--------------------------- MODULE CheckoutProofs ---------------------------
(***************************************************************************)
(* Proofs about Checkout, for any number of orders, merchants, handlers and *)
(* payments and any bounds: what a buyer is asked to pay at a provider is   *)
(* what the order is for.  The inductive invariant follows the agreement    *)
(* from the moment submit finds or creates the order (web.rs:160-183) to    *)
(* the payment it opens.                                                   *)
(***************************************************************************)
EXTENDS Checkout, StoreProofs, FiniteSetTheorems, WellFoundedInduction

(* What submit holds at each of its steps.                                 *)
GoodSubmit ==
  {s \in Submit :
     /\ s.pc # "idle" => /\ s.uid \in Merchant
                         /\ s.out \in OutTradeNo
                         /\ s.fen \in Fen
     /\ s.pc \in {"route", "set", "dispatch"} => s.t \in TradeNo
     /\ s.pc \in {"set", "dispatch"} => s.c \in Channel}

GoodPayment ==
  {q \in PaymentState :
     q.state # "none" => q.t \in TradeNo /\ q.c \in Channel /\ q.fen \in Fen}

(* Order t was created, and is for f as long as it is in the table.        *)
Agrees(t, f) ==
  /\ orders[t].status # Absent
  /\ Exists(t) => orders[t].money = f

SubmitsAgree ==
  \A w \in Worker : sub[w].pc \in {"route", "set", "dispatch"}
                    => Agrees(sub[w].t, sub[w].fen)

PaymentsAgree ==
  \A p \in Payment : payments[p].state # "none"
                     => Agrees(payments[p].t, payments[p].fen)

AmountsOK ==
  /\ sub \in [Worker -> GoodSubmit]
  /\ payments \in [Payment -> GoodPayment]
  /\ SubmitsAgree
  /\ PaymentsAgree

AmountsInv == StoreInv /\ RowsPlaced /\ AmountsOK

(* The invariant carries the types.                                        *)
LEMMA AmountsInvTypes == AmountsInv => CheckoutTypeOK
  BY StoreInvTypes
  DEF AmountsInv, AmountsOK, CheckoutTypeOK, GoodSubmit, GoodPayment

(* The invariant holds of an idle checkout, whatever is in the tables.     *)
LEMMA CheckoutIdleOK == CheckoutIdle => AmountsOK
<1> SUFFICES ASSUME CheckoutIdle PROVE AmountsOK
  OBVIOUS
<1>1. NoSubmit \in GoodSubmit /\ NoSubmit.pc = "idle"
  BY DEF NoSubmit, GoodSubmit, Submit
<1>2. NoPayment \in GoodPayment /\ NoPayment.state = "none"
  BY DEF NoPayment, GoodPayment, PaymentState
<1>3. /\ sub \in [Worker -> GoodSubmit]
      /\ \A w \in Worker : sub[w].pc = "idle"
  BY <1>1 DEF CheckoutIdle
<1>4. /\ payments \in [Payment -> GoodPayment]
      /\ \A p \in Payment : payments[p].state = "none"
  BY <1>2 DEF CheckoutIdle
<1> QED  BY <1>3, <1>4 DEF AmountsOK, SubmitsAgree, PaymentsAgree

-----------------------------------------------------------------------------
(* What a step does to submits and payments.                               *)

(* A number is handed out once and an order's amount is never written       *)
(* again, so a submit that goes on with what it agreed on, or ends, agrees. *)
LEMMA SubmitsKeep ==
  ASSUME AmountsOK, KeepsRows, sub' \in [Worker -> GoodSubmit],
         \A w \in Worker :
           sub'[w].pc \in {"route", "set", "dispatch"}
           => /\ sub[w].pc \in {"route", "set", "dispatch"}
              /\ sub'[w].t = sub[w].t /\ sub'[w].fen = sub[w].fen
  PROVE  SubmitsAgree'
<1> SUFFICES ASSUME NEW w \in Worker,
                    sub'[w].pc \in {"route", "set", "dispatch"}
             PROVE  Agrees(sub[w].t, sub[w].fen)'
  BY DEF SubmitsAgree
<1>1. sub[w].pc \in {"route", "set", "dispatch"} /\ sub[w].t \in TradeNo
  BY DEF AmountsOK, GoodSubmit
<1>2. Agrees(sub[w].t, sub[w].fen)
  BY <1>1 DEF AmountsOK, SubmitsAgree
<1> QED
  BY <1>1, <1>2 DEF KeepsRows, Agrees, Exists

(* Payments keep what they are for when only their states change.          *)
LEMMA PaymentsKeep ==
  ASSUME AmountsOK, KeepsRows, payments' \in [Payment -> GoodPayment],
         \A p \in Payment :
           payments'[p].state # "none"
           => /\ payments[p].state # "none"
              /\ payments'[p].t = payments[p].t
              /\ payments'[p].fen = payments[p].fen
  PROVE  PaymentsAgree'
<1> SUFFICES ASSUME NEW p \in Payment, payments'[p].state # "none"
             PROVE  Agrees(payments[p].t, payments[p].fen)'
  BY DEF PaymentsAgree
<1>1. payments[p].state # "none" /\ payments[p].t \in TradeNo
  BY DEF AmountsOK, GoodPayment
<1>2. Agrees(payments[p].t, payments[p].fen)
  BY <1>1 DEF AmountsOK, PaymentsAgree
<1> QED
  BY <1>1, <1>2 DEF KeepsRows, Agrees, Exists

(* Steps of everything else next to checkout.                              *)
LEMMA AmountsKeep ==
  ASSUME AmountsOK, KeepsRows, UNCHANGED checkoutVars
  PROVE  AmountsOK'
<1>1. /\ sub' \in [Worker -> GoodSubmit]
      /\ payments' \in [Payment -> GoodPayment]
  BY DEF AmountsOK, checkoutVars
<1>2. SubmitsAgree'
  BY <1>1, SubmitsKeep DEF checkoutVars
<1>3. PaymentsAgree'
  BY <1>1, PaymentsKeep DEF checkoutVars
<1> QED  BY <1>1, <1>2, <1>3 DEF AmountsOK

(* A step of one submit.                                                   *)
LEMMA OneSubmit ==
  ASSUME AmountsOK, KeepsRows, NEW w \in Worker, NEW s \in GoodSubmit,
         sub' = [sub EXCEPT ![w] = s],
         s.pc \in {"route", "set", "dispatch"} => Agrees(s.t, s.fen)'
  PROVE  sub' \in [Worker -> GoodSubmit] /\ SubmitsAgree'
<1>1. sub' \in [Worker -> GoodSubmit] /\ sub'[w] = s
  BY DEF AmountsOK
<1>2. ASSUME NEW v \in Worker, v # w,
             sub'[v].pc \in {"route", "set", "dispatch"}
      PROVE  Agrees(sub[v].t, sub[v].fen)'
  <2>1. sub'[v] = sub[v]
    BY <1>2 DEF AmountsOK
  <2>2. sub[v].t \in TradeNo /\ Agrees(sub[v].t, sub[v].fen)
    BY <1>2, <2>1 DEF AmountsOK, GoodSubmit, SubmitsAgree
  <2> QED  BY <2>1, <2>2 DEF KeepsRows, Agrees, Exists
<1>3. Agrees(sub[w].t, sub[w].fen)' \/ sub'[w].pc \notin {"route", "set", "dispatch"}
  BY <1>1 DEF Agrees, Exists
<1> QED  BY <1>1, <1>2, <1>3 DEF SubmitsAgree

(* The lowest channel of a type that is switched on is one of the table's  *)
(* (store.rs:93, ORDER BY id LIMIT 1).                                     *)
LEMMA FirstRouteOK ==
  ASSUME StoreInv, NEW y, Routes(y) # {}
  PROVE  FirstRoute(y) \in Channel
<1>1. Routes(y) \subseteq Channel /\ Routes(y) \subseteq Nat
  BY StoreAssumption DEF Routes, StoreInv, BesideOK
<1> DEFINE Less == {ss \in Nat \X Nat : ss[1] < ss[2]}
<1>2. IsWellFoundedOn(Less, Nat)
  BY NatLessThanWellFounded, Zenon DEF OpToRel
<1>3. PICK c \in Routes(y) : \A d \in Routes(y) : ~ (<<d, c>> \in Less)
  BY <1>1, <1>2, WFMin
<1>4. ASSUME NEW d \in Routes(y) PROVE c <= d
  <2>1. c \in Nat /\ d \in Nat /\ <<d, c>> \notin Less
    BY <1>1, <1>3
  <2>2. <<d, c>> \in Nat \X Nat /\ <<d, c>>[1] = d /\ <<d, c>>[2] = c
    BY <2>1
  <2>3. d < c => <<d, c>> \in Less
    BY <2>2, Zenon
  <2> QED  BY <2>1, <2>3
<1>5. FirstRoute(y) \in Routes(y)
  BY <1>4 DEF FirstRoute
<1> QED  BY <1>1, <1>5

-----------------------------------------------------------------------------
(* The steps of submit.                                                    *)

(* A request that passed the checks before the first statement.            *)
LEMMA SubmitBeginStep ==
  ASSUME AmountsInv, NEW w \in Worker, NEW m \in Merchant,
         NEW o \in OutTradeNo, NEW f \in Fen, NEW y \in PayType,
         SubmitBegin(w, m, o, f, y)
  PROVE  StoreStep({}, {}) /\ UNCHANGED storeVars /\ AmountsOK'
<1> DEFINE s == [NoSubmit EXCEPT
                   !.pc = "find", !.uid = m, !.out = o, !.fen = f, !.type = y]
<1>1. s \in GoodSubmit /\ s.pc = "find"
  BY DEF NoSubmit, GoodSubmit, Submit
<1>2. sub' = [sub EXCEPT ![w] = s] /\ UNCHANGED <<storeVars, payments>>
  BY DEF SubmitBegin
<1> HIDE DEF s
<1>3. StoreStep({}, {})
  BY <1>2, QuietStep DEF AmountsInv, storeVars, counters
<1>4. sub' \in [Worker -> GoodSubmit] /\ SubmitsAgree'
  BY <1>1, <1>2, <1>3, OneSubmit DEF AmountsInv, StoreStep
<1>5. payments' \in [Payment -> GoodPayment] /\ PaymentsAgree'
  BY <1>2, <1>3, PaymentsKeep DEF AmountsInv, AmountsOK, StoreStep
<1> QED  BY <1>2, <1>3, <1>4, <1>5 DEF AmountsOK

(* The steps of submit between its statements: the lookup compares the      *)
(* amounts (web.rs:170), the others pass on what was agreed.               *)
LEMMA SubmitPlainStep ==
  ASSUME AmountsInv, NEW w \in Worker,
         SubmitFind(w) \/ SubmitFails(w) \/ SubmitRoute(w) \/ DropSubmit(w)
  PROVE  StoreStep({}, {}) /\ UNCHANGED <<orders, wasPaid, edited>> /\ AmountsOK'
<1>1. /\ UNCHANGED <<tables, history, payments, edits>>
      /\ UNCHANGED faults \/ Fault
      /\ UNCHANGED losses \/ Loss
  BY DEF SubmitFind, SubmitFails, SubmitRoute, DropSubmit, storeVars, counters
<1>2. StoreStep({}, {})
  BY <1>1, QuietStep DEF AmountsInv
<1>3. sub[w] \in GoodSubmit
  BY DEF AmountsInv, AmountsOK
<1>4. PICK s : /\ s \in GoodSubmit /\ sub' = [sub EXCEPT ![w] = s]
               /\ s.pc \in {"route", "set", "dispatch"} => Agrees(s.t, s.fen)
  <2>1. NoSubmit \in GoodSubmit /\ NoSubmit.pc = "idle"
    BY DEF NoSubmit, GoodSubmit, Submit
  <2>2. CASE SubmitReturns(w)
    BY <2>1, <2>2 DEF SubmitReturns
  <2>3. CASE sub[w].pc = "find" /\ sub' = [sub EXCEPT ![w].pc = "create"]
    <3>1. [sub[w] EXCEPT !.pc = "create"] \in GoodSubmit
      BY <1>3, <2>3 DEF GoodSubmit, Submit
    <3> QED  BY <1>3, <2>3, <3>1 DEF GoodSubmit, Submit
  <2>4. CASE \E t \in ExistingOrders(sub[w].uid, sub[w].out) :
               /\ sub[w].pc = "find"
               /\ orders[t].status = Unpaid /\ orders[t].money = sub[w].fen
               /\ sub' = [sub EXCEPT ![w].pc = "route", ![w].t = t]
    <3>1. PICK t \in TradeNo :
            /\ sub[w].pc = "find"
            /\ orders[t].status = Unpaid /\ orders[t].money = sub[w].fen
            /\ sub' = [sub EXCEPT ![w].pc = "route", ![w].t = t]
      BY <2>4 DEF ExistingOrders
    <3> DEFINE s == [sub[w] EXCEPT !.pc = "route", !.t = t]
    <3>4. sub' = [sub EXCEPT ![w] = s]
      BY <3>1 DEF AmountsInv, AmountsOK
    <3>2. s \in GoodSubmit /\ s.t = t /\ s.fen = sub[w].fen
      BY <1>3, <3>1 DEF GoodSubmit, Submit
    <3>3. Agrees(t, sub[w].fen)
      BY <3>1 DEF Agrees, Unpaid, Absent
    <3> QED  BY <3>1, <3>2, <3>3, <3>4
  <2>5. CASE /\ sub[w].pc = "route" /\ Routes(sub[w].type) # {}
             /\ sub' = [sub EXCEPT ![w].pc = "set",
                                   ![w].c = FirstRoute(sub[w].type)]
    <3> DEFINE c == FirstRoute(sub[w].type)
    <3>1. c \in Channel
      BY <2>5, FirstRouteOK DEF AmountsInv
    <3> HIDE DEF c
    <3> DEFINE s == [sub[w] EXCEPT !.pc = "set", !.c = c]
    <3>2. s \in GoodSubmit /\ s.t = sub[w].t /\ s.fen = sub[w].fen
      BY <1>3, <2>5, <3>1 DEF GoodSubmit, Submit
    <3>3. Agrees(sub[w].t, sub[w].fen)
      BY <2>5 DEF AmountsInv, AmountsOK, SubmitsAgree
    <3>4. sub' = [sub EXCEPT ![w] = s]
      BY <1>3, <2>5 DEF c, GoodSubmit, Submit
    <3> QED  BY <3>2, <3>3, <3>4
  <2> QED
    BY <2>2, <2>3, <2>4, <2>5
    DEF SubmitFind, SubmitFails, SubmitRoute, DropSubmit, Submitting
<1>5. s.pc \in {"route", "set", "dispatch"} => Agrees(s.t, s.fen)'
  BY <1>1, <1>4 DEF Agrees, Exists, tables
<1>6. sub' \in [Worker -> GoodSubmit] /\ SubmitsAgree'
  BY <1>2, <1>4, <1>5, OneSubmit DEF AmountsInv, StoreStep
<1>7. payments' \in [Payment -> GoodPayment] /\ PaymentsAgree'
  BY <1>1, <1>2, PaymentsKeep DEF AmountsInv, AmountsOK, StoreStep
<1> QED  BY <1>1, <1>2, <1>6, <1>7 DEF AmountsOK, tables, history

(* The INSERT writes the amount of the request (store.rs:128), and the      *)
(* submit goes on with the number it took, or loses the answer.            *)
LEMMA SubmitCreateStep ==
  ASSUME AmountsInv, NEW w \in Worker, SubmitCreate(w)
  PROVE  /\ \E t \in TradeNo :
              /\ StoreStep({}, {t})
              /\ orders[t].status = Absent /\ orders'[t].status = Unpaid
              /\ orders'[t].money \in Fen
         /\ UNCHANGED <<wasPaid, edited>> /\ AmountsOK'
<1>1. PICK t \in TradeNo :
        /\ CreateOrder(t, sub[w].uid, sub[w].out, sub[w].fen)
        /\ \/ /\ sub' = [sub EXCEPT ![w].pc = "route", ![w].t = t]
              /\ UNCHANGED faults
           \/ Fault /\ SubmitReturns(w)
  BY DEF SubmitCreate
<1>2. /\ sub[w] \in GoodSubmit /\ sub[w].pc = "create"
      /\ UNCHANGED <<users, enabled, edited, losses, edits, payments>>
  BY DEF SubmitCreate, Submitting, AmountsInv, AmountsOK
<1>3. PICK m \in Merchant, o \in OutTradeNo, f \in Fen :
        sub[w].uid = m /\ sub[w].out = o /\ sub[w].fen = f
  BY <1>2 DEF GoodSubmit
<1>4. /\ RowsInv' /\ KeepsRows /\ StaysBut({}) /\ StandBut({t})
      /\ orders[t].status = Absent /\ orders'[t].status = Unpaid
      /\ orders'[t].money = f /\ UNCHANGED wasPaid
  BY <1>1, <1>3, CreateOrderKeeps DEF AmountsInv, StoreInv
<1>5. StoreStep({}, {t})
  BY <1>1, <1>2, <1>4, StatementStep DEF AmountsInv
<1>6. PICK s : /\ s \in GoodSubmit /\ sub' = [sub EXCEPT ![w] = s]
               /\ s.pc \in {"route", "set", "dispatch"} => s.t = t /\ s.fen = f
  <2>1. CASE SubmitReturns(w)
    <3>1. NoSubmit \in GoodSubmit /\ NoSubmit.pc = "idle"
      BY DEF NoSubmit, GoodSubmit, Submit
    <3> QED  BY <2>1, <3>1 DEF SubmitReturns
  <2>2. CASE sub' = [sub EXCEPT ![w].pc = "route", ![w].t = t]
    <3> DEFINE s == [sub[w] EXCEPT !.pc = "route", !.t = t]
    <3>1. s \in GoodSubmit /\ s.t = t /\ s.fen = f
      BY <1>2, <1>3 DEF GoodSubmit, Submit
    <3>2. sub' = [sub EXCEPT ![w] = s]
      BY <2>2 DEF AmountsInv, AmountsOK
    <3> QED  BY <3>1, <3>2
  <2> QED  BY <1>1, <2>1, <2>2
<1>7. s.pc \in {"route", "set", "dispatch"} => Agrees(s.t, s.fen)'
  BY <1>4, <1>6 DEF Agrees, Unpaid, Absent
<1>8. sub' \in [Worker -> GoodSubmit] /\ SubmitsAgree'
  BY <1>4, <1>6, <1>7, OneSubmit DEF AmountsInv
<1>9. payments' \in [Payment -> GoodPayment] /\ PaymentsAgree'
  BY <1>2, <1>4, PaymentsKeep DEF AmountsInv, AmountsOK
<1> QED  BY <1>2, <1>4, <1>5, <1>8, <1>9 DEF AmountsOK

(* Storing the channel (web.rs:207) changes nothing that was agreed.       *)
LEMMA SubmitSetChannelStep ==
  ASSUME AmountsInv, NEW w \in Worker, SubmitSetChannel(w)
  PROVE  StoreStep({}, {}) /\ UNCHANGED <<wasPaid, edited>> /\ AmountsOK'
<1>1. /\ sub[w] \in GoodSubmit /\ sub[w].pc = "set"
      /\ sub' = [sub EXCEPT ![w].pc = "dispatch"]
      /\ UNCHANGED <<users, enabled, edited, losses, edits, payments>>
      /\ \/ SetChannel(sub[w].t, sub[w].c) /\ UNCHANGED faults
         \/ Fault /\ UNCHANGED rows
  BY DEF SubmitSetChannel, Submitting, AmountsInv, AmountsOK
<1>2. sub[w].t \in TradeNo /\ sub[w].c \in Channel
  BY <1>1 DEF GoodSubmit
<1>3. RowsInv' /\ KeepsRows /\ StaysBut({}) /\ StandBut({})
  BY <1>1, <1>2, SetChannelKeeps, RowsUnchanged DEF AmountsInv, StoreInv
<1>4. StoreStep({}, {})
  BY <1>1, <1>3, StatementStep DEF AmountsInv
<1> DEFINE s == [sub[w] EXCEPT !.pc = "dispatch"]
<1>5. s \in GoodSubmit /\ s.t = sub[w].t /\ s.fen = sub[w].fen
  BY <1>1 DEF GoodSubmit, Submit
<1>6. sub' = [sub EXCEPT ![w] = s]
  BY <1>1
<1> HIDE DEF s
<1>7. sub' \in [Worker -> GoodSubmit]
  BY <1>5, <1>6 DEF AmountsInv, AmountsOK
<1>8. SubmitsAgree'
  BY <1>1, <1>3, <1>5, <1>6, <1>7, SubmitsKeep DEF AmountsInv, AmountsOK
<1>9. payments' \in [Payment -> GoodPayment] /\ PaymentsAgree'
  BY <1>1, <1>3, PaymentsKeep DEF AmountsInv, AmountsOK
<1>10. UNCHANGED wasPaid
  BY <1>1 DEF SetChannel, rows
<1> QED  BY <1>1, <1>4, <1>7, <1>8, <1>9, <1>10 DEF AmountsOK

-----------------------------------------------------------------------------
(* The payments.                                                           *)

(* A payment that is opened for what was agreed on.                        *)
LEMMA OpenPaymentAgrees ==
  ASSUME AmountsOK, KeepsRows, NEW t \in TradeNo, NEW c \in Channel,
         NEW f \in Fen, Agrees(t, f),
         OpenPayment(t, c, f) \/ UNCHANGED payments
  PROVE  payments' \in [Payment -> GoodPayment] /\ PaymentsAgree'
<1>1. CASE UNCHANGED payments
  BY <1>1, PaymentsKeep DEF AmountsOK
<1>2. CASE ~ UNCHANGED payments
  <2> DEFINE new == [state |-> "open", t |-> t, c |-> c, fen |-> f]
  <2>1. PICK p \in Payment : payments' = [payments EXCEPT ![p] = new]
    BY <1>2 DEF OpenPayment
  <2>2. new \in GoodPayment /\ new.t = t /\ new.fen = f
    BY DEF GoodPayment, PaymentState
  <2> HIDE DEF new
  <2>3. /\ payments' \in [Payment -> GoodPayment] /\ payments'[p] = new
        /\ \A q \in Payment \ {p} : payments'[q] = payments[q]
    BY <2>1, <2>2 DEF AmountsOK
  <2>4. Agrees(t, f)'
    BY DEF KeepsRows, Agrees, Exists
  <2>5. ASSUME NEW q \in Payment, q # p, payments'[q].state # "none"
        PROVE  Agrees(payments[q].t, payments[q].fen)'
    <3>1. payments'[q] = payments[q]
      BY <2>3, <2>5
    <3>2. /\ payments[q].t \in TradeNo
          /\ Agrees(payments[q].t, payments[q].fen)
      BY <2>5, <3>1 DEF AmountsOK, GoodPayment, PaymentsAgree
    <3> QED  BY <3>1, <3>2 DEF KeepsRows, Agrees, Exists
  <2>6. Agrees(payments[p].t, payments[p].fen)'
    BY <2>2, <2>3, <2>4 DEF Agrees, Exists
  <2> QED  BY <2>3, <2>5, <2>6 DEF PaymentsAgree
<1> QED  BY <1>1, <1>2

(* dispatch_pay asks for the amount of the request (web.rs:226), which is    *)
(* the order's.                                                            *)
LEMMA SubmitDispatchStep ==
  ASSUME AmountsInv, NEW w \in Worker, SubmitDispatch(w)
  PROVE  StoreStep({}, {}) /\ UNCHANGED storeVars /\ AmountsOK'
<1>1. /\ sub[w] \in GoodSubmit /\ sub[w].pc = "dispatch"
      /\ SubmitReturns(w) /\ UNCHANGED storeVars
      /\ OpenPayment(sub[w].t, sub[w].c, sub[w].fen) \/ UNCHANGED payments
  BY DEF SubmitDispatch, Submitting, AmountsInv, AmountsOK
<1>2. StoreStep({}, {})
  BY <1>1, QuietStep DEF AmountsInv, storeVars, counters
<1>3. NoSubmit \in GoodSubmit /\ NoSubmit.pc = "idle"
  BY DEF NoSubmit, GoodSubmit, Submit
<1>4. sub' \in [Worker -> GoodSubmit] /\ SubmitsAgree'
  BY <1>1, <1>2, <1>3, OneSubmit DEF AmountsInv, StoreStep, SubmitReturns
<1>5. PICK t \in TradeNo, c \in Channel, f \in Fen :
        sub[w].t = t /\ sub[w].c = c /\ sub[w].fen = f
  BY <1>1 DEF GoodSubmit
<1>6. Agrees(t, f)
  BY <1>1, <1>5 DEF AmountsInv, AmountsOK, SubmitsAgree
<1>7. payments' \in [Payment -> GoodPayment] /\ PaymentsAgree'
  BY <1>1, <1>2, <1>5, <1>6, OpenPaymentAgrees DEF AmountsInv, StoreStep
<1> QED  BY <1>1, <1>2, <1>4, <1>7 DEF AmountsOK

(* The QR page asks for the amount in the row (web.rs:330).                *)
LEMMA AlipayWappayStep ==
  ASSUME AmountsInv, NEW t \in TradeNo, AlipayWappay(t)
  PROVE  StoreStep({}, {}) /\ UNCHANGED storeVars /\ AmountsOK'
<1>1. UNCHANGED <<storeVars, sub>> /\ orders[t].status = Unpaid
  BY DEF AlipayWappay
<1>2. StoreStep({}, {})
  BY <1>1, QuietStep DEF AmountsInv, storeVars, counters
<1>3. Exists(t)
  BY <1>1 DEF Exists, Unpaid
<1>4. PICK c \in Channel, f \in Fen :
        /\ orders[t].channel = c /\ orders[t].money = f
        /\ OpenPayment(t, c, f)
  BY <1>3 DEF AlipayWappay, AmountsInv, RowsPlaced
<1>5. Agrees(t, f)
  BY <1>1, <1>4 DEF Agrees, Unpaid, Absent
<1>6. payments' \in [Payment -> GoodPayment] /\ PaymentsAgree'
  BY <1>2, <1>4, <1>5, OpenPaymentAgrees DEF AmountsInv, StoreStep
<1>7. sub' \in [Worker -> GoodSubmit] /\ SubmitsAgree'
  BY <1>1, <1>2, SubmitsKeep DEF AmountsInv, AmountsOK, StoreStep
<1> QED  BY <1>1, <1>2, <1>6, <1>7 DEF AmountsOK

(* The buyer pays what was asked.                                          *)
LEMMA BuyerPaysStep ==
  ASSUME AmountsInv, NEW p \in Payment, BuyerPays(p)
  PROVE  StoreStep({}, {}) /\ UNCHANGED storeVars /\ AmountsOK'
<1>1. /\ UNCHANGED <<storeVars, sub>>
      /\ payments[p].state = "open" /\ payments[p] \in GoodPayment
  BY DEF BuyerPays, AmountsInv, AmountsOK
<1>2. StoreStep({}, {})
  BY <1>1, QuietStep DEF AmountsInv, storeVars, counters
<1>3. PICK x \in {"approved", "paid"} :
        payments' = [payments EXCEPT ![p] = [payments[p] EXCEPT !.state = x]]
  BY DEF BuyerPays
<1> DEFINE new == [payments[p] EXCEPT !.state = x]
<1>4. new \in GoodPayment /\ new.t = payments[p].t /\ new.fen = payments[p].fen
  BY <1>1 DEF GoodPayment, PaymentState
<1> HIDE DEF new
<1>5. /\ payments' \in [Payment -> GoodPayment] /\ payments'[p] = new
      /\ \A q \in Payment \ {p} : payments'[q] = payments[q]
  BY <1>3, <1>4 DEF AmountsInv, AmountsOK, new
<1>6. PaymentsAgree'
  BY <1>1, <1>2, <1>4, <1>5, PaymentsKeep DEF AmountsInv, StoreStep
<1>7. sub' \in [Worker -> GoodSubmit] /\ SubmitsAgree'
  BY <1>1, <1>2, SubmitsKeep DEF AmountsInv, AmountsOK, StoreStep
<1> QED  BY <1>1, <1>2, <1>5, <1>6, <1>7 DEF AmountsOK

-----------------------------------------------------------------------------
(* The steps of checkout, as Gateway takes them too.                       *)

(* A request, the page and the buyer each take the step of one statement;   *)
(* only the INSERT lets a row appear.                                      *)
LEMMA CheckoutOwnStep ==
  ASSUME AmountsInv,
         \/ \E w \in Worker, m \in Merchant, o \in OutTradeNo, f \in Fen,
               y \in PayType : SubmitBegin(w, m, o, f, y)
         \/ \E w \in Worker : SubmitStep(w) \/ DropSubmit(w)
         \/ \E t \in TradeNo : AlipayWappay(t)
         \/ \E p \in Payment : BuyerPays(p)
  PROVE  /\ \/ StoreStep({}, {})
            \/ \E t \in TradeNo :
                 /\ StoreStep({}, {t})
                 /\ orders[t].status = Absent /\ orders'[t].status = Unpaid
                 /\ orders'[t].money \in Fen
         /\ UNCHANGED <<wasPaid, edited>> /\ AmountsInv'
<1>1. /\ \/ StoreStep({}, {})
         \/ \E t \in TradeNo :
              /\ StoreStep({}, {t})
              /\ orders[t].status = Absent /\ orders'[t].status = Unpaid
              /\ orders'[t].money \in Fen
      /\ UNCHANGED <<wasPaid, edited>> /\ AmountsOK'
  <2>1. CASE \E w \in Worker, m \in Merchant, o \in OutTradeNo, f \in Fen,
                y \in PayType : SubmitBegin(w, m, o, f, y)
    BY <2>1, SubmitBeginStep DEF storeVars, history
  <2>2. CASE \E w \in Worker : SubmitFind(w) \/ SubmitFails(w)
                               \/ SubmitRoute(w) \/ DropSubmit(w)
    BY <2>2, SubmitPlainStep
  <2>3. CASE \E w \in Worker : SubmitCreate(w)
    BY <2>3, SubmitCreateStep
  <2>4. CASE \E w \in Worker : SubmitSetChannel(w)
    BY <2>4, SubmitSetChannelStep
  <2>5. CASE \E w \in Worker : SubmitDispatch(w)
    BY <2>5, SubmitDispatchStep DEF storeVars, history
  <2>6. CASE \E t \in TradeNo : AlipayWappay(t)
    BY <2>6, AlipayWappayStep DEF storeVars, history
  <2>7. CASE \E p \in Payment : BuyerPays(p)
    BY <2>7, BuyerPaysStep DEF storeVars, history
  <2> QED
    BY <2>1, <2>2, <2>3, <2>4, <2>5, <2>6, <2>7 DEF SubmitStep
<1>2. CASE StoreStep({}, {})
  <2>1. RowsPlaced'
    BY <1>1, <1>2, PlacedKeep DEF AmountsInv
  <2> QED  BY <1>1, <1>2, <2>1 DEF AmountsInv, StoreStep
<1>3. CASE \E t \in TradeNo :
             /\ StoreStep({}, {t})
             /\ orders[t].status = Absent /\ orders'[t].status = Unpaid
             /\ orders'[t].money \in Fen
  <2>1. RowsPlaced'
    BY <1>1, <1>3, PlacedKeep DEF AmountsInv
  <2> QED  BY <1>1, <1>3, <2>1 DEF AmountsInv, StoreStep
<1> QED  BY <1>1, <1>2, <1>3

(* The expire task and the clock.                                          *)
LEMMA ExpireStep ==
  ASSUME AmountsInv, ExpireTask \/ OrderTimePasses
  PROVE  StoreStep({}, {}) /\ UNCHANGED <<wasPaid, edited>> /\ AmountsInv'
<1>1. /\ UNCHANGED <<users, enabled, edited, counters, checkoutVars, wasPaid>>
      /\ ExpirePendingOrders \/ \E t \in TradeNo : OrderAges(t)
  BY DEF ExpireTask, OrderTimePasses, ExpirePendingOrders, OrderAges
<1>2. RowsInv' /\ KeepsRows /\ StaysBut({}) /\ StandBut({})
  BY <1>1, ExpirePendingOrdersKeeps, OrderAgesKeeps DEF AmountsInv, StoreInv
<1>3. StoreStep({}, {})
  BY <1>1, <1>2, StatementStep DEF AmountsInv, counters
<1>4. AmountsOK'
  BY <1>1, <1>2, AmountsKeep DEF AmountsInv
<1>5. RowsPlaced'
  BY <1>1, <1>3, PlacedKeep DEF AmountsInv
<1> QED  BY <1>1, <1>3, <1>4, <1>5 DEF AmountsInv, StoreStep

-----------------------------------------------------------------------------
(* Next to the rest of the gateway.                                        *)

(* mark_paid in a callback for a payment that was completed.               *)
LEMMA PaymentConfirmedStep ==
  ASSUME AmountsInv, NEW p \in Payment, PaymentConfirmed(p)
  PROVE  StoreStep({}, {}) /\ AmountsInv'
<1>1. /\ MarkPaid(payments[p].t, p) /\ payments[p].t \in TradeNo
      /\ UNCHANGED <<users, enabled, edited, counters, checkoutVars>>
  BY DEF PaymentConfirmed, AmountsInv, AmountsOK, GoodPayment
<1>2. RowsInv' /\ KeepsRows /\ StaysBut({}) /\ StandBut({})
  BY <1>1, MarkPaidKeeps DEF AmountsInv, StoreInv
<1>3. StoreStep({}, {})
  BY <1>1, <1>2, StatementStep DEF AmountsInv, counters
<1>4. \A t \in wasPaid' \ wasPaid : Exists(t)
  BY <1>1 DEF MarkPaid, BecomesPaid, rows
<1>5. RowsPlaced'
  BY <1>3, <1>4, PlacedKeep DEF AmountsInv
<1> QED  BY <1>1, <1>2, <1>3, <1>5, AmountsKeep DEF AmountsInv, StoreStep

(* Every step of the specification keeps the invariant, and what it found.  *)
LEMMA AmountsInvStep ==
  AmountsInv /\ [CheckoutNext]_cvars => AmountsInv' /\ KeepsRows
<1> SUFFICES ASSUME AmountsInv, [CheckoutNext]_cvars
             PROVE  AmountsInv' /\ KeepsRows
  OBVIOUS
<1>1. CASE \/ \E w \in Worker, m \in Merchant, o \in OutTradeNo, f \in Fen,
                y \in PayType : SubmitBegin(w, m, o, f, y)
           \/ \E w \in Worker : SubmitStep(w) \/ DropSubmit(w)
           \/ \E t \in TradeNo : AlipayWappay(t)
           \/ \E p \in Payment : BuyerPays(p)
  BY <1>1, CheckoutOwnStep DEF StoreStep
<1>2. CASE ExpireTask \/ OrderTimePasses
  BY <1>2, ExpireStep DEF StoreStep
<1>3. CASE \E p \in Payment : PaymentConfirmed(p)
  BY <1>3, PaymentConfirmedStep DEF StoreStep
<1>4. CASE \/ \E c \in Channel : ChannelUpdate(c) /\ UNCHANGED checkoutVars
           \/ \E m \in Merchant : MerchantUpdate(m) /\ UNCHANGED checkoutVars
           \/ \E t \in TradeNo : OrdersDelete({t}) /\ UNCHANGED checkoutVars
           \/ UNCHANGED cvars
  <2>1. StoreInv' /\ KeepsRows /\ RowsPlaced'
    <3>1. CASE UNCHANGED cvars
      BY <3>1, QuietStep, PlacedKeep
      DEF AmountsInv, StoreStep, cvars, storeVars, counters, history
    <3>2. CASE \/ \E c \in Channel : ChannelUpdate(c)
               \/ \E m \in Merchant : MerchantUpdate(m)
      BY <3>2, TableStep, PlacedKeep DEF AmountsInv, StoreStep, rows
    <3>3. CASE \E t \in TradeNo : OrdersDelete({t})
      BY <3>3, OrderDeleteStep, PlacedKeep DEF AmountsInv, StoreStep
    <3> QED  BY <1>4, <3>1, <3>2, <3>3
  <2>2. UNCHANGED checkoutVars
    BY <1>4 DEF cvars
  <2> QED  BY <2>1, <2>2, AmountsKeep DEF AmountsInv
<1> QED  BY <1>1, <1>2, <1>3, <1>4 DEF CheckoutNext

(* The invariant holds of empty tables.                                    *)
LEMMA AmountsInvInit == CheckoutInit => AmountsInv
<1> SUFFICES ASSUME CheckoutInit PROVE AmountsInv
  OBVIOUS
<1>1. NoRow \in Row /\ NoRow.status # Paid /\ NoRow.notify = 0
  BY DEF NoRow, Row, Gone, Absent, Unpaid, Paid, Closed, Refunded, NoChannel
<1>2. StoreInv
  BY <1>1, StoreInvInit DEF CheckoutInit
<1>3. RowsPlaced
  BY DEF CheckoutInit, HistoryEmpty, RowsPlaced, NoRow, Exists, Gone, Absent,
         Unpaid
<1> QED  BY <1>2, <1>3, CheckoutIdleOK DEF CheckoutInit, AmountsInv

(* The invariant holds in every reachable state.                           *)
LEMMA AmountsInvariant == CheckoutSpec => []AmountsInv
<1> QED  BY AmountsInvInit, AmountsInvStep, PTL DEF CheckoutSpec

(* Tables, submits and payments keep their types.                          *)
THEOREM CheckoutTypeCorrect == CheckoutSpec => []CheckoutTypeOK
<1> QED  BY AmountsInvTypes, AmountsInvariant, PTL

(* Every payment opened at a provider is for the amount of its order, with   *)
(* any number of submits racing for it (web.rs:170 and 226).               *)
THEOREM AmountsAgree == CheckoutSpec => []AmountAgreed
<1>1. AmountsInv => AmountAgreed
  BY DEF AmountsInv, AmountsOK, PaymentsAgree, Agrees, AmountAgreed
<1> QED  BY <1>1, AmountsInvariant, PTL
-----------------------------------------------------------------------------
(* How many gateway orders one order number of a merchant can stand for.    *)

(* The submits for number o of merchant m that found no order for it and    *)
(* have still to create one.                                               *)
Creators(m, o) ==
  {w \in Worker : sub[w].pc = "create" /\ sub[w].uid = m /\ sub[w].out = o}

(* At most n submits of one number are between their SELECT and INSERT.      *)
CreateAtMost(n) ==
  \A m \in Merchant, o \in OutTradeNo : Cardinality(Creators(m, o)) <= n

OneCreates == CreateAtMost(1)

(* Orders there are, and orders there will be as things stand.             *)
OrdersAtMost(n) ==
  \A m \in Merchant, o \in OutTradeNo :
    /\ IsFiniteSet(ExistingOrders(m, o))
    /\ Cardinality(ExistingOrders(m, o)) + Cardinality(Creators(m, o)) <= n

(* What a step can do to a number: take orders or submits away, begin to     *)
(* create its only order, or create one.                                   *)
NumberStep(m, o) ==
  \/ /\ ExistingOrders(m, o)' \subseteq ExistingOrders(m, o)
     /\ Creators(m, o)' \subseteq Creators(m, o)
  \/ ExistingOrders(m, o)' = {}
  \/ \E t \in TradeNo, w \in Creators(m, o) :
       /\ ExistingOrders(m, o)' = ExistingOrders(m, o) \cup {t}
       /\ Creators(m, o)' = Creators(m, o) \ {w}

(* The count through any such step.                                        *)
LEMMA NumberKeeps ==
  ASSUME IsFiniteSet(Worker), NEW n \in Nat, OrdersAtMost(n), CreateAtMost(n)',
         \A m \in Merchant, o \in OutTradeNo : NumberStep(m, o)
  PROVE  OrdersAtMost(n)'
<1> SUFFICES ASSUME NEW m \in Merchant, NEW o \in OutTradeNo
             PROVE  /\ IsFiniteSet(ExistingOrders(m, o)')
                    /\ Cardinality(ExistingOrders(m, o)')
                         + Cardinality(Creators(m, o)') <= n
  BY DEF OrdersAtMost
<1> DEFINE E  == ExistingOrders(m, o)
           C  == Creators(m, o)
           EE == ExistingOrders(m, o)'
           CC == Creators(m, o)'
<1>1. IsFiniteSet(E) /\ Cardinality(E) + Cardinality(C) <= n
  BY DEF OrdersAtMost
<1>2. C \subseteq Worker /\ CC \subseteq Worker
  BY DEF Creators
<1>3. /\ IsFiniteSet(C) /\ IsFiniteSet(CC)
      /\ Cardinality(E) \in Nat /\ Cardinality(C) \in Nat
      /\ Cardinality(CC) \in Nat
  BY <1>1, <1>2, FS_Subset, FS_CardinalityType
<1>4. Cardinality(CC) <= n
  BY DEF CreateAtMost
<1>5. \/ EE \subseteq E /\ CC \subseteq C
      \/ EE = {}
      \/ \E t \in TradeNo, w \in C : EE = E \cup {t} /\ CC = C \ {w}
  BY DEF NumberStep
<1> HIDE DEF E, C, EE, CC
<1>6. CASE EE \subseteq E /\ CC \subseteq C
  <2>1. /\ IsFiniteSet(EE) /\ Cardinality(EE) <= Cardinality(E)
        /\ Cardinality(CC) <= Cardinality(C) /\ Cardinality(EE) \in Nat
    BY <1>1, <1>3, <1>6, FS_Subset, FS_CardinalityType
  <2> QED  BY <1>1, <1>3, <2>1 DEF EE, CC
<1>7. CASE EE = {}
  <2>1. IsFiniteSet(EE) /\ Cardinality(EE) = 0
    BY <1>7, FS_EmptySet
  <2> QED  BY <1>3, <1>4, <2>1 DEF EE, CC
<1>8. CASE \E t \in TradeNo, w \in C : EE = E \cup {t} /\ CC = C \ {w}
  <2>1. PICK t \in TradeNo, w \in C : EE = E \cup {t} /\ CC = C \ {w}
    BY <1>8
  <2>2. /\ IsFiniteSet(EE)
        /\ Cardinality(EE) \in {Cardinality(E), Cardinality(E) + 1}
    BY <1>1, <2>1, FS_AddElement
  <2>3. Cardinality(CC) = Cardinality(C) - 1
    BY <1>3, <2>1, FS_RemoveElement
  <2> QED  BY <1>1, <1>3, <2>2, <2>3 DEF EE, CC
<1> QED  BY <1>5, <1>6, <1>7, <1>8

(* A step that lets no row appear and sends no submit to its INSERT.        *)
LEMMA NumberStays ==
  ASSUME RowsInv, RowsInv', KeepsRows,
         \A t \in TradeNo : orders[t].status = Absent
                            => orders'[t].status = Absent,
         \A w \in Worker : sub'[w].pc = "create" => sub'[w] = sub[w],
         NEW m \in Merchant, NEW o \in OutTradeNo
  PROVE  NumberStep(m, o)
<1>1. ExistingOrders(m, o)' \subseteq ExistingOrders(m, o)
  <2> SUFFICES ASSUME NEW t \in TradeNo, orders'[t].status >= Unpaid,
                      orders'[t].uid = m, orders'[t].out = o
               PROVE  t \in ExistingOrders(m, o)
    BY DEF ExistingOrders, Exists
  <2>1. orders[t].status # Absent
    BY DEF Absent, Unpaid
  <2> QED  BY <2>1 DEF KeepsRows, ExistingOrders, Exists
<1>2. Creators(m, o)' \subseteq Creators(m, o)
  BY DEF Creators
<1> QED  BY <1>1, <1>2 DEF NumberStep

(* The lookup sends a submit to its INSERT only when there is no order for   *)
(* the number (web.rs:160), and the INSERT makes one (web.rs:183).          *)
LEMMA SubmitNumberStep ==
  ASSUME AmountsInv, AmountsInv', KeepsRows, NEW w \in Worker,
         SubmitFind(w) \/ SubmitCreate(w),
         NEW m \in Merchant, NEW o \in OutTradeNo
  PROVE  NumberStep(m, o)
<1>1. sub \in [Worker -> GoodSubmit] /\ orders \in [TradeNo -> Row]
  BY DEF AmountsInv, AmountsOK, StoreInv, RowsInv, RowsOK
<1>2. \A v \in Worker \ {w} : sub'[v] = sub[v]
  BY <1>1 DEF SubmitFind, SubmitCreate, SubmitReturns
<1>3. CASE SubmitFind(w)
  <2>1. UNCHANGED orders
    BY <1>3 DEF SubmitFind, storeVars, tables
  <2>2. ExistingOrders(m, o)' = ExistingOrders(m, o)
    BY <2>1 DEF ExistingOrders, Exists
  <2>3. CASE sub'[w].pc # "create" \/ <<sub[w].uid, sub[w].out>> # <<m, o>>
    <3>1. sub'[w].pc = "create" => sub'[w].uid = sub[w].uid /\ sub'[w].out = sub[w].out
      BY <1>1, <1>3
      DEF SubmitFind, SubmitReturns, NoSubmit, GoodSubmit, Submit
    <3>2. Creators(m, o)' \subseteq Creators(m, o)
      BY <1>2, <2>3, <3>1 DEF Creators
    <3> QED  BY <2>2, <3>2 DEF NumberStep
  <2>4. CASE sub'[w].pc = "create" /\ sub[w].uid = m /\ sub[w].out = o
    <3>1. ExistingOrders(m, o) = {}
      BY <1>1, <1>3, <2>4
      DEF SubmitFind, SubmitReturns, NoSubmit, GoodSubmit, Submit
    <3> QED  BY <2>2, <3>1 DEF NumberStep
  <2> QED  BY <2>3, <2>4
<1>4. CASE SubmitCreate(w)
  <2>1. PICK t \in TradeNo :
          /\ orders[t].status = Absent
          /\ orders' = [orders EXCEPT ![t] =
                          [NoRow EXCEPT !.status = Unpaid, !.uid = sub[w].uid,
                                        !.out = sub[w].out, !.money = sub[w].fen]]
    BY <1>4 DEF SubmitCreate, CreateOrder
  <2>2. /\ orders'[t].status = Unpaid
        /\ orders'[t].uid = sub[w].uid /\ orders'[t].out = sub[w].out
        /\ \A u \in TradeNo \ {t} : orders'[u] = orders[u]
    BY <1>1, <2>1 DEF NoRow
  <2>3. /\ sub[w].pc = "create" /\ sub'[w].pc # "create"
    BY <1>1, <1>4
    DEF SubmitCreate, Submitting, SubmitReturns, NoSubmit, GoodSubmit, Submit
  <2>4. CASE sub[w].uid = m /\ sub[w].out = o
    <3>1. ExistingOrders(m, o)' = ExistingOrders(m, o) \cup {t}
      BY <2>1, <2>2, <2>4 DEF ExistingOrders, Exists, Absent, Unpaid
    <3>2. w \in Creators(m, o) /\ Creators(m, o)' = Creators(m, o) \ {w}
      BY <1>2, <2>3, <2>4 DEF Creators
    <3> QED  BY <3>1, <3>2 DEF NumberStep
  <2>5. CASE ~ (sub[w].uid = m /\ sub[w].out = o)
    <3>1. ExistingOrders(m, o)' \subseteq ExistingOrders(m, o)
      BY <2>2, <2>5 DEF ExistingOrders, Exists
    <3>2. Creators(m, o)' \subseteq Creators(m, o)
      BY <1>2, <2>3 DEF Creators
    <3> QED  BY <3>1, <3>2 DEF NumberStep
  <2> QED  BY <2>4, <2>5
<1> QED  BY <1>3, <1>4

(* The other steps of a submit, the page, the buyer, expiry and the clock.   *)
LEMMA PlainNumberStep ==
  ASSUME AmountsInv, AmountsInv', KeepsRows,
         \/ \E w \in Worker, m \in Merchant, o \in OutTradeNo, f \in Fen,
               y \in PayType : SubmitBegin(w, m, o, f, y)
         \/ \E w \in Worker :
              \/ SubmitFails(w) \/ SubmitRoute(w) \/ SubmitSetChannel(w)
              \/ SubmitDispatch(w) \/ DropSubmit(w)
         \/ \E t \in TradeNo : AlipayWappay(t)
         \/ \E p \in Payment : BuyerPays(p)
         \/ ExpireTask \/ OrderTimePasses,
         NEW m \in Merchant, NEW o \in OutTradeNo
  PROVE  NumberStep(m, o)
<1>1. RowsInv /\ RowsInv' /\ sub \in [Worker -> GoodSubmit]
  BY DEF AmountsInv, AmountsOK, StoreInv
<1>2. \A t \in TradeNo : orders[t].status = Absent => orders'[t].status = Absent
  <2>1. \/ \E w \in Worker : SetChannel(sub[w].t, sub[w].c)
        \/ \E t \in TradeNo : OrderAges(t)
        \/ ExpirePendingOrders
        \/ UNCHANGED orders
    BY DEF SubmitBegin, SubmitFails, SubmitRoute, SubmitSetChannel,
           SubmitDispatch, DropSubmit, AlipayWappay, BuyerPays, ExpireTask,
           OrderTimePasses, storeVars, tables, rows
  <2>2. CASE UNCHANGED orders
    BY <2>2
  <2> QED  BY <1>1, <2>1, <2>2, NoRowAppears
<1>3. \A w \in Worker : sub'[w].pc = "create" => sub'[w] = sub[w]
  <2>1. CASE \E w \in Worker, n \in Merchant, u \in OutTradeNo, f \in Fen,
                y \in PayType : SubmitBegin(w, n, u, f, y)
    BY <1>1, <2>1 DEF SubmitBegin, NoSubmit
  <2>2. CASE \E w \in Worker : SubmitFails(w) \/ SubmitDispatch(w) \/ DropSubmit(w)
    BY <1>1, <2>2
    DEF SubmitFails, SubmitDispatch, DropSubmit, SubmitReturns, NoSubmit
  <2>3. CASE \E w \in Worker : SubmitRoute(w) \/ SubmitSetChannel(w)
    BY <1>1, <2>3
    DEF SubmitRoute, SubmitSetChannel, SubmitReturns, NoSubmit, GoodSubmit,
        Submit
  <2>4. CASE UNCHANGED sub
    BY <2>4
  <2> QED
    BY <2>1, <2>2, <2>3, <2>4
    DEF AlipayWappay, BuyerPays, ExpireTask, OrderTimePasses, checkoutVars
<1> QED  BY <1>1, <1>2, <1>3, NumberStays

(* Every step of the specification.                                        *)
LEMMA CheckoutNumberStep ==
  ASSUME AmountsInv, [CheckoutNext]_cvars,
         NEW m \in Merchant, NEW o \in OutTradeNo
  PROVE  NumberStep(m, o)
<1>1. AmountsInv' /\ KeepsRows
  BY AmountsInvStep
<1>2. CASE \E w \in Worker : SubmitFind(w) \/ SubmitCreate(w)
  BY <1>1, <1>2, SubmitNumberStep
<1>3. CASE \/ \E w \in Worker, n \in Merchant, u \in OutTradeNo, f \in Fen,
                 y \in PayType : SubmitBegin(w, n, u, f, y)
           \/ \E w \in Worker :
                \/ SubmitFails(w) \/ SubmitRoute(w) \/ SubmitSetChannel(w)
                \/ SubmitDispatch(w) \/ DropSubmit(w)
           \/ \E t \in TradeNo : AlipayWappay(t)
           \/ \E p \in Payment : BuyerPays(p)
           \/ ExpireTask \/ OrderTimePasses
  BY <1>1, <1>3, PlainNumberStep
<1>4. CASE \/ \E p \in Payment : PaymentConfirmed(p)
           \/ \E c \in Channel : ChannelUpdate(c) /\ UNCHANGED checkoutVars
           \/ \E n \in Merchant : MerchantUpdate(n) /\ UNCHANGED checkoutVars
           \/ \E t \in TradeNo : OrdersDelete({t}) /\ UNCHANGED checkoutVars
           \/ UNCHANGED cvars
  <2>1. UNCHANGED sub
    BY <1>4 DEF PaymentConfirmed, checkoutVars, cvars
  <2>2. \/ \E p \in Payment : MarkPaid(payments[p].t, p)
        \/ \E T : OrderDelete(T)
        \/ UNCHANGED orders
    BY <1>4 DEF PaymentConfirmed, ChannelUpdate, MerchantUpdate, OrdersDelete,
                rows, cvars, storeVars, tables
  <2>3. RowsInv /\ RowsInv'
    BY <1>1 DEF AmountsInv, StoreInv
  <2>4. CASE UNCHANGED orders
    BY <1>1, <2>1, <2>3, <2>4, NumberStays
  <2>5. CASE ~ UNCHANGED orders
    BY <1>1, <2>1, <2>2, <2>3, <2>5, NoRowAppears, NumberStays
  <2> QED  BY <2>4, <2>5
<1> QED
  BY <1>2, <1>3, <1>4 DEF CheckoutNext, SubmitStep

(* Before the first request there is neither.                              *)
LEMMA NoOrdersYet ==
  ASSUME NEW n \in Nat, \A t \in TradeNo : ~ Exists(t),
         \A w \in Worker : sub[w].pc = "idle"
  PROVE  OrdersAtMost(n)
<1>1. \A m \in Merchant, o \in OutTradeNo :
        ExistingOrders(m, o) = {} /\ Creators(m, o) = {}
  BY DEF ExistingOrders, Creators
<1>2. IsFiniteSet({}) /\ Cardinality({}) = 0
  BY FS_EmptySet
<1> QED  BY <1>1, <1>2 DEF OrdersAtMost

(* What is counted bounds the orders themselves.                           *)
LEMMA OrdersCounted ==
  ASSUME IsFiniteSet(Worker), NEW n \in Nat, OrdersAtMost(n),
         NEW m \in Merchant, NEW o \in OutTradeNo
  PROVE  Cardinality(ExistingOrders(m, o)) <= n
<1>1. IsFiniteSet(Creators(m, o))
  BY FS_Subset DEF Creators
<1>2. /\ Cardinality(Creators(m, o)) \in Nat
      /\ Cardinality(ExistingOrders(m, o)) \in Nat
  BY <1>1, FS_CardinalityType DEF OrdersAtMost
<1> QED  BY <1>2 DEF OrdersAtMost

(* No more submits create an order than there are handlers.                *)
LEMMA CreatorsAreWorkers ==
  ASSUME IsFiniteSet(Worker)
  PROVE  /\ Cardinality(Worker) \in Nat
         /\ CreateAtMost(Cardinality(Worker))
         /\ CreateAtMost(Cardinality(Worker))'
<1>1. \A m \in Merchant, o \in OutTradeNo :
        /\ Creators(m, o) \subseteq Worker
        /\ Creators(m, o)' \subseteq Worker
  BY DEF Creators
<1> QED  BY <1>1, FS_Subset, FS_CardinalityType DEF CreateAtMost

(* However many submits race, the orders of a number are never more than the *)
(* submits that were at the same time between the SELECT and the INSERT.    *)
LEMMA OrdersInvStep ==
  ASSUME IsFiniteSet(Worker), NEW n \in Nat
  PROVE  /\ CheckoutInit => OrdersAtMost(n)
         /\ AmountsInv /\ [CheckoutNext]_cvars
            /\ CreateAtMost(n)' /\ OrdersAtMost(n) => OrdersAtMost(n)'
<1>1. CheckoutInit => OrdersAtMost(n)
  BY NoOrdersYet
  DEF CheckoutInit, CheckoutIdle, NoSubmit, NoRow, Exists, Absent, Unpaid
<1>2. AmountsInv /\ [CheckoutNext]_cvars /\ CreateAtMost(n)' /\ OrdersAtMost(n)
      => OrdersAtMost(n)'
  BY CheckoutNumberStep, NumberKeeps
<1> QED  BY <1>1, <1>2

(* A merchant's order number stands for one gateway order as long as no two  *)
(* submits of it are between the lookup and the INSERT at the same time      *)
(* (web.rs:160-183): the interval is all that the missing unique index       *)
(* leaves open.  CheckoutTwice shows that it is open.                      *)
THEOREM UniqueUnlessRaced ==
  ASSUME IsFiniteSet(Worker)
  PROVE  CheckoutSpec /\ []OneCreates => []UniqueOrder
<1>1. CheckoutInit => OrdersAtMost(1)
  BY OrdersInvStep
<1>2. AmountsInv /\ [CheckoutNext]_cvars /\ OneCreates' /\ OrdersAtMost(1)
      => OrdersAtMost(1)'
  BY OrdersInvStep DEF OneCreates
<1>3. OrdersAtMost(1) => UniqueOrder
  BY OrdersCounted DEF UniqueOrder
<1> QED  BY <1>1, <1>2, <1>3, AmountsInvariant, PTL DEF CheckoutSpec

(* One handler at a time never makes a second order of a number.           *)
THEOREM OneClientUnique ==
  ASSUME NEW w, Worker = {w}
  PROVE  CheckoutSpec => []UniqueOrder
<1>1. IsFiniteSet(Worker) /\ Cardinality(Worker) = 1
  BY FS_Singleton
<1>2. OneCreates
  BY <1>1, CreatorsAreWorkers DEF OneCreates
<1> QED  BY <1>1, <1>2, UniqueUnlessRaced, PTL

(* No more orders of a number than handlers.                               *)
OrdersPerNumber ==
  \A m \in Merchant, o \in OutTradeNo :
    Cardinality(ExistingOrders(m, o)) <= Cardinality(Worker)

(* The worst the race can do: as many orders of a number as handlers, even   *)
(* if requests fail, are dropped or come again (web.rs:160-183).           *)
THEOREM OrdersStayBounded ==
  ASSUME IsFiniteSet(Worker)
  PROVE  CheckoutSpec => []OrdersPerNumber
<1> DEFINE n == Cardinality(Worker)
           I == OrdersAtMost(n)
<1>1. n \in Nat /\ CreateAtMost(n)'
  BY CreatorsAreWorkers
<1>2. CheckoutInit => I
  BY <1>1, OrdersInvStep
<1>3. AmountsInv /\ [CheckoutNext]_cvars /\ I => I'
  BY <1>1, OrdersInvStep
<1>4. I => OrdersPerNumber
  BY <1>1, OrdersCounted DEF OrdersPerNumber
<1> QED  BY <1>2, <1>3, <1>4, AmountsInvariant, PTL DEF CheckoutSpec
=============================================================================
