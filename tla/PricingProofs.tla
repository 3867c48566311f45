--------------------------- MODULE PricingProofs ----------------------------
(***************************************************************************)
(* Proofs about Amounts and Pricing, for any texts, limits, rate and width  *)
(* of the columns.  The inductive invariant follows one amount through its  *)
(* forms: the text in a handler, the fen in a row, the sum at a provider.   *)
(***************************************************************************)
EXTENDS Pricing, TLAPS

(* The text of a column reads as the fen in it; a text of a sum out of its  *)
(* range reads as that sum or not at all.                                  *)
LEMMA ColumnTextReads ==
  ASSUME NEW f \in Int
  PROVE  /\ ParseYuanToFen(ColumnText(f)) \in {f, NoAmount}
         /\ f \in Fen => /\ ParseYuanToFen(ColumnText(f)) = f
                         /\ Reading(ColumnText(f)) = f
<1> DEFINE y == f \div 100
           d == f % 100
<1>1. /\ y \in Int /\ d \in 0 .. 99 /\ f = 100 * y + d
      /\ f >= 0 => y >= 0
  OBVIOUS
<1>2. /\ Hundredths(ColumnText(f)) = d
      /\ ColumnText(f).yuan = y
      /\ WellFormed(ColumnText(f)) <=> y # NoAmount
  BY DEF ColumnText, Hundredths, WellFormed
<1>3. Reading(ColumnText(f)) = f
  BY <1>1, <1>2 DEF Reading
<1>4. f \in Fen => f <= MaxFen /\ y # NoAmount
  BY <1>1, AmountsAssumption DEF Fen, NoAmount
<1> HIDE DEF y, d
<1>5. ParseYuanToFen(ColumnText(f)) =
        IF y # NoAmount /\ 100 * y + d <= MaxFen THEN 100 * y + d ELSE NoAmount
  BY <1>2 DEF ParseYuanToFen
<1> QED  BY <1>1, <1>3, <1>4, <1>5 DEF NoAmount

(* An amount that parses is what MySQL and Alipay read, and what the column *)
(* holds if it holds it.                                                   *)
LEMMA ParsedIsRead ==
  ASSUME NEW x \in Text, ParseYuanToFen(x) # NoAmount
  PROVE  /\ Reading(x) = ParseYuanToFen(x)
         /\ ColumnValue(x) \in {ParseYuanToFen(x), NoAmount}
         /\ ColumnValue(x) # NoAmount => ColumnValue(x) \in Fen
<1>1. Reading(x) = ParseYuanToFen(x)
  BY DEF ParseYuanToFen, Reading
<1>2. x.yuan # NoAmount
  BY DEF ParseYuanToFen, WellFormed
<1>3. x.yuan \in Nat /\ x.digits \in Nat /\ Hundredths(x) \in Nat
  BY <1>2 DEF Text, Hundredths
<1>4. Reading(x) \in Nat
  BY <1>3 DEF Reading
<1> QED  BY <1>1, <1>4, AmountsAssumption DEF ColumnValue, Fen, NoAmount

(* A callback that passes the comparison reports the sum expected.         *)
LEMMA SameAmount ==
  ASSUME NEW f \in Fen, NEW s \in Int,
         ~ AmountsDiffer(ColumnText(s), ColumnText(f))
  PROVE  s = f
<1>1. f \in Int
  BY AmountsAssumption DEF Fen
<1>2. ParseYuanToFen(ColumnText(f)) = f
  BY <1>1, ColumnTextReads
<1>3. ParseYuanToFen(ColumnText(s)) \in {s, NoAmount}
  BY ColumnTextReads
<1> QED  BY <1>2, <1>3 DEF AmountsDiffer

-----------------------------------------------------------------------------
Known(t) == orders[t].status # "none"

Allowed(t, c) == \E l \in inForce[c] : Within(orders[t].money, l)

(* What a handler's payment is to the order that it marks.                 *)
Confirms(k) ==
  /\ Known(k.of) /\ Settles(k.of, k.c, k.sum)
  /\ k.of = k.t \/ Plugin[k.c] = "stripe"

RowOK(t) ==
  /\ ~ Known(t) => orders[t].real = NoAmount /\ orders[t].channel = NoText
  /\ orders[t].real # NoAmount => orders[t].real = orders[t].money
  /\ orders[t].channel # NoText => Allowed(t, orders[t].channel)
  /\ orders[t].status = "paid" => \E k \in taken : k.t = t /\ Confirms(k)

PaymentOK(p) == Known(p.t) /\ Settles(p.t, p.c, p.sum) /\ Allowed(p.t, p.c)

HandlerOK(w) ==
  LET h == pay[w] IN
  /\ h.pc \in {"find", "create", "route", "set", "dispatch"} =>
       h.c \in Channel /\ h.text \in Text /\ ParseYuanToFen(h.text) # NoAmount
  /\ h.pc \in {"route", "set", "dispatch"} =>
       /\ h.t \in TradeNo /\ Known(h.t)
       /\ orders[h.t].money = ParseYuanToFen(h.text)
  /\ h.pc \in {"set", "dispatch"} => Allowed(h.t, h.c)
  /\ h.pc = "mark" =>
       /\ h.t \in TradeNo /\ h.of \in TradeNo /\ h.c \in Channel
       /\ Known(h.t) /\ Confirms(h)

PriceInv ==
  /\ PriceTypeOK
  /\ \A t \in TradeNo : RowOK(t)
  /\ \A p \in asked : PaymentOK(p)
  /\ \A w \in Worker : HandlerOK(w)
  /\ \A c \in Channel : limits[c] \in inForce[c]

(* What no step undoes: an order keeps its amount, a channel's limits are   *)
(* remembered.                                                             *)
Keeps ==
  /\ \A t \in TradeNo : Known(t) => Known(t)' /\ orders'[t].money = orders[t].money
  /\ \A c \in Channel : inForce[c] \subseteq inForce'[c]
  /\ taken \subseteq taken'

LEMMA Kept ==
  ASSUME PriceTypeOK, Keeps, NEW t \in TradeNo, Known(t)
  PROVE  /\ Known(t)'
         /\ \A c \in Channel : Allowed(t, c) => Allowed(t, c)'
         /\ \A c, u : Settles(t, c, u) => Settles(t, c, u)'
<1>1. Known(t)' /\ orders'[t].money = orders[t].money
  BY DEF Keeps
<1>2. ASSUME NEW c \in Channel, Allowed(t, c) PROVE Allowed(t, c)'
  BY <1>1, <1>2 DEF Allowed, Keeps
<1>3. ASSUME NEW c, NEW u, Settles(t, c, u) PROVE Settles(t, c, u)'
  BY <1>1, <1>3 DEF Settles
<1> QED  BY <1>1, <1>2, <1>3

LEMMA PaymentKept ==
  ASSUME PriceTypeOK, Keeps, NEW p \in Payment, PaymentOK(p)
  PROVE  PaymentOK(p)'
<1>1. p.t \in TradeNo /\ p.c \in Channel /\ Known(p.t)
  BY DEF Payment, PaymentOK
<1>2. Known(p.t)' /\ Allowed(p.t, p.c)' /\ Settles(p.t, p.c, p.sum)'
  BY <1>1, Kept DEF PaymentOK
<1> QED  BY <1>2 DEF PaymentOK

LEMMA ConfirmsKept ==
  ASSUME PriceTypeOK, Keeps, NEW k, k.of \in TradeNo, Confirms(k)
  PROVE  Confirms(k)'
<1>1. Known(k.of)' /\ Settles(k.of, k.c, k.sum)'
  BY Kept DEF Confirms
<1> QED  BY <1>1 DEF Confirms

LEMMA HandlerKept ==
  ASSUME PriceTypeOK, Keeps, NEW w \in Worker, HandlerOK(w), pay'[w] = pay[w]
  PROVE  HandlerOK(w)'
<1> DEFINE h == pay[w]
<1>1. h.pc \in {"route", "set", "dispatch", "mark"} => h.t \in TradeNo /\ Known(h.t)
  BY DEF HandlerOK
<1>2. h.pc \in {"set", "dispatch"} => h.c \in Channel /\ Allowed(h.t, h.c)
  BY DEF HandlerOK
<1>3. h.pc \in {"route", "set", "dispatch", "mark"} =>
        Known(h.t)' /\ orders'[h.t].money = orders[h.t].money
  BY <1>1 DEF Keeps
<1>4. h.pc \in {"set", "dispatch"} => Allowed(h.t, h.c)'
  BY <1>1, <1>2, Kept
<1>5. h.pc = "mark" => h.of \in TradeNo /\ Confirms(h)
  BY DEF HandlerOK
<1>6. h.pc = "mark" => Confirms(h)'
  BY <1>5, ConfirmsKept
<1>7. h.pc = "mark" => Confirms(pay[w])'
  BY <1>6 DEF Confirms, Known, Settles
<1> QED  BY <1>3, <1>4, <1>7 DEF HandlerOK, Allowed, Known

LEMMA RowKept ==
  ASSUME PriceTypeOK, Keeps, NEW t \in TradeNo, RowOK(t),
         orders'[t] = orders[t]
  PROVE  RowOK(t)'
<1>1. orders[t] \in Row
  BY DEF PriceTypeOK
<1>2. CASE ~ Known(t)
  BY <1>1, <1>2 DEF RowOK, Known
<1>3. CASE Known(t)
  <2>1. orders[t].channel # NoText => Allowed(t, orders[t].channel)'
    BY <1>1, <1>3, Kept DEF RowOK, Row
  <2>2. ASSUME orders[t].status = "paid"
        PROVE  \E k \in taken' : k.t = t /\ Confirms(k)'
    <3>1. PICK k \in taken : k.t = t /\ Confirms(k)
      BY <2>2 DEF RowOK
    <3>2. k \in taken' /\ k.of \in TradeNo
      BY <3>1 DEF Keeps, PriceTypeOK, Confirmation
    <3>3. Confirms(k)'
      BY <3>1, <3>2, ConfirmsKept
    <3> QED  BY <3>1, <3>2, <3>3
  <2> QED  BY <1>3, <2>1, <2>2 DEF RowOK, Known, Allowed
<1> QED  BY <1>2, <1>3

(* A step that keeps what no step undoes has to answer only for what it     *)
(* changes.                                                                *)
LEMMA InvKept ==
  ASSUME PriceInv, PriceTypeOK', Keeps,
         \A v \in Worker : pay'[v] = pay[v] \/ HandlerOK(v)',
         \A t \in TradeNo : orders'[t] = orders[t] \/ RowOK(t)',
         \A p \in asked' : p \in asked \/ PaymentOK(p)',
         \A c \in Channel : limits'[c] \in inForce'[c]
  PROVE  PriceInv'
<1>1. \A v \in Worker : HandlerOK(v)'
  BY HandlerKept DEF PriceInv
<1>2. \A t \in TradeNo : RowOK(t)'
  BY RowKept DEF PriceInv
<1>3. \A p \in asked' : PaymentOK(p)'
  BY PaymentKept DEF PriceInv, PriceTypeOK
<1> QED  BY <1>1, <1>2, <1>3 DEF PriceInv

(* A step of a handler that writes nothing.                                *)
LEMMA HandlerMoves ==
  ASSUME PriceInv, NEW w \in Worker, NEW h \in Handler,
         pay' = [pay EXCEPT ![w] = h],
         UNCHANGED <<orders, limits, asked, taken, inForce>>,
         HandlerOK(w)'
  PROVE  PriceInv'
<1>1. PriceTypeOK'
  BY DEF PriceInv, PriceTypeOK
<1>2. Keeps
  BY DEF Keeps, Known
<1>3. \A v \in Worker : v # w => pay'[v] = pay[v]
  BY DEF PriceInv, PriceTypeOK
<1>4. \A c \in Channel : limits'[c] \in inForce'[c]
  BY DEF PriceInv
<1> QED  BY <1>1, <1>2, <1>3, <1>4, InvKept

LEMMA NoHandlerOK ==
  ASSUME PriceTypeOK, NEW w \in Worker, pay'[w] = NoHandler
  PROVE  NoHandler \in Handler /\ HandlerOK(w)'
<1>1. NoHandler \in Handler
  BY DEF NoHandler, Handler
<1>2. HandlerOK(w)'
  BY DEF NoHandler, HandlerOK
<1> QED  BY <1>1, <1>2

LEMMA Ended ==
  ASSUME PriceInv, NEW w \in Worker, Returns(w),
         UNCHANGED <<orders, limits, asked, taken, inForce>>
  PROVE  PriceInv'
<1>1. pay' = [pay EXCEPT ![w] = NoHandler] /\ pay'[w] = NoHandler
  BY DEF Returns, PriceInv, PriceTypeOK
<1>2. NoHandler \in Handler /\ HandlerOK(w)'
  BY <1>1, NoHandlerOK DEF PriceInv
<1> QED  BY <1>1, <1>2, HandlerMoves

LEMMA BeginKeepsInv ==
  ASSUME PriceInv, NEW w \in Worker, NEW x \in Sums, NEW c \in Channel,
         SubmitBegin(w, x, c)
  PROVE  PriceInv'
<1> DEFINE h == [NoHandler EXCEPT !.pc = "find", !.text = x, !.c = c]
<1>1. x \in Text
  BY PricingAssumption
<1>2. h \in Handler /\ h.pc = "find" /\ h.text = x /\ h.c = c
  <2>1. NoHandler \in Handler
    BY DEF NoHandler, Handler
  <2> QED  BY <1>1, <2>1 DEF Handler
<1>3. pay' = [pay EXCEPT ![w] = h] /\ pay'[w] = h
  BY DEF SubmitBegin, PriceInv, PriceTypeOK
<1> HIDE DEF h
<1>4. HandlerOK(w)'
  BY <1>1, <1>2, <1>3 DEF HandlerOK, SubmitBegin
<1> QED  BY <1>2, <1>3, <1>4, HandlerMoves DEF SubmitBegin

LEMMA FindKeepsInv ==
  ASSUME PriceInv, NEW w \in Worker, SubmitFind(w)
  PROVE  PriceInv'
<1>1. /\ pay[w] \in Handler /\ HandlerOK(w) /\ pay[w].pc = "find"
      /\ UNCHANGED <<orders, limits, asked, taken, inForce>>
  BY DEF PriceInv, PriceTypeOK, SubmitFind
<1>2. CASE pay' = [pay EXCEPT ![w].pc = "create"]
  <2> DEFINE h == [pay[w] EXCEPT !.pc = "create"]
  <2>1. h \in Handler /\ pay' = [pay EXCEPT ![w] = h]
    BY <1>1, <1>2 DEF Handler
  <2>2. HandlerOK(w)'
    BY <1>1, <1>2 DEF HandlerOK, Handler, PriceInv, PriceTypeOK
  <2> HIDE DEF h
  <2> QED  BY <1>1, <2>1, <2>2, HandlerMoves
<1>3. ASSUME NEW t \in TradeNo, orders[t].status = "unpaid",
             ColumnText(orders[t].money) = pay[w].text,
             pay' = [pay EXCEPT ![w].pc = "route", ![w].t = t]
      PROVE  PriceInv'
  <2> DEFINE h == [pay[w] EXCEPT !.pc = "route", !.t = t]
  <2>1. h \in Handler /\ pay' = [pay EXCEPT ![w] = h]
    BY <1>1, <1>3 DEF Handler
  <2>2. orders[t].money \in Fen /\ orders[t].money \in Int
    BY AmountsAssumption DEF PriceInv, PriceTypeOK, Row, Fen
  <2>3. orders[t].money = ParseYuanToFen(pay[w].text)
    BY <1>3, <2>2, ColumnTextReads
  <2>4. /\ pay'[w].pc = "route" /\ pay'[w].t = t
        /\ pay'[w].c = pay[w].c /\ pay'[w].text = pay[w].text
    BY <1>1, <1>3 DEF Handler, PriceInv, PriceTypeOK
  <2>5. HandlerOK(w)'
    BY <1>1, <1>3, <2>3, <2>4 DEF HandlerOK, Known
  <2> HIDE DEF h
  <2> QED  BY <1>1, <2>1, <2>5, HandlerMoves
<1>4. CASE Returns(w)
  BY <1>1, <1>4, Ended
<1> QED  BY <1>2, <1>3, <1>4 DEF SubmitFind

LEMMA CreateKeepsInv ==
  ASSUME PriceInv, NEW w \in Worker, SubmitCreate(w)
  PROVE  PriceInv'
<1> DEFINE x == pay[w].text
<1>1. /\ pay[w] \in Handler /\ HandlerOK(w) /\ pay[w].pc = "create"
      /\ orders \in [TradeNo -> Row]
  BY DEF PriceInv, PriceTypeOK, SubmitCreate
<1>2. x \in Text /\ ParseYuanToFen(x) # NoAmount /\ pay[w].c \in Channel
  BY <1>1 DEF HandlerOK
<1>3. ColumnValue(x) = ParseYuanToFen(x) /\ ColumnValue(x) \in Fen
  BY <1>2, ParsedIsRead DEF SubmitCreate
<1>4. PICK t \in TradeNo :
        /\ orders[t].status = "none"
        /\ orders' = [orders EXCEPT ![t] =
             [NoRow EXCEPT !.status = "unpaid", !.money = ColumnValue(x)]]
        /\ \/ pay' = [pay EXCEPT ![w].pc = "route", ![w].t = t]
           \/ Returns(w)
  BY DEF SubmitCreate
<1>5. /\ orders' \in [TradeNo -> Row]
      /\ orders'[t] = [NoRow EXCEPT !.status = "unpaid", !.money = ColumnValue(x)]
      /\ \A s \in TradeNo : s # t => orders'[s] = orders[s]
  BY <1>1, <1>3, <1>4 DEF Row, NoRow
<1>6. /\ pay' \in [Worker -> Handler]
      /\ \A v \in Worker : v # w => pay'[v] = pay[v]
  BY <1>1, <1>4, NoHandlerOK DEF Returns, Handler, NoHandler, PriceInv, PriceTypeOK
<1>7. UNCHANGED <<limits, asked, taken, inForce>>
  BY DEF SubmitCreate
<1>8. PriceTypeOK'
  BY <1>5, <1>6, <1>7 DEF PriceInv, PriceTypeOK
<1>9. Keeps
  BY <1>4, <1>5, <1>7 DEF Keeps, Known
<1>10. RowOK(t)'
  BY <1>5 DEF RowOK, NoRow, Known
<1>11. HandlerOK(w)'
  <2>1. CASE pay' = [pay EXCEPT ![w].pc = "route", ![w].t = t]
    <3>1. /\ pay'[w].pc = "route" /\ pay'[w].t = t
          /\ pay'[w].c = pay[w].c /\ pay'[w].text = x
      BY <1>1, <2>1 DEF Handler, PriceInv, PriceTypeOK
    <3>2. orders'[t].money = ParseYuanToFen(x) /\ orders'[t].status = "unpaid"
      BY <1>3, <1>5 DEF NoRow
    <3> QED  BY <1>2, <3>1, <3>2 DEF HandlerOK, Known
  <2>2. CASE Returns(w)
    BY <2>2, NoHandlerOK DEF Returns, PriceInv, PriceTypeOK
  <2> QED  BY <1>4, <2>1, <2>2
<1>12. \A c \in Channel : limits'[c] \in inForce'[c]
  BY <1>7 DEF PriceInv
<1> QED  BY <1>5, <1>6, <1>7, <1>8, <1>9, <1>10, <1>11, <1>12, InvKept

LEMMA RouteKeepsInv ==
  ASSUME PriceInv, NEW w \in Worker, SubmitRoute(w)
  PROVE  PriceInv'
<1>1. /\ pay[w] \in Handler /\ HandlerOK(w) /\ pay[w].pc = "route"
      /\ UNCHANGED <<orders, limits, asked, taken, inForce>>
  BY DEF PriceInv, PriceTypeOK, SubmitRoute
<1>2. CASE Returns(w)
  BY <1>1, <1>2, Ended
<1>3. CASE /\ Within(ParseYuanToFen(pay[w].text), limits[pay[w].c])
           /\ pay' = [pay EXCEPT ![w].pc = "set"]
  <2> DEFINE h == [pay[w] EXCEPT !.pc = "set"]
  <2>1. h \in Handler /\ pay' = [pay EXCEPT ![w] = h]
    BY <1>1, <1>3 DEF Handler
  <2>2. Allowed(pay[w].t, pay[w].c)
    BY <1>1, <1>3 DEF HandlerOK, PriceInv, Allowed
  <2>3. /\ pay'[w].pc = "set" /\ pay'[w].t = pay[w].t
        /\ pay'[w].c = pay[w].c /\ pay'[w].text = pay[w].text
    BY <1>1, <1>3 DEF Handler, PriceInv, PriceTypeOK
  <2>4. HandlerOK(w)'
    BY <1>1, <2>2, <2>3 DEF HandlerOK, Known, Allowed
  <2> HIDE DEF h
  <2> QED  BY <1>1, <2>1, <2>4, HandlerMoves
<1> QED  BY <1>2, <1>3 DEF SubmitRoute

LEMMA SetChannelKeepsInv ==
  ASSUME PriceInv, NEW w \in Worker, SubmitSetChannel(w)
  PROVE  PriceInv'
<1> SUFFICES ASSUME NEW x, NEW t, NEW c,
                    x = pay[w].text, t = pay[w].t, c = pay[w].c
             PROVE  PriceInv'
  OBVIOUS
<1> DEFINE h == [pay[w] EXCEPT !.pc = "dispatch"]
<1>1. /\ pay[w] \in Handler /\ HandlerOK(w) /\ pay[w].pc = "set"
      /\ orders \in [TradeNo -> Row] /\ pay \in [Worker -> Handler]
      /\ UNCHANGED <<limits, asked, taken, inForce>>
      /\ pay' = [pay EXCEPT ![w].pc = "dispatch"]
  BY DEF PriceInv, PriceTypeOK, SubmitSetChannel
<1>2. /\ x \in Text /\ ParseYuanToFen(x) # NoAmount /\ c \in Channel
      /\ t \in TradeNo /\ Known(t) /\ orders[t].money = ParseYuanToFen(x)
      /\ Allowed(t, c)
  BY <1>1 DEF HandlerOK
<1>3. /\ ColumnValue(x) \in Fen \cup {NoAmount}
      /\ ColumnValue(x) # NoAmount => ColumnValue(x) = orders[t].money
  BY <1>2, ParsedIsRead
<1>4. /\ h \in Handler /\ pay' = [pay EXCEPT ![w] = h]
      /\ pay'[w].pc = "dispatch" /\ pay'[w].t = t
      /\ pay'[w].c = c /\ pay'[w].text = x
      /\ \A v \in Worker : v # w => pay'[v] = pay[v]
  BY <1>1 DEF Handler
<1> HIDE DEF h
<1>5. CASE UNCHANGED orders
  <2>1. HandlerOK(w)'
    BY <1>1, <1>2, <1>4, <1>5 DEF HandlerOK, Known, Allowed
  <2> QED  BY <1>1, <1>4, <1>5, <2>1, HandlerMoves
<1>6. CASE orders' = [orders EXCEPT ![t].real = ColumnValue(x), ![t].channel = c]
  <2>1. /\ orders' \in [TradeNo -> Row]
        /\ orders'[t].status = orders[t].status
        /\ orders'[t].money = orders[t].money
        /\ orders'[t].real = ColumnValue(x) /\ orders'[t].channel = c
        /\ \A s \in TradeNo : s # t => orders'[s] = orders[s]
    BY <1>1, <1>2, <1>3, <1>6 DEF Row
  <2>2. pay' \in [Worker -> Handler]
    BY <1>1, <1>4
  <2>3. PriceTypeOK'
    BY <1>1, <2>1, <2>2 DEF PriceInv, PriceTypeOK
  <2>4. Keeps
    BY <1>1, <2>1 DEF Keeps, Known
  <2>5. Known(t)' /\ Allowed(t, c)'
    BY <1>2, <2>4, Kept DEF PriceInv
  <2>6. ASSUME orders'[t].status = "paid"
        PROVE  \E k \in taken' : k.t = t /\ Confirms(k)'
    <3>1. PICK k \in taken : k.t = t /\ Confirms(k)
      BY <1>2, <2>1, <2>6 DEF PriceInv, RowOK
    <3>2. k \in taken' /\ k.of \in TradeNo
      BY <1>1, <3>1 DEF PriceInv, PriceTypeOK, Confirmation
    <3>3. Confirms(k)'
      BY <2>4, <3>1, <3>2, ConfirmsKept DEF PriceInv
    <3> QED  BY <3>1, <3>2, <3>3
  <2>7. RowOK(t)'
    BY <1>3, <2>1, <2>5, <2>6 DEF RowOK
  <2>8. HandlerOK(w)'
    BY <1>2, <1>4, <2>1, <2>5 DEF HandlerOK
  <2>9. \A d \in Channel : limits'[d] \in inForce'[d]
    BY <1>1 DEF PriceInv
  <2> QED  BY <1>1, <1>4, <2>1, <2>3, <2>4, <2>7, <2>8, <2>9, InvKept
<1> QED  BY <1>5, <1>6 DEF SubmitSetChannel

(* A payment that is asked for.                                            *)
LEMMA AskKeepsInv ==
  ASSUME PriceInv, NEW p \in Payment, PaymentOK(p),
         asked' = asked \cup {p},
         UNCHANGED <<orders, limits, taken, inForce>>,
         \/ UNCHANGED pay
         \/ \E w \in Worker : Returns(w)
  PROVE  PriceInv'
<1>1. /\ pay' \in [Worker -> Handler]
      /\ \A v \in Worker : pay'[v] = pay[v] \/ pay'[v] = NoHandler
  BY DEF PriceInv, PriceTypeOK, Returns, NoHandler, Handler
<1>2. PriceTypeOK'
  BY <1>1 DEF PriceInv, PriceTypeOK
<1>3. Keeps
  BY DEF Keeps, Known
<1>4. \A v \in Worker : pay'[v] = pay[v] \/ HandlerOK(v)'
  BY <1>1, NoHandlerOK DEF PriceInv
<1>5. PaymentOK(p)'
  BY <1>3, PaymentKept DEF PriceInv
<1>6. \A c \in Channel : limits'[c] \in inForce'[c]
  BY DEF PriceInv
<1>7. \A q \in asked' : q \in asked \/ PaymentOK(q)'
  BY <1>5
<1> QED  BY <1>2, <1>3, <1>4, <1>6, <1>7, InvKept

LEMMA DispatchKeepsInv ==
  ASSUME PriceInv, NEW w \in Worker, SubmitDispatch(w)
  PROVE  PriceInv'
<1> DEFINE x == pay[w].text
           t == pay[w].t
           c == pay[w].c
<1>1. /\ pay[w] \in Handler /\ HandlerOK(w) /\ pay[w].pc = "dispatch"
      /\ UNCHANGED <<orders, limits, taken, inForce>> /\ Returns(w)
  BY DEF PriceInv, PriceTypeOK, SubmitDispatch
<1>2. /\ x \in Text /\ ParseYuanToFen(x) # NoAmount /\ c \in Channel
      /\ t \in TradeNo /\ Known(t) /\ orders[t].money = ParseYuanToFen(x)
      /\ Allowed(t, c)
  BY <1>1 DEF HandlerOK
<1>3. CASE UNCHANGED asked
  BY <1>1, <1>3, Ended
<1>4. ASSUME NEW u \in Charges(c, x),
             asked' = asked \cup {[t |-> t, c |-> c, sum |-> u]}
      PROVE  PriceInv'
  <2> HIDE DEF x, t, c
  <2>1. Plugin[c] = "alipay" => InFen(c)
    BY DEF InFen
  <2>2. orders[t].money \in Int
    BY <1>2, AmountsAssumption DEF PriceInv, PriceTypeOK, Row, Fen
  <2>3. CASE InFen(c)
    <3>1. u = orders[t].money
      BY <1>2, <1>4, <2>3, ParsedIsRead DEF Charges
    <3> QED
      <4> DEFINE p == [t |-> t, c |-> c, sum |-> u]
      <4>1. p \in Payment /\ PaymentOK(p)
        BY <1>2, <2>2, <2>3, <3>1 DEF Payment, PaymentOK, Settles
      <4> QED  BY <1>1, <1>4, <4>1, AskKeepsInv
  <2>4. CASE ~ InFen(c)
    <3>1. u \in Int /\ Nearest(orders[t].money, u)
      BY <1>2, <1>4, <2>1, <2>4 DEF Charges, ConvertFen
    <3> QED
      <4> DEFINE p == [t |-> t, c |-> c, sum |-> u]
      <4>1. p \in Payment /\ PaymentOK(p)
        BY <1>2, <2>4, <3>1 DEF Payment, PaymentOK, Settles
      <4> QED  BY <1>1, <1>4, <4>1, AskKeepsInv
  <2> QED  BY <2>3, <2>4
<1> QED  BY <1>3, <1>4 DEF SubmitDispatch

LEMMA WappayKeepsInv ==
  ASSUME PriceInv, NEW t \in TradeNo, AlipayWappay(t)
  PROVE  PriceInv'
<1> DEFINE c == orders[t].channel
           f == orders[t].money
           p == [t |-> t, c |-> c, sum |-> Reading(ColumnText(f))]
<1>1. /\ orders[t] \in Row /\ orders[t].status = "unpaid" /\ c # NoText
      /\ Plugin[c] = "alipay"
  BY DEF PriceInv, PriceTypeOK, AlipayWappay
<1>2. f \in Fen /\ f \in Int /\ c \in Channel
  BY <1>1, AmountsAssumption DEF Row, Fen
<1>3. Reading(ColumnText(f)) = f
  BY <1>2, ColumnTextReads
<1>4. InFen(c)
  BY <1>1 DEF InFen
<1>5. Known(t) /\ Allowed(t, c)
  BY <1>1 DEF PriceInv, RowOK, Known
<1> HIDE DEF c, f
<1>6. p \in Payment
  BY <1>2, <1>3 DEF Payment
<1>7. PaymentOK(p)
  BY <1>3, <1>4, <1>5 DEF PaymentOK, Settles, f
<1> HIDE DEF p
<1>8. asked' = asked \cup {p} /\ UNCHANGED <<orders, limits, pay, taken, inForce>>
  BY DEF AlipayWappay, p, c, f
<1> QED  BY <1>6, <1>7, <1>8, AskKeepsInv

(* The sum a callback is compared with is the amount of the order.         *)
LEMMA ExpectedIsMoney ==
  ASSUME PriceInv, NEW t \in TradeNo
  PROVE  Expected(t) = orders[t].money /\ Expected(t) \in Fen
<1>1. orders[t] \in Row /\ RowOK(t)
  BY DEF PriceInv, PriceTypeOK
<1> QED  BY <1>1 DEF RowOK, Expected, Row

(* A handler that has read an order and a payment that settles its own.     *)
LEMMA MarkBegins ==
  ASSUME PriceInv, NEW w \in Worker, NEW t \in TradeNo, NEW p \in Payment,
         NEW s \in Int, Known(t), Known(p.t), Settles(p.t, p.c, s),
         p.t = t \/ Plugin[p.c] = "stripe",
         pay' = [pay EXCEPT ![w] = Marks(t, p, s)],
         UNCHANGED <<orders, limits, asked, taken, inForce>>
  PROVE  PriceInv'
<1> DEFINE h == Marks(t, p, s)
<1>1. p.t \in TradeNo /\ p.c \in Channel
  BY DEF Payment
<1>2. /\ h \in Handler /\ h.pc = "mark" /\ h.t = t /\ h.of = p.t
      /\ h.c = p.c /\ h.sum = s
  BY <1>1 DEF Marks, Handler
<1> HIDE DEF h
<1>3. pay'[w] = h
  BY DEF PriceInv, PriceTypeOK, h
<1>4. Known(t)' /\ Known(p.t)' /\ Settles(p.t, p.c, s)'
  BY DEF Known, Settles
<1>5. HandlerOK(w)'
  BY <1>1, <1>2, <1>3, <1>4 DEF HandlerOK, Confirms
<1> QED  BY <1>2, <1>5, HandlerMoves DEF h

LEMMA ReadsKeepsInv ==
  ASSUME PriceInv, NEW w \in Worker, NEW p \in asked, NEW s \in Reports(p),
         CallbackReads(w, p, s)
  PROVE  PriceInv'
<1>1. /\ p \in Payment /\ p.t \in TradeNo /\ p.c \in Channel /\ p.sum \in Int
      /\ PaymentOK(p) /\ s \in Int
  BY DEF PriceInv, PriceTypeOK, Payment, Reports
<1>2. Settles(p.t, p.c, s)
  <2>1. CASE InFen(p.c)
    <3>1. Expected(p.t) \in Fen /\ Expected(p.t) \in Int
      BY <1>1, ExpectedIsMoney, AmountsAssumption DEF Fen
    <3>2. ParseYuanToFen(ColumnText(Expected(p.t))) = Expected(p.t)
      BY <3>1, ColumnTextReads
    <3>3. s = Expected(p.t)
      BY <1>1, <2>1, <3>1, <3>2, SameAmount DEF CallbackReads, SumAgrees
    <3> QED  BY <1>1, <2>1, <3>3, ExpectedIsMoney DEF Settles
  <2>2. CASE ~ InFen(p.c)
    BY <1>1, <2>2 DEF CallbackReads, SumAgrees, InFen, PaymentOK, Settles
  <2> QED  BY <2>1, <2>2
<1>3. Known(p.t)
  BY <1>1 DEF PaymentOK
<1> QED  BY <1>1, <1>2, <1>3, MarkBegins DEF CallbackReads

(* stripe_return may have read another order than the session's.           *)
LEMMA ReturnsKeepsInv ==
  ASSUME PriceInv, NEW w \in Worker, NEW t \in TradeNo, NEW p \in asked,
         StripeReturns(w, t, p)
  PROVE  PriceInv'
<1>1. /\ p \in Payment /\ p.t \in TradeNo /\ p.c \in Channel /\ p.sum \in Int
      /\ PaymentOK(p)
  BY DEF PriceInv, PriceTypeOK, Payment
<1>2. Settles(p.t, p.c, p.sum) /\ Known(p.t)
  BY <1>1 DEF PaymentOK
<1>3. Known(t)
  BY <1>1, PricingAssumption DEF StripeReturns, PriceInv, RowOK
<1> QED  BY <1>1, <1>2, <1>3, MarkBegins DEF StripeReturns

LEMMA MarksKeepsInv ==
  ASSUME PriceInv, NEW w \in Worker, CallbackMarks(w)
  PROVE  PriceInv'
<1> SUFFICES ASSUME NEW t, NEW of, NEW c, NEW s, t = pay[w].t, of = pay[w].of,
                    c = pay[w].c, s = pay[w].sum
             PROVE  PriceInv'
  OBVIOUS
<1> DEFINE k == [t |-> t, of |-> of, c |-> c, sum |-> s]
<1>1. /\ pay[w] \in Handler /\ HandlerOK(w) /\ pay[w].pc = "mark"
      /\ orders \in [TradeNo -> Row] /\ pay \in [Worker -> Handler]
      /\ orders' = [orders EXCEPT ![t].status = "paid"]
      /\ taken' = taken \cup {k}
      /\ pay' = [pay EXCEPT ![w] = NoHandler]
      /\ UNCHANGED <<limits, asked, inForce>>
  BY DEF PriceInv, PriceTypeOK, CallbackMarks, Returns
<1>2. /\ t \in TradeNo /\ of \in TradeNo /\ c \in Channel /\ s \in Int
      /\ Known(t)
  BY <1>1 DEF HandlerOK, Handler
<1>3. /\ orders' \in [TradeNo -> Row]
      /\ orders'[t].status = "paid" /\ orders'[t].money = orders[t].money
      /\ orders'[t].real = orders[t].real
      /\ orders'[t].channel = orders[t].channel
      /\ \A r \in TradeNo : r # t => orders'[r] = orders[r]
  BY <1>1, <1>2 DEF Row
<1>4. /\ pay' \in [Worker -> Handler] /\ pay'[w] = NoHandler
      /\ \A v \in Worker : v # w => pay'[v] = pay[v]
  BY <1>1 DEF NoHandler, Handler
<1>5. PriceTypeOK'
  BY <1>1, <1>2, <1>3, <1>4 DEF PriceInv, PriceTypeOK, Confirmation
<1>6. Keeps
  BY <1>1, <1>3 DEF Keeps, Known
<1>7. RowOK(t)'
  <2>1. orders[t].channel # NoText => Allowed(t, orders[t].channel)'
    BY <1>1, <1>2, <1>6, Kept DEF PriceInv, RowOK, Row
  <2>2. k.t = t /\ k.of \in TradeNo /\ Confirms(k)
    BY <1>1, <1>2 DEF HandlerOK, Confirms
  <2>3. k \in taken' /\ Confirms(k)'
    BY <1>1, <1>6, <2>2, ConfirmsKept DEF PriceInv
  <2>4. Known(t)'
    BY <1>3 DEF Known
  <2> QED
    <3> HIDE DEF k
    <3> QED  BY <1>2, <1>3, <2>1, <2>2, <2>3, <2>4 DEF PriceInv, RowOK, Allowed
<1>8. HandlerOK(w)'
  BY <1>4, NoHandlerOK DEF PriceInv
<1>9. \A d \in Channel : limits'[d] \in inForce'[d]
  BY <1>1 DEF PriceInv
<1> QED  BY <1>1, <1>3, <1>4, <1>5, <1>6, <1>7, <1>8, <1>9, InvKept

LEMMA UpdateKeepsInv ==
  ASSUME PriceInv, NEW c \in Channel, NEW l \in Limits, ChannelUpdate(c, l)
  PROVE  PriceInv'
<1>1. PriceTypeOK'
  BY DEF PriceInv, PriceTypeOK, ChannelUpdate
<1>2. Keeps
  BY DEF Keeps, Known, ChannelUpdate, PriceInv, PriceTypeOK
<1>3. \A d \in Channel : limits'[d] \in inForce'[d]
  BY DEF PriceInv, PriceTypeOK, ChannelUpdate
<1>4. UNCHANGED <<orders, pay, asked>>
  BY DEF ChannelUpdate
<1> QED  BY <1>1, <1>2, <1>3, <1>4, InvKept

-----------------------------------------------------------------------------
LEMMA PriceInitInv == PriceInit => PriceInv
<1> SUFFICES ASSUME PriceInit PROVE PriceInv
  OBVIOUS
<1>1. NoRow \in Row /\ NoHandler \in Handler
  BY AmountsAssumption DEF NoRow, Row, Fen, NoHandler, Handler
<1>2. PriceTypeOK
  BY <1>1, PricingAssumption DEF PriceInit, PriceTypeOK
<1>3. \A t \in TradeNo : RowOK(t)
  BY DEF PriceInit, RowOK, NoRow, Known
<1>4. \A w \in Worker : HandlerOK(w)
  BY DEF PriceInit, HandlerOK, NoHandler
<1> QED  BY <1>2, <1>3, <1>4 DEF PriceInv, PriceInit

LEMMA PriceStepInv ==
  ASSUME PriceInv, PriceStep
  PROVE  PriceInv'
<1>1. ASSUME NEW w \in Worker, HandlerEnds(w) PROVE PriceInv'
  BY <1>1, Ended DEF HandlerEnds
<1> QED  BY <1>1, FindKeepsInv, CreateKeepsInv, RouteKeepsInv,
            SetChannelKeepsInv, DispatchKeepsInv, MarksKeepsInv,
            WappayKeepsInv, ReadsKeepsInv, ReturnsKeepsInv
         DEF PriceStep

LEMMA PriceStutterInv == PriceInv /\ UNCHANGED priceVars => PriceInv'
BY DEF PriceInv, PriceTypeOK, Limits, Handler, Payment, Confirmation, RowOK,
       PaymentOK, HandlerOK, Confirms, Known, Allowed, Settles, priceVars

(* The invariant gives the three properties.                               *)
LEMMA PriceInvGives ==
  ASSUME PriceInv
  PROVE  ChargedIsExpected /\ PaidBySettling /\ ChargedWithinLimits
<1>1. ASSUME NEW p \in asked
      PROVE  /\ p.t \in TradeNo /\ p.c \in Channel /\ PaymentOK(p)
             /\ Expected(p.t) = orders[p.t].money
  BY ExpectedIsMoney DEF PriceInv, PriceTypeOK, Payment
<1>2. ChargedIsExpected
  BY <1>1 DEF ChargedIsExpected, PaymentOK, Settles
<1>3. PaidBySettling
  BY DEF PaidBySettling, PriceInv, RowOK, Confirms
<1>4. ChargedWithinLimits
  BY <1>1 DEF ChargedWithinLimits, PaymentOK, Allowed
<1> QED  BY <1>2, <1>3, <1>4
=============================================================================
