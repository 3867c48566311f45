------------------------------ MODULE Pricing -------------------------------
(***************************************************************************)
(* The amount of an order on its way through submit, the provider clients   *)
(* and the callbacks: which form of it each step compares, stores and sends.*)
(* Several requests for one order number of a merchant run side by side.    *)
(* Routing, expiry and repeated messages are in Checkout and Gateway.       *)
(***************************************************************************)
EXTENDS Amounts

CONSTANTS
  TradeNo,       \* numbers generate_trade_no can hand out
  Channel,       \* pay_channel.id
  Plugin,        \* pay_channel.plugin
  Worker,        \* tasks serving one HTTP request each
  Sums,          \* bound: the texts that merchants send as money
  FirstLimits,   \* paymin and paymax of each channel at first
  NoOrder        \* no order in hand

Plugins == {"alipay", "wxpay", "wxpayn", "paypal", "stripe"}

Limits == [min : Text \cup {NoText}, max : Text \cup {NoText}]

ASSUME PricingAssumption ==
  /\ Plugin \in [Channel -> Plugins]
  /\ Sums \subseteq Text
  /\ FirstLimits \in [Channel -> Limits]
  /\ NoOrder \notin TradeNo
  /\ NoText \notin Channel

VARIABLES
  orders,        \* the columns of pay_order an amount depends on
  limits,        \* pay_channel.paymin and paymax, which are texts
  pay,           \* submit or a callback, as run by each worker
  asked,         \* payments the providers were asked to collect (external)
  taken,         \* history: messages of providers that were accepted
  inForce        \* history: limits each channel has had

priceVars == <<orders, limits, pay, asked, taken, inForce>>

Fen == 0 .. MaxMoney

Row ==
  [status  : {"none", "unpaid", "paid"},
   money   : Fen,
   real    : Fen \cup {NoAmount},                            \* realmoney
   channel : Channel \cup {NoText}]

NoRow ==
  [status |-> "none", money |-> 0, real |-> NoAmount, channel |-> NoText]

Handler ==
  [pc   : {"idle", "find", "create", "route", "set", "dispatch", "mark"},
   text : Text \cup {NoText},
   c    : Channel \cup {NoText},
   t    : TradeNo \cup {NoOrder},
   of   : TradeNo \cup {NoOrder},            \* whose payment confirms t
   sum  : Int]

NoHandler ==
  [pc |-> "idle", text |-> NoText, c |-> NoText, t |-> NoOrder,
   of |-> NoOrder, sum |-> 0]

(* A sum is in fen at Alipay and WeChat, in hundredths of the foreign unit  *)
(* at PayPal and Stripe.                                                   *)
Payment == [t : TradeNo, c : Channel, sum : Int]

(* An order that was marked, and the payment that it was marked for.       *)
Confirmation == [t : TradeNo, of : TradeNo, c : Channel, sum : Int]

PriceTypeOK ==
  /\ orders \in [TradeNo -> Row]
  /\ limits \in [Channel -> Limits]
  /\ pay \in [Worker -> Handler]
  /\ asked \subseteq Payment
  /\ taken \subseteq Confirmation
  /\ inForce \in [Channel -> SUBSET Limits]

InFen(c) == Plugin[c] \in {"alipay", "wxpay", "wxpayn"}

Returns(w) == pay' = [pay EXCEPT ![w] = NoHandler]

-----------------------------------------------------------------------------
(* submit.                                                                 *)

SubmitBegin(w, x, c) ==
  /\ pay[w].pc = "idle"
  /\ ParseYuanToFen(x) # NoAmount
  /\ pay' = [pay EXCEPT ![w] =
       [NoHandler EXCEPT !.pc = "find", !.text = x, !.c = c]]
  /\ UNCHANGED <<orders, limits, asked, taken, inForce>>

(* An order is used again if the text of its column is the request's text,  *)
(* character by character.                                                 *)
SubmitFind(w) ==
  LET found == {t \in TradeNo : orders[t].status # "none"} IN
  /\ pay[w].pc = "find"
  /\ \/ found = {} /\ pay' = [pay EXCEPT ![w].pc = "create"]
     \/ \E t \in found :
          /\ orders[t].status = "unpaid"
          /\ ColumnText(orders[t].money) = pay[w].text
          /\ pay' = [pay EXCEPT ![w].pc = "route", ![w].t = t]
     \/ found # {} /\ Returns(w)
  /\ UNCHANGED <<orders, limits, asked, taken, inForce>>

SubmitCreate(w) ==
  /\ pay[w].pc = "create"
  /\ ColumnValue(pay[w].text) # NoAmount
  /\ \E t \in TradeNo :
       /\ orders[t].status = "none"
       /\ orders' = [orders EXCEPT ![t] =
            [NoRow EXCEPT !.status = "unpaid",
                          !.money  = ColumnValue(pay[w].text)]]
       /\ \/ pay' = [pay EXCEPT ![w].pc = "route", ![w].t = t]
          \/ Returns(w)                        \* the answer of the INSERT is lost
  /\ UNCHANGED <<limits, asked, taken, inForce>>

(* A statement fails, the column cannot hold the amount or the handler is   *)
(* dropped.                                                                *)
HandlerEnds(w) ==
  /\ pay[w].pc # "idle"
  /\ Returns(w)
  /\ UNCHANGED <<orders, limits, asked, taken, inForce>>

(* A limit that is not an amount, an empty one for example, does not limit. *)
Within(f, l) ==
  /\ l.min # NoText /\ ParseYuanToFen(l.min) # NoAmount
     => ParseYuanToFen(l.min) <= f
  /\ l.max # NoText /\ ParseYuanToFen(l.max) # NoAmount
     => f <= ParseYuanToFen(l.max)

(* Variant, for mutation: the limits are not looked at.                    *)
SubmitRouteUnlimited(w) ==
  /\ pay[w].pc = "route"
  /\ pay' = [pay EXCEPT ![w].pc = "set"]
  /\ UNCHANGED <<orders, limits, asked, taken, inForce>>

SubmitRoute(w) ==
  /\ pay[w].pc = "route"
  /\ IF Within(ParseYuanToFen(pay[w].text), limits[pay[w].c])
     THEN pay' = [pay EXCEPT ![w].pc = "set"]
     ELSE Returns(w)
  /\ UNCHANGED <<orders, limits, asked, taken, inForce>>

(* realmoney and the channel; the result of the statement is dropped.      *)
SubmitSetChannel(w) ==
  /\ pay[w].pc = "set"
  /\ \/ orders' = [orders EXCEPT ![pay[w].t].real    = ColumnValue(pay[w].text),
                                 ![pay[w].t].channel = pay[w].c]
     \/ UNCHANGED orders
  /\ pay' = [pay EXCEPT ![w].pc = "dispatch"]
  /\ UNCHANGED <<limits, asked, taken, inForce>>

(* Alipay is sent the text of the request, WeChat the fen, PayPal and       *)
(* Stripe the fen converted at the channel's rate.                          *)
Charges(c, x) ==
  IF Plugin[c] = "alipay" THEN {Reading(x)}
  ELSE IF InFen(c) THEN {ParseYuanToFen(x)} ELSE ConvertFen(ParseYuanToFen(x))

(* On a desktop Alipay's QR code comes first, and provider calls may fail.  *)
SubmitDispatch(w) ==
  /\ pay[w].pc = "dispatch"
  /\ \/ \E u \in Charges(pay[w].c, pay[w].text) :
          asked' = asked \cup {[t |-> pay[w].t, c |-> pay[w].c, sum |-> u]}
     \/ UNCHANGED asked
  /\ Returns(w)
  /\ UNCHANGED <<orders, limits, taken, inForce>>

(* The page behind the QR code sends the text of the column.               *)
AlipayWappay(t) ==
  /\ orders[t].status = "unpaid" /\ orders[t].channel # NoText
  /\ Plugin[orders[t].channel] = "alipay"
  /\ asked' = asked \cup {[t |-> t, c |-> orders[t].channel,
                           sum |-> Reading(ColumnText(orders[t].money))]}
  /\ UNCHANGED <<orders, limits, pay, taken, inForce>>

-----------------------------------------------------------------------------
(* The callbacks and Stripe's return.                                      *)

(* The sum of an order that a callback is compared with and a refund is for. *)
Expected(t) == IF orders[t].real = NoAmount THEN orders[t].money
                                            ELSE orders[t].real

(* What a provider reports for a payment (external): the sum it was asked   *)
(* for, or less after a discount.                                          *)
Reports(p) == {p.sum, p.sum \div 2}

(* Variant, for mutation: a missing sum counts as the one expected.         *)
SumAgreesAny(p, s) == InFen(p.c) \/ s = p.sum

(* How a handler compares the sum with the order's: as texts for Alipay, as  *)
(* numbers for WeChat.  Those of PayPal and Stripe take any sum; these       *)
(* providers collect all they were asked for or nothing (external).         *)
SumAgrees(p, s) ==
  LET expected == ColumnText(Expected(p.t)) IN
  \/ Plugin[p.c] = "alipay" /\ ~ AmountsDiffer(ColumnText(s), expected)
  \/ /\ Plugin[p.c] \in {"wxpay", "wxpayn"}
     /\ ParseYuanToFen(expected) # NoAmount /\ ParseYuanToFen(expected) = s
  \/ ~ InFen(p.c) /\ s = p.sum

Marks(t, p, s) ==
  [pc |-> "mark", text |-> NoText, c |-> p.c, t |-> t, of |-> p.t, sum |-> s]

(* The handler reads the order, whose channel authenticates the message.    *)
CallbackReads(w, p, s) ==
  /\ pay[w].pc = "idle"
  /\ p \in asked /\ s \in Reports(p)
  /\ orders[p.t].channel = p.c
  /\ SumAgrees(p, s)
  /\ pay' = [pay EXCEPT ![w] = Marks(p.t, p, s)]
  /\ UNCHANGED <<orders, limits, asked, taken, inForce>>

(* stripe_return: the request names the order and the session apart, and     *)
(* the session may be any that the key of the order's channel can retrieve. *)
(* Only its payment_status is looked at: not its order, nor its sum.        *)
StripeReturns(w, t, p) ==
  /\ pay[w].pc = "idle"
  /\ p \in asked /\ Plugin[p.c] = "stripe"
  /\ orders[t].channel = p.c
  /\ pay' = [pay EXCEPT ![w] = Marks(t, p, p.sum)]
  /\ UNCHANGED <<orders, limits, asked, taken, inForce>>

CallbackMarks(w) ==
  /\ pay[w].pc = "mark"
  /\ orders' = [orders EXCEPT ![pay[w].t].status = "paid"]
  /\ taken' = taken \cup {[t |-> pay[w].t, of |-> pay[w].of, c |-> pay[w].c,
                           sum |-> pay[w].sum]}
  /\ Returns(w)
  /\ UNCHANGED <<limits, asked, inForce>>

-----------------------------------------------------------------------------
(* channel_update writes the limits as they were typed.                    *)
ChannelUpdate(c, l) ==
  /\ limits' = [limits EXCEPT ![c] = l]
  /\ inForce' = [inForce EXCEPT ![c] = @ \cup {l}]
  /\ UNCHANGED <<orders, pay, asked, taken>>

PriceInit ==
  /\ orders = [t \in TradeNo |-> NoRow]
  /\ limits = FirstLimits
  /\ pay = [w \in Worker |-> NoHandler]
  /\ asked = {}
  /\ taken = {}
  /\ inForce = [c \in Channel |-> {limits[c]}]

PriceStep ==
  \/ \E w \in Worker :
       \/ SubmitFind(w)
       \/ SubmitCreate(w)
       \/ SubmitRoute(w)
       \/ SubmitSetChannel(w)
       \/ SubmitDispatch(w)
       \/ CallbackMarks(w)
       \/ HandlerEnds(w)
  \/ \E t \in TradeNo : AlipayWappay(t)
  \/ \E w \in Worker, p \in asked : \E s \in Reports(p) : CallbackReads(w, p, s)
  \/ \E w \in Worker, t \in TradeNo, p \in asked : StripeReturns(w, t, p)

-----------------------------------------------------------------------------
(* Properties.                                                             *)

(* A sum collected by a channel settles an order: it is the order's amount,  *)
(* or the nearest hundredth of it at the channel's rate.                   *)
Settles(t, c, sum) ==
  IF InFen(c) THEN sum = orders[t].money ELSE Nearest(orders[t].money, sum)

(* What a provider is asked to collect for an order is, in whatever form it *)
(* was sent, what its callback will be measured by: nobody pays what is     *)
(* asked and is turned away for it (web.rs:171, 221-226, 492, 517-524,      *)
(* 757-761; protocol.rs:185-199).                                          *)
ChargedIsExpected ==
  \A p \in asked :
    IF InFen(p.c) THEN p.sum = Expected(p.t)
                  ELSE Nearest(Expected(p.t), p.sum)

(* An order becomes paid only by a payment that settles the order it was    *)
(* made for, though Alipay and WeChat may report less than they were asked  *)
(* to collect; and that order is the one marked, except at Stripe, whose    *)
(* return takes any session of the channel (web.rs:517-524, 757-761, 822-   *)
(* 826, 967-972).                                                          *)
PaidBySettling ==
  \A t \in TradeNo :
    orders[t].status = "paid" =>
      \E k \in taken : /\ k.t = t
                       /\ Settles(k.of, k.c, k.sum)
                       /\ k.of = t \/ Plugin[k.c] = "stripe"

(* A provider is asked only for orders whose amount was within limits that  *)
(* the channel had, whatever was edited between the check and the request   *)
(* and however the order was used again (web.rs:206-219).                  *)
ChargedWithinLimits ==
  \A p \in asked : \E l \in inForce[p.c] : Within(orders[p.t].money, l)
=============================================================================
