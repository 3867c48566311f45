----------------------------- MODULE MCCheckout -----------------------------
EXTENDS Checkout, TLC

(* Two ways to pay: channel 1 is Alipay, channel 2 takes cards.  Gives the  *)
(* type and the plugin of a channel.                                       *)
TwoTypes == [c \in Channel |-> IF c = 1 THEN "alipay" ELSE "stripe"]

(* Amounts 1 and 2 are submitted; both channels take 2, the second not 1.  *)
Minimum == [c \in Channel |-> c]
Maximum == [c \in Channel |-> 2]
=============================================================================
