----------------------------- MODULE MCGateway ------------------------------
EXTENDS Gateway, TLC

(* The plugin and pay type of every channel of a run.                      *)
AllAlipay == [c \in Channel |-> "alipay"]
AllPaypal == [c \in Channel |-> "paypal"]

(* Two ways to pay: a repeated submit may take the order from channel 1 to 2. *)
TwoTypes == [c \in Channel |-> IF c = 1 THEN "alipay" ELSE "stripe"]

(* Two ways to pay by card, whose callbacks compare no amounts.             *)
CardTypes == [c \in Channel |-> IF c = 1 THEN "stripe" ELSE "paypal"]

(* Channels take any of the run's amounts.                                 *)
Minimum == [c \in Channel |-> 1]
Maximum == [c \in Channel |-> 2]

(* Handlers are interchangeable, and so are the payments of a provider.    *)
Symmetric == Permutations(Worker) \cup Permutations(Payment)

(* In a run of several orders, so are orders and their numbers.            *)
AllSymmetric ==
  Symmetric \cup Permutations(TradeNo) \cup Permutations(OutTradeNo)
=============================================================================
