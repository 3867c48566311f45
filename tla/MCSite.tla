------------------------------- MODULE MCSite -------------------------------
EXTENDS Site, TLC

(* A text: whole number, dots, digits after the dot and their value.       *)
Written(y, d, n, v) ==
  [minus |-> 0, pad |-> 0, yuan |-> y, dots |-> d, places |-> n, digits |-> v]

(* 1.00 as the column gives it; 0.5, which it gives differently; 2, too      *)
(* large for the column of the run; 3, too large for its i64; 1.005.        *)
SomeSums ==
  {Written(1, 1, 2, 0), Written(0, 1, 1, 5), Written(2, 0, 0, 0),
   Written(3, 0, 0, 0), Written(1, 1, 3, 5)}

(* At least 0.6 yuan, and a maximum that is no amount; at most 0.99.        *)
Above == [min |-> Written(0, 1, 1, 6), max |-> Written(NoAmount, 0, 0, 0)]
Below == [min |-> NoText, max |-> Written(0, 1, 2, 99)]

SomeLimits == {Above, Below}

(* Channel 1 takes 1.00, channel 2 takes 0.5 and channel 3 takes both.      *)
LimitsOf ==
  [c \in Channel |-> IF c = 1 THEN Above
                     ELSE IF c = 2 THEN Below
                     ELSE [min |-> NoText, max |-> NoText]]

(* Channel 1 is Alipay, channel 2 WeChat, channel 3 takes cards.           *)
Kinds == <<"alipay", "wxpay", "stripe">>
PluginOf == [c \in Channel |-> Kinds[c]]

(* The user name and the password are typed, the other settings kept.      *)
SomeSettings ==
  {[k \in 1 .. Len(Keys) |-> IF k = UserKey THEN u ELSE p] : u, p \in Value}

(* A ban, and two adjustments: minus one half, and one that MySQL refuses. *)
Adjusting(x, s) ==
  [status |-> s, pay |-> 1, min |-> NoText, max |-> Written(1, 0, 0, 0),
   adjust |-> x]
SomeForms ==
  {Adjusting(NoText, 0),
   Adjusting([Written(0, 1, 1, 5) EXCEPT !.minus = 1], 1),
   Adjusting([Written(0, 1, 1, 5) EXCEPT !.minus = 2], 1)}

Symmetric ==
  Permutations(TradeNo) \cup Permutations(Worker) \cup Permutations(Admin)
    \cup Permutations(Value)
=============================================================================
