------------------------------ MODULE Amounts -------------------------------
(***************************************************************************)
(* Amounts of money in the forms they take between a merchant's request and *)
(* a provider: decimal texts, fen, the DECIMAL(10,2) columns and the units  *)
(* of a foreign currency.  A text is a record of what its characters say,   *)
(* not a string.                                                           *)
(***************************************************************************)
EXTENDS Integers

CONSTANTS
  MaxFen,        \* i64::MAX
  MaxMoney,      \* the largest value of a DECIMAL(10,2) column, in fen
  RateNum,       \* currency_rate of a channel is RateNum / RateDen: the
  RateDen,       \* yuan that one unit of the foreign currency costs
  NoText         \* SQL NULL, and an empty field of a form

NoAmount == -1     \* None

(* A decimal text: leading minus signs, zeros before the first digit that   *)
(* counts, the whole number (NoAmount where no digit stands before the      *)
(* dot), dots, digits after the first dot and their value as a number.  A   *)
(* text with other characters has several dots here: neither reads as an    *)
(* amount.                                                                 *)
Text ==
  [minus  : Nat,
   pad    : Nat,
   yuan   : Nat \cup {NoAmount},
   dots   : Nat,
   places : Nat,
   digits : Nat]

ASSUME AmountsAssumption ==
  /\ MaxFen \in Nat /\ MaxMoney \in Nat /\ MaxMoney <= MaxFen
  /\ RateNum \in Nat \ {0} /\ RateDen \in Nat \ {0}
  /\ NoText \notin Text

(* The digits after the dot as hundredths: one digit counts ten.           *)
Hundredths(x) == IF x.places = 1 THEN 10 * x.digits ELSE x.digits

WellFormed(x) ==
  /\ x.minus = 0 /\ x.dots <= 1
  /\ x.yuan # NoAmount /\ x.places <= 2

(* Variant, for mutation: the fraction is not filled up to two digits.      *)
ParseUnpadded(x) ==
  IF WellFormed(x) /\ 100 * x.yuan + x.digits <= MaxFen
  THEN 100 * x.yuan + x.digits
  ELSE NoAmount

(* checked_mul and checked_add give None above i64::MAX.                    *)
ParseYuanToFen(x) ==
  IF WellFormed(x) /\ 100 * x.yuan + Hundredths(x) <= MaxFen
  THEN 100 * x.yuan + Hundredths(x)
  ELSE NoAmount

(* What MySQL and Alipay read in such a text (external).                   *)
Reading(x) == 100 * x.yuan + Hundredths(x)

(* What a DECIMAL(10,2) column holds then (external): in strict mode, the   *)
(* default of MySQL, a value too large for it is an error.                  *)
ColumnValue(x) == IF Reading(x) <= MaxMoney THEN Reading(x) ELSE NoAmount

(* CAST(money AS CHAR), the text of a column (external).                   *)
ColumnText(f) ==
  [minus |-> 0, pad |-> 0, yuan |-> f \div 100, dots |-> 1, places |-> 2,
   digits |-> f % 100]

(* The comparison of a callback with the order: a text that does not parse  *)
(* differs from everything.                                                *)
AmountsDiffer(x, y) ==
  \/ ParseYuanToFen(x) = NoAmount
  \/ ParseYuanToFen(x) # ParseYuanToFen(y)

(* u is one of the hundredths nearest to f fen at the channel's rate.  At a *)
(* tie the binary fraction decides, and either may come out.                *)
Nearest(f, u) ==
  /\ 2 * (u * RateNum - f * RateDen) <= RateNum
  /\ 2 * (f * RateDen - u * RateNum) <= RateNum

(* Variant, for mutation: the fraction is cut off.                         *)
ConvertTruncating(f) == {(f * RateDen) \div RateNum}

(* convert_fen_to_units, as hundredths, and convert_fen_to_smallest_unit.   *)
ConvertFen(f) ==
  {u \in (f * RateDen) \div RateNum .. (f * RateDen) \div RateNum + 1 :
     Nearest(f, u)}
=============================================================================
