----------------------------- MODULE MCNotifier -----------------------------
EXTENDS Notifier, TLC

(* Orders are interchangeable, and so are handlers: no action and no safety *)
(* property names one.  Used by the safety run only.                       *)
Symmetric == Permutations(TradeNo) \cup Permutations(Worker)
=============================================================================
