SPECIFICATION NotifierSpec
CONSTANTS
  TradeNo = {t1, t2}
  Merchant = {m1}
  OutTradeNo = {o1}
  Fen = {1}
  Channel = {1}
  Payment = {p1}
  Nil = Nil
  GiveUp = 2
  Delivered = 99
  MaxFaults = 1
  MaxLosses = 1
  MaxEdits = 1
  Worker = {w1, w2}
  RetryTask = retry
  Limit = 1
INVARIANTS NotifierTypeOK ToldWasPaid AttemptsBounded OneHandlerNotifies
PROPERTY DeliveredStays
SYMMETRY Symmetric
CHECK_DEADLOCK FALSE
