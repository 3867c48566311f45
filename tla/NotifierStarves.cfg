SPECIFICATION FairNotifierSpec
CONSTANTS
  TradeNo = {t1, t2}
  Merchant = {m1, m2}
  OutTradeNo = {o1}
  Fen = {1}
  Channel = {1}
  Payment = {p1}
  Nil = Nil
  GiveUp = 1
  Delivered = 99
  MaxFaults = 0
  MaxLosses = 1
  MaxEdits = 1
  Worker = {w1}
  RetryTask = retry
  Limit = 1
PROPERTY NotifySettles
CHECK_DEADLOCK FALSE
