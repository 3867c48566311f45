SPECIFICATION FairCheckoutSpec
CONSTANTS
  TradeNo = {t1, t2}
  Merchant = {m1}
  OutTradeNo = {o1}
  Fen = {1, 2}
  Channel = {1, 2}
  Payment = {p1, p2}
  Nil = Nil
  GiveUp = 2
  Delivered = 99
  MaxFaults = 1
  MaxLosses = 1
  MaxEdits = 1
  Worker = {w1}
  PayType = {"alipay", "stripe"}
  TypeOf <- TwoTypes
  Plugin <- TwoTypes
  PayMin <- Minimum
  PayMax <- Maximum
INVARIANT UniqueOrder
PROPERTY UnpaidEnds
CHECK_DEADLOCK FALSE
