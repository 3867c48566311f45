SPECIFICATION CheckoutSpec
CONSTANTS
  TradeNo = {t1, t2}
  Merchant = {m1}
  OutTradeNo = {o1}
  Fen = {1}
  Channel = {1}
  Payment = {p1}
  Nil = Nil
  GiveUp = 2
  Delivered = 99
  MaxFaults = 0
  MaxLosses = 0
  MaxEdits = 0
  Worker = {w1, w2}
  PayType = {"alipay", "stripe"}
  TypeOf <- TwoTypes
  Plugin <- TwoTypes
  PayMin <- Minimum
  PayMax <- Maximum
INVARIANT UniqueOrder
CHECK_DEADLOCK FALSE
