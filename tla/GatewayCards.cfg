SPECIFICATION GatewaySpec
CONSTANTS
  TradeNo = {t1, t2}
  Merchant = {m1}
  OutTradeNo = {o1, o2}
  Fen = {1, 2}
  Channel = {1, 2}
  Payment = {p1}
  Nil = Nil
  GiveUp = 1
  Delivered = 99
  MaxFaults = 1
  MaxLosses = 0
  MaxEdits = 0
  Worker = {w1}
  RetryTask = retry
  Limit = 1
  PayType = {"stripe", "paypal"}
  TypeOf <- CardTypes
  Plugin <- CardTypes
  PayMin <- Minimum
  PayMax <- Maximum
INVARIANTS PaidIsBacked AmountAgreed
SYMMETRY AllSymmetric
CHECK_DEADLOCK FALSE
