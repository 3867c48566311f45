SPECIFICATION GatewaySpec
CONSTANTS
  TradeNo = {t1}
  Merchant = {m1}
  OutTradeNo = {o1}
  Fen = {1}
  Channel = {1}
  Payment = {p1}
  Nil = Nil
  GiveUp = 1
  Delivered = 99
  MaxFaults = 1
  MaxLosses = 0
  MaxEdits = 0
  Worker = {w1}
  RetryTask = retry
  Limit = 1
  PayType = {"alipay"}
  TypeOf <- AllAlipay
  Plugin <- AllAlipay
  PayMin <- Minimum
  PayMax <- Maximum
INVARIANT AckedIsRecorded
CHECK_DEADLOCK FALSE
