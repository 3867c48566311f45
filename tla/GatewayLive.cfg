SPECIFICATION FairGatewaySpec
CONSTANTS
  TradeNo = {t1}
  Merchant = {m1}
  OutTradeNo = {o1}
  Fen = {1}
  Channel = {1, 2}
  Payment = {p1}
  Nil = Nil
  GiveUp = 1
  Delivered = 99
  MaxFaults = 0
  MaxLosses = 1
  MaxEdits = 1
  Worker = {w1}
  RetryTask = retry
  Limit = 1
  PayType = {"alipay", "stripe"}
  TypeOf <- TwoTypes
  Plugin <- TwoTypes
  PayMin <- Minimum
  PayMax <- Maximum
PROPERTIES CollectedIsRecorded NotifySettles
CHECK_DEADLOCK FALSE
