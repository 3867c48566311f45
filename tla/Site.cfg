SPECIFICATION SiteSpec
CONSTANTS
  MaxFen = 299
  MaxMoney = 199
  RateNum = 72
  RateDen = 10
  NoText = NoText
  TradeNo = {t1, t2}
  Channel = {1, 2, 3}
  Plugin <- PluginOf
  Worker = {w1, w2}
  Sums <- SomeSums
  FirstLimits <- LimitsOf
  NoOrder = NoOrder
  Admin = {a1, a2}
  Value = {v1, v2}
  SettingsForms <- SomeSettings
  MerchantForms <- SomeForms
  MaxRequests = 3
  LimitForms <- SomeLimits
INVARIANTS SiteTypeOK ChargedIsExpected PaidBySettling ChargedWithinLimits LoginWasPosted CredentialsTogether AdjustedOnce
SYMMETRY Symmetric
CHECK_DEADLOCK FALSE
