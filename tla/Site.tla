-------------------------------- MODULE Site --------------------------------
(***************************************************************************)
(* Merchants' requests next to administrators': submit sees a merchant's    *)
(* switches and a channel's limits while they are edited.                   *)
(***************************************************************************)
EXTENDS Pricing, Backoffice

CONSTANT
  MaxRequests,   \* bound: requests that begin in a behaviour
  LimitForms     \* bound: limits that administrators give a channel

ASSUME SiteAssumption ==
  /\ MaxRequests \in Nat
  /\ LimitForms \subseteq Limits

VARIABLE requests   \* requests so far

siteVars == <<priceVars, officeVars, requests>>

SiteTypeOK ==
  /\ PriceTypeOK
  /\ OfficeTypeOK
  /\ requests \in 0 .. MaxRequests

(* submit refuses a merchant that is banned or whose payments are off.      *)
MayPay == merchant.status # 0 /\ merchant.pay # 0

Begins ==
  /\ requests < MaxRequests
  /\ requests' = requests + 1

MerchantsRequest(w, x, c) ==
  /\ Begins /\ MayPay
  /\ SubmitBegin(w, x, c)
  /\ UNCHANGED officeVars

ChannelRequest(a, c, l) ==
  /\ Begins
  /\ At(a, "idle") /\ LoggedIn(a)
  /\ ChannelUpdate(c, l)
  /\ UNCHANGED officeVars

AdminRequest(a) ==
  /\ Begins
  /\ \/ \E f \in SettingsForms : LoginBegin(a, f) \/ SettingsBegin(a, f)
     \/ \E f \in MerchantForms : MerchantBegin(a, f)
     \/ MerchantAgain(a)
  /\ UNCHANGED priceVars

SiteInit ==
  /\ PriceInit
  /\ OfficeInit
  /\ requests = 0

SiteNext ==
  \/ \E w \in Worker, x \in Sums, c \in Channel : MerchantsRequest(w, x, c)
  \/ \E a \in Admin, c \in Channel, l \in LimitForms : ChannelRequest(a, c, l)
  \/ \E a \in Admin : AdminRequest(a)
  \/ PriceStep /\ UNCHANGED <<officeVars, requests>>
  \/ OfficeStep /\ UNCHANGED <<priceVars, requests>>

SiteSpec == SiteInit /\ [][SiteNext]_siteVars
=============================================================================
