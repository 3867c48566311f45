----------------------------- MODULE Backoffice -----------------------------
(***************************************************************************)
(* Administrators' requests of several statements (src/src/admin.rs): the   *)
(* login, the site settings and the edit of a merchant.  No transaction     *)
(* holds the statements together; other administrators come in between,     *)
(* and a statement may fail or take effect with its answer lost.            *)
(***************************************************************************)
EXTENDS Amounts, Sequences

CONSTANTS
  Admin,          \* browsers of administrators, one request at a time each
  Value,          \* what administrators type in the fields of the settings
  SettingsForms,  \* bound: forms of the settings and the login they post
  MerchantForms   \* bound: forms of a merchant they post

VARIABLES
  config,         \* pay_config
  merchant,       \* the row of a merchant in pay_user
  adm,            \* the request each administrator makes
  session,        \* the credentials each cookie was given for
  posted,         \* history: credentials that one form put in the settings
  torn            \* history: two requests met between the user name and the
                  \* password, and one of them was saving; or a save ended there

officeVars == <<config, merchant, adm, session, posted, torn>>

(* SETTING_KEYS in the order settings_update writes them.                  *)
Keys == <<"sitename", "admin_user", "admin_pwd", "pay_maxmoney", "pay_minmoney">>

UserKey == 2
PwdKey  == 3

Settings == [1 .. Len(Keys) -> Value]

Credentials(f) == <<f[UserKey], f[PwdKey]>>

MerchantForm ==
  [status : 0 .. 1, pay : 0 .. 1,
   min : Text \cup {NoText}, max : Text \cup {NoText},
   adjust : Text \cup {NoText}]

ASSUME BackofficeAssumption ==
  /\ SettingsForms \subseteq Settings
  /\ MerchantForms \subseteq MerchantForm
  /\ Value # {}

MerchantRow ==
  [status : 0 .. 1, pay : 0 .. 1,
   min : Text \cup {NoText}, max : Text \cup {NoText},
   money : Int]

(* k is the next setting to write; again, whether the form may be saved     *)
(* once more after an error; applied counts the adjustments made for the    *)
(* form, and unseen the error answers that hid one.                        *)
Request ==
  [pc      : {"idle", "user", "pwd", "save", "status", "limits", "adjust",
              "page", "error"},
   typed   : Settings \cup {NoText},
   found   : BOOLEAN,
   k       : 0 .. Len(Keys),
   form    : MerchantForm \cup {NoText},
   applied : Nat,
   unseen  : Nat]

NoRequest ==
  [pc |-> "idle", typed |-> NoText, found |-> FALSE, k |-> 0, form |-> NoText,
   applied |-> 0, unseen |-> 0]

OfficeTypeOK ==
  /\ config \in Settings
  /\ merchant \in MerchantRow
  /\ adm \in [Admin -> Request]
  /\ session \in [Admin -> (Value \X Value) \cup {NoText}]
  /\ posted \subseteq Value \X Value
  /\ torn \in BOOLEAN

At(a, pc) == adm[a].pc = pc

Goes(a, pc) == adm' = [adm EXCEPT ![a].pc = pc]

Ends(a) == adm' = [adm EXCEPT ![a] = NoRequest]

(* require_admin: a cookie that login_submit signed.                       *)
LoggedIn(a) == session[a] # NoText

-----------------------------------------------------------------------------
(* Where a user name has been read or written, and its password not yet.   *)

Between(a) == At(a, "pwd") \/ (At(a, "save") /\ adm[a].k = PwdKey)

Meets(a) ==
  \E b \in Admin \ {a} : Between(b) /\ (At(a, "save") \/ At(b, "save"))

-----------------------------------------------------------------------------
(* login_submit reads the two settings one after the other; a read that     *)
(* fails counts as a setting that is not there.                            *)

LoginBegin(a, f) ==
  /\ At(a, "idle")
  /\ adm' = [adm EXCEPT ![a].pc = "user", ![a].typed = f]
  /\ UNCHANGED <<config, merchant, session, posted, torn>>

LoginUser(a) ==
  /\ At(a, "user")
  /\ \E ok \in BOOLEAN :
       adm' = [adm EXCEPT ![a].pc = "pwd",
                 ![a].found = ok /\ config[UserKey] = adm[a].typed[UserKey]]
  /\ torn' = (torn \/ Meets(a))
  /\ UNCHANGED <<config, merchant, session, posted>>

(* Variant, for mutation: the password is not compared.                    *)
LoginPwdAny(a) ==
  /\ At(a, "pwd")
  /\ \/ /\ adm[a].found
        /\ session' = [session EXCEPT ![a] = Credentials(adm[a].typed)]
     \/ UNCHANGED session
  /\ torn' = (torn \/ Meets(a))
  /\ Ends(a)
  /\ UNCHANGED <<config, merchant, posted>>

LoginPwd(a) ==
  /\ At(a, "pwd")
  /\ \/ /\ adm[a].found /\ config[PwdKey] = adm[a].typed[PwdKey]
        /\ session' = [session EXCEPT ![a] = Credentials(adm[a].typed)]
     \/ UNCHANGED session                      \* refused, or the read failed
  /\ torn' = (torn \/ Meets(a))
  /\ Ends(a)
  /\ UNCHANGED <<config, merchant, posted>>

Logout(a) ==
  /\ At(a, "idle") /\ LoggedIn(a)
  /\ session' = [session EXCEPT ![a] = NoText]
  /\ UNCHANGED <<config, merchant, adm, posted, torn>>

-----------------------------------------------------------------------------
(* settings_update writes key after key and stops at the first failure.    *)

SettingsBegin(a, f) ==
  /\ At(a, "idle") /\ LoggedIn(a)
  /\ adm' = [adm EXCEPT ![a].pc = "save", ![a].typed = f, ![a].k = 1]
  /\ UNCHANGED <<config, merchant, session, posted, torn>>

(* Variant, for mutation: the loop does not stop at the last key.           *)
SettingsWritePast(a) ==
  LET k == adm[a].k IN
  /\ At(a, "save") /\ k <= Len(Keys)
  /\ config' = [config EXCEPT ![k] = adm[a].typed[k]]
  /\ posted' = IF k = PwdKey THEN posted \cup {Credentials(adm[a].typed)}
                             ELSE posted
  /\ adm' = [adm EXCEPT ![a].k = k + 1]
  /\ torn' = (torn \/ (k \in {UserKey, PwdKey} /\ Meets(a)))
  /\ UNCHANGED <<merchant, session>>

(* Variant, for mutation: the password is written with the user name's      *)
(* value.                                                                  *)
SettingsWriteSwapped(a) ==
  LET k == adm[a].k IN
  /\ At(a, "save")
  /\ config' = [config EXCEPT ![k] = adm[a].typed[IF k = PwdKey THEN UserKey ELSE k]]
  /\ posted' = IF k = PwdKey THEN posted \cup {Credentials(adm[a].typed)}
                             ELSE posted
  /\ IF k = Len(Keys) THEN Ends(a) ELSE adm' = [adm EXCEPT ![a].k = k + 1]
  /\ torn' = (torn \/ (k \in {UserKey, PwdKey} /\ Meets(a)))
  /\ UNCHANGED <<merchant, session>>

(* config_set, and whether the loop goes on.                               *)
SettingsWrite(a) ==
  LET k == adm[a].k IN
  /\ At(a, "save")
  /\ config' = [config EXCEPT ![k] = adm[a].typed[k]]
  /\ posted' = IF k = PwdKey THEN posted \cup {Credentials(adm[a].typed)}
                             ELSE posted
  /\ \/ /\ IF k = Len(Keys) THEN Ends(a)
                            ELSE adm' = [adm EXCEPT ![a].k = k + 1]
        /\ torn' = (torn \/ (k \in {UserKey, PwdKey} /\ Meets(a)))
     \/ /\ Ends(a)                              \* written, the answer lost
        /\ torn' = (torn \/ k = UserKey \/ (k = PwdKey /\ Meets(a)))
  /\ UNCHANGED <<merchant, session>>

(* A statement fails, or the handler is dropped.                           *)
SettingsStop(a) ==
  /\ At(a, "save")
  /\ torn' = (torn \/ adm[a].k = PwdKey)
  /\ Ends(a)
  /\ UNCHANGED <<config, merchant, session, posted>>

-----------------------------------------------------------------------------
(* merchant_update: status and pay, the limits, the balance, the page.     *)

MerchantBegin(a, f) ==
  /\ At(a, "idle") /\ LoggedIn(a)
  /\ adm' = [adm EXCEPT ![a].pc = "status", ![a].form = f]
  /\ UNCHANGED <<config, merchant, session, posted, torn>>

(* update_merchant_status and update_merchant_limits; whichever fails ends  *)
(* the request with an error, whether or not it took effect.               *)
MerchantStatus(a) ==
  LET f == adm[a].form IN
  /\ At(a, "status")
  /\ \/ /\ merchant' = [merchant EXCEPT !.status = f.status, !.pay = f.pay]
        /\ Goes(a, "limits") \/ Goes(a, "error")
     \/ UNCHANGED merchant /\ Goes(a, "error")
  /\ UNCHANGED <<config, session, posted, torn>>

MerchantLimits(a) ==
  LET f == adm[a].form IN
  /\ At(a, "limits")
  /\ \/ /\ merchant' = [merchant EXCEPT !.min = f.min, !.max = f.max]
        /\ Goes(a, "adjust") \/ Goes(a, "error")
     \/ UNCHANGED merchant /\ Goes(a, "error")
  /\ UNCHANGED <<config, session, posted, torn>>

(* An adjustment is made if the text, without its minus signs, is an amount *)
(* and the form does not say 0 or 0.00.                                    *)
Adjusts(x) ==
  /\ x # NoText
  /\ x # ColumnText(0) /\ x # [ColumnText(0) EXCEPT !.dots = 0, !.places = 0]
  /\ ParseYuanToFen([x EXCEPT !.minus = 0]) # NoAmount

(* money + ? in MySQL (external): two minus signs are no number, and the    *)
(* sum has to fit the column.                                              *)
Adjusted(x) ==
  merchant.money + (IF x.minus = 0 THEN Reading(x) ELSE - Reading(x))

Adjustable(x) == x.minus <= 1 /\ Adjusted(x) \in - MaxMoney .. MaxMoney

(* Variant, for mutation: an adjustment that fails is an error like others. *)
MerchantAdjustReported(a) ==
  LET x == adm[a].form.adjust IN
  /\ At(a, "adjust")
  /\ \/ /\ Adjusts(x) /\ Adjustable(x)
        /\ merchant' = [merchant EXCEPT !.money = Adjusted(x)]
        /\ \E pc \in {"page", "error"} :
             adm' = [adm EXCEPT ![a].pc = pc, ![a].applied = @ + 1]
     \/ Goes(a, "error") /\ UNCHANGED merchant
  /\ UNCHANGED <<config, session, posted, torn>>

(* The result of adjust_merchant_money is dropped: made or not, the request *)
(* goes on to the page.                                                    *)
MerchantAdjust(a) ==
  LET x == adm[a].form.adjust IN
  /\ At(a, "adjust")
  /\ \/ /\ Adjusts(x) /\ Adjustable(x)
        /\ merchant' = [merchant EXCEPT !.money = Adjusted(x)]
        /\ adm' = [adm EXCEPT ![a].pc = "page", ![a].applied = @ + 1]
     \/ Goes(a, "page") /\ UNCHANGED merchant
  /\ UNCHANGED <<config, session, posted, torn>>

(* render_merchant_detail reads the row again: the page says that all was   *)
(* saved, or the same error as above is answered.                          *)
MerchantPage(a) ==
  /\ At(a, "page")
  /\ \/ Ends(a)
     \/ adm' = [adm EXCEPT ![a].pc = "error", ![a].unseen = @ + 1]
  /\ UNCHANGED <<config, merchant, session, posted, torn>>

(* The administrator saves the form again after an error, or leaves it.    *)
MerchantAgain(a) ==
  /\ At(a, "error") /\ LoggedIn(a)
  /\ Goes(a, "status")
  /\ UNCHANGED <<config, merchant, session, posted, torn>>

MerchantLeave(a) ==
  /\ adm[a].pc \in {"status", "limits", "adjust", "page", "error"}
  /\ Ends(a)
  /\ UNCHANGED <<config, merchant, session, posted, torn>>

-----------------------------------------------------------------------------
OfficeInit ==
  /\ config \in {[k \in 1 .. Len(Keys) |-> v] : v \in Value}
  /\ merchant = [status |-> 1, pay |-> 1, min |-> NoText, max |-> NoText,
                 money |-> 0]
  /\ adm = [a \in Admin |-> NoRequest]
  /\ session = [a \in Admin |-> Credentials(config)]
  /\ posted = {Credentials(config)}
  /\ torn = FALSE

OfficeStep ==
  \E a \in Admin :
    \/ LoginUser(a)
    \/ LoginPwd(a)
    \/ Logout(a)
    \/ SettingsWrite(a)
    \/ SettingsStop(a)
    \/ MerchantStatus(a)
    \/ MerchantLimits(a)
    \/ MerchantAdjust(a)
    \/ MerchantPage(a)
    \/ MerchantLeave(a)

-----------------------------------------------------------------------------
(* Properties.                                                             *)

(* Whoever is let in as an administrator typed a user name and a password   *)
(* that one form of the settings held, though both are read and written in  *)
(* statements of their own: unless a save met another request between the   *)
(* two, or ended there (admin.rs:95-97, 1079-1083).                         *)
LoginWasPosted ==
  torn \/ \A a \in Admin : LoggedIn(a) => session[a] \in posted

(* The credentials in the settings are those of one form whenever no save   *)
(* is between the two; otherwise as above (admin.rs:1079-1083).             *)
CredentialsTogether ==
  \/ torn
  \/ \E a \in Admin : At(a, "save") /\ Between(a)
  \/ Credentials(config) \in posted

(* An administrator who saves a merchant's form again after every error     *)
(* adjusts the balance once, and once more for each error that came from    *)
(* reading the page when everything had been saved: the adjustment is the   *)
(* last statement and its result is dropped (admin.rs:350-362).             *)
AdjustedOnce == \A a \in Admin : adm[a].applied <= 1 + adm[a].unseen
=============================================================================
