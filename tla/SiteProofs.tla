----------------------------- MODULE SiteProofs ------------------------------
(***************************************************************************)
(* Proofs about Backoffice and Site.  The three properties of the office    *)
(* follow from what holds while no save meets another request between the   *)
(* user name and the password: at most one request is there with a save,    *)
(* and the user name it read or wrote is still the one in the settings.     *)
(***************************************************************************)
EXTENDS Site, PricingProofs

LEMMA KeysAre ==
  Len(Keys) = 5 /\ UserKey \in 1 .. Len(Keys) /\ PwdKey \in 1 .. Len(Keys)
BY DEF Keys, UserKey, PwdKey

LEMMA CredentialsAre ==
  ASSUME NEW f \in Settings
  PROVE  Credentials(f) \in Value \X Value
BY KeysAre DEF Settings, Credentials

-----------------------------------------------------------------------------
(* What a request is made of at each of its points.                        *)
RequestOK(a) ==
  LET r == adm[a] IN
  /\ r.pc \in {"user", "pwd", "save"} => r.typed \in Settings
  /\ r.pc = "save" => r.k \in 1 .. Len(Keys)
  /\ r.pc \in {"status", "limits", "adjust", "page", "error"}
       => r.form \in MerchantForm
  /\ r.applied <= r.unseen + (IF r.pc = "page" THEN 1 ELSE 0)

Saving(a) == At(a, "save") /\ Between(a)

Apart ==
  \A a \in Admin, b \in Admin : a # b /\ Between(a) /\ Between(b) => ~ At(a, "save")

Held ==
  \A a \in Admin : Between(a) /\ (At(a, "save") \/ adm[a].found)
                   => config[UserKey] = adm[a].typed[UserKey]

Together == (\E a \in Admin : Saving(a)) \/ Credentials(config) \in posted

Posted == \A a \in Admin : LoggedIn(a) => session[a] \in posted

Serial == Apart /\ Held /\ Together /\ Posted

OfficeInv ==
  /\ OfficeTypeOK
  /\ \A a \in Admin : RequestOK(a)
  /\ ~ torn => Serial

(* The request of one administrator moves.                                 *)
OnlyMoves(a) ==
  /\ adm' \in [Admin -> Request]
  /\ \A b \in Admin : b # a => adm'[b] = adm[b]

LEMMA OthersOK ==
  ASSUME OfficeInv, NEW a \in Admin, OnlyMoves(a), RequestOK(a)'
  PROVE  \A b \in Admin : RequestOK(b)'
<1> SUFFICES ASSUME NEW b \in Admin, b # a PROVE RequestOK(b)'
  OBVIOUS
<1> QED  BY DEF OfficeInv, OnlyMoves, RequestOK

(* A request that was not saving the credentials, and is not between the    *)
(* two now, disturbs nothing.                                              *)
LEMMA OutsideKeeps ==
  ASSUME OfficeInv, NEW a \in Admin, OnlyMoves(a), ~ Saving(a),
         ~ Between(a)', UNCHANGED <<posted, torn>>,
         config'[UserKey] = config[UserKey], config'[PwdKey] = config[PwdKey],
         \A b \in Admin : LoggedIn(b)' => session'[b] = session[b] \/ (~ torn => session'[b] \in posted)
  PROVE  ~ torn' => Serial'
<1> SUFFICES ASSUME ~ torn PROVE Serial'
  OBVIOUS
<1>1. Serial
  BY DEF OfficeInv
<1>2. \A b \in Admin : Between(b)' => b # a /\ Between(b) /\ adm'[b] = adm[b]
  BY DEF OnlyMoves, Between, At
<1>3. Apart'
  BY <1>1, <1>2 DEF Serial, Apart, At
<1>4. Held'
  BY <1>1, <1>2 DEF Serial, Held, At
<1>5. Together'
  <2>1. CASE Credentials(config) \in posted
    BY <2>1 DEF Together, Credentials
  <2>2. ASSUME NEW b \in Admin, Saving(b) PROVE Together'
    <3>1. b # a /\ adm'[b] = adm[b]
      BY <2>2 DEF OnlyMoves
    <3>2. Saving(b)'
      BY <2>2, <3>1 DEF Saving, Between, At
    <3> QED  BY <3>2 DEF Together
  <2> QED  BY <1>1, <2>1, <2>2 DEF Serial, Together
<1>6. Posted'
  BY <1>1 DEF Serial, Posted, LoggedIn
<1> QED  BY <1>3, <1>4, <1>5, <1>6 DEF Serial

(* Logout is such a step, though no request moves.                         *)
LEMMA LogoutKeepsInv ==
  ASSUME OfficeInv, NEW a \in Admin, Logout(a)
  PROVE  OfficeInv'
<1>1. /\ UNCHANGED <<config, merchant, adm, posted, torn>>
      /\ session' = [session EXCEPT ![a] = NoText] /\ At(a, "idle")
      /\ OfficeTypeOK
  BY DEF Logout, OfficeInv
<1>2. OfficeTypeOK'
  BY <1>1 DEF OfficeTypeOK
<1>3. OnlyMoves(a) /\ ~ Saving(a) /\ ~ Between(a)'
  BY <1>1 DEF OnlyMoves, OfficeTypeOK, Saving, Between, At
<1>4. \A b \in Admin : LoggedIn(b)' => session'[b] = session[b]
  BY <1>1 DEF LoggedIn, OfficeTypeOK
<1>5. ~ torn' => Serial'
  BY <1>1, <1>3, <1>4, OutsideKeeps
<1>6. RequestOK(a)'
  BY <1>1 DEF OfficeInv, RequestOK
<1> QED  BY <1>2, <1>3, <1>5, <1>6, OthersOK DEF OfficeInv

(* A step of a request that touches neither the settings nor a session.     *)
LEMMA OutsideKeepsInv ==
  ASSUME OfficeInv, NEW a \in Admin, NEW r \in Request,
         adm' = [adm EXCEPT ![a] = r], merchant' \in MerchantRow,
         ~ Saving(a), r.pc # "pwd", r.pc = "save" => r.k = 1,
         UNCHANGED <<config, session, posted, torn>>, RequestOK(a)'
  PROVE  OfficeInv'
<1>1. OfficeTypeOK'
  BY DEF OfficeInv, OfficeTypeOK
<1>2. OnlyMoves(a) /\ adm'[a] = r
  BY DEF OfficeInv, OfficeTypeOK, OnlyMoves
<1>3. ~ Between(a)'
  BY <1>2 DEF Between, At, PwdKey
<1>4. ~ torn' => Serial'
  BY <1>2, <1>3, OutsideKeeps
<1> QED  BY <1>1, <1>2, <1>4, OthersOK DEF OfficeInv

LEMMA OfficeBegins ==
  ASSUME OfficeInv, NEW a \in Admin,
         \/ \E f \in SettingsForms : LoginBegin(a, f) \/ SettingsBegin(a, f)
         \/ \E f \in MerchantForms : MerchantBegin(a, f)
         \/ MerchantAgain(a)
  PROVE  OfficeInv'
<1>1. /\ adm[a] \in Request /\ RequestOK(a) /\ merchant \in MerchantRow
      /\ adm \in [Admin -> Request]
  BY DEF OfficeInv, OfficeTypeOK
<1>2. ASSUME NEW f \in SettingsForms, LoginBegin(a, f) PROVE OfficeInv'
  <2> DEFINE r == [adm[a] EXCEPT !.pc = "user", !.typed = f]
  <2>1. f \in Settings
    BY BackofficeAssumption
  <2>2. /\ r \in Request /\ adm' = [adm EXCEPT ![a] = r] /\ r.pc = "user"
        /\ UNCHANGED <<config, merchant, session, posted, torn>>
    BY <1>1, <1>2, <2>1 DEF LoginBegin, Request
  <2>3. RequestOK(a)'
    BY <1>1, <1>2, <2>1 DEF RequestOK, LoginBegin, At, Request
  <2>4. ~ Saving(a)
    BY <1>2 DEF LoginBegin, Saving, At
  <2> HIDE DEF r
  <2> QED  BY <1>1, <2>2, <2>3, <2>4, OutsideKeepsInv
<1>3. ASSUME NEW f \in SettingsForms, SettingsBegin(a, f) PROVE OfficeInv'
  <2> DEFINE r == [adm[a] EXCEPT !.pc = "save", !.typed = f, !.k = 1]
  <2>1. f \in Settings /\ 1 \in 1 .. Len(Keys) /\ 1 \in 0 .. Len(Keys)
    BY BackofficeAssumption, KeysAre
  <2>2. /\ r \in Request /\ adm' = [adm EXCEPT ![a] = r]
        /\ r.pc = "save" /\ r.k = 1
        /\ UNCHANGED <<config, merchant, session, posted, torn>>
    BY <1>1, <1>3, <2>1 DEF SettingsBegin, Request
  <2>3. RequestOK(a)'
    BY <1>1, <1>3, <2>1 DEF RequestOK, SettingsBegin, At, Request
  <2>4. ~ Saving(a)
    BY <1>3 DEF SettingsBegin, Saving, At
  <2> HIDE DEF r
  <2> QED  BY <1>1, <2>2, <2>3, <2>4, OutsideKeepsInv
<1>4. ASSUME NEW f \in MerchantForms, MerchantBegin(a, f) PROVE OfficeInv'
  <2> DEFINE r == [adm[a] EXCEPT !.pc = "status", !.form = f]
  <2>1. f \in MerchantForm
    BY BackofficeAssumption
  <2>2. /\ r \in Request /\ adm' = [adm EXCEPT ![a] = r] /\ r.pc = "status"
        /\ UNCHANGED <<config, merchant, session, posted, torn>>
    BY <1>1, <1>4, <2>1 DEF MerchantBegin, Request
  <2>3. RequestOK(a)'
    BY <1>1, <1>4, <2>1 DEF RequestOK, MerchantBegin, At, Request
  <2>4. ~ Saving(a)
    BY <1>4 DEF MerchantBegin, Saving, At
  <2> HIDE DEF r
  <2> QED  BY <1>1, <2>2, <2>3, <2>4, OutsideKeepsInv
<1>5. CASE MerchantAgain(a)
  <2> DEFINE r == [adm[a] EXCEPT !.pc = "status"]
  <2>2. /\ r \in Request /\ adm' = [adm EXCEPT ![a] = r] /\ r.pc = "status"
        /\ UNCHANGED <<config, merchant, session, posted, torn>>
    BY <1>1, <1>5 DEF MerchantAgain, Goes, Request
  <2>3. RequestOK(a)'
    BY <1>1, <1>5 DEF RequestOK, MerchantAgain, Goes, At, Request
  <2>4. ~ Saving(a)
    BY <1>5 DEF MerchantAgain, Saving, At
  <2> HIDE DEF r
  <2> QED  BY <1>1, <2>2, <2>3, <2>4, OutsideKeepsInv
<1> QED  BY <1>2, <1>3, <1>4, <1>5

LEMMA NoRequestOK ==
  ASSUME NEW a \in Admin, adm' = [adm EXCEPT ![a] = NoRequest],
         adm \in [Admin -> Request]
  PROVE  /\ NoRequest \in Request /\ OnlyMoves(a)
         /\ ~ Between(a)' /\ RequestOK(a)'
<1>1. NoRequest \in Request
  BY KeysAre DEF NoRequest, Request
<1>2. adm'[a] = NoRequest /\ OnlyMoves(a)
  BY <1>1 DEF OnlyMoves
<1>3. ~ Between(a)' /\ RequestOK(a)'
  BY <1>2 DEF NoRequest, Between, At, RequestOK
<1> QED  BY <1>1, <1>2, <1>3

LEMMA EndsKeepsInv ==
  ASSUME OfficeInv, NEW a \in Admin, Ends(a), ~ Saving(a),
         UNCHANGED <<config, merchant, session, posted, torn>>
  PROVE  OfficeInv'
<1>1. adm' = [adm EXCEPT ![a] = NoRequest] /\ adm \in [Admin -> Request]
      /\ merchant' \in MerchantRow
  BY DEF Ends, OfficeInv, OfficeTypeOK
<1>2. NoRequest \in Request /\ RequestOK(a)'
  BY <1>1, NoRequestOK
<1>3. NoRequest.pc = "idle"
  BY DEF NoRequest
<1> QED  BY <1>1, <1>2, <1>3, OutsideKeepsInv

(* An edit of a merchant goes from one of its points to another.           *)
LEMMA EditKeepsInv ==
  ASSUME OfficeInv, NEW a \in Admin, NEW pc, Goes(a, pc),
         adm[a].pc \in {"status", "limits", "adjust"},
         pc \in {"limits", "adjust", "page", "error"},
         merchant' \in MerchantRow,
         UNCHANGED <<config, session, posted, torn>>
  PROVE  OfficeInv'
<1> DEFINE r == [adm[a] EXCEPT !.pc = pc]
<1>1. /\ adm[a] \in Request /\ RequestOK(a) /\ adm \in [Admin -> Request]
  BY DEF OfficeInv, OfficeTypeOK
<1>2. r \in Request /\ adm' = [adm EXCEPT ![a] = r] /\ r.pc = pc
  BY <1>1 DEF Goes, Request
<1>3. RequestOK(a)'
  BY <1>1 DEF RequestOK, Goes, Request
<1>4. ~ Saving(a)
  BY DEF Saving, At
<1> HIDE DEF r
<1> QED  BY <1>2, <1>3, <1>4, OutsideKeepsInv

LEMMA MerchantKeepsInv ==
  ASSUME OfficeInv, NEW a \in Admin,
         \/ MerchantStatus(a)
         \/ MerchantLimits(a)
         \/ MerchantAdjust(a)
         \/ MerchantPage(a)
         \/ MerchantLeave(a)
  PROVE  OfficeInv'
<1>1. /\ adm[a] \in Request /\ RequestOK(a) /\ merchant \in MerchantRow
      /\ adm \in [Admin -> Request]
  BY DEF OfficeInv, OfficeTypeOK
<1>2. CASE MerchantStatus(a)
  <2>1. adm[a].form \in MerchantForm /\ adm[a].pc = "status"
    BY <1>1, <1>2 DEF RequestOK, MerchantStatus, At
  <2>2. merchant' \in MerchantRow
    BY <1>1, <1>2, <2>1 DEF MerchantStatus, MerchantRow, MerchantForm
  <2>3. Goes(a, "limits") \/ Goes(a, "error")
    BY <1>2 DEF MerchantStatus
  <2>4. UNCHANGED <<config, session, posted, torn>>
    BY <1>2 DEF MerchantStatus
  <2> QED  BY <2>1, <2>2, <2>3, <2>4, EditKeepsInv
<1>3. CASE MerchantLimits(a)
  <2>1. adm[a].form \in MerchantForm /\ adm[a].pc = "limits"
    BY <1>1, <1>3 DEF RequestOK, MerchantLimits, At
  <2>2. merchant' \in MerchantRow
    BY <1>1, <1>3, <2>1 DEF MerchantLimits, MerchantRow, MerchantForm
  <2>3. Goes(a, "adjust") \/ Goes(a, "error")
    BY <1>3 DEF MerchantLimits
  <2>4. UNCHANGED <<config, session, posted, torn>>
    BY <1>3 DEF MerchantLimits
  <2> QED  BY <2>1, <2>2, <2>3, <2>4, EditKeepsInv
<1>4. CASE MerchantAdjust(a)
  <2>1. adm[a].pc = "adjust" /\ UNCHANGED <<config, session, posted, torn>>
    BY <1>4 DEF MerchantAdjust, At
  <2>2. CASE Goes(a, "page") /\ UNCHANGED merchant
    BY <1>1, <2>1, <2>2, EditKeepsInv
  <2>3. ASSUME NEW x, x = adm[a].form.adjust, Adjustable(x),
               merchant' = [merchant EXCEPT !.money = Adjusted(x)],
               adm' = [adm EXCEPT ![a].pc = "page", ![a].applied = @ + 1]
        PROVE  OfficeInv'
    <3> DEFINE r == [adm[a] EXCEPT !.pc = "page", !.applied = @ + 1]
    <3>1. Adjusted(x) \in Int
      BY <2>3, AmountsAssumption DEF Adjustable
    <3>2. merchant' \in MerchantRow
      BY <1>1, <2>3, <3>1 DEF MerchantRow
    <3>3. r \in Request /\ adm' = [adm EXCEPT ![a] = r] /\ r.pc = "page"
      BY <1>1, <2>3 DEF Request
    <3>4. RequestOK(a)'
      BY <1>1, <2>1, <2>3 DEF RequestOK, Request
    <3>5. ~ Saving(a)
      BY <2>1 DEF Saving, At
    <3> HIDE DEF r
    <3> QED  BY <2>1, <3>2, <3>3, <3>4, <3>5, OutsideKeepsInv
  <2> QED  BY <1>4, <2>2, <2>3 DEF MerchantAdjust
<1>5. CASE MerchantPage(a)
  <2>1. /\ adm[a].pc = "page" /\ ~ Saving(a)
        /\ UNCHANGED <<config, merchant, session, posted, torn>>
    BY <1>5 DEF MerchantPage, At, Saving
  <2>2. CASE Ends(a)
    BY <2>1, <2>2, EndsKeepsInv
  <2>3. CASE adm' = [adm EXCEPT ![a].pc = "error", ![a].unseen = @ + 1]
    <3> DEFINE r == [adm[a] EXCEPT !.pc = "error", !.unseen = @ + 1]
    <3>1. /\ r \in Request /\ r.pc = "error"
          /\ adm' = [adm EXCEPT ![a] = r]
      <4>1. r \in Request /\ r.pc = "error"
        <5>1. adm[a].unseen + 1 \in Nat
          BY <1>1 DEF Request
        <5> QED  BY <1>1, <5>1 DEF Request
      <4>2. adm' = [adm EXCEPT ![a] = r]
        BY <2>3
      <4> QED  BY <4>1, <4>2
    <3>2. RequestOK(a)'
      BY <1>1, <2>1, <2>3 DEF RequestOK, Request
    <3> HIDE DEF r
    <3> QED  BY <1>1, <2>1, <3>1, <3>2, OutsideKeepsInv
  <2> QED  BY <1>5, <2>2, <2>3 DEF MerchantPage
<1>6. CASE MerchantLeave(a)
  <2>1. ~ Saving(a)
    BY <1>6 DEF MerchantLeave, Saving, At
  <2> QED  BY <1>6, <2>1, EndsKeepsInv DEF MerchantLeave
<1> QED  BY <1>2, <1>3, <1>4, <1>5, <1>6

-----------------------------------------------------------------------------
LEMMA LoginUserKeepsInv ==
  ASSUME OfficeInv, NEW a \in Admin, LoginUser(a)
  PROVE  OfficeInv'
<1>1. /\ adm[a] \in Request /\ RequestOK(a) /\ adm \in [Admin -> Request]
      /\ adm[a].pc = "user" /\ UNCHANGED <<config, merchant, session, posted>>
      /\ torn' = (torn \/ Meets(a)) /\ torn \in BOOLEAN
  BY DEF OfficeInv, OfficeTypeOK, LoginUser, At
<1>2. PICK ok \in BOOLEAN :
        adm' = [adm EXCEPT ![a].pc = "pwd",
                  ![a].found = ok /\ config[UserKey] = adm[a].typed[UserKey]]
  BY DEF LoginUser
<1>3. /\ OnlyMoves(a) /\ adm'[a].pc = "pwd" /\ adm'[a].typed = adm[a].typed
      /\ adm'[a].found => config[UserKey] = adm[a].typed[UserKey]
  BY <1>1, <1>2 DEF OnlyMoves, Request
<1>4. RequestOK(a)'
  BY <1>1, <1>2 DEF RequestOK, Request
<1>5. OfficeTypeOK'
  <2>1. torn' \in BOOLEAN
    BY <1>1
  <2> QED  BY <1>1, <1>3, <2>1 DEF OfficeInv, OfficeTypeOK, OnlyMoves
<1>6. ASSUME ~ torn' PROVE Serial'
  <2>1. Serial /\ ~ Meets(a)
    BY <1>1, <1>6 DEF OfficeInv
  <2>2. \A b \in Admin : b # a => adm'[b] = adm[b] /\ (Between(b)' <=> Between(b))
    BY <1>3 DEF OnlyMoves, Between, At
  <2>3. \A b \in Admin : ~ Saving(b)
    BY <1>1, <2>1 DEF Meets, Saving, At
  <2>4. Apart'
    <3> SUFFICES ASSUME NEW b \in Admin, NEW c \in Admin,
                        Between(b)', At(b, "save")'
                 PROVE  FALSE
      BY DEF Apart
    <3>1. b # a
      BY <1>3 DEF At
    <3> QED  BY <2>2, <2>3, <3>1 DEF Saving, At
  <2>5. Held'
    BY <1>1, <1>3, <2>1, <2>2 DEF Serial, Held, At
  <2>6. Together'
    BY <1>1, <2>1, <2>3 DEF Serial, Together
  <2>7. Posted'
    BY <1>1, <2>1 DEF Serial, Posted, LoggedIn
  <2> QED  BY <2>4, <2>5, <2>6, <2>7 DEF Serial
<1> QED  BY <1>3, <1>4, <1>5, <1>6, OthersOK DEF OfficeInv

LEMMA LoginPwdKeepsInv ==
  ASSUME OfficeInv, NEW a \in Admin, LoginPwd(a)
  PROVE  OfficeInv'
<1>1. /\ adm[a] \in Request /\ RequestOK(a) /\ adm \in [Admin -> Request]
      /\ adm[a].pc = "pwd" /\ UNCHANGED <<config, merchant, posted>>
      /\ \/ /\ adm[a].found /\ config[PwdKey] = adm[a].typed[PwdKey]
            /\ session' = [session EXCEPT ![a] = Credentials(adm[a].typed)]
         \/ UNCHANGED session
      /\ torn' = (torn \/ Meets(a)) /\ torn \in BOOLEAN
      /\ adm' = [adm EXCEPT ![a] = NoRequest]
  BY DEF OfficeInv, OfficeTypeOK, LoginPwd, Ends, At
<1>2. Between(a) /\ ~ Saving(a) /\ Credentials(adm[a].typed) \in Value \X Value
  BY <1>1, CredentialsAre DEF Between, Saving, At, RequestOK
<1>3. OnlyMoves(a) /\ ~ Between(a)' /\ RequestOK(a)'
  BY <1>1, NoRequestOK
<1>4. OfficeTypeOK'
  <2>1. torn' \in BOOLEAN
    BY <1>1
  <2>2. session' \in [Admin -> (Value \X Value) \cup {NoText}]
    BY <1>1, <1>2 DEF OfficeInv, OfficeTypeOK
  <2> QED  BY <1>1, <1>3, <2>1, <2>2 DEF OfficeInv, OfficeTypeOK, OnlyMoves
<1>5. ASSUME ~ torn' PROVE Serial'
  <2>1. Serial /\ ~ Meets(a) /\ ~ torn
    BY <1>1, <1>5 DEF OfficeInv
  <2>2. Credentials(config) \in posted
    BY <1>1, <1>2, <2>1 DEF Serial, Apart, Together, Saving, At
  <2>3. ASSUME adm[a].found, config[PwdKey] = adm[a].typed[PwdKey]
        PROVE  Credentials(adm[a].typed) \in posted
    BY <1>2, <2>1, <2>2, <2>3 DEF Serial, Held, Credentials
  <2>4. \A b \in Admin : session'[b] = session[b] \/ session'[b] \in posted
    BY <1>1, <2>3 DEF OfficeInv, OfficeTypeOK
  <2>5. UNCHANGED <<posted, torn, config>>
    BY <1>1, <2>1
  <2> QED  BY <1>2, <1>3, <2>1, <2>4, <2>5, OutsideKeeps
<1> QED  BY <1>3, <1>4, <1>5, OthersOK DEF OfficeInv

LEMMA SettingsWriteKeepsInv ==
  ASSUME OfficeInv, NEW a \in Admin, SettingsWrite(a)
  PROVE  OfficeInv'
<1> SUFFICES ASSUME NEW k, k = adm[a].k, NEW f, f = adm[a].typed
             PROVE  OfficeInv'
  OBVIOUS
<1>1. /\ adm[a] \in Request /\ RequestOK(a) /\ adm \in [Admin -> Request]
      /\ adm[a].pc = "save" /\ UNCHANGED <<merchant, session>>
      /\ config \in Settings /\ torn \in BOOLEAN
      /\ config' = [config EXCEPT ![k] = f[k]]
      /\ posted' = IF k = PwdKey THEN posted \cup {Credentials(f)} ELSE posted
      /\ \/ /\ \/ k = Len(Keys) /\ Ends(a)
               \/ k # Len(Keys) /\ adm' = [adm EXCEPT ![a].k = k + 1]
            /\ torn' = (torn \/ (k \in {UserKey, PwdKey} /\ Meets(a)))
         \/ /\ Ends(a)
            /\ torn' = (torn \/ k = UserKey \/ (k = PwdKey /\ Meets(a)))
  BY DEF OfficeInv, OfficeTypeOK, SettingsWrite, At
<1>2. /\ k \in 1 .. 5 /\ Len(Keys) = 5 /\ f \in Settings
      /\ Credentials(f) \in Value \X Value /\ f[k] \in Value
  BY <1>1, KeysAre, CredentialsAre DEF RequestOK, Settings
<1>3. config' \in Settings /\ posted' \subseteq Value \X Value
  BY <1>1, <1>2, KeysAre DEF Settings, OfficeInv, OfficeTypeOK
<1>4. /\ OnlyMoves(a) /\ RequestOK(a)'
      /\ Between(a)' => k = UserKey /\ adm'[a].pc = "save" /\ adm'[a].typed = f
  <2>1. CASE Ends(a)
    BY <1>1, <2>1, NoRequestOK DEF Ends
  <2>2. CASE k # Len(Keys) /\ adm' = [adm EXCEPT ![a].k = k + 1]
    <3>1. k + 1 \in 1 .. Len(Keys) /\ k + 1 \in 0 .. Len(Keys)
      BY <1>2, <2>2
    <3>2. /\ OnlyMoves(a) /\ adm'[a].k = k + 1
          /\ adm'[a].pc = "save" /\ adm'[a].typed = f
      BY <1>1, <2>2, <3>1 DEF OnlyMoves, Request
    <3>3. RequestOK(a)'
      BY <1>1, <2>2, <3>1 DEF RequestOK, Request
    <3>4. k + 1 = PwdKey => k = UserKey
      BY <1>2 DEF PwdKey, UserKey
    <3> QED  BY <3>2, <3>3, <3>4 DEF Between, At
  <2> QED  BY <1>1, <2>1, <2>2
<1>5. torn' \in BOOLEAN
  BY <1>1
<1>6. OfficeTypeOK'
  BY <1>1, <1>3, <1>4, <1>5 DEF OfficeInv, OfficeTypeOK, OnlyMoves
<1>7. ASSUME ~ torn' PROVE Serial'
  <2>1. Serial /\ ~ torn
    BY <1>1, <1>7 DEF OfficeInv
  <2>2. \A b \in Admin : b # a => adm'[b] = adm[b] /\ (Between(b)' <=> Between(b))
    BY <1>4 DEF OnlyMoves, Between, At
  <2>3. CASE k \notin {UserKey, PwdKey}
    <3>1. ~ Saving(a) /\ ~ Between(a)'
      BY <1>1, <1>4, <2>3 DEF Saving, Between, At
    <3>2. /\ config'[UserKey] = config[UserKey] /\ config'[PwdKey] = config[PwdKey]
          /\ UNCHANGED <<posted, torn>>
      BY <1>1, <1>2, <1>7, <2>1, <2>3, KeysAre DEF Settings
    <3> QED  BY <1>1, <1>4, <1>7, <3>1, <3>2, OutsideKeeps
  <2>4. CASE k \in {UserKey, PwdKey}
    <3>1. \A b \in Admin : b # a => ~ Between(b)
      BY <1>1, <1>2, <1>7, <2>4 DEF Meets, At, UserKey, PwdKey
    <3>2. Apart'
      BY <2>2, <3>1 DEF Apart
    <3>3. Held'
      <4> SUFFICES ASSUME Between(a)'
                   PROVE  config'[UserKey] = adm'[a].typed[UserKey]
        BY <2>2, <3>1 DEF Held
      <4> QED  BY <1>1, <1>2, <1>4, KeysAre DEF Settings
    <3>4. Together'
      <4>1. CASE k = UserKey
        <5>1. /\ k # Len(Keys)
              /\ adm' = [adm EXCEPT ![a].k = k + 1]
          <6>1. k # Len(Keys)
            BY <1>2, <4>1 DEF UserKey
          <6> QED  BY <1>1, <1>7, <4>1, <6>1, Zenon
        <5>2. adm'[a].pc = "save" /\ adm'[a].k = k + 1 /\ k + 1 = PwdKey
          BY <1>1, <4>1, <5>1 DEF Request, UserKey, PwdKey
        <5> QED  BY <5>2 DEF Together, Saving, Between, At
      <4>2. CASE k = PwdKey
        <5>1. config[UserKey] = f[UserKey]
          BY <1>1, <2>1, <4>2 DEF Serial, Held, Between, At
        <5>2. config'[UserKey] = f[UserKey] /\ config'[PwdKey] = f[PwdKey]
          BY <1>1, <1>2, <4>2, <5>1, KeysAre DEF Settings, UserKey, PwdKey
        <5>3. Credentials(f) \in posted'
          BY <1>1, <4>2
        <5> QED  BY <5>2, <5>3 DEF Together, Credentials
      <4> QED  BY <2>4, <4>1, <4>2
    <3>5. Posted'
      <4>1. posted \subseteq posted'
        BY <1>1
      <4> QED  BY <1>1, <2>1, <4>1 DEF Serial, Posted, LoggedIn
    <3> QED  BY <3>2, <3>3, <3>4, <3>5 DEF Serial
  <2> QED  BY <2>3, <2>4
<1> QED  BY <1>4, <1>6, <1>7, OthersOK DEF OfficeInv

LEMMA SettingsStopKeepsInv ==
  ASSUME OfficeInv, NEW a \in Admin, SettingsStop(a)
  PROVE  OfficeInv'
<1>1. /\ adm[a].pc = "save" /\ UNCHANGED <<config, merchant, session, posted>>
      /\ adm \in [Admin -> Request] /\ adm' = [adm EXCEPT ![a] = NoRequest]
      /\ torn' = (torn \/ adm[a].k = PwdKey) /\ torn \in BOOLEAN
  BY DEF OfficeInv, OfficeTypeOK, SettingsStop, Ends, At
<1>2. OnlyMoves(a) /\ ~ Between(a)' /\ RequestOK(a)'
  BY <1>1, NoRequestOK
<1>3. torn' \in BOOLEAN
  BY <1>1
<1>4. OfficeTypeOK'
  BY <1>1, <1>2, <1>3 DEF OfficeInv, OfficeTypeOK, OnlyMoves
<1>5. ASSUME ~ torn' PROVE Serial'
  <2>1. ~ Saving(a) /\ UNCHANGED <<torn, posted>>
    BY <1>1, <1>5 DEF Saving, Between, At
  <2> QED  BY <1>1, <1>2, <1>5, <2>1, OutsideKeeps
<1> QED  BY <1>2, <1>4, <1>5, OthersOK DEF OfficeInv

LEMMA OfficeInitInv == OfficeInit => OfficeInv
<1> SUFFICES ASSUME OfficeInit PROVE OfficeInv
  OBVIOUS
<1>1. NoRequest \in Request
  BY KeysAre DEF NoRequest, Request
<1>2. config \in Settings
  BY DEF OfficeInit, Settings
<1>3. Credentials(config) \in Value \X Value
  BY <1>2, CredentialsAre
<1>4. OfficeTypeOK
  <2>1. merchant \in MerchantRow
    BY DEF OfficeInit, MerchantRow
  <2>2. /\ adm \in [Admin -> Request]
        /\ session \in [Admin -> (Value \X Value) \cup {NoText}]
        /\ posted \subseteq Value \X Value
    BY <1>1, <1>3 DEF OfficeInit
  <2> QED  BY <1>2, <2>1, <2>2 DEF OfficeInit, OfficeTypeOK
<1>5. \A a \in Admin : RequestOK(a)
  BY DEF OfficeInit, RequestOK, NoRequest
<1>6. Serial
  BY DEF OfficeInit, Serial, Apart, Held, Together, Posted, NoRequest, Between, At
<1> QED  BY <1>4, <1>5, <1>6 DEF OfficeInv

LEMMA OfficeStepInv ==
  ASSUME OfficeInv, OfficeStep
  PROVE  OfficeInv'
BY LoginUserKeepsInv, LoginPwdKeepsInv, LogoutKeepsInv, SettingsWriteKeepsInv,
   SettingsStopKeepsInv, MerchantKeepsInv DEF OfficeStep

LEMMA OfficeStutterInv == OfficeInv /\ UNCHANGED officeVars => OfficeInv'
BY DEF OfficeInv, OfficeTypeOK, Request, MerchantRow, RequestOK, Serial, Apart,
       Held, Together, Posted, Saving, Between, At, LoggedIn, officeVars

LEMMA OfficeInvGives ==
  ASSUME OfficeInv
  PROVE  LoginWasPosted /\ CredentialsTogether /\ AdjustedOnce
<1>1. LoginWasPosted
  BY DEF OfficeInv, Serial, Posted, LoginWasPosted
<1>2. CredentialsTogether
  BY DEF OfficeInv, Serial, Together, Saving, CredentialsTogether
<1>3. AdjustedOnce
  <2> SUFFICES ASSUME NEW a \in Admin
               PROVE  adm[a].applied <= 1 + adm[a].unseen
    BY DEF AdjustedOnce
  <2>1. adm[a] \in Request /\ RequestOK(a)
    BY DEF OfficeInv, OfficeTypeOK
  <2>2. adm[a].applied \in Nat /\ adm[a].unseen \in Nat
    BY <2>1 DEF Request
  <2> QED  BY <2>1, <2>2 DEF RequestOK
<1> QED  BY <1>1, <1>2, <1>3

-----------------------------------------------------------------------------
SiteInv == PriceInv /\ OfficeInv /\ requests \in 0 .. MaxRequests

(* No step of a merchant's or an administrator's request breaks what the    *)
(* other relies on.                                                        *)
LEMMA SiteInvHolds == SiteSpec => []SiteInv
<1>1. SiteInit => SiteInv
  BY PriceInitInv, OfficeInitInv, SiteAssumption DEF SiteInit, SiteInv
<1>2. SiteInv /\ [SiteNext]_siteVars => SiteInv'
  <2> SUFFICES ASSUME SiteInv, [SiteNext]_siteVars PROVE SiteInv'
    OBVIOUS
  <2>1. PriceInv /\ OfficeInv
    BY DEF SiteInv
  <2>2. Begins => requests' \in 0 .. MaxRequests
    BY SiteAssumption DEF Begins, SiteInv
  <2>3. ASSUME NEW w \in Worker, NEW x \in Sums, NEW c \in Channel,
               MerchantsRequest(w, x, c)
        PROVE  SiteInv'
    BY <2>1, <2>2, <2>3, BeginKeepsInv, OfficeStutterInv DEF MerchantsRequest, SiteInv
  <2>4. ASSUME NEW a \in Admin, NEW c \in Channel, NEW l \in LimitForms,
               ChannelRequest(a, c, l)
        PROVE  SiteInv'
    <3>1. l \in Limits
      BY SiteAssumption
    <3> QED  BY <2>1, <2>2, <2>4, <3>1, UpdateKeepsInv, OfficeStutterInv
             DEF ChannelRequest, SiteInv
  <2>5. ASSUME NEW a \in Admin, AdminRequest(a) PROVE SiteInv'
    BY <2>1, <2>2, <2>5, PriceStutterInv, OfficeBegins DEF AdminRequest, SiteInv
  <2>6. CASE PriceStep /\ UNCHANGED <<officeVars, requests>>
    BY <2>1, <2>6, PriceStepInv, OfficeStutterInv DEF SiteInv
  <2>7. CASE OfficeStep /\ UNCHANGED <<priceVars, requests>>
    BY <2>1, <2>7, PriceStutterInv, OfficeStepInv DEF SiteInv
  <2>8. CASE UNCHANGED siteVars
    BY <2>1, <2>8, PriceStutterInv, OfficeStutterInv DEF SiteInv, siteVars
  <2> QED  BY <2>3, <2>4, <2>5, <2>6, <2>7, <2>8 DEF SiteNext
<1> QED  BY <1>1, <1>2, PTL DEF SiteSpec

(* Every variable of the composed system has its type.                     *)
THEOREM SiteTyped == SiteSpec => []SiteTypeOK
<1>1. SiteInv => SiteTypeOK
  BY DEF SiteInv, PriceInv, OfficeInv, SiteTypeOK
<1> QED  BY <1>1, SiteInvHolds, PTL

(* What a provider is asked for is what the callback will be measured by,   *)
(* for every text, rate and column width (web.rs:171, 221-226, 492).       *)
THEOREM ChargesAreExpected == SiteSpec => []ChargedIsExpected
<1>1. SiteInv => ChargedIsExpected
  BY PriceInvGives DEF SiteInv
<1> QED  BY <1>1, SiteInvHolds, PTL

(* An order becomes paid only by a payment that settles the order it was    *)
(* made for, which is the order marked except at Stripe (web.rs:517-524,    *)
(* 757-761, 822-826, 967-972).                                             *)
THEOREM OrdersArePaidBySettling == SiteSpec => []PaidBySettling
<1>1. SiteInv => PaidBySettling
  BY PriceInvGives DEF SiteInv
<1> QED  BY <1>1, SiteInvHolds, PTL

(* Whatever an administrator edits meanwhile, a provider is asked only for  *)
(* amounts within limits the channel had (web.rs:206-219).                 *)
THEOREM ChargesAreWithinLimits == SiteSpec => []ChargedWithinLimits
<1>1. SiteInv => ChargedWithinLimits
  BY PriceInvGives DEF SiteInv
<1> QED  BY <1>1, SiteInvHolds, PTL

(* Whoever is let in typed credentials that one form held, unless a save    *)
(* met another request between the two statements (admin.rs:95-97).        *)
THEOREM LoginsWerePosted == SiteSpec => []LoginWasPosted
<1>1. SiteInv => LoginWasPosted
  BY OfficeInvGives DEF SiteInv
<1> QED  BY <1>1, SiteInvHolds, PTL

(* The user name and the password of one form stay together likewise        *)
(* (admin.rs:1079-1083).                                                   *)
THEOREM CredentialsStayTogether == SiteSpec => []CredentialsTogether
<1>1. SiteInv => CredentialsTogether
  BY OfficeInvGives DEF SiteInv
<1> QED  BY <1>1, SiteInvHolds, PTL

(* A form saved again after errors adjusts the balance once, but for errors *)
(* of the page (admin.rs:350-362).                                         *)
THEOREM BalanceAdjustedOnce == SiteSpec => []AdjustedOnce
<1>1. SiteInv => AdjustedOnce
  BY OfficeInvGives DEF SiteInv
<1> QED  BY <1>1, SiteInvHolds, PTL
=============================================================================
