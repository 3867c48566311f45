------------------------------ MODULE Accounts ------------------------------
(***************************************************************************)
(* Merchant accounts: registration, login and settings of src/src/portal.rs *)
(* with the session cookie of session.rs, and what src/src/admin.rs does to *)
(* a merchant.  One action per await: handlers interleave at every SQL      *)
(* statement, and any of them may be dropped with its connection.           *)
(***************************************************************************)
EXTENDS Integers

CONSTANTS
  Uid,           \* pay_user.uid, in the order AUTO_INCREMENT hands them out
  Account,       \* e-mail addresses and phone numbers; some may be numerals
  Client,        \* people with a browser
  Password,
  Knows,         \* the passwords each client uses
  Worker,        \* tasks serving one HTTP request each
  Nil,           \* SQL NULL, no cookie, no field
  MaxKeys,       \* bound: API keys generated per merchant
  MaxEdits       \* bound: administrator requests per behaviour

(* legacy_password_hash salts with the uid, create_merchant not at all      *)
(* (NoSalt); the n-th key of a row is <<uid, n>>, as generated keys do not  *)
(* collide.                                                                *)
NoSalt == 0

Salted(p, u) == [of |-> p, salt |-> u]
Key(u, n)    == <<u, n>>

Secret == Password \cup (Uid \X Nat)
Hash   == [of : Secret, salt : Uid \cup {NoSalt}]

ASSUME AccountsAssumption ==
  /\ Uid \subseteq Nat \ {0}
  /\ Knows \in [Client -> SUBSET Password]
  /\ \A c, d \in Client : c # d => Knows[c] \cap Knows[d] = {}
  /\ \A p \in Password : p \notin Uid \X Nat     \* no password is a key
  /\ MaxKeys \in Nat /\ MaxEdits \in Nat
  /\ Nil \notin Uid \cup Account \cup Client \cup Password \cup Hash

VARIABLES
  merchants,     \* pay_user, by uid
  cookie,        \* rpay_user in each client's browser: the uid it names
  hdl,           \* the handler each worker runs
  owner,         \* history: the client each row was made for
  registered,    \* history: rows made by register_merchant
  good,          \* history: see Fits
  edits          \* administrator requests so far

tables == <<merchants, owner, registered>>
vars   == <<tables, cookie, hdl, good, edits>>

Merchant ==
  [status : {"none", "active", "banned", "deleted"},
   names  : SUBSET Account,               \* email and phone
   pwd    : Hash \cup {Nil},
   key    : Nat]                          \* keys generated so far

NoMerchant ==
  [status |-> "none", names |-> {}, pwd |-> Nil, key |-> 0]

Exists(u) == merchants[u].status \in {"active", "banned"}

Handler ==
  [op   : {"none", "register", "login", "reset", "password"},
   pc   : {"idle", "taken", "insert", "by_uid", "by_account", "write",
           "render", "cookie", "saved"},
   c    : Client \cup {Nil},
   user : Account \cup Uid \cup {Nil},
   pass : Secret \cup {Nil},
   uid  : Uid \cup {Nil}]

Idle == [op |-> "none", pc |-> "idle", c |-> Nil, user |-> Nil,
         pass |-> Nil, uid |-> Nil]

AccountsTypeOK ==
  /\ merchants \in [Uid -> Merchant]
  /\ cookie \in [Client -> Uid \cup {Nil}]
  /\ hdl \in [Worker -> Handler]
  /\ owner \in [Uid -> Client \cup {Nil}]
  /\ registered \subseteq Uid
  /\ good \in [Worker -> SUBSET Uid]
  /\ edits \in 0..MaxEdits

AccountsInit ==
  /\ merchants = [u \in Uid |-> NoMerchant]
  /\ cookie = [c \in Client |-> Nil]
  /\ hdl = [w \in Worker |-> Idle]
  /\ owner = [u \in Uid |-> Nil]
  /\ registered = {}
  /\ good = [w \in Worker |-> {}]
  /\ edits = 0

-----------------------------------------------------------------------------
(* What store.rs asks of the table.                                        *)

Named(a) == {u \in Uid : Exists(u) /\ a \in merchants[u].names}

KeyIs(u, s) == s = Key(u, merchants[u].key)

PwdIs(u, s) == merchants[u].pwd = Salted(s, u)

(* AUTO_INCREMENT: the smallest uid never handed out.                      *)
NextUid == {u \in Uid : merchants[u].status = "none"
                         /\ \A v \in Uid : v < u => merchants[v].status # "none"}

(* The table meets the request of a handler, for uid u: the account is free, *)
(* the credentials open u, the change is in u.                             *)
Fits(w, u) ==
  LET h == hdl[w] IN
  /\ h.pc # "cookie"
  /\ \/ h.op = "register" /\ Named(h.user) = {}
     \/ /\ h.op = "login" /\ merchants[u].status = "active"
        /\ \/ h.user = u /\ KeyIs(u, h.pass)
           \/ /\ h.user \in merchants[u].names
              /\ KeyIs(u, h.pass) \/ PwdIs(u, h.pass)
     \/ h.op = "password" /\ h.uid = u /\ PwdIs(u, h.pass)
     \/ h.op = "reset" /\ h.uid = u /\ ~KeyIs(u, h.pass)

(* good[w]: the uids the request of w has fitted since it began.           *)
Gather ==
  good' = [w \in Worker |->
             IF hdl'[w].pc = "idle" THEN {}
             ELSE good[w] \cup {u \in Uid : Fits(w, u)'}]

-----------------------------------------------------------------------------
(* A handler begins, goes on, and returns.                                 *)

At(w, op, pc) == hdl[w].op = op /\ hdl[w].pc = pc

Begin(w, h) == hdl[w] = Idle /\ hdl' = [hdl EXCEPT ![w] = h]

Goto(w, pc) == hdl' = [hdl EXCEPT ![w].pc = pc]

Return(w) == hdl' = [hdl EXCEPT ![w] = Idle]

(* The session is made; the form is not read again.                        *)
Admit(w, u) ==
  hdl' = [hdl EXCEPT ![w] =
            [op |-> hdl[w].op, pc |-> "cookie", c |-> hdl[w].c,
             user |-> Nil, pass |-> Nil, uid |-> u]]

Update(u, row) == merchants' = [merchants EXCEPT ![u] = row]

-----------------------------------------------------------------------------
(* register_submit                                                         *)

Register(w, c, a, p) ==
  /\ Begin(w, [op |-> "register", pc |-> "taken", c |-> c,
               user |-> a, pass |-> p, uid |-> Nil])
  /\ UNCHANGED <<tables, cookie>>

(* Variant, for mutation: the answer of account_taken is not looked at.    *)
AccountUnchecked(w) ==
  /\ At(w, "register", "taken")
  /\ Goto(w, "insert")
  /\ UNCHANGED <<tables, cookie>>

AccountTaken(w) ==
  /\ At(w, "register", "taken")
  /\ IF Named(hdl[w].user) = {} THEN Goto(w, "insert") ELSE Return(w)
  /\ UNCHANGED <<tables, cookie>>

(* A new row, with the first key generated for it.                         *)
Insert(u, c, names, pwd) ==
  /\ u \in NextUid
  /\ Update(u, [status |-> "active", names |-> names, pwd |-> pwd, key |-> 1])
  /\ owner' = [owner EXCEPT ![u] = c]

Inserted(w, u, pwd) ==
  /\ At(w, "register", "insert")
  /\ Insert(u, hdl[w].c, {hdl[w].user}, pwd)
  /\ registered' = registered \cup {u}
  /\ UNCHANGED cookie

(* Variant, for mutation: without the transaction a handler may end between *)
(* the INSERT and the UPDATE of the password.                              *)
RegisterInTwo(w) ==
  \E u \in Uid :
    \/ /\ Inserted(w, u, Salted(hdl[w].pass, u))
       /\ Admit(w, u)
    \/ Inserted(w, u, Nil) /\ Return(w)

(* register_merchant: INSERT and UPDATE in one transaction.                *)
RegisterMerchant(w) ==
  \E u \in Uid :
    /\ Inserted(w, u, Salted(hdl[w].pass, u))
    /\ Admit(w, u)

-----------------------------------------------------------------------------
(* login_submit: a numeral is tried as a uid with its key, then anything as *)
(* an account with its key or password.                                    *)

(* What a client can type: its passwords, and the keys its rows have had.  *)
Secrets(c) ==
  Knows[c] \cup {Key(u, n) : u \in {v \in Uid : owner[v] = c}, n \in 1..MaxKeys}

Login(w, c, x, s) ==
  /\ Begin(w, [op |-> "login", c |-> c, user |-> x, pass |-> s, uid |-> Nil,
               pc |-> IF x \in Uid THEN "by_uid" ELSE "by_account"])
  /\ UNCHANGED <<tables, cookie>>

(* Variants, for mutation: a row without a password takes any; a banned     *)
(* merchant is let in.                                                     *)
AcceptsNoPassword(u, s) ==
  /\ merchants[u].status = "active"
  /\ KeyIs(u, s) \/ PwdIs(u, s) \/ merchants[u].pwd = Nil

AcceptsBanned(u, s) == KeyIs(u, s) \/ PwdIs(u, s)

Accepts(u, s) ==
  /\ merchants[u].status = "active"
  /\ KeyIs(u, s) \/ PwdIs(u, s)

Decide(w, u) ==
  IF Accepts(u, hdl[w].pass) THEN Admit(w, u) ELSE Return(w)

(* A failed statement goes on to the account, like a wrong key.            *)
LoginByUid(w) ==
  LET u == hdl[w].user IN
  /\ At(w, "login", "by_uid")
  /\ \/ Exists(u) /\ KeyIs(u, hdl[w].pass) /\ Decide(w, u)
     \/ Goto(w, "by_account")
  /\ UNCHANGED <<tables, cookie>>

(* LIMIT 1 without an order: any row of the account.                       *)
LoginByAccount(w) ==
  LET found == Named(hdl[w].user) IN
  /\ At(w, "login", "by_account")
  /\ \/ \E u \in found : Decide(w, u)
     \/ found = {} /\ Return(w)
  /\ UNCHANGED <<tables, cookie>>

(* The answer of a registration or login sets the cookie.                  *)
SetCookie(w) ==
  /\ hdl[w].pc = "cookie"
  /\ cookie' = [cookie EXCEPT ![hdl[w].c] = hdl[w].uid]
  /\ Return(w)
  /\ UNCHANGED tables

(* current_uid.                                                            *)
LoggedIn(c) == cookie[c] # Nil

(* logout, or the time of the token is over.                               *)
SessionEnds(c) ==
  /\ LoggedIn(c)
  /\ cookie' = [cookie EXCEPT ![c] = Nil]
  /\ UNCHANGED <<tables, hdl>>

-----------------------------------------------------------------------------
(* settings_submit.  A reset keeps the key it found in pass, for Fits.     *)

SettingsReset(w, c) ==
  /\ LoggedIn(c)
  /\ Begin(w, [op |-> "reset", pc |-> "write", c |-> c, user |-> Nil,
               pass |-> Key(cookie[c], merchants[cookie[c]].key),
               uid |-> cookie[c]])
  /\ UNCHANGED <<tables, cookie>>

SettingsPassword(w, c, p) ==
  /\ LoggedIn(c)
  /\ Begin(w, [op |-> "password", pc |-> "write", c |-> c, user |-> Nil,
               pass |-> p, uid |-> cookie[c]])
  /\ UNCHANGED <<tables, cookie>>

(* An UPDATE of a row that is gone changes nothing and succeeds.           *)
UpdateIfExists(u, row) == Update(u, IF Exists(u) THEN row ELSE merchants[u])

Rekeyed(u) == [merchants[u] EXCEPT !.key = @ + 1]

ResetMerchantKey(w) ==
  LET u == hdl[w].uid IN
  /\ At(w, "reset", "write")
  /\ merchants[u].key < MaxKeys
  /\ UpdateIfExists(u, Rekeyed(u))
  /\ Goto(w, "render")
  /\ UNCHANGED <<owner, registered, cookie>>

(* Variants, for mutation: without the salt; without hashing at all.       *)
HashUnsalted(p, u) == Salted(p, NoSalt)

HashNothing(p, u) == p

HashPassword(p, u) == Salted(p, u)

SetMerchantPassword(w) ==
  LET u == hdl[w].uid IN
  /\ At(w, "password", "write")
  /\ UpdateIfExists(u, [merchants[u] EXCEPT !.pwd = HashPassword(hdl[w].pass, u)])
  /\ Goto(w, "render")
  /\ UNCHANGED <<owner, registered, cookie>>

(* Variant, for mutation: the notice is shown whatever merchant_detail says. *)
RenderAlways(w) ==
  /\ hdl[w].pc = "render"
  /\ Goto(w, "saved")
  /\ UNCHANGED <<tables, cookie>>

(* render_settings reads the row again before it says that it was saved;    *)
(* without a row it answers an error.                                      *)
Render(w) ==
  /\ hdl[w].pc = "render"
  /\ IF Exists(hdl[w].uid) THEN Goto(w, "saved") ELSE Return(w)
  /\ UNCHANGED <<tables, cookie>>

Saved(w) ==
  /\ hdl[w].pc = "saved"
  /\ Return(w)
  /\ UNCHANGED <<tables, cookie>>

(* A statement fails and the handler answers an error, or its client goes   *)
(* away and it is dropped at an await, or its answer does not arrive.      *)
Stop(w) ==
  /\ hdl[w].pc # "idle"
  /\ Return(w)
  /\ UNCHANGED <<tables, cookie>>

-----------------------------------------------------------------------------
(* The administrator.  These handlers read nothing they act on, and each    *)
(* has one statement on the columns kept here.                             *)

CreateMerchant(u, c, names, pwd) ==
  /\ Insert(u, c, names, pwd)
  /\ UNCHANGED <<registered, cookie, hdl>>

DeleteMerchant(u) ==
  /\ Exists(u)
  /\ Update(u, [merchants[u] EXCEPT !.status = "deleted"])
  /\ UNCHANGED <<owner, registered, cookie, hdl>>

(* merchant_update: the status; limits and balance are not kept.           *)
UpdateMerchantStatus(u, s) ==
  /\ Exists(u)
  /\ Update(u, [merchants[u] EXCEPT !.status = s])
  /\ UNCHANGED <<owner, registered, cookie, hdl>>

MerchantResetKey(u) ==
  /\ Exists(u)
  /\ merchants[u].key < MaxKeys
  /\ Update(u, Rekeyed(u))
  /\ UNCHANGED <<owner, registered, cookie, hdl>>

-----------------------------------------------------------------------------
RegisterStep(w) ==
  \/ \E c \in Client, a \in Account : \E p \in Knows[c] : Register(w, c, a, p)
  \/ AccountTaken(w)
  \/ RegisterMerchant(w)

LoginStep(w) ==
  \/ \E c \in Client, x \in Account \cup Uid : \E s \in Secrets(c) :
       Login(w, c, x, s)
  \/ LoginByUid(w)
  \/ LoginByAccount(w)
  \/ SetCookie(w)

SettingsStep(w) ==
  \/ \E c \in Client : SettingsReset(w, c)
  \/ \E c \in Client : \E p \in Knows[c] : SettingsPassword(w, c, p)
  \/ ResetMerchantKey(w)
  \/ SetMerchantPassword(w)
  \/ Render(w)
  \/ Saved(w)

AdminStep ==
  \/ \E u \in Uid, c \in Client, names \in SUBSET Account :
       \E pwd \in {Salted(p, NoSalt) : p \in Knows[c]} \cup {Nil} :
         CreateMerchant(u, c, names, pwd)
  \/ \E u \in Uid : DeleteMerchant(u)
  \/ \E u \in Uid, s \in {"active", "banned"} : UpdateMerchantStatus(u, s)
  \/ \E u \in Uid : MerchantResetKey(u)

AccountsNext ==
  /\ \/ /\ \E w \in Worker : \/ RegisterStep(w) \/ LoginStep(w)
                             \/ SettingsStep(w) \/ Stop(w)
        /\ UNCHANGED edits
     \/ \E c \in Client : SessionEnds(c) /\ UNCHANGED edits
     \/ AdminStep /\ edits < MaxEdits /\ edits' = edits + 1
  /\ Gather

AccountsSpec == AccountsInit /\ [][AccountsNext]_vars

-----------------------------------------------------------------------------
(* A session names a row made for the client that holds it, although uids,  *)
(* phone numbers and the rows of one account overlap: registration and      *)
(* login of portal.rs put nobody into another merchant's account.           *)
SessionIsOwn ==
  \A c \in Client : cookie[c] # Nil => owner[cookie[c]] = c

(* register_submit makes a row only for an account that was free at some    *)
(* moment of the request.  It cannot promise that it still is: two requests *)
(* of one account can both see it free.                                    *)
RegisteredWhenFree ==
  \A w \in Worker : At(w, "register", "cookie") => hdl[w].uid \in good[w]

(* login_submit opens an account only if, at some moment of the request,    *)
(* the credentials typed were those of this row and it was not banned, with *)
(* passwords, keys and bans changing between its two lookups.              *)
LoginWasGood ==
  \A w \in Worker : At(w, "login", "cookie") => hdl[w].uid \in good[w]

(* A page that says a key was reset or a password changed is right: at some *)
(* moment of the request the row held the change, although the UPDATE does  *)
(* not say whether it found a row.                                         *)
SavedWasSaved ==
  \A w \in Worker :
    hdl[w].pc = "saved" /\ hdl[w].op \in {"reset", "password"} =>
      hdl[w].uid \in good[w]

(* A row registered through the portal always opens with a password of its  *)
(* owner, salted with its own uid: no registration, however it ends, and no *)
(* change of password leaves one that does not.                            *)
RegisteredOpens ==
  \A u \in registered :
    Exists(u) => \E p \in Knows[owner[u]] : PwdIs(u, p)
=============================================================================
