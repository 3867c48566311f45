--------------------------- MODULE AccountsProofs ---------------------------
(***************************************************************************)
(* Proofs about Accounts, for any clients, accounts, merchants and handlers *)
(* and any bounds.  The inductive invariant says of a handler, at each of   *)
(* its awaits, what it has established so far; of a row, that only its      *)
(* owner knows what opens it.                                              *)
(***************************************************************************)
EXTENDS Accounts, TLAPS

(* A row has an owner once its uid was handed out, and only a password of   *)
(* the owner.                                                              *)
RowOK(u) ==
  /\ merchants[u].status = "none" <=> owner[u] = Nil
  /\ u \in registered => owner[u] # Nil
  /\ merchants[u].status = "none" => merchants[u].key = 0
  /\ merchants[u].pwd # Nil =>
       owner[u] # Nil /\ \E p \in Knows[owner[u]] :
         merchants[u].pwd \in {Salted(p, u), Salted(p, NoSalt)}

RowsOK == \A u \in Uid : RowOK(u)

(* What a handler has established when it waits.                           *)
RegisterOK(w) ==
  LET h == hdl[w] IN
  h.pc \in {"taken", "insert"} =>
    /\ h.op = "register" /\ h.c \in Client
    /\ h.user \in Account /\ h.pass \in Knows[h.c]
    /\ h.pc = "insert" => good[w] = Uid

LoginOK(w) ==
  LET h == hdl[w] IN
  h.pc \in {"by_uid", "by_account"} =>
    /\ h.op = "login" /\ h.c \in Client
    /\ h.pass \in Secrets(h.c)
    /\ h.pc = "by_uid" => h.user \in Uid
    /\ \A u \in Uid : Fits(w, u) => u \in good[w]

CookieOK(w) ==
  LET h == hdl[w] IN
  h.pc = "cookie" =>
    /\ h.op \in {"register", "login"} /\ h.c \in Client
    /\ h.uid \in Uid /\ owner[h.uid] = h.c
    /\ h.uid \in good[w]

SettingsOK(w) ==
  LET h == hdl[w] IN
  h.pc \in {"write", "render", "saved"} =>
    /\ h.op \in {"reset", "password"} /\ h.c \in Client
    /\ h.uid \in Uid /\ owner[h.uid] = h.c
    /\ h.op = "password" => h.pass \in Knows[h.c]
    /\ h.op = "reset" =>
         \E n \in Nat : n <= merchants[h.uid].key /\ h.pass = Key(h.uid, n)
    /\ h.pc = "render" /\ Exists(h.uid) => h.uid \in good[w]
    /\ h.pc = "saved" => h.uid \in good[w]

HandlerOK(w) == RegisterOK(w) /\ LoginOK(w) /\ CookieOK(w) /\ SettingsOK(w)

AccountsInv ==
  /\ AccountsTypeOK
  /\ RowsOK
  /\ \A w \in Worker : HandlerOK(w)
  /\ SessionIsOwn
  /\ RegisteredOpens

-----------------------------------------------------------------------------
(* The tables only grow: an owner stays, a key is never generated back, a   *)
(* deleted row stays deleted.                                              *)
Grows ==
  \A u \in Uid :
    /\ owner[u] # Nil => owner'[u] = owner[u]
    /\ merchants[u].status # "none" /\ Exists(u)' => Exists(u)
    /\ merchants[u].key <= merchants'[u].key

(* A handler that does not move keeps what it has established.             *)
LEMMA HandlerKept ==
  ASSUME AccountsInv, AccountsTypeOK', Grows, Gather,
         NEW v \in Worker, hdl'[v] = hdl[v]
  PROVE  HandlerOK(v)'
<1> DEFINE h == hdl[v]
<1>1. /\ h \in Handler /\ HandlerOK(v)
      /\ \A u \in Uid : RowOK(u)
      /\ merchants \in [Uid -> Merchant] /\ merchants' \in [Uid -> Merchant]
      /\ good[v] \in SUBSET Uid
  BY DEF AccountsInv, AccountsTypeOK, RowsOK
<1>2. h.pc # "idle" =>
        /\ good'[v] = good[v] \cup {u \in Uid : Fits(v, u)'}
        /\ good[v] \subseteq good'[v]
  BY DEF Gather
<1>3. Nil \notin Client
  BY AccountsAssumption
<1>4. RegisterOK(v)'
  BY <1>1, <1>2 DEF RegisterOK, HandlerOK
<1>5. LoginOK(v)'
  <2> SUFFICES ASSUME h.pc \in {"by_uid", "by_account"} PROVE LoginOK(v)'
    BY DEF LoginOK
  <2>1. /\ h.op = "login" /\ h.c \in Client /\ h.pass \in Secrets(h.c)
        /\ h.pc = "by_uid" => h.user \in Uid
    BY <1>1 DEF HandlerOK, LoginOK
  <2>2. h.pass \in Secrets(h.c)'
    BY <2>1, <1>3 DEF Secrets, Grows, Key
  <2>3. \A u \in Uid : Fits(v, u)' => u \in good'[v]
    BY <1>2
  <2> QED  BY <2>1, <2>2, <2>3 DEF LoginOK
<1>6. CookieOK(v)'
  BY <1>1, <1>2, <1>3 DEF HandlerOK, CookieOK, Grows
<1>7. SettingsOK(v)'
  <2> SUFFICES ASSUME h.pc \in {"write", "render", "saved"} PROVE SettingsOK(v)'
    BY DEF SettingsOK
  <2>1. /\ h.op \in {"reset", "password"} /\ h.c \in Client
        /\ h.uid \in Uid /\ owner[h.uid] = h.c
        /\ h.op = "password" => h.pass \in Knows[h.c]
        /\ h.op = "reset" =>
             \E n \in Nat : n <= merchants[h.uid].key /\ h.pass = Key(h.uid, n)
        /\ h.pc = "render" /\ Exists(h.uid) => h.uid \in good[v]
        /\ h.pc = "saved" => h.uid \in good[v]
    BY <1>1 DEF HandlerOK, SettingsOK
  <2>2. owner'[h.uid] = h.c /\ merchants[h.uid].status # "none"
    BY <2>1, <1>1, <1>3 DEF Grows, RowOK
  <2>3. Exists(h.uid)' => Exists(h.uid)
    BY <2>1, <2>2 DEF Grows
  <2>4. h.op = "reset" =>
          \E n \in Nat : n <= merchants'[h.uid].key /\ h.pass = Key(h.uid, n)
    BY <2>1, <1>1 DEF Grows, Merchant
  <2> QED  BY <2>1, <2>2, <2>3, <2>4, <1>2 DEF SettingsOK
<1> QED  BY <1>4, <1>5, <1>6, <1>7 DEF HandlerOK

-----------------------------------------------------------------------------
(* A step of one handler.                                                  *)

LEMMA HandlerSet ==
  ASSUME hdl \in [Worker -> Handler], NEW w \in Worker, NEW h \in Handler,
         hdl' = [hdl EXCEPT ![w] = h]
  PROVE  /\ hdl' \in [Worker -> Handler] /\ hdl'[w] = h
         /\ \A v \in Worker \ {w} : hdl'[v] = hdl[v]
  OBVIOUS

LEMMA GotoSets ==
  ASSUME hdl \in [Worker -> Handler], NEW w \in Worker,
         NEW pc \in {"insert", "by_account", "render", "saved"}, Goto(w, pc)
  PROVE  /\ hdl' \in [Worker -> Handler]
         /\ hdl'[w] = [hdl[w] EXCEPT !.pc = pc]
         /\ \A v \in Worker \ {w} : hdl'[v] = hdl[v]
<1> DEFINE h == [hdl[w] EXCEPT !.pc = pc]
<1>1. h \in Handler
  BY DEF Handler
<1>2. hdl' = [hdl EXCEPT ![w] = h]
  BY DEF Goto
<1> QED  BY <1>1, <1>2, HandlerSet

LEMMA IdleHandler == Idle \in Handler /\ Idle.pc = "idle"
  BY DEF Idle, Handler

LEMMA ReturnSets ==
  ASSUME hdl \in [Worker -> Handler], NEW w \in Worker, Return(w)
  PROVE  /\ hdl' \in [Worker -> Handler] /\ HandlerOK(w)'
         /\ \A v \in Worker \ {w} : hdl'[v] = hdl[v]
<1>1. /\ hdl' \in [Worker -> Handler] /\ hdl'[w] = Idle
      /\ \A v \in Worker \ {w} : hdl'[v] = hdl[v]
  BY HandlerSet, IdleHandler DEF Return
<1>2. hdl'[w].pc = "idle"
  BY <1>1, IdleHandler
<1>3. HandlerOK(w)'
  BY <1>2 DEF HandlerOK, RegisterOK, LoginOK, CookieOK, SettingsOK
<1> QED  BY <1>1, <1>3

(* What w has fitted since its request began, after a step.                *)
LEMMA Gathered ==
  ASSUME Gather, NEW w \in Worker, good \in [Worker -> SUBSET Uid]
  PROVE  /\ good' \in [Worker -> SUBSET Uid]
         /\ hdl'[w].pc # "idle" =>
              /\ good[w] \subseteq good'[w]
              /\ \A u \in Uid : Fits(w, u)' => u \in good'[w]
  BY DEF Gather

(* A step that at most moves the handler w keeps the invariant, if it keeps *)
(* the tables right and w has established what its new await needs.        *)
LEMMA HandlerMoves ==
  ASSUME AccountsInv, Gather, Grows, NEW w \in Worker,
         merchants' \in [Uid -> Merchant], owner' \in [Uid -> Client \cup {Nil}],
         registered' \subseteq Uid, cookie' \in [Client -> Uid \cup {Nil}],
         edits' \in 0..MaxEdits, hdl' \in [Worker -> Handler],
         \A v \in Worker \ {w} : hdl'[v] = hdl[v],
         RowsOK', SessionIsOwn', RegisteredOpens', HandlerOK(w)'
  PROVE  AccountsInv'
<1>1. good' \in [Worker -> SUBSET Uid]
  BY Gathered DEF AccountsInv, AccountsTypeOK
<1>2. AccountsTypeOK'
  BY <1>1 DEF AccountsTypeOK
<1>3. ASSUME NEW v \in Worker PROVE HandlerOK(v)'
  <2>1. CASE v = w
    BY <2>1
  <2>2. CASE v # w
    <3>1. hdl'[v] = hdl[v]
      BY <2>2
    <3> QED  BY <3>1, <1>2, HandlerKept
  <2> QED  BY <2>1, <2>2
<1> QED  BY <1>2, <1>3 DEF AccountsInv

LEMMA TablesStay ==
  ASSUME AccountsInv, UNCHANGED tables
  PROVE  /\ Grows /\ RowsOK' /\ RegisteredOpens'
         /\ merchants' \in [Uid -> Merchant]
         /\ owner' \in [Uid -> Client \cup {Nil}] /\ registered' \subseteq Uid
<1> USE DEF tables
<1>1. merchants' = merchants /\ owner' = owner /\ registered' = registered
  OBVIOUS
<1>2. Grows
  BY <1>1 DEF AccountsInv, AccountsTypeOK, Merchant, Grows, Exists
<1>3. RowsOK' /\ RegisteredOpens'
  BY <1>1 DEF AccountsInv, RowsOK, RowOK, RegisteredOpens, Exists, PwdIs
<1> QED  BY <1>1, <1>2, <1>3 DEF AccountsInv, AccountsTypeOK

(* The same with tables and cookies unchanged.                             *)
LEMMA HandlerOnly ==
  ASSUME AccountsInv, Gather, UNCHANGED <<tables, cookie, edits>>,
         NEW w \in Worker, hdl' \in [Worker -> Handler],
         \A v \in Worker \ {w} : hdl'[v] = hdl[v], HandlerOK(w)'
  PROVE  AccountsInv'
<1>1. cookie' \in [Client -> Uid \cup {Nil}] /\ edits' \in 0..MaxEdits
  BY DEF AccountsInv, AccountsTypeOK
<1>2. SessionIsOwn'
  BY DEF AccountsInv, SessionIsOwn, tables
<1> QED  BY <1>1, <1>2, TablesStay, HandlerMoves

LEMMA Returns ==
  ASSUME AccountsInv, Gather, UNCHANGED <<tables, cookie, edits>>,
         NEW w \in Worker, Return(w)
  PROVE  AccountsInv'
  BY ReturnSets, HandlerOnly DEF AccountsInv, AccountsTypeOK

-----------------------------------------------------------------------------
(* Requests begin.                                                         *)

(* The handler a request begins with.                                      *)
Fresh(op, pc, c, user, pass, uid) ==
  [op |-> op, pc |-> pc, c |-> c, user |-> user, pass |-> pass, uid |-> uid]

LEMMA Begins ==
  ASSUME AccountsInv, Gather, UNCHANGED <<tables, cookie, edits>>,
         NEW w \in Worker, NEW h \in Handler, hdl' = [hdl EXCEPT ![w] = h],
         HandlerOK(w)'
  PROVE  AccountsInv'
  BY HandlerSet, HandlerOnly DEF AccountsInv, AccountsTypeOK

LEMMA RegisterKeeps ==
  ASSUME AccountsInv, Gather, UNCHANGED edits, NEW w \in Worker,
         NEW c \in Client, NEW a \in Account, NEW p \in Knows[c],
         Register(w, c, a, p)
  PROVE  AccountsInv'
<1> DEFINE h == Fresh("register", "taken", c, a, p, Nil)
<1>2. h \in Handler
  BY AccountsAssumption DEF Fresh, Handler, Secret
<1>3. hdl' = [hdl EXCEPT ![w] = h]
  BY DEF Fresh, Register, Begin
<1>4. hdl'[w] = h
  BY <1>2, <1>3, HandlerSet DEF AccountsInv, AccountsTypeOK
<1>5. HandlerOK(w)'
  BY <1>4 DEF Fresh, HandlerOK, RegisterOK, LoginOK, CookieOK, SettingsOK
<1> QED  BY <1>2, <1>3, <1>5, Begins DEF Register

LEMMA SecretsAreSecret == \A c \in Client : Secrets(c) \subseteq Secret
  BY AccountsAssumption DEF Secrets, Secret, Key

LEMMA LoginKeeps ==
  ASSUME AccountsInv, Gather, UNCHANGED edits, NEW w \in Worker,
         NEW c \in Client, NEW x \in Account \cup Uid, NEW s \in Secrets(c),
         Login(w, c, x, s)
  PROVE  AccountsInv'
<1> DEFINE pc == IF x \in Uid THEN "by_uid" ELSE "by_account"
           h == Fresh("login", pc, c, x, s, Nil)
<1>2. h \in Handler
  BY SecretsAreSecret DEF Fresh, Handler
<1>3. hdl' = [hdl EXCEPT ![w] = h]
  BY DEF Fresh, Login, Begin
<1>4. hdl'[w] = h
  BY <1>2, <1>3, HandlerSet DEF AccountsInv, AccountsTypeOK
<1>5. LoginOK(w)'
  <2>1. hdl'[w].pc \in {"by_uid", "by_account"}
    BY <1>4 DEF Fresh
  <2>2. \A u \in Uid : Fits(w, u)' => u \in good'[w]
    BY <2>1, Gathered DEF AccountsInv, AccountsTypeOK
  <2>3. s \in Secrets(c)'
    BY DEF Login, tables, Secrets
  <2>4. /\ hdl'[w].op = "login" /\ hdl'[w].c = c /\ hdl'[w].pass = s
        /\ hdl'[w].pc = "by_uid" => hdl'[w].user \in Uid
    BY <1>4 DEF Fresh
  <2> QED  BY <2>2, <2>3, <2>4 DEF LoginOK
<1>6. HandlerOK(w)'
  BY <1>4, <1>5 DEF Fresh, HandlerOK, RegisterOK, CookieOK, SettingsOK
<1> QED  BY <1>2, <1>3, <1>6, Begins DEF Login

(* A client whose session names a uid has made its row.                    *)
LEMMA SessionOwns ==
  ASSUME AccountsInv, NEW c \in Client, cookie[c] # Nil
  PROVE  cookie[c] \in Uid /\ owner[cookie[c]] = c
  BY DEF AccountsInv, AccountsTypeOK, SessionIsOwn

LEMMA SettingsResetKeeps ==
  ASSUME AccountsInv, Gather, UNCHANGED edits, NEW w \in Worker,
         NEW c \in Client, SettingsReset(w, c)
  PROVE  AccountsInv'
<1> DEFINE u == cookie[c]
           n == merchants[u].key
           h == Fresh("reset", "write", c, Nil, Key(u, n), u)
<1>1. u \in Uid /\ owner[u] = c /\ n \in Nat
  BY SessionOwns DEF SettingsReset, LoggedIn, AccountsInv, AccountsTypeOK, Merchant
<1>3. h \in Handler
  BY <1>1 DEF Fresh, Handler, Secret, Key
<1>4. hdl' = [hdl EXCEPT ![w] = h]
  BY DEF Fresh, SettingsReset, Begin
<1>5. hdl'[w] = h
  BY <1>3, <1>4, HandlerSet DEF AccountsInv, AccountsTypeOK
<1>6. owner'[u] = c /\ merchants'[u].key = n
  BY <1>1 DEF SettingsReset, tables
<1>7. \E k \in Nat : k <= merchants'[u].key /\ h.pass = Key(u, k)
  BY <1>1, <1>6 DEF Fresh
<1>8. HandlerOK(w)'
  <2> HIDE DEF n
  <2>1. /\ h.op = "reset" /\ h.pc = "write" /\ h.c = c /\ h.uid = u
    BY DEF Fresh
  <2>2. SettingsOK(w)'
    <3> HIDE DEF h
    <3> QED  BY <1>1, <1>5, <1>6, <1>7, <2>1 DEF SettingsOK
  <2> QED  BY <1>5, <2>1, <2>2 DEF HandlerOK, RegisterOK, LoginOK, CookieOK
<1> QED  BY <1>3, <1>4, <1>8, Begins DEF SettingsReset

LEMMA SettingsPasswordKeeps ==
  ASSUME AccountsInv, Gather, UNCHANGED edits, NEW w \in Worker,
         NEW c \in Client, NEW p \in Knows[c], SettingsPassword(w, c, p)
  PROVE  AccountsInv'
<1> DEFINE u == cookie[c]
           h == Fresh("password", "write", c, Nil, p, u)
<1>1. u \in Uid /\ owner[u] = c
  BY SessionOwns DEF SettingsPassword, LoggedIn
<1>3. h \in Handler
  BY <1>1, AccountsAssumption DEF Fresh, Handler, Secret
<1>4. hdl' = [hdl EXCEPT ![w] = h]
  BY DEF Fresh, SettingsPassword, Begin
<1>5. hdl'[w] = h
  BY <1>3, <1>4, HandlerSet DEF AccountsInv, AccountsTypeOK
<1>6. owner'[u] = c
  BY <1>1 DEF SettingsPassword, tables
<1>7. HandlerOK(w)'
  BY <1>1, <1>5, <1>6
  DEF Fresh, HandlerOK, RegisterOK, LoginOK, CookieOK, SettingsOK
<1> QED  BY <1>3, <1>4, <1>7, Begins DEF SettingsPassword

-----------------------------------------------------------------------------
(* Steps that change no row.                                               *)

LEMMA AccountTakenKeeps ==
  ASSUME AccountsInv, Gather, UNCHANGED edits, NEW w \in Worker, AccountTaken(w)
  PROVE  AccountsInv'
<1>1. CASE Return(w)
  BY <1>1, Returns DEF AccountTaken
<1>2. CASE Named(hdl[w].user) = {} /\ Goto(w, "insert")
  <2> DEFINE h == hdl[w]
  <2>1. /\ hdl' \in [Worker -> Handler]
        /\ hdl'[w] = [h EXCEPT !.pc = "insert"]
        /\ \A v \in Worker \ {w} : hdl'[v] = hdl[v]
    BY <1>2, GotoSets DEF AccountsInv, AccountsTypeOK
  <2>2. /\ h \in Handler /\ h.op = "register" /\ h.pc = "taken"
        /\ h.c \in Client /\ h.user \in Account /\ h.pass \in Knows[h.c]
    BY DEF AccountTaken, At, AccountsInv, AccountsTypeOK, HandlerOK, RegisterOK
  <2>3. /\ hdl'[w].pc = "insert" /\ hdl'[w].op = "register"
        /\ hdl'[w].c = h.c /\ hdl'[w].user = h.user /\ hdl'[w].pass = h.pass
    BY <2>1, <2>2 DEF Handler
  <2>4. Named(h.user)' = {}
    <3>1. merchants' = merchants /\ hdl'[w].user = hdl[w].user
      BY <2>3 DEF AccountTaken, tables
    <3> QED  BY <1>2, <3>1 DEF Named, Exists
  <2>5. \A u \in Uid : Fits(w, u)'
    BY <2>3, <2>4 DEF Fits
  <2>6. good'[w] = Uid
    BY <2>3, <2>5, Gathered DEF AccountsInv, AccountsTypeOK
  <2>7. HandlerOK(w)'
    BY <2>2, <2>3, <2>6
    DEF HandlerOK, RegisterOK, LoginOK, CookieOK, SettingsOK
  <2> QED  BY <2>1, <2>7, HandlerOnly DEF AccountTaken
<1> QED  BY <1>1, <1>2 DEF AccountTaken

(* What admits a handler to the account of u.                              *)
LEMMA AdmitKeeps ==
  ASSUME AccountsInv, Gather, UNCHANGED <<tables, cookie, edits>>,
         NEW w \in Worker, NEW u \in Uid,
         hdl[w].op \in {"register", "login"}, hdl[w].pc # "idle",
         hdl[w].c \in Client, owner[u] = hdl[w].c, u \in good[w], Admit(w, u)
  PROVE  AccountsInv'
<1> DEFINE h == Fresh(hdl[w].op, "cookie", hdl[w].c, Nil, Nil, u)
<1>1. hdl' = [hdl EXCEPT ![w] = h]
  BY DEF Admit, Fresh
<1>2. h \in Handler
  BY DEF Fresh, Handler
<1>3. hdl'[w] = h
  BY <1>1, <1>2, HandlerSet DEF AccountsInv, AccountsTypeOK
<1>4. u \in good'[w]
  BY <1>3, Gathered DEF Fresh, AccountsInv, AccountsTypeOK
<1>5. owner'[u] = hdl[w].c
  BY DEF tables
<1>6. HandlerOK(w)'
  BY <1>3, <1>4, <1>5
  DEF Fresh, HandlerOK, RegisterOK, LoginOK, CookieOK, SettingsOK
<1> QED  BY <1>1, <1>2, <1>6, Begins

(* Only its owner knows what opens a row.                                  *)
LEMMA SecretOwns ==
  ASSUME AccountsInv, NEW u \in Uid, NEW c \in Client, NEW s \in Secrets(c),
         KeyIs(u, s) \/ PwdIs(u, s)
  PROVE  owner[u] = c
<1> USE AccountsAssumption
<1>1. RowOK(u) /\ merchants[u].key \in Nat /\ owner[u] \in Client \cup {Nil}
  BY DEF AccountsInv, RowsOK, AccountsTypeOK, Merchant
<1>2. CASE KeyIs(u, s)
  <2>1. s \in Uid \X Nat
    BY <1>1, <1>2 DEF KeyIs, Key
  <2>2. s \notin Knows[c]
    BY <2>1
  <2>3. PICK v \in Uid, n \in 1..MaxKeys : owner[v] = c /\ s = Key(v, n)
    BY <2>2 DEF Secrets
  <2> QED  BY <1>2, <2>3 DEF KeyIs, Key
<1>3. CASE PwdIs(u, s)
  <2>1. merchants[u].pwd = [of |-> s, salt |-> u]
    BY <1>3 DEF PwdIs, Salted
  <2>2. merchants[u].pwd # Nil
    <3>1. s \in Secret
      BY SecretsAreSecret
    <3>2. [of |-> s, salt |-> u] \in Hash
      BY <3>1 DEF Hash
    <3> QED  BY <2>1, <3>2
  <2>3. PICK p \in Knows[owner[u]] :
          owner[u] # Nil /\ merchants[u].pwd \in {Salted(p, u), Salted(p, NoSalt)}
    BY <1>1, <2>2 DEF RowOK
  <2>4. s = p
    BY <2>1, <2>3 DEF Salted
  <2>5. s \in Knows[owner[u]] /\ owner[u] \in Client /\ s \in Password
    BY <1>1, <2>3, <2>4
  <2>6. s \in Knows[c]
    BY <2>5 DEF Secrets, Key
  <2> QED  BY <2>5, <2>6
<1> QED  BY <1>2, <1>3

(* A login decided for a row of the uid or account typed.                  *)
LEMMA DecideKeeps ==
  ASSUME AccountsInv, Gather, UNCHANGED <<tables, cookie, edits>>,
         NEW w \in Worker, NEW u \in Uid,
         hdl[w].pc \in {"by_uid", "by_account"},
         \/ hdl[w].user = u /\ KeyIs(u, hdl[w].pass)
         \/ hdl[w].user \in merchants[u].names,
         Decide(w, u)
  PROVE  AccountsInv'
<1> DEFINE h == hdl[w]
<1>1. /\ h.op = "login" /\ h.c \in Client /\ h.pass \in Secrets(h.c)
      /\ \A v \in Uid : Fits(w, v) => v \in good[w]
  BY DEF AccountsInv, HandlerOK, LoginOK
<1>2. CASE Accepts(u, h.pass)
  <2>1. Admit(w, u)
    BY <1>2 DEF Decide
  <2>2. Fits(w, u)
    BY <1>1, <1>2 DEF Accepts, Fits
  <2>3. owner[u] = h.c
    BY <1>1, <1>2, SecretOwns DEF Accepts
  <2> QED  BY <1>1, <2>1, <2>2, <2>3, AdmitKeeps
<1>3. CASE ~Accepts(u, h.pass)
  <2>1. Return(w)
    BY <1>3 DEF Decide
  <2> QED  BY <2>1, Returns
<1> QED  BY <1>2, <1>3

LEMMA LoginByUidKeeps ==
  ASSUME AccountsInv, Gather, UNCHANGED edits, NEW w \in Worker, LoginByUid(w)
  PROVE  AccountsInv'
<1> DEFINE h == hdl[w]
<1>1. /\ h \in Handler /\ h.op = "login" /\ h.pc = "by_uid"
      /\ h.user \in Uid /\ h.c \in Client /\ h.pass \in Secrets(h.c)
  BY DEF LoginByUid, At, AccountsInv, AccountsTypeOK, HandlerOK, LoginOK
<1>2. CASE KeyIs(h.user, h.pass) /\ Decide(w, h.user)
  BY <1>1, <1>2, DecideKeeps DEF LoginByUid
<1>3. CASE Goto(w, "by_account")
  <2>1. /\ hdl' \in [Worker -> Handler]
        /\ hdl'[w] = [h EXCEPT !.pc = "by_account"]
        /\ \A v \in Worker \ {w} : hdl'[v] = hdl[v]
    BY <1>3, GotoSets DEF AccountsInv, AccountsTypeOK
  <2>2. /\ hdl'[w].pc = "by_account" /\ hdl'[w].op = "login"
        /\ hdl'[w].c = h.c /\ hdl'[w].pass = h.pass
    BY <1>1, <2>1 DEF Handler
  <2>3. ASSUME NEW c \in Client PROVE Secrets(c)' = Secrets(c)
    BY DEF LoginByUid, tables, Secrets
  <2>4. \A u \in Uid : Fits(w, u)' => u \in good'[w]
    BY <2>2, Gathered DEF AccountsInv, AccountsTypeOK
  <2>5. LoginOK(w)'
    <3>1. hdl'[w].pass \in Secrets(h.c)'
      BY <1>1, <2>2, <2>3
    <3> QED  BY <1>1, <2>2, <2>4, <3>1 DEF LoginOK
  <2>6. HandlerOK(w)'
    BY <2>2, <2>5 DEF HandlerOK, RegisterOK, CookieOK, SettingsOK
  <2> QED  BY <2>1, <2>6, HandlerOnly DEF LoginByUid
<1> QED  BY <1>2, <1>3 DEF LoginByUid

LEMMA LoginByAccountKeeps ==
  ASSUME AccountsInv, Gather, UNCHANGED edits, NEW w \in Worker,
         LoginByAccount(w)
  PROVE  AccountsInv'
<1>1. hdl[w].pc = "by_account" /\ UNCHANGED <<tables, cookie>>
  BY DEF LoginByAccount, At
<1>2. CASE Return(w)
  BY <1>1, <1>2, Returns
<1>3. CASE \E u \in Named(hdl[w].user) : Decide(w, u)
  <2>1. PICK u \in Named(hdl[w].user) : Decide(w, u)
    BY <1>3
  <2>2. u \in Uid /\ hdl[w].user \in merchants[u].names
    BY <2>1 DEF Named
  <2> QED  BY <1>1, <2>1, <2>2, DecideKeeps
<1> QED  BY <1>2, <1>3 DEF LoginByAccount

LEMMA SetCookieKeeps ==
  ASSUME AccountsInv, Gather, UNCHANGED edits, NEW w \in Worker, SetCookie(w)
  PROVE  AccountsInv'
<1> DEFINE c == hdl[w].c
           u == hdl[w].uid
<1>1. c \in Client /\ u \in Uid /\ owner[u] = c
  BY DEF SetCookie, AccountsInv, HandlerOK, CookieOK
<1>2. cookie \in [Client -> Uid \cup {Nil}] /\ edits' \in 0..MaxEdits
  BY DEF AccountsInv, AccountsTypeOK
<1>3. cookie' = [cookie EXCEPT ![c] = u] /\ UNCHANGED tables
  BY DEF SetCookie
<1>4. cookie' \in [Client -> Uid \cup {Nil}]
  BY <1>1, <1>2, <1>3
<1>5. SessionIsOwn'
  BY <1>1, <1>2, <1>3 DEF AccountsInv, SessionIsOwn, tables
<1>6. /\ hdl' \in [Worker -> Handler] /\ HandlerOK(w)'
      /\ \A v \in Worker \ {w} : hdl'[v] = hdl[v]
  BY ReturnSets DEF SetCookie, AccountsInv, AccountsTypeOK
<1> QED  BY <1>2, <1>3, <1>4, <1>5, <1>6, TablesStay, HandlerMoves

LEMMA RenderKeeps ==
  ASSUME AccountsInv, Gather, UNCHANGED edits, NEW w \in Worker, Render(w)
  PROVE  AccountsInv'
<1> DEFINE h == hdl[w]
<1>1. h \in Handler /\ h.pc = "render" /\ SettingsOK(w)
  BY DEF Render, AccountsInv, AccountsTypeOK, HandlerOK
<1>2. CASE Return(w)
  BY <1>2, Returns DEF Render
<1>3. CASE Exists(h.uid) /\ Goto(w, "saved")
  <2>1. /\ hdl' \in [Worker -> Handler]
        /\ hdl'[w] = [h EXCEPT !.pc = "saved"]
        /\ \A v \in Worker \ {w} : hdl'[v] = hdl[v]
    BY <1>3, GotoSets DEF AccountsInv, AccountsTypeOK
  <2>2. /\ hdl'[w].pc = "saved" /\ hdl'[w].op = h.op
        /\ hdl'[w].c = h.c /\ hdl'[w].pass = h.pass /\ hdl'[w].uid = h.uid
    BY <1>1, <2>1 DEF Handler
  <2>3. h.uid \in good'[w]
    BY <1>1, <1>3, <2>2, Gathered DEF SettingsOK, AccountsInv, AccountsTypeOK
  <2>4. SettingsOK(w)'
    <3>1. merchants' = merchants /\ owner' = owner
      BY DEF Render, tables
    <3> QED  BY <1>1, <2>2, <2>3, <3>1 DEF SettingsOK
  <2>5. HandlerOK(w)'
    BY <2>2, <2>4 DEF HandlerOK, RegisterOK, LoginOK, CookieOK
  <2> QED  BY <2>1, <2>5, HandlerOnly DEF Render
<1> QED  BY <1>2, <1>3 DEF Render

-----------------------------------------------------------------------------
(* Steps that change a row.                                                *)

LEMMA RowUpdated ==
  ASSUME AccountsInv, NEW u \in Uid, NEW m \in Merchant, Update(u, m),
         Exists(u), m.status # "none",
         merchants[u].key <= m.key,
         \/ m.pwd = merchants[u].pwd
         \/ \E p \in Knows[owner[u]] : m.pwd = Salted(p, u),
         UNCHANGED <<owner, registered>>
  PROVE  /\ Grows /\ RowsOK' /\ RegisteredOpens'
         /\ merchants' \in [Uid -> Merchant] /\ merchants'[u] = m
         /\ owner' \in [Uid -> Client \cup {Nil}] /\ registered' \subseteq Uid
<1>1. /\ merchants \in [Uid -> Merchant] /\ RowsOK /\ RegisteredOpens
      /\ owner \in [Uid -> Client \cup {Nil}] /\ registered \subseteq Uid
  BY DEF AccountsInv, AccountsTypeOK
<1>2. /\ merchants' \in [Uid -> Merchant] /\ merchants'[u] = m
      /\ \A v \in Uid \ {u} : merchants'[v] = merchants[v]
  BY <1>1 DEF Update
<1>3. Grows
  BY <1>1, <1>2 DEF Grows, Exists, Merchant
<1>4. owner[u] # Nil /\ merchants[u].status # "none"
  BY <1>1 DEF RowsOK, RowOK, Exists
<1>5. ASSUME NEW v \in Uid PROVE RowOK(v)'
  <2>1. RowOK(v)
    BY <1>1 DEF RowsOK
  <2>2. CASE v # u
    BY <1>2, <2>1, <2>2 DEF RowOK
  <2>3. CASE v = u
    <3>1. m.pwd # Nil => \E p \in Knows[owner[u]] :
                           m.pwd \in {Salted(p, u), Salted(p, NoSalt)}
      BY <2>1, <2>3 DEF RowOK
    <3> QED  BY <1>2, <1>4, <2>3, <3>1 DEF RowOK
  <2> QED  BY <2>2, <2>3
<1>6. RegisteredOpens'
  <2> SUFFICES ASSUME NEW v \in registered, Exists(v)'
               PROVE  \E p \in Knows[owner[v]] : PwdIs(v, p)'
    BY DEF RegisteredOpens
  <2>1. CASE v # u
    BY <1>1, <1>2, <2>1 DEF RegisteredOpens, Exists, PwdIs
  <2>2. CASE v = u
    BY <1>1, <1>2, <2>2 DEF RegisteredOpens, PwdIs
  <2> QED  BY <2>1, <2>2
<1> QED  BY <1>1, <1>2, <1>3, <1>5, <1>6 DEF RowsOK

LEMMA NewRow ==
  ASSUME AccountsInv, NEW u \in Uid, NEW c \in Client,
         NEW names \in SUBSET Account, NEW pwd \in Hash \cup {Nil},
         pwd # Nil => \E p \in Knows[c] : pwd \in {Salted(p, u), Salted(p, NoSalt)},
         \/ registered' = registered
         \/ /\ registered' = registered \cup {u}
            /\ \E p \in Knows[c] : pwd = Salted(p, u),
         Insert(u, c, names, pwd)
  PROVE  /\ Grows /\ RowsOK' /\ RegisteredOpens'
         /\ merchants' \in [Uid -> Merchant]
         /\ owner' \in [Uid -> Client \cup {Nil}] /\ registered' \subseteq Uid
         /\ owner[u] = Nil /\ owner'[u] = c
<1> DEFINE m == [status |-> "active", names |-> names, pwd |-> pwd, key |-> 1]
<1>1. /\ merchants \in [Uid -> Merchant] /\ RowsOK /\ RegisteredOpens
      /\ owner \in [Uid -> Client \cup {Nil}] /\ registered \subseteq Uid
  BY DEF AccountsInv, AccountsTypeOK
<1>2. m \in Merchant
  BY DEF Merchant
<1>3. /\ merchants' = [merchants EXCEPT ![u] = m]
      /\ owner' = [owner EXCEPT ![u] = c]
      /\ merchants[u].status = "none"
  BY DEF Insert, Update, NextUid
<1>4. m.status = "active" /\ m.pwd = pwd /\ m.key = 1
  OBVIOUS
<1> HIDE DEF m
<1>5. /\ merchants' \in [Uid -> Merchant] /\ merchants'[u] = m
      /\ owner' \in [Uid -> Client \cup {Nil}] /\ owner'[u] = c
      /\ \A v \in Uid \ {u} : merchants'[v] = merchants[v] /\ owner'[v] = owner[v]
  BY <1>1, <1>2, <1>3
<1>6. owner[u] = Nil /\ u \notin registered /\ merchants[u].pwd = Nil
  BY <1>1, <1>3 DEF RowsOK, RowOK
<1>7. c # Nil
  BY AccountsAssumption
<1>8. \A v \in Uid : merchants[v].key <= merchants'[v].key
  BY <1>1, <1>3, <1>4, <1>5 DEF Merchant, RowsOK, RowOK
<1>9. Grows
  BY <1>3, <1>5, <1>6, <1>8 DEF Grows, Exists
<1>10. ASSUME NEW v \in Uid PROVE RowOK(v)'
  <2>1. RowOK(v)
    BY <1>1 DEF RowsOK
  <2>2. CASE v # u
    BY <1>5, <2>1, <2>2 DEF RowOK
  <2>3. CASE v = u
    BY <1>4, <1>5, <1>7, <2>3 DEF RowOK
  <2> QED  BY <2>2, <2>3
<1>11. RegisteredOpens'
  <2> SUFFICES ASSUME NEW v \in registered', Exists(v)'
               PROVE  \E p \in Knows[owner'[v]] : PwdIs(v, p)'
    BY DEF RegisteredOpens
  <2>1. CASE v # u
    BY <1>1, <1>5, <2>1 DEF RegisteredOpens, Exists, PwdIs
  <2>2. CASE v = u
    BY <1>4, <1>5, <1>6, <2>2 DEF PwdIs
  <2> QED  BY <2>1, <2>2
<1>12. registered' \subseteq Uid
  BY <1>1
<1> QED  BY <1>5, <1>6, <1>9, <1>10, <1>11, <1>12 DEF RowsOK

(* Sessions stay right when the tables grow.                               *)
LEMMA SessionsKept ==
  ASSUME AccountsInv, Grows, UNCHANGED cookie
  PROVE  cookie' \in [Client -> Uid \cup {Nil}] /\ SessionIsOwn'
<1>1. cookie \in [Client -> Uid \cup {Nil}] /\ SessionIsOwn
  BY DEF AccountsInv, AccountsTypeOK
<1>2. Nil \notin Client
  BY AccountsAssumption
<1>3. SessionIsOwn'
  BY <1>1, <1>2 DEF SessionIsOwn, Grows
<1> QED  BY <1>1, <1>3

(* No handler moves.                                                       *)
LEMMA NoHandlerMoves ==
  ASSUME AccountsInv, Gather, Grows, UNCHANGED hdl,
         merchants' \in [Uid -> Merchant], owner' \in [Uid -> Client \cup {Nil}],
         registered' \subseteq Uid, cookie' \in [Client -> Uid \cup {Nil}],
         edits' \in 0..MaxEdits,
         RowsOK', SessionIsOwn', RegisteredOpens'
  PROVE  AccountsInv'
<1>1. good' \in [Worker -> SUBSET Uid]
  BY DEF Gather, AccountsInv, AccountsTypeOK
<1>2. AccountsTypeOK'
  BY <1>1 DEF AccountsTypeOK, AccountsInv
<1>3. ASSUME NEW v \in Worker PROVE HandlerOK(v)'
  BY <1>2, HandlerKept
<1> QED  BY <1>2, <1>3 DEF AccountsInv

LEMMA RegisterMerchantKeeps ==
  ASSUME AccountsInv, Gather, UNCHANGED edits, NEW w \in Worker,
         RegisterMerchant(w)
  PROVE  AccountsInv'
<1> DEFINE f == hdl[w]
<1>1. PICK u \in Uid : Inserted(w, u, Salted(f.pass, u)) /\ Admit(w, u)
  BY DEF RegisterMerchant
<1>2. /\ f.op = "register" /\ f.c \in Client /\ f.user \in Account
      /\ f.pass \in Knows[f.c] /\ good[w] = Uid
  BY <1>1 DEF Inserted, At, AccountsInv, HandlerOK, RegisterOK
<1>3. PICK c \in Client, a \in Account, s \in Knows[f.c] :
        f.c = c /\ f.user = a /\ f.pass = s
  BY <1>2
<1>4. /\ Grows /\ RowsOK' /\ RegisteredOpens'
      /\ merchants' \in [Uid -> Merchant]
      /\ owner' \in [Uid -> Client \cup {Nil}] /\ registered' \subseteq Uid
      /\ owner[u] = Nil /\ owner'[u] = f.c
  <2>1. Insert(u, c, {a}, Salted(s, u)) /\ registered' = registered \cup {u}
    BY <1>1, <1>3 DEF Inserted
  <2>2. s \in Knows[c] /\ s \in Secret
    BY <1>2, <1>3, AccountsAssumption DEF Secret
  <2>3. Salted(s, u) \in Hash \cup {Nil}
    BY <2>2 DEF Salted, Hash
  <2>4. {a} \in SUBSET Account
    OBVIOUS
  <2>5. /\ Grows /\ RowsOK' /\ RegisteredOpens'
        /\ merchants' \in [Uid -> Merchant]
        /\ owner' \in [Uid -> Client \cup {Nil}] /\ registered' \subseteq Uid
        /\ owner[u] = Nil /\ owner'[u] = c
    BY <2>1, <2>2, <2>3, <2>4, NewRow
  <2> QED  BY <1>3, <2>5
<1>5. UNCHANGED cookie
  BY <1>1 DEF Inserted
<1> DEFINE h == Fresh(f.op, "cookie", f.c, Nil, Nil, u)
<1>6. hdl' = [hdl EXCEPT ![w] = h]
  BY <1>1 DEF Admit, Fresh
<1>7. h \in Handler
  BY <1>2 DEF Fresh, Handler
<1>8. /\ hdl' \in [Worker -> Handler] /\ hdl'[w] = h
      /\ \A v \in Worker \ {w} : hdl'[v] = hdl[v]
  BY <1>6, <1>7, HandlerSet DEF AccountsInv, AccountsTypeOK
<1>9. /\ hdl'[w].op = "register" /\ hdl'[w].pc = "cookie"
      /\ hdl'[w].c = f.c /\ hdl'[w].uid = u
  BY <1>2, <1>8 DEF Fresh
<1>10. u \in good'[w]
  BY <1>2, <1>9, Gathered DEF AccountsInv, AccountsTypeOK
<1>11. HandlerOK(w)'
  BY <1>2, <1>4, <1>9, <1>10
  DEF HandlerOK, RegisterOK, LoginOK, CookieOK, SettingsOK
<1>12. edits' \in 0..MaxEdits
  BY DEF AccountsInv, AccountsTypeOK
<1> QED  BY <1>4, <1>5, <1>8, <1>11, <1>12, SessionsKept, HandlerMoves

(* The handler of a settings change has written and reads the row again.   *)
LEMMA WriteKeeps ==
  ASSUME AccountsInv, Gather, UNCHANGED <<cookie, edits>>, NEW w \in Worker,
         hdl[w].pc = "write", Goto(w, "render"),
         Grows, RowsOK', RegisteredOpens',
         merchants' \in [Uid -> Merchant],
         owner' \in [Uid -> Client \cup {Nil}], registered' \subseteq Uid,
         Exists(hdl[w].uid) =>
           \/ hdl[w].op = "password" /\ merchants'[hdl[w].uid].pwd =
                                            Salted(hdl[w].pass, hdl[w].uid)
           \/ /\ hdl[w].op = "reset"
              /\ merchants'[hdl[w].uid].key = merchants[hdl[w].uid].key + 1
  PROVE  AccountsInv'
<1> DEFINE f == hdl[w]
<1>1. /\ f \in Handler /\ f.op \in {"reset", "password"} /\ f.c \in Client
      /\ f.uid \in Uid /\ owner[f.uid] = f.c
      /\ f.op = "password" => f.pass \in Knows[f.c]
      /\ f.op = "reset" =>
           \E n \in Nat : n <= merchants[f.uid].key /\ f.pass = Key(f.uid, n)
      /\ merchants[f.uid] \in Merchant /\ RowOK(f.uid)
  BY DEF AccountsInv, AccountsTypeOK, RowsOK, HandlerOK, SettingsOK
<1>2. PICK u \in Uid, c \in Client : f.uid = u /\ f.c = c
  BY <1>1
<1>3. /\ hdl' \in [Worker -> Handler]
      /\ hdl'[w] = [f EXCEPT !.pc = "render"]
      /\ \A v \in Worker \ {w} : hdl'[v] = hdl[v]
  BY GotoSets DEF AccountsInv, AccountsTypeOK
<1>4. /\ hdl'[w].pc = "render" /\ hdl'[w].op = f.op /\ hdl'[w].c = f.c
      /\ hdl'[w].pass = f.pass /\ hdl'[w].uid = f.uid
  BY <1>1, <1>3 DEF Handler
<1>5. owner'[u] = c /\ merchants[u].status # "none"
  BY <1>1, <1>2, AccountsAssumption DEF Grows, RowOK
<1>6. merchants[u].key \in Nat /\ merchants'[u].key \in Nat
      /\ merchants[u].key <= merchants'[u].key
  BY <1>1, <1>2 DEF Merchant, Grows
<1>7. f.op = "reset" =>
        \E n \in Nat : n <= merchants'[u].key /\ f.pass = Key(u, n)
  BY <1>1, <1>2, <1>6
<1>8. ASSUME Exists(u)' PROVE u \in good'[w]
  <2>1. Exists(u)
    BY <1>5, <1>8 DEF Grows
  <2>2. CASE f.op = "password"
    <3>1. Fits(w, u)'
      BY <1>4, <1>2, <2>1, <2>2 DEF Fits, PwdIs
    <3> QED  BY <1>4, <3>1, Gathered DEF AccountsInv, AccountsTypeOK
  <2>3. CASE f.op = "reset"
    <3>1. merchants'[u].key = merchants[u].key + 1
      BY <1>2, <2>1, <2>3
    <3>2. PICK n \in Nat : n <= merchants[u].key /\ f.pass = <<u, n>>
      BY <1>1, <1>2, <2>3 DEF Key
    <3>3. f.pass # <<u, merchants'[u].key>>
      BY <1>6, <3>1, <3>2
    <3>4. Fits(w, u)'
      BY <1>4, <1>2, <2>3, <3>3 DEF Fits, KeyIs, Key
    <3> QED  BY <1>4, <3>4, Gathered DEF AccountsInv, AccountsTypeOK
  <2> QED  BY <1>1, <2>2, <2>3
<1>9. SettingsOK(w)'
  <2>1. /\ hdl'[w].pc = "render" /\ hdl'[w].op = f.op /\ hdl'[w].c = c
        /\ hdl'[w].pass = f.pass /\ hdl'[w].uid = u
    BY <1>4, <1>2
  <2>2. f.op = "password" => f.pass \in Knows[c]
    BY <1>1, <1>2
  <2> QED  BY <1>1, <1>5, <1>7, <1>8, <2>1, <2>2 DEF SettingsOK
<1>10. HandlerOK(w)'
  BY <1>4, <1>9 DEF HandlerOK, RegisterOK, LoginOK, CookieOK
<1>11. edits' \in 0..MaxEdits
  BY DEF AccountsInv, AccountsTypeOK
<1> QED  BY <1>3, <1>10, <1>11, SessionsKept, HandlerMoves

LEMMA ResetMerchantKeyKeeps ==
  ASSUME AccountsInv, Gather, UNCHANGED edits, NEW w \in Worker,
         ResetMerchantKey(w)
  PROVE  AccountsInv'
<1>1. PICK u \in Uid : hdl[w].uid = u
  BY DEF ResetMerchantKey, At, AccountsInv, HandlerOK, SettingsOK
<1>2. merchants \in [Uid -> Merchant]
  BY DEF AccountsInv, AccountsTypeOK
<1>3. /\ hdl[w].op = "reset" /\ hdl[w].pc = "write" /\ Goto(w, "render")
      /\ UpdateIfExists(u, Rekeyed(u)) /\ UNCHANGED <<owner, registered, cookie>>
  BY <1>1 DEF ResetMerchantKey, At
<1>4. CASE Exists(u)
  <2> DEFINE m == Rekeyed(u)
  <2>1. /\ m \in Merchant /\ m.status = merchants[u].status
        /\ m.pwd = merchants[u].pwd /\ m.key = merchants[u].key + 1
        /\ merchants[u].key <= m.key
    BY <1>2 DEF Rekeyed, Merchant
  <2>2. Update(u, m) /\ m.status # "none"
    BY <1>3, <1>4, <2>1 DEF UpdateIfExists, Exists
  <2> HIDE DEF m
  <2>3. /\ Grows /\ RowsOK' /\ RegisteredOpens'
        /\ merchants' \in [Uid -> Merchant] /\ merchants'[u] = m
        /\ owner' \in [Uid -> Client \cup {Nil}] /\ registered' \subseteq Uid
    BY <1>3, <1>4, <2>1, <2>2, RowUpdated
  <2>4. merchants'[hdl[w].uid].key = merchants[hdl[w].uid].key + 1
    BY <1>1, <2>1, <2>3
  <2> QED  BY <1>3, <2>3, <2>4, WriteKeeps
<1>5. CASE ~Exists(u)
  <2>1. merchants' = merchants
    BY <1>2, <1>3, <1>5 DEF UpdateIfExists, Update
  <2>2. UNCHANGED tables
    BY <1>3, <2>1 DEF tables
  <2> QED  BY <1>1, <1>3, <1>5, <2>2, TablesStay, WriteKeeps
<1> QED  BY <1>4, <1>5

LEMMA SetMerchantPasswordKeeps ==
  ASSUME AccountsInv, Gather, UNCHANGED edits, NEW w \in Worker,
         SetMerchantPassword(w)
  PROVE  AccountsInv'
<1>1. /\ hdl[w].op = "password" /\ hdl[w].pc = "write" /\ Goto(w, "render")
      /\ UNCHANGED <<owner, registered, cookie>>
      /\ merchants \in [Uid -> Merchant]
  BY DEF SetMerchantPassword, At, AccountsInv, AccountsTypeOK
<1>2. PICK u \in Uid, c \in Client, s \in Knows[hdl[w].c] :
        hdl[w].uid = u /\ hdl[w].c = c /\ hdl[w].pass = s /\ owner[u] = c
  BY <1>1 DEF AccountsInv, HandlerOK, SettingsOK
<1>3. s \in Knows[c] /\ s \in Secret
  BY <1>2, AccountsAssumption DEF Secret
<1> DEFINE m == [merchants[u] EXCEPT !.pwd = Salted(s, u)]
<1>4. UpdateIfExists(u, m)
  BY <1>2 DEF SetMerchantPassword, HashPassword
<1>5. CASE Exists(u)
  <2>1. Salted(s, u) \in Hash
    BY <1>3 DEF Salted, Hash
  <2>2. /\ m \in Merchant /\ m.status = merchants[u].status
        /\ m.pwd = Salted(s, u) /\ merchants[u].key <= m.key
    BY <1>1, <2>1 DEF Merchant
  <2>3. Update(u, m) /\ m.status # "none"
    BY <1>4, <1>5, <2>2 DEF UpdateIfExists, Exists
  <2> HIDE DEF m
  <2>4. \E p \in Knows[owner[u]] : m.pwd = Salted(p, u)
    BY <1>2, <1>3, <2>2
  <2>5. /\ Grows /\ RowsOK' /\ RegisteredOpens'
        /\ merchants' \in [Uid -> Merchant] /\ merchants'[u] = m
        /\ owner' \in [Uid -> Client \cup {Nil}] /\ registered' \subseteq Uid
    BY <1>1, <1>5, <2>2, <2>3, <2>4, RowUpdated
  <2>6. merchants'[hdl[w].uid].pwd = Salted(hdl[w].pass, hdl[w].uid)
    BY <1>2, <2>2, <2>5
  <2> QED  BY <1>1, <2>5, <2>6, WriteKeeps
<1>6. CASE ~Exists(u)
  <2>1. merchants' = merchants
    BY <1>1, <1>4, <1>6 DEF UpdateIfExists, Update
  <2>2. UNCHANGED tables
    BY <1>1, <2>1 DEF tables
  <2> QED  BY <1>1, <1>2, <1>6, <2>2, TablesStay, WriteKeeps
<1> QED  BY <1>5, <1>6

-----------------------------------------------------------------------------
(* The administrator, and sessions that end.                               *)

LEMMA CreateMerchantKeeps ==
  ASSUME AccountsInv, Gather, edits' \in 0..MaxEdits,
         NEW u \in Uid, NEW c \in Client, NEW names \in SUBSET Account,
         NEW pwd \in {Salted(p, NoSalt) : p \in Knows[c]} \cup {Nil},
         CreateMerchant(u, c, names, pwd)
  PROVE  AccountsInv'
<1>1. pwd # Nil => \E p \in Knows[c] : pwd \in {Salted(p, u), Salted(p, NoSalt)}
  OBVIOUS
<1>2. \A p \in Knows[c] : p \in Secret
  BY AccountsAssumption DEF Secret
<1>3. pwd \in Hash \cup {Nil}
  BY <1>2 DEF Salted, Hash
<1>4. Insert(u, c, names, pwd) /\ UNCHANGED <<registered, cookie, hdl>>
  BY DEF CreateMerchant
<1>5. /\ Grows /\ RowsOK' /\ RegisteredOpens'
      /\ merchants' \in [Uid -> Merchant]
      /\ owner' \in [Uid -> Client \cup {Nil}] /\ registered' \subseteq Uid
  BY <1>1, <1>3, <1>4, NewRow
<1> QED  BY <1>4, <1>5, SessionsKept, NoHandlerMoves

(* The administrator changes the status or the key of a row.               *)
LEMMA AdminUpdateKeeps ==
  ASSUME AccountsInv, Gather, edits' \in 0..MaxEdits,
         NEW u \in Uid, NEW m \in Merchant, Update(u, m), Exists(u),
         m.status # "none", m.pwd = merchants[u].pwd,
         merchants[u].key <= m.key,
         UNCHANGED <<owner, registered, cookie, hdl>>
  PROVE  AccountsInv'
<1>1. /\ Grows /\ RowsOK' /\ RegisteredOpens'
      /\ merchants' \in [Uid -> Merchant]
      /\ owner' \in [Uid -> Client \cup {Nil}] /\ registered' \subseteq Uid
  BY RowUpdated
<1> QED  BY <1>1, SessionsKept, NoHandlerMoves

LEMMA AdminStepKeeps ==
  ASSUME AccountsInv, Gather, AdminStep, edits' \in 0..MaxEdits
  PROVE  AccountsInv'
<1>1. merchants \in [Uid -> Merchant]
  BY DEF AccountsInv, AccountsTypeOK
<1>2. ASSUME NEW u \in Uid, NEW s \in {"active", "banned", "deleted"}
      PROVE  LET m == [merchants[u] EXCEPT !.status = s] IN
             /\ m \in Merchant /\ m.status # "none"
             /\ m.pwd = merchants[u].pwd /\ merchants[u].key <= m.key
  BY <1>1 DEF Merchant
<1>3. ASSUME NEW u \in Uid, DeleteMerchant(u) PROVE AccountsInv'
  BY <1>2, <1>3, AdminUpdateKeeps DEF DeleteMerchant
<1>4. ASSUME NEW u \in Uid, NEW s \in {"active", "banned"},
             UpdateMerchantStatus(u, s)
      PROVE  AccountsInv'
  BY <1>2, <1>4, AdminUpdateKeeps DEF UpdateMerchantStatus
<1>5. ASSUME NEW u \in Uid, MerchantResetKey(u) PROVE AccountsInv'
  <2> DEFINE m == Rekeyed(u)
  <2>1. Exists(u) /\ m \in Merchant /\ m.status = merchants[u].status
    BY <1>1, <1>5 DEF MerchantResetKey, Rekeyed, Merchant
  <2>2. m.pwd = merchants[u].pwd /\ merchants[u].key <= m.key
    BY <1>1 DEF Rekeyed, Merchant
  <2>3. m.status # "none"
    BY <2>1 DEF Exists
  <2> QED
    BY <1>5, <2>1, <2>2, <2>3, AdminUpdateKeeps DEF MerchantResetKey
<1> QED  BY <1>3, <1>4, <1>5, CreateMerchantKeeps DEF AdminStep

LEMMA SessionEndsKeeps ==
  ASSUME AccountsInv, Gather, UNCHANGED edits, NEW c \in Client, SessionEnds(c)
  PROVE  AccountsInv'
<1>1. /\ cookie' = [cookie EXCEPT ![c] = Nil] /\ UNCHANGED <<tables, hdl>>
      /\ cookie \in [Client -> Uid \cup {Nil}] /\ SessionIsOwn
      /\ edits' \in 0..MaxEdits
  BY DEF SessionEnds, AccountsInv, AccountsTypeOK
<1>2. cookie' \in [Client -> Uid \cup {Nil}] /\ SessionIsOwn'
  BY <1>1 DEF SessionIsOwn, tables
<1> QED  BY <1>1, <1>2, TablesStay, NoHandlerMoves

-----------------------------------------------------------------------------
LEMMA AccountsInvInit == AccountsInit => AccountsInv
<1> SUFFICES ASSUME AccountsInit PROVE AccountsInv
  OBVIOUS
<1>1. \A u \in Uid : merchants[u] = NoMerchant /\ owner[u] = Nil
  BY DEF AccountsInit
<1>2. NoMerchant \in Merchant
  BY DEF NoMerchant, Merchant
<1>3. AccountsTypeOK
  BY <1>2, IdleHandler, AccountsAssumption DEF AccountsInit, AccountsTypeOK
<1>4. RowsOK
  BY <1>1 DEF AccountsInit, RowsOK, RowOK, NoMerchant
<1>5. \A w \in Worker : hdl[w].pc = "idle"
  BY IdleHandler DEF AccountsInit
<1>6. \A w \in Worker : HandlerOK(w)
  BY <1>5 DEF HandlerOK, RegisterOK, LoginOK, CookieOK, SettingsOK
<1>7. SessionIsOwn /\ RegisteredOpens
  BY DEF AccountsInit, SessionIsOwn, RegisteredOpens
<1> QED  BY <1>3, <1>4, <1>6, <1>7 DEF AccountsInv

LEMMA AccountsInvNext == AccountsInv /\ [AccountsNext]_vars => AccountsInv'
<1> SUFFICES ASSUME AccountsInv, [AccountsNext]_vars PROVE AccountsInv'
  OBVIOUS
<1>1. CASE UNCHANGED vars
  <2>1. AccountsTypeOK'
    BY <1>1 DEF vars, tables, AccountsInv, AccountsTypeOK
  <2>2. RowsOK' /\ SessionIsOwn' /\ RegisteredOpens'
    BY <1>1 DEF vars, tables, AccountsInv, RowsOK, RowOK, SessionIsOwn,
                RegisteredOpens, Exists, PwdIs
  <2>3. ASSUME NEW w \in Worker PROVE HandlerOK(w)'
    BY <1>1 DEF vars, tables, AccountsInv, HandlerOK, RegisterOK, LoginOK,
                CookieOK, SettingsOK, Fits, Secrets, Exists, Named, KeyIs, PwdIs
  <2> QED  BY <2>1, <2>2, <2>3 DEF AccountsInv
<1>2. ASSUME Gather, UNCHANGED edits, NEW w \in Worker, RegisterStep(w)
      PROVE  AccountsInv'
  BY <1>2, RegisterKeeps, AccountTakenKeeps, RegisterMerchantKeeps
  DEF RegisterStep
<1>3. ASSUME Gather, UNCHANGED edits, NEW w \in Worker, LoginStep(w)
      PROVE  AccountsInv'
  BY <1>3, LoginKeeps, LoginByUidKeeps, LoginByAccountKeeps, SetCookieKeeps
  DEF LoginStep
<1>4. ASSUME Gather, UNCHANGED edits, NEW w \in Worker, SettingsStep(w)
      PROVE  AccountsInv'
  <2>1. CASE Saved(w)
    BY <1>4, <2>1, Returns DEF Saved
  <2> QED
    BY <1>4, <2>1, SettingsResetKeeps, SettingsPasswordKeeps, RenderKeeps,
       ResetMerchantKeyKeeps, SetMerchantPasswordKeeps
    DEF SettingsStep
<1>5. ASSUME Gather, UNCHANGED edits, NEW w \in Worker, Stop(w)
      PROVE  AccountsInv'
  BY <1>5, Returns DEF Stop
<1>6. ASSUME Gather, AdminStep, edits < MaxEdits, edits' = edits + 1
      PROVE  AccountsInv'
  <2>1. edits' \in 0..MaxEdits
    BY <1>6, AccountsAssumption DEF AccountsInv, AccountsTypeOK
  <2> QED  BY <1>6, <2>1, AdminStepKeeps
<1> QED
  BY <1>1, <1>2, <1>3, <1>4, <1>5, <1>6, SessionEndsKeeps DEF AccountsNext

LEMMA AccountsInvariant == AccountsSpec => []AccountsInv
  BY AccountsInvInit, AccountsInvNext, PTL DEF AccountsSpec

(* The types of tables, sessions and handlers, through every interleaving   *)
(* of portal.rs and admin.rs.                                              *)
THEOREM AccountsTypeCorrect == AccountsSpec => []AccountsTypeOK
<1>1. AccountsInv => AccountsTypeOK
  BY DEF AccountsInv
<1> QED  BY <1>1, AccountsInvariant, PTL

(* Registration and login put nobody into another merchant's account.      *)
THEOREM SessionsAreOwn == AccountsSpec => []SessionIsOwn
<1>1. AccountsInv => SessionIsOwn
  BY DEF AccountsInv
<1> QED  BY <1>1, AccountsInvariant, PTL

(* A registration that is answered with a session found its address free at *)
(* some moment of the request (portal.rs:100-111).                         *)
THEOREM RegistrationsWereFree == AccountsSpec => []RegisteredWhenFree
<1>1. AccountsInv => RegisteredWhenFree
  BY DEF AccountsInv, HandlerOK, CookieOK, At, RegisteredWhenFree
<1> QED  BY <1>1, AccountsInvariant, PTL

(* A login that is let in typed the credentials of a row that was not       *)
(* banned, at some moment of the request (portal.rs:156-189).              *)
THEOREM LoginsWereGood == AccountsSpec => []LoginWasGood
<1>1. AccountsInv => LoginWasGood
  BY DEF AccountsInv, HandlerOK, CookieOK, At, LoginWasGood
<1> QED  BY <1>1, AccountsInvariant, PTL

(* A settings page that says a change was saved is right: the row held it at *)
(* some moment of the request (portal.rs:341-358).                         *)
THEOREM PagesWereTrue == AccountsSpec => []SavedWasSaved
<1>1. AccountsInv => SavedWasSaved
  BY DEF AccountsInv, HandlerOK, SettingsOK, At, SavedWasSaved
<1> QED  BY <1>1, AccountsInvariant, PTL

(* A row registered through the portal always opens with a password of its  *)
(* owner.                                                                  *)
THEOREM RegisteredAlwaysOpens == AccountsSpec => []RegisteredOpens
<1>1. AccountsInv => RegisteredOpens
  BY DEF AccountsInv
<1> QED  BY <1>1, AccountsInvariant, PTL
=============================================================================
