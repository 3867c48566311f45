------------------------------ MODULE Notifier ------------------------------
(***************************************************************************)
(* notify_merchant and the retry task of src/src/web.rs.  An invocation of  *)
(* notify_merchant reads the order and the merchant's key, calls the        *)
(* merchant, and records the attempt; a handler and the retry task may run  *)
(* it for the same order at the same time.                                  *)
(***************************************************************************)
EXTENDS AdminOps

CONSTANTS
  RetryTask,     \* the retry_pending_notifications task
  Limit          \* rows a retry batch takes (20 in the code)

ASSUME NotifierAssumption == RetryTask \notin Worker /\ Limit \in Nat \ {0}

Notifying == Worker \cup {RetryTask}

VARIABLES
  job,           \* notify_merchant, as run by each worker and by the task
  batch,         \* orders the retry task has read and not yet handled
  told,          \* history: orders a merchant was sent TRADE_SUCCESS for
  sends          \* history: how often each merchant call was made

notifierVars == <<job, batch, told, sends>>

Job == [pc : {"idle", "read", "send", "record"},
        t  : TradeNo \cup {Nil},
        ok : BOOLEAN]

NoJob == [pc |-> "idle", t |-> Nil, ok |-> FALSE]

Calls(t) == [pc |-> "read", t |-> t, ok |-> FALSE]

NotifierTypeOK ==
  /\ StoreTypeOK
  /\ job \in [Notifying -> Job]
  /\ batch \subseteq TradeNo
  /\ told \subseteq TradeNo
  /\ sends \in [TradeNo -> Nat]

NotifierIdle ==
  /\ job = [p \in Notifying |-> NoJob]
  /\ batch = {}
  /\ told = {}
  /\ sends = [t \in TradeNo |-> 0]

-----------------------------------------------------------------------------
(* notify_merchant, one action per await.                                  *)

NotifyRead(p) ==
  /\ job[p].pc = "read"
  /\ Exists(job[p].t) /\ MerchantExists(orders[job[p].t].uid)
  /\ job' = [job EXCEPT ![p].pc = "send"]
  /\ UNCHANGED <<storeVars, batch, told, sends>>

(* Row or merchant gone, or the read failed: returns without recording an   *)
(* attempt.                                                                *)
NotifyReadFails(p) ==
  /\ job[p].pc = "read"
  /\ \/ /\ ~ (Exists(job[p].t) /\ MerchantExists(orders[job[p].t].uid))
        /\ UNCHANGED faults
     \/ Fault
  /\ job' = [job EXCEPT ![p] = NoJob]
  /\ UNCHANGED <<tables, history, losses, edits, batch, told, sends>>

(* The GET with trade_status TRADE_SUCCESS.  The status just read is not    *)
(* looked at.  The merchant may get it and have its answer lost, refuse,    *)
(* or never be reached.                                                    *)
NotifySend(p) ==
  /\ job[p].pc = "send"
  /\ \E reached, ok \in BOOLEAN :
       /\ ok => reached
       /\ told' = IF reached THEN told \cup {job[p].t} ELSE told
       /\ job' = [job EXCEPT ![p].pc = "record", ![p].ok = ok]
  /\ sends' = [sends EXCEPT ![job[p].t] = @ + 1]
  /\ UNCHANGED <<storeVars, batch>>

(* The result of record_notify_attempt is dropped, so a failed statement    *)
(* leaves the row as it was.                                               *)
NotifyRecord(p) ==
  /\ job[p].pc = "record"
  /\ \/ RecordNotifyAttempt(job[p].t, job[p].ok) /\ UNCHANGED faults
     \/ Fault /\ UNCHANGED rows
  /\ job' = [job EXCEPT ![p] = NoJob]
  /\ UNCHANGED <<users, enabled, edited, losses, edits, batch, told, sends>>

NotifyStep(p) ==
  NotifyRead(p) \/ NotifyReadFails(p) \/ NotifySend(p) \/ NotifyRecord(p)

-----------------------------------------------------------------------------
(* retry_pending_notifications: a batch is read once and then worked off    *)
(* one order after the other.  The query has no ORDER BY.                   *)

RetryTick ==
  /\ job[RetryTask].pc = "idle" /\ batch = {}
  /\ PendingNotifications # {}
  /\ \E S \in SUBSET PendingNotifications :
       /\ \/ Cardinality(S) = Limit
          \/ Cardinality(S) < Limit /\ S = PendingNotifications
       /\ batch' = S
  /\ UNCHANGED <<storeVars, job, told, sends>>

RetryNext ==
  /\ job[RetryTask].pc = "idle"
  /\ \E t \in batch :
       /\ batch' = batch \ {t}
       /\ job' = [job EXCEPT ![RetryTask] = Calls(t)]
  /\ UNCHANGED <<storeVars, told, sends>>

NotifyTimePasses ==
  /\ \E t \in TradeNo : NotifyWindowPasses(t)
  /\ UNCHANGED <<users, enabled, edited, counters, notifierVars>>

-----------------------------------------------------------------------------
(* The notifier next to everything that makes it work: callbacks confirm    *)
(* payments, administrators edit orders and delete merchants, tasks die.    *)

(* mark_paid in any callback handler, and the call of notify_merchant when  *)
(* it returned true.                                                       *)
ConfirmPayment(w, t) ==
  /\ job[w].pc = "idle"
  /\ Exists(t)
  /\ MarkPaid(t, Nil)
  /\ job' = IF BecomesPaid(t) THEN [job EXCEPT ![w] = Calls(t)] ELSE job
  /\ UNCHANGED <<users, enabled, edited, counters, batch, told, sends>>

(* order_refund's last statement.                                          *)
RefundRecorded(t) ==
  /\ Edit({})
  /\ orders[t].status = Paid
  /\ OrderSetRefunded(t)
  /\ UNCHANGED <<users, enabled, faults, losses, notifierVars>>

(* The connection closes and hyper drops the handler at its await.         *)
DropWorker(w) ==
  /\ Loss
  /\ job[w].pc # "idle"
  /\ job' = [job EXCEPT ![w] = NoJob]
  /\ UNCHANGED <<tables, history, faults, edits, batch, told, sends>>

(* The process dies and systemd starts it again: the tables survive.       *)
NotifierRestart ==
  /\ Loss
  /\ job' = [p \in Notifying |-> NoJob]
  /\ batch' = {}
  /\ UNCHANGED <<tables, history, faults, edits, told, sends>>

NotifierInit ==
  /\ orders \in [TradeNo -> {[NoRow EXCEPT !.status = Unpaid, !.uid = m] :
                               m \in Merchant}]
  /\ users = [m \in Merchant |-> "active"]
  /\ enabled = {}
  /\ HistoryEmpty
  /\ NotifierIdle

NotifierNext ==
  \/ \E p \in Notifying : NotifyStep(p)
  \/ RetryTick
  \/ RetryNext
  \/ NotifyTimePasses
  \/ \E w \in Worker, t \in TradeNo : ConfirmPayment(w, t)
  \/ \E t \in TradeNo : RefundRecorded(t)
  \/ \E t \in TradeNo : OrderUpdate(t, Paid) /\ UNCHANGED notifierVars
  \/ \E t \in TradeNo : OrdersDelete({t}) /\ UNCHANGED notifierVars
  \/ \E m \in Merchant : MerchantDelete(m) /\ UNCHANGED notifierVars
  \/ \E w \in Worker : DropWorker(w)
  \/ NotifierRestart

nvars == <<storeVars, notifierVars>>

NotifierSpec == NotifierInit /\ [][NotifierNext]_nvars

(* The runtime polls every task that can go on, the interval keeps ticking, *)
(* a merchant call ends within its 8 s timeout and the clock advances.      *)
NotifierFairness ==
  /\ \A p \in Notifying : WF_nvars(NotifyStep(p))
  /\ WF_nvars(RetryTick)
  /\ WF_nvars(RetryNext)
  /\ WF_nvars(NotifyTimePasses)

FairNotifierSpec == NotifierSpec /\ NotifierFairness

-----------------------------------------------------------------------------
(* Properties.                                                             *)

(* A merchant is told TRADE_SUCCESS only for an order that has been marked  *)
(* paid, although notify_merchant never looks at the status: every caller   *)
(* of web.rs:595 got the order number from a row that was paid.             *)
ToldWasPaid == told \subseteq wasPaid

(* The calls made for one order stay bounded: GiveUp recorded failures, one *)
(* more when the handler's own call overlaps the first retry, one per call  *)
(* whose record was lost (web.rs:258-266 filter, web.rs:667-682 loop).      *)
AttemptsBounded ==
  \A t \in TradeNo \ (edited \cup wasRefunded) :
    sends[t] <= GiveUp + 1 + faults + losses

(* Two handlers never run the notification of one order: mark_paid answers  *)
(* true to one of the callbacks that race for it (store.rs:207-234).        *)
OneHandlerNotifies ==
  \A v, w \in Worker :
    /\ v # w /\ job[v].pc # "idle" /\ job[w].pc # "idle"
    /\ job[v].t \notin edited \cup wasRefunded
    => job[v].t # job[w].t

(* A notification recorded as delivered stays so: a slower overlapping call *)
(* that fails adds one to 99 and does not put the order back among those    *)
(* the retry task picks (store.rs:236-255).                                 *)
DeliveredStays ==
  [][\A t \in TradeNo :
       orders[t].notify >= Delivered /\ t \notin edited'
       => orders'[t].notify >= Delivered]_orders

(* Every paid order of an existing merchant is in the end delivered or      *)
(* given up, whatever calls and processes were lost on the way.             *)
NotifySettles ==
  \A t \in TradeNo :
    orders[t].status = Paid /\ MerchantExists(orders[t].uid)
    ~> \/ orders[t].notify >= GiveUp
       \/ orders[t].status # Paid
       \/ ~ MerchantExists(orders[t].uid)
=============================================================================
