--------------------------- MODULE NotifierProofs ---------------------------
(***************************************************************************)
(* Proofs about Notifier, for any number of orders, merchants and handlers  *)
(* and any bounds.  One inductive invariant carries the type invariant and  *)
(* the two safety invariants: whatever a notification still to be made, or  *)
(* under way, is for was marked paid, and a handler that notifies is the    *)
(* one whose mark_paid made the order paid.                                *)
(***************************************************************************)
EXTENDS Notifier, StoreProofs

JobsWerePaid ==
  /\ \A p \in Notifying : job[p].pc # "idle" => job[p].t \in wasPaid
  /\ batch \subseteq wasPaid
  /\ told \subseteq wasPaid

(* A handler's order stays paid while it notifies, unless it was refunded   *)
(* or an administrator edited it: so nobody else can make it paid.         *)
HandlersOrderIsPaid ==
  \A w \in Worker :
    job[w].pc # "idle" /\ job[w].t \notin edited \cup wasRefunded
    => orders[job[w].t].status = Paid

NotifierInv ==
  /\ StoreInv
  /\ job \in [Notifying -> Job]
  /\ sends \in [TradeNo -> Nat]
  /\ JobsWerePaid
  /\ HandlersOrderIsPaid
  /\ OneHandlerNotifies

(* The invariant carries the types.                                        *)
LEMMA NotifierInvTypes == NotifierInv => NotifierTypeOK
  BY StoreInvTypes
  DEF NotifierInv, NotifierTypeOK, JobsWerePaid, StoreInv, RowsInv, RowsOK

(* The records a job can hold.                                             *)
LEMMA JobRecords ==
  /\ NoJob \in Job /\ NoJob.pc = "idle"
  /\ \A t \in TradeNo : Calls(t) \in Job /\ Calls(t).pc # "idle" /\ Calls(t).t = t
  /\ \A j \in Job :
       /\ [j EXCEPT !.pc = "send"] \in Job
       /\ [j EXCEPT !.pc = "send"].t = j.t
       /\ \A ok \in BOOLEAN :
            /\ [j EXCEPT !.pc = "record", !.ok = ok] \in Job
            /\ [j EXCEPT !.pc = "record", !.ok = ok].t = j.t
<1>1. NoJob \in Job /\ NoJob.pc = "idle"
  BY DEF NoJob, Job
<1>2. \A t \in TradeNo : Calls(t) \in Job /\ Calls(t).pc # "idle" /\ Calls(t).t = t
  BY DEF Calls, Job
<1>3. ASSUME NEW j \in Job
      PROVE  /\ [j EXCEPT !.pc = "send"] \in Job
             /\ [j EXCEPT !.pc = "send"].t = j.t
  BY DEF Job
<1>4. ASSUME NEW j \in Job, NEW ok \in BOOLEAN
      PROVE  /\ [j EXCEPT !.pc = "record", !.ok = ok] \in Job
             /\ [j EXCEPT !.pc = "record", !.ok = ok].t = j.t
  BY DEF Job
<1> QED  BY <1>1, <1>2, <1>3, <1>4

(* A job that changes only at p.                                           *)
LEMMA OneJobChanges ==
  ASSUME job \in [Notifying -> Job], NEW p \in Notifying, NEW j \in Job,
         job' = [job EXCEPT ![p] = j]
  PROVE  /\ job' \in [Notifying -> Job]
         /\ job'[p] = j
         /\ \A q \in Notifying \ {p} : job'[q] = job[q]
  OBVIOUS

(* The invariant holds of an idle notifier, whatever is in the tables.     *)
LEMMA NotifierIdleInv == StoreInv /\ NotifierIdle => NotifierInv
<1> SUFFICES ASSUME StoreInv, NotifierIdle PROVE NotifierInv
  OBVIOUS
<1>1. /\ job \in [Notifying -> Job]
      /\ \A p \in Notifying : job[p].pc = "idle"
  BY JobRecords DEF NotifierIdle
<1>2. sends \in [TradeNo -> Nat]
  BY DEF NotifierIdle
<1>3. JobsWerePaid
  BY <1>1 DEF NotifierIdle, JobsWerePaid
<1>4. HandlersOrderIsPaid /\ OneHandlerNotifies
  BY <1>1 DEF HandlersOrderIsPaid, OneHandlerNotifies, Notifying
<1> QED  BY <1>1, <1>2, <1>3, <1>4 DEF NotifierInv

(* The invariant holds of unpaid orders and an idle notifier.              *)
LEMMA NotifierInvInit == NotifierInit => NotifierInv
<1> SUFFICES ASSUME NotifierInit PROVE NotifierInv
  OBVIOUS
<1>1. ASSUME NEW t \in TradeNo
      PROVE  orders[t] \in Row /\ orders[t].status # Paid /\ orders[t].notify = 0
  <2>1. PICK m \in Merchant :
          orders[t] = [NoRow EXCEPT !.status = Unpaid, !.uid = m]
    BY DEF NotifierInit
  <2>2. orders[t] =
          [status |-> Unpaid, uid |-> m, out |-> Nil, money |-> Nil,
           channel |-> NoChannel, api |-> Nil, notify |-> 0,
           notifytime |-> "null", addtime |-> "recent"]
    BY <2>1 DEF NoRow
  <2>3. orders[t] \in Row
    BY <2>2 DEF Row
  <2>4. orders[t].status = Unpaid /\ orders[t].notify = 0
    BY <2>2
  <2> QED
    BY <2>3, <2>4 DEF Unpaid, Paid
<1>2. orders \in [TradeNo -> Row]
  BY <1>1 DEF NotifierInit
<1>3. StoreInv
  BY <1>1, <1>2, StoreInvInit DEF NotifierInit
<1> QED  BY <1>3, NotifierIdleInv DEF NotifierInit

-----------------------------------------------------------------------------
(* What a step does to the jobs.                                           *)

(* Steps after which no handler notifies that did not notify before, and    *)
(* that queue and tell only what was paid.                                 *)
LEMMA JobsKeep ==
  ASSUME NotifierInv, NEW T \in SUBSET TradeNo, NEW U \in SUBSET TradeNo,
         StoreStep(T, U),
         job' \in [Notifying -> Job], sends' \in [TradeNo -> Nat],
         batch' \subseteq wasPaid, told' \subseteq wasPaid,
         \A p \in Notifying : job'[p].pc # "idle" => job'[p].t \in wasPaid,
         \A w \in Worker : job'[w].pc # "idle" =>
                             job[w].pc # "idle" /\ job'[w].t = job[w].t
  PROVE  NotifierInv'
<1>1. JobsWerePaid'
  BY DEF StoreStep, KeepsRows, JobsWerePaid
<1>2. \A w \in Worker : job[w].pc # "idle" => job[w].t \in TradeNo
  BY DEF NotifierInv, JobsWerePaid, StoreInv, RowsInv, RowsOK, Notifying
<1>3. HandlersOrderIsPaid'
  BY <1>2 DEF NotifierInv, HandlersOrderIsPaid, StoreStep, StaysBut
<1>4. OneHandlerNotifies'
  BY <1>2 DEF NotifierInv, OneHandlerNotifies, StoreStep, StaysBut
<1> QED  BY <1>1, <1>3, <1>4 DEF NotifierInv, StoreStep

(* Steps that do nothing to the notifier but end some jobs.                *)
LEMMA JobsEnd ==
  ASSUME NotifierInv, NEW T \in SUBSET TradeNo, NEW U \in SUBSET TradeNo,
         StoreStep(T, U), UNCHANGED <<told, sends>>, batch' \subseteq batch,
         job' \in [Notifying -> Job],
         \A p \in Notifying : job'[p].pc # "idle" => job'[p] = job[p]
  PROVE  NotifierInv'
<1>1. /\ sends' \in [TradeNo -> Nat]
      /\ batch' \subseteq wasPaid /\ told' \subseteq wasPaid
      /\ \A p \in Notifying : job'[p].pc # "idle" => job'[p].t \in wasPaid
      /\ \A w \in Worker : job'[w].pc # "idle" =>
                             job[w].pc # "idle" /\ job'[w].t = job[w].t
  BY DEF NotifierInv, JobsWerePaid, Notifying
<1> QED  BY <1>1, JobsKeep

(* A handler's mark_paid answered true and the handler starts to notify:    *)
(* the order was not paid, so no other handler is notifying it.            *)
LEMMA HandlerStarts ==
  ASSUME NotifierInv, NEW w \in Worker, NEW t \in TradeNo,
         NEW api \in Payment \cup {Nil}, MarkPaid(t, api), BecomesPaid(t),
         StoreStep({}, {}), job' = [job EXCEPT ![w] = Calls(t)],
         UNCHANGED <<batch, told, sends>>
  PROVE  NotifierInv'
<1>1. /\ orders[t].status # Paid /\ orders'[t].status = Paid
      /\ t \in wasPaid' /\ wasRefunded' = wasRefunded /\ edited' = edited
  BY MarkPaidKeeps DEF BecomesPaid, StoreStep, NotifierInv, StoreInv
<1>2. /\ job' \in [Notifying -> Job]
      /\ job'[w].pc # "idle" /\ job'[w].t = t
      /\ \A q \in Notifying \ {w} : job'[q] = job[q]
  BY JobRecords, OneJobChanges DEF NotifierInv, Notifying
<1>3. JobsWerePaid'
  BY <1>1, <1>2 DEF NotifierInv, JobsWerePaid, StoreStep, KeepsRows
<1>4. \A v \in Worker : job[v].pc # "idle" => job[v].t \in TradeNo
  BY DEF NotifierInv, JobsWerePaid, StoreInv, RowsInv, RowsOK, Notifying
<1>5. HandlersOrderIsPaid'
  BY <1>1, <1>2, <1>4
  DEF NotifierInv, HandlersOrderIsPaid, StoreStep, StaysBut, Notifying
<1>6. \A v \in Worker : job[v].pc # "idle" /\ job[v].t = t
                        => t \in edited' \cup wasRefunded'
  BY <1>1 DEF NotifierInv, HandlersOrderIsPaid
<1>7. OneHandlerNotifies'
  BY <1>1, <1>2, <1>6 DEF NotifierInv, OneHandlerNotifies, Notifying
<1> QED  BY <1>2, <1>3, <1>5, <1>7 DEF NotifierInv, StoreStep

-----------------------------------------------------------------------------
(* The actions: what each does to the store, and that it keeps the          *)
(* invariant.                                                              *)

(* The read of notify_merchant (web.rs:596) goes on or gives up.           *)
LEMMA NotifyReadStep ==
  ASSUME NotifierInv, NEW p \in Notifying, NotifyRead(p) \/ NotifyReadFails(p)
  PROVE  StoreStep({}, {}) /\ UNCHANGED <<tables, history>> /\ NotifierInv'
<1>1. /\ UNCHANGED <<tables, history, losses, edits, batch, told, sends>>
      /\ UNCHANGED faults \/ Fault
  BY DEF NotifyRead, NotifyReadFails, storeVars, counters
<1>2. StoreStep({}, {})
  BY <1>1, QuietStep DEF NotifierInv
<1>3. PICK j \in {NoJob, [job[p] EXCEPT !.pc = "send"]} :
        job' = [job EXCEPT ![p] = j]
  BY DEF NotifyRead, NotifyReadFails
<1>4. job[p] \in Job /\ job[p].pc # "idle"
  BY DEF NotifierInv, NotifyRead, NotifyReadFails
<1>5. j \in Job /\ (j.pc # "idle" => j.t = job[p].t)
  <2>1. CASE j = NoJob
    BY <2>1, JobRecords
  <2>2. CASE j = [job[p] EXCEPT !.pc = "send"]
    BY <1>4, <2>2, JobRecords
  <2> QED  BY <2>1, <2>2
<1>6. /\ job' \in [Notifying -> Job] /\ job'[p] = j
      /\ \A q \in Notifying \ {p} : job'[q] = job[q]
  BY <1>3, <1>5, OneJobChanges DEF NotifierInv
<1>7. /\ \A q \in Notifying : job'[q].pc # "idle" => job'[q].t \in wasPaid
      /\ \A w \in Worker : job'[w].pc # "idle" =>
                             job[w].pc # "idle" /\ job'[w].t = job[w].t
      /\ batch' \subseteq wasPaid /\ told' \subseteq wasPaid
      /\ sends' \in [TradeNo -> Nat]
  BY <1>1, <1>4, <1>5, <1>6 DEF NotifierInv, JobsWerePaid, Notifying
<1> QED  BY <1>1, <1>2, <1>6, <1>7, JobsKeep

(* The call to the merchant (web.rs:628) is for an order that was paid.    *)
LEMMA NotifySendStep ==
  ASSUME NotifierInv, NEW p \in Notifying, NotifySend(p)
  PROVE  /\ StoreStep({}, {}) /\ UNCHANGED storeVars /\ NotifierInv'
         /\ \E t \in wasPaid : told' \in {told, told \cup {t}}
<1>1. PICK ok \in BOOLEAN :
        /\ job' = [job EXCEPT ![p] = [job[p] EXCEPT !.pc = "record", !.ok = ok]]
        /\ told' \in {told, told \cup {job[p].t}}
  BY DEF NotifySend
<1> DEFINE j == [job[p] EXCEPT !.pc = "record", !.ok = ok]
<1>2. /\ UNCHANGED <<storeVars, batch>>
      /\ sends' = [sends EXCEPT ![job[p].t] = @ + 1]
      /\ job[p].pc # "idle"
  BY DEF NotifySend
<1>3. StoreStep({}, {})
  BY <1>2, QuietStep DEF NotifierInv, storeVars, counters
<1>4. job[p] \in Job /\ j \in Job /\ j.t = job[p].t
  BY JobRecords DEF NotifierInv
<1>5. job[p].t \in wasPaid
  BY <1>2 DEF NotifierInv, JobsWerePaid
<1> HIDE DEF j
<1>6. /\ job' \in [Notifying -> Job] /\ job'[p] = j
      /\ \A q \in Notifying \ {p} : job'[q] = job[q]
  BY <1>1, <1>4, OneJobChanges DEF NotifierInv, j
<1>7. /\ \A q \in Notifying : job'[q].pc # "idle" => job'[q].t \in wasPaid
      /\ \A w \in Worker : job'[w].pc # "idle" =>
                             job[w].pc # "idle" /\ job'[w].t = job[w].t
      /\ batch' \subseteq wasPaid /\ told' \subseteq wasPaid
  BY <1>1, <1>2, <1>4, <1>5, <1>6 DEF NotifierInv, JobsWerePaid, Notifying
<1>8. sends' \in [TradeNo -> Nat]
  <2>1. sends \in [TradeNo -> Nat]
    BY DEF NotifierInv
  <2>2. job[p].t \in TradeNo => sends[job[p].t] + 1 \in Nat
    BY <2>1
  <2> QED  BY <1>2, <2>1, <2>2
<1> QED  BY <1>1, <1>2, <1>3, <1>5, <1>6, <1>7, <1>8, JobsKeep

(* record_notify_attempt, done or failed, ends the notification            *)
(* (web.rs:658).                                                           *)
LEMMA NotifyRecordStep ==
  ASSUME NotifierInv, NEW p \in Notifying, NotifyRecord(p)
  PROVE  /\ StoreStep({}, {}) /\ UNCHANGED <<wasPaid, edited, told>>
         /\ NotifierInv'
<1>1. job[p] \in Job /\ job[p].ok \in BOOLEAN /\ job[p].t \in TradeNo
  BY DEF NotifierInv, NotifyRecord, Job, JobsWerePaid, StoreInv, RowsInv, RowsOK
<1>2. /\ RecordNotifyAttempt(job[p].t, job[p].ok) \/ UNCHANGED rows
      /\ UNCHANGED faults \/ Fault
      /\ job' = [job EXCEPT ![p] = NoJob]
      /\ UNCHANGED <<users, enabled, edited, losses, edits, batch, told, sends>>
  BY DEF NotifyRecord
<1>3. RowsInv' /\ KeepsRows /\ StaysBut({}) /\ StandBut({})
  BY <1>1, <1>2, RecordNotifyAttemptKeeps, RowsUnchanged
  DEF NotifierInv, StoreInv
<1>4. StoreStep({}, {})
  BY <1>2, <1>3, StatementStep DEF NotifierInv
<1>5. /\ job' \in [Notifying -> Job]
      /\ \A q \in Notifying : job'[q].pc # "idle" => job'[q] = job[q]
  BY <1>2, JobRecords, OneJobChanges DEF NotifierInv
<1>6. UNCHANGED wasPaid
  BY <1>2 DEF RecordNotifyAttempt, rows
<1> QED  BY <1>2, <1>4, <1>5, <1>6, JobsEnd

(* A batch is read from rows that are paid (web.rs:672), and a job is made  *)
(* for one of its orders (web.rs:679).                                     *)
LEMMA RetryStep ==
  ASSUME NotifierInv, RetryTick \/ RetryNext
  PROVE  /\ StoreStep({}, {}) /\ UNCHANGED <<storeVars, told>> /\ NotifierInv'
<1>1. UNCHANGED <<storeVars, told, sends>>
  BY DEF RetryTick, RetryNext
<1>2. StoreStep({}, {})
  BY <1>1, QuietStep DEF NotifierInv, storeVars, counters
<1>3. batch' \subseteq wasPaid
  BY DEF RetryTick, RetryNext, PendingNotifications, NotifierInv, StoreInv,
         RowsInv, PaidIsRecorded, JobsWerePaid
<1>4. /\ job' \in [Notifying -> Job]
      /\ \A p \in Notifying \ {RetryTask} : job'[p] = job[p]
      /\ job'[RetryTask].pc # "idle" => job'[RetryTask].t \in wasPaid
  <2>1. CASE RetryTick
    BY <2>1 DEF RetryTick, NotifierInv, JobsWerePaid, Notifying
  <2>2. CASE RetryNext
    <3>1. PICK t \in batch : job' = [job EXCEPT ![RetryTask] = Calls(t)]
      BY <2>2 DEF RetryNext
    <3>2. t \in TradeNo /\ t \in wasPaid
      BY DEF NotifierInv, JobsWerePaid, StoreInv, RowsInv, RowsOK
    <3> QED
      BY <3>1, <3>2, JobRecords, OneJobChanges DEF NotifierInv, Notifying
  <2> QED  BY <2>1, <2>2
<1>5. \A w \in Worker : job'[w] = job[w]
  BY <1>4, NotifierAssumption DEF Notifying
<1>6. /\ \A q \in Notifying : job'[q].pc # "idle" => job'[q].t \in wasPaid
      /\ told' \subseteq wasPaid /\ sends' \in [TradeNo -> Nat]
  BY <1>1, <1>4 DEF NotifierInv, JobsWerePaid
<1> QED  BY <1>1, <1>2, <1>3, <1>4, <1>5, <1>6, JobsKeep

(* The clock passes the window of the retry filter.                        *)
LEMMA NotifyTimePassesStep ==
  ASSUME NotifierInv, NotifyTimePasses
  PROVE  /\ StoreStep({}, {}) /\ UNCHANGED <<wasPaid, edited, told>>
         /\ NotifierInv'
<1>1. /\ RowsInv' /\ KeepsRows /\ StaysBut({}) /\ StandBut({})
      /\ UNCHANGED wasPaid
  BY NotifyWindowPassesKeeps
  DEF NotifyTimePasses, NotifyWindowPasses, NotifierInv, StoreInv
<1>2. UNCHANGED <<users, enabled, edited, counters, notifierVars>>
  BY DEF NotifyTimePasses
<1>3. StoreStep({}, {})
  BY <1>1, <1>2, StatementStep DEF NotifierInv, counters
<1> QED
  BY <1>1, <1>2, <1>3, JobsEnd DEF notifierVars, NotifierInv

(* Every step of the notifier itself.                                      *)
LEMMA NotifierOwnStep ==
  ASSUME NotifierInv,
         \/ \E p \in Notifying : NotifyStep(p)
         \/ RetryTick \/ RetryNext \/ NotifyTimePasses
  PROVE  /\ StoreStep({}, {}) /\ UNCHANGED <<wasPaid, edited>> /\ NotifierInv'
         /\ told' = told \/ \E t \in wasPaid : told' = told \cup {t}
<1>1. CASE \E p \in Notifying : NotifyRead(p) \/ NotifyReadFails(p)
  BY <1>1, NotifyReadStep DEF NotifyRead, NotifyReadFails, history
<1>2. CASE \E p \in Notifying : NotifySend(p)
  BY <1>2, NotifySendStep DEF storeVars, history
<1>3. CASE \E p \in Notifying : NotifyRecord(p)
  BY <1>3, NotifyRecordStep
<1>4. CASE RetryTick \/ RetryNext
  BY <1>4, RetryStep DEF storeVars, history
<1>5. CASE NotifyTimePasses
  BY <1>5, NotifyTimePassesStep
<1> QED  BY <1>1, <1>2, <1>3, <1>4, <1>5 DEF NotifyStep

(* A callback confirms a payment (web.rs:505-513).                         *)
LEMMA ConfirmPaymentStep ==
  ASSUME NotifierInv, NEW w \in Worker, NEW t \in TradeNo, ConfirmPayment(w, t)
  PROVE  StoreStep({}, {}) /\ NotifierInv'
<1>1. RowsInv' /\ KeepsRows /\ StaysBut({}) /\ StandBut({})
  BY MarkPaidKeeps DEF ConfirmPayment, NotifierInv, StoreInv
<1>2. UNCHANGED <<users, enabled, edited, counters, batch, told, sends>>
  BY DEF ConfirmPayment
<1>3. StoreStep({}, {})
  BY <1>1, <1>2, StatementStep DEF NotifierInv, counters
<1>4. CASE ~ BecomesPaid(t)
  BY <1>2, <1>3, <1>4, JobsEnd DEF ConfirmPayment, NotifierInv
<1>5. CASE BecomesPaid(t)
  BY <1>2, <1>3, <1>5, HandlerStarts DEF ConfirmPayment
<1> QED  BY <1>3, <1>4, <1>5

(* A refund is recorded (admin.rs:881).                                    *)
LEMMA RefundRecordedStep ==
  ASSUME NotifierInv, NEW t \in TradeNo, RefundRecorded(t)
  PROVE  StoreStep({}, {})
<1>1. RowsInv' /\ KeepsRows /\ StaysBut({}) /\ StandBut({})
  BY OrderSetRefundedKeeps DEF RefundRecorded, NotifierInv, StoreInv
<1>2. BesideOK' /\ edited' = edited \cup {}
  BY StoreAssumption DEF NotifierInv, StoreInv, BesideOK, RefundRecorded, Edit
<1> QED  BY <1>1, <1>2 DEF StoreStep, StoreInv

(* Handlers are dropped, or all tasks with the process.                    *)
LEMMA LossStep ==
  ASSUME NotifierInv, NotifierRestart \/ \E w \in Worker : DropWorker(w)
  PROVE  StoreStep({}, {}) /\ NotifierInv'
<1>1. /\ UNCHANGED <<tables, history, faults, edits, told, sends>>
      /\ Loss /\ batch' \subseteq batch
  BY DEF NotifierRestart, DropWorker
<1>2. StoreStep({}, {})
  BY <1>1, QuietStep DEF NotifierInv
<1>3. /\ job' \in [Notifying -> Job]
      /\ \A p \in Notifying : job'[p].pc # "idle" => job'[p] = job[p]
  BY JobRecords DEF NotifierInv, NotifierRestart, DropWorker
<1> QED  BY <1>1, <1>2, <1>3, JobsEnd

-----------------------------------------------------------------------------
(* Every step of the specification keeps the invariant, and is a step of    *)
(* the store.                                                              *)
LEMMA NotifierInvStep ==
  NotifierInv /\ [NotifierNext]_nvars
  => NotifierInv' /\ \E T, U \in SUBSET TradeNo : StoreStep(T, U)
<1> SUFFICES ASSUME NotifierInv, [NotifierNext]_nvars
             PROVE  NotifierInv' /\ \E T, U \in SUBSET TradeNo : StoreStep(T, U)
  OBVIOUS
<1>1. CASE (\E p \in Notifying : NotifyStep(p))
           \/ RetryTick \/ RetryNext \/ NotifyTimePasses
  BY <1>1, NotifierOwnStep
<1>2. CASE \E w \in Worker, t \in TradeNo : ConfirmPayment(w, t)
  BY <1>2, ConfirmPaymentStep
<1>3. CASE NotifierRestart \/ \E w \in Worker : DropWorker(w)
  BY <1>3, LossStep
<1>4. CASE \/ \E t \in TradeNo : RefundRecorded(t)
           \/ \E t \in TradeNo : OrderUpdate(t, Paid) /\ UNCHANGED notifierVars
           \/ \E t \in TradeNo : OrdersDelete({t}) /\ UNCHANGED notifierVars
           \/ \E m \in Merchant : MerchantDelete(m) /\ UNCHANGED notifierVars
           \/ UNCHANGED nvars
  <2>1. PICK T \in SUBSET TradeNo, U \in SUBSET TradeNo : StoreStep(T, U)
    <3>1. StoreInv
      BY DEF NotifierInv
    <3>2. CASE \E t \in TradeNo : RefundRecorded(t)
      BY <3>2, RefundRecordedStep
    <3>3. CASE \E t \in TradeNo : OrderUpdate(t, Paid)
      BY <3>1, <3>3, OrderUpdateStep
    <3>4. CASE \E t \in TradeNo : OrdersDelete({t})
      BY <3>1, <3>4, OrderDeleteStep
    <3>5. CASE \E m \in Merchant : MerchantDelete(m)
      BY <3>1, <3>5, TableStep
    <3>6. CASE UNCHANGED nvars
      BY <3>1, <3>6, QuietStep DEF nvars, storeVars, counters
    <3> QED  BY <1>4, <3>2, <3>3, <3>4, <3>5, <3>6
  <2>2. UNCHANGED notifierVars
    BY <1>4 DEF RefundRecorded, nvars
  <2> QED  BY <2>1, <2>2, JobsEnd DEF notifierVars, NotifierInv
<1> QED  BY <1>1, <1>2, <1>3, <1>4 DEF NotifierNext

(* The invariant holds in every reachable state.                           *)
LEMMA NotifierInvariant == NotifierSpec => []NotifierInv
<1> QED  BY NotifierInvInit, NotifierInvStep, PTL DEF NotifierSpec

(* Tables, jobs, batch and histories keep their types.                     *)
THEOREM NotifierTypeCorrect == NotifierSpec => []NotifierTypeOK
<1> QED  BY NotifierInvTypes, NotifierInvariant, PTL

(* No merchant is told of an order that was never marked paid: although     *)
(* notify_merchant (web.rs:595) does not read the status, and the batch it   *)
(* works from may be stale.                                                *)
THEOREM ToldOnlyWhenPaid == NotifierSpec => []ToldWasPaid
<1>1. NotifierInv => ToldWasPaid
  BY DEF NotifierInv, JobsWerePaid, ToldWasPaid
<1> QED  BY <1>1, NotifierInvariant, PTL

(* However many callbacks race for an order, one of them notifies: mark_paid *)
(* (store.rs:207) answers true to one alone.                               *)
THEOREM OnlyOneHandlerNotifies == NotifierSpec => []OneHandlerNotifies
<1>1. NotifierInv => OneHandlerNotifies
  BY DEF NotifierInv
<1> QED  BY <1>1, NotifierInvariant, PTL

(* A delivered notification stays delivered, but for an order that an        *)
(* administrator edits: a slower overlapping call that fails adds to the 99  *)
(* that record_notify_attempt (store.rs:236) wrote.                        *)
THEOREM DeliveredNotificationStays == NotifierSpec => DeliveredStays
<1>1. NotifierInv /\ [NotifierNext]_nvars
      => [\A t \in TradeNo :
            orders[t].notify >= Delivered /\ t \notin edited'
            => orders'[t].notify >= Delivered]_orders
  BY NotifierInvStep DEF StoreStep, StaysBut
<1> QED  BY <1>1, NotifierInvariant, PTL DEF NotifierSpec, DeliveredStays
-----------------------------------------------------------------------------
(* The calls made for an order.                                            *)

Lost == faults + losses

(* A handler that has still to call the merchant, and the task likewise or  *)
(* with the order in its batch.                                            *)
Calling(t) == \E w \in Worker : job[w].pc \in {"read", "send"} /\ job[w].t = t

Due(t) ==
  \/ t \in batch
  \/ job[RetryTask].pc \in {"read", "send"} /\ job[RetryTask].t = t

Recording(t) == job[RetryTask].pc = "record" /\ job[RetryTask].t = t

Own(t) == IF Calling(t) THEN 0 ELSE 1

InFlight(t) == IF Recording(t) THEN 1 ELSE 0

(* Calls made are the handler's own, those that were counted, those whose   *)
(* record was lost and the task's call in flight.  Once notify has reached  *)
(* GiveUp nothing is counted, but then the order is due at most once more,  *)
(* for a batch read before: with one call to spare.                        *)
CallsOK(t) ==
  /\ t \notin wasPaid => sends[t] = 0
  /\ t \in wasPaid => orders[t].status = Paid
  /\ sends[t] <= Own(t) + GiveUp + Lost
  /\ Due(t) => sends[t] < Own(t) + GiveUp + Lost
  /\ orders[t].notify < GiveUp
     => sends[t] <= Own(t) + orders[t].notify + Lost + InFlight(t)

Touched == edited \cup wasRefunded

CallsInv ==
  /\ NotifierInv
  /\ job[RetryTask].pc # "idle" => job[RetryTask].t \notin batch
  /\ \A t \in TradeNo \ Touched : CallsOK(t)

(* The calls that may go uncounted are a number.                           *)
LEMMA LostIsNat ==
  ASSUME StoreInv
  PROVE  faults \in Nat /\ losses \in Nat /\ Lost \in Nat
<1>1. faults \in Nat /\ losses \in Nat
  BY StoreAssumption DEF StoreInv, BesideOK
<1> QED  BY <1>1 DEF Lost

(* Steps that make no call for t.                                          *)
LEMMA CallsKeep ==
  ASSUME NEW t \in TradeNo, NotifierInv, NotifierInv', CallsOK(t),
         sends'[t] = sends[t], Lost' >= Lost,
         t \in wasPaid' <=> t \in wasPaid,
         t \in wasPaid => orders'[t].status = Paid,
         Calling(t)' => Calling(t), Due(t)' => Due(t),
         orders'[t].notify < GiveUp
         => /\ orders[t].notify < GiveUp
            /\ orders'[t].notify + Lost' + InFlight(t)'
                 >= orders[t].notify + Lost + InFlight(t)
  PROVE  CallsOK(t)'
<1>1. /\ sends[t] \in Nat /\ orders[t].notify \in Nat /\ orders'[t].notify \in Nat
      /\ GiveUp \in Nat
  BY StoreAssumption DEF NotifierInv, StoreInv, RowsInv, RowsOK, Row
<1>2. /\ Own(t) \in {0, 1} /\ Own(t)' \in {0, 1} /\ Own(t)' >= Own(t)
      /\ InFlight(t) \in {0, 1} /\ InFlight(t)' \in {0, 1}
  BY DEF Own, InFlight
<1>3. Lost \in Nat /\ Lost' \in Nat
  <2>1. faults' \in Nat /\ losses' \in Nat
    BY StoreAssumption DEF NotifierInv, StoreInv, BesideOK
  <2> QED  BY <2>1, LostIsNat DEF NotifierInv, Lost
<1> QED  BY <1>1, <1>2, <1>3 DEF CallsOK

(* A job ends or goes on from its read: what it is for stays.              *)
LEMMA JobGoesOn ==
  ASSUME job \in [Notifying -> Job], NEW p \in Notifying, NEW j \in Job,
         job' = [job EXCEPT ![p] = j], batch' \subseteq batch,
         \/ j.pc = "idle"
         \/ j.pc = "send" /\ job[p].pc = "read" /\ j.t = job[p].t,
         NEW t
  PROVE  /\ Calling(t)' => Calling(t)
         /\ Due(t)' => Due(t)
         /\ p # RetryTask \/ job[p].pc # "record" => InFlight(t)' = InFlight(t)
<1>1. /\ job'[p] = j /\ \A q \in Notifying \ {p} : job'[q] = job[q]
      /\ RetryTask \in Notifying /\ Worker \subseteq Notifying
  BY OneJobChanges DEF Notifying
<1>2. Calling(t)' => Calling(t)
  BY <1>1 DEF Calling
<1>3. Due(t)' => Due(t)
  BY <1>1 DEF Due
<1>4. p # RetryTask \/ job[p].pc # "record" => InFlight(t)' = InFlight(t)
  BY <1>1 DEF InFlight, Recording
<1> QED  BY <1>2, <1>3, <1>4

(* Nothing lost is forgotten.                                              *)
LEMMA LostGrows ==
  ASSUME StoreInv, UNCHANGED faults \/ Fault, UNCHANGED losses \/ Loss
  PROVE  Lost' >= Lost
  BY DEF StoreInv, BesideOK, Lost, Fault, Loss

(* What CallsInv says of an order that is untouched after the step.        *)
LEMMA UntouchedOK ==
  ASSUME CallsInv, NEW T \in SUBSET TradeNo, NEW U \in SUBSET TradeNo,
         StoreStep(T, U), NEW t \in TradeNo, t \notin Touched'
  PROVE  t \notin Touched /\ CallsOK(t) /\ t \notin T
  BY DEF CallsInv, Touched, StoreStep, StaysBut

(* Nobody calls for, or waits to call for, an order that was not paid.      *)
LEMMA CallsArePaid ==
  ASSUME NotifierInv, NEW t, Calling(t) \/ Due(t) \/ Recording(t)
  PROVE  t \in wasPaid
  BY DEF NotifierInv, JobsWerePaid, Calling, Due, Recording, Notifying

(* Reading the order, or failing to, makes no call.                        *)
LEMMA ReadKeepsCalls ==
  ASSUME CallsInv, NEW p \in Notifying, NotifyRead(p) \/ NotifyReadFails(p),
         NEW t \in TradeNo, t \notin Touched'
  PROVE  CallsOK(t)'
<1>1. /\ UNCHANGED <<tables, history, losses, edits, batch, told, sends>>
      /\ UNCHANGED faults \/ Fault
  BY DEF NotifyRead, NotifyReadFails, storeVars, counters
<1>2. NotifierInv /\ NotifierInv' /\ StoreStep({}, {})
  BY NotifyReadStep DEF CallsInv
<1>3. Lost' >= Lost
  BY <1>1, <1>2, LostGrows DEF NotifierInv
<1>4. PICK j \in {NoJob, [job[p] EXCEPT !.pc = "send"]} :
        job' = [job EXCEPT ![p] = j]
  BY DEF NotifyRead, NotifyReadFails
<1>5. job[p] \in Job /\ job[p].pc = "read"
  BY <1>2 DEF NotifierInv, NotifyRead, NotifyReadFails
<1>6. /\ j \in Job
      /\ j.pc = "idle" \/ (j.pc = "send" /\ j.t = job[p].t)
  <2>1. CASE j = NoJob
    BY <2>1, JobRecords
  <2>2. CASE j = [job[p] EXCEPT !.pc = "send"]
    BY <1>5, <2>2 DEF Job
  <2> QED  BY <2>1, <2>2
<1>7. /\ Calling(t)' => Calling(t)
      /\ Due(t)' => Due(t)
      /\ InFlight(t)' = InFlight(t)
  BY <1>1, <1>2, <1>4, <1>5, <1>6, JobGoesOn DEF NotifierInv
<1>8. CallsOK(t) /\ orders' = orders /\ wasPaid' = wasPaid /\ sends' = sends
  BY <1>1, <1>2, UntouchedOK DEF tables, history
<1>9. /\ orders[t].notify \in Nat /\ Lost \in Nat /\ Lost' \in Nat
      /\ InFlight(t) \in Nat
  BY <1>2 DEF NotifierInv, StoreInv, RowsInv, RowsOK, BesideOK, Row, Lost, InFlight
<1>10. t \in wasPaid => orders[t].status = Paid
  BY <1>8 DEF CallsOK
<1> QED  BY <1>2, <1>3, <1>7, <1>8, <1>9, <1>10, CallsKeep

(* An attempt is counted, or the loss of its record is.                    *)
LEMMA RecordKeepsCalls ==
  ASSUME CallsInv, NEW p \in Notifying, NotifyRecord(p),
         NEW t \in TradeNo, t \notin Touched'
  PROVE  CallsOK(t)'
<1>1. NotifierInv /\ NotifierInv' /\ StoreStep({}, {})
  BY NotifyRecordStep DEF CallsInv
<1>2. /\ \/ RecordNotifyAttempt(job[p].t, job[p].ok) /\ UNCHANGED faults
         \/ Fault /\ UNCHANGED rows
      /\ job[p].pc = "record" /\ job' = [job EXCEPT ![p] = NoJob]
      /\ UNCHANGED <<losses, batch, sends>>
  BY DEF NotifyRecord
<1>3. CallsOK(t) /\ UNCHANGED wasPaid
  BY <1>1, <1>2, UntouchedOK DEF RecordNotifyAttempt, rows
<1>4. Lost' >= Lost
  BY <1>1, <1>2, LostGrows DEF NotifierInv
<1>5. /\ orders \in [TradeNo -> Row] /\ orders[t].notify \in Nat
      /\ Lost \in Nat /\ faults \in Nat /\ losses \in Nat
  BY <1>1, LostIsNat DEF NotifierInv, StoreInv, RowsInv, RowsOK, Row
<1>6. /\ Calling(t)' => Calling(t)
      /\ Due(t)' => Due(t)
      /\ p # RetryTask => InFlight(t)' = InFlight(t)
  BY <1>1, <1>2, JobRecords, JobGoesOn DEF NotifierInv
<1>7. /\ InFlight(t) \in {0, 1} /\ InFlight(t)' \in {0, 1}
      /\ job[p].t # t => InFlight(t)' = InFlight(t)
  <2>1. job'[RetryTask] = IF p = RetryTask THEN NoJob ELSE job[RetryTask]
    BY <1>1, <1>2 DEF NotifierInv, Notifying
  <2> QED  BY <2>1, JobRecords DEF InFlight, Recording
<1>8. t \in wasPaid => orders[t].status = Paid
  BY <1>3 DEF CallsOK
<1>9. CASE Fault /\ UNCHANGED rows
  <2>1. orders' = orders /\ Lost' = Lost + 1
    BY <1>2, <1>5, <1>9 DEF rows, Fault, Lost
  <2>2. InFlight(t)' + 1 >= InFlight(t)
    BY <1>7
  <2>3. orders'[t].notify + Lost' + InFlight(t)' >= orders[t].notify + Lost + InFlight(t)
    BY <1>5, <1>7, <2>1, <2>2
  <2> QED  BY <1>1, <1>2, <1>3, <1>4, <1>5, <1>6, <1>7, <1>8, <2>1, <2>3, CallsKeep
<1>10. CASE RecordNotifyAttempt(job[p].t, job[p].ok) /\ UNCHANGED faults /\ job[p].t # t
  <2>1. orders'[t] = orders[t] /\ Lost' = Lost
    BY <1>2, <1>5, <1>10 DEF RecordNotifyAttempt, Lost
  <2>2. InFlight(t)' = InFlight(t)
    BY <1>7, <1>10
  <2> QED  BY <1>1, <1>2, <1>3, <1>5, <1>6, <1>7, <1>8, <2>1, <2>2, CallsKeep
<1>11. CASE RecordNotifyAttempt(job[p].t, job[p].ok) /\ UNCHANGED faults /\ job[p].t = t
  <2>1. t \in wasPaid /\ orders[t].status = Paid /\ Lost' = Lost
    BY <1>1, <1>2, <1>8, <1>11 DEF NotifierInv, JobsWerePaid, Lost
  <2>2. Exists(t)
    BY <2>1 DEF Exists, Paid, Unpaid
  <2>3. /\ orders'[t].status = Paid
        /\ orders'[t].notify \in {Delivered, orders[t].notify + 1}
    BY <1>5, <1>11, <2>1, <2>2 DEF RecordNotifyAttempt, Row
  <2>4. orders'[t].notify < GiveUp => orders'[t].notify = orders[t].notify + 1
    BY <2>3, StoreAssumption
  <2>5. GiveUp \in Nat
    BY StoreAssumption
  <2> QED  BY <1>1, <1>2, <1>3, <1>4, <1>5, <1>6, <1>7, <2>1, <2>3, <2>4, <2>5, CallsKeep
<1> QED  BY <1>2, <1>9, <1>10, <1>11

(* The call of a handler is its own, a call of the task one it had to spare. *)
LEMMA SendKeepsCalls ==
  ASSUME CallsInv, NEW p \in Notifying, NotifySend(p),
         NEW t \in TradeNo, t \notin Touched'
  PROVE  CallsOK(t)'
<1>1. NotifierInv /\ NotifierInv' /\ StoreStep({}, {})
  BY NotifySendStep DEF CallsInv
<1>2. PICK ok \in BOOLEAN :
        job' = [job EXCEPT ![p] = [job[p] EXCEPT !.pc = "record", !.ok = ok]]
  BY DEF NotifySend
<1>3. PICK j \in Job : j = [job[p] EXCEPT !.pc = "record", !.ok = ok]
  BY <1>1, JobRecords DEF NotifierInv
<1>4. /\ job[p].pc = "send" /\ UNCHANGED <<storeVars, batch>>
      /\ sends' = [sends EXCEPT ![job[p].t] = @ + 1]
  BY DEF NotifySend
<1>5. /\ j.pc = "record" /\ j.t = job[p].t
  BY <1>1, <1>3, JobRecords DEF NotifierInv, Job
<1>6. /\ job'[p] = j /\ \A q \in Notifying \ {p} : job'[q] = job[q]
      /\ RetryTask \in Notifying /\ Worker \subseteq Notifying
  BY <1>1, <1>2, <1>3, OneJobChanges DEF NotifierInv, Notifying
<1>7. /\ t \notin Touched /\ CallsOK(t)
      /\ orders' = orders /\ wasPaid' = wasPaid /\ Lost' = Lost
  BY <1>1, <1>4, UntouchedOK DEF storeVars, tables, history, counters, Lost
<1>8. /\ sends[t] \in Nat /\ orders[t].notify \in Nat /\ Lost \in Nat /\ GiveUp \in Nat
  BY <1>1, StoreAssumption
  DEF NotifierInv, StoreInv, RowsInv, RowsOK, BesideOK, Row, Lost
<1>9. Calling(t)' => Calling(t)
  BY <1>5, <1>6 DEF Calling
<1>10. CASE job[p].t # t
  <2>1. /\ sends'[t] = sends[t]
        /\ Due(t)' => Due(t)
        /\ InFlight(t)' = InFlight(t)
    BY <1>1, <1>4, <1>5, <1>6, <1>10 DEF NotifierInv, Due, InFlight, Recording
  <2>2. InFlight(t) \in Nat /\ (t \in wasPaid => orders[t].status = Paid)
    BY <1>7 DEF InFlight, CallsOK
  <2> QED  BY <1>1, <1>7, <1>8, <1>9, <2>1, <2>2, CallsKeep
<1>11. CASE job[p].t = t
  <2>1. t \in wasPaid /\ sends'[t] = sends[t] + 1
    BY <1>1, <1>4, <1>11 DEF NotifierInv, JobsWerePaid
  <2>2. CASE p \in Worker
    <3>1. Calling(t)
      BY <1>4, <1>11, <2>2 DEF Calling
    <3>2. ~ Calling(t)'
      BY <1>1, <1>4, <1>5, <1>6, <1>7, <1>11, <2>2
      DEF Calling, NotifierInv, OneHandlerNotifies, Touched
    <3>3. /\ Own(t) = 0 /\ Own(t)' = 1
      BY <3>1, <3>2 DEF Own
    <3>4. InFlight(t)' = InFlight(t) /\ Due(t)' = Due(t) /\ InFlight(t) \in Nat
      BY <1>4, <1>6, <2>2, NotifierAssumption DEF InFlight, Recording, Due
    <3> QED  BY <1>7, <1>8, <2>1, <3>3, <3>4 DEF CallsOK
  <2>3. CASE p = RetryTask
    <3>1. Due(t) /\ InFlight(t) = 0 /\ InFlight(t)' = 1
      BY <1>4, <1>5, <1>6, <1>11, <2>3 DEF Due, InFlight, Recording
    <3>2. ~ Due(t)'
      BY <1>4, <1>5, <1>6, <1>11, <2>3 DEF Due, CallsInv
    <3>3. Own(t)' >= Own(t) /\ Own(t) \in Nat /\ Own(t)' \in Nat
      BY <1>9 DEF Own
    <3> QED  BY <1>7, <1>8, <2>1, <3>1, <3>2, <3>3 DEF CallsOK
  <2> QED  BY <2>2, <2>3 DEF Notifying
<1> QED  BY <1>10, <1>11

(* A batch takes orders whose calls so far were counted, or lost.           *)
LEMMA TickKeepsCalls ==
  ASSUME CallsInv, RetryTick, NEW t \in TradeNo, t \notin Touched'
  PROVE  CallsOK(t)'
<1>1. NotifierInv /\ NotifierInv' /\ StoreStep({}, {})
  BY RetryStep DEF CallsInv
<1>2. /\ job[RetryTask].pc = "idle" /\ batch' \subseteq PendingNotifications
      /\ UNCHANGED <<storeVars, job, sends>>
  BY DEF RetryTick
<1>3. CallsOK(t) /\ orders' = orders /\ wasPaid' = wasPaid /\ Lost' = Lost
  BY <1>1, <1>2, UntouchedOK DEF storeVars, tables, history, counters, Lost
<1>4. /\ sends[t] \in Nat /\ orders[t].notify \in Nat /\ Lost \in Nat /\ GiveUp \in Nat
  BY <1>1, StoreAssumption
  DEF NotifierInv, StoreInv, RowsInv, RowsOK, BesideOK, Row, Lost
<1>5. Own(t)' = Own(t) /\ InFlight(t)' = InFlight(t) /\ InFlight(t) = 0 /\ Own(t) \in Nat
  BY <1>2 DEF Own, Calling, InFlight, Recording
<1>6. Due(t)' => orders[t].notify < GiveUp
  BY <1>2 DEF Due, PendingNotifications
<1> QED  BY <1>2, <1>3, <1>4, <1>5, <1>6 DEF CallsOK

(* The task takes one order out of its batch.                              *)
LEMMA NextKeepsCalls ==
  ASSUME CallsInv, RetryNext, NEW t \in TradeNo, t \notin Touched'
  PROVE  CallsOK(t)'
<1>1. NotifierInv /\ NotifierInv' /\ StoreStep({}, {})
  BY RetryStep DEF CallsInv
<1>2. PICK u \in batch : batch' = batch \ {u} /\ job' = [job EXCEPT ![RetryTask] = Calls(u)]
  BY DEF RetryNext
<1>3. job[RetryTask].pc = "idle" /\ UNCHANGED <<storeVars, sends>>
  BY DEF RetryNext
<1>4. /\ job'[RetryTask] = Calls(u) /\ \A w \in Worker : job'[w] = job[w]
  BY <1>1, <1>2, NotifierAssumption DEF NotifierInv, Notifying
<1>5. CallsOK(t) /\ orders' = orders /\ wasPaid' = wasPaid /\ Lost' = Lost
  BY <1>1, <1>3, UntouchedOK DEF storeVars, tables, history, counters, Lost
<1>6. Calling(t)' => Calling(t)
  BY <1>4 DEF Calling
<1>7. (Due(t)' => Due(t)) /\ InFlight(t)' = 0 /\ InFlight(t) = 0
  BY <1>2, <1>3, <1>4 DEF Due, InFlight, Recording, Calls
<1>8. /\ orders[t].notify \in Nat /\ Lost \in Nat
      /\ t \in wasPaid => orders[t].status = Paid
  BY <1>1, <1>5 DEF NotifierInv, StoreInv, RowsInv, RowsOK, BesideOK, Row, Lost, CallsOK
<1> QED  BY <1>1, <1>3, <1>5, <1>6, <1>7, <1>8, CallsKeep

(* Steps that change neither the jobs, nor what the row of t is and counts. *)
LEMMA QuietKeepsCalls ==
  ASSUME CallsInv, NEW T \in SUBSET TradeNo, NEW U \in SUBSET TradeNo,
         StoreStep(T, U), NotifierInv', UNCHANGED <<job, batch, sends, faults, losses>>,
         NEW t \in TradeNo, t \notin Touched',
         orders'[t].status = orders[t].status, orders'[t].notify = orders[t].notify,
         t \in wasPaid' <=> t \in wasPaid
  PROVE  CallsOK(t)'
<1>1. NotifierInv /\ CallsOK(t)
  BY UntouchedOK DEF CallsInv
<1>2. /\ Calling(t)' = Calling(t) /\ Due(t)' = Due(t) /\ InFlight(t)' = InFlight(t)
      /\ Lost' = Lost
  BY DEF Calling, Due, InFlight, Recording, Lost
<1>3. /\ orders[t].notify \in Nat /\ Lost \in Nat /\ InFlight(t) \in Nat
      /\ t \in wasPaid => orders[t].status = Paid
  BY <1>1 DEF NotifierInv, StoreInv, RowsInv, RowsOK, BesideOK, Row, Lost, CallsOK, InFlight
<1> QED  BY <1>1, <1>2, <1>3, CallsKeep

(* An order that becomes paid has no call behind it.                       *)
LEMMA ConfirmKeepsCalls ==
  ASSUME CallsInv, NEW w \in Worker, NEW u \in TradeNo, ConfirmPayment(w, u),
         NEW t \in TradeNo, t \notin Touched'
  PROVE  CallsOK(t)'
<1>1. NotifierInv /\ NotifierInv' /\ StoreStep({}, {})
  BY ConfirmPaymentStep DEF CallsInv
<1>2. /\ job[w].pc = "idle" /\ MarkPaid(u, Nil)
      /\ job' = IF BecomesPaid(u) THEN [job EXCEPT ![w] = Calls(u)] ELSE job
      /\ UNCHANGED <<counters, batch, sends>>
  BY DEF ConfirmPayment
<1>3. CallsOK(t) /\ orders \in [TradeNo -> Row]
  BY <1>1, UntouchedOK DEF NotifierInv, StoreInv, RowsInv, RowsOK
<1>4. CASE ~ BecomesPaid(u)
  BY <1>1, <1>2, <1>4, QuietKeepsCalls DEF MarkPaid, rows, counters
<1>5. CASE BecomesPaid(u)
  <2>1. /\ job'[w] = Calls(u) /\ \A q \in Notifying \ {w} : job'[q] = job[q]
        /\ RetryTask \in Notifying \ {w} /\ Worker \subseteq Notifying
    BY <1>1, <1>2, <1>5, NotifierAssumption DEF NotifierInv, Notifying
  <2>2. /\ orders'[u].status = Paid /\ orders'[u].notify = orders[u].notify
        /\ wasPaid' = wasPaid \cup {u} /\ orders[u].status # Paid
        /\ u # t => orders'[t] = orders[t]
    BY <1>2, <1>3, <1>5 DEF MarkPaid, BecomesPaid, Row
  <2>3. Due(t)' = Due(t) /\ InFlight(t)' = InFlight(t) /\ Lost' = Lost
    BY <1>2, <2>1 DEF Due, InFlight, Recording, Lost, counters
  <2>4. /\ orders[t].notify \in Nat /\ Lost \in Nat /\ InFlight(t) \in Nat
        /\ Own(t)' \in Nat /\ GiveUp \in Nat
    BY <1>1, StoreAssumption
    DEF NotifierInv, StoreInv, RowsInv, RowsOK, BesideOK, Row, Lost, InFlight, Own
  <2>5. CASE u # t
    <3>1. Calling(t)' => Calling(t)
      BY <2>1, <2>5 DEF Calling, Calls
    <3>2. t \in wasPaid => orders[t].status = Paid
      BY <1>3 DEF CallsOK
    <3> QED  BY <1>1, <1>2, <1>3, <2>2, <2>3, <2>4, <2>5, <3>1, <3>2, CallsKeep
  <2>6. CASE u = t
    <3>1. t \notin wasPaid /\ sends[t] = 0
      BY <1>3, <2>2, <2>6 DEF CallsOK
    <3>2. ~ Due(t)'
      BY <1>1, <2>3, <3>1, CallsArePaid
    <3> QED  BY <1>2, <2>2, <2>3, <2>4, <2>6, <3>1, <3>2 DEF CallsOK
  <2> QED  BY <2>5, <2>6
<1> QED  BY <1>4, <1>5

(* A lost task counts as one call that may have been made.                 *)
LEMMA LossKeepsCalls ==
  ASSUME CallsInv, NotifierRestart \/ \E w \in Worker : DropWorker(w),
         NEW t \in TradeNo, t \notin Touched'
  PROVE  CallsOK(t)'
<1>1. NotifierInv /\ NotifierInv' /\ StoreStep({}, {})
  BY LossStep DEF CallsInv
<1>2. UNCHANGED <<tables, history, faults, sends>> /\ losses' = losses + 1
  BY DEF NotifierRestart, DropWorker, Loss
<1>3. CallsOK(t) /\ orders' = orders /\ wasPaid' = wasPaid /\ sends' = sends
  BY <1>1, <1>2, UntouchedOK DEF tables, history
<1>4. /\ orders[t].notify \in Nat /\ faults \in Nat /\ losses \in Nat
      /\ InFlight(t) \in {0, 1} /\ InFlight(t)' \in {0, 1}
  BY <1>1 DEF NotifierInv, StoreInv, RowsInv, RowsOK, BesideOK, Row, InFlight
<1>5. Lost \in Nat /\ Lost' = Lost + 1
  BY <1>2, <1>4 DEF Lost
<1>6. /\ \A q \in Notifying : job'[q].pc # "idle" => job'[q] = job[q]
      /\ batch' \subseteq batch
  BY <1>1, JobRecords DEF NotifierInv, NotifierRestart, DropWorker
<1>7. (Calling(t)' => Calling(t)) /\ (Due(t)' => Due(t))
  BY <1>6 DEF Calling, Due, Notifying
<1>8. t \in wasPaid => orders[t].status = Paid
  BY <1>3 DEF CallsOK
<1> QED  BY <1>1, <1>3, <1>4, <1>5, <1>7, <1>8, CallsKeep

(* The order that the task has in hand is no more in its batch.            *)
LEMMA RetryApart ==
  ASSUME CallsInv, [NotifierNext]_nvars
  PROVE  job'[RetryTask].pc # "idle" => job'[RetryTask].t \notin batch'
<1>1. job \in [Notifying -> Job] /\ RetryTask \in Notifying /\ RetryTask \notin Worker
  BY NotifierAssumption DEF CallsInv, NotifierInv, Notifying
<1>2. job[RetryTask].pc # "idle" => job[RetryTask].t \notin batch
  BY DEF CallsInv
<1>3. CASE /\ batch' = batch
           /\ job'[RetryTask].pc # "idle" =>
                job[RetryTask].pc # "idle" /\ job'[RetryTask].t = job[RetryTask].t
  BY <1>2, <1>3
<1>4. ASSUME NEW p \in Notifying, NotifyStep(p)
      PROVE  /\ batch' = batch
             /\ job'[RetryTask].pc # "idle" =>
                  job[RetryTask].pc # "idle" /\ job'[RetryTask].t = job[RetryTask].t
  <2>1. batch' = batch /\ job[p].pc # "idle"
    BY <1>4 DEF NotifyStep, NotifyRead, NotifyReadFails, NotifySend, NotifyRecord
  <2>2. PICK j \in Job : job' = [job EXCEPT ![p] = j] /\ (j.pc # "idle" => j.t = job[p].t)
    <3>1. CASE NotifyRead(p)
      <4>1. [job[p] EXCEPT !.pc = "send"] \in Job /\ [job[p] EXCEPT !.pc = "send"].t = job[p].t
        BY <1>1, JobRecords
      <4> QED  BY <3>1, <4>1 DEF NotifyRead
    <3>2. CASE NotifyReadFails(p) \/ NotifyRecord(p)
      BY <3>2, JobRecords DEF NotifyReadFails, NotifyRecord
    <3>3. CASE NotifySend(p)
      <4>1. PICK ok \in BOOLEAN :
              job' = [job EXCEPT ![p] = [job[p] EXCEPT !.pc = "record", !.ok = ok]]
        BY <3>3 DEF NotifySend
      <4>2. /\ [job[p] EXCEPT !.pc = "record", !.ok = ok] \in Job
            /\ [job[p] EXCEPT !.pc = "record", !.ok = ok].t = job[p].t
        BY <1>1, JobRecords
      <4> QED  BY <4>1, <4>2
    <3> QED  BY <1>4, <3>1, <3>2, <3>3 DEF NotifyStep
  <2>3. job'[RetryTask] = IF p = RetryTask THEN j ELSE job[RetryTask]
    BY <1>1, <2>2
  <2> QED  BY <2>1, <2>2, <2>3
<1>5. CASE RetryTick
  BY <1>5 DEF RetryTick
<1>6. CASE RetryNext
  <2>1. PICK u \in batch : batch' = batch \ {u} /\ job' = [job EXCEPT ![RetryTask] = Calls(u)]
    BY <1>6 DEF RetryNext
  <2> QED  BY <1>1, <2>1 DEF Calls
<1>7. CASE \E w \in Worker, u \in TradeNo : ConfirmPayment(w, u)
  BY <1>1, <1>2, <1>7 DEF ConfirmPayment
<1>8. CASE NotifierRestart
  BY <1>8 DEF NotifierRestart
<1>10. CASE \E w \in Worker : DropWorker(w)
  BY <1>1, <1>2, <1>10 DEF DropWorker
<1>9. CASE \/ NotifyTimePasses
           \/ \E u \in TradeNo : RefundRecorded(u)
           \/ \E u \in TradeNo : OrderUpdate(u, Paid) /\ UNCHANGED notifierVars
           \/ \E u \in TradeNo : OrdersDelete({u}) /\ UNCHANGED notifierVars
           \/ \E m \in Merchant : MerchantDelete(m) /\ UNCHANGED notifierVars
           \/ UNCHANGED nvars
  BY <1>2, <1>9 DEF NotifyTimePasses, RefundRecorded, notifierVars, nvars
<1> QED  BY <1>3, <1>4, <1>5, <1>6, <1>7, <1>8, <1>9, <1>10 DEF NotifierNext

(* The clock, refunds, edits and deletions leave the row of every other      *)
(* order as it is and counts.                                              *)
LEMMA RowIsLeft ==
  ASSUME StoreInv, NEW t \in TradeNo, t \notin Touched',
         \/ NotifyTimePasses
         \/ \E u \in TradeNo : RefundRecorded(u)
         \/ \E u \in TradeNo : OrderUpdate(u, Paid) /\ UNCHANGED notifierVars
         \/ \E u \in TradeNo : OrdersDelete({u}) /\ UNCHANGED notifierVars
         \/ \E m \in Merchant : MerchantDelete(m) /\ UNCHANGED notifierVars
         \/ UNCHANGED nvars
  PROVE  /\ UNCHANGED <<job, batch, sends, faults, losses>>
         /\ orders'[t].status = orders[t].status
         /\ orders'[t].notify = orders[t].notify
         /\ t \in wasPaid' <=> t \in wasPaid
<1>1. orders \in [TradeNo -> Row]
  BY DEF StoreInv, RowsInv, RowsOK
<1>2. CASE NotifyTimePasses
  <2>1. PICK u \in TradeNo : NotifyWindowPasses(u)
    BY <1>2 DEF NotifyTimePasses
  <2>2. /\ orders'[t].status = orders[t].status
        /\ orders'[t].notify = orders[t].notify
        /\ wasPaid' = wasPaid
    BY <1>1, <2>1 DEF NotifyWindowPasses, Row
  <2> QED  BY <1>2, <2>2 DEF NotifyTimePasses, notifierVars, counters
<1>3. ASSUME NEW u \in TradeNo, RefundRecorded(u)
      PROVE  orders'[t] = orders[t] /\ wasPaid' = wasPaid
  <2>1. orders[u].status = Paid /\ OrderSetRefunded(u)
    BY <1>3 DEF RefundRecorded
  <2>2. u # t
    BY <2>1 DEF OrderSetRefunded, Touched
  <2> QED  BY <1>1, <2>1, <2>2 DEF OrderSetRefunded
<1>4. ASSUME NEW u \in TradeNo, OrderUpdate(u, Paid)
      PROVE  orders'[t] = orders[t] /\ (t \in wasPaid' <=> t \in wasPaid)
  BY <1>1, <1>4 DEF OrderUpdate, Edit, OrderUpdateStatus, Touched
<1>5. ASSUME NEW u \in TradeNo, OrdersDelete({u})
      PROVE  orders'[t] = orders[t] /\ wasPaid' = wasPaid
  BY <1>1, <1>5 DEF OrdersDelete, Edit, OrderDelete, Touched
<1>6. CASE UNCHANGED nvars
  BY <1>6 DEF nvars, storeVars, notifierVars, tables, history, counters
<1>7. CASE \E u \in TradeNo : RefundRecorded(u)
  BY <1>3, <1>7 DEF RefundRecorded, notifierVars
<1>8. CASE \E u \in TradeNo : OrderUpdate(u, Paid) /\ UNCHANGED notifierVars
  BY <1>4, <1>8 DEF OrderUpdate, notifierVars
<1>9. CASE \E u \in TradeNo : OrdersDelete({u}) /\ UNCHANGED notifierVars
  BY <1>5, <1>9 DEF OrdersDelete, notifierVars
<1>10. CASE \E m \in Merchant : MerchantDelete(m) /\ UNCHANGED notifierVars
  BY <1>10 DEF MerchantDelete, rows, notifierVars
<1> QED  BY <1>2, <1>6, <1>7, <1>8, <1>9, <1>10

(* Every step of the specification keeps the invariant.                    *)
LEMMA CallsInvStep == CallsInv /\ [NotifierNext]_nvars => CallsInv'
<1> SUFFICES ASSUME CallsInv, [NotifierNext]_nvars PROVE CallsInv'
  OBVIOUS
<1>1. NotifierInv /\ NotifierInv'
  BY NotifierInvStep DEF CallsInv
<1>2. job'[RetryTask].pc # "idle" => job'[RetryTask].t \notin batch'
  BY <1>1, RetryApart DEF CallsInv
<1>3. ASSUME NEW t \in TradeNo, t \notin Touched' PROVE CallsOK(t)'
  <2>1. CASE \E p \in Notifying : NotifyStep(p)
    BY <1>3, <2>1, ReadKeepsCalls, SendKeepsCalls, RecordKeepsCalls DEF NotifyStep
  <2>2. CASE RetryTick \/ RetryNext
    BY <1>3, <2>2, TickKeepsCalls, NextKeepsCalls
  <2>3. CASE \E w \in Worker, u \in TradeNo : ConfirmPayment(w, u)
    BY <1>3, <2>3, ConfirmKeepsCalls
  <2>4. CASE NotifierRestart \/ \E w \in Worker : DropWorker(w)
    BY <1>3, <2>4, LossKeepsCalls
  <2>5. CASE \/ NotifyTimePasses
             \/ \E u \in TradeNo : RefundRecorded(u)
             \/ \E u \in TradeNo : OrderUpdate(u, Paid) /\ UNCHANGED notifierVars
             \/ \E u \in TradeNo : OrdersDelete({u}) /\ UNCHANGED notifierVars
             \/ \E m \in Merchant : MerchantDelete(m) /\ UNCHANGED notifierVars
             \/ UNCHANGED nvars
    <3>1. /\ UNCHANGED <<job, batch, sends, faults, losses>>
          /\ orders'[t].status = orders[t].status
          /\ orders'[t].notify = orders[t].notify
          /\ t \in wasPaid' <=> t \in wasPaid
      BY <1>1, <1>3, <2>5, RowIsLeft DEF NotifierInv
    <3>2. PICK T \in SUBSET TradeNo, U \in SUBSET TradeNo : StoreStep(T, U)
      BY NotifierInvStep, <1>1
    <3> QED  BY <1>1, <1>3, <3>1, <3>2, QuietKeepsCalls
  <2> QED  BY <2>1, <2>2, <2>3, <2>4, <2>5 DEF NotifierNext
<1> QED  BY <1>1, <1>2, <1>3 DEF CallsInv

(* No call was made before the first payment.                              *)
LEMMA NoCallsYet ==
  ASSUME NotifierInv, NotifierIdle, HistoryEmpty
  PROVE  CallsInv
<1>1. /\ job = [p \in Notifying |-> NoJob] /\ batch = {} /\ RetryTask \in Notifying
      /\ sends = [t \in TradeNo |-> 0] /\ wasPaid = {} /\ faults = 0 /\ losses = 0
  BY DEF NotifierIdle, HistoryEmpty, Notifying
<1>2. ASSUME NEW t \in TradeNo PROVE CallsOK(t)
  <2>1. /\ sends[t] = 0 /\ t \notin wasPaid /\ ~ Due(t) /\ Lost = 0
    BY <1>1 DEF NoJob, Due, Lost
  <2>2. Own(t) \in Nat /\ InFlight(t) \in Nat /\ orders[t].notify \in Nat /\ GiveUp \in Nat
    BY StoreAssumption
    DEF Own, InFlight, NotifierInv, StoreInv, RowsInv, RowsOK, Row
  <2> QED  BY <2>1, <2>2 DEF CallsOK
<1> QED  BY <1>1, <1>2, JobRecords DEF CallsInv

(* The bound that a handler's own call, the count and the losses give.     *)
LEMMA CallsAreBounded ==
  ASSUME CallsInv
  PROVE  AttemptsBounded
<1> SUFFICES ASSUME NEW t \in TradeNo \ (edited \cup wasRefunded)
             PROVE  sends[t] <= GiveUp + 1 + faults + losses
  BY DEF AttemptsBounded
<1>1. sends[t] <= Own(t) + GiveUp + Lost
  BY DEF CallsInv, CallsOK, Touched
<1>2. /\ Own(t) \in {0, 1} /\ GiveUp \in Nat /\ sends[t] \in Nat
      /\ faults \in Nat /\ losses \in Nat
  BY StoreAssumption, LostIsNat DEF Own, CallsInv, NotifierInv
<1> QED  BY <1>1, <1>2 DEF Lost

(* The notifications of an order stay bounded, for any GiveUp and however    *)
(* handlers, batches, losses and faults interleave: the retry task goes by   *)
(* a count that misses calls under way and records that failed               *)
(* (web.rs:667-682, store.rs:236-266).                                     *)
THEOREM CallsStayBounded == NotifierSpec => []AttemptsBounded
<1>1. NotifierInit => CallsInv
  BY NotifierInvInit, NoCallsYet DEF NotifierInit
<1> QED
  BY <1>1, CallsInvStep, CallsAreBounded, PTL DEF NotifierSpec
=============================================================================
