------------------------------ MODULE AdminOps ------------------------------
(***************************************************************************)
(* The handlers of src/src/admin.rs whose whole effect on the payment path  *)
(* is one statement.  Each may run at any moment, next to every handler and *)
(* background task.  Refunds take several steps and are in Gateway.         *)
(***************************************************************************)
EXTENDS OrderStore

(* order_update: any status may be set on any row.                         *)
OrderUpdate(t, s) ==
  /\ Edit({t})
  /\ OrderUpdateStatus(t, s)
  /\ UNCHANGED <<users, enabled, faults, losses>>

(* order_delete and the "delete" action of orders_batch_action.            *)
OrdersDelete(T) ==
  /\ Edit(T)
  /\ \E t \in T : Exists(t)
  /\ OrderDelete(T)
  /\ UNCHANGED <<users, enabled, faults, losses>>

MerchantDelete(m) ==
  /\ Edit({})
  /\ users[m] # "deleted"
  /\ users' = [users EXCEPT ![m] = "deleted"]
  /\ UNCHANGED <<rows, enabled, faults, losses>>

(* merchant_update's first statement, update_merchant_status: status and    *)
(* pay are both needed to submit, so together they ban or unban.            *)
MerchantUpdate(m) ==
  /\ Edit({})
  /\ users[m] # "deleted"
  /\ users' = [users EXCEPT ![m] = IF @ = "active" THEN "banned" ELSE "active"]
  /\ UNCHANGED <<rows, enabled, faults, losses>>

(* channel_update, of which the payment path sees the status.              *)
ChannelUpdate(c) ==
  /\ Edit({})
  /\ enabled' = IF c \in enabled THEN enabled \ {c} ELSE enabled \cup {c}
  /\ UNCHANGED <<rows, users, faults, losses>>
=============================================================================
