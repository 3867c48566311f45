--------------------------- MODULE PaymentPromise ---------------------------
(***************************************************************************)
(* What rpay promises a merchant, with no tables, handlers or retries: an   *)
(* order is placed for an amount, money is collected for it, it is          *)
(* confirmed only once its whole amount was collected, and the merchant is  *)
(* told of success only once it is confirmed.  An administrator may take    *)
(* an order out of the promise.                                            *)
(***************************************************************************)
CONSTANTS
  Order,         \* gateway orders
  Amount,        \* amounts an order may be placed for
  None           \* no amount: not placed, or deleted by an administrator

VARIABLES
  due,           \* the amount an order was placed for
  collected,     \* the amounts collected for an order at a provider
  confirmed,     \* orders the gateway has marked paid
  told,          \* orders the merchant was told of
  overridden     \* orders an administrator has edited

promiseVars == <<due, collected, confirmed, told, overridden>>

PromiseInit ==
  /\ due = [t \in Order |-> None]
  /\ collected = [t \in Order |-> {}]
  /\ confirmed = {} /\ told = {} /\ overridden = {}

Place(t, f) ==
  /\ due[t] = None /\ t \notin overridden
  /\ due' = [due EXCEPT ![t] = f]
  /\ UNCHANGED <<collected, confirmed, told, overridden>>

Collect(t, f) ==
  /\ due[t] = f \/ t \in overridden
  /\ collected' = [collected EXCEPT ![t] = @ \cup {f}]
  /\ UNCHANGED <<due, confirmed, told, overridden>>

Confirm(t) ==
  /\ t \in overridden \/ due[t] \in collected[t]
  /\ confirmed' = confirmed \cup {t}
  /\ UNCHANGED <<due, collected, told, overridden>>

Tell(t) ==
  /\ t \in confirmed
  /\ told' = told \cup {t}
  /\ UNCHANGED <<due, collected, confirmed, overridden>>

(* The administrator sets the status of an order or deletes it.            *)
Override(t) ==
  /\ overridden' = overridden \cup {t}
  /\ confirmed' \in {confirmed, confirmed \cup {t}}
  /\ due' \in {due, [due EXCEPT ![t] = None]}
  /\ UNCHANGED <<collected, told>>

PromiseNext ==
  \E t \in Order :
    \/ \E f \in Amount : Place(t, f) \/ Collect(t, f)
    \/ Confirm(t)
    \/ Tell(t)
    \/ Override(t)

PromiseSpec == PromiseInit /\ [][PromiseNext]_promiseVars
=============================================================================
