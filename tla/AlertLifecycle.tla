--------------------------- MODULE AlertLifecycle ---------------------------
(***************************************************************************)
(* What alert delivery promises for one device_alerts row, independently of *)
(* who dispatches it: delivery_status leaves "pending" once, for good, and  *)
(* only a row whose attempt budget is spent is given up.                    *)
(* AlertDelivery is shown to implement this specification.                  *)
(***************************************************************************)
EXTENDS Naturals

CONSTANTS
    Alerts,         \* ids of device_alerts rows
    MaxAttempts     \* THESADA_ALERT_MAX_ATTEMPTS after the floor of 1

VARIABLES
    status,         \* delivery_status of each row
    attempts        \* delivery_attempts of each row

lifecycleVars == <<status, attempts>>

Terminal == {"delivered", "none", "dead"}

LifecycleStatus == {"absent", "pending", "deleted"} \cup Terminal

LifecycleInit ==
    /\ status = [a \in Alerts |-> "absent"]
    /\ attempts = [a \in Alerts |-> 0]

Store(a) ==
    /\ status[a] = "absent"
    /\ status' = [status EXCEPT ![a] = "pending"]
    /\ attempts' = [attempts EXCEPT ![a] = 0]

\* One dispatch run that sent to at least one subscription: it counts.
Attempt(a) ==
    /\ status[a] = "pending"
    /\ attempts[a] < MaxAttempts
    /\ attempts' = [attempts EXCEPT ![a] = @ + 1]
    /\ status' = [status EXCEPT ![a] =
                     IF attempts[a] + 1 = MaxAttempts THEN "dead" ELSE "pending"]

Deliver(a) ==
    /\ status[a] = "pending"
    /\ attempts[a] < MaxAttempts
    /\ attempts' = [attempts EXCEPT ![a] = @ + 1]
    /\ status' = [status EXCEPT ![a] = "delivered"]

\* Nobody subscribes: closed without spending an attempt.
NoRecipients(a) ==
    /\ status[a] = "pending"
    /\ status' = [status EXCEPT ![a] = "none"]
    /\ UNCHANGED attempts

\* The device was deleted and its alerts with it.
Cascade(S) ==
    /\ \A a \in S : status[a] # "absent"
    /\ status' = [a \in Alerts |-> IF a \in S THEN "deleted" ELSE status[a]]
    /\ UNCHANGED attempts

Settle(a) == Attempt(a) \/ Deliver(a) \/ NoRecipients(a)

LifecycleNext ==
    \/ \E a \in Alerts : Store(a) \/ Settle(a)
    \/ \E S \in SUBSET Alerts : Cascade(S)

LifecycleSafety == LifecycleInit /\ [][LifecycleNext]_lifecycleVars
=============================================================================
