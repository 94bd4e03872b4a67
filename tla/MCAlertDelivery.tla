--------------------------- MODULE MCAlertDelivery ---------------------------
(* Instances of AlertDelivery for TLC.                                      *)
EXTENDS AlertDelivery

\* One alert, an email subscription and two webhooks, one of them not created
\* yet: the inline dispatch races the sweeper.
OneAlert == {1}
RaceSubs == {"mail", "hook", "late"}
RaceChannelOf == [s \in RaceSubs |-> IF s = "mail" THEN "email" ELSE "webhook"]
RaceMatchOf == [a \in OneAlert |-> RaceSubs]
RaceDeviceOf == [a \in OneAlert |-> "d"]
RaceScopedTo == [d \in {"d"} |-> {"late"}]
RaceLive == {"mail", "hook"}

\* Two alerts of one device and one telegram subscription: a sweep pass holds
\* a single row, so one row can keep the other from being swept.
TwoAlerts == {1, 2}
SweepSubs == {"chat"}
SweepChannelOf == [s \in SweepSubs |-> "telegram"]
SweepMatchOf == [a \in TwoAlerts |-> SweepSubs]
Unscoped == [d \in {"d"} |-> {}]
SweepDeviceOf == [a \in TwoAlerts |-> "d"]
=============================================================================
