---------------------------- MODULE MCAlertIngest ----------------------------
(* Instances of AlertIngest for TLC.                                        *)
EXTENDS AlertIngest

\* An alert delivered twice, and another one.
ThreeMessages == {"m1", "m1again", "m2"}
ThreePayloads == [m \in ThreeMessages |-> IF m = "m2" THEN "q" ELSE "p"]

\* An alert delivered twice and nothing else.
TwoDeliveries == {"m1", "m1again"}
OnePayload == [m \in TwoDeliveries |-> "p"]
=============================================================================
