-------------------------- MODULE MCMessageDelivery --------------------------
(* Values of the constants of MessageDelivery for model checking. *)
EXTENDS MessageDelivery

CONSTANTS a, b

MCMessages == {a, b}
OnlyB == {b}
OneMode == [m \in MCMessages |-> "default"]
TwoModes == [m \in MCMessages |-> IF m = a THEN "default" ELSE "plan"]
=============================================================================
