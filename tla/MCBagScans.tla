-------------------------------- MODULE MCBagScans --------------------------------
(* A screen, a phone and an administrator; one set with ordinary parts, a      *)
(* reusable bag for these, and labels for the bag of extras, or for any bag.   *)
EXTENDS BagScans, TLC

CONSTANTS screen, phone, admin, falcon, tower, bin

MainOnly == [s \in Sets |-> {"main"}]
NoBin == [b \in {} |-> "main"]
BinKind == bin :> "main"

ExtraLabels == Sets \X {"extra"} \X {1, 2}
AllLabels == Sets \X BagKinds \X {1, 2}
=============================================================================
