------------------------------- MODULE MCOrders -------------------------------
(* Small instances of Orders: one set that needs one brick or two, one session *)
(* that checks it, and offices that order and receive.                         *)
EXTENDS Orders, TLC

CONSTANTS alice, falcon, brick, desk1, desk2

OneBrickSet == falcon :> (brick :> 1)
TwoBrickSet == falcon :> (brick :> 2)
OneSession == alice :> {falcon}
NoBricks == brick :> 0
OneBrick == brick :> 1
===============================================================================
