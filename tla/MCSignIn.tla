-------------------------------- MODULE MCSignIn --------------------------------
(* Instances of SignIn: a telnet and a web terminal and a phone of one person. *)
EXTENDS SignIn, TLC

CONSTANTS telnet, web, handheld

MCOrigin == telnet :> "scanner" @@ web :> "unknown"
MCLockTimes == <<1, 2>>
=============================================================================
