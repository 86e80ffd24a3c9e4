------------------------------ MODULE MCTickets ------------------------------
(* Alice works at a screen and on her phone, Bob at a screen.                 *)
EXTENDS Tickets, TLC

CONSTANTS alice, bob, aliceScreen, alicePhone, bobScreen, falcon, tower

SignedIn == (aliceScreen :> alice) @@ (alicePhone :> alice) @@ (bobScreen :> bob)

\* Two targets are alike in every action and in the properties of the run queue.
AlikeTargets == Permutations({falcon, tower})
=============================================================================
