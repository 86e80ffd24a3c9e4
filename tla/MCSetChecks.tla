----------------------------- MODULE MCSetChecks -----------------------------
(* Small instances of SetChecks: at most two sessions, two sets, a brick that *)
(* counts and a sticker that is optional.                                     *)
EXTENDS SetChecks, TLC

CONSTANTS alice, bob, falcon, tower, brick, sticker

\* What the catalogue says a set needs.
TwoSets == (falcon :> (brick :> 2)) @@ (tower :> (brick :> 1))
OneSmallSet == falcon :> (brick :> 1)
OneSet == falcon :> (brick :> 2)
StickerSet == falcon :> (brick :> 1 @@ sticker :> 1)

\* One check job each: what a claimed ticket per set gives.
OwnSets == (alice :> {falcon}) @@ (bob :> {tower})
ASSUME Sessions = {alice, bob} /\ Assigned = OwnSets => OneOwner

\* Two people, or one person's TUI and phone, on the same set.
SharedSet == (alice :> {falcon}) @@ (bob :> {falcon})

OneSession == alice :> {falcon}

OneBrick == brick :> 1
OneSticker == brick :> 0 @@ sticker :> 1
=============================================================================
