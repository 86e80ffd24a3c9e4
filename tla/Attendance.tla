------------------------------ MODULE Attendance ------------------------------
(***************************************************************************)
(* Shifts, breaks, the rota, status cards and the clock-in gate on claiming *)
(* work (internal/lego/attendance.go and status_cards.go, driven by         *)
(* mobileapi/attendance.go, uiapp's tickets, rota and status card screens   *)
(* and cmd/wms/attendance.go), with the gateway's idle-ticket watch.        *)
(*                                                                         *)
(* None of the operations is a transaction: each query and each statement   *)
(* is a step of its own, and what was read may have changed by the next.    *)
(* Nothing keeps one person's requests apart either: a phone, the CLI and a *)
(* TUI screen act for the same person at once, two admins on one person.    *)
(***************************************************************************)
EXTENDS Integers, Sequences

CONSTANTS
  Users,      \* the people who pick and check
  Requests,   \* what clocks in and out and takes breaks: requests of phones, CLI calls
  Screens,    \* TUI sessions, the only place where tickets are claimed
  Admins,     \* whoever puts status cards on people
  GateOn,     \* REQUIRE_CLOCK_IN: the clock-in gate is on
  Idle,       \* the claims that are held for an hour or more
  MaxShifts,  \* bound: rows ever inserted in clock_events
  MaxBreaks,  \* bound: rows ever inserted in clock_breaks
  MaxCards,   \* bound: rows ever inserted in status_cards
  MaxClaims   \* bound: tickets ever claimed

Desks == Requests \cup Screens \cup Admins

ASSUME AttendanceAssumption ==
  /\ Requests \cap Screens = {} /\ Requests \cap Admins = {} /\ Screens \cap Admins = {}
  /\ GateOn \in BOOLEAN
  /\ MaxShifts \in Nat /\ MaxBreaks \in Nat /\ MaxCards \in Nat /\ MaxClaims \in Nat
  /\ Idle \subseteq 1 .. MaxClaims

Shift == [user : Users, by : Requests, open : BOOLEAN]
Break == [shift : 1 .. MaxShifts, open : BOOLEAN]
Card == [user : Users, by : Admins, open : BOOLEAN]
Claim == [user : Users, open : BOOLEAN]
Waiting == [step |-> "waiting"]
Errand == [step : {"rota", "clockIn", "leave", "breakOrNot", "break", "end",
                   "card", "gateRota", "gateBreak", "claim", "working"},
           user : Users, shift : 0 .. MaxShifts]

VARIABLES
  shifts,  \* clock_events, in the order of its ids; open: clock_out_at is ''
           \* (by, history: the request that inserted it)
  breaks,  \* clock_breaks, likewise
  cards,   \* status_cards, likewise (by, history: the admin, one session of his)
  rota,    \* the people with a rota entry for today
  claims,  \* claimed tickets, in the order of the claims; open: not released yet
  desk,    \* what each desk is in the middle of
  barred,  \* history, per screen: what has barred its user from work all the time
           \* since a claim was asked for
  seen,    \* the watch's seenIdleTicket: claims it is done with
  watch,   \* the claim the watch is looking at, and what it reads next
  nudged   \* history: the claims an idle alert was sent for

tables == <<shifts, breaks, cards, rota>>
nudges == <<seen, watch, nudged>>
vars == <<tables, claims, desk, barred, nudges>>

-----------------------------------------------------------------------------
(* Queries *)

OpenShifts(u) == {i \in 1 .. Len(shifts) : shifts[i].user = u /\ shifts[i].open}
IsClockedIn(u) == OpenShifts(u) # {}

\* CurrentShift: the newest open one, 0 if there is none.
CurrentShift(u) ==
  IF OpenShifts(u) = {} THEN 0
  ELSE CHOOSE i \in OpenShifts(u) : \A j \in OpenShifts(u) : j <= i

OpenBreaks(i) == {b \in 1 .. Len(breaks) : breaks[b].shift = i /\ breaks[b].open}

\* Mutant: the breaks of whatever shift count, and not those of the current one.
RestsInAnyShift(u) == \E i \in 1 .. Len(shifts) : shifts[i].user = u /\ OpenBreaks(i) # {}

OnBreak(u) == OpenBreaks(CurrentShift(u)) # {}
ActiveCards(u) == {c \in 1 .. Len(cards) : cards[c].user = u /\ cards[c].open}

IsScheduled(u) == u \in rota

\* What RequireClockedIn refuses people for.
Bars(u) == {r \in {"out", "off", "break"} : \/ r = "out" /\ ~IsClockedIn(u)
                                            \/ r = "off" /\ ~IsScheduled(u)
                                            \/ r = "break" /\ OnBreak(u)}

-----------------------------------------------------------------------------
Init ==
  /\ shifts = << >> /\ breaks = << >> /\ cards = << >> /\ claims = << >>
  /\ rota = {}
  /\ desk = [d \in Desks |-> Waiting]
  /\ barred = [s \in Screens |-> {}]
  /\ seen = {} /\ watch = [claim |-> 0, next |-> "list"] /\ nudged = {}

\* Only what has barred the user since the claim was asked for stays in barred.
Barring(s) == IF desk[s] = Waiting THEN {} ELSE Bars(desk[s].user)
Remember ==
  barred' = [s \in Screens |-> IF desk[s] = Waiting THEN Barring(s)' ELSE barred[s] \cap Barring(s)']

\* Desk d goes on with u's errand, or is done with it.
GoOn(d, step, u, shift) ==
  /\ desk' = [desk EXCEPT ![d] = [step |-> step, user |-> u, shift |-> shift]]
  /\ Remember
Done(d) == desk' = [desk EXCEPT ![d] = Waiting] /\ Remember

-----------------------------------------------------------------------------
(* ClockIn *)

\* Mutant: whether a shift is open is not asked.
BeginClockInAgain(r, u) ==
  /\ desk[r] = Waiting
  /\ UNCHANGED <<tables, claims, nudges>>
  /\ GoOn(r, "rota", u, 0)

\* IsClockedIn answers no (or the attempt is refused) ...
BeginClockIn(r, u) ==
  /\ desk[r] = Waiting
  /\ ~IsClockedIn(u)
  /\ UNCHANGED <<tables, claims, nudges>>
  /\ GoOn(r, "rota", u, 0)

\* ... with the gate on the rota must say yes ...
LookAtRota(r) ==
  LET u == desk[r].user
  IN /\ desk[r].step = "rota"
     /\ UNCHANGED <<tables, claims, nudges>>
     /\ IF GateOn => IsScheduled(u) THEN GoOn(r, "clockIn", u, 0) ELSE Done(r)

\* ... and the shift begins.
InsertShift(r) ==
  /\ desk[r].step = "clockIn"
  /\ Len(shifts) < MaxShifts
  /\ shifts' = Append(shifts, [user |-> desk[r].user, by |-> r, open |-> TRUE])
  /\ UNCHANGED <<breaks, cards, rota, claims, nudges>>
  /\ Done(r)

-----------------------------------------------------------------------------
(* ClockOut *)

\* The newest open shift ends; a break that is open in it stays open ...
ClockOut(r, u) ==
  /\ desk[r] = Waiting
  /\ IsClockedIn(u)
  /\ shifts' = [shifts EXCEPT ![CurrentShift(u)].open = FALSE]
  /\ UNCHANGED <<breaks, cards, rota, claims, nudges>>
  /\ GoOn(r, "leave", u, 0)

\* ClearStatusCard: every active card of the person ends.
Cleared(u) ==
  [c \in DOMAIN cards |-> IF cards[c].user = u THEN [cards[c] EXCEPT !.open = FALSE] ELSE cards[c]]

\* ... and whatever card explained the day goes: ClearStatusCard.
LeaveWithoutCard(r) ==
  /\ desk[r].step = "leave"
  /\ cards' = Cleared(desk[r].user)
  /\ UNCHANGED <<shifts, breaks, rota, claims, nudges>>
  /\ Done(r)

-----------------------------------------------------------------------------
(* Breaks: StartBreak, EndBreak and the break card that toggles *)

\* CurrentShift is read to start a break ...
BeginBreak(r, u) ==
  /\ desk[r] = Waiting
  /\ IsClockedIn(u)
  /\ UNCHANGED <<tables, claims, nudges>>
  /\ GoOn(r, "breakOrNot", u, CurrentShift(u))

\* ... an open break refuses it ...
LookAtBreaks(r) ==
  LET u == desk[r].user
  IN /\ desk[r].step = "breakOrNot"
     /\ UNCHANGED <<tables, claims, nudges>>
     /\ IF OnBreak(u) THEN Done(r) ELSE GoOn(r, "break", u, desk[r].shift)

\* Mutant: the next shift's id is taken.
InsertBreakAhead(r) ==
  /\ desk[r].step = "break"
  /\ Len(breaks) < MaxBreaks
  /\ breaks' = Append(breaks, [shift |-> desk[r].shift + 1, open |-> TRUE])
  /\ UNCHANGED <<shifts, cards, rota, claims, nudges>>
  /\ Done(r)

\* ... and the break begins, in the shift read at first, over by now or not.
InsertBreak(r) ==
  /\ desk[r].step = "break"
  /\ Len(breaks) < MaxBreaks
  /\ breaks' = Append(breaks, [shift |-> desk[r].shift, open |-> TRUE])
  /\ UNCHANGED <<shifts, cards, rota, claims, nudges>>
  /\ Done(r)

\* CurrentShift is read to end a break ...
BeginEndBreak(r, u) ==
  /\ desk[r] = Waiting
  /\ IsClockedIn(u)
  /\ UNCHANGED <<tables, claims, nudges>>
  /\ GoOn(r, "end", u, CurrentShift(u))

\* ... and whatever break is open in it ends.  (ScanStatusCard asks OnBreak and
\* then does the one or the other: what it read is asked again, or not needed.)
EndBreak(r) ==
  LET i == desk[r].shift
  IN /\ desk[r].step = "end"
     /\ breaks' = [b \in DOMAIN breaks |->
                     IF breaks[b].shift = i THEN [breaks[b] EXCEPT !.open = FALSE] ELSE breaks[b]]
     /\ UNCHANGED <<shifts, cards, rota, claims, nudges>>
     /\ Done(r)

-----------------------------------------------------------------------------
(* Status cards and the rota: the admin's side *)

\* SetStatusCard: active cards are cleared ...
BeginCard(a, u) ==
  /\ desk[a] = Waiting
  /\ cards' = Cleared(u)
  /\ UNCHANGED <<shifts, breaks, rota, claims, nudges>>
  /\ GoOn(a, "card", u, 0)

\* ... and the new one inserted.
InsertCard(a) ==
  /\ desk[a].step = "card"
  /\ Len(cards) < MaxCards
  /\ cards' = Append(cards, [user |-> desk[a].user, by |-> a, open |-> TRUE])
  /\ UNCHANGED <<shifts, breaks, rota, claims, nudges>>
  /\ Done(a)

\* ClearStatusCard by an admin.
ClearCard(u) ==
  /\ cards' = Cleared(u)
  /\ UNCHANGED <<shifts, breaks, rota, claims, desk, barred, nudges>>

\* SetRota or QuickNSOverride, and ClearRota, for today.
Schedule(u) ==
  /\ rota' = rota \cup {u}
  /\ UNCHANGED <<shifts, breaks, cards, claims, desk, nudges>>
  /\ Remember
Unschedule(u) ==
  /\ rota' = rota \ {u}
  /\ UNCHANGED <<shifts, breaks, cards, claims, desk, nudges>>
  /\ Remember

-----------------------------------------------------------------------------
(* ClaimTicket behind RequireClockedIn *)

\* With the gate on IsClockedIn must say yes ...
BeginClaim(s, u) ==
  /\ desk[s] = Waiting
  /\ GateOn => IsClockedIn(u)
  /\ UNCHANGED <<tables, claims, nudges>>
  /\ GoOn(s, IF GateOn THEN "gateRota" ELSE "claim", u, 0)

\* ... then the rota ...
GateLooksAtRota(s) ==
  LET u == desk[s].user
  IN /\ desk[s].step = "gateRota"
     /\ UNCHANGED <<tables, claims, nudges>>
     /\ IF IsScheduled(u) THEN GoOn(s, "gateBreak", u, 0) ELSE Done(s)

\* Mutant: a break does not keep anyone from work.
GateIgnoresBreak(s) ==
  /\ desk[s].step = "gateBreak"
  /\ UNCHANGED <<tables, claims, nudges>>
  /\ GoOn(s, "claim", desk[s].user, 0)

\* ... then nobody on a break goes on ...
GateLooksAtBreak(s) ==
  LET u == desk[s].user
  IN /\ desk[s].step = "gateBreak"
     /\ UNCHANGED <<tables, claims, nudges>>
     /\ IF OnBreak(u) THEN Done(s) ELSE GoOn(s, "claim", u, 0)

\* ... the ticket is claimed, unless somebody else has it by now (see Tickets),
\* whatever has become of the answers ...
ClaimTicket(s) ==
  LET u == desk[s].user
  IN /\ desk[s].step = "claim"
     /\ Len(claims) < MaxClaims
     /\ claims' = Append(claims, [user |-> u, open |-> TRUE])
     /\ UNCHANGED <<tables, nudges>>
     /\ GoOn(s, "working", u, 0)

\* ... and the cards that said there is no work are cleared.
WorkClearsCard(s) ==
  /\ desk[s].step = "working"
  /\ cards' = Cleared(desk[s].user)
  /\ UNCHANGED <<shifts, breaks, rota, claims, nudges>>
  /\ Done(s)

\* The ticket is finished, abandoned or forced off.
Release(c) ==
  /\ c <= Len(claims) /\ claims[c].open
  /\ claims' = [claims EXCEPT ![c].open = FALSE]
  /\ UNCHANGED <<tables, desk, barred, nudges>>

\* A statement fails, the ticket is gone, or the process stops: the errand ends
\* where it is.
Stop(d) ==
  /\ desk[d] # Waiting
  /\ UNCHANGED <<tables, claims, nudges>>
  /\ Done(d)

-----------------------------------------------------------------------------
(* ticketWatch: every five minutes, the tickets claimed for an hour or more.  *)
(* (The hour is left out: those claims may be found idle at any time.)        *)

Held(c) == c <= Len(claims) /\ claims[c].open
Unwatched == [claim |-> 0, next |-> "list"]

\* A claim of IdleTicketCandidates that was not alerted for yet.
WatchClaim(c) ==
  /\ watch.next = "list"
  /\ c \notin seen /\ Held(c)
  /\ watch' = [claim |-> c, next |-> "break"]
  /\ UNCHANGED <<tables, claims, desk, barred, seen, nudged>>

\* HasActiveCard: OnBreak explains it for now, ...
WatchLooksAtBreak(c) ==
  /\ watch = [claim |-> c, next |-> "break"] /\ Held(c)
  /\ watch' = IF OnBreak(claims[c].user) THEN Unwatched ELSE [watch EXCEPT !.next = "card"]
  /\ UNCHANGED <<tables, claims, desk, barred, seen, nudged>>

\* Mutant: the claim is ticked off before its card is looked at.
WatchTicksOffFirst(c) ==
  /\ watch = [claim |-> c, next |-> "card"] /\ Held(c)
  /\ watch' = Unwatched
  /\ seen' = seen \cup {c}
  /\ nudged' = IF ActiveCards(claims[c].user) # {} THEN nudged ELSE nudged \cup {c}
  /\ UNCHANGED <<tables, claims, desk, barred>>

\* ... an active card as well; or else the alert is sent, once.
WatchLooksAtCard(c) ==
  /\ watch = [claim |-> c, next |-> "card"] /\ Held(c)
  /\ watch' = Unwatched
  /\ IF ActiveCards(claims[c].user) # {} THEN UNCHANGED <<seen, nudged>>
     ELSE seen' = seen \cup {c} /\ nudged' = nudged \cup {c}
  /\ UNCHANGED <<tables, claims, desk, barred>>

\* The claim was released meanwhile (the alert that may still go out is for
\* nothing by then).
WatchMisses(c) ==
  /\ watch.claim = c /\ ~Held(c)
  /\ watch' = Unwatched
  /\ UNCHANGED <<tables, claims, desk, barred, seen, nudged>>

-----------------------------------------------------------------------------
RequestStep(r) ==
  \/ \E u \in Users : BeginClockIn(r, u)
  \/ LookAtRota(r)
  \/ InsertShift(r)
  \/ \E u \in Users : ClockOut(r, u)
  \/ LeaveWithoutCard(r)
  \/ \E u \in Users : BeginBreak(r, u)
  \/ LookAtBreaks(r)
  \/ InsertBreak(r)
  \/ \E u \in Users : BeginEndBreak(r, u)
  \/ EndBreak(r)

AdminStep(a) ==
  \/ \E u \in Users : BeginCard(a, u)
  \/ InsertCard(a)

ScreenStep(s) ==
  \/ \E u \in Users : BeginClaim(s, u)
  \/ GateLooksAtRota(s)
  \/ GateLooksAtBreak(s)
  \/ ClaimTicket(s)
  \/ WorkClearsCard(s)

WatchStep(c) ==
  \/ WatchClaim(c)
  \/ WatchLooksAtBreak(c)
  \/ WatchLooksAtCard(c)
  \/ WatchMisses(c)

Next ==
  \/ \E r \in Requests : RequestStep(r)
  \/ \E a \in Admins : AdminStep(a)
  \/ \E s \in Screens : ScreenStep(s)
  \/ \E d \in Desks : Stop(d)
  \/ \E u \in Users : ClearCard(u)
  \/ \E u \in Users : Schedule(u)
  \/ \E u \in Users : Unschedule(u)
  \/ \E c \in 1 .. MaxClaims : Release(c)
  \/ \E c \in Idle : WatchStep(c)

Spec == Init /\ [][Next]_vars

\* The watch goes through the whole list again and again.
FairSpec == Spec /\ \A c \in Idle : SF_vars(WatchStep(c))

-----------------------------------------------------------------------------
(* Properties *)

TypeOK ==
  /\ shifts \in Seq(Shift) /\ Len(shifts) <= MaxShifts
  /\ breaks \in Seq(Break) /\ Len(breaks) <= MaxBreaks
  /\ cards \in Seq(Card) /\ Len(cards) <= MaxCards
  /\ claims \in Seq(Claim) /\ Len(claims) <= MaxClaims
  /\ rota \subseteq Users
  /\ desk \in [Desks -> Errand \cup {Waiting}]
  /\ barred \in [Screens -> SUBSET {"out", "off", "break"}]
  /\ seen \subseteq Idle /\ nudged \subseteq Idle
  /\ watch \in [claim : 0 .. MaxClaims, next : {"list", "break", "card"}]
  /\ \A b \in 1 .. Len(breaks) : breaks[b].shift <= Len(shifts)

\* Whoever asks, reads and then inserts doubles nothing alone: two open shifts of
\* one person, or two active cards, were put there by two that did so at once.
DoublesTakeTwo ==
  /\ \A i, j \in 1 .. Len(shifts) :
       shifts[i].open /\ shifts[j].open /\ shifts[i].user = shifts[j].user /\ i # j
         => shifts[i].by # shifts[j].by
  /\ \A i, j \in 1 .. Len(cards) :
       cards[i].open /\ cards[j].open /\ cards[i].user = cards[j].user /\ i # j
         => cards[i].by # cards[j].by

\* Whoever comes in is at work, and not on the break that yesterday's shift was
\* left on, or that a request still under way inserts into it.
ShiftsBeginAtWork ==
  [][\A u \in Users : ~IsClockedIn(u) /\ IsClockedIn(u)' => ~OnBreak(u)']_vars

\* A ticket is not claimed for somebody whom one thing has kept from work ever
\* since the claim was asked for: the gate's three answers, old as they may be by
\* then, are all of this claim.
BarredGetNoWork ==
  [][\A s \in Screens : GateOn /\ Len(claims') > Len(claims) /\ desk'[s] # desk[s]
                          => barred[s] = {}]_vars

\* "A username can have at most one open (clock_out_at = '') row at a time --
\* enforced in Go", by a query before the insert.
OneShift == \A i, j \in 1 .. Len(shifts) :
  shifts[i].open /\ shifts[j].open /\ shifts[i].user = shifts[j].user => i = j

\* A break that "is already running" refuses another: a shift has one open break.
OneBreak == \A i \in 1 .. Len(shifts) : \A b1, b2 \in OpenBreaks(i) : b1 = b2

\* "One current status at a time": at most one active card per person.
OneCard == \A u \in Users : \A c1, c2 \in ActiveCards(u) : c1 = c2

\* "No claimable work happens during a break": with the gate on whoever is given a
\* ticket is clocked in and not on a break.
WorkIsGated ==
  [][Len(claims') > Len(claims) /\ GateOn =>
       LET u == claims'[Len(claims')].user IN IsClockedIn(u) /\ ~OnBreak(u)]_vars

\* An idle ticket that nothing explains is alerted for in the end: an explanation
\* that has passed does not silence the alert for good.
IdleIsNoticed ==
  \A c \in Idle :
    Held(c) ~> (c \in nudged \/ ~Held(c) \/ OnBreak(claims[c].user) \/ ActiveCards(claims[c].user) # {})
=============================================================================
