--------------------------- MODULE Attendance_proofs ---------------------------
(***************************************************************************)
(* Machine-checked proofs about Attendance: any number of requests, screens *)
(* and admins, all at once and about the same people.                       *)
(***************************************************************************)
EXTENDS Attendance, WellFoundedInduction, TLAPS

Reasons == {"out", "off", "break"}

\* The open shifts and the active cards of u that desk d put there.
OwnShifts(d, u) == {i \in OpenShifts(u) : shifts[i].by = d}
OwnCards(d, u) == {c \in ActiveCards(u) : cards[c].by = d}

\* What an errand may rely on: others may have come in between, but none of d's own.
ErrandOK(d, e) ==
  /\ e.step \in {"rota", "clockIn"} => OwnShifts(d, e.user) = {}
  /\ e.step = "card" => OwnCards(d, e.user) = {}
  /\ e.step \in {"breakOrNot", "break", "end"} => e.shift \in 1 .. Len(shifts)

ErrandsOK == \A d \in Desks : desk[d] # Waiting => ErrandOK(d, desk[d])

IInv == TypeOK /\ DoublesTakeTwo /\ ErrandsOK

\* What the gate has asked about does not bar the user from work any more, or has
\* not all the time.
BarredOK ==
  GateOn => \A s \in Screens :
    /\ desk[s] # Waiting /\ desk[s].step \in {"gateRota", "gateBreak", "claim"} => "out" \notin barred[s]
    /\ desk[s] # Waiting /\ desk[s].step \in {"gateBreak", "claim"} => "off" \notin barred[s]
    /\ desk[s] # Waiting /\ desk[s].step = "claim" => "break" \notin barred[s]

-----------------------------------------------------------------------------
(* Lemmas *)

\* What is typed beside the desks.
TablesOK ==
  /\ shifts \in Seq(Shift) /\ Len(shifts) <= MaxShifts
  /\ breaks \in Seq(Break) /\ Len(breaks) <= MaxBreaks
  /\ cards \in Seq(Card) /\ Len(cards) <= MaxCards
  /\ rota \subseteq Users
  /\ \A b \in 1 .. Len(breaks) : breaks[b].shift <= Len(shifts)
QueueOK ==
  /\ claims \in Seq(Claim) /\ Len(claims) <= MaxClaims
  /\ seen \subseteq Idle /\ nudged \subseteq Idle
  /\ watch \in [claim : 0 .. MaxClaims, next : {"list", "break", "card"}]

LEMMA TypeParts ==
  ASSUME IInv
  PROVE  /\ TablesOK /\ QueueOK
         /\ Len(shifts) \in Nat /\ \A i \in 1 .. Len(shifts) : shifts[i] \in Shift
         /\ Len(breaks) \in Nat /\ \A b \in 1 .. Len(breaks) : breaks[b] \in Break
         /\ Len(cards) \in Nat /\ \A c \in 1 .. Len(cards) : cards[c] \in Card
         /\ Len(claims) \in Nat /\ \A c \in 1 .. Len(claims) : claims[c] \in Claim
BY DEF IInv, TypeOK, TablesOK, QueueOK

\* What bars people from work is one of the three reasons.
LEMMA Remembered ==
  ASSUME Remember \/ UNCHANGED barred, TypeOK
  PROVE  barred' \in [Screens -> SUBSET Reasons]
<1>1. \A s \in Screens : Barring(s)' \subseteq Reasons
  BY DEF Barring, Bars, Reasons
<1>2. barred \in [Screens -> SUBSET Reasons]
  BY DEF TypeOK, Reasons
<1>3. QED
  BY <1>1, <1>2 DEF Remember

\* A set of natural numbers with a bound has a greatest element.
LEMMA HasGreatest ==
  ASSUME NEW n \in Nat, NEW S \in SUBSET (1 .. n), S # {}
  PROVE  \E i \in S : \A j \in S : j <= i
<1> DEFINE R == OpToRel(<, Nat)
           T == {n - i : i \in S}
<1> HIDE DEF R
<1>1. T \subseteq Nat /\ T # {}
  <2>1. \A i \in S : n - i \in Nat
    OBVIOUS
  <2>2. QED
    BY <2>1
<1>2. IsWellFoundedOn(R, Nat)
  BY NatLessThanWellFounded DEF R
<1>3. \A x, y \in Nat : <<y, x>> \in R <=> y < x
  BY DEF OpToRel, R
<1>4. \E x \in T : \A y \in T : ~(<<y, x>> \in R)
  <2> HIDE DEF T
  <2>1. QED
    BY <1>1, <1>2, WFMin
<1>5. PICK x \in T : \A y \in T : ~(y < x)
  BY <1>1, <1>3, <1>4
<1>6. PICK i \in S : x = n - i
  BY <1>5
<1>7. \A j \in S : ~(n - j < n - i)
  BY <1>5, <1>6
<1>8. QED
  BY <1>7

\* Somebody who is clocked in has a current shift, one of their open ones.
LEMMA ClockedIn ==
  ASSUME IInv, NEW u \in Users, IsClockedIn(u)
  PROVE  CurrentShift(u) \in OpenShifts(u) /\ CurrentShift(u) \in 1 .. Len(shifts)
<1>0. PICK n \in Nat : n = Len(shifts)
  BY TypeParts
<1>1. PICK S \in SUBSET (1 .. n) : S = OpenShifts(u)
  BY <1>0 DEF OpenShifts
<1>2. \E i \in S : \A j \in S : j <= i
  BY <1>1, HasGreatest DEF IsClockedIn
<1>3. CurrentShift(u) \in S
  BY <1>1, <1>2 DEF CurrentShift, IsClockedIn
<1>4. QED
  BY <1>0, <1>1, <1>3

\* What a desk that is busy holds.
LEMMA ErrandShape ==
  ASSUME IInv, NEW d \in Desks, desk[d] # Waiting
  PROVE  /\ desk[d] \in Errand /\ desk[d].user \in Users /\ desk[d].shift \in 0 .. MaxShifts
         /\ ErrandOK(d, desk[d])
BY DEF IInv, TypeOK, ErrandsOK, Errand

\* Where no desk's own shifts and cards are added to, errands stay good.
Fewer(x) == \A v \in Users : OwnShifts(x, v)' \subseteq OwnShifts(x, v) /\ OwnCards(x, v)' \subseteq OwnCards(x, v)

LEMMA ErrandKept ==
  ASSUME NEW x \in Desks, NEW e \in Errand, ErrandOK(x, e), Fewer(x),
         Len(shifts) \in Nat, Len(shifts') \in Nat, Len(shifts) <= Len(shifts')
  PROVE  ErrandOK(x, e)'
<1>1. e.user \in Users
  BY DEF Errand
<1>2. /\ e.step \in {"rota", "clockIn"} => OwnShifts(x, e.user)' = {}
      /\ e.step = "card" => OwnCards(x, e.user)' = {}
  BY <1>1 DEF ErrandOK, Fewer
<1>3. e.step \in {"breakOrNot", "break", "end"} => e.shift \in 1 .. Len(shifts')
  BY DEF ErrandOK
<1>4. QED
  BY <1>2, <1>3 DEF ErrandOK

\* The desk d turns to something else; the others' errands stay good.
LEMMA DesksAfter ==
  ASSUME IInv, TablesOK', QueueOK', DoublesTakeTwo', Remember \/ UNCHANGED barred,
         NEW d \in Desks, NEW e \in Errand \cup {Waiting}, desk' = [desk EXCEPT ![d] = e],
         e # Waiting => ErrandOK(d, e)',
         Len(shifts) <= Len(shifts'),
         \A x \in Desks : x # d => Fewer(x)
  PROVE  IInv'
<1>1. desk' \in [Desks -> Errand \cup {Waiting}]
  BY DEF IInv, TypeOK
<1>2. desk'[d] = e /\ \A x \in Desks : x # d => desk'[x] = desk[x]
  BY DEF IInv, TypeOK
<1>3. TypeOK'
  BY <1>1, Remembered DEF TypeOK, TablesOK, QueueOK, Reasons, IInv
<1>n. Len(shifts) \in Nat /\ Len(shifts') \in Nat
  BY <1>3, TypeParts DEF TypeOK
<1>4. ErrandsOK'
  <2> SUFFICES ASSUME NEW x \in Desks, desk'[x] # Waiting PROVE ErrandOK(x, desk[x])'
    BY DEF ErrandsOK
  <2>1. CASE x = d
    BY <1>2, <2>1 DEF ErrandOK
  <2>2. CASE x # d
    <3>1. desk[x] \in Errand /\ desk'[x] = desk[x] /\ ErrandOK(x, desk[x])
      BY <1>2, <2>2, ErrandShape
    <3>2. PICK o \in Errand : o = desk[x] /\ ErrandOK(x, o)
      BY <3>1
    <3>3. ErrandOK(x, o)'
      BY <1>n, <2>2, <3>2, ErrandKept
    <3>4. QED
      BY <3>1, <3>2, <3>3 DEF ErrandOK
  <2>3. QED
    BY <2>1, <2>2
<1>5. QED
  BY <1>3, <1>4 DEF IInv

\* A desk looks at something and goes on, or is done.
LEMMA LookStep ==
  ASSUME IInv, UNCHANGED <<tables, claims, nudges>>, Remember,
         NEW d \in Desks, NEW e \in Errand \cup {Waiting},
         desk' = [desk EXCEPT ![d] = e], e # Waiting => ErrandOK(d, e)
  PROVE  IInv'
<1>1. TablesOK' /\ QueueOK'
  BY TypeParts DEF TablesOK, QueueOK, tables, nudges
<1>2. DoublesTakeTwo'
  BY DEF IInv, DoublesTakeTwo, tables
<1>3. ErrandOK(d, e) => ErrandOK(d, e)'
  BY DEF ErrandOK, OwnShifts, OwnCards, OpenShifts, ActiveCards, tables
<1>4. Len(shifts) <= Len(shifts') /\ \A x \in Desks : Fewer(x)
  BY TypeParts DEF Fewer, OwnShifts, OwnCards, OpenShifts, ActiveCards, tables
<1>5. QED
  BY <1>1, <1>2, <1>3, <1>4, DesksAfter

\* A step of the queue, the rota, the watch or an admin that concerns no errand.
LEMMA NoDeskStep ==
  ASSUME IInv, TablesOK', QueueOK', DoublesTakeTwo', Remember \/ UNCHANGED barred,
         UNCHANGED <<shifts, desk>>, \A x \in Desks : Fewer(x)
  PROVE  IInv'
<1>1. TypeOK'
  BY Remembered DEF TypeOK, TablesOK, QueueOK, Reasons, IInv
<1>2. ErrandsOK'
  <2> SUFFICES ASSUME NEW x \in Desks, desk[x] # Waiting PROVE ErrandOK(x, desk[x])'
    BY DEF ErrandsOK
  <2>1. PICK o \in Errand : o = desk[x] /\ ErrandOK(x, o)
    BY ErrandShape
  <2>2. ErrandOK(x, o)'
    BY <2>1, TypeParts, ErrandKept
  <2>3. QED
    BY <2>1, <2>2 DEF ErrandOK
<1>3. QED
  BY <1>1, <1>2 DEF IInv

-----------------------------------------------------------------------------
(* The invariant is inductive *)

\* The steps that only look.
LEMMA LooksKeep ==
  ASSUME IInv, NEW d \in Desks,
         \/ \E u \in Users : BeginClockIn(d, u) \/ BeginBreak(d, u) \/ BeginEndBreak(d, u) \/ BeginClaim(d, u)
         \/ LookAtRota(d) \/ LookAtBreaks(d) \/ GateLooksAtRota(d) \/ GateLooksAtBreak(d) \/ Stop(d)
  PROVE  IInv'
<1>t. UNCHANGED <<tables, claims, nudges>>
  BY DEF BeginClockIn, BeginBreak, BeginEndBreak, BeginClaim, LookAtRota, LookAtBreaks,
         GateLooksAtRota, GateLooksAtBreak, Stop
<1>0. 0 \in 0 .. MaxShifts /\ Len(shifts) \in Nat /\ Len(shifts) <= MaxShifts
  BY AttendanceAssumption, TypeParts DEF TablesOK
<1>w. ASSUME Done(d) PROVE IInv'
  BY <1>t, <1>w, LookStep DEF Done
<1>g. ASSUME NEW e \in Errand, GoOn(d, e.step, e.user, e.shift), ErrandOK(d, e)
      PROVE  IInv'
  <2>1. e = [step |-> e.step, user |-> e.user, shift |-> e.shift]
    BY DEF Errand
  <2>2. desk' = [desk EXCEPT ![d] = e] /\ Remember
    BY <1>g, <2>1 DEF GoOn
  <2>3. QED
    BY <1>t, <1>g, <2>2, LookStep
<1>1. ASSUME NEW u \in Users, BeginClockIn(d, u) PROVE IInv'
  <2>1. PICK e \in Errand : e = [step |-> "rota", user |-> u, shift |-> 0]
    BY <1>0 DEF Errand
  <2>2. ErrandOK(d, e) /\ GoOn(d, e.step, e.user, e.shift)
    BY <1>1, <2>1 DEF BeginClockIn, ErrandOK, OwnShifts, IsClockedIn
  <2>3. QED
    BY <1>g, <2>2
<1>2. ASSUME NEW u \in Users, BeginBreak(d, u) PROVE IInv'
  <2>1. PICK i \in 0 .. MaxShifts : i = CurrentShift(u) /\ i \in 1 .. Len(shifts)
    BY <1>2, <1>0, ClockedIn, AttendanceAssumption DEF BeginBreak
  <2>2. PICK e \in Errand : e = [step |-> "breakOrNot", user |-> u, shift |-> i]
    BY DEF Errand
  <2>3. ErrandOK(d, e) /\ GoOn(d, e.step, e.user, e.shift)
    BY <1>2, <2>1, <2>2 DEF BeginBreak, ErrandOK
  <2>4. QED
    BY <1>g, <2>3
<1>3. ASSUME NEW u \in Users, BeginEndBreak(d, u) PROVE IInv'
  <2>1. PICK i \in 0 .. MaxShifts : i = CurrentShift(u) /\ i \in 1 .. Len(shifts)
    BY <1>3, <1>0, ClockedIn, AttendanceAssumption DEF BeginEndBreak
  <2>2. PICK e \in Errand : e = [step |-> "end", user |-> u, shift |-> i]
    BY DEF Errand
  <2>3. ErrandOK(d, e) /\ GoOn(d, e.step, e.user, e.shift)
    BY <1>3, <2>1, <2>2 DEF BeginEndBreak, ErrandOK
  <2>4. QED
    BY <1>g, <2>3
<1>4. ASSUME NEW u \in Users, BeginClaim(d, u) PROVE IInv'
  <2>0. PICK st \in {"gateRota", "claim"} : st = IF GateOn THEN "gateRota" ELSE "claim"
    BY AttendanceAssumption
  <2>1. PICK e \in Errand : e = [step |-> st, user |-> u, shift |-> 0]
    BY <1>0 DEF Errand
  <2>2. ErrandOK(d, e) /\ GoOn(d, e.step, e.user, e.shift)
    BY <1>4, <2>0, <2>1 DEF BeginClaim, ErrandOK
  <2>3. QED
    BY <1>g, <2>2
<1>5. CASE LookAtRota(d)
  <2>1. desk[d] # Waiting /\ desk[d].step = "rota"
    BY <1>5 DEF LookAtRota, Waiting
  <2>2. PICK e \in Errand : e = [step |-> "clockIn", user |-> desk[d].user, shift |-> 0]
    BY <1>0, <2>1, ErrandShape DEF Errand
  <2>3. ErrandOK(d, e)
    BY <2>1, <2>2, ErrandShape DEF ErrandOK
  <2>4. QED
    BY <1>5, <1>g, <1>w, <2>2, <2>3 DEF LookAtRota
<1>6. CASE LookAtBreaks(d)
  <2>1. desk[d] # Waiting /\ desk[d].step = "breakOrNot"
    BY <1>6 DEF LookAtBreaks, Waiting
  <2>2. PICK e \in Errand : e = [step |-> "break", user |-> desk[d].user, shift |-> desk[d].shift]
    BY <2>1, ErrandShape DEF Errand
  <2>3. ErrandOK(d, e)
    BY <2>1, <2>2, ErrandShape DEF ErrandOK
  <2>4. QED
    BY <1>6, <1>g, <1>w, <2>2, <2>3 DEF LookAtBreaks
<1>7. CASE GateLooksAtRota(d)
  <2>1. desk[d] # Waiting
    BY <1>7 DEF GateLooksAtRota, Waiting
  <2>2. PICK e \in Errand : e = [step |-> "gateBreak", user |-> desk[d].user, shift |-> 0]
    BY <1>0, <2>1, ErrandShape DEF Errand
  <2>3. ErrandOK(d, e)
    BY <2>2 DEF ErrandOK
  <2>4. QED
    BY <1>7, <1>g, <1>w, <2>2, <2>3 DEF GateLooksAtRota
<1>8. CASE GateLooksAtBreak(d)
  <2>1. desk[d] # Waiting
    BY <1>8 DEF GateLooksAtBreak, Waiting
  <2>2. PICK e \in Errand : e = [step |-> "claim", user |-> desk[d].user, shift |-> 0]
    BY <1>0, <2>1, ErrandShape DEF Errand
  <2>3. ErrandOK(d, e)
    BY <2>2 DEF ErrandOK
  <2>4. QED
    BY <1>8, <1>g, <1>w, <2>2, <2>3 DEF GateLooksAtBreak
<1>9. CASE Stop(d)
  BY <1>9, <1>w DEF Stop
<1>10. QED
  BY <1>1, <1>2, <1>3, <1>4, <1>5, <1>6, <1>7, <1>8, <1>9

\* What ends the cards of a person ends nobody else's and adds none.
LEMMA ClearedCards ==
  ASSUME IInv, NEW u \in Users, cards' = Cleared(u), UNCHANGED <<shifts, breaks, rota>>
  PROVE  /\ TablesOK' /\ DoublesTakeTwo'
         /\ ActiveCards(u)' = {}
         /\ \A x \in Desks : Fewer(x)
<1>1. DOMAIN cards = 1 .. Len(cards) /\ cards \in Seq(Card) /\ Len(cards) <= MaxCards
  BY TypeParts DEF TablesOK
<1>2. cards' = [c \in 1 .. Len(cards) |->
                  IF cards[c].user = u THEN [cards[c] EXCEPT !.open = FALSE] ELSE cards[c]]
  BY <1>1 DEF Cleared
<1>3. cards' \in Seq(Card) /\ Len(cards') = Len(cards)
  <2>1. \A c \in 1 .. Len(cards) : cards'[c] \in Card
    BY <1>2, TypeParts DEF Card
  <2>2. cards' \in [1 .. Len(cards) -> Card]
    BY <1>2, <2>1
  <2>3. QED
    BY <1>1, <1>2, <2>2, TypeParts
<1>4. \A c \in 1 .. Len(cards) :
        /\ cards'[c].user = cards[c].user /\ cards'[c].by = cards[c].by
        /\ cards'[c].open => cards[c].open /\ cards[c].user # u
  BY <1>2, TypeParts DEF Card
<1>5. TablesOK'
  BY <1>1, <1>3, TypeParts DEF TablesOK
<1>6. DoublesTakeTwo'
  BY <1>3, <1>4 DEF IInv, DoublesTakeTwo
<1>7. \A x \in Desks : Fewer(x)
  BY <1>3, <1>4 DEF Fewer, OwnShifts, OwnCards, OpenShifts, ActiveCards
<1>8. QED
  BY <1>3, <1>4, <1>5, <1>6, <1>7 DEF ActiveCards

\* The steps that end or put on cards.
LEMMA CardStepsKeep ==
  ASSUME IInv, NEW d \in Desks,
         \/ LeaveWithoutCard(d) \/ WorkClearsCard(d) \/ (\E u \in Users : BeginCard(d, u))
         \/ d \in Admins /\ InsertCard(d)
  PROVE  IInv'
<1>q. QueueOK'
  BY TypeParts DEF QueueOK, nudges, LeaveWithoutCard, WorkClearsCard, BeginCard, InsertCard
<1>c. ASSUME NEW u \in Users, cards' = Cleared(u), UNCHANGED <<shifts, breaks, rota>>, Remember,
             NEW e \in Errand \cup {Waiting}, desk' = [desk EXCEPT ![d] = e], e # Waiting => ErrandOK(d, e)'
      PROVE  IInv'
  <2>1. TablesOK' /\ DoublesTakeTwo' /\ \A x \in Desks : Fewer(x)
    BY <1>c, ClearedCards
  <2>2. Len(shifts) <= Len(shifts')
    BY <1>c, TypeParts
  <2>3. QED
    BY <1>c, <1>q, <2>1, <2>2, DesksAfter
<1>1. CASE LeaveWithoutCard(d)
  <2>1. desk[d] # Waiting
    BY <1>1 DEF LeaveWithoutCard, Waiting
  <2>2. PICK u \in Users : u = desk[d].user
    BY <2>1, ErrandShape
  <2>3. QED
    BY <1>1, <1>c, <2>2 DEF LeaveWithoutCard, Done
<1>2. CASE WorkClearsCard(d)
  <2>1. desk[d] # Waiting
    BY <1>2 DEF WorkClearsCard, Waiting
  <2>2. PICK u \in Users : u = desk[d].user
    BY <2>1, ErrandShape
  <2>3. QED
    BY <1>2, <1>c, <2>2 DEF WorkClearsCard, Done
<1>3. ASSUME NEW u \in Users, BeginCard(d, u) PROVE IInv'
  <2>0. 0 \in 0 .. MaxShifts
    BY AttendanceAssumption
  <2>1. PICK e \in Errand : e = [step |-> "card", user |-> u, shift |-> 0]
    BY <2>0 DEF Errand
  <2>2. ActiveCards(u)' = {}
    BY <1>3, ClearedCards DEF BeginCard
  <2>3. ErrandOK(d, e)'
    BY <2>1, <2>2 DEF ErrandOK, OwnCards
  <2>4. QED
    BY <1>3, <1>c, <2>1, <2>3 DEF BeginCard, GoOn
<1>4. CASE d \in Admins /\ InsertCard(d)
  <2> DEFINE n == Len(cards) + 1
  <2>1. desk[d] # Waiting /\ desk[d].step = "card"
    BY <1>4 DEF InsertCard, Waiting
  <2>2. PICK u \in Users : u = desk[d].user
    BY <2>1, ErrandShape
  <2>3. OwnCards(d, u) = {}
    BY <2>1, <2>2, ErrandShape DEF ErrandOK
  <2>4. /\ n \in Nat /\ n <= MaxCards /\ cards' = Append(cards, [user |-> u, by |-> d, open |-> TRUE])
        /\ UNCHANGED <<shifts, breaks, rota>>
    BY <1>4, <2>2, TypeParts, AttendanceAssumption DEF InsertCard
  <2>5. /\ cards' \in Seq(Card) /\ Len(cards') = n
        /\ cards'[n] = [user |-> u, by |-> d, open |-> TRUE]
        /\ \A c \in 1 .. Len(cards) : cards'[c] = cards[c]
    <3>1. cards \in Seq(Card) /\ [user |-> u, by |-> d, open |-> TRUE] \in Card
      BY <1>4, TypeParts DEF TablesOK, Card
    <3>2. QED
      BY <2>4, <3>1
  <2>6. \A c \in 1 .. n : c = n \/ c \in 1 .. Len(cards)
    BY TypeParts
  <2> HIDE DEF n
  <2>7. DoublesTakeTwo'
    <3>1. \A c \in 1 .. Len(cards) : ~(cards[c].open /\ cards[c].user = u /\ cards[c].by = d)
      BY <2>3 DEF OwnCards, ActiveCards
    <3>2. ASSUME NEW i \in 1 .. n, NEW j \in 1 .. n, cards'[i].open, cards'[j].open,
                 cards'[i].user = cards'[j].user, i # j
          PROVE  cards'[i].by # cards'[j].by
      <4>1. CASE i = n
        BY <2>5, <2>6, <3>1, <3>2, <4>1
      <4>2. CASE j = n
        BY <2>5, <2>6, <3>1, <3>2, <4>2
      <4>3. CASE i \in 1 .. Len(cards) /\ j \in 1 .. Len(cards)
        BY <2>5, <3>2, <4>3 DEF IInv, DoublesTakeTwo
      <4>4. QED
        BY <2>6, <4>1, <4>2, <4>3
    <3>3. QED
      BY <2>4, <2>5, <3>2 DEF IInv, DoublesTakeTwo
  <2>8. \A x \in Desks : x # d => Fewer(x)
    BY <2>4, <2>5, <2>6 DEF Fewer, OwnShifts, OwnCards, OpenShifts, ActiveCards
  <2>9. TablesOK'
    BY <2>4, <2>5, TypeParts DEF TablesOK
  <2>10. Len(shifts) <= Len(shifts') /\ desk' = [desk EXCEPT ![d] = Waiting] /\ Remember
    BY <1>4, <2>4, TypeParts DEF InsertCard, Done
  <2>11. PICK e \in Errand \cup {Waiting} : e = Waiting
    OBVIOUS
  <2>12. QED
    BY <1>q, <2>7, <2>8, <2>9, <2>10, <2>11, DesksAfter
<1>5. QED
  BY <1>1, <1>2, <1>3, <1>4

\* The steps that begin or end a shift.
LEMMA ShiftStepsKeep ==
  ASSUME IInv, NEW r \in Requests, (\E u \in Users : ClockOut(r, u)) \/ InsertShift(r)
  PROVE  IInv'
<1>q. QueueOK' /\ r \in Desks
  BY TypeParts DEF QueueOK, nudges, ClockOut, InsertShift, Desks
<1>1. ASSUME NEW u \in Users, ClockOut(r, u) PROVE IInv'
  <2>1. PICK i \in 1 .. Len(shifts) : i = CurrentShift(u)
    BY <1>1, ClockedIn DEF ClockOut
  <2>2. shifts' = [shifts EXCEPT ![i].open = FALSE] /\ UNCHANGED <<breaks, cards, rota>>
    BY <1>1, <2>1 DEF ClockOut
  <2>3. /\ shifts' \in Seq(Shift) /\ Len(shifts') = Len(shifts)
        /\ \A j \in 1 .. Len(shifts) :
             /\ shifts'[j].user = shifts[j].user /\ shifts'[j].by = shifts[j].by
             /\ shifts'[j].open => shifts[j].open
    <3>1. [shifts[i] EXCEPT !.open = FALSE] \in Shift
      BY TypeParts DEF Shift
    <3>2. \A j \in 1 .. Len(shifts) :
             shifts'[j] = IF j = i THEN [shifts[i] EXCEPT !.open = FALSE] ELSE shifts[j]
      BY <2>2, TypeParts DEF TablesOK
    <3>3. shifts' \in Seq(Shift) /\ Len(shifts') = Len(shifts)
      BY <2>2, <3>1, TypeParts DEF TablesOK
    <3>4. QED
      BY <3>2, <3>3, TypeParts DEF Shift
  <2>4. TablesOK'
    BY <2>2, <2>3, TypeParts DEF TablesOK
  <2>5. DoublesTakeTwo'
    BY <2>2, <2>3 DEF IInv, DoublesTakeTwo
  <2>6. \A x \in Desks : Fewer(x)
    BY <2>2, <2>3 DEF Fewer, OwnShifts, OwnCards, OpenShifts, ActiveCards
  <2>7. 0 \in 0 .. MaxShifts /\ Len(shifts) <= Len(shifts')
    BY <2>3, AttendanceAssumption, TypeParts
  <2>8. PICK e \in Errand : e = [step |-> "leave", user |-> u, shift |-> 0]
    BY <2>7 DEF Errand
  <2>9. ErrandOK(r, e)'
    BY <2>8 DEF ErrandOK
  <2>10. desk' = [desk EXCEPT ![r] = e] /\ Remember
    BY <1>1, <2>8 DEF ClockOut, GoOn
  <2>11. QED
    BY <1>q, <2>4, <2>5, <2>6, <2>7, <2>9, <2>10, DesksAfter
<1>2. CASE InsertShift(r)
  <2> DEFINE n == Len(shifts) + 1
  <2>1. desk[r] # Waiting /\ desk[r].step = "clockIn"
    BY <1>2 DEF InsertShift, Waiting
  <2>2. PICK u \in Users : u = desk[r].user
    BY <1>q, <2>1, ErrandShape
  <2>3. OwnShifts(r, u) = {}
    BY <1>q, <2>1, <2>2, ErrandShape DEF ErrandOK
  <2>4. /\ n \in Nat /\ n <= MaxShifts /\ shifts' = Append(shifts, [user |-> u, by |-> r, open |-> TRUE])
        /\ UNCHANGED <<breaks, cards, rota>> /\ Len(shifts) <= n
    BY <1>2, <2>2, TypeParts, AttendanceAssumption DEF InsertShift
  <2>5. /\ shifts' \in Seq(Shift) /\ Len(shifts') = n
        /\ shifts'[n] = [user |-> u, by |-> r, open |-> TRUE]
        /\ \A j \in 1 .. Len(shifts) : shifts'[j] = shifts[j]
    <3>1. shifts \in Seq(Shift) /\ [user |-> u, by |-> r, open |-> TRUE] \in Shift
      BY TypeParts DEF TablesOK, Shift
    <3>2. QED
      BY <2>4, <3>1
  <2>6. \A j \in 1 .. n : j = n \/ j \in 1 .. Len(shifts)
    BY TypeParts
  <2>7. TablesOK'
    <3>1. \A b \in 1 .. Len(breaks) : breaks[b].shift \in Int /\ breaks[b].shift <= Len(shifts)
      BY TypeParts DEF TablesOK, Break
    <3>2. \A b \in 1 .. Len(breaks) : breaks[b].shift <= n
      BY <3>1, TypeParts
    <3>3. QED
      BY <2>4, <2>5, <3>2, TypeParts DEF TablesOK
  <2> HIDE DEF n
  <2>8. DoublesTakeTwo'
    <3>1. \A j \in 1 .. Len(shifts) : ~(shifts[j].open /\ shifts[j].user = u /\ shifts[j].by = r)
      BY <2>3 DEF OwnShifts, OpenShifts
    <3>2. ASSUME NEW i \in 1 .. n, NEW j \in 1 .. n, shifts'[i].open, shifts'[j].open,
                 shifts'[i].user = shifts'[j].user, i # j
          PROVE  shifts'[i].by # shifts'[j].by
      <4>1. CASE i = n
        BY <2>5, <2>6, <3>1, <3>2, <4>1
      <4>2. CASE j = n
        BY <2>5, <2>6, <3>1, <3>2, <4>2
      <4>3. CASE i \in 1 .. Len(shifts) /\ j \in 1 .. Len(shifts)
        BY <2>5, <3>2, <4>3 DEF IInv, DoublesTakeTwo
      <4>4. QED
        BY <2>6, <4>1, <4>2, <4>3
    <3>3. QED
      BY <2>4, <2>5, <3>2 DEF IInv, DoublesTakeTwo
  <2>9. \A x \in Desks : x # r => Fewer(x)
    BY <2>4, <2>5, <2>6 DEF Fewer, OwnShifts, OwnCards, OpenShifts, ActiveCards
  <2>10. desk' = [desk EXCEPT ![r] = Waiting] /\ Remember
    BY <1>2 DEF InsertShift, Done
  <2>11. PICK e \in Errand \cup {Waiting} : e = Waiting
    OBVIOUS
  <2>12. QED
    BY <1>q, <2>4, <2>5, <2>7, <2>8, <2>9, <2>10, <2>11, DesksAfter
<1>3. QED
  BY <1>1, <1>2

\* The steps that begin or end a break.
LEMMA BreakStepsKeep ==
  ASSUME IInv, NEW d \in Desks, InsertBreak(d) \/ EndBreak(d)
  PROVE  IInv'
<1>1. desk[d] # Waiting /\ desk[d].step \in {"break", "end"}
  BY DEF InsertBreak, EndBreak, Waiting
<1>2. PICK i \in 1 .. MaxShifts : i = desk[d].shift /\ i \in 1 .. Len(shifts)
  <2>1. desk[d].shift \in 1 .. Len(shifts) /\ Len(shifts) \in Nat /\ Len(shifts) <= MaxShifts
    BY <1>1, ErrandShape, TypeParts DEF ErrandOK, TablesOK
  <2>2. QED
    BY <2>1, AttendanceAssumption
<1>3. UNCHANGED <<shifts, cards, rota, claims, nudges>> /\ desk' = [desk EXCEPT ![d] = Waiting] /\ Remember
  BY DEF InsertBreak, EndBreak, Done
<1>4. QueueOK' /\ DoublesTakeTwo' /\ (\A x \in Desks : Fewer(x)) /\ Len(shifts) <= Len(shifts')
  <2>1. QueueOK' /\ Len(shifts) <= Len(shifts')
    BY <1>3, TypeParts DEF QueueOK, nudges
  <2>2. DoublesTakeTwo'
    BY <1>3 DEF IInv, DoublesTakeTwo
  <2>3. \A x \in Desks : Fewer(x)
    BY <1>3 DEF Fewer, OwnShifts, OwnCards, OpenShifts, ActiveCards
  <2>4. QED
    BY <2>1, <2>2, <2>3
<1>5. TablesOK'
  <2>1. CASE InsertBreak(d)
    <3> DEFINE n == Len(breaks) + 1
               b == [shift |-> i, open |-> TRUE]
    <3>1. n \in Nat /\ n <= MaxBreaks /\ breaks' = Append(breaks, b) /\ b \in Break
      BY <1>2, <2>1, TypeParts, AttendanceAssumption DEF InsertBreak, Break
    <3>2. breaks' \in Seq(Break) /\ Len(breaks') = n /\ breaks'[n] = b
          /\ \A k \in 1 .. Len(breaks) : breaks'[k] = breaks[k]
      BY <3>1, TypeParts DEF TablesOK
    <3>3. \A k \in 1 .. n : breaks'[k].shift <= Len(shifts)
      <4>1. \A k \in 1 .. n : k = n \/ k \in 1 .. Len(breaks)
        BY TypeParts
      <4>2. b.shift <= Len(shifts)
        BY <1>2, TypeParts
      <4>3. QED
        BY <3>2, <4>1, <4>2, TypeParts DEF TablesOK
    <3>4. QED
      BY <1>3, <3>1, <3>2, <3>3, TypeParts DEF TablesOK
  <2>2. CASE EndBreak(d)
    <3>1. DOMAIN breaks = 1 .. Len(breaks) /\ breaks \in Seq(Break)
      BY TypeParts DEF TablesOK
    <3>2. breaks' = [b \in 1 .. Len(breaks) |->
                       IF breaks[b].shift = i THEN [breaks[b] EXCEPT !.open = FALSE] ELSE breaks[b]]
      BY <1>2, <2>2, <3>1 DEF EndBreak
    <3>3. \A b \in 1 .. Len(breaks) : breaks'[b] \in Break /\ breaks'[b].shift = breaks[b].shift
      BY <3>2, TypeParts DEF Break
    <3>4. breaks' \in [1 .. Len(breaks) -> Break]
      BY <3>2, <3>3
    <3>5. breaks' \in Seq(Break) /\ Len(breaks') = Len(breaks)
      BY <3>2, <3>4, TypeParts
    <3>6. QED
      BY <1>3, <3>3, <3>5, TypeParts DEF TablesOK
  <2>3. QED
    BY <2>1, <2>2
<1>6. PICK e \in Errand \cup {Waiting} : e = Waiting
  OBVIOUS
<1>7. QED
  BY <1>3, <1>4, <1>5, <1>6, DesksAfter

\* ClaimTicket gives one more claim and a step to go.
LEMMA ClaimKeeps ==
  ASSUME IInv, NEW d \in Desks, ClaimTicket(d)
  PROVE  IInv'
<1>1. desk[d] # Waiting
  BY DEF ClaimTicket, Waiting
<1>2. PICK u \in Users : u = desk[d].user
  BY <1>1, ErrandShape
<1>3. /\ UNCHANGED <<tables, nudges>> /\ Len(claims) < MaxClaims
      /\ claims' = Append(claims, [user |-> u, open |-> TRUE])
  BY <1>2 DEF ClaimTicket
<1>4. QueueOK'
  <2>1. [user |-> u, open |-> TRUE] \in Claim
    BY DEF Claim
  <2>2. claims' \in Seq(Claim) /\ Len(claims') = Len(claims) + 1
    BY <1>3, <2>1, TypeParts DEF QueueOK
  <2>3. QED
    BY <1>3, <2>2, TypeParts, AttendanceAssumption DEF QueueOK, nudges
<1>5. TablesOK' /\ DoublesTakeTwo' /\ (\A x \in Desks : Fewer(x)) /\ Len(shifts) <= Len(shifts')
  <2>1. TablesOK' /\ Len(shifts) <= Len(shifts')
    BY <1>3, TypeParts DEF TablesOK, tables
  <2>2. DoublesTakeTwo'
    BY <1>3 DEF IInv, DoublesTakeTwo, tables
  <2>3. \A x \in Desks : Fewer(x)
    BY <1>3 DEF Fewer, OwnShifts, OwnCards, OpenShifts, ActiveCards, tables
  <2>4. QED
    BY <2>1, <2>2, <2>3
<1>6. 0 \in 0 .. MaxShifts
  BY AttendanceAssumption
<1>7. PICK e \in Errand : e = [step |-> "working", user |-> u, shift |-> 0]
  BY <1>6 DEF Errand
<1>8. ErrandOK(d, e)' /\ desk' = [desk EXCEPT ![d] = e] /\ Remember
  BY <1>2, <1>7 DEF ClaimTicket, GoOn, ErrandOK
<1>9. QED
  BY <1>4, <1>5, <1>8, DesksAfter

\* The steps at no desk: admins' single statements, the end of a claim, the watch.
LEMMA OtherStepsKeep ==
  ASSUME IInv,
         \/ \E u \in Users : ClearCard(u) \/ Schedule(u) \/ Unschedule(u)
         \/ \E c \in 1 .. MaxClaims : Release(c)
         \/ \E c \in Idle : WatchStep(c)
  PROVE  IInv'
<1>1. ASSUME NEW u \in Users, ClearCard(u) PROVE IInv'
  <2>1. TablesOK' /\ DoublesTakeTwo' /\ \A x \in Desks : Fewer(x)
    BY <1>1, ClearedCards DEF ClearCard
  <2>2. QueueOK'
    BY <1>1, TypeParts DEF ClearCard, QueueOK, nudges
  <2>3. QED
    BY <1>1, <2>1, <2>2, NoDeskStep DEF ClearCard
<1>k. ASSUME UNCHANGED <<shifts, breaks, cards, desk>>, rota' \subseteq Users, QueueOK',
             Remember \/ UNCHANGED barred
      PROVE  IInv'
  <2>1. TablesOK'
    BY <1>k, TypeParts DEF TablesOK
  <2>2. DoublesTakeTwo'
    BY <1>k DEF IInv, DoublesTakeTwo
  <2>3. \A x \in Desks : Fewer(x)
    BY <1>k DEF Fewer, OwnShifts, OwnCards, OpenShifts, ActiveCards
  <2>4. QED
    BY <1>k, <2>1, <2>2, <2>3, NoDeskStep
<1>2. ASSUME NEW u \in Users, Schedule(u) \/ Unschedule(u) PROVE IInv'
  <2>1. rota' \subseteq Users /\ UNCHANGED <<shifts, breaks, cards, claims, desk, nudges>> /\ Remember
    BY <1>2, TypeParts DEF Schedule, Unschedule, TablesOK
  <2>2. QueueOK'
    BY <2>1, TypeParts DEF QueueOK, nudges
  <2>3. QED
    BY <1>k, <2>1, <2>2
<1>3. ASSUME NEW c \in 1 .. MaxClaims, Release(c) PROVE IInv'
  <2>1. /\ c \in 1 .. Len(claims) /\ claims' = [claims EXCEPT ![c].open = FALSE]
        /\ UNCHANGED <<tables, desk, barred, nudges>>
    BY <1>3, TypeParts DEF Release
  <2>2. [claims[c] EXCEPT !.open = FALSE] \in Claim
    BY <2>1, TypeParts DEF Claim
  <2>3. claims' \in Seq(Claim) /\ Len(claims') = Len(claims)
    BY <2>1, <2>2, TypeParts DEF QueueOK
  <2>4. QueueOK'
    BY <2>1, <2>3, TypeParts DEF QueueOK, nudges
  <2>5. rota' \subseteq Users
    BY <2>1, TypeParts DEF TablesOK, tables
  <2>6. QED
    BY <1>k, <2>1, <2>4, <2>5 DEF tables
<1>4. ASSUME NEW c \in Idle, WatchStep(c) PROVE IInv'
  <2>1. UNCHANGED <<tables, claims, desk, barred>>
    BY <1>4 DEF WatchStep, WatchClaim, WatchLooksAtBreak, WatchLooksAtCard, WatchMisses
  <2>2. c \in 0 .. MaxClaims /\ 0 \in 0 .. MaxClaims
    BY AttendanceAssumption
  <2>3. watch' \in [claim : 0 .. MaxClaims, next : {"list", "break", "card"}]
    BY <1>4, <2>2, TypeParts DEF WatchStep, WatchClaim, WatchLooksAtBreak, WatchLooksAtCard, WatchMisses,
       Unwatched, QueueOK
  <2>4. seen' \subseteq Idle /\ nudged' \subseteq Idle
    BY <1>4, TypeParts DEF WatchStep, WatchClaim, WatchLooksAtBreak, WatchLooksAtCard, WatchMisses, QueueOK
  <2>5. QueueOK' /\ rota' \subseteq Users
    BY <2>1, <2>3, <2>4, TypeParts DEF QueueOK, TablesOK, tables
  <2>6. QED
    BY <1>k, <2>1, <2>5 DEF tables
<1>5. QED
  BY <1>1, <1>2, <1>3, <1>4

LEMMA Inductive == IInv /\ [Next]_vars => IInv'
<1> SUFFICES ASSUME IInv, [Next]_vars PROVE IInv'
  OBVIOUS
<1>d. Requests \subseteq Desks /\ Screens \subseteq Desks /\ Admins \subseteq Desks
  BY DEF Desks
<1>1. ASSUME NEW r \in Requests, RequestStep(r) PROVE IInv'
  <2>1. CASE \/ \E u \in Users : BeginClockIn(r, u) \/ BeginBreak(r, u) \/ BeginEndBreak(r, u)
             \/ LookAtRota(r) \/ LookAtBreaks(r)
    BY <1>d, <2>1, LooksKeep
  <2>2. CASE LeaveWithoutCard(r)
    BY <1>d, <2>2, CardStepsKeep
  <2>3. CASE (\E u \in Users : ClockOut(r, u)) \/ InsertShift(r)
    BY <2>3, ShiftStepsKeep
  <2>4. CASE InsertBreak(r) \/ EndBreak(r)
    BY <1>d, <2>4, BreakStepsKeep
  <2>5. QED
    BY <1>1, <2>1, <2>2, <2>3, <2>4 DEF RequestStep
<1>2. ASSUME NEW a \in Admins, AdminStep(a) PROVE IInv'
  BY <1>d, <1>2, CardStepsKeep DEF AdminStep
<1>3. ASSUME NEW s \in Screens, ScreenStep(s) PROVE IInv'
  <2>1. CASE (\E u \in Users : BeginClaim(s, u)) \/ GateLooksAtRota(s) \/ GateLooksAtBreak(s)
    BY <1>d, <2>1, LooksKeep
  <2>2. CASE ClaimTicket(s)
    BY <1>d, <2>2, ClaimKeeps
  <2>3. CASE WorkClearsCard(s)
    BY <1>d, <2>3, CardStepsKeep
  <2>4. QED
    BY <1>3, <2>1, <2>2, <2>3 DEF ScreenStep
<1>4. ASSUME NEW d \in Desks, Stop(d) PROVE IInv'
  BY <1>4, LooksKeep
<1>5. CASE UNCHANGED vars
  BY <1>5 DEF IInv, TypeOK, DoublesTakeTwo, ErrandsOK, ErrandOK, OwnShifts, OwnCards, OpenShifts,
     ActiveCards, vars, tables, nudges
<1>6. QED
  BY <1>1, <1>2, <1>3, <1>4, <1>5, OtherStepsKeep DEF Next

LEMMA Initially == Init => IInv
<1> SUFFICES ASSUME Init PROVE IInv
  OBVIOUS
<1>1. TypeOK
  BY AttendanceAssumption DEF Init, TypeOK
<1>2. DoublesTakeTwo
  BY DEF Init, DoublesTakeTwo
<1>3. ErrandsOK
  BY DEF Init, ErrandsOK
<1>4. QED
  BY <1>1, <1>2, <1>3 DEF IInv

-----------------------------------------------------------------------------
(* Shifts that begin *)

\* Nothing but ClockIn and ClockOut touches the shifts.
LEMMA ShiftsMove ==
  ASSUME [Next]_vars
  PROVE  \/ UNCHANGED shifts
         \/ \E r \in Requests, u \in Users : ClockOut(r, u)
         \/ \E r \in Requests : InsertShift(r)
<1>1. ASSUME NEW r \in Requests, RequestStep(r)
      PROVE  \/ UNCHANGED shifts
             \/ \E u \in Users : ClockOut(r, u)
             \/ InsertShift(r)
  BY <1>1 DEF RequestStep, BeginClockIn, LookAtRota, LeaveWithoutCard, BeginBreak, LookAtBreaks,
     InsertBreak, BeginEndBreak, EndBreak, tables
<1>2. ASSUME \/ \E a \in Admins : AdminStep(a)
             \/ \E s \in Screens : ScreenStep(s)
             \/ \E d \in Desks : Stop(d)
             \/ \E u \in Users : ClearCard(u) \/ Schedule(u) \/ Unschedule(u)
             \/ \E c \in 1 .. MaxClaims : Release(c)
             \/ \E c \in Idle : WatchStep(c)
      PROVE  UNCHANGED shifts
  BY <1>2 DEF AdminStep, BeginCard, InsertCard, ScreenStep, BeginClaim, GateLooksAtRota,
     GateLooksAtBreak, ClaimTicket, WorkClearsCard, Stop, ClearCard, Schedule, Unschedule, Release,
     WatchStep, WatchClaim, WatchLooksAtBreak, WatchLooksAtCard, WatchMisses, tables
<1>3. CASE UNCHANGED vars
  BY <1>3 DEF vars, tables
<1>4. QED
  BY <1>1, <1>2, <1>3 DEF Next

LEMMA ShiftBeginsAtWork ==
  ASSUME IInv, [Next]_vars, NEW u \in Users, ~IsClockedIn(u), IsClockedIn(u)'
  PROVE  ~OnBreak(u)'
<1>1. CASE UNCHANGED shifts
  BY <1>1 DEF IsClockedIn, OpenShifts
<1>2. ASSUME NEW r \in Requests, NEW v \in Users, ClockOut(r, v) PROVE FALSE
  <2>1. PICK i \in 1 .. Len(shifts) : i = CurrentShift(v)
    BY <1>2, ClockedIn DEF ClockOut
  <2>2. shifts' = [shifts EXCEPT ![i].open = FALSE]
    BY <1>2, <2>1 DEF ClockOut
  <2>3. Len(shifts') = Len(shifts) /\ \A j \in 1 .. Len(shifts) :
           shifts'[j] = IF j = i THEN [shifts[i] EXCEPT !.open = FALSE] ELSE shifts[j]
    BY <2>2, TypeParts DEF TablesOK
  <2>4. \A j \in 1 .. Len(shifts) : shifts'[j].open => shifts[j].open /\ shifts'[j].user = shifts[j].user
    BY <2>3, TypeParts DEF Shift
  <2>5. QED
    BY <2>3, <2>4 DEF IsClockedIn, OpenShifts
<1>3. ASSUME NEW r \in Requests, InsertShift(r) PROVE ~OnBreak(u)'
  <2>1. PICK n \in Nat : n = Len(shifts) + 1
    BY TypeParts
  <2>2. shifts' = Append(shifts, [user |-> desk[r].user, by |-> r, open |-> TRUE]) /\ breaks' = breaks
    BY <1>3 DEF InsertShift
  <2>3. Len(shifts') = n /\ \A j \in 1 .. Len(shifts) : shifts'[j] = shifts[j]
    BY <2>1, <2>2, TypeParts DEF TablesOK
  <2>4. \A j \in 1 .. Len(shifts) : ~(shifts'[j].user = u /\ shifts'[j].open)
    BY <2>3 DEF IsClockedIn, OpenShifts
  <2>5. OpenShifts(u)' = {n}
    <3>1. \A j \in 1 .. n : j = n \/ j \in 1 .. Len(shifts)
      BY <2>1, TypeParts
    <3>2. OpenShifts(u)' \subseteq {n}
      BY <2>3, <2>4, <3>1 DEF OpenShifts
    <3>3. QED
      BY <3>2 DEF IsClockedIn
  <2>6. CurrentShift(u)' = n
    BY <2>5 DEF CurrentShift
  <2>7. \A b \in 1 .. Len(breaks) : breaks[b].shift # n
    BY <2>1, TypeParts DEF TablesOK, Break
  <2>8. OpenBreaks(n)' = {}
    BY <2>2, <2>7 DEF OpenBreaks
  <2>9. QED
    BY <2>6, <2>8 DEF OnBreak
<1>4. QED
  BY <1>1, <1>2, <1>3, ShiftsMove

-----------------------------------------------------------------------------
(* The gate *)

\* A screen moves by its own steps alone, and what bars its user is kept up to date.
LEMMA ScreensMove ==
  ASSUME IInv, [Next]_vars, NEW s \in Screens
  PROVE  \/ UNCHANGED <<desk, barred>>
         \/ Remember /\ (desk'[s] = desk[s] \/ desk'[s] = Waiting \/ ScreenStep(s))
<1>d. /\ desk \in [Desks -> Errand \cup {Waiting}] /\ s \in Desks
      /\ \A x \in Requests \cup Admins : x # s
  BY AttendanceAssumption DEF IInv, TypeOK, Desks
<1>o. ASSUME NEW x, NEW e, x # s, desk' = [desk EXCEPT ![x] = e] PROVE desk'[s] = desk[s]
  BY <1>d, <1>o
<1>1. ASSUME NEW r \in Requests, RequestStep(r) PROVE Remember /\ desk'[s] = desk[s]
  <2>1. Remember /\ \E e : desk' = [desk EXCEPT ![r] = e]
    BY <1>1 DEF RequestStep, BeginClockIn, LookAtRota, InsertShift, ClockOut, LeaveWithoutCard, BeginBreak,
       LookAtBreaks, InsertBreak, BeginEndBreak, EndBreak, GoOn, Done
  <2>2. QED
    BY <1>d, <1>o, <2>1
<1>2. ASSUME NEW a \in Admins, AdminStep(a) PROVE Remember /\ desk'[s] = desk[s]
  <2>1. Remember /\ \E e : desk' = [desk EXCEPT ![a] = e]
    BY <1>2 DEF AdminStep, BeginCard, InsertCard, GoOn, Done
  <2>2. QED
    BY <1>d, <1>o, <2>1
<1>3. ASSUME NEW x \in Screens, ScreenStep(x) PROVE Remember /\ (desk'[s] = desk[s] \/ ScreenStep(s))
  <2>1. Remember /\ \E e : desk' = [desk EXCEPT ![x] = e]
    BY <1>3 DEF ScreenStep, BeginClaim, GateLooksAtRota, GateLooksAtBreak, ClaimTicket, WorkClearsCard,
       GoOn, Done
  <2>2. QED
    BY <1>3, <1>o, <2>1
<1>4. ASSUME NEW x \in Desks, Stop(x) PROVE Remember /\ (desk'[s] = desk[s] \/ desk'[s] = Waiting)
  <2>1. Remember /\ desk' = [desk EXCEPT ![x] = Waiting]
    BY <1>4 DEF Stop, Done
  <2>2. QED
    BY <1>d, <1>o, <2>1
<1>5. CASE \/ \E u \in Users : ClearCard(u) \/ Schedule(u) \/ Unschedule(u)
           \/ \E c \in 1 .. MaxClaims : Release(c)
           \/ \E c \in Idle : WatchStep(c)
  BY <1>5 DEF ClearCard, Schedule, Unschedule, Release, WatchStep, WatchClaim, WatchLooksAtBreak,
     WatchLooksAtCard, WatchMisses
<1>6. CASE UNCHANGED vars
  BY <1>6 DEF vars
<1>7. QED
  BY <1>1, <1>2, <1>3, <1>4, <1>5, <1>6 DEF Next

\* What barred the user at one moment since the claim was asked for and does not any
\* more is forgotten, and never comes back.
LEMMA Forgotten ==
  ASSUME Remember, NEW s \in Screens
  PROVE  /\ barred'[s] \subseteq Barring(s)'
         /\ desk[s] # Waiting => barred'[s] \subseteq barred[s]
BY DEF Remember

LEMMA BarredInductive == IInv /\ BarredOK /\ [Next]_vars => BarredOK'
<1> SUFFICES ASSUME IInv, BarredOK, [Next]_vars, GateOn, NEW s \in Screens, desk'[s] # Waiting
             PROVE  /\ desk'[s].step \in {"gateRota", "gateBreak", "claim"} => "out" \notin barred'[s]
                    /\ desk'[s].step \in {"gateBreak", "claim"} => "off" \notin barred'[s]
                    /\ desk'[s].step = "claim" => "break" \notin barred'[s]
  BY DEF BarredOK
<1>d. desk \in [Desks -> Errand \cup {Waiting}] /\ s \in Desks
  BY DEF IInv, TypeOK, Desks
<1>1. CASE UNCHANGED <<desk, barred>>
  BY <1>1 DEF BarredOK
<1>2. CASE Remember /\ desk'[s] = desk[s]
  BY <1>2, Forgotten DEF BarredOK
<1>3. CASE Remember /\ ScreenStep(s)
  <2>b. desk[s] # Waiting => barred'[s] \subseteq barred[s]
    BY <1>3, Forgotten
  <2>g. ASSUME NEW st, NEW u, GoOn(s, st, u, 0)
        PROVE  desk'[s].step = st /\ desk'[s].user = u /\ barred'[s] \subseteq Bars(u)'
    <3>1. desk'[s] = [step |-> st, user |-> u, shift |-> 0]
      BY <1>d, <2>g DEF GoOn
    <3>2. Barring(s)' = Bars(u)'
      BY <3>1 DEF Barring, Waiting, Bars, IsClockedIn, IsScheduled, OnBreak, OpenShifts, CurrentShift,
         OpenBreaks
    <3>3. QED
      BY <1>3, <3>1, <3>2, Forgotten
  <2>1. ASSUME NEW u \in Users, BeginClaim(s, u)
        PROVE  desk'[s].step = "gateRota" /\ "out" \notin barred'[s]
    <3>1. GoOn(s, "gateRota", u, 0) /\ IsClockedIn(u) /\ UNCHANGED tables
      BY <2>1 DEF BeginClaim
    <3>2. IsClockedIn(u)'
      BY <3>1 DEF IsClockedIn, OpenShifts, tables
    <3>3. "out" \notin Bars(u)'
      BY <3>2 DEF Bars
    <3>4. QED
      BY <2>g, <3>1, <3>3
  <2>2. CASE GateLooksAtRota(s)
    <3>1. PICK u : u = desk[s].user
      OBVIOUS
    <3>2. /\ desk[s] # Waiting /\ desk[s].step = "gateRota" /\ UNCHANGED tables
          /\ IF IsScheduled(u) THEN GoOn(s, "gateBreak", u, 0) ELSE Done(s)
      BY <2>2, <3>1 DEF GateLooksAtRota, Waiting
    <3>3. IsScheduled(u) /\ GoOn(s, "gateBreak", u, 0)
      BY <1>d, <3>2 DEF Done
    <3>4. "off" \notin Bars(u)'
      BY <3>2, <3>3 DEF Bars, IsScheduled, tables
    <3>5. QED
      BY <2>b, <2>g, <3>2, <3>3, <3>4 DEF BarredOK
  <2>3. CASE GateLooksAtBreak(s)
    <3>1. PICK u : u = desk[s].user
      OBVIOUS
    <3>2. /\ desk[s] # Waiting /\ desk[s].step = "gateBreak" /\ UNCHANGED tables
          /\ IF OnBreak(u) THEN Done(s) ELSE GoOn(s, "claim", u, 0)
      BY <2>3, <3>1 DEF GateLooksAtBreak, Waiting
    <3>3. ~OnBreak(u) /\ GoOn(s, "claim", u, 0)
      BY <1>d, <3>2 DEF Done
    <3>4. ~OnBreak(u)'
      <4>1. shifts' = shifts /\ breaks' = breaks
        BY <3>2 DEF tables
      <4>2. CurrentShift(u)' = CurrentShift(u)
        BY <4>1 DEF CurrentShift, OpenShifts
      <4>3. OpenBreaks(CurrentShift(u))' = OpenBreaks(CurrentShift(u))
        BY <4>1, <4>2 DEF OpenBreaks
      <4>4. QED
        BY <3>3, <4>3 DEF OnBreak
    <3>5. "break" \notin Bars(u)'
      BY <3>4 DEF Bars
    <3>6. QED
      BY <2>b, <2>g, <3>2, <3>3, <3>5 DEF BarredOK
  <2>4. CASE ClaimTicket(s)
    <3>1. PICK u : u = desk[s].user
      OBVIOUS
    <3>2. GoOn(s, "working", u, 0)
      BY <2>4, <3>1 DEF ClaimTicket
    <3>3. QED
      BY <2>g, <3>2
  <2>5. CASE WorkClearsCard(s)
    BY <1>d, <2>5 DEF WorkClearsCard, Done
  <2>6. QED
    BY <1>3, <2>1, <2>2, <2>3, <2>4, <2>5 DEF ScreenStep
<1>4. QED
  BY <1>1, <1>2, <1>3, ScreensMove

LEMMA BarredInitially == Init => BarredOK
BY DEF Init, BarredOK

\* Only the ticket's UPDATE adds a claim, at the screen that turns to something else.
LEMMA ClaimIsOfBarred ==
  ASSUME IInv, BarredOK, [Next]_vars, NEW s \in Screens, GateOn, Len(claims') > Len(claims), desk'[s] # desk[s]
  PROVE  barred[s] = {}
<1>1. PICK x \in Screens : ClaimTicket(x)
  <2>1. claims' # claims
    BY TypeParts
  <2>2. ASSUME NEW c \in 1 .. MaxClaims, Release(c) PROVE FALSE
    BY <2>2, TypeParts DEF Release
  <2>3. QED
    BY <2>1, <2>2 DEF Next, vars, RequestStep, BeginClockIn, LookAtRota, InsertShift, ClockOut, LeaveWithoutCard,
       BeginBreak, LookAtBreaks, InsertBreak, BeginEndBreak, EndBreak, AdminStep, BeginCard, InsertCard,
       ScreenStep, BeginClaim, GateLooksAtRota, GateLooksAtBreak, WorkClearsCard, Stop, ClearCard, Schedule,
       Unschedule, WatchStep, WatchClaim, WatchLooksAtBreak, WatchLooksAtCard, WatchMisses
<1>2. x = s
  BY <1>1 DEF ClaimTicket, GoOn, IInv, TypeOK, Desks
<1>3. desk[s] # Waiting /\ desk[s].step = "claim"
  BY <1>1, <1>2 DEF ClaimTicket, Waiting
<1>4. "out" \notin barred[s] /\ "off" \notin barred[s] /\ "break" \notin barred[s]
  BY <1>3 DEF BarredOK
<1>5. QED
  BY <1>4 DEF IInv, TypeOK

-----------------------------------------------------------------------------
(* Theorems *)

\* The tables and the errands are well formed, however many act at once: a break
\* belongs to a shift there is.
THEOREM AttendanceInvariant == Spec => []TypeOK
<1>1. IInv => TypeOK
  BY DEF IInv
<1>2. QED
  BY <1>1, Initially, Inductive, PTL DEF Spec

\* ClockIn and SetStatusCard look (or clear) and then insert: two open shifts of a
\* person or two active cards come of two requests, or two admins, at once, never of
\* what one of them does by itself.
THEOREM DoublesComeOfTwo == Spec => []DoublesTakeTwo
<1>1. IInv => DoublesTakeTwo
  BY DEF IInv
<1>2. QED
  BY <1>1, Initially, Inductive, PTL DEF Spec

\* Who clocks in comes to work: whatever break an ended shift was left on, or a
\* request that is late puts into it, is not theirs.
THEOREM ShiftsBegin == Spec => ShiftsBeginAtWork
<1>1. IInv /\ [Next]_vars => [\A u \in Users : ~IsClockedIn(u) /\ IsClockedIn(u)' => ~OnBreak(u)']_vars
  BY ShiftBeginsAtWork
<1>2. QED
  BY <1>1, Initially, Inductive, PTL DEF Spec, ShiftsBeginAtWork

\* With the gate on no ticket is claimed for somebody who has been out, off the rota
\* or on a break all the time since the claim was asked for, whatever requests of
\* theirs come between the gate's queries and the claim.
THEOREM GateTurnsAway == Spec => BarredGetNoWork
<1>1. IInv /\ BarredOK /\ [Next]_vars =>
        [\A s \in Screens : GateOn /\ Len(claims') > Len(claims) /\ desk'[s] # desk[s] => barred[s] = {}]_vars
  BY ClaimIsOfBarred
<1>2. QED
  BY <1>1, Initially, Inductive, BarredInitially, BarredInductive, PTL DEF Spec, BarredGetNoWork
=============================================================================
