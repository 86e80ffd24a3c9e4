--------------------------------- MODULE BagScans ---------------------------------
(***************************************************************************)
(* Bags of a parts check: the instances registered on it, scanning them,   *)
(* the finish gate that wants them scanned, and the pool of reusable bags  *)
(* (internal/lego/bags.go, driven by uiapp/set_check.go, mobileapi and     *)
(* cmd/wms/bagging.go).                                                    *)
(*                                                                         *)
(* A bag's row is looked up in one statement and inserted in another, so   *)
(* whoever is at it holds what it has read in between.  Rows of check_bags *)
(* are never deleted; marking a row found as scanned commutes with every   *)
(* other statement and is one step with finding it.  The checks themselves *)
(* are here what bags need of them: open, finished or abandoned, and       *)
(* whether extras were counted.  What an outdated copy does to its row is  *)
(* module SetChecks; here a session stays away from a check that is closed *)
(* except where it closes under its hands.                                 *)
(***************************************************************************)
EXTENDS Integers, Sequences, FiniteSets

CONSTANTS
  Screens,    \* TUI sessions
  Phones,     \* phones, one request after another
  Admins,     \* administrators at the command line
  Sets,       \* set numbers; the bag-scan gate is on for all of them
  BagKinds,   \* the registered kinds of bag: "small", "main", "extra", ...
  PlacedIn,   \* PlacedIn[s]: the kinds of bag the parts of s belong to
  MaxBags,    \* set_state.max_bags
  Pool,       \* codes of the reusable bags
  PoolKind,   \* PoolKind[b]: the kind reusable bag b was registered for
  Labels,     \* bound: the labels printed, on whatever sheet, that somebody may scan
  MaxChecks,  \* bound: checks ever opened
  MaxRows     \* bound: rows ever inserted in check_bags

Workers == Screens \cup Phones
CheckIds == 1 .. MaxChecks

ASSUME BagsAssumption ==
  /\ Screens \cap Phones = {}
  /\ "extra" \in BagKinds
  /\ PlacedIn \in [Sets -> SUBSET BagKinds]
  /\ MaxBags \in Nat \ {0}
  /\ PoolKind \in [Pool -> BagKinds]
  /\ Pool \cap (Sets \X BagKinds \X Nat) = {}
  /\ Pool \cap Nat = {}      \* "POOL:<code>" is no instance number
  /\ Labels \subseteq Sets \X BagKinds \X Nat
  /\ MaxChecks \in Nat /\ MaxRows \in Nat

\* "<set>-A2" is <<set, "small", 2>>; a reusable bag's code names no set.
BagCode == Sets \X BagKinds \X Nat
LabelOf(code) == IF code \in Pool THEN code ELSE code[3]
NamesSet(code, s) == IF code \in Pool THEN TRUE ELSE code[1] = s

CheckBag == [check : CheckIds \cup {0}, kind : BagKinds, code : BagCode \cup Pool,
             scanned : BOOLEAN]
Check == [status : {"draft", "done", "abandoned"}, set : Sets, extra : BOOLEAN, gated : BOOLEAN]
NoCheck == [status |-> "none"]
Hand == [step : {"idle", "registering", "finishing", "unasked"}, check : CheckIds \cup {0}, set : Sets,
         extra : BOOLEAN, kind : BagKinds, scan : BOOLEAN]
Empty == [step |-> "away"]
Desk == [step : {"adding", "taking", "handing"}, check : CheckIds, kind : BagKinds,
         code : BagCode \cup Pool]
Clear == [step |-> "clear"]

VARIABLES
  checks,  \* set_checks, whether the saved lines have extras, and (history: gated)
           \* whether the check was last finished through a gate that answered
  bags,    \* check_bags, in the order of their ids
  pool,    \* bag_pool: the check that has the bag, 0 when available
  hand,    \* each worker's open check (0: not saved yet) and what it is doing
  desk     \* what each admin has read and is about to write

vars == <<checks, bags, pool, hand, desk>>

-----------------------------------------------------------------------------
(* Queries *)

Rows == 1 .. Len(bags)

\* CheckBags
RowsOf(c) == {i \in Rows : bags[i].check = c}

\* ORDER BY cb.id LIMIT 1 and ORDER BY cb.id DESC LIMIT 1
IsFirst(i, rows) == i \in rows /\ \A j \in rows : i <= j
IsLast(i, rows) == i \in rows /\ \A j \in rows : j <= i

\* ResolveBagCode: any check's newest row with this code.
WithCode(code) == {i \in Rows : bags[i].code = code}

\* EnsureCheckBag's lookup.
OfKind(c, k) == {i \in RowsOf(c) : bags[i].kind = k}

\* RequiredBagKinds
Required(s, extra) == PlacedIn[s] \cup (IF extra THEN {"extra"} ELSE {})

\* UnscannedRequiredBags is empty.
\* Mutant: a registered bag counts as a scanned one.
AllRegistered(c, s, extra) ==
  \A k \in Required(s, extra) : \E i \in RowsOf(c) : bags[i].kind = k
AllScanned(c, s, extra) ==
  \A k \in Required(s, extra) : \E i \in RowsOf(c) : bags[i].kind = k /\ bags[i].scanned

\* Mutant: the schema has no such constraint.
NeverClashes(c, k, code) == FALSE

\* The schema's UNIQUE (check_id, bag_kind_id, instance_label).
Clashes(c, k, code) == \E i \in OfKind(c, k) : LabelOf(bags[i].code) = LabelOf(code)

NewRow(c, k, code, scanned) == [check |-> c, kind |-> k, code |-> code, scanned |-> scanned]

OpenChecks(s) == {c \in CheckIds : checks[c].status = "draft" /\ checks[c].set = s}

\* CurrentOrLastCheck: the newest draft of the set, or else its last finished check.
DoneChecks(s) == {c \in CheckIds : checks[c].status = "done" /\ checks[c].set = s}
IsCurrentOrLast(c, s) ==
  IF OpenChecks(s) # {} THEN IsLast(c, OpenChecks(s)) ELSE IsLast(c, DoneChecks(s))

-----------------------------------------------------------------------------
Init ==
  /\ checks = [c \in CheckIds |-> NoCheck]
  /\ bags = << >>
  /\ pool = [b \in Pool |-> 0]
  /\ hand = [w \in Workers |-> Empty]
  /\ desk = [a \in Admins |-> Clear]

-----------------------------------------------------------------------------
(* A worker's check *)

\* The next set_checks row.
IsFresh(c) ==
  /\ checks[c] = NoCheck
  /\ \A other \in CheckIds : other < c => checks[other] # NoCheck

Draft(s, extra) == [status |-> "draft", set |-> s, extra |-> extra, gated |-> FALSE]

Holding(c, s, extra) ==
  [step |-> "idle", check |-> c, set |-> s, extra |-> extra, kind |-> "extra", scan |-> FALSE]

\* Opening a set resumes its draft.
Resume(w, s) ==
  /\ hand[w] = Empty
  /\ \E c \in OpenChecks(s) :
       /\ IsLast(c, OpenChecks(s))
       /\ hand' = [hand EXCEPT ![w] = Holding(c, s, checks[c].extra)]
  /\ UNCHANGED <<checks, bags, pool, desk>>

\* Mutant: the insert is rolled back, its id stays with the session.
OpenRolledBack(w, s) ==
  /\ w \in Screens /\ hand[w] = Empty
  /\ OpenChecks(s) = {}
  /\ \E c \in CheckIds : IsFresh(c) /\ hand' = [hand EXCEPT ![w] = Holding(c, s, FALSE)]
  /\ UNCHANGED <<checks, bags, pool, desk>>

\* With no draft a screen saves a new one at once (startCheck) ...
OpenOnScreen(w, s) ==
  /\ w \in Screens /\ hand[w] = Empty
  /\ OpenChecks(s) = {}
  /\ \E c \in CheckIds :
       /\ IsFresh(c)
       /\ checks' = [checks EXCEPT ![c] = Draft(s, FALSE)]
       /\ hand' = [hand EXCEPT ![w] = Holding(c, s, FALSE)]
  /\ UNCHANGED <<bags, pool, desk>>

\* ... a phone's request begins with one that has no row.
OpenOnPhone(w, s) ==
  /\ w \in Phones /\ hand[w] = Empty
  /\ OpenChecks(s) = {}
  /\ hand' = [hand EXCEPT ![w] = Holding(0, s, FALSE)]
  /\ UNCHANGED <<checks, bags, pool, desk>>

\* SaveCheck: a phone's request saves before it scans or finishes, and at its
\* end.  (A row inserted by a second phone meanwhile makes a second draft.)
Save(w) ==
  LET h == hand[w]
  IN /\ h.step = "idle"
     /\ IF h.check = 0
        THEN \E c \in CheckIds :
               /\ IsFresh(c)
               /\ checks' = [checks EXCEPT ![c] = Draft(h.set, h.extra)]
               /\ hand' = [hand EXCEPT ![w].check = c]
        ELSE /\ checks[h.check].status = "draft"
             /\ checks' = [checks EXCEPT ![h.check].extra = h.extra]
             /\ UNCHANGED hand
     /\ UNCHANGED <<bags, pool, desk>>

\* The check is left, or the request ends.
Leave(w) ==
  /\ hand[w].step = "idle"
  /\ hand' = [hand EXCEPT ![w] = Empty]
  /\ UNCHANGED <<checks, bags, pool, desk>>

\* Extras are counted: their bag is looked up, to be registered if there is none
\* (EnsureCheckBag).  A phone does this before its request has saved the check.
MarkExtra(w) ==
  LET h == hand[w]
  IN /\ h.step = "idle"
     /\ w \in Screens => h.check # 0
     /\ hand' = [hand EXCEPT ![w].extra = TRUE,
                             ![w].step = IF OfKind(h.check, "extra") = {}
                                         THEN "registering" ELSE "idle"]
     /\ UNCHANGED <<checks, bags, pool, desk>>

\* Every line's extras are set back to none.
UnmarkExtra(w) ==
  /\ hand[w].step = "idle" /\ hand[w].extra
  /\ hand' = [hand EXCEPT ![w].extra = FALSE]
  /\ UNCHANGED <<checks, bags, pool, desk>>

\* EnsureCheckBag's INSERT, always instance 1, and for a scan the mark on it.
Register(w) ==
  LET h == hand[w]
      code == <<h.set, h.kind, 1>>
  IN /\ h.step = "registering"
     /\ IF Clashes(h.check, h.kind, code)
        THEN UNCHANGED bags
        ELSE /\ Len(bags) < MaxRows
             /\ bags' = Append(bags, NewRow(h.check, h.kind, code, h.scan))
     /\ hand' = [hand EXCEPT ![w] = Holding(h.check, h.set, h.extra)]
     /\ UNCHANGED <<checks, pool, desk>>

-----------------------------------------------------------------------------
(* ScanBag *)

\* A phone's confirmation of a line scans the bag it names before its check is saved
\* (confirmCheckLine): the row is then looked for, and registered, under check 0.
CanScan(w) == hand[w].step = "idle" /\ (hand[w].check # 0 \/ w \in Phones)

MarkScanned(i) == bags' = [bags EXCEPT ![i].scanned = TRUE]

\* A label that says another set, a code whose newest row is another check's and
\* one that means nothing are refused: nothing changes.
RefusedForCheck(w, code, c) ==
  /\ CanScan(w) /\ NamesSet(code, hand[w].set)
  /\ c # hand[w].check
  /\ \E i \in Rows : IsLast(i, WithCode(code)) /\ bags[i].check = c

\* Mutant: the row's check is not compared.
ScanAnyRow(w, code) ==
  /\ CanScan(w)
  /\ NamesSet(code, hand[w].set)
  /\ \E i \in Rows : IsLast(i, WithCode(code)) /\ MarkScanned(i)
  /\ UNCHANGED <<checks, pool, hand, desk>>

\* The newest row with this code is on this check: scanned.
ScanRow(w, code) ==
  /\ CanScan(w)
  /\ NamesSet(code, hand[w].set)
  /\ \E i \in Rows :
       /\ IsLast(i, WithCode(code)) /\ bags[i].check = hand[w].check
       /\ MarkScanned(i)
  /\ UNCHANGED <<checks, pool, hand, desk>>

\* No row has this code, but it is a label of this set: the bag of its kind is
\* looked up (EnsureCheckBag), and registered next if the check has none.
ScanLabel(w, code) ==
  LET h == hand[w]
      known == OfKind(h.check, code[2])
  IN /\ CanScan(w)
     /\ code \notin Pool /\ code[1] = h.set
     /\ WithCode(code) = {}
     /\ \/ /\ \E i \in Rows : IsFirst(i, known) /\ MarkScanned(i)
           /\ UNCHANGED hand
        \/ /\ known = {}
           /\ hand' = [hand EXCEPT ![w].step = "registering", ![w].kind = code[2], ![w].scan = TRUE]
           /\ UNCHANGED bags
     /\ UNCHANGED <<checks, pool, desk>>

-----------------------------------------------------------------------------
(* Finishing and abandoning *)

\* A saved check is about to be finished.
CanFinish(w) ==
  hand[w].step = "idle" /\ hand[w].check # 0 /\ checks[hand[w].check].status = "draft"

\* The gate: every kind the check needs has a scanned bag.
Gate(w) ==
  LET h == hand[w]
  IN /\ CanFinish(w)
     /\ AllScanned(h.check, h.set, h.extra)
     /\ hand' = [hand EXCEPT ![w].step = "finishing"]
     /\ UNCHANGED <<checks, bags, pool, desk>>

\* The gate's query fails: the check is finished all the same.
GateFails(w) ==
  /\ CanFinish(w)
  /\ hand' = [hand EXCEPT ![w].step = "unasked"]
  /\ UNCHANGED <<checks, bags, pool, desk>>

\* releasePoolBagsForCheck
Released(c) == [b \in Pool |-> IF pool[b] = c THEN 0 ELSE pool[b]]

\* FinishCheck, as far as bags go, in one transaction.
Finish(w) ==
  LET h == hand[w]
  IN /\ h.step \in {"finishing", "unasked"}
     /\ checks' = [checks EXCEPT ![h.check] =
                     IF @.status = "abandoned" THEN @
                     ELSE [@ EXCEPT !.status = "done", !.extra = h.extra,
                                    !.gated = (h.step = "finishing")]]
     /\ pool' = Released(h.check)
     /\ hand' = [hand EXCEPT ![w] = Empty]
     /\ UNCHANGED <<bags, desk>>

\* "wms lego check": the set's draft, or a check of its own, finished at once.  It
\* asks no gate.
CheckFromCli(s, extra) ==
  /\ \E c \in CheckIds :
       /\ IF OpenChecks(s) = {} THEN IsFresh(c) ELSE IsLast(c, OpenChecks(s))
       /\ checks' = [checks EXCEPT ![c] = [Draft(s, extra) EXCEPT !.status = "done"]]
       /\ pool' = Released(c)
  /\ UNCHANGED <<bags, hand, desk>>

\* DeleteDraftCheck: its bags stay registered, its pool bags stay assigned.
Abandon(w) ==
  LET c == hand[w].check
  IN /\ w \in Screens /\ CanScan(w) /\ c # 0
     /\ checks' = IF checks[c].status = "draft"
                  THEN [checks EXCEPT ![c].status = "abandoned"] ELSE checks
     /\ hand' = [hand EXCEPT ![w] = Empty]
     /\ UNCHANGED <<bags, pool, desk>>

-----------------------------------------------------------------------------
(* The admin's side *)

\* AddBagInstance: the instances are counted against the cap, and the label of
\* the new one from those of its kind; a reusable bag counts as one ...
CountBags(a, s, k) ==
  /\ desk[a] = Clear
  /\ \E c \in CheckIds :
       LET n == Cardinality(OfKind(c, k)) + 1
       IN /\ IsCurrentOrLast(c, s)
          /\ Cardinality(RowsOf(c)) < MaxBags
          /\ desk' = [desk EXCEPT ![a] =
                        [step |-> "adding", check |-> c, kind |-> k, code |-> <<s, k, n>>]]
  /\ UNCHANGED <<checks, bags, pool, hand>>

\* ... and the row is inserted.
AddBag(a) ==
  LET d == desk[a]
  IN /\ d.step = "adding"
     /\ IF Clashes(d.check, d.kind, d.code) THEN UNCHANGED bags
        ELSE /\ Len(bags) < MaxRows
             /\ bags' = Append(bags, NewRow(d.check, d.kind, d.code, FALSE))
     /\ desk' = [desk EXCEPT ![a] = Clear]
     /\ UNCHANGED <<checks, pool, hand>>

\* AssignPoolBag: a bag that another check has is refused, one that is already on
\* this check is left as it is; otherwise it is taken ...
\* Mutant: a bag that is already on this check is taken all the same.
AskForPoolBagAgain(a, s, b) ==
  /\ desk[a] = Clear
  /\ \E c \in CheckIds :
       /\ IsCurrentOrLast(c, s)
       /\ pool[b] \in {0, c}
       /\ desk' = [desk EXCEPT ![a] =
                     [step |-> "taking", check |-> c, kind |-> PoolKind[b], code |-> b]]
  /\ UNCHANGED <<checks, bags, pool, hand>>
AskForPoolBag(a, s, b) ==
  /\ desk[a] = Clear
  /\ \E c \in CheckIds :
       /\ IsCurrentOrLast(c, s)
       /\ pool[b] \in {0, c}
       /\ RowsOf(c) \cap WithCode(b) = {}
       /\ desk' = [desk EXCEPT ![a] =
                     [step |-> "taking", check |-> c, kind |-> PoolKind[b], code |-> b]]
  /\ UNCHANGED <<checks, bags, pool, hand>>

\* ... its pool row is updated, whatever it holds by then ...
TakePoolBag(a) ==
  /\ desk[a].step = "taking"
  /\ pool' = [pool EXCEPT ![desk[a].code] = desk[a].check]
  /\ desk' = [desk EXCEPT ![a].step = "handing"]
  /\ UNCHANGED <<checks, bags, hand>>

\* ... and its row on the check inserted.
HandPoolBag(a) ==
  LET d == desk[a]
  IN /\ d.step = "handing"
     /\ IF Clashes(d.check, d.kind, d.code) THEN UNCHANGED bags
        ELSE /\ Len(bags) < MaxRows
             /\ bags' = Append(bags, NewRow(d.check, d.kind, d.code, FALSE))
     /\ desk' = [desk EXCEPT ![a] = Clear]
     /\ UNCHANGED <<checks, pool, hand>>

\* ReleasePoolBag, by hand.
ReleasePoolBag(b) ==
  /\ pool[b] # 0
  /\ pool' = [pool EXCEPT ![b] = 0]
  /\ UNCHANGED <<checks, bags, hand, desk>>

-----------------------------------------------------------------------------
WorkerStep(w) ==
  \/ \E s \in Sets : Resume(w, s)
  \/ \E s \in Sets : OpenOnScreen(w, s)
  \/ \E s \in Sets : OpenOnPhone(w, s)
  \/ Save(w)
  \/ Leave(w)
  \/ MarkExtra(w)
  \/ UnmarkExtra(w)
  \/ Register(w)
  \/ \E code \in Labels \cup Pool : ScanRow(w, code)
  \/ \E code \in Labels : ScanLabel(w, code)
  \/ Gate(w)
  \/ GateFails(w)
  \/ Finish(w)
  \/ Abandon(w)

AdminStep(a) ==
  \/ \E s \in Sets, k \in BagKinds : CountBags(a, s, k)
  \/ AddBag(a)
  \/ \E s \in Sets, b \in Pool : AskForPoolBag(a, s, b)
  \/ TakePoolBag(a)
  \/ HandPoolBag(a)

Next ==
  \/ \E w \in Workers : WorkerStep(w)
  \/ \E a \in Admins : AdminStep(a)
  \/ \E b \in Pool : ReleasePoolBag(b)
  \/ \E s \in Sets, extra \in BOOLEAN : CheckFromCli(s, extra)

Spec == Init /\ [][Next]_vars

-----------------------------------------------------------------------------
(* Properties *)

\* Tables, hands and desks are well formed: bags, the pool, workers and admins
\* refer to checks that were saved, and only a saved check is about to finish.
Saved(c) == c \in CheckIds /\ checks[c] # NoCheck

ChecksOK == checks \in [CheckIds -> Check \cup {NoCheck}]

RowsOK ==
  /\ bags \in Seq(CheckBag)
  /\ \A i \in Rows : bags[i].check # 0 => Saved(bags[i].check)

PoolOK ==
  /\ pool \in [Pool -> CheckIds \cup {0}]
  /\ \A b \in Pool : pool[b] # 0 => Saved(pool[b])

HandOK ==
  /\ hand \in [Workers -> Hand \cup {Empty}]
  /\ \A w \in Workers : hand[w] # Empty =>
       /\ hand[w].check # 0 => (Saved(hand[w].check) /\ checks[hand[w].check].set = hand[w].set)
       /\ hand[w].step \in {"finishing", "unasked"} => hand[w].check # 0

DeskOK ==
  /\ desk \in [Admins -> Desk \cup {Clear}]
  /\ \A a \in Admins : desk[a] # Clear =>
       /\ Saved(desk[a].check) /\ NamesSet(desk[a].code, checks[desk[a].check].set)
       /\ desk[a].code \in Pool <=> desk[a].step # "adding"

TypeOK == ChecksOK /\ RowsOK /\ PoolOK /\ HandOK /\ DeskOK

\* Every kind of bag that check c needs has a bag that was scanned there.
HadItsBags(c) ==
  \A k \in Required(checks[c].set, checks[c].extra) :
    \E i \in RowsOf(c) : bags[i].kind = k /\ bags[i].scanned

\* A gate that answered is worth something at the finish: a check finished through it
\* has a scanned bag of each kind its lines need, whoever counted extras, registered
\* bags or took them back between the gate and the finish.
GatedChecksHadTheirBags ==
  \A c \in CheckIds : checks[c].status = "done" /\ checks[c].gated => HadItsBags(c)

\* Each check has its own bags: no two bags of a kind on one check carry the same
\* label, however many screens, phones and admins register them at once, and a
\* generated label names the set of the check it is on.
BagsAreDistinct ==
  /\ \A i, j \in Rows :
       /\ bags[i].check = bags[j].check /\ bags[i].kind = bags[j].kind
       /\ LabelOf(bags[i].code) = LabelOf(bags[j].code)
       => i = j
  /\ \A i \in Rows :
       bags[i].check # 0 => NamesSet(bags[i].code, checks[bags[i].check].set)

\* A saved check's bag is marked as scanned, or registered as one that is, only by
\* somebody who has that check open: a scan never confirms a bag of another check.
ScansConfirmOwnBags ==
  [][\A i \in 1 .. Len(bags') :
       (bags'[i].check # 0 /\ bags'[i].scanned /\ ~(i \in Rows /\ bags[i].scanned))
         => \E w \in Workers : hand[w] # Empty /\ hand[w].check = bags'[i].check]_vars

\* A reusable bag that the pool says a check has is scannable there: the newest
\* row with its code is that check's, once the admin's command is through.
PoolBagsScanWhereTheyAre ==
  \A b \in Pool :
    (pool[b] # 0 /\ \A a \in Admins : desk[a] # Clear => desk[a].code # b)
      => \E i \in Rows : IsLast(i, WithCode(b)) /\ bags[i].check = pool[b]

-----------------------------------------------------------------------------
(* Statements of docs and comments that the code does not keep *)

\* "Finishing a check holds until every bag kind that check actually needs has been
\* scanned": of every check, also one finished from the command line or past a gate
\* whose query failed.
FinishedChecksHadTheirBags == \A c \in CheckIds : checks[c].status = "done" => HadItsBags(c)

\* "A recount gets its own new set_checks row, so its own bag instances too": a
\* set's own label is not refused as another check's once that check is closed.
OwnLabelsAreAccepted ==
  \A w \in Workers, code \in Labels, c \in CheckIds :
    RefusedForCheck(w, code, c) => checks[c].status = "draft"
=============================================================================
