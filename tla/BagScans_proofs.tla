------------------------------ MODULE BagScans_proofs ------------------------------
(***************************************************************************)
(* Machine-checked proofs about BagScans, for any number of workers,       *)
(* admins, sets, kinds and reusable bags.                                  *)
(***************************************************************************)
EXTENDS BagScans, FiniteSetTheorems, TLAPS

-----------------------------------------------------------------------------
(* What a step may do to the two tables *)

\* A row that may be inserted: well formed, of a saved check (or of none), with
\* that check's set on its label.
Insertable(r) ==
  /\ r \in CheckBag
  /\ r.check # 0 => (Saved(r.check) /\ NamesSet(r.code, checks[r.check].set))

\* check_bags stays, or a row is marked as scanned, or one is inserted that the
\* schema's constraint lets in.
BagsStep ==
  \/ bags' = bags
  \/ \E i \in Rows : bags' = [bags EXCEPT ![i].scanned = TRUE]
  \/ \E r \in CheckBag :
       /\ bags' = Append(bags, r) /\ Insertable(r)
       /\ ~Clashes(r.check, r.kind, r.code)

\* A check that was saved keeps its set.
ChecksStep ==
  /\ checks' \in [CheckIds -> Check \cup {NoCheck}]
  /\ \A c \in CheckIds : checks[c] # NoCheck =>
       /\ checks'[c] # NoCheck
       /\ checks'[c].set = checks[c].set

\* A slot of set_checks is free or holds a check; the status tells.
LEMMA CheckShape ==
  ASSUME TypeOK, NEW c \in CheckIds
  PROVE  /\ checks[c] = NoCheck \/ checks[c] \in Check
         /\ checks[c] # NoCheck <=> checks[c] \in Check
         /\ checks[c].status # "none" <=> checks[c] # NoCheck
BY DEF TypeOK, ChecksOK, Check, NoCheck

LEMMA HandShape ==
  ASSUME TypeOK, NEW w \in Workers, hand[w].step # "away"
  PROVE  /\ hand[w] # Empty /\ hand[w] \in Hand
         /\ hand[w].check # 0 =>
              /\ Saved(hand[w].check) /\ hand[w].check \in CheckIds
              /\ checks[hand[w].check] \in Check
              /\ checks[hand[w].check].set = hand[w].set
<1>1. hand[w] # Empty /\ hand[w] \in Hand
  BY DEF TypeOK, HandOK, Empty
<1>2. QED
  BY <1>1, CheckShape DEF TypeOK, HandOK, Saved

LEMMA DeskShape ==
  ASSUME TypeOK, NEW a \in Admins, desk[a].step # "clear"
  PROVE  /\ desk[a] # Clear /\ desk[a] \in Desk
         /\ Saved(desk[a].check) /\ NamesSet(desk[a].code, checks[desk[a].check].set)
         /\ desk[a].code \in Pool <=> desk[a].step # "adding"
<1>1. desk[a] # Clear
  BY DEF Clear
<1>2. QED
  BY <1>1 DEF TypeOK, DeskOK

\* A new copy of a check is well formed.
LEMMA HoldingType ==
  ASSUME NEW c \in CheckIds \cup {0}, NEW s \in Sets, NEW x \in BOOLEAN
  PROVE  /\ Holding(c, s, x) \in Hand
         /\ Holding(c, s, x).check = c /\ Holding(c, s, x).set = s
         /\ Holding(c, s, x).step = "idle" /\ Holding(c, s, x).extra = x
BY BagsAssumption DEF Holding, Hand

\* The number of rows of a kind is a natural number.
LEMMA CountType ==
  ASSUME TypeOK, NEW c, NEW k
  PROVE  Cardinality(OfKind(c, k)) \in Nat
<1>1. Len(bags) \in Nat
  BY DEF TypeOK, RowsOK
<1>2. IsFiniteSet(1 .. Len(bags))
  BY <1>1, FS_Interval
<1>3. OfKind(c, k) \subseteq 1 .. Len(bags)
  BY DEF OfKind, RowsOf, Rows
<1>4. QED
  BY <1>2, <1>3, FS_Subset, FS_CardinalityType

\* A step of a table's rows, seen row by row: none goes, none changes but for
\* its mark, and there is at most one new one.
LEMMA RowsKept ==
  ASSUME TypeOK, BagsStep
  PROVE  /\ bags' \in Seq(CheckBag)
         /\ Rows \subseteq Rows'
         /\ \A i \in Rows : /\ bags'[i].check = bags[i].check
                            /\ bags'[i].kind = bags[i].kind
                            /\ bags'[i].code = bags[i].code
                            /\ bags[i].scanned => bags'[i].scanned
         /\ \A i \in Rows' : \/ i \in Rows
                             \/ /\ i = Len(bags) + 1 /\ Insertable(bags'[i])
                                /\ ~Clashes(bags'[i].check, bags'[i].kind, bags'[i].code)
<1>0. bags \in Seq(CheckBag) /\ Len(bags) \in Nat
  BY DEF TypeOK, RowsOK
<1>1. CASE bags' = bags
  BY <1>0, <1>1 DEF Rows
<1>2. ASSUME NEW i \in Rows, bags' = [bags EXCEPT ![i].scanned = TRUE]
      PROVE  /\ bags' \in Seq(CheckBag) /\ Len(bags') = Len(bags)
             /\ \A j \in Rows : /\ bags'[j].check = bags[j].check
                                /\ bags'[j].kind = bags[j].kind
                                /\ bags'[j].code = bags[j].code
                                /\ bags[j].scanned => bags'[j].scanned
  <2>1. \A j \in Rows : bags[j] \in CheckBag
    BY <1>0 DEF Rows
  <2>2. [bags[i] EXCEPT !.scanned = TRUE] \in CheckBag
    BY <2>1 DEF CheckBag
  <2>3. bags' = [bags EXCEPT ![i] = [bags[i] EXCEPT !.scanned = TRUE]]
    BY <1>2
  <2>4. bags' \in Seq(CheckBag) /\ Len(bags') = Len(bags)
    BY <1>0, <2>2, <2>3 DEF Rows
  <2>5. \A j \in Rows : bags'[j] = IF j = i THEN [bags[i] EXCEPT !.scanned = TRUE] ELSE bags[j]
    BY <1>0, <2>3 DEF Rows
  <2>6. QED
    BY <2>1, <2>4, <2>5 DEF CheckBag
<1>3. ASSUME NEW r \in CheckBag, bags' = Append(bags, r), Insertable(r),
             ~Clashes(r.check, r.kind, r.code)
      PROVE  /\ bags' \in Seq(CheckBag) /\ Len(bags') = Len(bags) + 1
             /\ \A j \in Rows : bags'[j] = bags[j]
             /\ bags'[Len(bags) + 1] = r
  BY <1>0, <1>3 DEF Rows
<1>4. CASE \E i \in Rows : bags' = [bags EXCEPT ![i].scanned = TRUE]
  BY <1>0, <1>2, <1>4 DEF Rows
<1>5. CASE \E r \in CheckBag : /\ bags' = Append(bags, r) /\ Insertable(r)
                               /\ ~Clashes(r.check, r.kind, r.code)
  BY <1>0, <1>3, <1>5 DEF Rows
<1>6. QED
  BY <1>1, <1>4, <1>5 DEF BagsStep

\* A scanned bag stays scanned: what the gate saw holds until the finish.
LEMMA ScannedStays ==
  ASSUME TypeOK, BagsStep, NEW c, NEW s, NEW x, AllScanned(c, s, x)
  PROVE  AllScanned(c, s, x)'
<1>1. \A k : \A i \in RowsOf(c) : (bags[i].kind = k /\ bags[i].scanned)
        => (i \in RowsOf(c)' /\ bags'[i].kind = k /\ bags'[i].scanned)
  BY RowsKept DEF RowsOf
<1>2. QED
  BY <1>1 DEF AllScanned, Required

-----------------------------------------------------------------------------
(* Type correctness *)

\* What is true of a worker's hand after a step in which its check is c of set s.
Holds(h) ==
  /\ h \in Hand
  /\ h.check # 0 => (h.check \in CheckIds /\ checks'[h.check] # NoCheck /\ checks'[h.check].set = h.set)
  /\ h.step \in {"finishing", "unasked"} => h.check # 0

\* The parts make up the type invariant.
LEMMA TypeParts ==
  ASSUME TypeOK, BagsStep, ChecksStep, PoolOK', HandOK', DeskOK'
  PROVE  TypeOK'
<1>1. ASSUME NEW c, Saved(c) PROVE Saved(c)'
  BY <1>1 DEF Saved, ChecksStep
<1>2. \A i \in Rows' : bags'[i].check # 0 => (bags'[i].check \in CheckIds /\ checks'[bags'[i].check] # NoCheck)
  <2>1. ASSUME NEW i \in Rows', bags'[i].check # 0
        PROVE  Saved(bags'[i].check)
    BY <2>1, RowsKept DEF TypeOK, RowsOK, Insertable
  <2>2. QED
    BY <2>1 DEF Saved, ChecksStep
<1>3. bags' \in Seq(CheckBag)
  BY RowsKept
<1>4. QED
  BY <1>2, <1>3 DEF TypeOK, ChecksOK, RowsOK, ChecksStep, Saved

LEMMA PoolKept ==
  ASSUME TypeOK, ChecksStep, pool' = pool PROVE PoolOK'
BY DEF TypeOK, PoolOK, Saved, ChecksStep

LEMMA DeskKept ==
  ASSUME TypeOK, ChecksStep, desk' = desk PROVE DeskOK'
BY DEF TypeOK, DeskOK, Saved, ChecksStep, NamesSet

LEMMA DeskChanged ==
  ASSUME TypeOK, checks' = checks, NEW a \in Admins, NEW d,
         desk' = [desk EXCEPT ![a] = d],
         \/ d = Clear
         \/ /\ d \in Desk /\ Saved(d.check) /\ NamesSet(d.code, checks[d.check].set)
            /\ d.code \in Pool <=> d.step # "adding"
  PROVE  DeskOK'
<1>1. d \in Desk \cup {Clear}
  OBVIOUS
<1>2. \A b \in Admins : desk'[b] = IF b = a THEN d ELSE desk[b]
  BY DEF TypeOK, HandOK, DeskOK
<1>3. desk' \in [Admins -> Desk \cup {Clear}]
  BY <1>1 DEF TypeOK, HandOK, DeskOK
<1>4. QED
  BY <1>2, <1>3 DEF TypeOK, DeskOK, Saved, NamesSet

LEMMA HandKept ==
  ASSUME TypeOK, ChecksStep, hand' = hand PROVE HandOK'
BY DEF TypeOK, HandOK, Saved, ChecksStep

LEMMA HandChanged ==
  ASSUME TypeOK, ChecksStep, NEW w \in Workers, NEW h,
         hand' = [hand EXCEPT ![w] = h], h = Empty \/ Holds(h)
  PROVE  HandOK'
<1>1. h \in Hand \cup {Empty}
  BY DEF Holds
<1>2. \A v \in Workers : hand'[v] = IF v = w THEN h ELSE hand[v]
  BY DEF TypeOK, HandOK, DeskOK
<1>3. hand' \in [Workers -> Hand \cup {Empty}]
  BY <1>1 DEF TypeOK, HandOK, DeskOK
<1>4. ASSUME NEW v \in Workers, hand'[v] # Empty
      PROVE  /\ hand'[v].check # 0 => (Saved(hand[v].check)' /\ checks'[hand'[v].check].set = hand'[v].set)
             /\ hand'[v].step \in {"finishing", "unasked"} => hand'[v].check # 0
  <2>1. CASE v = w
    BY <1>2, <1>4, <2>1 DEF Holds, Saved
  <2>2. CASE v # w
    BY <1>2, <1>4, <2>2 DEF TypeOK, HandOK, Saved, ChecksStep
  <2>3. QED
    BY <2>1, <2>2
<1>5. QED
  BY <1>3, <1>4 DEF HandOK, Saved

LEMMA ChecksUnchanged ==
  ASSUME TypeOK, checks' = checks PROVE ChecksStep
BY DEF TypeOK, ChecksOK, ChecksStep

\* A new row of set_checks leaves the others alone.
LEMMA CheckInserted ==
  ASSUME TypeOK, NEW c \in CheckIds, IsFresh(c), NEW r \in Check,
         checks' = [checks EXCEPT ![c] = r]
  PROVE  /\ ChecksStep /\ checks'[c] # NoCheck /\ checks'[c] = r
         /\ \A d \in CheckIds : d # c => checks'[d] = checks[d]
BY CheckShape DEF TypeOK, ChecksOK, ChecksStep, IsFresh, NoCheck, Check

LEMMA DraftIs ==
  ASSUME NEW s \in Sets, NEW x \in BOOLEAN
  PROVE  /\ Draft(s, x) \in Check /\ Draft(s, x).set = s /\ Draft(s, x).status = "draft"
         /\ [Draft(s, x) EXCEPT !.status = "done"] \in Check
         /\ [Draft(s, x) EXCEPT !.status = "done"].set = s
         /\ ~[Draft(s, x) EXCEPT !.status = "done"].gated
BY DEF Draft, Check

\* What is shown of every action.
StepOK == BagsStep /\ ChecksStep /\ TypeOK'

\* The worker's half of a step that saves no check.
LEMMA WorkerMoves ==
  ASSUME TypeOK, BagsStep, NEW w \in Workers, NEW h,
         checks' = checks, pool' = pool, desk' = desk,
         hand' = [hand EXCEPT ![w] = h], h = Empty \/ Holds(h)
  PROVE  StepOK
BY ChecksUnchanged, PoolKept, DeskKept, HandChanged, TypeParts DEF StepOK

\* ... and of one that changes set_checks only.
LEMMA CheckMoves ==
  ASSUME TypeOK, ChecksStep, bags' = bags, pool' = pool, desk' = desk, HandOK'
  PROVE  StepOK
BY PoolKept, DeskKept, TypeParts DEF StepOK, BagsStep

\* The row of a hand stays a row through a step of set_checks.
LEMMA HoldsOn ==
  ASSUME TypeOK, ChecksStep, NEW w \in Workers, hand[w].step # "away",
         NEW h \in Hand, h.check = hand[w].check, h.set = hand[w].set,
         h.step \in {"finishing", "unasked"} => h.check # 0
  PROVE  Holds(h)
BY HandShape DEF Holds, ChecksStep, Saved

LEMMA StepResume ==
  ASSUME TypeOK, NEW w \in Workers, NEW s \in Sets, Resume(w, s) PROVE StepOK
<1>1. PICK c \in OpenChecks(s) : hand' = [hand EXCEPT ![w] = Holding(c, s, checks[c].extra)]
  BY DEF Resume
<1>2. c \in CheckIds /\ checks[c] \in Check /\ checks[c] # NoCheck /\ checks[c].set = s
  BY CheckShape DEF OpenChecks, NoCheck
<1>3. /\ Holding(c, s, checks[c].extra) \in Hand
      /\ Holding(c, s, checks[c].extra).check = c /\ Holding(c, s, checks[c].extra).set = s
      /\ Holding(c, s, checks[c].extra).step = "idle"
  BY <1>2, HoldingType DEF Check
<1>4. Holds(Holding(c, s, checks[c].extra))
  BY <1>2, <1>3 DEF Holds, Resume
<1>5. QED
  BY <1>1, <1>4, WorkerMoves DEF Resume, BagsStep

LEMMA StepOpenOnScreen ==
  ASSUME TypeOK, NEW w \in Workers, NEW s \in Sets, OpenOnScreen(w, s) PROVE StepOK
<1>1. PICK c \in CheckIds :
        /\ IsFresh(c)
        /\ checks' = [checks EXCEPT ![c] = Draft(s, FALSE)]
        /\ hand' = [hand EXCEPT ![w] = Holding(c, s, FALSE)]
  BY DEF OpenOnScreen
<1>2. ChecksStep /\ checks'[c] # NoCheck /\ checks'[c].set = s
  <2>1. PICK d \in Check : d = Draft(s, FALSE) /\ d.set = s
    BY DraftIs
  <2>2. QED
    BY <1>1, <2>1, CheckInserted
<1>3. Holds(Holding(c, s, FALSE))
  <2>1. c \in CheckIds \cup {0} /\ FALSE \in BOOLEAN
    OBVIOUS
  <2>2. /\ Holding(c, s, FALSE) \in Hand /\ Holding(c, s, FALSE).check = c
        /\ Holding(c, s, FALSE).set = s /\ Holding(c, s, FALSE).step = "idle"
    BY <2>1, HoldingType
  <2>3. QED
    BY <1>2, <2>2 DEF Holds
<1>4. HandOK'
  BY <1>1, <1>2, <1>3, HandChanged
<1>5. QED
  BY <1>2, <1>4, CheckMoves DEF OpenOnScreen

LEMMA StepOpenOnPhone ==
  ASSUME TypeOK, NEW w \in Workers, NEW s \in Sets, OpenOnPhone(w, s) PROVE StepOK
<1>1. /\ Holding(0, s, FALSE) \in Hand
      /\ Holding(0, s, FALSE).check = 0 /\ Holding(0, s, FALSE).step = "idle"
  <2>1. 0 \in CheckIds \cup {0} /\ FALSE \in BOOLEAN
    OBVIOUS
  <2>2. QED
    BY <2>1, HoldingType
<1>2. Holds(Holding(0, s, FALSE))
  BY <1>1 DEF Holds
<1>3. QED
  BY <1>2, WorkerMoves DEF OpenOnPhone, BagsStep

LEMMA StepSave ==
  ASSUME TypeOK, NEW w \in Workers, Save(w) PROVE StepOK
<1>0. /\ hand[w].step = "idle" /\ hand[w] # Empty /\ hand[w] \in Hand
  BY HandShape DEF Save
<1>1. CASE hand[w].check = 0
  <2>1. PICK c \in CheckIds :
          /\ IsFresh(c)
          /\ checks' = [checks EXCEPT ![c] = Draft(hand[w].set, hand[w].extra)]
          /\ hand' = [hand EXCEPT ![w] = [hand[w] EXCEPT !.check = c]]
    BY <1>1 DEF Save
  <2>2. hand[w].set \in Sets /\ hand[w].extra \in BOOLEAN
    BY <1>0 DEF Hand
  <2>3. ChecksStep /\ checks'[c] # NoCheck /\ checks'[c].set = hand[w].set
    <3>1. PICK d \in Check : d = Draft(hand[w].set, hand[w].extra) /\ d.set = hand[w].set
      BY <2>2, DraftIs
    <3>2. QED
      BY <2>1, <3>1, CheckInserted
  <2>4. /\ [hand[w] EXCEPT !.check = c] \in Hand
        /\ [hand[w] EXCEPT !.check = c].check = c
        /\ [hand[w] EXCEPT !.check = c].set = hand[w].set
        /\ [hand[w] EXCEPT !.check = c].step = "idle"
    BY <1>0 DEF Hand
  <2>5. Holds([hand[w] EXCEPT !.check = c])
    BY <2>3, <2>4 DEF Holds
  <2>6. HandOK'
    BY <2>1, <2>3, <2>5, HandChanged
  <2>7. QED
    BY <2>3, <2>6, CheckMoves DEF Save
<1>2. CASE hand[w].check # 0
  <2>1. /\ checks[hand[w].check] \in Check /\ hand[w].check \in CheckIds
        /\ checks' = [checks EXCEPT ![hand[w].check] = [checks[hand[w].check] EXCEPT !.extra = hand[w].extra]]
        /\ hand' = hand /\ hand[w].extra \in BOOLEAN
    BY <1>0, <1>2, HandShape DEF Save, Hand
  <2>2. /\ [checks[hand[w].check] EXCEPT !.extra = hand[w].extra] \in Check
        /\ [checks[hand[w].check] EXCEPT !.extra = hand[w].extra].set = checks[hand[w].check].set
        /\ [checks[hand[w].check] EXCEPT !.extra = hand[w].extra] # NoCheck
    BY <2>1 DEF Check, NoCheck
  <2>3. ChecksStep
    BY <2>1, <2>2 DEF TypeOK, ChecksOK, ChecksStep
  <2>4. QED
    BY <2>1, <2>3, HandKept, CheckMoves DEF Save
<1>3. QED
  BY <1>1, <1>2

LEMMA StepLeave ==
  ASSUME TypeOK, NEW w \in Workers, Leave(w) PROVE StepOK
BY WorkerMoves DEF Leave, BagsStep

LEMMA StepMarkExtra ==
  ASSUME TypeOK, NEW w \in Workers, MarkExtra(w) PROVE StepOK
<1> DEFINE st == IF OfKind(hand[w].check, "extra") = {} THEN "registering" ELSE "idle"
           h == [hand[w] EXCEPT !.extra = TRUE, !.step = st]
<1>1. hand[w].step = "idle" /\ hand[w] \in Hand
  BY HandShape DEF MarkExtra
<1>2. /\ h \in Hand /\ h.check = hand[w].check /\ h.set = hand[w].set
      /\ h.step \notin {"finishing", "unasked"}
  BY <1>1 DEF Hand
<1>3. Holds(h)
  BY <1>1, <1>2, HoldsOn, ChecksUnchanged DEF MarkExtra
<1>4. hand' = [hand EXCEPT ![w] = h]
  BY DEF MarkExtra
<1> HIDE DEF h
<1>5. QED
  BY <1>3, <1>4, WorkerMoves DEF MarkExtra, BagsStep

LEMMA StepUnmarkExtra ==
  ASSUME TypeOK, NEW w \in Workers, UnmarkExtra(w) PROVE StepOK
<1> DEFINE h == [hand[w] EXCEPT !.extra = FALSE]
<1>1. hand[w].step = "idle" /\ hand[w] \in Hand
  BY HandShape DEF UnmarkExtra
<1>2. /\ h \in Hand /\ h.check = hand[w].check /\ h.set = hand[w].set
      /\ h.step \notin {"finishing", "unasked"}
  BY <1>1 DEF Hand
<1>3. Holds(h)
  BY <1>1, <1>2, HoldsOn, ChecksUnchanged DEF UnmarkExtra
<1>4. hand' = [hand EXCEPT ![w] = h]
  BY DEF UnmarkExtra
<1> HIDE DEF h
<1>5. QED
  BY <1>3, <1>4, WorkerMoves DEF UnmarkExtra, BagsStep

\* A row that a worker registers, or an admin inserts, is let in or nothing changes.
LEMMA RowInserted ==
  ASSUME TypeOK, NEW r \in CheckBag,
         r.check # 0 => (Saved(r.check) /\ NamesSet(r.code, checks[r.check].set)),
         IF Clashes(r.check, r.kind, r.code) THEN bags' = bags ELSE bags' = Append(bags, r)
  PROVE  BagsStep
BY DEF BagsStep, Insertable

LEMMA StepRegister ==
  ASSUME TypeOK, NEW w \in Workers, Register(w) PROVE StepOK
<1> DEFINE h == hand[w]
           code == <<h.set, h.kind, 1>>
           r == NewRow(h.check, h.kind, code, h.scan)
<1>1. h \in Hand /\ h.step # "away"
  BY HandShape DEF Register
<1>2. code \in BagCode /\ code \notin Pool /\ code[1] = h.set
  BY <1>1, BagsAssumption DEF Hand, BagCode
<1>3. /\ r \in CheckBag /\ r.check = h.check /\ r.kind = h.kind /\ r.code = code
  BY <1>1, <1>2 DEF NewRow, CheckBag, Hand
<1>4. r.check # 0 => (Saved(r.check) /\ NamesSet(r.code, checks[r.check].set))
  BY <1>1, <1>2, <1>3, HandShape DEF NamesSet
<1>5. IF Clashes(r.check, r.kind, r.code) THEN bags' = bags ELSE bags' = Append(bags, r)
  <2>1. IF Clashes(h.check, h.kind, code) THEN bags' = bags ELSE bags' = Append(bags, r)
    BY DEF Register
  <2>2. QED
    BY <1>3, <2>1
<1>6. BagsStep
  <2> HIDE DEF r
  <2>1. QED
    BY <1>3, <1>4, <1>5, RowInserted
<1>7. /\ h.check \in CheckIds \cup {0} /\ h.set \in Sets /\ h.extra \in BOOLEAN
  BY <1>1 DEF Hand
<1>8. /\ Holding(h.check, h.set, h.extra) \in Hand
      /\ Holding(h.check, h.set, h.extra).check = h.check
      /\ Holding(h.check, h.set, h.extra).set = h.set
      /\ Holding(h.check, h.set, h.extra).step = "idle"
  BY <1>7, HoldingType
<1>9. Holds(Holding(h.check, h.set, h.extra))
  BY <1>1, <1>8, HoldsOn, ChecksUnchanged DEF Register
<1>10. QED
  BY <1>6, <1>9, WorkerMoves DEF Register

LEMMA StepScanRow ==
  ASSUME TypeOK, NEW w \in Workers, NEW code, ScanRow(w, code) PROVE StepOK
<1>1. BagsStep
  BY DEF ScanRow, MarkScanned, BagsStep
<1>2. QED
  BY <1>1, ChecksUnchanged, PoolKept, DeskKept, HandKept, TypeParts DEF ScanRow, StepOK

LEMMA StepScanLabel ==
  ASSUME TypeOK, NEW w \in Workers, NEW code \in Labels, ScanLabel(w, code) PROVE StepOK
<1>1. CASE /\ \E i \in Rows : IsFirst(i, OfKind(hand[w].check, code[2])) /\ MarkScanned(i)
           /\ UNCHANGED hand
  <2>1. BagsStep
    BY <1>1 DEF MarkScanned, BagsStep
  <2>2. QED
    BY <1>1, <2>1, ChecksUnchanged, PoolKept, DeskKept, HandKept, TypeParts DEF ScanLabel, StepOK
<1>2. CASE /\ hand' = [hand EXCEPT ![w].step = "registering", ![w].kind = code[2], ![w].scan = TRUE]
           /\ UNCHANGED bags
  <2> DEFINE h == [hand[w] EXCEPT !.step = "registering", !.kind = code[2], !.scan = TRUE]
  <2>1. hand[w].step # "away" /\ hand[w] \in Hand
    BY HandShape DEF ScanLabel, CanScan
  <2>2. code[2] \in BagKinds
    BY BagsAssumption
  <2>3. /\ h \in Hand /\ h.check = hand[w].check /\ h.set = hand[w].set
        /\ h.step \notin {"finishing", "unasked"}
    BY <2>1, <2>2 DEF Hand
  <2>4. Holds(h)
    BY <2>1, <2>3, HoldsOn, ChecksUnchanged DEF ScanLabel
  <2>5. hand' = [hand EXCEPT ![w] = h]
    BY <1>2
  <2> HIDE DEF h
  <2>6. QED
    BY <1>2, <2>4, <2>5, WorkerMoves DEF ScanLabel, BagsStep
<1>3. QED
  BY <1>1, <1>2 DEF ScanLabel

LEMMA StepGate ==
  ASSUME TypeOK, NEW w \in Workers, Gate(w) PROVE StepOK
<1> DEFINE h == [hand[w] EXCEPT !.step = "finishing"]
<1>1. hand[w].step # "away" /\ hand[w] \in Hand /\ hand[w].check # 0
  BY HandShape DEF Gate, CanFinish
<1>2. h \in Hand /\ h.check = hand[w].check /\ h.set = hand[w].set
  BY <1>1 DEF Hand
<1>3. Holds(h)
  BY <1>1, <1>2, HoldsOn, ChecksUnchanged DEF Gate
<1>4. hand' = [hand EXCEPT ![w] = h]
  BY DEF Gate
<1> HIDE DEF h
<1>5. QED
  BY <1>3, <1>4, WorkerMoves DEF Gate, BagsStep

LEMMA StepGateFails ==
  ASSUME TypeOK, NEW w \in Workers, GateFails(w) PROVE StepOK
<1> DEFINE h == [hand[w] EXCEPT !.step = "unasked"]
<1>1. hand[w].step # "away" /\ hand[w] \in Hand /\ hand[w].check # 0
  BY HandShape DEF GateFails, CanFinish
<1>2. h \in Hand /\ h.check = hand[w].check /\ h.set = hand[w].set
  BY <1>1 DEF Hand
<1>3. Holds(h)
  BY <1>1, <1>2, HoldsOn, ChecksUnchanged DEF GateFails
<1>4. hand' = [hand EXCEPT ![w] = h]
  BY DEF GateFails
<1> HIDE DEF h
<1>5. QED
  BY <1>3, <1>4, WorkerMoves DEF GateFails, BagsStep

\* The command line's check is a new row or a draft, and asked no gate.
LEMMA CliRow ==
  ASSUME TypeOK, NEW s \in Sets, NEW x \in BOOLEAN, CheckFromCli(s, x)
  PROVE  /\ ChecksStep
         /\ \A d \in CheckIds : checks'[d] = checks[d] \/ ~checks'[d].gated
         /\ \E c \in CheckIds : pool' = Released(c)
<1>1. PICK c \in CheckIds :
        /\ IF OpenChecks(s) = {} THEN IsFresh(c) ELSE IsLast(c, OpenChecks(s))
        /\ checks' = [checks EXCEPT ![c] = [Draft(s, x) EXCEPT !.status = "done"]]
        /\ pool' = Released(c)
  BY DEF CheckFromCli
<1>2. PICK d \in Check : d = [Draft(s, x) EXCEPT !.status = "done"] /\ ~d.gated /\ d.set = s
  BY DraftIs
<1>3. CASE IsFresh(c)
  BY <1>1, <1>2, <1>3, CheckInserted
<1>4. CASE c \in OpenChecks(s)
  <2>1. d # NoCheck /\ checks[c].set = s
    BY <1>2, <1>4 DEF OpenChecks, Check, NoCheck
  <2>2. checks' = [checks EXCEPT ![c] = d]
    BY <1>1, <1>2
  <2>3. QED
    BY <1>1, <1>2, <2>1, <2>2 DEF TypeOK, ChecksOK, ChecksStep
<1>5. QED
  BY <1>1, <1>3, <1>4 DEF IsLast

LEMMA StepCheckFromCli ==
  ASSUME TypeOK, NEW s \in Sets, NEW x \in BOOLEAN, CheckFromCli(s, x) PROVE StepOK
<1>1. ChecksStep
  BY CliRow
<1>2. PICK c \in CheckIds : pool' = Released(c)
  BY CliRow
<1>3. PoolOK'
  BY <1>1, <1>2 DEF Released, TypeOK, PoolOK, Saved, ChecksStep
<1>4. QED
  BY <1>1, <1>3, HandKept, DeskKept, TypeParts DEF CheckFromCli, BagsStep, StepOK

\* Finishing leaves an abandoned check alone and makes any other one done.
LEMMA FinishedRow ==
  ASSUME TypeOK, NEW w \in Workers, Finish(w)
  PROVE  /\ hand[w].check \in CheckIds /\ ChecksStep
         /\ \A c \in CheckIds : c # hand[w].check => checks'[c] = checks[c]
         /\ checks'[hand[w].check].status = "done" =>
              /\ checks'[hand[w].check].set = hand[w].set
              /\ checks'[hand[w].check].extra = hand[w].extra
              /\ checks'[hand[w].check].gated = (hand[w].step = "finishing")
<1> DEFINE h == hand[w]
           new == [checks[h.check] EXCEPT !.status = "done", !.extra = h.extra,
                                          !.gated = (h.step = "finishing")]
<1>1. h \in Hand /\ h.check # 0 /\ h.step # "away"
  BY HandShape DEF Finish, TypeOK, HandOK
<1>2. h.check \in CheckIds /\ checks[h.check] \in Check /\ checks[h.check].set = h.set
  BY <1>1, HandShape
<1>3. checks' = [checks EXCEPT ![h.check] = IF checks[h.check].status = "abandoned"
                                           THEN checks[h.check] ELSE new]
  BY DEF Finish
<1>4. /\ new \in Check /\ new.set = h.set /\ new.extra = h.extra /\ new # NoCheck
      /\ new.gated = (h.step = "finishing")
  BY <1>1, <1>2 DEF Check, Hand, NoCheck
<1>5. /\ \A c \in CheckIds : c # h.check => checks'[c] = checks[c]
      /\ checks'[h.check] = IF checks[h.check].status = "abandoned" THEN checks[h.check] ELSE new
  BY <1>2, <1>3 DEF TypeOK, ChecksOK
<1> HIDE DEF new
<1>6. ChecksStep
  BY <1>2, <1>3, <1>4, <1>5, CheckShape DEF TypeOK, ChecksOK, ChecksStep
<1>7. QED
  BY <1>2, <1>4, <1>5, <1>6

LEMMA StepFinish ==
  ASSUME TypeOK, NEW w \in Workers, Finish(w) PROVE StepOK
<1>1. ChecksStep
  BY FinishedRow
<1>2. PoolOK'
  BY <1>1 DEF Finish, Released, TypeOK, PoolOK, Saved, ChecksStep
<1>3. HandOK'
  BY <1>1, HandChanged DEF Finish
<1>4. QED
  BY <1>1, <1>2, <1>3, DeskKept, TypeParts DEF Finish, BagsStep, StepOK

LEMMA StepAbandon ==
  ASSUME TypeOK, NEW w \in Workers, Abandon(w) PROVE StepOK
<1> DEFINE c == hand[w].check
           new == [checks[c] EXCEPT !.status = "abandoned"]
<1>1. c \in CheckIds /\ checks[c] \in Check
  BY HandShape DEF Abandon, CanScan
<1>2. new \in Check /\ new.set = checks[c].set /\ new # NoCheck
  BY <1>1 DEF Check, NoCheck
<1>3. checks' = checks \/ checks' = [checks EXCEPT ![c] = new]
  BY DEF Abandon
<1> HIDE DEF new
<1>4. ChecksStep
  BY <1>1, <1>2, <1>3 DEF TypeOK, ChecksOK, ChecksStep
<1>5. HandOK'
  BY <1>4, HandChanged DEF Abandon
<1>6. QED
  BY <1>4, <1>5, CheckMoves DEF Abandon

LEMMA StepCountBags ==
  ASSUME TypeOK, NEW a \in Admins, NEW s \in Sets, NEW k \in BagKinds, CountBags(a, s, k)
  PROVE  StepOK
<1>1. PICK c \in CheckIds :
        /\ IsCurrentOrLast(c, s)
        /\ desk' = [desk EXCEPT ![a] = [step |-> "adding", check |-> c, kind |-> k,
                                        code |-> <<s, k, Cardinality(OfKind(c, k)) + 1>>]]
  BY DEF CountBags
<1> DEFINE code == <<s, k, Cardinality(OfKind(c, k)) + 1>>
           d == [step |-> "adding", check |-> c, kind |-> k, code |-> code]
<1>2. Saved(c) /\ checks[c].set = s
  BY <1>1, CheckShape DEF IsCurrentOrLast, IsLast, OpenChecks, DoneChecks, Saved, NoCheck
<1>3. code \in BagCode /\ code \notin Pool /\ code[1] = s
  BY CountType, BagsAssumption DEF BagCode
<1>4. d \in Desk /\ d.check = c /\ d.code = code /\ d.step = "adding"
  BY <1>3 DEF Desk
<1>5. NamesSet(d.code, checks[d.check].set)
  BY <1>2, <1>3, <1>4 DEF NamesSet
<1>6. DeskOK'
  <2>1. desk' = [desk EXCEPT ![a] = d] /\ checks' = checks
    BY <1>1 DEF CountBags
  <2> HIDE DEF d
  <2>2. QED
    BY <1>2, <1>3, <1>4, <1>5, <2>1, DeskChanged
<1>7. QED
  BY <1>6, ChecksUnchanged, PoolKept, HandKept, TypeParts DEF CountBags, BagsStep, StepOK

\* The row an admin's desk holds is inserted: AddBag and HandPoolBag.
LEMMA DeskInserts ==
  ASSUME TypeOK, NEW a \in Admins, desk[a].step # "clear", checks' = checks,
         IF Clashes(desk[a].check, desk[a].kind, desk[a].code) THEN bags' = bags
         ELSE bags' = Append(bags, NewRow(desk[a].check, desk[a].kind, desk[a].code, FALSE)),
         pool' = pool, hand' = hand, desk' = [desk EXCEPT ![a] = Clear]
  PROVE  StepOK
<1> DEFINE d == desk[a]
           r == NewRow(d.check, d.kind, d.code, FALSE)
<1>1. d \in Desk /\ Saved(d.check) /\ NamesSet(d.code, checks[d.check].set)
  BY DeskShape
<1>2. r \in CheckBag /\ r.check = d.check /\ r.kind = d.kind /\ r.code = d.code
  BY <1>1 DEF NewRow, CheckBag, Desk
<1>3. BagsStep
  <2>1. IF Clashes(r.check, r.kind, r.code) THEN bags' = bags ELSE bags' = Append(bags, r)
    BY <1>2
  <2> HIDE DEF r
  <2>2. QED
    BY <1>1, <1>2, <2>1, RowInserted
<1>4. DeskOK'
  BY DeskChanged
<1>5. QED
  BY <1>3, <1>4, ChecksUnchanged, PoolKept, HandKept, TypeParts DEF StepOK

LEMMA StepAddBag ==
  ASSUME TypeOK, NEW a \in Admins, AddBag(a) PROVE StepOK
BY DeskInserts DEF AddBag

LEMMA StepHandPoolBag ==
  ASSUME TypeOK, NEW a \in Admins, HandPoolBag(a) PROVE StepOK
BY DeskInserts DEF HandPoolBag

LEMMA StepAskForPoolBag ==
  ASSUME TypeOK, NEW a \in Admins, NEW s \in Sets, NEW b \in Pool, AskForPoolBag(a, s, b)
  PROVE  StepOK
<1>1. PICK c \in CheckIds :
        /\ IsCurrentOrLast(c, s)
        /\ desk' = [desk EXCEPT ![a] = [step |-> "taking", check |-> c, kind |-> PoolKind[b],
                                        code |-> b]]
  BY DEF AskForPoolBag
<1> DEFINE d == [step |-> "taking", check |-> c, kind |-> PoolKind[b], code |-> b]
<1>2. Saved(c)
  BY <1>1, CheckShape DEF IsCurrentOrLast, IsLast, OpenChecks, DoneChecks, Saved, NoCheck
<1>3. d \in Desk /\ d.check = c /\ d.code = b /\ d.step = "taking"
  BY BagsAssumption DEF Desk
<1>4. NamesSet(d.code, checks[d.check].set)
  BY <1>3 DEF NamesSet
<1>5. DeskOK'
  <2>1. desk' = [desk EXCEPT ![a] = d] /\ checks' = checks
    BY <1>1 DEF AskForPoolBag
  <2> HIDE DEF d
  <2>2. QED
    BY <1>2, <1>3, <1>4, <2>1, DeskChanged
<1>6. QED
  BY <1>5, ChecksUnchanged, PoolKept, HandKept, TypeParts DEF AskForPoolBag, BagsStep, StepOK

LEMMA StepTakePoolBag ==
  ASSUME TypeOK, NEW a \in Admins, TakePoolBag(a) PROVE StepOK
<1> DEFINE d == [desk[a] EXCEPT !.step = "handing"]
<1>1. /\ desk[a] \in Desk /\ Saved(desk[a].check) /\ desk[a].code \in Pool
      /\ NamesSet(desk[a].code, checks[desk[a].check].set)
  BY DeskShape DEF TakePoolBag
<1>2. /\ d \in Desk /\ d.check = desk[a].check /\ d.code = desk[a].code /\ d.step = "handing"
  BY <1>1 DEF Desk
<1>3. DeskOK'
  <2>1. desk' = [desk EXCEPT ![a] = d] /\ checks' = checks
    BY DEF TakePoolBag
  <2> HIDE DEF d
  <2>2. QED
    BY <1>1, <1>2, <2>1, DeskChanged
<1>4. PoolOK'
  BY <1>1 DEF TakePoolBag, TypeOK, PoolOK, Saved
<1>5. QED
  BY <1>3, <1>4, ChecksUnchanged, HandKept, TypeParts DEF TakePoolBag, BagsStep, StepOK

LEMMA StepReleasePoolBag ==
  ASSUME TypeOK, NEW b \in Pool, ReleasePoolBag(b) PROVE StepOK
<1>1. PoolOK'
  BY DEF ReleasePoolBag, TypeOK, PoolOK, Saved
<1>2. QED
  BY <1>1, ChecksUnchanged, DeskKept, HandKept, TypeParts DEF ReleasePoolBag, BagsStep, StepOK

\* Every step keeps the types and treats the two tables as said above.
LEMMA EveryStep ==
  ASSUME TypeOK, [Next]_vars PROVE StepOK
<1>1. ASSUME NEW w \in Workers, WorkerStep(w) PROVE StepOK
  BY <1>1, StepResume, StepOpenOnScreen, StepOpenOnPhone, StepSave, StepLeave, StepMarkExtra,
     StepUnmarkExtra, StepRegister, StepScanRow, StepScanLabel, StepGate, StepGateFails, StepFinish,
     StepAbandon
     DEF WorkerStep
<1>2. ASSUME NEW a \in Admins, AdminStep(a) PROVE StepOK
  BY <1>2, StepCountBags, StepAddBag, StepAskForPoolBag, StepTakePoolBag, StepHandPoolBag
     DEF AdminStep
<1>3. CASE UNCHANGED vars
  BY <1>3, ChecksUnchanged, PoolKept, DeskKept, HandKept, TypeParts DEF vars, BagsStep, StepOK
<1>4. QED
  BY <1>1, <1>2, <1>3, StepReleasePoolBag, StepCheckFromCli DEF Next

LEMMA InitTypeOK == Init => TypeOK
BY DEF Init, TypeOK, ChecksOK, RowsOK, PoolOK, HandOK, DeskOK, Rows

\* Tables, hands and desks are always well formed: nothing refers to a check
\* that was not saved, whoever saves, finishes or abandons checks meanwhile.
THEOREM TypeCorrect == Spec => []TypeOK
<1>1. TypeOK /\ [Next]_vars => TypeOK'
  BY EveryStep DEF StepOK
<1>2. QED
  BY <1>1, InitTypeOK, PTL DEF Spec

-----------------------------------------------------------------------------
(* The finish gate *)

\* Between the gate and the finish the check keeps the bags the gate saw.
GateHolds ==
  \A w \in Workers :
    hand[w].step = "finishing" => AllScanned(hand[w].check, hand[w].set, hand[w].extra)

GateInv == TypeOK /\ GateHolds /\ GatedChecksHadTheirBags

\* Only the gate lets a worker begin to finish.
LEMMA WorkerHand ==
  ASSUME TypeOK, NEW w \in Workers, WorkerStep(w), ~Gate(w)
  PROVE  \/ hand' = hand
         \/ \E h : hand' = [hand EXCEPT ![w] = h] /\ h.step # "finishing"
<1>1. \A c, s, x : Holding(c, s, x).step # "finishing"
  BY DEF Holding
<1>2. CASE \E s \in Sets : Resume(w, s) \/ OpenOnScreen(w, s) \/ OpenOnPhone(w, s)
  <2>1. PICK s \in Sets : Resume(w, s) \/ OpenOnScreen(w, s) \/ OpenOnPhone(w, s)
    BY <1>2
  <2>2. CASE Resume(w, s)
    <3>1. PICK c \in OpenChecks(s) : hand' = [hand EXCEPT ![w] = Holding(c, s, checks[c].extra)]
      BY <2>2 DEF Resume
    <3>2. QED
      BY <1>1, <3>1
  <2>3. CASE OpenOnScreen(w, s)
    <3>1. PICK c \in CheckIds : hand' = [hand EXCEPT ![w] = Holding(c, s, FALSE)]
      BY <2>3 DEF OpenOnScreen
    <3>2. QED
      BY <1>1, <3>1
  <2>4. CASE OpenOnPhone(w, s)
    BY <1>1, <2>4 DEF OpenOnPhone
  <2>5. QED
    BY <2>1, <2>2, <2>3, <2>4
<1>3. CASE Leave(w) \/ Finish(w) \/ Abandon(w)
  <2>1. hand' = [hand EXCEPT ![w] = Empty]
    BY <1>3 DEF Leave, Finish, Abandon
  <2>2. Empty.step # "finishing"
    BY DEF Empty
  <2>3. QED
    BY <2>1, <2>2
<1>4. CASE Register(w)
  BY <1>1, <1>4 DEF Register
<1>5. CASE \E code \in Labels \cup Pool : ScanRow(w, code)
  BY <1>5 DEF ScanRow
<1>6. ASSUME hand[w].step = "idle",
             \E c \in CheckIds : hand' = [hand EXCEPT ![w] = [hand[w] EXCEPT !.check = c]]
      PROVE  \E h : hand' = [hand EXCEPT ![w] = h] /\ h.step # "finishing"
  <2>1. hand[w] \in Hand
    BY <1>6, HandShape
  <2>2. \A c : [hand[w] EXCEPT !.check = c].step = "idle"
    BY <1>6, <2>1 DEF Hand
  <2>3. QED
    BY <1>6, <2>2
<1>7. CASE Save(w)
  BY <1>6, <1>7 DEF Save
<1>8. ASSUME NEW st \in {"registering", "idle"}, hand[w] \in Hand
      PROVE  [hand[w] EXCEPT !.extra = TRUE, !.step = st].step # "finishing"
  BY <1>8 DEF Hand
<1>9. CASE MarkExtra(w)
  BY <1>8, <1>9, HandShape DEF MarkExtra
<1>10. CASE UnmarkExtra(w)
  <2>1. hand[w].step = "idle" /\ hand[w] \in Hand
    BY <1>10, HandShape DEF UnmarkExtra
  <2>2. [hand[w] EXCEPT !.extra = FALSE].step = "idle"
    BY <2>1 DEF Hand
  <2>3. QED
    BY <1>10, <2>2 DEF UnmarkExtra
<1>11. ASSUME NEW code \in Labels, ScanLabel(w, code)
       PROVE  \/ hand' = hand
              \/ \E h : hand' = [hand EXCEPT ![w] = h] /\ h.step # "finishing"
  <2>1. hand[w] \in Hand
    BY <1>11, HandShape DEF ScanLabel, CanScan
  <2>2. [hand[w] EXCEPT !.step = "registering", !.kind = code[2], !.scan = TRUE].step # "finishing"
    BY <2>1 DEF Hand
  <2>3. QED
    BY <1>11, <2>2 DEF ScanLabel
<1>12. CASE GateFails(w)
  <2>1. hand[w] \in Hand /\ hand' = [hand EXCEPT ![w] = [hand[w] EXCEPT !.step = "unasked"]]
    BY <1>12, HandShape DEF GateFails, CanFinish
  <2>2. [hand[w] EXCEPT !.step = "unasked"].step = "unasked"
    BY <2>1 DEF Hand
  <2>3. QED
    BY <2>1, <2>2
<1>13. QED
  BY <1>2, <1>3, <1>4, <1>5, <1>7, <1>9, <1>10, <1>11, <1>12 DEF WorkerStep

\* A worker whose step this is not, or who is not finishing after it, needs nothing.
LEMMA GateHoldsStep ==
  ASSUME GateInv, [Next]_vars PROVE GateHolds'
<1>0. TypeOK /\ StepOK /\ BagsStep
  BY EveryStep DEF GateInv, StepOK
<1>1. ASSUME NEW w \in Workers, hand'[w].step = "finishing", hand'[w] = hand[w]
      PROVE  AllScanned(hand[w].check, hand[w].set, hand[w].extra)'
  <2>1. AllScanned(hand[w].check, hand[w].set, hand[w].extra)
    BY <1>1 DEF GateInv, GateHolds
  <2>2. PICK c, s, x : c = hand[w].check /\ s = hand[w].set /\ x = hand[w].extra
    OBVIOUS
  <2>3. AllScanned(c, s, x)'
    BY <1>0, <2>1, <2>2, ScannedStays
  <2>4. c = hand'[w].check /\ s = hand'[w].set /\ x = hand'[w].extra
    BY <1>1, <2>2
  <2>5. QED
    BY <2>3, <2>4 DEF AllScanned, RowsOf, Rows
<1>2. ASSUME NEW w \in Workers, Gate(w)
      PROVE  AllScanned(hand[w].check, hand[w].set, hand[w].extra)'
  <2>1. /\ AllScanned(hand[w].check, hand[w].set, hand[w].extra) /\ bags' = bags
        /\ hand'[w] = [hand[w] EXCEPT !.step = "finishing"]
    BY <1>0, <1>2 DEF Gate, TypeOK, HandOK
  <2>2. hand[w] \in Hand
    BY <1>0, <1>2, HandShape DEF Gate, CanFinish
  <2>3. /\ hand'[w].check = hand[w].check /\ hand'[w].set = hand[w].set
        /\ hand'[w].extra = hand[w].extra
    BY <2>1, <2>2 DEF Hand
  <2>4. QED
    BY <2>1, <2>3 DEF AllScanned, RowsOf, Rows
<1>3. ASSUME NEW w \in Workers
      PROVE  hand'[w] = hand[w] \/ hand'[w].step # "finishing" \/ Gate(w)
  <2>1. ASSUME NEW v \in Workers, WorkerStep(v), ~Gate(v)
        PROVE  hand'[w] = hand[w] \/ hand'[w].step # "finishing"
    BY <1>0, <2>1, WorkerHand DEF TypeOK, HandOK
  <2>2. ASSUME NEW v \in Workers, Gate(v), v # w PROVE hand'[w] = hand[w]
    BY <1>0, <2>2 DEF Gate, TypeOK, HandOK
  <2>3. QED
    BY <2>1, <2>2 DEF Next, AdminStep, CountBags, AddBag, AskForPoolBag, TakePoolBag, HandPoolBag,
       ReleasePoolBag, CheckFromCli, vars
<1>4. QED
  BY <1>1, <1>2, <1>3 DEF GateHolds

\* A check becomes done with an answered gate only by the finish of a worker past it.
LEMMA DoneStep ==
  ASSUME GateInv, [Next]_vars PROVE GatedChecksHadTheirBags'
<1>0. TypeOK /\ StepOK /\ BagsStep /\ ChecksStep
  BY EveryStep DEF GateInv, StepOK
<1>1. SUFFICES ASSUME NEW c \in CheckIds, checks'[c].status = "done", checks'[c].gated
               PROVE  \A k \in Required(checks'[c].set, checks'[c].extra) :
                        \E i \in RowsOf(c)' : bags'[i].kind = k /\ bags'[i].scanned
  BY DEF GatedChecksHadTheirBags, HadItsBags
<1>2. CASE checks'[c] = checks[c]
  <2>1. PICK s, x : s = checks[c].set /\ x = checks[c].extra
    OBVIOUS
  <2>2. AllScanned(c, s, x)
    BY <1>1, <1>2, <2>1 DEF GateInv, GatedChecksHadTheirBags, HadItsBags, AllScanned
  <2>3. AllScanned(c, s, x)'
    BY <1>0, <2>2, ScannedStays
  <2>4. QED
    BY <1>2, <2>1, <2>3 DEF AllScanned
<1>3. ASSUME NEW w \in Workers, Finish(w), c = hand[w].check
      PROVE  \A k \in Required(checks'[c].set, checks'[c].extra) :
               \E i \in RowsOf(c)' : bags'[i].kind = k /\ bags'[i].scanned
  <2>1. /\ checks'[c].set = hand[w].set /\ checks'[c].extra = hand[w].extra
        /\ hand[w].step = "finishing"
    BY <1>0, <1>1, <1>3, FinishedRow
  <2>2. AllScanned(c, hand[w].set, hand[w].extra) /\ bags' = bags
    BY <1>3, <2>1 DEF GateInv, GateHolds, Finish
  <2>3. QED
    BY <2>1, <2>2 DEF AllScanned, RowsOf, Rows
<1>4. ASSUME NEW w \in Workers, WorkerStep(w), ~(Finish(w) /\ c = hand[w].check)
      PROVE  checks'[c] = checks[c]
  <2>1. CASE Finish(w)
    BY <1>0, <1>1, <1>4, <2>1, FinishedRow
  <2>2. CASE Save(w)
    <3>1. hand[w].step # "away" /\ hand[w] \in Hand
      BY <1>0, <2>2, HandShape DEF Save
    <3>2. CASE hand[w].check = 0
      BY <1>0, <1>1, <2>2, <3>2 DEF Save, Draft, TypeOK, ChecksOK
    <3>3. CASE hand[w].check # 0
      <4>1. /\ hand[w].check \in CheckIds /\ checks[hand[w].check] \in Check
            /\ checks[hand[w].check].status = "draft"
        BY <1>0, <2>2, <3>1, <3>3, HandShape DEF Save
      <4>2. [checks[hand[w].check] EXCEPT !.extra = hand[w].extra].status = "draft"
        BY <4>1 DEF Check
      <4>3. QED
        BY <1>0, <1>1, <2>2, <3>3, <4>1, <4>2 DEF Save, TypeOK, ChecksOK
    <3>4. QED
      BY <3>2, <3>3
  <2>3. CASE Abandon(w)
    <3>1. hand[w].check \in CheckIds /\ checks[hand[w].check] \in Check
      BY <1>0, <2>3, HandShape DEF Abandon, CanScan
    <3>2. [checks[hand[w].check] EXCEPT !.status = "abandoned"].status = "abandoned"
      BY <3>1 DEF Check
    <3>3. QED
      BY <1>0, <1>1, <2>3, <3>1, <3>2 DEF Abandon, TypeOK, ChecksOK
  <2>4. CASE \E s \in Sets : OpenOnScreen(w, s)
    BY <1>0, <1>1, <2>4 DEF OpenOnScreen, Draft, TypeOK, ChecksOK
  <2>5. CASE checks' = checks
    BY <1>1, <2>5
  <2>6. QED
    BY <1>4, <2>1, <2>2, <2>3, <2>4, <2>5
       DEF WorkerStep, Resume, OpenOnPhone, Leave, MarkExtra, UnmarkExtra, Register, ScanRow,
           ScanLabel, Gate, GateFails
<1>5. CASE checks' = checks
  BY <1>1, <1>2, <1>5
<1>6. CASE \E s \in Sets, x \in BOOLEAN : CheckFromCli(s, x)
  BY <1>0, <1>1, <1>2, <1>6, CliRow
<1>7. QED
  BY <1>2, <1>3, <1>4, <1>5, <1>6 DEF Next, AdminStep, CountBags, AddBag, AskForPoolBag, TakePoolBag,
     HandPoolBag, ReleasePoolBag, vars

\* However extras, scans and registrations of others fall between the gate's answer and
\* the finish, a check finished through the gate had every bag it needs scanned.  (One
\* finished from the command line, or past a gate that failed, need not.)
THEOREM GateIsSound == Spec => []GatedChecksHadTheirBags
<1>1. Init => GateInv
  BY InitTypeOK DEF Init, GateInv, GateHolds, GatedChecksHadTheirBags, Empty, NoCheck
<1>2. GateInv /\ [Next]_vars => GateInv'
  BY GateHoldsStep, DoneStep, EveryStep DEF GateInv, StepOK
<1>3. GateInv => GatedChecksHadTheirBags
  BY DEF GateInv
<1>4. QED
  BY <1>1, <1>2, <1>3, PTL DEF Spec

-----------------------------------------------------------------------------
(* The labels *)

\* Two bags of a kind on one check never get one label: two inserts that were
\* decided on the same reading are told apart by the schema's constraint.
THEOREM LabelsAreDistinct == Spec => []BagsAreDistinct
<1>1. Init => BagsAreDistinct
  BY DEF Init, BagsAreDistinct, Rows
<1>2. ASSUME TypeOK, BagsAreDistinct, [Next]_vars
      PROVE  BagsAreDistinct'
  <2>0. StepOK /\ BagsStep /\ ChecksStep
    BY <1>2, EveryStep DEF StepOK
  <2>1. ASSUME NEW i \in Rows', NEW j \in Rows', i # j,
               bags'[i].check = bags'[j].check, bags'[i].kind = bags'[j].kind
        PROVE  LabelOf(bags'[i].code) # LabelOf(bags'[j].code)
    <3>1. CASE i \in Rows /\ j \in Rows
      BY <1>2, <2>0, <2>1, <3>1, RowsKept DEF BagsAreDistinct
    <3>2. ASSUME NEW m \in Rows, NEW n \in Rows' \ Rows,
                 bags'[m].check = bags'[n].check, bags'[m].kind = bags'[n].kind
          PROVE  LabelOf(bags'[m].code) # LabelOf(bags'[n].code)
      <4>1. ~Clashes(bags'[n].check, bags'[n].kind, bags'[n].code)
        BY <1>2, <2>0, <3>2, RowsKept
      <4>2. /\ bags'[m].check = bags[m].check /\ bags'[m].kind = bags[m].kind
            /\ bags'[m].code = bags[m].code
        BY <1>2, <2>0, RowsKept
      <4>3. QED
        BY <3>2, <4>1, <4>2 DEF Clashes, OfKind, RowsOf
    <3>3. i \in Rows \/ j \in Rows
      BY <1>2, <2>0, <2>1, RowsKept
    <3>4. QED
      BY <2>1, <3>1, <3>2, <3>3
  <2>2. ASSUME NEW i \in Rows', bags'[i].check # 0
        PROVE  NamesSet(bags'[i].code, checks'[bags'[i].check].set)
    <3>1. Saved(bags'[i].check) /\ NamesSet(bags'[i].code, checks[bags'[i].check].set)
      BY <1>2, <2>0, <2>2, RowsKept DEF BagsAreDistinct, TypeOK, RowsOK, Insertable
    <3>2. QED
      BY <2>0, <3>1 DEF Saved, ChecksStep
  <2>3. QED
    BY <2>1, <2>2 DEF BagsAreDistinct, NamesSet, LabelOf
<1>3. QED
  BY <1>1, <1>2, TypeCorrect, PTL DEF Spec

-----------------------------------------------------------------------------
(* Scanning *)

\* Whoever marks a bag has its check open ...
LEMMA ScanIsOwn ==
  ASSUME TypeOK, [Next]_vars, NEW i \in Rows, bags'[i].scanned, ~bags[i].scanned
  PROVE  \E w \in Workers : hand[w] # Empty /\ hand[w].check = bags[i].check
<1>0. StepOK /\ bags \in Seq(CheckBag)
  BY EveryStep DEF TypeOK, RowsOK, StepOK
<1>1. bags' # bags
  OBVIOUS
<1>2. ASSUME NEW row, bags' = Append(bags, row) PROVE FALSE
  BY <1>0, <1>2 DEF Rows
<1>3. ASSUME NEW j \in Rows, MarkScanned(j) PROVE i = j
  BY <1>0, <1>3 DEF MarkScanned, Rows
<1>4. PICK w \in Workers : WorkerStep(w)
  BY <1>1, <1>2 DEF Next, AdminStep, CountBags, AddBag, AskForPoolBag, TakePoolBag, HandPoolBag,
     ReleasePoolBag, CheckFromCli, vars
<1>5. CASE \E code \in Labels \cup Pool : ScanRow(w, code)
  BY <1>3, <1>5 DEF ScanRow, CanScan, Empty
<1>6. CASE \E code \in Labels : ScanLabel(w, code)
  <2>1. PICK code \in Labels : ScanLabel(w, code)
    BY <1>6
  <2>2. PICK j \in Rows : IsFirst(j, OfKind(hand[w].check, code[2])) /\ MarkScanned(j)
    BY <1>1, <2>1 DEF ScanLabel
  <2>3. QED
    BY <1>3, <2>1, <2>2 DEF ScanLabel, CanScan, IsFirst, OfKind, RowsOf, Empty
<1>7. CASE Register(w)
  BY <1>1, <1>2, <1>7 DEF Register
<1>8. QED
  BY <1>1, <1>4, <1>5, <1>6, <1>7
     DEF WorkerStep, Resume, OpenOnScreen, OpenOnPhone, Save, Leave, MarkExtra, UnmarkExtra, Gate,
         GateFails, Finish, Abandon

\* ... and so has whoever registers one that is scanned.
LEMMA RegisterIsOwn ==
  ASSUME TypeOK, [Next]_vars, NEW i \in Rows' \ Rows, bags'[i].scanned
  PROVE  \E w \in Workers : hand[w] # Empty /\ hand[w].check = bags'[i].check
<1>0. bags \in Seq(CheckBag)
  BY DEF TypeOK, RowsOK
<1>1. bags' # bags /\ \A j \in Rows : ~MarkScanned(j)
  BY <1>0 DEF MarkScanned, Rows
<1>2. ASSUME NEW row, bags' = Append(bags, row) PROVE bags'[i] = row
  BY <1>0, <1>2 DEF Rows
<1>3. ASSUME NEW a \in Admins, AddBag(a) \/ HandPoolBag(a) PROVE FALSE
  <2>1. bags' = Append(bags, NewRow(desk[a].check, desk[a].kind, desk[a].code, FALSE))
    BY <1>1, <1>3 DEF AddBag, HandPoolBag
  <2>2. ~NewRow(desk[a].check, desk[a].kind, desk[a].code, FALSE).scanned
    BY DEF NewRow
  <2>3. PICK row : row = NewRow(desk[a].check, desk[a].kind, desk[a].code, FALSE)
    OBVIOUS
  <2>4. bags'[i] = row
    BY <1>2, <2>1, <2>3
  <2>5. QED
    BY <2>2, <2>3, <2>4
<1>4. PICK w \in Workers : WorkerStep(w)
  BY <1>1, <1>3 DEF Next, AdminStep, CountBags, AskForPoolBag, TakePoolBag, ReleasePoolBag,
     CheckFromCli, vars
<1>5. Register(w)
  BY <1>1, <1>4
     DEF WorkerStep, Resume, OpenOnScreen, OpenOnPhone, Save, Leave, MarkExtra, UnmarkExtra, Gate,
         GateFails, Finish, Abandon, ScanRow, ScanLabel
<1>6. bags'[i].check = hand[w].check
  <2>1. PICK code : bags' = Append(bags, NewRow(hand[w].check, hand[w].kind, code, hand[w].scan))
    BY <1>1, <1>5 DEF Register
  <2>2. NewRow(hand[w].check, hand[w].kind, code, hand[w].scan).check = hand[w].check
    BY DEF NewRow
  <2>3. PICK row : row = NewRow(hand[w].check, hand[w].kind, code, hand[w].scan)
    OBVIOUS
  <2>4. bags'[i] = row
    BY <1>2, <2>1, <2>3
  <2>5. QED
    BY <2>2, <2>3, <2>4
<1>7. QED
  BY <1>5, <1>6 DEF Register, Empty

\* A scan never confirms a bag of a saved check that the worker does not have open.
THEOREM ScansAreOwn == Spec => ScansConfirmOwnBags
<1> DEFINE Own == \A i \in 1 .. Len(bags') :
             (bags'[i].check # 0 /\ bags'[i].scanned /\ ~(i \in Rows /\ bags[i].scanned))
               => \E w \in Workers : hand[w] # Empty /\ hand[w].check = bags'[i].check
<1>1. TypeOK /\ [Next]_vars => [Own]_vars
  <2>1. SUFFICES ASSUME TypeOK, [Next]_vars, NEW i \in Rows',
                        bags'[i].scanned, ~(i \in Rows /\ bags[i].scanned)
                 PROVE  \E w \in Workers : hand[w] # Empty /\ hand[w].check = bags'[i].check
    BY DEF Rows
  <2>2. CASE i \in Rows
    <3>1. bags'[i].check = bags[i].check
      BY <2>1, <2>2, EveryStep, RowsKept DEF StepOK
    <3>2. QED
      BY <2>1, <2>2, <3>1, ScanIsOwn
  <2>3. CASE i \notin Rows
    BY <2>1, <2>3, RegisterIsOwn
  <2>4. QED
    BY <2>2, <2>3
<1>2. QED
  BY <1>1, TypeCorrect, PTL DEF Spec, ScansConfirmOwnBags

-----------------------------------------------------------------------------
(* The reusable bags *)

\* What an administrator who has asked for a reusable bag may still rely on: no row of
\* that check has its code, and no other check has taken it.
TakingOK ==
  \A a \in Admins : desk[a].step \in {"taking", "handing"} =>
    /\ RowsOf(desk[a].check) \cap WithCode(desk[a].code) = {}
    /\ pool[desk[a].code] \in {0, desk[a].check}

PoolInv == TypeOK /\ TakingOK /\ PoolBagsScanWhereTheyAre

\* No administrator's command is under way with b.
Idle(b) == \A a \in Admins : desk[a] # Clear => desk[a].code # b

\* Rows with a reusable bag's code are inserted by HandPoolBag only.
LEMMA PoolRows ==
  ASSUME TypeOK, [Next]_vars, \A a \in Admins : ~HandPoolBag(a), NEW b \in Pool
  PROVE  WithCode(b)' = WithCode(b)
<1>0. StepOK /\ BagsStep /\ bags \in Seq(CheckBag)
  BY EveryStep DEF StepOK, TypeOK, RowsOK
<1>1. ASSUME NEW r, r.code # b, bags' = Append(bags, r) PROVE WithCode(b)' = WithCode(b)
  BY <1>0, <1>1 DEF WithCode, Rows
<1>2. CASE bags' = bags
  BY <1>2 DEF WithCode, Rows
<1>3. ASSUME NEW i \in Rows, MarkScanned(i) PROVE WithCode(b)' = WithCode(b)
  <2>1. Rows' = Rows
    BY <1>0, <1>3 DEF MarkScanned, Rows
  <2>2. \A j \in Rows : bags'[j].code = bags[j].code
    BY <1>0, RowsKept
  <2>3. QED
    BY <2>1, <2>2 DEF WithCode
<1>4. ASSUME NEW w \in Workers, Register(w) PROVE WithCode(b)' = WithCode(b)
  <2> DEFINE r == NewRow(hand[w].check, hand[w].kind, <<hand[w].set, hand[w].kind, 1>>, hand[w].scan)
  <2>1. hand[w] \in Hand
    BY <1>4, HandShape DEF Register
  <2>2. <<hand[w].set, hand[w].kind, 1>> # b
    BY <2>1, BagsAssumption DEF Hand
  <2>3. r.code # b
    BY <2>2 DEF NewRow
  <2>4. bags' = bags \/ bags' = Append(bags, r)
    BY <1>4 DEF Register
  <2> HIDE DEF r
  <2>5. QED
    BY <1>1, <1>2, <2>3, <2>4
<1>5. ASSUME NEW a \in Admins, AddBag(a) PROVE WithCode(b)' = WithCode(b)
  <2> DEFINE r == NewRow(desk[a].check, desk[a].kind, desk[a].code, FALSE)
  <2>1. desk[a].code # b
    BY <1>5, DeskShape DEF AddBag
  <2>2. r.code # b
    BY <2>1 DEF NewRow
  <2>3. bags' = bags \/ bags' = Append(bags, r)
    BY <1>5 DEF AddBag
  <2> HIDE DEF r
  <2>4. QED
    BY <1>1, <1>2, <2>2, <2>3
<1>6. ASSUME NEW w \in Workers, WorkerStep(w) PROVE WithCode(b)' = WithCode(b)
  <2>1. CASE Register(w)
    BY <1>4, <2>1
  <2>2. CASE \E code \in Labels \cup Pool : ScanRow(w, code)
    BY <1>3, <2>2 DEF ScanRow
  <2>3. CASE \E code \in Labels : ScanLabel(w, code)
    BY <1>2, <1>3, <2>3 DEF ScanLabel
  <2>4. QED
    BY <1>2, <1>6, <2>1, <2>2, <2>3
       DEF WorkerStep, Resume, OpenOnScreen, OpenOnPhone, Save, Leave, MarkExtra, UnmarkExtra, Gate,
           GateFails, Finish, Abandon
<1>7. QED
  BY <1>2, <1>5, <1>6 DEF Next, AdminStep, CountBags, AskForPoolBag, TakePoolBag, ReleasePoolBag,
     CheckFromCli, vars

\* A bag's place in the pool changes to a check by TakePoolBag only.
LEMMA PoolMoves ==
  ASSUME TypeOK, [Next]_vars, \A a \in Admins : ~TakePoolBag(a), NEW b \in Pool
  PROVE  pool'[b] = pool[b] \/ pool'[b] = 0
<1>0. pool \in [Pool -> CheckIds \cup {0}]
  BY DEF TypeOK, PoolOK
<1>1. ASSUME NEW w \in Workers, Finish(w) PROVE pool'[b] = pool[b] \/ pool'[b] = 0
  BY <1>1 DEF Finish, Released
<1>2. ASSUME NEW q \in Pool, ReleasePoolBag(q) PROVE pool'[b] = pool[b] \/ pool'[b] = 0
  BY <1>0, <1>2 DEF ReleasePoolBag
<1>3. ASSUME NEW s \in Sets, NEW x \in BOOLEAN, CheckFromCli(s, x)
      PROVE  pool'[b] = pool[b] \/ pool'[b] = 0
  BY <1>3, CliRow DEF Released
<1>4. QED
  BY <1>1, <1>2, <1>3 DEF Next, WorkerStep, Resume, OpenOnScreen, OpenOnPhone, Save, Leave, MarkExtra,
     UnmarkExtra, Register, ScanRow, ScanLabel, Gate, GateFails, Abandon, AdminStep, CountBags,
     AddBag, AskForPoolBag, HandPoolBag, vars

\* As long as nobody hands out or takes a bag, what holds of each goes on to hold, for
\* the ones that no command was under way with.
LEMMA PoolStays ==
  ASSUME PoolInv, [Next]_vars, \A a \in Admins : ~TakePoolBag(a) /\ ~HandPoolBag(a)
  PROVE  /\ \A b \in Pool : pool'[b] # 0 /\ Idle(b) =>
              \E i \in Rows' : IsLast(i, WithCode(b))' /\ bags'[i].check = pool'[b]
         /\ \A a \in Admins, c \in CheckIds, b \in Pool :
              desk[a].step \in {"taking", "handing"} /\ desk[a].check = c /\ desk[a].code = b =>
                RowsOf(c)' \cap WithCode(b)' = {} /\ pool'[b] \in {0, c}
<1>0. TypeOK /\ StepOK /\ BagsStep
  BY EveryStep DEF PoolInv, StepOK
<1>1. \A b \in Pool : WithCode(b)' = WithCode(b) /\ (pool'[b] = pool[b] \/ pool'[b] = 0)
  BY <1>0, PoolRows, PoolMoves
<1>2. Rows \subseteq Rows' /\ \A i \in Rows : bags'[i].check = bags[i].check
  BY <1>0, RowsKept
<1>3. ASSUME NEW b \in Pool, pool'[b] # 0, Idle(b)
      PROVE  \E i \in Rows' : IsLast(i, WithCode(b))' /\ bags'[i].check = pool'[b]
  <2>1. PICK i \in Rows : IsLast(i, WithCode(b)) /\ bags[i].check = pool[b]
    BY <1>1, <1>3 DEF PoolInv, PoolBagsScanWhereTheyAre, Idle
  <2>2. IsLast(i, WithCode(b))'
    BY <1>1, <2>1 DEF IsLast
  <2>3. QED
    BY <1>1, <1>2, <1>3, <2>1, <2>2
<1>4. ASSUME NEW a \in Admins, NEW c \in CheckIds, NEW b \in Pool,
             desk[a].step \in {"taking", "handing"}, desk[a].check = c, desk[a].code = b
      PROVE  RowsOf(c)' \cap WithCode(b)' = {} /\ pool'[b] \in {0, c}
  <2>1. RowsOf(c) \cap WithCode(b) = {} /\ pool[b] \in {0, c}
    BY <1>4 DEF PoolInv, TakingOK
  <2>2. WithCode(b)' = WithCode(b) /\ WithCode(b) \subseteq Rows
    BY <1>1 DEF WithCode
  <2>3. RowsOf(c)' \cap WithCode(b)' = {}
    BY <1>2, <2>1, <2>2 DEF RowsOf
  <2>4. QED
    BY <1>1, <2>1, <2>3
<1>5. QED
  BY <1>3, <1>4

\* The command is through: its row is the newest with that code.
LEMMA HandKeepsPool ==
  ASSUME PoolInv, \A a, d \in Admins : a = d, NEW a \in Admins, HandPoolBag(a)
  PROVE  PoolInv'
<1>0. TypeOK /\ StepOK /\ BagsStep /\ bags \in Seq(CheckBag) /\ Len(bags) \in Nat
  <2>1. [Next]_vars
    BY DEF Next, AdminStep
  <2>2. QED
    BY <2>1, EveryStep DEF PoolInv, StepOK, TypeOK, RowsOK
<1>1. /\ desk[a].step = "handing" /\ desk[a] \in Desk /\ desk[a].code \in Pool
  BY <1>0, DeskShape DEF HandPoolBag
<1>2. PICK b \in Pool, c \in CheckIds, k \in BagKinds : b = desk[a].code /\ c = desk[a].check /\ k = desk[a].kind
  BY <1>1 DEF Desk
<1>3. RowsOf(c) \cap WithCode(b) = {} /\ pool[b] \in {0, c}
  BY <1>1, <1>2 DEF PoolInv, TakingOK
<1>4. ~Clashes(c, k, b)
  <2>1. SUFFICES ASSUME NEW i \in Rows, bags[i].check = c, LabelOf(bags[i].code) = LabelOf(b) PROVE FALSE
    BY DEF Clashes, OfKind, RowsOf
  <2>0. bags[i] \in CheckBag
    BY <1>0 DEF Rows
  <2>2. bags[i].code \in BagCode \cup Pool /\ LabelOf(b) = b
    BY <2>0 DEF CheckBag, LabelOf
  <2>3. bags[i].code \notin Pool
    BY <1>3, <2>1, <2>2 DEF LabelOf, RowsOf, WithCode
  <2>4. LabelOf(bags[i].code) \in Nat
    BY <2>2, <2>3 DEF LabelOf, BagCode
  <2>5. QED
    BY <2>1, <2>2, <2>4, BagsAssumption
<1>n. NewRow(c, k, b, FALSE) \in CheckBag /\ NewRow(c, k, b, FALSE).check = c /\ NewRow(c, k, b, FALSE).code = b
  BY DEF NewRow, CheckBag
<1>5. PICK r \in CheckBag : r = NewRow(c, k, b, FALSE) /\ r.check = c /\ r.code = b
  BY <1>n
<1>6. bags' = Append(bags, r) /\ desk' = [desk EXCEPT ![a] = Clear] /\ pool' = pool
  BY <1>2, <1>4, <1>5 DEF HandPoolBag
<1>7. /\ Rows' = Rows \cup {Len(bags) + 1} /\ bags'[Len(bags) + 1] = r
      /\ \A i \in Rows : bags'[i] = bags[i] /\ i < Len(bags) + 1
  BY <1>0, <1>6 DEF Rows
<1>8. \A d \in Admins : d = a /\ desk'[d] = Clear
  BY <1>0, <1>6 DEF TypeOK, DeskOK
<1>9. TakingOK'
  BY <1>8 DEF TakingOK, Clear
<1>10. ASSUME NEW q \in Pool, pool'[q] # 0
       PROVE  \E i \in Rows' : IsLast(i, WithCode(q))' /\ bags'[i].check = pool'[q]
  <2>1. CASE q = b
    <3>0. \A j \in Rows' : j <= Len(bags) + 1
      BY <1>0, <1>7 DEF Rows
    <3>1. /\ Len(bags) + 1 \in WithCode(b)'
          /\ \A j \in WithCode(b)' : j <= Len(bags) + 1
      BY <1>5, <1>7, <3>0 DEF WithCode
    <3>2. bags'[Len(bags) + 1].check = pool'[b]
      BY <1>3, <1>5, <1>6, <1>7, <1>10, <2>1
    <3>3. QED
      BY <1>7, <2>1, <3>1, <3>2 DEF IsLast
  <2>2. CASE q # b
    <3>1. Idle(q)
      BY <1>2, <1>8, <2>2 DEF Idle
    <3>2. PICK i \in Rows : IsLast(i, WithCode(q)) /\ bags[i].check = pool[q]
      BY <1>6, <1>10, <3>1 DEF PoolInv, PoolBagsScanWhereTheyAre, Idle
    <3>3. WithCode(q)' = WithCode(q)
      BY <1>5, <1>7, <2>2 DEF WithCode
    <3>4. QED
      BY <1>6, <1>7, <3>2, <3>3 DEF IsLast
  <2>3. QED
    BY <2>1, <2>2
<1>11. QED
  BY <1>0, <1>9, <1>10 DEF PoolInv, StepOK, PoolBagsScanWhereTheyAre

\* The pool row is updated: to the check it was asked for.
LEMMA TakeKeepsPool ==
  ASSUME PoolInv, \A a, d \in Admins : a = d, NEW a \in Admins, TakePoolBag(a)
  PROVE  PoolInv'
<1>0. TypeOK /\ StepOK
  <2>1. [Next]_vars
    BY DEF Next, AdminStep
  <2>2. QED
    BY <2>1, EveryStep DEF PoolInv, StepOK
<1>1. /\ desk[a].step = "taking" /\ desk[a] \in Desk /\ desk[a].code \in Pool /\ desk[a] # Clear
  BY <1>0, DeskShape DEF TakePoolBag
<1>2. PICK b \in Pool, c \in CheckIds : b = desk[a].code /\ c = desk[a].check
  BY <1>1 DEF Desk
<1>3. /\ pool' = [pool EXCEPT ![b] = c] /\ bags' = bags /\ pool \in [Pool -> CheckIds \cup {0}]
      /\ desk' = [desk EXCEPT ![a] = [desk[a] EXCEPT !.step = "handing"]]
  BY <1>0, <1>2 DEF TakePoolBag, TypeOK, PoolOK
<1>4. \A d \in Admins : d = a /\ desk'[d].code = b /\ desk'[d].check = c /\ desk'[d] # Clear
  <2>1. PICK x : x = [desk[a] EXCEPT !.step = "handing"]
    OBVIOUS
  <2>2. x.code = b /\ x.check = c /\ x.step = "handing"
    BY <1>1, <1>2, <2>1 DEF Desk
  <2>3. x # Clear
    BY <2>2 DEF Clear
  <2>4. QED
    BY <1>0, <1>3, <2>1, <2>2, <2>3 DEF TypeOK, DeskOK
<1>5. \A q : WithCode(q)' = WithCode(q) /\ RowsOf(q)' = RowsOf(q)
  BY <1>3 DEF WithCode, RowsOf, Rows
<1>6. RowsOf(c) \cap WithCode(b) = {}
  BY <1>1, <1>2 DEF PoolInv, TakingOK
<1>7. TakingOK'
  <2>1. RowsOf(c)' \cap WithCode(b)' = {} /\ pool'[b] = c
    BY <1>3, <1>5, <1>6
  <2>2. QED
    BY <1>4, <2>1 DEF TakingOK, RowsOf, WithCode
<1>8. ASSUME NEW q \in Pool, pool'[q] # 0, q # b
      PROVE  \E i \in Rows' : IsLast(i, WithCode(q))' /\ bags'[i].check = pool'[q]
  <2>1. Idle(q)
    BY <1>2, <1>4, <1>8 DEF Idle
  <2>2. PICK i \in Rows : IsLast(i, WithCode(q)) /\ bags[i].check = pool[q]
    BY <1>3, <1>8, <2>1 DEF PoolInv, PoolBagsScanWhereTheyAre, Idle
  <2>3. QED
    BY <1>3, <1>5, <1>8, <2>2 DEF IsLast, Rows
<1>9. QED
  BY <1>0, <1>4, <1>7, <1>8 DEF PoolInv, StepOK, PoolBagsScanWhereTheyAre

\* A command begins only with a bag that is where the pool says, or with nothing.
LEMMA DeskKeepsPool ==
  ASSUME PoolInv, \A a, d \in Admins : a = d, [Next]_vars,
         \A a \in Admins : ~TakePoolBag(a) /\ ~HandPoolBag(a)
  PROVE  PoolInv'
<1>0. TypeOK /\ StepOK
  BY EveryStep DEF PoolInv, StepOK
<1>1. \A b \in Pool : pool'[b] # 0 /\ Idle(b) =>
        \E i \in Rows' : IsLast(i, WithCode(b))' /\ bags'[i].check = pool'[b]
  BY PoolStays
<1>2. CASE desk' = desk
  <2>1. \A b \in Pool : Idle(b)' => Idle(b)
    BY <1>2 DEF Idle
  <2>2. PoolBagsScanWhereTheyAre'
    BY <1>1, <2>1 DEF PoolBagsScanWhereTheyAre, Idle
  <2>3. TakingOK'
    <3>1. SUFFICES ASSUME NEW a \in Admins, desk[a].step \in {"taking", "handing"}
                   PROVE  (/\ RowsOf(desk[a].check) \cap WithCode(desk[a].code) = {}
                           /\ pool[desk[a].code] \in {0, desk[a].check})'
      BY <1>2 DEF TakingOK
    <3>2. PICK b \in Pool, c \in CheckIds : b = desk[a].code /\ c = desk[a].check
      BY <1>0, <3>1, DeskShape DEF Desk
    <3>3. RowsOf(c)' \cap WithCode(b)' = {} /\ pool'[b] \in {0, c}
      BY <3>1, <3>2, PoolStays
    <3>4. QED
      BY <1>2, <3>2, <3>3 DEF RowsOf, WithCode
  <2>4. QED
    BY <1>0, <2>2, <2>3 DEF PoolInv, StepOK
<1>3. ASSUME NEW a \in Admins, NEW s \in Sets, NEW q \in Pool, AskForPoolBag(a, s, q) PROVE PoolInv'
  <2>1. PICK c \in CheckIds :
          /\ pool[q] \in {0, c} /\ RowsOf(c) \cap WithCode(q) = {}
          /\ desk' = [desk EXCEPT ![a] = [step |-> "taking", check |-> c, kind |-> PoolKind[q], code |-> q]]
    BY <1>3 DEF AskForPoolBag
  <2>2. bags' = bags /\ pool' = pool /\ desk[a] = Clear
    BY <1>3 DEF AskForPoolBag
  <2>3. \A d \in Admins : d = a /\ desk[d] = Clear /\ desk'[d].check = c /\ desk'[d].code = q
    BY <1>0, <2>1, <2>2 DEF TypeOK, DeskOK
  <2>4. \A b \in Pool : Idle(b)
    BY <2>3 DEF Idle
  <2>5. PoolBagsScanWhereTheyAre'
    BY <1>1, <2>4 DEF PoolBagsScanWhereTheyAre
  <2>6. TakingOK'
    <3>1. RowsOf(c)' \cap WithCode(q)' = {} /\ pool'[q] \in {0, c}
      BY <2>1, <2>2 DEF RowsOf, WithCode, Rows
    <3>2. QED
      BY <2>3, <3>1 DEF TakingOK, RowsOf, WithCode
  <2>7. QED
    BY <1>0, <2>5, <2>6 DEF PoolInv, StepOK
<1>4. ASSUME NEW a \in Admins,
             AddBag(a) \/ \E s \in Sets, k \in BagKinds : CountBags(a, s, k)
      PROVE  PoolInv'
  <2>d. desk \in [Admins -> Desk \cup {Clear}]
    BY <1>0 DEF TypeOK, DeskOK
  <2>a. ASSUME AddBag(a) PROVE desk'[a].step \notin {"taking", "handing"}
    BY <2>d, <2>a DEF AddBag, Clear
  <2>c. ASSUME \E s \in Sets, k \in BagKinds : CountBags(a, s, k)
        PROVE  desk'[a].step \notin {"taking", "handing"}
    <3>1. PICK s \in Sets, k \in BagKinds : CountBags(a, s, k)
      BY <2>c
    <3>2. PICK x : x.step = "adding" /\ desk' = [desk EXCEPT ![a] = x]
      BY <3>1 DEF CountBags
    <3>3. QED
      BY <2>d, <3>2
  <2>1. \A d \in Admins : d = a /\ desk'[d].step \notin {"taking", "handing"}
    BY <1>4, <2>a, <2>c
  <2>2. TakingOK'
    BY <2>1 DEF TakingOK
  <2>3. \A b \in Pool : Idle(b)
    <3>1. desk[a] = Clear \/ (desk[a].step = "adding" /\ desk[a].code \notin Pool)
      BY <1>0, <1>4, DeskShape DEF AddBag, CountBags
    <3>2. QED
      BY <2>1, <3>1 DEF Idle
  <2>4. PoolBagsScanWhereTheyAre'
    BY <1>1, <2>3 DEF PoolBagsScanWhereTheyAre
  <2>5. QED
    BY <1>0, <2>2, <2>4 DEF PoolInv, StepOK
<1>5. ASSUME NEW w \in Workers, WorkerStep(w) PROVE desk' = desk
  BY <1>5 DEF WorkerStep, Resume, OpenOnScreen, OpenOnPhone, Save, Leave, MarkExtra,
     UnmarkExtra, Register, ScanRow, ScanLabel, Gate, GateFails, Finish, Abandon
<1>6. QED
  BY <1>2, <1>3, <1>4, <1>5 DEF Next, AdminStep, ReleasePoolBag, CheckFromCli, vars

\* With one administrator at a time, a reusable bag is scannable on the check the pool
\* says has it, whoever finishes, abandons or recounts checks while it is handed out.
\* (With two it is not: the second update wins, and the first check keeps a row.)
THEOREM PoolBagsAreFound ==
  ASSUME \A a, d \in Admins : a = d PROVE Spec => []PoolBagsScanWhereTheyAre
<1>1. Init => PoolInv
  BY InitTypeOK DEF Init, PoolInv, TakingOK, PoolBagsScanWhereTheyAre, Clear
<1>2. PoolInv /\ [Next]_vars => PoolInv'
  BY HandKeepsPool, TakeKeepsPool, DeskKeepsPool
<1>3. PoolInv => PoolBagsScanWhereTheyAre
  BY DEF PoolInv
<1>4. QED
  BY <1>1, <1>2, <1>3, PTL DEF Spec
=============================================================================
