------------------------------ MODULE SetChecks ------------------------------
(***************************************************************************)
(* Parts checks of LEGO sets and the loose-parts stock they draw on and    *)
(* feed (internal/lego/setcheck.go, driven by internal/uiapp/set_check.go, *)
(* internal/mobileapi/{check_walk,finish}.go and cmd/wms/lego_sets.go).    *)
(*                                                                         *)
(* The database is one SQLite file shared by every process.  Each TUI      *)
(* session, CLI call or phone request works on a private copy of a check   *)
(* (a *SetCheck) that it opened earlier, so between any two steps of one   *)
(* session the others may finish, rewrite or delete the same row.  One     *)
(* action is one transaction (or one change to a private copy); SQLite's   *)
(* isolation makes a transaction atomic.                                   *)
(*                                                                         *)
(* Counts that the code keeps as a sum over a check's lines (missing_qty)  *)
(* are kept here as the function of their summands, part by part: two      *)
(* different shortfalls never compare equal because their sums agree.      *)
(***************************************************************************)
EXTENDS Integers, FiniteSets, FiniteSetsExt

CONSTANTS
  Sessions,     \* whoever works on checks: a TUI session, a phone, a CLI call
  Screens,      \* ... those that are TUI sessions
  Phones,       \* ... and those that are phones, one request after another
  Sets,         \* set numbers
  Parts,        \* (part number, colour) pairs
  Need,         \* Need[s][p]: how many of p the catalogue says s has
  Optional,     \* the parts IsOptional answers true for (stickers, ...)
  Gated,        \* the sets whose bag-scan gate is on (BagGatingOn)
  Assigned,     \* Assigned[ss]: the sets session ss may open (its tickets)
  Faults,       \* whether a database write may fail (busy, disk full)
  PartDB,       \* whether a Part-DB token is set: finished sets are pushed there
  InitialLoose, \* owned_parts.qty before the first check
  MaxChecks,    \* bound: rows ever inserted in set_checks
  MaxHave,      \* bound: the largest "have" count a client enters
  MaxExtra,     \* bound: the largest "extra" count a client enters
  MaxTake,      \* bound: the largest quantity taken from spares at once
  MaxLoose      \* bound: the largest quantity of one loose part

Kinds == {"intake", "recount"}
CheckIds == 1 .. MaxChecks

ASSUME ConstantsAssumption ==
  /\ Parts # {}
  /\ Screens \subseteq Sessions /\ Phones \subseteq Sessions \ Screens
  /\ Need \in [Sets -> [Parts -> Nat]]
  /\ Optional \subseteq Parts
  /\ Gated \subseteq Sets
  /\ Assigned \in [Sessions -> SUBSET Sets]
  /\ Faults \in BOOLEAN /\ PartDB \in BOOLEAN
  /\ InitialLoose \in [Parts -> Nat]
  /\ MaxChecks \in Nat /\ MaxHave \in Nat /\ MaxExtra \in Nat
  /\ MaxTake \in Nat /\ MaxLoose \in Nat

Line == [have : Nat, extra : Nat]
Row == [status : {"draft", "done"}, set : Sets, kind : Kinds]
NoRow == [status |-> "none"]
NoLines == << >>  \* no row of set_check_lines
SetState == [last : Nat, missing : [Parts -> Nat]]
Copy == [step : {"saving", "marking", "pushing"}, id : Nat, set : Sets, kind : Kinds,
         status : {"draft", "done"}, lines : [Parts -> Line]]
NoCopy == [step |-> "closed"]

VARIABLES
  checks,    \* the set_checks table: id -> row or NoRow
  lines,     \* the set_check_lines table: id -> the check's lines or NoLines
  nextId,    \* set_checks' AUTOINCREMENT counter
  setState,  \* set_state: last_check_id (0: never checked) and missing_qty
  loose,     \* owned_parts.qty
  minQty,    \* owned_parts.min_qty, the low-stock threshold (0: not tracked)
  origins,   \* part_origins: part -> set it came from -> quantity
  copy,      \* the check each session holds in memory
  banked     \* history: how often a check's extras went into stock (0, 1, 2+)

vars == <<checks, lines, nextId, setState, loose, minQty, origins, copy, banked>>
tables == <<checks, lines, nextId, setState, loose, minQty, origins, banked>>

-----------------------------------------------------------------------------
(* Line arithmetic *)

PartsOf(s) == {p \in Parts : Need[s][p] > 0}

Least(m, n) == IF m <= n THEN m ELSE n

\* max(need - have, 0) of one line, whatever the part is.
Gap(s, ls, p) == IF ls[p].have < Need[s][p] THEN Need[s][p] - ls[p].have ELSE 0

\* CheckLine.Missing for every line: an optional part is never missing.
Missing(s, ls) == [p \in Parts |-> IF p \in Optional THEN 0 ELSE Gap(s, ls, p)]

\* What refreshMissing adds up in SQL: every line's gap.
Shortfall(s, ls) == [p \in Parts |-> Gap(s, ls, p)]

FullLines(s) == [p \in Parts |-> [have |-> Need[s][p], extra |-> 0]]

-----------------------------------------------------------------------------
(* Queries *)

\* Mutant: the draft lookup forgets its status condition.
DraftsOfAnyStatus(s, k) ==
  {id \in CheckIds : checks[id].status # "none" /\ checks[id].set = s /\ checks[id].kind = k}

Drafts(s, k) ==
  {id \in CheckIds : checks[id].status = "draft" /\ checks[id].set = s /\ checks[id].kind = k}

DoneChecks(s) == {id \in CheckIds : checks[id].status = "done" /\ checks[id].set = s}

\* ORDER BY id DESC LIMIT 1
IsNewest(id, ids) == id \in ids /\ \A other \in ids : other <= id

SumOver(f, S) == MapThenSumSet(LAMBDA x : f[x], S)

\* The part_origins rows takeLoose may leave behind: qty is taken from the
\* other sets' tags, the largest tag first; the receiving set's own is kept.
OriginsAfterTake(p, qty, to) ==
  LET old == origins[p]
      others == Sets \ {to}
  IN {tags \in [Sets -> 0 .. MaxLoose] :
        /\ tags[to] = old[to]
        /\ \A s \in others : tags[s] <= old[s]
        /\ \A s, t \in others : (old[s] > old[t] /\ tags[t] < old[t]) => tags[s] = 0
        /\ \A s, t \in others : s # t => (tags[s] \in {0, old[s]} \/ tags[t] \in {0, old[t]})
        /\ SumOver([s \in others |-> old[s] - tags[s]], others) = Least(qty, SumOver(old, others))}

-----------------------------------------------------------------------------
Init ==
  /\ checks = [id \in CheckIds |-> NoRow]
  /\ lines = [id \in CheckIds |-> NoLines]
  /\ nextId = 1
  /\ setState = [s \in Sets |-> [last |-> 0, missing |-> [p \in Parts |-> 0]]]
  /\ loose = InitialLoose
  /\ minQty = [p \in Parts |-> 0]
  /\ origins = [p \in Parts |-> [s \in Sets |-> 0]]
  /\ copy = [ss \in Sessions |-> NoCopy]
  /\ banked = [id \in CheckIds |-> 0]

-----------------------------------------------------------------------------
(* Opening a check: NewCheck.  A fresh check has id 0 and is in memory only; *)
(* for a gated set a TUI session saves it at once, as a second step.         *)

NewCopy(ss, id, s, k, ls) ==
  [step |-> IF ss \in Screens /\ id = 0 /\ s \in Gated THEN "saving" ELSE "marking",
   id |-> id, set |-> s, kind |-> k, status |-> "draft", lines |-> ls]

\* An unfinished draft of this set and kind exists: the newest is resumed.
ResumeDraft(ss, s, k) ==
  /\ copy[ss] = NoCopy
  /\ s \in Assigned[ss]
  /\ \E id \in CheckIds :
       /\ IsNewest(id, Drafts(s, k))
       /\ copy' = [copy EXCEPT ![ss] = NewCopy(ss, id, s, k, lines[id])]
  /\ UNCHANGED tables

\* A recount starts from the last finished check, its extras cleared.
StartRecount(ss, s) ==
  /\ copy[ss] = NoCopy
  /\ s \in Assigned[ss]
  /\ Drafts(s, "recount") = {}
  /\ \E id \in CheckIds :
       /\ IsNewest(id, DoneChecks(s))
       /\ copy' = [copy EXCEPT ![ss] =
                     NewCopy(ss, 0, s, "recount",
                             [p \in Parts |-> [lines[id][p] EXCEPT !.extra = 0]])]
  /\ UNCHANGED tables

\* Mutant: a new check is started without looking for a draft.
StartAnyway(ss, s, k) ==
  /\ copy[ss] = NoCopy
  /\ s \in Assigned[ss]
  /\ k = "recount" => DoneChecks(s) = {}
  /\ PartsOf(s) # {}
  /\ copy' = [copy EXCEPT ![ss] = NewCopy(ss, 0, s, k, FullLines(s))]
  /\ UNCHANGED tables

\* Otherwise every line of the set's inventory starts at "have all".
StartFromInventory(ss, s, k) ==
  /\ copy[ss] = NoCopy
  /\ s \in Assigned[ss]
  /\ Drafts(s, k) = {}
  /\ k = "recount" => DoneChecks(s) = {}
  /\ PartsOf(s) # {}
  /\ copy' = [copy EXCEPT ![ss] = NewCopy(ss, 0, s, k, FullLines(s))]
  /\ UNCHANGED tables

-----------------------------------------------------------------------------
(* Working on the private copy *)

\* A finished check stays on its screen, and takes keys, until its set is in
\* Part-DB.
OnScreen(ss) == copy[ss].step \in {"marking", "pushing"}

\* A key, an undo, a scan, a phone's confirm or a CLI flag: one line's counts change.
Mark(ss, p, h, x) ==
  /\ OnScreen(ss)
  /\ p \in PartsOf(copy[ss].set)
  /\ copy' = [copy EXCEPT ![ss].lines[p] = [have |-> h, extra |-> x]]
  /\ UNCHANGED tables

\* The first extra counted in a check with no row yet: its bag must belong to a
\* row, so the check is saved next (ensureCheckSaved).
MarkFirstExtra(ss, p, x) ==
  /\ ss \in Screens
  /\ copy[ss].step = "marking"
  /\ copy[ss].id = 0
  /\ p \in PartsOf(copy[ss].set)
  /\ copy' = [copy EXCEPT ![ss].lines[p].extra = x, ![ss].step = "saving"]
  /\ UNCHANGED tables

\* Mutant: the stock is not looked at.
TakeLooseUnchecked(p, qty, to) ==
  /\ loose' = [loose EXCEPT ![p] = @ - qty]
  /\ \E tags \in OriginsAfterTake(p, qty, to) : origins' = [origins EXCEPT ![p] = tags]

\* takeLoose: the loose count and other sets' origin tags drop; short stock refuses.
TakeLoose(p, qty, to) ==
  /\ qty <= loose[p]
  /\ loose' = [loose EXCEPT ![p] = @ - qty]
  /\ \E tags \in OriginsAfterTake(p, qty, to) : origins' = [origins EXCEPT ![p] = tags]

\* The T key: spares for a short line of an open check.  Stock drops at once,
\* the copy gains them, and nothing of the check is saved.
TakeIntoCheck(ss, p, n) ==
  LET c == copy[ss]
      gap == Missing(c.set, c.lines)[p]
      have == c.lines[p].have
  IN /\ ss \in Screens
     /\ c.step = "marking"
     /\ c.id = 0 \/ c.status # "done"
     /\ p \in PartsOf(c.set) /\ gap > 0
     /\ TakeLoose(p, Least(n, gap), c.set)
     /\ copy' = [copy EXCEPT ![ss].lines[p].have = Least(Need[c.set][p], have + n)]
     /\ UNCHANGED <<checks, lines, nextId, setState, minQty, banked>>

\* Q, a hang-up, a crash, the end of a phone request, or of a push (which closes
\* the check on the screen, be it another by then): the copy is gone.
Leave(ss) ==
  /\ copy[ss] # NoCopy
  /\ copy' = [copy EXCEPT ![ss] = NoCopy]
  /\ UNCHANGED tables

-----------------------------------------------------------------------------
(* Saving: saveCheck.  Only a copy with id 0 inserts a row.  Any other one    *)
(* updates the row it was loaded from, whatever that row has become: a row    *)
(* deleted since is not recreated, but its lines are written all the same.    *)

SavedId(c) == IF c.id = 0 THEN nextId ELSE c.id

\* Mutant: the UPDATE leaves the status column out.
SavedRowOldStatus(c, status, old) ==
  IF c.id = 0 THEN [status |-> status, set |-> c.set, kind |-> c.kind] ELSE old

SavedRow(c, status, old) ==
  IF c.id = 0 THEN [status |-> status, set |-> c.set, kind |-> c.kind]
  ELSE IF old.status = "none" THEN old
  ELSE [old EXCEPT !.status = status]

WriteCheck(c, status) ==
  /\ SavedId(c) \in CheckIds
  /\ nextId' = IF c.id = 0 THEN nextId + 1 ELSE nextId
  /\ checks' = [checks EXCEPT ![SavedId(c)] = SavedRow(c, status, @)]
  /\ lines' = [lines EXCEPT ![SavedId(c)] = c.lines]

\* startCheck on a gated set and ensureCheckSaved after a first extra: the row
\* is due.  A bag scan (B) and a phone's finish on a gated set make sure of one.
RowWanted(c) == c.step = "saving" \/ (c.step = "marking" /\ c.id = 0 /\ c.set \in Gated)

\* Mutant: the id of the new row does not reach the copy.
EagerSaveIdLost(ss) ==
  LET c == copy[ss]
  IN /\ ss \in Screens \cup Phones
     /\ RowWanted(c)
     /\ WriteCheck(c, c.status)
     /\ copy' = [copy EXCEPT ![ss].step = "marking"]
     /\ UNCHANGED <<setState, loose, minQty, origins, banked>>

\* A new check gets its row while the session goes on working on it.
EagerSave(ss) ==
  LET c == copy[ss]
  IN /\ ss \in Screens \cup Phones
     /\ RowWanted(c)
     /\ WriteCheck(c, c.status)
     /\ copy' = [copy EXCEPT ![ss].id = SavedId(c), ![ss].step = "marking"]
     /\ UNCHANGED <<setState, loose, minQty, origins, banked>>

\* The S key or a phone's confirm: SaveCheck, and the copy is dropped.
SaveForLater(ss) ==
  LET c == copy[ss]
  IN /\ OnScreen(ss)
     /\ WriteCheck(c, c.status)
     /\ copy' = [copy EXCEPT ![ss] = NoCopy]
     /\ UNCHANGED <<setState, loose, minQty, origins, banked>>

\* The id a copy is left with when its save was rolled back: LastInsertId is
\* stored in the copy before the commit.
IdsAfterRollback(c) == IF c.id = 0 THEN {0, nextId} ELSE {c.id}

\* SaveCheck failed: nothing is stored.  A TUI session carries on with its copy
\* (a phone's request or a CLI call ends with an error: that is Leave).
SaveFails(ss) ==
  /\ Faults
  /\ ss \in Screens
  /\ copy[ss] # NoCopy
  /\ \E id \in IdsAfterRollback(copy[ss]) :
       copy' = [copy EXCEPT ![ss].id = id,
                            ![ss].step = IF @ = "saving" THEN "marking" ELSE @]
  /\ UNCHANGED tables

-----------------------------------------------------------------------------
(* Finishing: FinishCheck, one transaction *)

\* Mutant: a single missing piece is overlooked.
TrackedFromTwo(missing) ==
  [p \in Parts |-> IF missing[p] > 1 /\ minQty[p] = 0 THEN missing[p] ELSE minQty[p]]

\* autoTrackMissing: a missing part with no threshold yet gets its shortfall.
Tracked(missing) ==
  [p \in Parts |-> IF missing[p] > 0 /\ minQty[p] = 0 THEN missing[p] ELSE minQty[p]]

\* Mutant: the check that is pushed still says it is a draft.
AfterFinishStillDraft(ss, c, id) ==
  IF PartDB /\ ss \in Screens THEN [c EXCEPT !.step = "pushing", !.id = id] ELSE NoCopy

\* What the session is left with: the check it pushes to Part-DB, or nothing.
AfterFinish(ss, c, id) ==
  IF PartDB /\ ss \in Screens
  THEN [c EXCEPT !.step = "pushing", !.status = "done", !.id = id]
  ELSE NoCopy

Finish(ss) ==
  LET c == copy[ss]
      id == SavedId(c)
      missing == Missing(c.set, c.lines)
  IN /\ c.step = "marking"
     /\ (ss \in Phones /\ c.set \in Gated) => c.id # 0
     /\ \A p \in Parts : /\ loose[p] + c.lines[p].extra <= MaxLoose
                         /\ origins[p][c.set] + c.lines[p].extra <= MaxLoose
     /\ WriteCheck(c, "done")
     /\ setState' = [setState EXCEPT ![c.set] = [last |-> id, missing |-> missing]]
     /\ loose' = [p \in Parts |-> loose[p] + c.lines[p].extra]
     /\ origins' = [p \in Parts |-> [origins[p] EXCEPT ![c.set] = @ + c.lines[p].extra]]
     /\ minQty' = Tracked(missing)
     /\ banked' = [banked EXCEPT ![id] = Least(2, @ + 1)]
     /\ copy' = [copy EXCEPT ![ss] = AfterFinish(ss, c, id)]

\* FinishCheck failed: the transaction is rolled back, but the copy was marked
\* done before it began, and a TUI session goes on with it.
FinishFails(ss) ==
  /\ Faults
  /\ ss \in Screens
  /\ copy[ss].step = "marking"
  /\ \E id \in IdsAfterRollback(copy[ss]) :
       copy' = [copy EXCEPT ![ss].id = id, ![ss].status = "done"]
  /\ UNCHANGED tables

\* Mutant: the draft's row goes, its lines stay.
AbandonRowOnly(ss) ==
  LET c == copy[ss]
      deleted == c.id \in CheckIds /\ checks[c.id].status = "draft"
  IN /\ ss \in Screens
     /\ c.step = "marking"
     /\ checks' = IF deleted THEN [checks EXCEPT ![c.id] = NoRow] ELSE checks
     /\ copy' = [copy EXCEPT ![ss] = NoCopy]
     /\ UNCHANGED <<lines, nextId, setState, loose, minQty, origins, banked>>

\* finishAbandon: DeleteDraftCheck on the open check.  A row that is gone or
\* already finished is refused, and the refusal is ignored.
Abandon(ss) ==
  LET c == copy[ss]
      deleted == c.id \in CheckIds /\ checks[c.id].status = "draft"
  IN /\ ss \in Screens
     /\ c.step = "marking"
     /\ checks' = IF deleted THEN [checks EXCEPT ![c.id] = NoRow] ELSE checks
     /\ lines' = IF deleted THEN [lines EXCEPT ![c.id] = NoLines] ELSE lines
     /\ copy' = [copy EXCEPT ![ss] = NoCopy]
     /\ UNCHANGED <<nextId, setState, loose, minQty, origins, banked>>

-----------------------------------------------------------------------------
(* Moving spares into a set that has been checked: TakeSpare *)

\* have = MIN(need, have + qty) on one line of a check.
Credit(s, ls, p, qty) == [ls EXCEPT ![p].have = Least(Need[s][p], @ + qty)]

\* Mutant: the missing count is not refreshed.
TakeSpareStale(s, p, qty) ==
  LET id == setState[s].last
  IN /\ id \in CheckIds /\ lines[id] # NoLines
     /\ p \in PartsOf(s)
     /\ TakeLoose(p, qty, s)
     /\ lines' = [lines EXCEPT ![id] = Credit(s, @, p, qty)]
     /\ UNCHANGED <<checks, nextId, setState, minQty, copy, banked>>

TakeSpare(s, p, qty) ==
  LET id == setState[s].last
  IN /\ id \in CheckIds /\ lines[id] # NoLines
     /\ p \in PartsOf(s)
     /\ TakeLoose(p, qty, s)
     /\ lines' = [lines EXCEPT ![id] = Credit(s, @, p, qty)]
     /\ setState' = [setState EXCEPT ![s].missing = Shortfall(s, lines'[id])]
     /\ UNCHANGED <<checks, nextId, minQty, copy, banked>>

-----------------------------------------------------------------------------
SessionStep(ss) ==
  \/ \E s \in Sets, k \in Kinds : ResumeDraft(ss, s, k)
  \/ \E s \in Sets : StartRecount(ss, s)
  \/ \E s \in Sets, k \in Kinds : StartFromInventory(ss, s, k)
  \/ \E p \in Parts, h \in 0 .. MaxHave, x \in 0 .. MaxExtra : Mark(ss, p, h, x)
  \/ \E p \in Parts, x \in 1 .. MaxExtra : MarkFirstExtra(ss, p, x)
  \/ \E p \in Parts, n \in 1 .. MaxTake : TakeIntoCheck(ss, p, n)
  \/ Leave(ss)
  \/ EagerSave(ss)
  \/ SaveForLater(ss)
  \/ SaveFails(ss)
  \/ Finish(ss)
  \/ FinishFails(ss)
  \/ Abandon(ss)

Next ==
  \/ \E ss \in Sessions : SessionStep(ss)
  \/ \E s \in Sets, p \in Parts, qty \in 1 .. MaxTake : TakeSpare(s, p, qty)

Spec == Init /\ [][Next]_vars

\* Nobody opens a set that is somebody else's job.  The code does not see to
\* it (a ticket's owner may be working on a phone and a TUI at once, and the
\* CLI opens any set); what holds only under it says so.
OneOwner ==
  \A ss1, ss2 \in Sessions : ss1 # ss2 => Assigned[ss1] \cap Assigned[ss2] = {}

-----------------------------------------------------------------------------
(* Properties *)

\* Tables and copies hold what the schema and the Go types allow; in
\* particular takeLoose never drives a loose or an origin count below zero.
TypeOK ==
  /\ checks \in [CheckIds -> Row \cup {NoRow}]
  /\ lines \in [CheckIds -> [Parts -> Line] \cup {NoLines}]
  /\ nextId \in Nat \ {0}
  /\ setState \in [Sets -> SetState]
  /\ loose \in [Parts -> Nat]
  /\ minQty \in [Parts -> Nat]
  /\ origins \in [Parts -> [Sets -> Nat]]
  /\ copy \in [Sessions -> Copy \cup {NoCopy}]
  /\ banked \in [CheckIds -> 0 .. 2]

UpToDate(ss, c) ==
  /\ c.set \in Assigned[ss]
  /\ c.step = "saving" => c.id = 0
  /\ IF c.step = "pushing"
     THEN /\ PartDB
          /\ c.status = "done" /\ c.id \in DoneChecks(c.set) /\ checks[c.id].kind = c.kind
     ELSE /\ c.status = "draft"
          /\ IF c.id = 0 THEN Drafts(c.set, c.kind) = {} ELSE c.id \in Drafts(c.set, c.kind)

\* A check open in memory still is what its session believes: a draft of its
\* set and kind that nobody finished, deleted or started a second time since it
\* was opened; or the finished check whose set the session is pushing.
CopiesAreUpToDate ==
  \A ss \in Sessions : copy[ss] # NoCopy => UpToDate(ss, copy[ss])

\* A set has at most one unfinished check of a kind: NewCheck resumes a draft
\* instead of starting a second one, so no counting work is split or lost.
OneDraftPerJob ==
  \A id1, id2 \in CheckIds :
    /\ checks[id1].status = "draft" /\ checks[id2].status = "draft"
    /\ checks[id1].set = checks[id2].set /\ checks[id1].kind = checks[id2].kind
    => id1 = id2

\* A check is recorded as done exactly when its extras went into the loose
\* stock, and they went in once: FinishCheck does both in one transaction.
BankedExactlyOnce ==
  \A id \in CheckIds : banked[id] = IF checks[id].status = "done" THEN 1 ELSE 0

\* A set's state row describes a finished check of that very set, and the
\* missing count it carries is that check's, optional parts counted or not.
MissingMatchesLastCheck ==
  \A s \in Sets :
    LET id == setState[s].last
    IN id # 0 =>
         /\ id \in CheckIds
         /\ checks[id].status = "done" /\ checks[id].set = s
         /\ \A p \in Parts :
              setState[s].missing[p] \in {Missing(s, lines[id])[p], Gap(s, lines[id], p)}

\* Every required part a set is recorded as short of has a low-stock threshold
\* ("a check's missing findings feed the low-stock alert directly").
ShortPartsAreTracked ==
  \A s \in Sets, p \in Parts \ Optional : setState[s].missing[p] > 0 => minQty[p] > 0

\* Lines are stored for the checks that have a row, and for no others.
LinesBelongToARow ==
  \A id \in CheckIds : (checks[id] = NoRow) <=> (lines[id] = NoLines)

\* A finished check is never turned back into a draft, and never deleted.
FinishedStaysFinished ==
  [][\A id \in CheckIds : checks[id].status = "done" => checks'[id].status = "done"]_vars

\* What a finished check records of a part grows only by pieces that leave the
\* loose stock in the same step: moving spares never creates parts.
FinishedCheckGrowsOnlyFromStock ==
  [][\A id \in CheckIds, p \in Parts :
       /\ checks[id].status = "done" /\ checks'[id].status = "done"
       /\ lines'[id][p].have > lines[id][p].have
       => lines'[id][p].have - lines[id][p].have <= loose[p] - loose'[p]]_vars

\* The set_checks table, the loose stock and last_check_id as CheckBook promises
\* them: nothing a session keeps in memory, and no order in which sessions save,
\* finish and abandon their copies, shows in them but as one entry at a time.
B == INSTANCE CheckBook WITH
       Ids <- CheckIds, NoCheck <- NoRow, Opening <- InitialLoose,
       book <- checks, stock <- loose, last <- [s \in Sets |-> setState[s].last]

ImplementsCheckBook == B!Spec

-----------------------------------------------------------------------------
(* Statements of the code's comments that the code does not keep *)

\* An optional line "doesn't count toward missing/completion totals".
OptionalNeverMissing ==
  \A s \in Sets, p \in Optional : setState[s].missing[p] = 0

\* "A set with anything missing is flagged INCOMPLETE everywhere": it is when its
\* last check, read now, lacks a required part.
IncompleteSetsAreFlagged ==
  \A s \in Sets :
    LET id == setState[s].last
    IN (id # 0 /\ \E p \in Parts \ Optional : Gap(s, lines[id], p) > 0)
         => \E p \in Parts : setState[s].missing[p] > 0

\* The record of a check that was finished is never deleted: abandoning
\* "refuses anything already finished, since that would erase a real result".
FinishedResultKept ==
  [][\A id \in CheckIds :
       (banked[id] > 0 /\ checks[id] # NoRow) => checks'[id] # NoRow]_vars

\* FinishCheck "completes the check in one transaction": a check recorded as
\* done has had its extras added to the loose parts.
DoneChecksWereBanked ==
  \A id \in CheckIds : checks[id].status = "done" => banked[id] > 0

\* "LastCheck is the set's most recent finished check": the done check with the
\* newest id, which recounts and orders start from, is the one whose findings the
\* set's state row holds.
LastCheckIsMostRecent ==
  \A s \in Sets, id \in CheckIds : IsNewest(id, DoneChecks(s)) => setState[s].last = id
=============================================================================
