-------------------------- MODULE SetChecks_proofs ---------------------------
(***************************************************************************)
(* Machine-checked proofs about SetChecks.                                 *)
(***************************************************************************)
EXTENDS SetChecks, TLAPS

(* Type correctness needs one fact about the tables: a check with a row has *)
(* its lines, so opening it yields a well-formed copy.                      *)
RowsHaveLines ==
  \A id \in CheckIds : checks[id].status # "none" => lines[id] \in [Parts -> Line]

TypeInv == TypeOK /\ RowsHaveLines

-----------------------------------------------------------------------------
(* Lemmas on the operators *)

\* A line's gap is a natural number.
LEMMA GapType ==
  ASSUME NEW s \in Sets, NEW ls \in [Parts -> Line], NEW p \in Parts
  PROVE  Gap(s, ls, p) \in Nat
BY ConstantsAssumption DEF Gap, Line

\* Both ways of counting what is missing yield natural numbers part by part.
LEMMA MissingType ==
  ASSUME NEW s \in Sets, NEW ls \in [Parts -> Line]
  PROVE  /\ Missing(s, ls) \in [Parts -> Nat]
         /\ Shortfall(s, ls) \in [Parts -> Nat]
BY GapType DEF Missing, Shortfall

\* Crediting a line leaves the lines of a check well formed.
LEMMA CreditType ==
  ASSUME NEW s \in Sets, NEW ls \in [Parts -> Line], NEW p \in Parts, NEW qty \in Nat
  PROVE  Credit(s, ls, p, qty) \in [Parts -> Line]
BY ConstantsAssumption DEF Credit, Least, Line

\* Crediting a line raises it or fills it; the other lines stay as they were.
LEMMA CreditRaises ==
  ASSUME NEW s \in Sets, NEW ls \in [Parts -> Line], NEW p \in Parts, NEW qty \in Nat,
         NEW r \in Parts
  PROVE  \/ ls[r].have <= Credit(s, ls, p, qty)[r].have
         \/ Need[s][r] <= Credit(s, ls, p, qty)[r].have
<1>1. /\ Need[s][r] \in Nat /\ ls[r] \in Line /\ ls[r].have \in Nat
      /\ Least(Need[s][r], ls[r].have + qty) \in Nat
  BY ConstantsAssumption DEF Line, Least
<1>2. CASE r = p
  <2>1. Credit(s, ls, p, qty)[r] = [ls[r] EXCEPT !.have = Least(Need[s][r], ls[r].have + qty)]
    BY <1>2 DEF Credit
  <2>2. Credit(s, ls, p, qty)[r].have = Least(Need[s][r], ls[r].have + qty)
    BY <1>1, <2>1 DEF Line
  <2>3. QED
    BY <1>1, <2>2 DEF Least
<1>3. CASE r # p
  BY <1>1, <1>3 DEF Credit
<1>4. QED
  BY <1>2, <1>3

\* The stock side of a transfer: counts stay natural and only p is touched.
LEMMA TakeLooseType ==
  ASSUME TypeOK, NEW p \in Parts, NEW qty \in Nat, NEW to \in Sets, TakeLoose(p, qty, to)
  PROVE  /\ loose' \in [Parts -> Nat]
         /\ origins' \in [Parts -> [Sets -> Nat]]
BY ConstantsAssumption DEF TypeOK, TakeLoose, OriginsAfterTake

\* What saveCheck writes is well formed, and every row it leaves has lines.
LEMMA WriteCheckType ==
  ASSUME TypeInv, NEW c \in Copy, NEW status \in {"draft", "done"}, WriteCheck(c, status)
  PROVE  /\ SavedId(c) \in CheckIds
         /\ checks' \in [CheckIds -> Row \cup {NoRow}]
         /\ lines' \in [CheckIds -> [Parts -> Line] \cup {NoLines}]
         /\ nextId' \in Nat \ {0}
         /\ RowsHaveLines'
<1>1. SavedId(c) \in CheckIds
  BY DEF WriteCheck
<1>2. SavedRow(c, status, checks[SavedId(c)]) \in Row \cup {NoRow}
  <2> DEFINE old == checks[SavedId(c)]
  <2>1. old \in Row \/ old = NoRow
    BY <1>1 DEF TypeInv, TypeOK
  <2>2. CASE c.id = 0
    BY <2>2 DEF SavedRow, Row, Copy
  <2>3. CASE c.id # 0 /\ old = NoRow
    BY <2>3 DEF SavedRow, NoRow
  <2>4. CASE c.id # 0 /\ old \in Row
    BY <2>4 DEF SavedRow, Row
  <2>5. QED
    BY <2>1, <2>2, <2>3, <2>4
<1>3. checks' \in [CheckIds -> Row \cup {NoRow}]
  BY <1>1, <1>2 DEF TypeInv, TypeOK, WriteCheck
<1>4. /\ lines' \in [CheckIds -> [Parts -> Line] \cup {NoLines}]
      /\ lines'[SavedId(c)] \in [Parts -> Line]
  BY <1>1 DEF TypeInv, TypeOK, WriteCheck, Copy
<1>5. nextId' \in Nat \ {0}
  BY DEF TypeInv, TypeOK, WriteCheck
<1>6. RowsHaveLines'
  BY <1>1, <1>4 DEF TypeInv, TypeOK, RowsHaveLines, WriteCheck
<1>7. QED
  BY <1>1, <1>3, <1>4, <1>5, <1>6

-----------------------------------------------------------------------------
(* Type correctness *)

\* Every step of every session keeps the types, one case per action.
LEMMA TypeInvStep == ASSUME TypeInv, [Next]_vars PROVE TypeInv'
<1>1. ASSUME NEW ss \in Sessions, NEW s \in Sets, NEW k \in Kinds, ResumeDraft(ss, s, k)
      PROVE  TypeInv'
  <2>1. PICK id \in CheckIds : /\ IsNewest(id, Drafts(s, k))
                               /\ copy' = [copy EXCEPT ![ss] = NewCopy(ss, id, s, k, lines[id])]
    BY <1>1 DEF ResumeDraft
  <2>2. lines[id] \in [Parts -> Line]
    BY <2>1 DEF IsNewest, Drafts, TypeInv, RowsHaveLines
  <2>3. NewCopy(ss, id, s, k, lines[id]) \in Copy
    BY <2>2 DEF NewCopy, Copy, CheckIds
  <2>4. QED
    BY <1>1, <2>1, <2>3 DEF ResumeDraft, tables, TypeInv, TypeOK, RowsHaveLines
<1>2. ASSUME NEW ss \in Sessions, NEW s \in Sets, StartRecount(ss, s)
      PROVE  TypeInv'
  <2>1. PICK id \in CheckIds :
           /\ IsNewest(id, DoneChecks(s))
           /\ copy' = [copy EXCEPT ![ss] = NewCopy(ss, 0, s, "recount",
                         [p \in Parts |-> [lines[id][p] EXCEPT !.extra = 0]])]
    BY <1>2 DEF StartRecount
  <2>2. lines[id] \in [Parts -> Line]
    BY <2>1 DEF IsNewest, DoneChecks, TypeInv, RowsHaveLines
  <2>3. [p \in Parts |-> [lines[id][p] EXCEPT !.extra = 0]] \in [Parts -> Line]
    BY <2>2 DEF Line
  <2>4. NewCopy(ss, 0, s, "recount", [p \in Parts |-> [lines[id][p] EXCEPT !.extra = 0]]) \in Copy
    BY <2>3 DEF NewCopy, Copy, Kinds
  <2>5. QED
    BY <1>2, <2>1, <2>4 DEF StartRecount, tables, TypeInv, TypeOK, RowsHaveLines
<1>3. ASSUME NEW ss \in Sessions, NEW s \in Sets, NEW k \in Kinds, StartFromInventory(ss, s, k)
      PROVE  TypeInv'
  <2>1. FullLines(s) \in [Parts -> Line]
    BY ConstantsAssumption DEF FullLines, Line
  <2>2. NewCopy(ss, 0, s, k, FullLines(s)) \in Copy
    BY <2>1 DEF NewCopy, Copy
  <2>3. QED
    BY <1>3, <2>2 DEF StartFromInventory, tables, TypeInv, TypeOK, RowsHaveLines
<1>4. ASSUME NEW ss \in Sessions, NEW p \in Parts, NEW h \in 0 .. MaxHave,
             NEW x \in 0 .. MaxExtra, Mark(ss, p, h, x)
      PROVE  TypeInv'
  <2>1. copy[ss] \in Copy
    BY <1>4 DEF Mark, OnScreen, TypeInv, TypeOK, NoCopy
  <2>2. [have |-> h, extra |-> x] \in Line
    BY ConstantsAssumption DEF Line
  <2>3. [copy[ss] EXCEPT !.lines[p] = [have |-> h, extra |-> x]] \in Copy
    BY <2>1, <2>2 DEF Copy
  <2>4. QED
    BY <1>4, <2>3 DEF Mark, tables, TypeInv, TypeOK, RowsHaveLines
<1>5. ASSUME NEW ss \in Sessions, NEW p \in Parts, NEW n \in 1 .. MaxTake,
             TakeIntoCheck(ss, p, n)
      PROVE  TypeInv'
  <2> DEFINE c == copy[ss]
             gap == Missing(c.set, c.lines)[p]
             have == Least(Need[c.set][p], c.lines[p].have + n)
  <2>1. c \in Copy
    BY <1>5 DEF TakeIntoCheck, TypeInv, TypeOK, NoCopy
  <2>2. gap \in Nat /\ n \in Nat /\ Least(n, gap) \in Nat
    BY <2>1, MissingType, ConstantsAssumption DEF Copy, Least
  <2>3. loose' \in [Parts -> Nat] /\ origins' \in [Parts -> [Sets -> Nat]]
    BY <1>5, <2>1, <2>2, TakeLooseType DEF TakeIntoCheck, TypeInv, Copy
  <2>4. have \in Nat
    BY <2>1, <2>2, ConstantsAssumption DEF Copy, Line, Least
  <2>5. [c EXCEPT !.lines[p].have = have] \in Copy
    BY <2>1, <2>4 DEF Copy, Line
  <2>6. QED
    BY <1>5, <2>3, <2>5 DEF TakeIntoCheck, TypeInv, TypeOK, RowsHaveLines
<1>6. ASSUME NEW ss \in Sessions, Leave(ss)
      PROVE  TypeInv'
  BY <1>6 DEF Leave, tables, TypeInv, TypeOK, RowsHaveLines
<1>7. ASSUME NEW ss \in Sessions, EagerSave(ss)
      PROVE  TypeInv'
  <2>1. copy[ss] \in Copy
    BY <1>7 DEF EagerSave, RowWanted, TypeInv, TypeOK, NoCopy
  <2>2. /\ SavedId(copy[ss]) \in CheckIds
        /\ checks' \in [CheckIds -> Row \cup {NoRow}]
        /\ lines' \in [CheckIds -> [Parts -> Line] \cup {NoLines}]
        /\ nextId' \in Nat \ {0}
        /\ RowsHaveLines'
    BY <1>7, <2>1, WriteCheckType DEF EagerSave, Copy
  <2>3. copy' \in [Sessions -> Copy \cup {NoCopy}]
    <3>1. copy' = [copy EXCEPT ![ss].id = SavedId(copy[ss]), ![ss].step = "marking"]
      BY <1>7 DEF EagerSave
    <3>2. SavedId(copy[ss]) \in Nat
      BY <2>2, ConstantsAssumption DEF CheckIds
    <3>3. [copy[ss] EXCEPT !.id = SavedId(copy[ss]), !.step = "marking"] \in Copy
      BY <2>1, <3>2 DEF Copy
    <3>4. QED
      BY <3>1, <3>3 DEF TypeInv, TypeOK
  <2>4. QED
    BY <1>7, <2>2, <2>3 DEF EagerSave, TypeInv, TypeOK
<1>8. ASSUME NEW ss \in Sessions, SaveForLater(ss)
      PROVE  TypeInv'
  <2>1. copy[ss] \in Copy
    BY <1>8 DEF SaveForLater, OnScreen, TypeInv, TypeOK, NoCopy
  <2>2. /\ checks' \in [CheckIds -> Row \cup {NoRow}]
        /\ lines' \in [CheckIds -> [Parts -> Line] \cup {NoLines}]
        /\ nextId' \in Nat \ {0}
        /\ RowsHaveLines'
    BY <1>8, <2>1, WriteCheckType DEF SaveForLater, Copy
  <2>3. QED
    BY <1>8, <2>2 DEF SaveForLater, TypeInv, TypeOK
<1>9. ASSUME NEW ss \in Sessions, SaveFails(ss)
      PROVE  TypeInv'
  <2>1. copy[ss] \in Copy
    BY <1>9 DEF SaveFails, TypeInv, TypeOK
  <2>2. PICK id \in IdsAfterRollback(copy[ss]) :
           copy' = [copy EXCEPT ![ss].id = id,
                                ![ss].step = IF @ = "saving" THEN "marking" ELSE @]
    BY <1>9 DEF SaveFails
  <2>3. id \in Nat
    BY <2>1 DEF IdsAfterRollback, TypeInv, TypeOK, Copy
  <2>4. [copy[ss] EXCEPT !.id = id, !.step = IF @ = "saving" THEN "marking" ELSE @] \in Copy
    BY <2>1, <2>3 DEF Copy
  <2>5. QED
    BY <1>9, <2>2, <2>4 DEF SaveFails, tables, TypeInv, TypeOK, RowsHaveLines
<1>10. ASSUME NEW ss \in Sessions, Finish(ss)
       PROVE  TypeInv'
  <2> DEFINE c == copy[ss]
             missing == Missing(c.set, c.lines)
  <2>1. c \in Copy
    BY <1>10 DEF Finish, TypeInv, TypeOK, NoCopy
  <2>2. /\ SavedId(c) \in CheckIds
        /\ checks' \in [CheckIds -> Row \cup {NoRow}]
        /\ lines' \in [CheckIds -> [Parts -> Line] \cup {NoLines}]
        /\ nextId' \in Nat \ {0}
        /\ RowsHaveLines'
    BY <1>10, <2>1, WriteCheckType DEF Finish, Copy
  <2>3. missing \in [Parts -> Nat]
    BY <2>1, MissingType DEF Copy
  <2>4. setState' \in [Sets -> SetState]
    BY <1>10, <2>1, <2>2, <2>3 DEF Finish, TypeInv, TypeOK, SetState, Copy, CheckIds
  <2>5. loose' \in [Parts -> Nat] /\ origins' \in [Parts -> [Sets -> Nat]]
    BY <1>10, <2>1 DEF Finish, TypeInv, TypeOK, Copy, Line
  <2>6. minQty' \in [Parts -> Nat]
    BY <1>10, <2>3 DEF Finish, Tracked, TypeInv, TypeOK
  <2>7. banked' \in [CheckIds -> 0 .. 2]
    <3>1. Least(2, banked[SavedId(c)] + 1) \in 0 .. 2
      BY <2>2 DEF Least, TypeInv, TypeOK
    <3>2. banked' = [banked EXCEPT ![SavedId(c)] = Least(2, banked[SavedId(c)] + 1)]
      BY <1>10 DEF Finish
    <3>3. QED
      BY <2>2, <3>1, <3>2 DEF TypeInv, TypeOK
  <2>8. copy' \in [Sessions -> Copy \cup {NoCopy}]
    <3>1. AfterFinish(ss, c, SavedId(c)) \in Copy \cup {NoCopy}
      <4>1. SavedId(c) \in Nat
        BY <2>2, ConstantsAssumption DEF CheckIds
      <4>2. [c EXCEPT !.step = "pushing", !.status = "done", !.id = SavedId(c)] \in Copy
        BY <2>1, <4>1 DEF Copy
      <4>3. QED
        BY <4>2 DEF AfterFinish
    <3>2. copy' = [copy EXCEPT ![ss] = AfterFinish(ss, c, SavedId(c))]
      BY <1>10 DEF Finish
    <3>3. QED
      BY <3>1, <3>2 DEF TypeInv, TypeOK
  <2>9. QED
    BY <2>2, <2>4, <2>5, <2>6, <2>7, <2>8 DEF TypeInv, TypeOK
<1>11. ASSUME NEW ss \in Sessions, FinishFails(ss)
       PROVE  TypeInv'
  <2>1. copy[ss] \in Copy
    BY <1>11 DEF FinishFails, TypeInv, TypeOK, NoCopy
  <2>2. PICK id \in IdsAfterRollback(copy[ss]) :
           copy' = [copy EXCEPT ![ss].id = id, ![ss].status = "done"]
    BY <1>11 DEF FinishFails
  <2>3. id \in Nat
    BY <2>1 DEF IdsAfterRollback, TypeInv, TypeOK, Copy
  <2>4. [copy[ss] EXCEPT !.id = id, !.status = "done"] \in Copy
    BY <2>1, <2>3 DEF Copy
  <2>5. QED
    BY <1>11, <2>2, <2>4 DEF FinishFails, tables, TypeInv, TypeOK, RowsHaveLines
<1>12. ASSUME NEW ss \in Sessions, Abandon(ss)
       PROVE  TypeInv'
  BY <1>12 DEF Abandon, TypeInv, TypeOK, RowsHaveLines, NoRow
<1>13. ASSUME NEW s \in Sets, NEW p \in Parts, NEW qty \in 1 .. MaxTake, TakeSpare(s, p, qty)
       PROVE  TypeInv'
  <2> DEFINE id == setState[s].last
  <2>1. id \in CheckIds /\ lines[id] \in [Parts -> Line]
    BY <1>13 DEF TakeSpare, TypeInv, TypeOK
  <2>q. qty \in Nat
    BY ConstantsAssumption
  <2>2. Credit(s, lines[id], p, qty) \in [Parts -> Line]
    BY <2>1, <2>q, CreditType
  <2>3. /\ lines' \in [CheckIds -> [Parts -> Line] \cup {NoLines}]
        /\ lines'[id] \in [Parts -> Line]
        /\ RowsHaveLines'
    BY <1>13, <2>1, <2>2 DEF TakeSpare, TypeInv, TypeOK, RowsHaveLines
  <2>4. setState' \in [Sets -> SetState]
    <3>1. Shortfall(s, lines'[id]) \in [Parts -> Nat]
      BY <2>3, MissingType
    <3>2. setState' = [setState EXCEPT ![s].missing = Shortfall(s, lines'[id])]
      BY <1>13 DEF TakeSpare
    <3>3. QED
      BY <3>1, <3>2 DEF TypeInv, TypeOK, SetState
  <2>5. loose' \in [Parts -> Nat] /\ origins' \in [Parts -> [Sets -> Nat]]
    BY <1>13, <2>q, TakeLooseType DEF TakeSpare, TypeInv
  <2>6. QED
    BY <1>13, <2>3, <2>4, <2>5 DEF TakeSpare, TypeInv, TypeOK
<1>14. ASSUME NEW ss \in Sessions, NEW p \in Parts, NEW x \in 1 .. MaxExtra,
              MarkFirstExtra(ss, p, x)
       PROVE  TypeInv'
  <2>1. copy[ss] \in Copy
    BY <1>14 DEF MarkFirstExtra, TypeInv, TypeOK, NoCopy
  <2>2. x \in Nat
    BY ConstantsAssumption
  <2>3. [copy[ss] EXCEPT !.lines[p].extra = x, !.step = "saving"] \in Copy
    <3>1. copy[ss].lines \in [Parts -> Line]
      BY <2>1 DEF Copy
    <3>2. [copy[ss].lines[p] EXCEPT !.extra = x] \in Line
      BY <3>1, <2>2 DEF Line
    <3>3. [copy[ss].lines EXCEPT ![p].extra = x] \in [Parts -> Line]
      BY <3>1, <3>2
    <3>4. QED
      BY <2>1, <3>3 DEF Copy
  <2>4. QED
    BY <1>14, <2>3 DEF MarkFirstExtra, tables, TypeInv, TypeOK, RowsHaveLines
<1>15. CASE UNCHANGED vars
  BY <1>15 DEF vars, TypeInv, TypeOK, RowsHaveLines
<1>16. QED
  BY <1>1, <1>2, <1>3, <1>4, <1>5, <1>6, <1>7, <1>8, <1>9, <1>10, <1>11, <1>12, <1>13, <1>14,
     <1>15
     DEF Next, SessionStep

\* The tables and every private copy keep their types, whoever shares a check
\* with whom and whichever write fails.
THEOREM TypeCorrect == Spec => []TypeOK
<1>1. Init => TypeInv
  BY ConstantsAssumption DEF Init, TypeInv, TypeOK, RowsHaveLines, SetState, NoRow
<1>2. TypeInv /\ [Next]_vars => TypeInv'
  BY TypeInvStep
<1>3. QED
  BY <1>1, <1>2, PTL DEF Spec, TypeInv

-----------------------------------------------------------------------------
(* Sessions that keep to their own sets, and writes that do not fail: a check *)
(* is finished once, its extras are banked once, and what the set's state     *)
(* says of it stays true.                                                     *)

\* Rows are numbered below the counter: an insert never meets an old row.
IdsBelowNext == \A id \in CheckIds : checks[id].status # "none" => id < nextId

\* Each property leans on the others (the thresholds only where nobody but checks
\* and spares changes what is missing): a save is harmless because the copy
\* still names a live draft, which holds because drafts are unique and ids new.
IInv(short) ==
  /\ TypeInv
  /\ IdsBelowNext
  /\ CopiesAreUpToDate
  /\ OneDraftPerJob
  /\ BankedExactlyOnce
  /\ LinesBelongToARow
  /\ ~PartDB => MissingMatchesLastCheck /\ (short => ShortPartsAreTracked)

\* A row is one of NoRow, a draft or a done check; the status tells which.
LEMMA RowCases ==
  ASSUME TypeOK, NEW id \in CheckIds
  PROVE  /\ checks[id] \in Row \/ checks[id] = NoRow
         /\ checks[id] = NoRow <=> checks[id].status = "none"
         /\ checks[id].status \in {"none", "draft", "done"}
         /\ checks[id] \in Row => checks[id].set \in Sets /\ checks[id].kind \in Kinds
BY DEF TypeOK, Row, NoRow

\* An open copy of an unfinished check, seen through CopiesAreUpToDate.
LEMMA CopyFacts ==
  ASSUME NEW short, IInv(short), NEW ss \in Sessions, copy[ss] # NoCopy, copy[ss].step # "pushing"
  PROVE  /\ copy[ss] \in Copy
         /\ copy[ss].set \in Assigned[ss]
         /\ copy[ss].status = "draft"
         /\ copy[ss].id = 0 => Drafts(copy[ss].set, copy[ss].kind) = {}
         /\ copy[ss].id # 0 => /\ copy[ss].id \in CheckIds
                               /\ checks[copy[ss].id].status = "draft"
                               /\ checks[copy[ss].id].set = copy[ss].set
                               /\ checks[copy[ss].id].kind = copy[ss].kind
<1>1. copy[ss] \in Copy
  BY DEF IInv, TypeInv, TypeOK
<1>2. QED
  BY <1>1 DEF IInv, CopiesAreUpToDate, UpToDate, Drafts

\* Saving a check whose set is being pushed rewrites its lines and nothing else.
LEMMA PushingSave ==
  ASSUME NEW short, IInv(short), NEW ss \in Sessions, copy[ss].step = "pushing", WriteCheck(copy[ss], copy[ss].status)
  PROVE  /\ copy[ss] \in Copy /\ copy[ss].id \in CheckIds
         /\ UNCHANGED <<checks, nextId>>
         /\ lines' = [lines EXCEPT ![copy[ss].id] = copy[ss].lines]
         /\ checks[copy[ss].id] # NoRow
<1> DEFINE c == copy[ss]
<1>1. c \in Copy /\ UpToDate(ss, c)
  BY DEF IInv, TypeInv, TypeOK, CopiesAreUpToDate, NoCopy
<1>2. /\ c.id \in CheckIds /\ c.id # 0 /\ c.status = "done"
      /\ checks[c.id] \in Row /\ checks[c.id].status = "done"
  BY <1>1 DEF UpToDate, DoneChecks, CheckIds, IInv, TypeInv, TypeOK, NoRow
<1>3. SavedId(c) = c.id /\ SavedRow(c, c.status, checks[c.id]) = checks[c.id]
  BY <1>2 DEF SavedId, SavedRow, Row
<1>4. UNCHANGED <<checks, nextId>> /\ lines' = [lines EXCEPT ![c.id] = c.lines]
  BY <1>2, <1>3 DEF WriteCheck, IInv, TypeInv, TypeOK
<1>5. QED
  BY <1>1, <1>2, <1>4 DEF NoRow

\* Otherwise saveCheck touches no finished check: it rewrites the copy's own draft
\* or adds a row under a new id.
LEMMA WriteCheckSafe ==
  ASSUME NEW short, IInv(short), NEW ss \in Sessions, copy[ss] # NoCopy, copy[ss].step # "pushing",
         NEW status \in {"draft", "done"}, WriteCheck(copy[ss], status)
  PROVE  /\ SavedId(copy[ss]) \in CheckIds
         /\ checks[SavedId(copy[ss])].status # "done"
         /\ checks' = [checks EXCEPT ![SavedId(copy[ss])] =
                         [status |-> status, set |-> copy[ss].set, kind |-> copy[ss].kind]]
         /\ lines' = [lines EXCEPT ![SavedId(copy[ss])] = copy[ss].lines]
         /\ \A id \in Drafts(copy[ss].set, copy[ss].kind) : id = SavedId(copy[ss])
         /\ IdsBelowNext'
<1> DEFINE c == copy[ss]
           id == SavedId(c)
<1>1. /\ c \in Copy /\ c.set \in Assigned[ss] /\ c.status = "draft"
      /\ c.id = 0 => Drafts(c.set, c.kind) = {}
      /\ c.id # 0 => /\ c.id \in CheckIds
                     /\ checks[c.id].status = "draft"
                     /\ checks[c.id].set = c.set /\ checks[c.id].kind = c.kind
  BY CopyFacts
<1>2. id \in CheckIds /\ nextId \in Nat
  BY DEF WriteCheck, IInv, TypeInv, TypeOK
<1>3. /\ lines' = [lines EXCEPT ![id] = c.lines]
      /\ checks' = [checks EXCEPT ![id] = SavedRow(c, status, checks[id])]
      /\ nextId' = IF c.id = 0 THEN nextId + 1 ELSE nextId
  BY DEF WriteCheck
<1>4. CASE c.id = 0
  <2>1. id = nextId
    BY <1>4 DEF SavedId
  <2>2. checks[id].status = "none"
    BY <1>2, <2>1 DEF IInv, IdsBelowNext
  <2>3. SavedRow(c, status, checks[id]) = [status |-> status, set |-> c.set, kind |-> c.kind]
    BY <1>4 DEF SavedRow
  <2>4. IdsBelowNext'
    <3> SUFFICES ASSUME NEW i \in CheckIds, checks'[i].status # "none" PROVE i < nextId'
      BY DEF IdsBelowNext
    <3>1. CASE i = id
      BY <3>1, <1>2, <1>3, <1>4, <2>1
    <3>2. CASE i # id
      <4>1. checks'[i] = checks[i]
        BY <3>2, <1>3 DEF IInv, TypeInv, TypeOK
      <4>2. i < nextId
        BY <4>1 DEF IInv, IdsBelowNext
      <4>3. QED
        BY <4>2, <1>2, <1>3, <1>4 DEF CheckIds
    <3>3. QED
      BY <3>1, <3>2
  <2>5. QED
    BY <1>1, <1>2, <1>3, <1>4, <2>2, <2>3, <2>4
<1>5. CASE c.id # 0
  <2>1. id = c.id
    BY <1>5 DEF SavedId
  <2>2. checks[id] \in Row
    BY <1>1, <1>2, <1>5, <2>1, RowCases DEF IInv, TypeInv
  <2>3. SavedRow(c, status, checks[id]) = [status |-> status, set |-> c.set, kind |-> c.kind]
    BY <1>1, <1>5, <2>1, <2>2 DEF SavedRow, Row
  <2>4. id \in Drafts(c.set, c.kind)
    BY <1>1, <1>2, <1>5, <2>1 DEF Drafts
  <2>5. \A i \in Drafts(c.set, c.kind) : i = id
    BY <2>4 DEF IInv, OneDraftPerJob, Drafts
  <2>6. IdsBelowNext'
    <3>1. \A i \in CheckIds : checks'[i].status # "none" => checks[i].status # "none"
      BY <1>1, <1>2, <1>3, <1>5, <2>1 DEF IInv, TypeInv, TypeOK
    <3>2. nextId' = nextId
      BY <1>3, <1>5
    <3>3. QED
      BY <3>1, <3>2 DEF IInv, IdsBelowNext
  <2>7. QED
    BY <1>1, <1>2, <1>3, <1>5, <2>1, <2>3, <2>5, <2>6
<1>6. QED
  BY <1>4, <1>5

\* Steps that leave the checks alone cannot disturb what is said about them.
LEMMA TablesKept ==
  ASSUME NEW short, IInv(short), UNCHANGED <<checks, lines, nextId, setState, minQty, banked>>
  PROVE  /\ IdsBelowNext'
         /\ OneDraftPerJob'
         /\ BankedExactlyOnce'
         /\ LinesBelongToARow'
         /\ ~PartDB => MissingMatchesLastCheck' /\ (short => ShortPartsAreTracked')
<1>1. IdsBelowNext' /\ OneDraftPerJob' /\ BankedExactlyOnce' /\ LinesBelongToARow'
  BY DEF IInv, IdsBelowNext, OneDraftPerJob, BankedExactlyOnce, LinesBelongToARow
<1>2. ~PartDB => MissingMatchesLastCheck' /\ (short => ShortPartsAreTracked')
  BY DEF IInv, MissingMatchesLastCheck, ShortPartsAreTracked, Missing, Gap
<1>3. QED
  BY <1>1, <1>2

\* A step of ss that changes no row, and leaves ss with no copy or a good one.
LEMMA OnlyACopyChanges ==
  ASSUME NEW short, IInv(short), UNCHANGED checks, NEW ss \in Sessions, NEW c,
         copy' = [copy EXCEPT ![ss] = c],
         c # NoCopy => UpToDate(ss, c)
  PROVE  CopiesAreUpToDate'
<1>1. \A t \in Sessions : t # ss => copy'[t] = copy[t]
  BY DEF IInv, TypeInv, TypeOK
<1>2. copy'[ss] = c
  BY DEF IInv, TypeInv, TypeOK
<1>3. QED
  BY <1>1, <1>2 DEF IInv, CopiesAreUpToDate, UpToDate, Drafts, DoneChecks

\* A step of ss that changes one row of the set it works on: under OneOwner no
\* other session holds a check of that set.
LEMMA OneRowChanges ==
  ASSUME OneOwner, NEW short, IInv(short), NEW ss \in Sessions, NEW s \in Assigned[ss], NEW id \in CheckIds,
         checks[id].status = "none" \/ checks[id].set = s,
         checks'[id].status = "none" \/ checks'[id].set = s,
         \A i \in CheckIds : i # id => checks'[i] = checks[i],
         \A t \in Sessions : t # ss => copy'[t] = copy[t],
         copy'[ss] = NoCopy \/ UpToDate(ss, copy[ss])'
  PROVE  CopiesAreUpToDate'
<1> SUFFICES ASSUME NEW t \in Sessions, t # ss, copy[t] # NoCopy
             PROVE  UpToDate(t, copy[t])'
  BY DEF CopiesAreUpToDate
<1>1. copy'[t] = copy[t] /\ UpToDate(t, copy[t])
  BY DEF IInv, CopiesAreUpToDate
<1>2. copy[t].set # s
  BY <1>1 DEF UpToDate, OneOwner
<1>3. \A i \in CheckIds : i \in Drafts(copy[t].set, copy[t].kind)
                           <=> /\ checks'[i].status = "draft"
                               /\ checks'[i].set = copy[t].set
                               /\ checks'[i].kind = copy[t].kind
  BY <1>2 DEF Drafts
<1>4. CASE copy[t].step # "pushing"
  BY <1>1, <1>3, <1>4 DEF UpToDate, Drafts
<1>5. CASE copy[t].step = "pushing"
  <2>1. copy[t].id \in DoneChecks(copy[t].set)
    BY <1>1, <1>5 DEF UpToDate
  <2>2. copy[t].id # id
    BY <1>2, <2>1 DEF DoneChecks
  <2>3. checks'[copy[t].id] = checks[copy[t].id]
    BY <2>1, <2>2 DEF DoneChecks
  <2>4. QED
    BY <1>1, <1>5, <2>1, <2>3 DEF UpToDate, DoneChecks
<1>6. QED
  BY <1>4, <1>5

\* After saveCheck: unique drafts, rows with lines, and every finished check,
\* and so every set's record of one, as before.
LEMMA AfterWrite ==
  ASSUME OneOwner, NEW short, IInv(short), NEW ss \in Sessions, copy[ss] # NoCopy, copy[ss].step # "pushing",
         NEW status \in {"draft", "done"}, WriteCheck(copy[ss], status)
  PROVE  /\ OneDraftPerJob'
         /\ LinesBelongToARow'
         /\ \A i \in CheckIds : checks[i].status = "done" =>
              checks'[i] = checks[i] /\ lines'[i] = lines[i]
         /\ (/\ copy'[ss] = NoCopy \/ UpToDate(ss, copy[ss])'
             /\ \A t \in Sessions : t # ss => copy'[t] = copy[t]) => CopiesAreUpToDate'
<1> DEFINE c == copy[ss]
           id == SavedId(c)
           row == [status |-> status, set |-> c.set, kind |-> c.kind]
<1>1. /\ id \in CheckIds
      /\ checks[id].status # "done"
      /\ checks' = [checks EXCEPT ![id] = row]
      /\ lines' = [lines EXCEPT ![id] = c.lines]
      /\ \A i \in Drafts(c.set, c.kind) : i = id
  BY WriteCheckSafe
<1>2. c \in Copy /\ c.set \in Assigned[ss]
  BY CopyFacts
<1>3. /\ checks'[id] = row
      /\ lines'[id] = c.lines
      /\ \A i \in CheckIds : i # id => checks'[i] = checks[i] /\ lines'[i] = lines[i]
  BY <1>1 DEF IInv, TypeInv, TypeOK
<1>4. OneDraftPerJob'
  BY <1>1, <1>3 DEF IInv, OneDraftPerJob, Drafts
<1>5. LinesBelongToARow'
  <2>1. c.lines # NoLines
    <3>1. PICK p \in Parts : TRUE
      BY ConstantsAssumption
    <3>2. c.lines \in [Parts -> Line] /\ p \in DOMAIN c.lines
      BY <1>2, <3>1 DEF Copy
    <3>3. p \notin DOMAIN NoLines
      BY DEF NoLines
    <3>4. QED
      BY <3>2, <3>3
  <2>2. row # NoRow
    BY DEF NoRow
  <2>3. QED
    BY <1>1, <1>3, <2>1, <2>2 DEF IInv, LinesBelongToARow
<1>6. ASSUME copy'[ss] = NoCopy \/ UpToDate(ss, copy[ss])',
             \A t \in Sessions : t # ss => copy'[t] = copy[t]
      PROVE  CopiesAreUpToDate'
  <2>1. checks[id].status = "none" \/ checks[id].set = c.set
    BY <1>1, CopyFacts, RowCases DEF IInv, TypeInv, WriteCheck, SavedId, IdsBelowNext, CheckIds
  <2>2. QED
    BY <1>1, <1>2, <1>3, <1>6, <2>1, OneRowChanges
<1>7. QED
  BY <1>1, <1>3, <1>4, <1>5, <1>6

\* The invariant is inductive, one case per action.
LEMMA IInvStep ==
  ASSUME ~Faults, OneOwner, NEW short, IInv(short), [Next]_vars
  PROVE  IInv(short)'
<1>t. TypeInv'
  BY TypeInvStep DEF IInv
<1>1. ASSUME NEW ss \in Sessions, NEW s \in Sets, NEW k \in Kinds, ResumeDraft(ss, s, k)
      PROVE  IInv(short)'
  <2>1. PICK id \in CheckIds : /\ IsNewest(id, Drafts(s, k))
                               /\ copy' = [copy EXCEPT ![ss] = NewCopy(ss, id, s, k, lines[id])]
    BY <1>1 DEF ResumeDraft
  <2>2. UpToDate(ss, NewCopy(ss, id, s, k, lines[id]))
    BY <1>1, <2>1 DEF ResumeDraft, IsNewest, UpToDate, NewCopy, CheckIds
  <2>3. CopiesAreUpToDate'
    BY <1>1, <2>1, <2>2, OnlyACopyChanges DEF ResumeDraft, tables
  <2>4. QED
    BY <1>1, <1>t, <2>3, TablesKept DEF ResumeDraft, tables, IInv
<1>2. ASSUME NEW ss \in Sessions, NEW s \in Sets, StartRecount(ss, s)
      PROVE  IInv(short)'
  <2>1. PICK c : /\ UpToDate(ss, c)
                 /\ copy' = [copy EXCEPT ![ss] = c]
    BY <1>2 DEF StartRecount, UpToDate, NewCopy
  <2>2. CopiesAreUpToDate'
    BY <1>2, <2>1, OnlyACopyChanges DEF StartRecount, tables
  <2>3. QED
    BY <1>2, <1>t, <2>2, TablesKept DEF StartRecount, tables, IInv
<1>3. ASSUME NEW ss \in Sessions, NEW s \in Sets, NEW k \in Kinds, StartFromInventory(ss, s, k)
      PROVE  IInv(short)'
  <2>1. UpToDate(ss, NewCopy(ss, 0, s, k, FullLines(s)))
    BY <1>3 DEF StartFromInventory, UpToDate, NewCopy
  <2>2. CopiesAreUpToDate'
    BY <1>3, <2>1, OnlyACopyChanges DEF StartFromInventory, tables
  <2>3. QED
    BY <1>3, <1>t, <2>2, TablesKept DEF StartFromInventory, tables, IInv
<1>4. ASSUME NEW ss \in Sessions, NEW p \in Parts, NEW h \in 0 .. MaxHave,
             NEW x \in 0 .. MaxExtra, Mark(ss, p, h, x)
      PROVE  IInv(short)'
  <2> DEFINE c == [copy[ss] EXCEPT !.lines[p] = [have |-> h, extra |-> x]]
  <2>1. copy[ss] # NoCopy /\ UpToDate(ss, copy[ss]) /\ copy[ss] \in Copy
    BY <1>4 DEF Mark, OnScreen, NoCopy, IInv, TypeInv, TypeOK, CopiesAreUpToDate
  <2>2. UpToDate(ss, c)
    BY <2>1 DEF UpToDate, Copy
  <2>3. copy' = [copy EXCEPT ![ss] = c]
    BY <1>4 DEF Mark
  <2>4. CopiesAreUpToDate'
    BY <1>4, <2>2, <2>3, OnlyACopyChanges DEF Mark, tables
  <2>5. QED
    BY <1>4, <1>t, <2>4, TablesKept DEF Mark, tables, IInv
<1>5. ASSUME NEW ss \in Sessions, NEW p \in Parts, NEW n \in 1 .. MaxTake, TakeIntoCheck(ss, p, n)
      PROVE  IInv(short)'
  <2> DEFINE have == Least(Need[copy[ss].set][p], copy[ss].lines[p].have + n)
             c == [copy[ss] EXCEPT !.lines[p].have = have]
  <2>1. copy[ss] # NoCopy /\ UpToDate(ss, copy[ss]) /\ copy[ss] \in Copy
    BY <1>5 DEF TakeIntoCheck, NoCopy, IInv, TypeInv, TypeOK, CopiesAreUpToDate
  <2>2. UpToDate(ss, c)
    BY <2>1 DEF UpToDate, Copy
  <2>3. copy' = [copy EXCEPT ![ss] = c]
    BY <1>5 DEF TakeIntoCheck
  <2>4. CopiesAreUpToDate'
    BY <1>5, <2>2, <2>3, OnlyACopyChanges DEF TakeIntoCheck
  <2>5. QED
    BY <1>5, <1>t, <2>4, TablesKept DEF TakeIntoCheck, IInv
<1>6. ASSUME NEW ss \in Sessions, Leave(ss)
      PROVE  IInv(short)'
  <2>1. CopiesAreUpToDate'
    BY <1>6, OnlyACopyChanges DEF Leave, tables
  <2>2. QED
    BY <1>6, <1>t, <2>1, TablesKept DEF Leave, tables, IInv
<1>7. ASSUME NEW ss \in Sessions, EagerSave(ss)
      PROVE  IInv(short)'
  <2> DEFINE c == copy[ss]
             id == SavedId(c)
  <2>1. /\ c # NoCopy /\ WriteCheck(c, "draft")
        /\ c \in Copy /\ c.set \in Assigned[ss] /\ c.status = "draft" /\ c.id = 0
        /\ c.step # "pushing"
    BY <1>7, CopyFacts DEF EagerSave, RowWanted, NoCopy, IInv, CopiesAreUpToDate, UpToDate
  <2>2. /\ OneDraftPerJob' /\ LinesBelongToARow'
        /\ \A i \in CheckIds : checks[i].status = "done" =>
             checks'[i] = checks[i] /\ lines'[i] = lines[i]
    BY <2>1, AfterWrite
  <2>3. /\ id \in CheckIds /\ checks[id].status # "done"
        /\ checks' = [checks EXCEPT ![id] = [status |-> "draft", set |-> c.set, kind |-> c.kind]]
        /\ IdsBelowNext'
    BY <2>1, WriteCheckSafe
  <2>4. /\ checks'[id] = [status |-> "draft", set |-> c.set, kind |-> c.kind]
        /\ \A i \in CheckIds : i # id => checks'[i] = checks[i]
    BY <2>3 DEF IInv, TypeInv, TypeOK
  <2>5. BankedExactlyOnce'
    BY <1>7, <2>3, <2>4 DEF EagerSave, IInv, BankedExactlyOnce
  <2>6. ~PartDB => MissingMatchesLastCheck' /\ (short => ShortPartsAreTracked')
    BY <1>7, <2>2 DEF EagerSave, IInv, MissingMatchesLastCheck, ShortPartsAreTracked, Missing, Gap
  <2>7. CopiesAreUpToDate'
    <3>1. /\ copy'[ss].id = id /\ copy'[ss].step = "marking"
          /\ copy'[ss].set = c.set /\ copy'[ss].kind = c.kind /\ copy'[ss].status = "draft"
          /\ \A t \in Sessions : t # ss => copy'[t] = copy[t]
      BY <1>7, <2>1 DEF EagerSave, IInv, TypeInv, TypeOK, Copy
    <3>2. UpToDate(ss, copy[ss])'
      BY <2>1, <2>3, <2>4, <3>1 DEF UpToDate, Drafts, CheckIds
    <3>3. QED
      BY <2>1, <3>1, <3>2, AfterWrite
  <2>8. QED
    BY <1>t, <2>2, <2>3, <2>5, <2>6, <2>7 DEF IInv
<1>8. ASSUME NEW ss \in Sessions, SaveForLater(ss), copy[ss].step = "marking"
      PROVE  IInv(short)'
  <2> DEFINE c == copy[ss]
             id == SavedId(c)
  <2>1. c # NoCopy /\ c.status = "draft" /\ WriteCheck(c, "draft") /\ c.step # "pushing"
    BY <1>8, CopyFacts DEF SaveForLater, NoCopy
  <2>2. /\ copy'[ss] = NoCopy
        /\ \A t \in Sessions : t # ss => copy'[t] = copy[t]
    BY <1>8 DEF SaveForLater, IInv, TypeInv, TypeOK
  <2>3. /\ OneDraftPerJob' /\ LinesBelongToARow' /\ CopiesAreUpToDate'
        /\ \A i \in CheckIds : checks[i].status = "done" =>
             checks'[i] = checks[i] /\ lines'[i] = lines[i]
    BY <2>1, <2>2, AfterWrite
  <2>4. /\ id \in CheckIds /\ checks[id].status # "done"
        /\ checks' = [checks EXCEPT ![id] = [status |-> "draft", set |-> c.set, kind |-> c.kind]]
        /\ IdsBelowNext'
    BY <2>1, WriteCheckSafe
  <2>5. BankedExactlyOnce'
    BY <1>8, <2>4 DEF SaveForLater, IInv, BankedExactlyOnce, TypeInv, TypeOK
  <2>6. ~PartDB => MissingMatchesLastCheck' /\ (short => ShortPartsAreTracked')
    BY <1>8, <2>3 DEF SaveForLater, IInv, MissingMatchesLastCheck, ShortPartsAreTracked, Missing, Gap
  <2>7. QED
    BY <1>t, <2>3, <2>4, <2>5, <2>6 DEF IInv
<1>9. ASSUME NEW ss \in Sessions, SaveForLater(ss), copy[ss].step = "pushing"
       PROVE  IInv(short)'
  <2> DEFINE id == copy[ss].id
  <2>1. /\ copy[ss] \in Copy /\ id \in CheckIds
        /\ UNCHANGED <<checks, nextId>>
        /\ lines' = [lines EXCEPT ![id] = copy[ss].lines]
        /\ checks[id] # NoRow
    BY <1>9, PushingSave DEF SaveForLater
  <2>2. CopiesAreUpToDate'
    BY <1>9, <2>1, OnlyACopyChanges DEF SaveForLater
  <2>3. IdsBelowNext' /\ OneDraftPerJob' /\ BankedExactlyOnce'
    BY <1>9, <2>1 DEF SaveForLater, IInv, IdsBelowNext, OneDraftPerJob, BankedExactlyOnce
  <2>4. LinesBelongToARow'
    <3>1. copy[ss].lines # NoLines
      <4>1. PICK p \in Parts : TRUE
        BY ConstantsAssumption
      <4>2. p \in DOMAIN copy[ss].lines /\ p \notin DOMAIN NoLines
        BY <2>1, <4>1 DEF Copy, NoLines
      <4>3. QED
        BY <4>2
    <3>2. lines'[id] = copy[ss].lines /\ \A i \in CheckIds : i # id => lines'[i] = lines[i]
      BY <2>1 DEF IInv, TypeInv, TypeOK
    <3>3. QED
      BY <2>1, <3>1, <3>2 DEF IInv, LinesBelongToARow
  <2>5. PartDB
    BY <1>9 DEF IInv, CopiesAreUpToDate, UpToDate, NoCopy
  <2>6. QED
    BY <1>t, <2>2, <2>3, <2>4, <2>5 DEF IInv
<1>10. ASSUME NEW ss \in Sessions, Finish(ss)
      PROVE  IInv(short)'
  <2> DEFINE c == copy[ss]
             id == SavedId(c)
             missing == Missing(c.set, c.lines)
  <2>1. /\ c # NoCopy /\ c.step # "pushing" /\ WriteCheck(c, "done")
        /\ c \in Copy /\ c.set \in Assigned[ss]
    BY <1>10, CopyFacts DEF Finish, NoCopy
  <2>2. /\ OneDraftPerJob' /\ LinesBelongToARow'
        /\ \A i \in CheckIds : checks[i].status = "done" =>
             checks'[i] = checks[i] /\ lines'[i] = lines[i]
    BY <2>1, AfterWrite
  <2>3. /\ id \in CheckIds /\ checks[id].status # "done"
        /\ checks' = [checks EXCEPT ![id] = [status |-> "done", set |-> c.set, kind |-> c.kind]]
        /\ lines' = [lines EXCEPT ![id] = c.lines]
        /\ IdsBelowNext'
    BY <2>1, WriteCheckSafe
  <2>4. /\ checks'[id] = [status |-> "done", set |-> c.set, kind |-> c.kind]
        /\ lines'[id] = c.lines
        /\ \A i \in CheckIds : i # id => checks'[i] = checks[i]
    BY <2>3 DEF IInv, TypeInv, TypeOK
  <2>5. BankedExactlyOnce'
    <3>1. banked[id] = 0
      BY <2>3 DEF IInv, BankedExactlyOnce
    <3>2. banked' = [banked EXCEPT ![id] = 1]
      BY <1>10, <3>1 DEF Finish, Least
    <3>3. QED
      BY <2>3, <2>4, <3>2 DEF IInv, TypeInv, TypeOK, BankedExactlyOnce
  <2>6. /\ setState'[c.set] = [last |-> id, missing |-> missing]
        /\ \A s \in Sets : s # c.set => setState'[s] = setState[s]
        /\ c.set \in Sets
    BY <1>10, <2>1 DEF Finish, IInv, TypeInv, TypeOK, Copy
  <2>7. ASSUME ~PartDB
        PROVE  MissingMatchesLastCheck'
    <3> SUFFICES ASSUME NEW s \in Sets, setState'[s].last # 0
                 PROVE  LET i == setState'[s].last
                        IN /\ i \in CheckIds
                           /\ checks'[i].status = "done" /\ checks'[i].set = s
                           /\ \A p \in Parts : setState'[s].missing[p] \in
                                {Missing(s, lines'[i])[p], Gap(s, lines'[i], p)}
      BY DEF MissingMatchesLastCheck, Missing, Gap
    <3>1. CASE s = c.set
      BY <3>1, <2>3, <2>4, <2>6
    <3>2. CASE s # c.set
      BY <3>2, <2>2, <2>6, <2>7 DEF IInv, MissingMatchesLastCheck
    <3>3. QED
      BY <3>1, <3>2
  <2>8. ASSUME ~PartDB, short
        PROVE  ShortPartsAreTracked'
    <3> SUFFICES ASSUME NEW s \in Sets, NEW p \in Parts \ Optional, setState'[s].missing[p] > 0
                 PROVE  minQty'[p] > 0
      BY DEF ShortPartsAreTracked
    <3>1. minQty'[p] = IF missing[p] > 0 /\ minQty[p] = 0 THEN missing[p] ELSE minQty[p]
      BY <1>10 DEF Finish, Tracked
    <3>2. minQty[p] \in Nat
      BY DEF IInv, TypeInv, TypeOK
    <3>3. CASE s = c.set
      BY <3>1, <3>2, <3>3, <2>6
    <3>4. CASE s # c.set
      BY <3>1, <3>2, <3>4, <2>6, <2>8 DEF IInv, ShortPartsAreTracked
    <3>5. QED
      BY <3>3, <3>4
  <2>9. CopiesAreUpToDate'
    <3>1. copy' = [copy EXCEPT ![ss] = AfterFinish(ss, c, id)]
      BY <1>10 DEF Finish
    <3>2. \A t \in Sessions : t # ss => copy'[t] = copy[t]
      BY <3>1 DEF IInv, TypeInv, TypeOK
    <3>3. CASE ~(PartDB /\ ss \in Screens)
      <4>1. copy'[ss] = NoCopy
        BY <3>1, <3>3 DEF AfterFinish, IInv, TypeInv, TypeOK
      <4>2. QED
        BY <2>1, <3>2, <4>1, AfterWrite
    <3>4. CASE PartDB /\ ss \in Screens
      <4>1. copy'[ss] = [c EXCEPT !.step = "pushing", !.status = "done", !.id = id]
        BY <3>1, <3>4 DEF AfterFinish, IInv, TypeInv, TypeOK
      <4>2. /\ copy'[ss].step = "pushing" /\ copy'[ss].status = "done" /\ copy'[ss].id = id
            /\ copy'[ss].set = c.set /\ copy'[ss].kind = c.kind
        BY <2>1, <4>1 DEF Copy
      <4>3. UpToDate(ss, copy[ss])'
        BY <2>1, <2>3, <2>4, <3>4, <4>2 DEF UpToDate, DoneChecks
      <4>4. QED
        BY <2>1, <3>2, <4>3, AfterWrite
    <3>5. QED
      BY <3>3, <3>4
  <2>10. QED
    BY <1>t, <2>2, <2>3, <2>5, <2>7, <2>8, <2>9 DEF IInv
<1>11. ASSUME NEW ss \in Sessions, Abandon(ss)
       PROVE  IInv(short)'
  <2> DEFINE c == copy[ss]
             id == c.id
  <2>1. /\ c # NoCopy /\ c.step # "pushing" /\ c \in Copy /\ c.set \in Assigned[ss]
        /\ id # 0 => id \in CheckIds /\ checks[id].status = "draft" /\ checks[id].set = c.set
    BY <1>11, CopyFacts DEF Abandon, NoCopy
  <2>2. CASE id = 0
    <3>1. id \notin CheckIds
      BY <2>2 DEF CheckIds
    <3>2. UNCHANGED <<checks, lines, nextId, setState, minQty, banked>>
      BY <1>11, <3>1 DEF Abandon
    <3>3. CopiesAreUpToDate'
      BY <1>11, <3>2, OnlyACopyChanges DEF Abandon
    <3>4. QED
      BY <1>t, <3>2, <3>3, TablesKept DEF IInv
  <2>3. CASE id # 0
    <3>1. /\ checks' = [checks EXCEPT ![id] = NoRow]
          /\ lines' = [lines EXCEPT ![id] = NoLines]
          /\ UNCHANGED <<nextId, setState, minQty, banked>>
          /\ copy' = [copy EXCEPT ![ss] = NoCopy]
      BY <1>11, <2>1, <2>3 DEF Abandon
    <3>2. /\ checks'[id] = NoRow /\ checks'[id].status = "none"
          /\ lines'[id] = NoLines
          /\ \A i \in CheckIds : i # id => checks'[i] = checks[i] /\ lines'[i] = lines[i]
          /\ copy'[ss] = NoCopy
          /\ \A t \in Sessions : t # ss => copy'[t] = copy[t]
      BY <2>1, <2>3, <3>1 DEF IInv, TypeInv, TypeOK, NoRow
    <3>3. IdsBelowNext' /\ OneDraftPerJob' /\ BankedExactlyOnce' /\ LinesBelongToARow'
      BY <2>1, <2>3, <3>1, <3>2
         DEF IInv, IdsBelowNext, OneDraftPerJob, BankedExactlyOnce, LinesBelongToARow
    <3>4. \A i \in CheckIds : checks[i].status = "done" =>
            checks'[i] = checks[i] /\ lines'[i] = lines[i]
      BY <2>1, <2>3, <3>2, SMTT(30)
    <3>5. ~PartDB => MissingMatchesLastCheck' /\ (short => ShortPartsAreTracked')
      BY <3>1, <3>4 DEF IInv, MissingMatchesLastCheck, ShortPartsAreTracked, Missing, Gap
    <3>6. CopiesAreUpToDate'
      BY <2>1, <2>3, <3>2, OneRowChanges
    <3>7. QED
      BY <1>t, <3>3, <3>5, <3>6 DEF IInv
  <2>4. QED
    BY <2>2, <2>3
<1>12. ASSUME NEW s \in Sets, NEW p \in Parts, NEW qty \in 1 .. MaxTake, TakeSpare(s, p, qty)
       PROVE  IInv(short)'
  <2> DEFINE id == setState[s].last
  <2>q. qty \in Nat /\ qty > 0
    BY ConstantsAssumption
  <2>1. /\ id \in CheckIds /\ id # 0 /\ lines[id] \in [Parts -> Line]
        /\ lines' = [lines EXCEPT ![id] = Credit(s, lines[id], p, qty)]
        /\ setState' = [setState EXCEPT ![s].missing = Shortfall(s, lines'[id])]
        /\ UNCHANGED <<checks, nextId, minQty, copy, banked>>
        /\ lines[id] # NoLines
    BY <1>12 DEF TakeSpare, IInv, TypeInv, TypeOK, CheckIds
  <2>2. ASSUME ~PartDB
        PROVE  /\ checks[id].status = "done" /\ checks[id].set = s
               /\ \A r \in Parts : setState[s].missing[r] \in
                    {Missing(s, lines[id])[r], Gap(s, lines[id], r)}
    BY <2>1, <2>2 DEF IInv, MissingMatchesLastCheck
  <2>3. /\ lines'[id] = Credit(s, lines[id], p, qty)
        /\ lines'[id] \in [Parts -> Line]
        /\ \A i \in CheckIds : i # id => lines'[i] = lines[i]
        /\ setState'[s].last = id /\ setState'[s].missing = Shortfall(s, lines'[id])
        /\ \A t \in Sets : t # s => setState'[t] = setState[t]
    <3>1. Credit(s, lines[id], p, qty) \in [Parts -> Line]
      BY <2>1, <2>q, CreditType
    <3>2. /\ lines'[id] = Credit(s, lines[id], p, qty)
          /\ \A i \in CheckIds : i # id => lines'[i] = lines[i]
      BY <2>1 DEF IInv, TypeInv, TypeOK
    <3>3. /\ setState'[s].last = id /\ setState'[s].missing = Shortfall(s, lines'[id])
          /\ \A t \in Sets : t # s => setState'[t] = setState[t]
      BY <2>1 DEF IInv, TypeInv, TypeOK, SetState
    <3>4. QED
      BY <3>1, <3>2, <3>3
  <2>4. IdsBelowNext' /\ OneDraftPerJob' /\ BankedExactlyOnce'
    BY <2>1 DEF IInv, IdsBelowNext, OneDraftPerJob, BankedExactlyOnce
  <2>5. CopiesAreUpToDate'
    BY <2>1 DEF IInv, CopiesAreUpToDate, UpToDate, Drafts, DoneChecks
  <2>6. LinesBelongToARow'
    <3>1. p \in DOMAIN lines'[id] /\ p \notin DOMAIN NoLines
      BY <2>3 DEF NoLines
    <3>2. checks[id] # NoRow /\ lines'[id] # NoLines
      BY <2>1, <3>1 DEF IInv, LinesBelongToARow
    <3>3. QED
      BY <2>1, <2>3, <3>2 DEF IInv, LinesBelongToARow
  <2>7. ASSUME ~PartDB
        PROVE  MissingMatchesLastCheck'
    <3> SUFFICES ASSUME NEW t \in Sets, setState'[t].last # 0
                 PROVE  LET i == setState'[t].last
                        IN /\ i \in CheckIds
                           /\ checks'[i].status = "done" /\ checks'[i].set = t
                           /\ \A r \in Parts : setState'[t].missing[r] \in
                                {Missing(t, lines'[i])[r], Gap(t, lines'[i], r)}
      BY DEF MissingMatchesLastCheck, Missing, Gap
    <3>1. CASE t = s
      BY <3>1, <2>1, <2>2, <2>3, <2>7, SMTT(30) DEF Shortfall
    <3>2. CASE t # s
      <4>1. /\ setState'[t] = setState[t]
            /\ setState[t].last \in CheckIds
            /\ checks[setState[t].last].status = "done" /\ checks[setState[t].last].set = t
        BY <3>2, <2>3, <2>7 DEF IInv, MissingMatchesLastCheck
      <4>2. setState[t].last # id
        BY <3>2, <2>2, <2>7, <4>1
      <4>3. lines'[setState[t].last] = lines[setState[t].last]
        BY <2>3, <4>1, <4>2
      <4>4. QED
        BY <2>1, <2>7, <4>1, <4>3 DEF IInv, MissingMatchesLastCheck
    <3>3. QED
      BY <3>1, <3>2
  <2>8. ASSUME ~PartDB, short
        PROVE  ShortPartsAreTracked'
    <3> SUFFICES ASSUME NEW t \in Sets, NEW r \in Parts \ Optional, setState'[t].missing[r] > 0
                 PROVE  minQty[r] > 0
      BY <2>1 DEF ShortPartsAreTracked
    <3>1. CASE t = s
      <4>1. Gap(s, lines'[id], r) > 0
        BY <3>1, <2>3 DEF Shortfall
      <4>2. Gap(s, lines[id], r) > 0
        <5>1. lines[id][r].have <= lines'[id][r].have \/ Need[s][r] <= lines'[id][r].have
          BY <2>1, <2>3, <2>q, CreditRaises
        <5>2. /\ Need[s][r] \in Nat
              /\ lines[id][r].have \in Nat /\ lines'[id][r].have \in Nat
          BY <2>1, <2>3, ConstantsAssumption DEF Line
        <5>3. QED
          BY <4>1, <5>1, <5>2 DEF Gap
      <4>3. setState[s].missing[r] = Gap(s, lines[id], r)
        BY <2>2, <2>8 DEF Missing
      <4>4. QED
        BY <2>8, <4>2, <4>3 DEF IInv, ShortPartsAreTracked
    <3>2. CASE t # s
      BY <2>8, <3>2, <2>3 DEF IInv, ShortPartsAreTracked
    <3>3. QED
      BY <3>1, <3>2
  <2>9. QED
    BY <1>t, <2>4, <2>5, <2>6, <2>7, <2>8 DEF IInv
<1>13. ASSUME NEW ss \in Sessions, NEW p \in Parts, NEW x \in 1 .. MaxExtra,
              MarkFirstExtra(ss, p, x)
       PROVE  IInv(short)'
  <2> DEFINE c == [copy[ss] EXCEPT !.lines[p].extra = x, !.step = "saving"]
  <2>1. /\ copy[ss] # NoCopy /\ UpToDate(ss, copy[ss]) /\ copy[ss] \in Copy
        /\ copy[ss].id = 0 /\ copy[ss].step = "marking"
    BY <1>13 DEF MarkFirstExtra, NoCopy, IInv, TypeInv, TypeOK, CopiesAreUpToDate
  <2>2. UpToDate(ss, c)
    BY <2>1 DEF UpToDate, Copy
  <2>3. copy' = [copy EXCEPT ![ss] = c]
    BY <1>13 DEF MarkFirstExtra
  <2>4. CopiesAreUpToDate'
    BY <1>13, <2>2, <2>3, OnlyACopyChanges DEF MarkFirstExtra, tables
  <2>5. QED
    BY <1>13, <1>t, <2>4, TablesKept DEF MarkFirstExtra, tables, IInv
<1>14. CASE UNCHANGED vars
  BY <1>t, <1>14, TablesKept DEF vars, IInv, CopiesAreUpToDate, UpToDate, Drafts, DoneChecks
<1>15. QED
  BY <1>1, <1>2, <1>3, <1>4, <1>5, <1>6, <1>7, <1>8, <1>9, <1>10, <1>11, <1>12, <1>13,
     <1>14
     DEF Next, SessionStep, SaveForLater, OnScreen, SaveFails, FinishFails

\* Initially there is no check at all.
LEMMA IInvInit ==
  ASSUME NEW short, Init PROVE IInv(short)
<1>1. TypeInv
  BY ConstantsAssumption DEF Init, TypeInv, TypeOK, RowsHaveLines, SetState, NoRow
<1>2. IdsBelowNext /\ CopiesAreUpToDate /\ OneDraftPerJob
  BY DEF Init, IdsBelowNext, CopiesAreUpToDate, OneDraftPerJob, NoRow
<1>3. BankedExactlyOnce /\ LinesBelongToARow
  BY DEF Init, BankedExactlyOnce, LinesBelongToARow, NoRow
<1>4. MissingMatchesLastCheck /\ ShortPartsAreTracked
  BY DEF Init, MissingMatchesLastCheck, ShortPartsAreTracked
<1>5. QED
  BY <1>1, <1>2, <1>3, <1>4 DEF IInv

\* When every session keeps to its own sets and no write fails, a copy is never
\* out of date, a job has one draft, and lines belong to rows.
THEOREM DraftsAreSafe ==
  ASSUME ~Faults, OneOwner
  PROVE  Spec => [](CopiesAreUpToDate /\ OneDraftPerJob /\ LinesBelongToARow)
<1>0. Init => IInv(TRUE)
  BY IInvInit
<1>1. IInv(TRUE) /\ [Next]_vars => IInv(TRUE)'
  BY IInvStep
<1>2. IInv(TRUE) => CopiesAreUpToDate /\ OneDraftPerJob /\ LinesBelongToARow
  BY DEF IInv
<1>3. QED
  BY <1>0, <1>1, <1>2, PTL DEF Spec

\* In particular two sessions that open checks of their own sets, where no write
\* fails, never split a job into two drafts ...
THEOREM JobsHaveOneDraft ==
  ASSUME ~Faults, OneOwner
  PROVE  Spec => []OneDraftPerJob
BY DraftsAreSafe, PTL

\* ... and abandoning a check leaves none of its lines behind, on the same two
\* conditions.
THEOREM LinesHaveRows ==
  ASSUME ~Faults, OneOwner
  PROVE  Spec => []LinesBelongToARow
BY DraftsAreSafe, PTL

\* Where sessions keep to their own sets and no write fails, FinishCheck banks a
\* check's extras exactly once, however the sessions' steps interleave.  (With two
\* sessions on one set, or a finish that fails, it does not.)
THEOREM ExtrasBankedExactlyOnce ==
  ASSUME ~Faults, OneOwner
  PROVE  Spec => []BankedExactlyOnce
<1>0. Init => IInv(TRUE)
  BY IInvInit
<1>1. IInv(TRUE) /\ [Next]_vars => IInv(TRUE)'
  BY IInvStep
<1>2. IInv(TRUE) => BankedExactlyOnce
  BY DEF IInv
<1>3. QED
  BY <1>0, <1>1, <1>2, PTL DEF Spec

\* Where sessions keep to their own sets, no write fails and no set is pushed to
\* Part-DB, what a set's state row says is missing is what its last finished check
\* found, with a low-stock threshold on every required part of it.
THEOREM SetStateIsTrue ==
  ASSUME ~Faults, ~PartDB, OneOwner
  PROVE  Spec => [](MissingMatchesLastCheck /\ ShortPartsAreTracked)
<1>0. Init => IInv(TRUE)
  BY IInvInit
<1>1. IInv(TRUE) /\ [Next]_vars => IInv(TRUE)'
  BY IInvStep
<1>2. IInv(TRUE) => MissingMatchesLastCheck /\ ShortPartsAreTracked
  BY DEF IInv
<1>3. QED
  BY <1>0, <1>1, <1>2, PTL DEF Spec

\* In particular, on the same three conditions, every required part a set lacks, be
\* it by one piece, has a low-stock threshold (autoTrackMissing).
THEOREM ShortPartsHaveThresholds ==
  ASSUME ~Faults, ~PartDB, OneOwner
  PROVE  Spec => []ShortPartsAreTracked
BY SetStateIsTrue, PTL

\* A step never rewrites the row of a finished check; its lines change when
\* spares are moved into its set, or when it is saved again while its set is
\* pushed to Part-DB.
LEMMA FinishedRowsAreKept ==
  ASSUME ~Faults, OneOwner, NEW short, IInv(short), [Next]_vars, NEW id \in CheckIds, checks[id].status = "done"
  PROVE  /\ checks'[id] = checks[id]
         /\ \/ lines'[id] = lines[id]
            \/ PartDB
            \/ \E s \in Sets, p \in Parts, qty \in 1 .. MaxTake :
                 TakeSpare(s, p, qty) /\ setState[s].last = id
<1>1. ASSUME NEW ss \in Sessions, EagerSave(ss) \/ SaveForLater(ss) \/ Finish(ss),
             copy[ss].step # "pushing"
      PROVE  checks'[id] = checks[id] /\ lines'[id] = lines[id]
  <2>1. copy[ss] # NoCopy
    BY <1>1 DEF EagerSave, RowWanted, SaveForLater, OnScreen, Finish, NoCopy
  <2>2. WriteCheck(copy[ss], "draft") \/ WriteCheck(copy[ss], "done")
    BY <1>1, <2>1, CopyFacts DEF EagerSave, SaveForLater, Finish
  <2>3. QED
    BY <1>1, <2>1, <2>2, AfterWrite
<1>2. ASSUME NEW ss \in Sessions, EagerSave(ss) \/ SaveForLater(ss) \/ Finish(ss),
             copy[ss].step = "pushing"
      PROVE  checks'[id] = checks[id] /\ PartDB
  <2>1. PartDB
    BY <1>2 DEF IInv, CopiesAreUpToDate, UpToDate, NoCopy
  <2>2. SaveForLater(ss)
    BY <1>2 DEF EagerSave, RowWanted, Finish
  <2>3. QED
    BY <1>2, <2>1, <2>2, PushingSave DEF SaveForLater
<1>3. ASSUME NEW ss \in Sessions, Abandon(ss)
      PROVE  checks'[id] = checks[id] /\ lines'[id] = lines[id]
  BY <1>3 DEF Abandon, IInv, TypeInv, TypeOK
<1>4. ASSUME NEW s \in Sets, NEW p \in Parts, NEW qty \in 1 .. MaxTake, TakeSpare(s, p, qty)
      PROVE  /\ checks'[id] = checks[id]
             /\ setState[s].last # id => lines'[id] = lines[id]
  BY <1>4 DEF TakeSpare, IInv, TypeInv, TypeOK
<1>5. ASSUME NEW ss \in Sessions, SessionStep(ss)
      PROVE  \/ checks' = checks /\ lines' = lines
             \/ EagerSave(ss) \/ SaveForLater(ss) \/ Finish(ss)
             \/ Abandon(ss)
  <2>1. CASE \E s \in Sets, k \in Kinds : ResumeDraft(ss, s, k) \/ StartFromInventory(ss, s, k)
    BY <2>1 DEF ResumeDraft, StartFromInventory, tables
  <2>2. CASE \E s \in Sets : StartRecount(ss, s)
    BY <2>2 DEF StartRecount, tables
  <2>3. CASE \E p \in Parts, h \in 0 .. MaxHave, x \in 0 .. MaxExtra : Mark(ss, p, h, x)
    BY <2>3 DEF Mark, tables
  <2>4. CASE \E p \in Parts, x \in 1 .. MaxExtra : MarkFirstExtra(ss, p, x)
    BY <2>4 DEF MarkFirstExtra, tables
  <2>5. CASE \E p \in Parts, n \in 1 .. MaxTake : TakeIntoCheck(ss, p, n)
    BY <2>5 DEF TakeIntoCheck
  <2>6. CASE Leave(ss) \/ SaveFails(ss) \/ FinishFails(ss)
    BY <2>6 DEF Leave, SaveFails, FinishFails, tables
  <2>7. QED
    BY <1>5, <2>1, <2>2, <2>3, <2>4, <2>5, <2>6 DEF SessionStep
<1>6. CASE UNCHANGED vars
  BY <1>6 DEF vars
<1>7. CASE \E ss \in Sessions : SessionStep(ss)
  BY <1>1, <1>2, <1>3, <1>5, <1>7
<1>8. CASE \E s \in Sets, p \in Parts, qty \in 1 .. MaxTake : TakeSpare(s, p, qty)
  BY <1>4, <1>8
<1>9. QED
  BY <1>6, <1>7, <1>8 DEF Next

\* Where sessions keep to their own sets and no write fails, a finished check is
\* never reopened or deleted by the session that had it open, whatever that opens,
\* saves or abandons next.  (A second session with a copy of it may do both.)
THEOREM FinishedChecksStayFinished ==
  ASSUME ~Faults, OneOwner
  PROVE  Spec => FinishedStaysFinished
<1>0. Init => IInv(TRUE)
  BY IInvInit
<1>1. IInv(TRUE) /\ [Next]_vars => IInv(TRUE)'
  BY IInvStep
<1>2. IInv(TRUE) /\ [Next]_vars =>
        [\A id \in CheckIds : checks[id].status = "done" => checks'[id].status = "done"]_vars
  BY FinishedRowsAreKept
<1>3. QED
  BY <1>0, <1>1, <1>2, PTL DEF Spec, FinishedStaysFinished

\* Where sessions keep to their own sets, no write fails and no set is pushed to
\* Part-DB, pieces a finished check gains leave the loose stock in the same step.
THEOREM FinishedChecksGrowOnlyFromStock ==
  ASSUME ~Faults, ~PartDB, OneOwner
  PROVE  Spec => FinishedCheckGrowsOnlyFromStock
<1> DEFINE Grows(id, p) ==
             /\ checks[id].status = "done" /\ checks'[id].status = "done"
             /\ lines'[id][p].have > lines[id][p].have
             => lines'[id][p].have - lines[id][p].have <= loose[p] - loose'[p]
<1>0. Init => IInv(TRUE)
  BY IInvInit
<1>1. IInv(TRUE) /\ [Next]_vars => IInv(TRUE)'
  BY IInvStep
<1>2. IInv(TRUE) /\ [Next]_vars => [\A id \in CheckIds, p \in Parts : Grows(id, p)]_vars
  <2> SUFFICES ASSUME IInv(TRUE), [Next]_vars, NEW id \in CheckIds, NEW r \in Parts,
                      checks[id].status = "done"
               PROVE  Grows(id, r)
    OBVIOUS
  <2>1. CASE lines'[id] = lines[id]
    <3>1. lines[id] \in [Parts -> Line]
      BY DEF IInv, TypeInv, RowsHaveLines
    <3>2. lines[id][r].have \in Nat
      BY <3>1 DEF Line
    <3>3. QED
      BY <2>1, <3>2
  <2>2. ASSUME NEW s \in Sets, NEW p \in Parts, NEW qty \in 1 .. MaxTake,
               TakeSpare(s, p, qty), setState[s].last = id
        PROVE  Grows(id, r)
    <3>1. lines[id] \in [Parts -> Line] /\ loose \in [Parts -> Nat] /\ qty \in Nat
      BY ConstantsAssumption DEF IInv, TypeInv, TypeOK, RowsHaveLines
    <3>2. /\ lines'[id] = Credit(s, lines[id], p, qty)
          /\ loose'[p] = loose[p] - qty
      BY <2>2, <3>1 DEF TakeSpare, TakeLoose, IInv, TypeInv, TypeOK
    <3>3. lines[id][r].have \in Nat /\ loose[r] \in Nat /\ Need[s][r] \in Nat
      BY <3>1, ConstantsAssumption DEF Line
    <3>4. CASE r # p
      BY <3>1, <3>2, <3>3, <3>4 DEF Credit
    <3>5. CASE r = p
      <4>1. lines'[id][r] = [lines[id][r] EXCEPT !.have = Least(Need[s][r], lines[id][r].have + qty)]
        BY <3>1, <3>2, <3>5 DEF Credit
      <4>2. lines'[id][r].have = Least(Need[s][r], lines[id][r].have + qty)
        BY <3>1, <4>1 DEF Line
      <4>3. QED
        BY <3>1, <3>2, <3>3, <3>5, <4>2 DEF Least
    <3>6. QED
      BY <3>4, <3>5
  <2>3. QED
    BY <2>1, <2>2, FinishedRowsAreKept
<1>3. QED
  BY <1>0, <1>1, <1>2, PTL DEF Spec, FinishedCheckGrowsOnlyFromStock

-----------------------------------------------------------------------------
(* SetChecks implements CheckBook                                            *)

\* A save is an entry under the number of the copy's draft, or under a new one.
LEMMA SaveIsAnEntry ==
  ASSUME NEW short, IInv(short), NEW ss \in Sessions, copy[ss] # NoCopy, copy[ss].step # "pushing",
         NEW status \in {"draft", "done"}, WriteCheck(copy[ss], status)
  PROVE  /\ B!Enter(SavedId(copy[ss]), copy[ss].set, copy[ss].kind, status)
         /\ SavedId(copy[ss]) \in CheckIds /\ copy[ss].set \in Sets /\ copy[ss].kind \in Kinds
         /\ copy[ss].status = "draft"
         /\ copy[ss].id = 0 => B!New(SavedId(copy[ss]), copy[ss].set, copy[ss].kind)
         /\ copy[ss].id # 0 => SavedId(copy[ss]) \in B!Unfinished(copy[ss].set, copy[ss].kind)
<1> DEFINE c == copy[ss]
           id == SavedId(c)
<1>1. /\ id \in CheckIds
      /\ checks' = [checks EXCEPT ![id] = [status |-> status, set |-> c.set, kind |-> c.kind]]
  BY WriteCheckSafe
<1>2. /\ c \in Copy /\ c.status = "draft"
      /\ c.id = 0 => Drafts(c.set, c.kind) = {}
      /\ c.id # 0 => /\ c.id \in CheckIds /\ checks[c.id].status = "draft"
                     /\ checks[c.id].set = c.set /\ checks[c.id].kind = c.kind
  BY CopyFacts
<1>3. \A i \in CheckIds : /\ checks[i] # NoRow <=> checks[i].status # "none"
                          /\ checks[i] # NoRow => i < nextId
  BY RowCases DEF IInv, TypeInv, IdsBelowNext
<1>4. \A s, k : B!Unfinished(s, k) = Drafts(s, k)
  BY <1>3 DEF B!Unfinished, Drafts
<1>5. c.id = 0 => B!New(id, c.set, c.kind)
  BY <1>2, <1>3, <1>4 DEF B!New, SavedId
<1>6. c.id # 0 => id \in B!Unfinished(c.set, c.kind)
  BY <1>1, <1>2, <1>4 DEF SavedId, Drafts
<1>7. B!Enter(id, c.set, c.kind, status) /\ c.set \in Sets /\ c.kind \in Kinds
  BY <1>1, <1>2 DEF B!Enter, Copy
<1>8. QED
  BY <1>1, <1>2, <1>5, <1>6, <1>7

\* Spares that leave the stock are a use of some of them.
LEMMA TakeIsAUse ==
  ASSUME TypeOK, NEW p \in Parts, NEW qty \in Nat \ {0}, NEW to \in Sets, TakeLoose(p, qty, to),
         UNCHANGED checks, \A s \in Sets : setState'[s].last = setState[s].last
  PROVE  B!Next
<1>1. loose[p] \in Nat /\ qty \in 1 .. loose[p]
  BY DEF TakeLoose, TypeOK
<1>2. B!Use(p, qty)
  BY DEF B!Use, TakeLoose
<1>3. QED
  BY <1>1, <1>2 DEF B!Next

\* Steps that only concern copies.
LEMMA CopyStepsAreStuttering ==
  ASSUME UNCHANGED tables PROVE UNCHANGED B!vars
BY DEF tables, B!vars

LEMMA BookStep ==
  ASSUME ~Faults, OneOwner, NEW short, IInv(short), [Next]_vars
  PROVE  B!Next \/ UNCHANGED B!vars
<1>0. /\ TypeOK
      /\ \A ss \in Sessions : copy[ss].step \in {"saving", "marking", "pushing"} => copy[ss] # NoCopy
  BY DEF IInv, TypeInv, NoCopy
<1>1. ASSUME NEW ss \in Sessions, EagerSave(ss) \/ SaveForLater(ss), copy[ss].step # "pushing"
      PROVE  B!Next \/ UNCHANGED B!vars
  <2> DEFINE c == copy[ss]
             id == SavedId(c)
  <2>1. c # NoCopy /\ WriteCheck(c, c.status) /\ UNCHANGED <<setState, loose>>
    BY <1>0, <1>1 DEF EagerSave, RowWanted, SaveForLater, OnScreen
  <2>2. c.status = "draft"
    BY <1>1, <2>1, CopyFacts
  <2>3. /\ B!Enter(id, c.set, c.kind, "draft")
        /\ id \in CheckIds /\ c.set \in Sets /\ c.kind \in Kinds
        /\ c.id = 0 => B!New(id, c.set, c.kind)
        /\ c.id # 0 => id \in B!Unfinished(c.set, c.kind)
    BY <1>1, <2>1, <2>2, SaveIsAnEntry
  <2>4. CASE c.id = 0
    <3>1. B!Draft(id, c.set, c.kind)
      BY <2>1, <2>3, <2>4 DEF B!Draft
    <3>2. QED
      BY <2>3, <3>1 DEF B!Next
  <2>5. CASE c.id # 0
    <3>1. checks[id] = [status |-> "draft", set |-> c.set, kind |-> c.kind]
      BY <1>0, <2>3, <2>5 DEF B!Unfinished, TypeOK, Row, NoRow
    <3>2. checks' = checks
      BY <1>0, <2>3, <3>1 DEF B!Enter, TypeOK
    <3>3. QED
      BY <2>1, <3>2 DEF B!vars
  <2>6. QED
    BY <2>4, <2>5
<1>2. ASSUME NEW ss \in Sessions, SaveForLater(ss), copy[ss].step = "pushing"
      PROVE  UNCHANGED B!vars
  <2>1. UNCHANGED checks
    BY <1>2, PushingSave DEF SaveForLater
  <2>2. QED
    BY <1>2, <2>1 DEF SaveForLater, B!vars
<1>3. ASSUME NEW ss \in Sessions, Finish(ss) PROVE B!Next
  <2> DEFINE c == copy[ss]
             id == SavedId(c)
  <2>1. c # NoCopy /\ c.step # "pushing" /\ WriteCheck(c, "done")
    BY <1>0, <1>3 DEF Finish
  <2>2. /\ B!Enter(id, c.set, c.kind, "done")
        /\ id \in CheckIds /\ c.set \in Sets /\ c.kind \in Kinds
        /\ c.id = 0 => B!New(id, c.set, c.kind)
        /\ c.id # 0 => id \in B!Unfinished(c.set, c.kind)
    BY <2>1, SaveIsAnEntry
  <2>3. \A p \in Parts : loose'[p] >= loose[p]
    <3>1. c.lines \in [Parts -> Line]
      BY <1>0, <2>1 DEF TypeOK, Copy
    <3>2. \A p \in Parts : loose[p] \in Nat /\ c.lines[p].extra \in Nat
      BY <1>0, <3>1 DEF TypeOK, Line
    <3>3. \A p \in Parts : loose'[p] = loose[p] + c.lines[p].extra
      BY <1>3 DEF Finish
    <3>4. QED
      BY <3>2, <3>3
  <2>4. [s \in Sets |-> setState[s].last]' = [[s \in Sets |-> setState[s].last] EXCEPT ![c.set] = id]
    <3>1. setState' = [setState EXCEPT ![c.set] = [last |-> id, missing |-> Missing(c.set, c.lines)]]
      BY <1>3 DEF Finish
    <3>2. \A s \in Sets : setState'[s].last = IF s = c.set THEN id ELSE setState[s].last
      BY <1>0, <2>2, <3>1 DEF TypeOK
    <3>3. QED
      BY <3>2
  <2>5. PICK i \in CheckIds, s \in Sets, k \in Kinds : i = id /\ s = c.set /\ k = c.kind
    BY <2>2
  <2>6. B!Finish(i, s, k)
    BY <2>2, <2>3, <2>4, <2>5 DEF B!Finish
  <2>7. QED
    BY <2>6 DEF B!Next
<1>4. ASSUME NEW ss \in Sessions, Abandon(ss) PROVE B!Next \/ UNCHANGED B!vars
  <2> DEFINE i == copy[ss].id
  <2>1. UNCHANGED <<setState, loose>>
    BY <1>4 DEF Abandon
  <2>2. CASE i \in CheckIds /\ checks[i].status = "draft"
    <3>1. B!GiveUp(i)
      BY <1>4, <2>1, <2>2 DEF Abandon, B!GiveUp, NoRow
    <3>2. QED
      BY <2>2, <3>1 DEF B!Next
  <2>3. CASE ~(i \in CheckIds /\ checks[i].status = "draft")
    BY <1>4, <2>1, <2>3 DEF Abandon, B!vars
  <2>4. QED
    BY <2>2, <2>3
<1>5. ASSUME NEW ss \in Sessions, NEW p \in Parts, NEW n \in 1 .. MaxTake, TakeIntoCheck(ss, p, n)
      PROVE  B!Next
  <2> DEFINE c == copy[ss]
             gap == Missing(c.set, c.lines)[p]
  <2>1. c \in Copy /\ c.set \in Sets /\ c.lines \in [Parts -> Line]
    BY <1>0, <1>5 DEF TakeIntoCheck, TypeOK, Copy
  <2>2. gap \in Nat /\ gap > 0 /\ n \in Nat \ {0}
    BY <1>5, <2>1, MissingType, ConstantsAssumption DEF TakeIntoCheck
  <2>3. Least(n, gap) \in Nat \ {0}
    BY <2>2 DEF Least
  <2>4. TakeLoose(p, Least(n, gap), c.set) /\ UNCHANGED <<checks, setState>>
    BY <1>5 DEF TakeIntoCheck
  <2>5. QED
    BY <1>0, <2>1, <2>3, <2>4, TakeIsAUse
<1>6. ASSUME NEW s \in Sets, NEW p \in Parts, NEW qty \in 1 .. MaxTake, TakeSpare(s, p, qty)
      PROVE  B!Next
  <2>1. TakeLoose(p, qty, s) /\ UNCHANGED checks /\ qty \in Nat \ {0}
    BY <1>6, ConstantsAssumption DEF TakeSpare
  <2>2. \A t \in Sets : setState'[t].last = setState[t].last
    BY <1>0, <1>6 DEF TakeSpare, TypeOK, SetState
  <2>3. QED
    BY <1>0, <2>1, <2>2, TakeIsAUse
<1>7. ASSUME NEW ss \in Sessions, SessionStep(ss)
      PROVE  \/ UNCHANGED tables
             \/ EagerSave(ss) \/ SaveForLater(ss) \/ Finish(ss) \/ Abandon(ss)
             \/ \E p \in Parts, n \in 1 .. MaxTake : TakeIntoCheck(ss, p, n)
  <2>1. CASE \E s \in Sets, k \in Kinds : ResumeDraft(ss, s, k) \/ StartFromInventory(ss, s, k)
    BY <2>1 DEF ResumeDraft, StartFromInventory
  <2>2. CASE \E s \in Sets : StartRecount(ss, s)
    BY <2>2 DEF StartRecount
  <2>3. CASE \E p \in Parts, h \in 0 .. MaxHave, x \in 0 .. MaxExtra : Mark(ss, p, h, x)
    BY <2>3 DEF Mark
  <2>4. CASE \E p \in Parts, x \in 1 .. MaxExtra : MarkFirstExtra(ss, p, x)
    BY <2>4 DEF MarkFirstExtra
  <2>5. CASE Leave(ss) \/ SaveFails(ss) \/ FinishFails(ss)
    BY <2>5 DEF Leave, SaveFails, FinishFails
  <2>6. QED
    BY <1>7, <2>1, <2>2, <2>3, <2>4, <2>5 DEF SessionStep
<1>8. ASSUME NEW ss \in Sessions, SessionStep(ss) PROVE B!Next \/ UNCHANGED B!vars
  <2>1. CASE EagerSave(ss)
    BY <1>1, <2>1 DEF EagerSave, RowWanted
  <2>2. CASE SaveForLater(ss)
    BY <1>1, <1>2, <2>2
  <2>3. QED
    BY <1>3, <1>4, <1>5, <1>7, <1>8, <2>1, <2>2, CopyStepsAreStuttering
<1>9. CASE UNCHANGED vars
  BY <1>9 DEF vars, B!vars
<1>10. QED
  BY <1>6, <1>8, <1>9 DEF Next

\* Entries that are finished stay, and a new one gets a number of its own.
LEMMA LastStaysDone ==
  ASSUME TypeOK, B!LastIsDone, B!Next \/ UNCHANGED B!vars
  PROVE  B!LastIsDone'
<1> DEFINE Last(s) == setState[s].last
<1>1. \A s \in Sets : Last(s) # 0 =>
        Last(s) \in CheckIds /\ checks[Last(s)] # NoRow
                            /\ checks[Last(s)].status = "done" /\ checks[Last(s)].set = s
  BY DEF B!LastIsDone
<1>2. ASSUME \A s \in Sets : setState'[s].last # 0 =>
               setState'[s].last \in CheckIds /\ checks'[setState'[s].last] # NoRow
                 /\ checks'[setState'[s].last].status = "done" /\ checks'[setState'[s].last].set = s
      PROVE  B!LastIsDone'
  BY <1>2 DEF B!LastIsDone
<1>3. DOMAIN checks = CheckIds
  BY DEF TypeOK
<1>4. ASSUME NEW id \in CheckIds, NEW s \in Sets, NEW k \in Kinds, B!New(id, s, k) \/ id \in B!Unfinished(s, k)
      PROVE  \A t \in Sets : Last(t) # 0 => Last(t) # id
  BY <1>1, <1>4 DEF B!New, B!Unfinished, CheckIds
<1>5. ASSUME NEW id \in CheckIds, NEW s \in Sets, NEW k \in Kinds, B!Draft(id, s, k)
      PROVE  B!LastIsDone'
  <2>1. /\ \A i \in CheckIds : i # id => checks'[i] = checks[i]
        /\ \A t \in Sets : setState'[t].last = Last(t)
    BY <1>3, <1>5 DEF B!Draft, B!Enter
  <2>2. QED
    BY <1>1, <1>2, <1>4, <1>5, <2>1 DEF B!Draft
<1>6. ASSUME NEW id \in CheckIds, NEW s \in Sets, NEW k \in Kinds, B!Finish(id, s, k)
      PROVE  B!LastIsDone'
  <2>1. /\ \A i \in CheckIds : i # id => checks'[i] = checks[i]
        /\ checks'[id] = [status |-> "done", set |-> s, kind |-> k]
    BY <1>3, <1>6 DEF B!Finish, B!Enter
  <2>2. \A t \in Sets : setState'[t].last = IF t = s THEN id ELSE Last(t)
    <3>1. [t \in Sets |-> setState'[t].last] = [[t \in Sets |-> Last(t)] EXCEPT ![s] = id]
      BY <1>6 DEF B!Finish
    <3>2. QED
      BY <3>1
  <2>3. checks'[id] # NoRow
    BY <2>1 DEF NoRow
  <2>4. QED
    BY <1>1, <1>2, <1>4, <1>6, <2>1, <2>2, <2>3 DEF B!Finish
<1>7. ASSUME NEW id \in CheckIds, B!GiveUp(id) PROVE B!LastIsDone'
  <2>1. /\ \A i \in CheckIds : i # id => checks'[i] = checks[i]
        /\ checks[id].status = "draft" /\ \A t \in Sets : setState'[t].last = Last(t)
    BY <1>3, <1>7 DEF B!GiveUp
  <2>2. QED
    BY <1>1, <1>2, <2>1
<1>8. ASSUME UNCHANGED <<checks, [s \in Sets |-> setState[s].last]>> PROVE B!LastIsDone'
  <2>1. checks' = checks /\ \A t \in Sets : setState'[t].last = Last(t)
    BY <1>8
  <2>2. QED
    BY <1>1, <1>2, <2>1
<1>9. QED
  BY <1>5, <1>6, <1>7, <1>8 DEF B!Next, B!Use, B!vars

\* Where sessions keep to their own sets and no write fails, all their private
\* copies, resumed, saved, finished, pushed or abandoned in any order, come to
\* one book of checks and one stock, changed one entry at a time.
THEOREM ChecksImplementTheBook ==
  ASSUME ~Faults, OneOwner
  PROVE  Spec => ImplementsCheckBook
<1>0. Init => IInv(TRUE)
  BY IInvInit
<1>1. IInv(TRUE) /\ [Next]_vars => IInv(TRUE)'
  BY IInvStep
<1>2. Init => B!Init
  BY DEF Init, B!Init
<1>3. IInv(TRUE) /\ [Next]_vars => [B!Next]_(B!vars)
  BY BookStep
<1>4. QED
  BY <1>0, <1>1, <1>2, <1>3, PTL DEF Spec, ImplementsCheckBook, B!Spec

\* Where sessions keep to their own sets and no write fails, a set's last_check_id
\* names a finished check of that set for good, pushed to Part-DB or not.
THEOREM LastChecksAreFinished ==
  ASSUME ~Faults, OneOwner
  PROVE  Spec => []B!LastIsDone
<1> DEFINE Inv == IInv(TRUE) /\ B!LastIsDone
<1>0. Init => B!LastIsDone
  BY DEF Init, B!LastIsDone
<1>1. Init => Inv
  BY <1>0, IInvInit
<1>2. Inv /\ [Next]_vars => Inv'
  BY IInvStep, BookStep, LastStaysDone DEF IInv, TypeInv
<1>3. Inv => B!LastIsDone
  OBVIOUS
<1>4. QED
  BY <1>1, <1>2, <1>3, PTL DEF Spec

-----------------------------------------------------------------------------
(* Writes that fail, and a set that is pushed to Part-DB after its check: what *)
(* still holds when one session works on checks at a time.  A copy that is not *)
(* marked done either has no row, and then its job has no draft, or names a    *)
(* row that is not finished: the row of its draft, or one that was rolled back *)
(* after the copy got its id.  With two sessions the second half is false: the *)
(* rolled-back id is given to the other session's check.                       *)

OneSession == \A ss1, ss2 \in Sessions : ss1 = ss2

NamesNoDoneRow(c) ==
  c.status = "draft" =>
    IF c.id = 0 THEN Drafts(c.set, c.kind) = {}
    ELSE c.id \in CheckIds => checks[c.id].status # "done"

FInv ==
  /\ TypeInv
  /\ IdsBelowNext
  /\ OneDraftPerJob
  /\ \A ss \in Sessions : copy[ss] # NoCopy => NamesNoDoneRow(copy[ss])

DoneStays == \A id \in CheckIds : checks[id].status = "done" => checks'[id].status = "done"

\* What a save writes for such a copy: a new row under a new id, the status
\* "done", or the status its row has already.
LEMMA LoneWrite ==
  ASSUME FInv, NEW c \in Copy, NamesNoDoneRow(c), NEW status \in {c.status, "done"},
         WriteCheck(c, status)
  PROVE  /\ OneDraftPerJob' /\ IdsBelowNext' /\ DoneStays
         /\ SavedId(c) \in CheckIds /\ SavedId(c) # 0
         /\ status = "draft" => checks'[SavedId(c)].status # "done"
<1> DEFINE id == SavedId(c)
<1>1. /\ id \in CheckIds /\ id # 0 /\ id \in Nat
      /\ nextId \in Nat
      /\ nextId' = IF c.id = 0 THEN nextId + 1 ELSE nextId
      /\ checks'[id] = SavedRow(c, status, checks[id])
      /\ \A i \in CheckIds : i # id => checks'[i] = checks[i]
  BY ConstantsAssumption DEF WriteCheck, FInv, TypeInv, TypeOK, CheckIds
<1>2. c.status \in {"draft", "done"} /\ status \in {"draft", "done"}
  BY DEF Copy
<1>3. CASE c.id = 0
  <2>1. id = nextId
    BY <1>3 DEF SavedId
  <2>2. checks[id].status = "none"
    BY <1>1, <2>1 DEF FInv, IdsBelowNext
  <2>3. checks'[id] = [status |-> status, set |-> c.set, kind |-> c.kind]
    BY <1>1, <1>3 DEF SavedRow
  <2>4. IdsBelowNext'
    BY <1>1, <1>3, <2>1 DEF FInv, IdsBelowNext, CheckIds
  <2>5. DoneStays
    BY <1>1, <2>2 DEF DoneStays
  <2>6. OneDraftPerJob'
    <3>1. CASE status = "done"
      BY <1>1, <2>3, <3>1 DEF FInv, OneDraftPerJob
    <3>2. CASE status = "draft"
      <4>1. Drafts(c.set, c.kind) = {}
        BY <1>2, <1>3, <3>2 DEF NamesNoDoneRow
      <4>2. QED
        BY <1>1, <2>3, <4>1 DEF FInv, OneDraftPerJob, Drafts
    <3>3. QED
      BY <1>2, <3>1, <3>2
  <2>7. QED
    BY <1>1, <2>3, <2>4, <2>5, <2>6
<1>4. CASE c.id # 0
  <2>1. id = c.id
    BY <1>4 DEF SavedId
  <2>2. checks[id] \in Row \/ checks[id] = NoRow
    BY <1>1 DEF FInv, TypeInv, TypeOK
  <2>3. /\ checks'[id].status = "none" <=> checks[id].status = "none"
        /\ checks'[id].status # "none" => /\ checks'[id].status = status
                                          /\ checks'[id].set = checks[id].set
                                          /\ checks'[id].kind = checks[id].kind
    BY <1>1, <1>2, <1>4, <2>2 DEF SavedRow, Row, NoRow
  <2>4. status = "draft" => checks[id].status # "done"
    BY <1>1, <1>2, <1>4, <2>1 DEF NamesNoDoneRow
  <2>5. /\ status = "draft" => checks'[id].status = checks[id].status
        /\ status = "done" => checks'[id].status # "draft"
    BY <2>2, <2>3, <2>4 DEF Row, NoRow
  <2>6. IdsBelowNext'
    BY <1>1, <1>4, <2>3 DEF FInv, IdsBelowNext
  <2>7. DoneStays
    BY <1>1, <1>2, <2>3, <2>4 DEF DoneStays
  <2>8. \A i \in CheckIds : checks'[i].status = "draft" =>
          checks[i].status = "draft" /\ checks'[i].set = checks[i].set /\ checks'[i].kind = checks[i].kind
    BY <1>1, <1>2, <2>3, <2>5
  <2>9. OneDraftPerJob'
    BY <2>8 DEF FInv, OneDraftPerJob
  <2>10. QED
    BY <1>1, <2>4, <2>5, <2>6, <2>7, <2>9
<1>5. QED
  BY <1>3, <1>4

\* Steps that leave the rows and their counter alone.
LEMMA LoneCopy ==
  ASSUME OneSession, FInv, TypeInv', UNCHANGED <<checks, nextId>>, NEW ss \in Sessions,
         copy'[ss] = NoCopy \/ NamesNoDoneRow(copy'[ss])
  PROVE  FInv' /\ DoneStays
<1>1. \A t \in Sessions : copy'[t] # NoCopy => NamesNoDoneRow(copy'[t])
  BY DEF OneSession
<1>2. (\A t \in Sessions : copy[t] # NoCopy => NamesNoDoneRow(copy[t]))'
  BY <1>1 DEF NamesNoDoneRow, Drafts
<1>3. QED
  BY <1>2 DEF FInv, IdsBelowNext, OneDraftPerJob, DoneStays

\* A step after which the only session holds no copy, or a good one.
LEMMA LoneSession ==
  ASSUME OneSession, TypeInv', OneDraftPerJob', IdsBelowNext', NEW ss \in Sessions,
         copy'[ss] = NoCopy \/ (NamesNoDoneRow(copy[ss]))'
  PROVE  FInv'
BY DEF OneSession, FInv

\* The three saves, the abandoned check, and every step of the copy alone.
LEMMA LoneStep == ASSUME OneSession, FInv, [Next]_vars PROVE FInv' /\ DoneStays
<1>t. TypeInv'
  BY TypeInvStep DEF FInv
<1>1. ASSUME NEW ss \in Sessions, NEW s \in Sets, NEW k \in Kinds,
             ResumeDraft(ss, s, k) \/ StartFromInventory(ss, s, k) \/ StartRecount(ss, s)
      PROVE  FInv' /\ DoneStays
  <2>t. \A d : copy' = [copy EXCEPT ![ss] = d] => copy'[ss] = d
    BY DEF FInv, TypeInv, TypeOK
  <2>1. NamesNoDoneRow(copy'[ss])
    <3>1. CASE ResumeDraft(ss, s, k)
      <4>1. PICK id \in CheckIds : /\ IsNewest(id, Drafts(s, k))
                                   /\ copy' = [copy EXCEPT ![ss] = NewCopy(ss, id, s, k, lines[id])]
        BY <3>1 DEF ResumeDraft
      <4>2. copy'[ss] = NewCopy(ss, id, s, k, lines[id])
        BY <2>t, <4>1
      <4>3. NamesNoDoneRow(NewCopy(ss, id, s, k, lines[id]))
        BY <4>1 DEF NamesNoDoneRow, NewCopy, IsNewest, Drafts, CheckIds
      <4>4. QED
        BY <4>2, <4>3
    <3>2. CASE StartFromInventory(ss, s, k)
      <4>1. copy'[ss] = NewCopy(ss, 0, s, k, FullLines(s)) /\ Drafts(s, k) = {}
        BY <2>t, <3>2 DEF StartFromInventory
      <4>2. NamesNoDoneRow(NewCopy(ss, 0, s, k, FullLines(s)))
        BY <4>1 DEF NamesNoDoneRow, NewCopy
      <4>3. QED
        BY <4>1, <4>2
    <3>3. CASE StartRecount(ss, s)
      <4>1. PICK ls : copy'[ss] = NewCopy(ss, 0, s, "recount", ls) /\ Drafts(s, "recount") = {}
        BY <2>t, <3>3 DEF StartRecount
      <4>2. NamesNoDoneRow(NewCopy(ss, 0, s, "recount", ls))
        BY <4>1 DEF NamesNoDoneRow, NewCopy
      <4>3. QED
        BY <4>1, <4>2
    <3>4. QED
      BY <1>1, <3>1, <3>2, <3>3
  <2>2. UNCHANGED <<checks, nextId>>
    BY <1>1 DEF ResumeDraft, StartFromInventory, StartRecount, tables
  <2>3. QED
    BY <1>t, <2>1, <2>2, LoneCopy
<1>2. ASSUME NEW ss \in Sessions, NEW p \in Parts,
             \/ \E h \in 0 .. MaxHave, x \in 0 .. MaxExtra : Mark(ss, p, h, x)
             \/ \E x \in 1 .. MaxExtra : MarkFirstExtra(ss, p, x)
             \/ \E n \in 1 .. MaxTake : TakeIntoCheck(ss, p, n)
      PROVE  FInv' /\ DoneStays
  <2>1. copy[ss] # NoCopy /\ copy[ss] \in Copy /\ NamesNoDoneRow(copy[ss])
    <3>1. copy[ss].step \in {"marking", "pushing"}
      BY <1>2 DEF Mark, OnScreen, MarkFirstExtra, TakeIntoCheck
    <3>2. QED
      BY <3>1 DEF NoCopy, FInv, TypeInv, TypeOK
  <2>2. /\ copy'[ss].id = copy[ss].id /\ copy'[ss].status = copy[ss].status
        /\ copy'[ss].set = copy[ss].set /\ copy'[ss].kind = copy[ss].kind
    <3>1. CASE \E h \in 0 .. MaxHave, x \in 0 .. MaxExtra : Mark(ss, p, h, x)
      BY <2>1, <3>1 DEF Mark, FInv, TypeInv, TypeOK, Copy
    <3>2. CASE \E x \in 1 .. MaxExtra : MarkFirstExtra(ss, p, x)
      BY <2>1, <3>2 DEF MarkFirstExtra, FInv, TypeInv, TypeOK, Copy
    <3>3. CASE \E n \in 1 .. MaxTake : TakeIntoCheck(ss, p, n)
      BY <2>1, <3>3 DEF TakeIntoCheck, FInv, TypeInv, TypeOK, Copy
    <3>4. QED
      BY <1>2, <3>1, <3>2, <3>3
  <2>3. NamesNoDoneRow(copy'[ss])
    BY <2>1, <2>2 DEF NamesNoDoneRow
  <2>4. UNCHANGED <<checks, nextId>>
    BY <1>2 DEF Mark, MarkFirstExtra, TakeIntoCheck, tables
  <2>5. QED
    BY <1>t, <2>3, <2>4, LoneCopy
<1>3. ASSUME NEW ss \in Sessions, Leave(ss)
      PROVE  FInv' /\ DoneStays
  <2>1. copy'[ss] = NoCopy /\ UNCHANGED <<checks, nextId>>
    BY <1>3 DEF Leave, tables, FInv, TypeInv, TypeOK
  <2>2. QED
    BY <1>t, <2>1, LoneCopy
<1>4. ASSUME NEW ss \in Sessions, SaveFails(ss) \/ FinishFails(ss)
      PROVE  FInv' /\ DoneStays
  <2>1. copy[ss] # NoCopy /\ copy[ss] \in Copy /\ NamesNoDoneRow(copy[ss])
    BY <1>4 DEF SaveFails, FinishFails, NoCopy, FInv, TypeInv, TypeOK
  <2>2. PICK id \in IdsAfterRollback(copy[ss]) :
           /\ copy'[ss].id = id /\ copy'[ss].set = copy[ss].set /\ copy'[ss].kind = copy[ss].kind
           /\ copy'[ss].status \in {copy[ss].status, "done"}
    <3>1. CASE SaveFails(ss)
      BY <2>1, <3>1 DEF SaveFails, FInv, TypeInv, TypeOK, Copy
    <3>2. CASE FinishFails(ss)
      BY <2>1, <3>2 DEF FinishFails, FInv, TypeInv, TypeOK, Copy
    <3>3. QED
      BY <1>4, <3>1, <3>2
  <2>3. id = copy[ss].id \/ (id # 0 /\ (id \in CheckIds => checks[id].status = "none"))
    BY DEF IdsAfterRollback, FInv, TypeInv, TypeOK, IdsBelowNext
  <2>4. NamesNoDoneRow(copy'[ss])
    BY <2>1, <2>2, <2>3 DEF NamesNoDoneRow
  <2>5. UNCHANGED <<checks, nextId>>
    BY <1>4 DEF SaveFails, FinishFails, tables
  <2>6. QED
    BY <1>t, <2>4, <2>5, LoneCopy
<1>5. ASSUME NEW ss \in Sessions, EagerSave(ss)
      PROVE  FInv' /\ DoneStays
  <2> DEFINE c == copy[ss]
  <2>1. /\ c \in Copy /\ NamesNoDoneRow(c) /\ WriteCheck(c, c.status)
        /\ copy' = [copy EXCEPT ![ss].id = SavedId(c), ![ss].step = "marking"]
    BY <1>5 DEF EagerSave, RowWanted, NoCopy, FInv, TypeInv, TypeOK
  <2>2. /\ OneDraftPerJob' /\ IdsBelowNext' /\ DoneStays
        /\ SavedId(c) # 0
        /\ c.status = "draft" => checks'[SavedId(c)].status # "done"
    BY <2>1, LoneWrite
  <2>3. copy'[ss].id = SavedId(c) /\ copy'[ss].status = c.status
    BY <2>1 DEF FInv, TypeInv, TypeOK, Copy
  <2>4. (NamesNoDoneRow(copy[ss]))'
    BY <2>2, <2>3 DEF NamesNoDoneRow
  <2>5. QED
    BY <1>t, <2>2, <2>4, LoneSession
<1>6. ASSUME NEW ss \in Sessions, SaveForLater(ss)
      PROVE  FInv' /\ DoneStays
  <2> DEFINE c == copy[ss]
  <2>1. /\ c \in Copy /\ NamesNoDoneRow(c) /\ WriteCheck(c, c.status)
        /\ copy'[ss] = NoCopy
    BY <1>6 DEF SaveForLater, OnScreen, NoCopy, FInv, TypeInv, TypeOK
  <2>2. OneDraftPerJob' /\ IdsBelowNext' /\ DoneStays
    BY <2>1, LoneWrite
  <2>3. QED
    BY <1>t, <2>1, <2>2, LoneSession
<1>7. ASSUME NEW ss \in Sessions, Finish(ss)
      PROVE  FInv' /\ DoneStays
  <2> DEFINE c == copy[ss]
  <2>1. /\ c \in Copy /\ NamesNoDoneRow(c) /\ WriteCheck(c, "done")
        /\ copy'[ss] = AfterFinish(ss, c, SavedId(c))
    BY <1>7 DEF Finish, NoCopy, FInv, TypeInv, TypeOK
  <2>2. OneDraftPerJob' /\ IdsBelowNext' /\ DoneStays
    BY <2>1, LoneWrite
  <2>3. copy'[ss] = NoCopy \/ copy'[ss].status = "done"
    BY <2>1 DEF AfterFinish, Copy
  <2>4. copy'[ss] = NoCopy \/ (NamesNoDoneRow(copy[ss]))'
    BY <2>3 DEF NamesNoDoneRow
  <2>5. QED
    BY <1>t, <2>2, <2>4, LoneSession
<1>8. ASSUME NEW ss \in Sessions, Abandon(ss)
      PROVE  FInv' /\ DoneStays
  <2>1. \A i \in CheckIds : \/ checks'[i] = checks[i]
                            \/ checks[i].status = "draft" /\ checks'[i] = NoRow
    BY <1>8 DEF Abandon, FInv, TypeInv, TypeOK
  <2>2. copy'[ss] = NoCopy /\ nextId' = nextId
    BY <1>8 DEF Abandon, FInv, TypeInv, TypeOK
  <2>3. OneDraftPerJob' /\ IdsBelowNext' /\ DoneStays
    BY <2>1, <2>2 DEF FInv, OneDraftPerJob, IdsBelowNext, DoneStays, NoRow
  <2>4. QED
    BY <1>t, <2>2, <2>3, LoneSession
<1>9. ASSUME NEW s \in Sets, NEW p \in Parts, NEW qty \in 1 .. MaxTake, TakeSpare(s, p, qty)
      PROVE  FInv' /\ DoneStays
  BY <1>9, <1>t DEF TakeSpare, FInv, IdsBelowNext, OneDraftPerJob, NamesNoDoneRow, Drafts, DoneStays
<1>10. CASE UNCHANGED vars
  BY <1>10, <1>t DEF vars, FInv, IdsBelowNext, OneDraftPerJob, NamesNoDoneRow, Drafts, DoneStays
<1>11. QED
  BY <1>1, <1>2, <1>3, <1>4, <1>5, <1>6, <1>7, <1>8, <1>9, <1>10 DEF Next, SessionStep, Kinds

LEMMA LoneInit == Init => FInv
<1>1. Init => TypeInv
  BY ConstantsAssumption DEF Init, TypeInv, TypeOK, RowsHaveLines, SetState, NoRow
<1>2. QED
  BY <1>1 DEF Init, FInv, IdsBelowNext, OneDraftPerJob, NoRow

\* A save or a finish that fails, retried or not, never leaves one session's job
\* with two drafts.
THEOREM FailedWritesLeaveOneDraft ==
  ASSUME OneSession
  PROVE  Spec => []OneDraftPerJob
<1>1. FInv /\ [Next]_vars => FInv'
  BY LoneStep
<1>2. FInv => OneDraftPerJob
  BY DEF FInv
<1>3. QED
  BY LoneInit, <1>1, <1>2, PTL DEF Spec

\* ... and never reopens or deletes a check that is finished.
THEOREM FailedWritesReopenNothing ==
  ASSUME OneSession
  PROVE  Spec => FinishedStaysFinished
<1>1. FInv /\ [Next]_vars => FInv'
  BY LoneStep
<1>2. FInv /\ [Next]_vars =>
        [\A id \in CheckIds : checks[id].status = "done" => checks'[id].status = "done"]_vars
  BY LoneStep DEF DoneStays
<1>3. QED
  BY LoneInit, <1>1, <1>2, PTL DEF Spec, FinishedStaysFinished
=============================================================================
