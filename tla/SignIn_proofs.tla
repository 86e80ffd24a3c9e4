----------------------------- MODULE SignIn_proofs -----------------------------
(***************************************************************************)
(* Machine-checked proofs about SignIn: codes are taken once, wrong codes   *)
(* and recorded wrong passwords are all counted, and nobody skips the code  *)
(* by grace but by one that a code earned, for every number of terminals    *)
(* and phones and every limit.                                              *)
(***************************************************************************)
EXTENDS SignIn, TLAPS

\* What the lock file gives: one caller at a time has read the entry, and nobody has
\* changed it since.
LockOK ==
  /\ held \in [Actors -> {Nothing} \cup [code : Codes, entry : Entry]]
  /\ \A a, b \in Actors : held[a] # Nothing /\ held[b] # Nothing => a = b
  /\ \A a \in Actors : held[a] # Nothing => held[a].entry = e

\* A code that was taken is not newer than LastStep, or no backup code any more.
UsesOK ==
  /\ uses \in [Codes -> Nat]
  /\ e.state # "enabled" => \A c \in Codes : uses[c] = 0
  /\ \A s \in Steps : uses[s] <= 1 /\ (uses[s] > 0 => s <= e.last)
  /\ \A b \in BackupCodes : uses[b] <= 1 /\ (uses[b] > 0 => b \notin e.backup)
  /\ uses[Wrong] = 0

EntryOK == e \in Entry /\ e.failures < MaxFailures

\* The lockout is on, or the failures in a row have all been counted.
PwOK ==
  /\ pw \in [fails : Nat, set : BOOLEAN, left : Nat] /\ pw.fails < MaxFailures
  /\ wrong \in Nat /\ (pw.set \/ wrong <= pw.fails)

\* Wrong codes are counted whether the account is enabled or not (there are none then).
GuessesOK == guesses \in Nat /\ guesses = e.failures + MaxFailures * e.locks

-----------------------------------------------------------------------------
LEMMA Limits ==
  /\ MaxFailures \in Nat /\ MaxFailures > 0
  /\ LockFor \in Nat /\ Window \in Nat
BY SignInAssumption

LEMMA CodesApart ==
  /\ Codes = Steps \cup BackupCodes \cup {Wrong}
  /\ Steps \cap BackupCodes = {} /\ Wrong \notin Steps /\ Wrong \notin BackupCodes
  /\ Nothing \notin [code : Codes, entry : Entry]
<1>1. Codes = BackupCodes \cup {-1, 0, 1, Wrong}
  BY DEF Codes, Steps
<1>2. QED
  BY <1>1, SignInAssumption DEF Codes, Steps

LEMMA NoEntryIs ==
  NoEntry \in Entry /\ NoEntry.failures = 0 /\ NoEntry.locks = 0 /\ NoEntry.state = "none"
BY DEF NoEntry, Entry

LEMMA lockForIs ==
  ASSUME NEW n \in Nat, n > 0 PROVE lockFor(n) \in Nat
<1>1. LockTimes \in Seq(Nat \ {0}) /\ Len(LockTimes) \in Nat /\ Len(LockTimes) # 0
  BY SignInAssumption
<1>2. \A i \in 1 .. Len(LockTimes) : LockTimes[i] \in Nat
  BY <1>1
<1>3. QED
  BY <1>1, <1>2 DEF lockFor

\* What is counted stays counted: fewer failures than lock, and one guess more.
LEMMA CountedIs ==
  ASSUME NEW x \in Entry, x.failures < MaxFailures, x.state = "enabled"
  PROVE  /\ Counted(x) \in Entry /\ Counted(x).failures < MaxFailures
         /\ Counted(x).state = "enabled" /\ Counted(x).last = x.last /\ Counted(x).backup = x.backup
         /\ Counted(x).failures + MaxFailures * Counted(x).locks
              = x.failures + MaxFailures * x.locks + 1
<1>x. x.failures \in Nat /\ x.locks \in Nat
  BY DEF Entry
<1>1. CASE x.failures + 1 < MaxFailures
  <2>1. Counted(x) = [x EXCEPT !.failures = x.failures + 1]
    BY <1>1 DEF Counted
  <2>2. Counted(x) \in Entry
    BY <1>x, <2>1 DEF Entry
  <2>3. /\ Counted(x).failures = x.failures + 1 /\ Counted(x).locks = x.locks
        /\ Counted(x).state = x.state /\ Counted(x).last = x.last /\ Counted(x).backup = x.backup
    BY <2>1 DEF Entry
  <2>4. MaxFailures * x.locks \in Int
    BY <1>x, Limits
  <2>5. QED
    BY <1>1, <1>x, <2>2, <2>3, <2>4, Limits
<1>2. CASE ~(x.failures + 1 < MaxFailures)
  <2>1. x.failures + 1 = MaxFailures
    BY <1>2, <1>x, Limits
  <2>2. Counted(x) = [x EXCEPT !.failures = 0, !.locks = x.locks + 1, !.left = lockFor(x.locks + 1)]
    BY <1>2 DEF Counted
  <2>3. lockFor(x.locks + 1) \in Nat
    BY <1>x, lockForIs
  <2>8. PICK n \in Nat, l \in Nat : n = x.locks + 1 /\ l = lockFor(x.locks + 1)
    BY <1>x, <2>3
  <2>9. [x EXCEPT !.failures = 0, !.locks = n, !.left = l] \in Entry
    BY DEF Entry
  <2>4. Counted(x) \in Entry
    BY <2>2, <2>8, <2>9
  <2>5. /\ Counted(x).failures = 0 /\ Counted(x).locks = x.locks + 1
        /\ Counted(x).state = x.state /\ Counted(x).last = x.last /\ Counted(x).backup = x.backup
    BY <2>2 DEF Entry
  <2>6. MaxFailures * (x.locks + 1) = MaxFailures * x.locks + MaxFailures /\ MaxFailures * x.locks \in Int
    BY <1>x, Limits
  <2>7. QED
    BY <1>x, <2>1, <2>4, <2>5, <2>6, Limits
<1>3. QED
  BY <1>1, <1>2

LEMMA ClearedIs ==
  ASSUME NEW x \in Entry
  PROVE  /\ Cleared(x) \in Entry /\ Cleared(x).failures = 0 /\ Cleared(x).locks = 0
         /\ Cleared(x).state = x.state /\ Cleared(x).last = x.last /\ Cleared(x).backup = x.backup
BY DEF Cleared, Entry

\* What a call of Verify makes of the entry.
LEMMA VerifyIs ==
  ASSUME NEW x \in Entry, NEW c \in Codes, x.failures < MaxFailures
  PROVE  LET v == Verify(x, c)
         IN  /\ v.says \in {"refused", "reused", "ok", "wrong"}
             /\ v.saves \in Entry /\ v.saves.failures < MaxFailures /\ v.saves.state = x.state
             /\ v.says \in {"ok", "wrong"} => x.state = "enabled"
             /\ v.says = "wrong" => v.saves = Counted(x)
             /\ v.says = "ok" =>
                  /\ v.saves.failures = 0 /\ v.saves.locks = 0
                  /\ c \in Steps => x.last < c /\ v.saves.last = c /\ v.saves.backup = x.backup
                  /\ c \notin Steps => c \in x.backup /\ v.saves.backup = x.backup \ {c} /\ v.saves.last = x.last
<1>1. CASE Refuses(x)
  BY <1>1 DEF Verify
<1>2. CASE ~Refuses(x) /\ c \in Steps
  <2>1. CASE c <= x.last
    BY <1>2, <2>1 DEF Verify
  <2>2. CASE ~(c <= x.last)
    <3>1. x.last \in Int /\ c \in Int /\ c \in -2 .. 1
      BY <1>2 DEF Entry, Steps
    <3>2. [x EXCEPT !.last = c] \in Entry
      BY <3>1 DEF Entry
    <3>3. PICK y \in Entry : y = [x EXCEPT !.last = c]
      BY <3>2
    <3>4. y.state = x.state /\ y.last = c /\ y.backup = x.backup
      BY <3>3 DEF Entry
    <3>5. Verify(x, c) = [says |-> "ok", saves |-> Cleared(y)]
      BY <1>2, <2>2, <3>3 DEF Verify
    <3>6. QED
      BY <1>2, <2>2, <3>1, <3>4, <3>5, ClearedIs, Limits DEF Refuses
  <2>3. QED
    BY <2>1, <2>2
<1>3. CASE ~Refuses(x) /\ c \notin Steps /\ c \in x.backup
  <2>1. [x EXCEPT !.backup = x.backup \ {c}] \in Entry
    BY DEF Entry
  <2>2. PICK y \in Entry : y = [x EXCEPT !.backup = x.backup \ {c}]
    BY <2>1
  <2>3. y.state = x.state /\ y.last = x.last /\ y.backup = x.backup \ {c}
    BY <2>2 DEF Entry
  <2>4. Verify(x, c) = [says |-> "ok", saves |-> Cleared(y)]
    BY <1>3, <2>2 DEF Verify
  <2>5. QED
    BY <1>3, <2>3, <2>4, ClearedIs, Limits DEF Refuses
<1>4. CASE ~Refuses(x) /\ c \notin Steps /\ c \notin x.backup
  <2>1. Verify(x, c) = [says |-> "wrong", saves |-> Counted(x)] /\ x.state = "enabled"
    BY <1>4 DEF Verify, Refuses
  <2>2. QED
    BY <2>1, CountedIs
<1>5. QED
  BY <1>1, <1>2, <1>3, <1>4

-----------------------------------------------------------------------------
(* The invariant is inductive *)

\* The inductive invariant is this, of the codes, and PwOK, of the password.
CodesOK == LockOK /\ UsesOK /\ EntryOK /\ GuessesOK

LEMMA CodesKept ==
  ASSUME CodesOK, UNCHANGED <<e, held, uses, guesses>> PROVE CodesOK'
BY DEF CodesOK, LockOK, UsesOK, EntryOK, GuessesOK

LEMMA PwKept ==
  ASSUME PwOK, UNCHANGED <<pw, wrong>> PROVE PwOK'
BY DEF PwOK

\* Where nobody has read the entry it may change.
LEMMA LockFree ==
  ASSUME LockOK, Free, UNCHANGED held PROVE LockOK'
BY DEF Free, LockOK

\* The password's steps.
LEMMA PasswordSteps ==
  ASSUME PwOK,
         ResetPassword \/ \E t \in Terminals : AskLocked(t) \/ WrongPassword(t) \/ RightPassword(t)
  PROVE  PwOK' /\ UNCHANGED <<e, held, uses, guesses>>
<1> DEFINE Fresh == [fails |-> 0, set |-> FALSE, left |-> 0]
<1>0. Fresh \in [fails : Nat, set : BOOLEAN, left : Nat] /\ Fresh.fails = 0 /\ ~Fresh.set
  OBVIOUS
<1>1. CASE ResetPassword
  BY <1>1, <1>0, Limits DEF ResetPassword, PwOK
<1>2. ASSUME NEW t \in Terminals, AskLocked(t) PROVE PwOK' /\ UNCHANGED <<e, held, uses, guesses>>
  <2>1. CASE pw.set /\ pw.left = 0
    <3>1. pw' = Fresh /\ wrong' = 0
      BY <1>2, <1>0, <2>1 DEF AskLocked, Current
    <3>2. QED
      BY <1>2, <1>0, <3>1, Limits DEF PwOK, AskLocked
  <2>2. CASE ~(pw.set /\ pw.left = 0)
    <3>1. pw' = pw /\ wrong' = wrong
      BY <1>2, <2>2 DEF AskLocked, Current
    <3>2. QED
      BY <1>2, <3>1, PwKept DEF AskLocked
  <2>3. QED
    BY <2>1, <2>2
<1>3. ASSUME NEW t \in Terminals, WrongPassword(t) PROVE PwOK' /\ UNCHANGED <<e, held, uses, guesses>>
  <2>1. pw.fails \in Nat /\ wrong \in Nat /\ wrong' \in Nat /\ wrong' <= wrong + 1
    BY <1>3, Limits DEF WrongPassword, PwOK
  <2>2. CASE pw.fails + 1 >= MaxFailures
    <3>1. pw' = [fails |-> 0, set |-> TRUE, left |-> LockFor]
      BY <1>3, <2>2 DEF WrongPassword, OneMoreFailure
    <3>2. QED
      BY <1>3, <2>1, <3>1, Limits DEF PwOK, WrongPassword
  <2>3. CASE ~(pw.fails + 1 >= MaxFailures)
    <3>1. pw' = [pw EXCEPT !.fails = pw.fails + 1]
      BY <1>3, <2>3 DEF WrongPassword, OneMoreFailure
    <3>2. PICK n \in Nat : n = pw.fails + 1
      BY <2>1
    <3>3. pw' \in [fails : Nat, set : BOOLEAN, left : Nat] /\ pw'.fails = n /\ pw'.set = pw.set
      BY <3>1, <3>2 DEF PwOK
    <3>4. QED
      BY <1>3, <2>1, <2>3, <3>2, <3>3, Limits DEF PwOK, WrongPassword
  <2>4. QED
    BY <2>2, <2>3
<1>4. ASSUME NEW t \in Terminals, RightPassword(t) PROVE PwOK' /\ UNCHANGED <<e, held, uses, guesses>>
  BY <1>4, <1>0, Limits DEF RightPassword, PwOK
<1>5. UNCHANGED <<e, held, uses, guesses>>
  BY DEF ResetPassword, AskLocked, WrongPassword, RightPassword
<1>6. QED
  BY <1>1, <1>2, <1>3, <1>4, <1>5

\* The administrator's steps.
LEMMA EnrolmentSteps ==
  ASSUME CodesOK, Enroll \/ (\E s \in Steps : Confirm(s)) \/ Disable \/ Unlock
  PROVE  CodesOK' /\ UNCHANGED <<pw, wrong>>
<1>z. MaxFailures * 0 = 0
  BY Limits
<1>u. UNCHANGED <<pw, wrong, held>> /\ Free
  BY DEF Enroll, Confirm, Disable, Unlock
<1>l. LockOK'
  BY <1>u, LockFree DEF CodesOK
<1>n. Unused \in [Codes -> Nat] /\ \A c \in Codes : Unused[c] = 0
  BY DEF Unused
<1>c. /\ Steps \subseteq Codes /\ BackupCodes \subseteq Codes /\ Wrong \in Codes
      /\ \A s \in Steps : s \notin BackupCodes /\ s # Wrong
  BY CodesApart
<1>1. CASE Enroll
  <2>1. e' \in Entry /\ e'.failures = 0 /\ e'.locks = 0 /\ e'.state = "enrolled"
    BY <1>1, NoEntryIs DEF Enroll, Entry
  <2>2. uses' = Unused /\ guesses' = 0
    BY <1>1 DEF Enroll
  <2>3. UsesOK'
    BY <1>n, <1>c, <2>1, <2>2 DEF UsesOK
  <2>4. QED
    BY <1>z, <1>u, <1>l, <2>1, <2>2, <2>3, Limits DEF CodesOK, EntryOK, GuessesOK
<1>2. ASSUME NEW s \in Steps, Confirm(s) PROVE CodesOK'
  <2>1. PICK x \in Entry, b \in SUBSET BackupCodes : x = e /\ b = BackupCodes
    BY DEF CodesOK, EntryOK
  <2>2. /\ e' \in Entry /\ e'.failures = e.failures /\ e'.locks = e.locks
        /\ e'.state = "enabled" /\ e'.last = s /\ e'.backup = BackupCodes
    <3>1. PICK y : y = [x EXCEPT !.state = "enabled", !.backup = b, !.last = s]
      OBVIOUS
    <3>2. e' = y
      BY <1>2, <2>1, <3>1 DEF Confirm
    <3>3. /\ y \in Entry /\ y.failures = x.failures /\ y.locks = x.locks
          /\ y.state = "enabled" /\ y.last = s /\ y.backup = b
      <4>1. s \in -2 .. 1
        BY DEF Steps
      <4>2. QED
        BY <3>1, <4>1 DEF Entry
    <3>4. QED
      BY <2>1, <3>2, <3>3
  <2>0. \A c \in Codes : uses[c] = 0
    BY <1>2 DEF Confirm, CodesOK, UsesOK
  <2>3. uses' \in [Codes -> Nat] /\ \A c \in Codes : uses'[c] = IF c = s THEN 1 ELSE 0
    <3>1. uses \in [Codes -> Nat] /\ s \in Codes /\ uses[s] = 0
      BY <1>c, <2>0 DEF CodesOK, UsesOK
    <3>2. uses' = [uses EXCEPT ![s] = uses[s] + 1]
      BY <1>2 DEF Confirm
    <3>3. QED
      BY <2>0, <3>1, <3>2
  <2>4. UsesOK'
    BY <1>c, <2>0, <2>2, <2>3 DEF CodesOK, UsesOK, Steps
  <2>5. GuessesOK' /\ EntryOK'
    BY <1>2, <2>2 DEF Confirm, CodesOK, GuessesOK, EntryOK
  <2>6. QED
    BY <1>l, <2>4, <2>5 DEF CodesOK
<1>3. CASE Disable
  <2>1. e' \in Entry /\ e'.failures = 0 /\ e'.locks = 0 /\ e'.state = "none" /\ uses' = Unused /\ guesses' = 0
    BY <1>3, NoEntryIs DEF Disable
  <2>2. UsesOK'
    BY <1>n, <1>c, <2>1 DEF UsesOK
  <2>3. QED
    BY <1>z, <1>u, <1>l, <2>1, <2>2, Limits DEF CodesOK, EntryOK, GuessesOK
<1>4. CASE Unlock
  <2>1. /\ e' \in Entry /\ e'.failures = 0 /\ e'.locks = 0
        /\ e'.state = e.state /\ e'.last = e.last /\ e'.backup = e.backup
    BY <1>4, ClearedIs DEF Unlock, Cleared, CodesOK, EntryOK
  <2>2. uses' = uses /\ guesses' = 0
    BY <1>4 DEF Unlock
  <2>3. UsesOK' /\ EntryOK' /\ GuessesOK'
    BY <1>z, <2>1, <2>2, Limits DEF CodesOK, UsesOK, EntryOK, GuessesOK
  <2>4. QED
    BY <1>u, <1>l, <2>3 DEF CodesOK
<1>5. QED
  BY <1>u, <1>1, <1>2, <1>3, <1>4

\* Reading behind the lock file: nobody else has read, and the entry is as it was read.
LEMMA ReadSteps ==
  ASSUME CodesOK, NEW a \in Actors, NEW c \in Codes, VerifyReads(a, c)
  PROVE  CodesOK' /\ UNCHANGED <<pw, wrong>>
<1>1. UNCHANGED <<e, pw, uses, guesses, wrong>> /\ held' = [held EXCEPT ![a] = [code |-> c, entry |-> e]]
  BY DEF VerifyReads, history
<1>2. \A b \in Actors : held[b] = Nothing
  BY DEF VerifyReads, Free
<1>3. e \in Entry /\ held \in [Actors -> {Nothing} \cup [code : Codes, entry : Entry]]
  BY DEF CodesOK, EntryOK, LockOK
<1>4. \A b \in Actors : held'[b] # Nothing => b = a
  BY <1>1, <1>2, <1>3
<1>5. \A b \in Actors : held'[b] # Nothing => held'[b] = [code |-> c, entry |-> e]
  BY <1>1, <1>2, <1>3
<1>6. LockOK'
  BY <1>1, <1>3, <1>4, <1>5 DEF LockOK
<1>7. QED
  BY <1>1, <1>6 DEF CodesOK, UsesOK, EntryOK, GuessesOK

\* A caller that lets the lock file go leaves nobody who has read.
LEMMA LetGo ==
  ASSUME LockOK, NEW a \in Actors, held[a] # Nothing, held' = [held EXCEPT ![a] = Nothing]
  PROVE  LockOK'
<1>1. \A b \in Actors : b # a => held[b] = Nothing
  BY DEF LockOK
<1>0. held \in [Actors -> {Nothing} \cup [code : Codes, entry : Entry]]
  BY DEF LockOK
<1>2. \A b \in Actors : held'[b] = Nothing
  BY <1>0, <1>1
<1>3. QED
  BY <1>0, <1>2 DEF LockOK

\* Writing what Verify says about the entry that was read, which is still the entry.
LEMMA WriteSteps ==
  ASSUME CodesOK, NEW a \in Actors, VerifyWrites(a)
  PROVE  CodesOK' /\ UNCHANGED <<pw, wrong>>
<1> DEFINE c == held[a].code
           v == Verify(held[a].entry, c)
<1>1. held[a] # Nothing /\ held[a] \in [code : Codes, entry : Entry] /\ held[a].entry = e
  BY DEF VerifyWrites, CodesOK, LockOK
<1>2. c \in Codes /\ v = Verify(e, c)
  BY <1>1
<1>3. e \in Entry /\ e.failures < MaxFailures
  BY DEF CodesOK, EntryOK
<1>4. /\ held' = [held EXCEPT ![a] = Nothing]
      /\ e' = IF v.says \in {"refused", "reused"} THEN e ELSE v.saves
      /\ guesses' = IF v.says = "ok" THEN 0 ELSE IF v.says = "wrong" THEN guesses + 1 ELSE guesses
      /\ uses' = IF v.says = "ok" THEN [uses EXCEPT ![c] = uses[c] + 1] ELSE uses
      /\ UNCHANGED <<pw, wrong>>
  BY DEF VerifyWrites
<1>5. LockOK'
  BY <1>1, <1>4, LetGo DEF CodesOK
<1>6. /\ v.says \in {"refused", "reused", "ok", "wrong"}
      /\ v.saves \in Entry /\ v.saves.failures < MaxFailures /\ v.saves.state = e.state
      /\ v.says \in {"ok", "wrong"} => e.state = "enabled"
      /\ v.says = "wrong" => v.saves = Counted(e)
      /\ v.says = "ok" =>
           /\ v.saves.failures = 0 /\ v.saves.locks = 0
           /\ c \in Steps => e.last < c /\ v.saves.last = c /\ v.saves.backup = e.backup
           /\ c \notin Steps => c \in e.backup /\ v.saves.backup = e.backup \ {c} /\ v.saves.last = e.last
  BY <1>2, <1>3, VerifyIs
<1>c. /\ Codes = Steps \cup BackupCodes \cup {Wrong}
      /\ \A s \in Steps : s \notin BackupCodes /\ s # Wrong
      /\ Wrong \notin BackupCodes
  BY CodesApart
<1> HIDE DEF v, c
<1>7. CASE v.says \in {"refused", "reused"}
  <2>1. UNCHANGED <<e, uses, guesses>>
    BY <1>4, <1>7
  <2>2. QED
    BY <1>4, <1>5, <2>1 DEF CodesOK, UsesOK, EntryOK, GuessesOK
<1>8. CASE v.says = "wrong"
  <2>1. e' = Counted(e) /\ uses' = uses /\ guesses' = guesses + 1 /\ e.state = "enabled"
    BY <1>4, <1>6, <1>8
  <2>2. /\ e' \in Entry /\ e'.failures < MaxFailures /\ e'.state = "enabled"
        /\ e'.last = e.last /\ e'.backup = e.backup
        /\ e'.failures + MaxFailures * e'.locks = e.failures + MaxFailures * e.locks + 1
    BY <1>3, <2>1, CountedIs
  <2>3. UsesOK'
    BY <2>1, <2>2 DEF CodesOK, UsesOK
  <2>4. GuessesOK'
    BY <2>1, <2>2 DEF CodesOK, GuessesOK
  <2>5. QED
    BY <1>4, <1>5, <2>2, <2>3, <2>4 DEF CodesOK, EntryOK
<1>9. CASE v.says = "ok"
  <2>1. /\ e' \in Entry /\ e'.failures = 0 /\ e'.locks = 0 /\ e'.state = "enabled"
        /\ guesses' = 0 /\ uses' = [uses EXCEPT ![c] = uses[c] + 1]
    BY <1>4, <1>6, <1>9
  <2>2. GuessesOK' /\ EntryOK'
    <3>1. MaxFailures * 0 = 0
      BY Limits
    <3>2. QED
      BY <2>1, <3>1, Limits DEF GuessesOK, EntryOK
  <2>3. uses \in [Codes -> Nat]
    BY DEF CodesOK, UsesOK
  <2>4. CASE c \in Steps
    <3>1. e.last < c /\ e'.last = c /\ e'.backup = e.backup /\ c \in Int /\ e.last \in Int
      BY <1>3, <1>4, <1>6, <1>9, <2>4 DEF Steps, Entry
    <3>2. uses[c] = 0
      BY <2>3, <2>4, <1>2, <3>1 DEF CodesOK, UsesOK
    <3>3. uses' \in [Codes -> Nat] /\ \A d \in Codes : uses'[d] = IF d = c THEN 1 ELSE uses[d]
      BY <1>2, <2>1, <2>3, <3>2
    <3>4. \A s \in Steps : uses'[s] <= 1 /\ (uses'[s] > 0 => s <= e'.last)
      BY <1>c, <3>1, <3>3 DEF CodesOK, UsesOK, Steps
    <3>5. \A b \in BackupCodes : uses'[b] <= 1 /\ (uses'[b] > 0 => b \notin e'.backup)
      BY <1>c, <2>4, <3>1, <3>3 DEF CodesOK, UsesOK
    <3>6. uses'[Wrong] = 0
      BY <1>c, <2>4, <3>3 DEF CodesOK, UsesOK
    <3>7. UsesOK'
      BY <2>1, <3>3, <3>4, <3>5, <3>6 DEF UsesOK
    <3>8. QED
      BY <1>4, <1>5, <2>2, <3>7 DEF CodesOK
  <2>5. CASE c \notin Steps
    <3>1. c \in e.backup /\ e'.backup = e.backup \ {c} /\ e'.last = e.last /\ c \in BackupCodes
      BY <1>3, <1>4, <1>6, <1>9, <2>5 DEF Entry
    <3>2. uses[c] = 0
      BY <2>3, <1>2, <3>1 DEF CodesOK, UsesOK
    <3>3. uses' \in [Codes -> Nat] /\ \A d \in Codes : uses'[d] = IF d = c THEN 1 ELSE uses[d]
      BY <1>2, <2>1, <2>3, <3>2
    <3>4. \A s \in Steps : uses'[s] <= 1 /\ (uses'[s] > 0 => s <= e'.last)
      BY <1>c, <2>5, <3>1, <3>3 DEF CodesOK, UsesOK
    <3>5. \A b \in BackupCodes : uses'[b] <= 1 /\ (uses'[b] > 0 => b \notin e'.backup)
      BY <1>c, <3>1, <3>3 DEF CodesOK, UsesOK
    <3>6. uses'[Wrong] = 0
      BY <1>c, <3>1, <3>3 DEF CodesOK, UsesOK
    <3>7. UsesOK'
      BY <2>1, <3>3, <3>4, <3>5, <3>6 DEF UsesOK
    <3>8. QED
      BY <1>4, <1>5, <2>2, <3>7 DEF CodesOK
  <2>6. QED
    BY <2>4, <2>5
<1>10. QED
  BY <1>6, <1>7, <1>8, <1>9

LEMMA FailSteps ==
  ASSUME CodesOK, NEW a \in Actors, VerifyFails(a)
  PROVE  CodesOK' /\ UNCHANGED <<pw, wrong>>
<1>1. held[a] # Nothing /\ held' = [held EXCEPT ![a] = Nothing] /\ UNCHANGED <<e, pw, uses, guesses, wrong>>
  BY DEF VerifyFails, history
<1>2. LockOK'
  BY <1>1, LetGo DEF CodesOK
<1>3. QED
  BY <1>1, <1>2 DEF CodesOK, UsesOK, EntryOK, GuessesOK

\* Beginning a grace window changes nothing else of the entry.
LEMMA MarkSteps ==
  ASSUME CodesOK, NEW t \in Terminals, MarkVerified(t)
  PROVE  CodesOK' /\ UNCHANGED <<pw, wrong>>
<1>1. UNCHANGED <<pw, held, uses, guesses, wrong>> /\ Free
  BY DEF MarkVerified, history
<1>2. LockOK'
  BY <1>1, LockFree DEF CodesOK
<1>3. PICK x \in Entry : x = e
  BY DEF CodesOK, EntryOK
<1>4. /\ e' \in Entry /\ e'.failures = e.failures /\ e'.locks = e.locks
      /\ e'.state = e.state /\ e'.last = e.last /\ e'.backup = e.backup
  <2>1. CASE /\ e.state = "enabled" /\ Origin[t] # NoOrigin
             /\ e' = [e EXCEPT !.verified[Origin[t]] = Window]
    <3>1. PICK o \in Origins : o = Origin[t]
      BY <2>1, SignInAssumption
    <3>2. PICK f : f = [x.verified EXCEPT ![o] = Window]
      OBVIOUS
    <3>3. x.verified \in [Origins -> Nat] /\ Window \in Nat
      BY Limits DEF Entry
    <3>4. f \in [Origins -> Nat]
      BY <3>2, <3>3
    <3>5. e' = [e EXCEPT !.verified[Origin[t]] = Window]
      BY <2>1
    <3>6. e' = [x EXCEPT !.verified = f]
      BY <1>3, <3>1, <3>2, <3>5
    <3>7. QED
      BY <1>3, <3>4, <3>6 DEF Entry
  <2>2. CASE e' = e
    BY <1>3, <2>2
  <2>3. QED
    BY <2>1, <2>2 DEF MarkVerified
<1>5. QED
  BY <1>1, <1>2, <1>4 DEF CodesOK, UsesOK, EntryOK, GuessesOK

\* Time: a step is one older, and so are the codes taken.
LEMMA TickSteps ==
  ASSUME CodesOK, PwOK, Tick
  PROVE  CodesOK' /\ PwOK'
<1>1. UNCHANGED <<held, guesses, wrong>> /\ Free
  BY DEF Tick
<1>2. LockOK'
  BY <1>1, LockFree DEF CodesOK
<1>3. \A n \in Nat : Less(n) \in Nat
  BY DEF Less
<1>4. PICK x \in Entry : x = e
  BY DEF CodesOK, EntryOK
<1>5. PICK n, l, f : /\ n = IF x.last > -2 THEN x.last - 1 ELSE x.last
                     /\ l = Less(x.left)
                     /\ f = [o \in Origins |-> Less(x.verified[o])]
  OBVIOUS
<1>6. x.last \in -2 .. 1 /\ x.left \in Nat /\ x.verified \in [Origins -> Nat]
  BY DEF Entry
<1>7. n \in -2 .. 1 /\ l \in Nat /\ f \in [Origins -> Nat]
  BY <1>3, <1>5, <1>6
<1>8. e' = [x EXCEPT !.last = n, !.left = l, !.verified = f]
  BY <1>4, <1>5 DEF Tick
<1>9. /\ e' \in Entry /\ e'.failures = e.failures /\ e'.locks = e.locks
      /\ e'.state = e.state /\ e'.last = n /\ e'.backup = e.backup
  BY <1>4, <1>7, <1>8 DEF Entry
<1>10. uses' = [c \in Codes |-> IF c \notin Steps THEN uses[c] ELSE IF c = 1 THEN 0 ELSE uses[c + 1]]
  BY DEF Tick
<1>c. /\ Codes = Steps \cup BackupCodes \cup {Wrong}
      /\ \A s \in Steps : s \notin BackupCodes /\ s # Wrong
      /\ Wrong \notin BackupCodes
  BY CodesApart
<1>u. /\ uses \in [Codes -> Nat]
      /\ e.state # "enabled" => \A c \in Codes : uses[c] = 0
      /\ \A s \in Steps : uses[s] <= 1 /\ (uses[s] > 0 => s <= e.last)
      /\ \A b \in BackupCodes : uses[b] <= 1 /\ (uses[b] > 0 => b \notin e.backup)
      /\ uses[Wrong] = 0
  BY DEF CodesOK, UsesOK
<1>s. /\ Steps = {-1, 0, 1}
      /\ uses'[1] = 0 /\ uses'[0] = uses[1] /\ uses'[-1] = uses[0]
      /\ \A c \in Codes : c \notin Steps => uses'[c] = uses[c]
  BY <1>c, <1>10 DEF Steps
<1>11. UsesOK'
  <2>1. uses' \in [Codes -> Nat]
    <3>1. \A c \in Codes : uses'[c] \in Nat
      BY <1>c, <1>s, <1>u
    <3>2. QED
      BY <1>10, <3>1
  <2>2. e'.state # "enabled" => \A c \in Codes : uses'[c] = 0
    BY <1>c, <1>s, <1>u, <1>9
  <2>3. \A s \in Steps : uses'[s] <= 1 /\ (uses'[s] > 0 => s <= e'.last)
    BY <1>4, <1>5, <1>6, <1>9, <1>s, <1>u
  <2>4. \A b \in BackupCodes : uses'[b] <= 1 /\ (uses'[b] > 0 => b \notin e'.backup)
    BY <1>c, <1>s, <1>u, <1>9
  <2>5. uses'[Wrong] = 0
    BY <1>c, <1>s, <1>u
  <2>6. QED
    BY <2>1, <2>2, <2>3, <2>4, <2>5 DEF UsesOK
<1>12. PwOK'
  <2>1. PICK y, m : y = pw /\ m = Less(pw.left)
    OBVIOUS
  <2>2. y \in [fails : Nat, set : BOOLEAN, left : Nat] /\ m \in Nat
    BY <1>3, <2>1 DEF PwOK
  <2>3. pw' = [y EXCEPT !.left = m]
    BY <2>1 DEF Tick
  <2>4. QED
    BY <1>1, <2>1, <2>2, <2>3 DEF PwOK
<1>13. QED
  BY <1>1, <1>2, <1>9, <1>11, <1>12 DEF CodesOK, EntryOK, GuessesOK

-----------------------------------------------------------------------------
LEMMA Initially == Init => CodesOK /\ PwOK
<1> SUFFICES ASSUME Init PROVE CodesOK /\ PwOK
  OBVIOUS
<1>1. LockOK
  BY DEF Init, LockOK
<1>2. UsesOK
  BY NoEntryIs, CodesApart DEF Init, UsesOK, Unused
<1>3. EntryOK
  BY NoEntryIs, Limits DEF Init, EntryOK
<1>4. GuessesOK
  BY NoEntryIs, Limits DEF Init, GuessesOK
<1>5. PwOK
  BY Limits DEF Init, PwOK
<1>6. QED
  BY <1>1, <1>2, <1>3, <1>4, <1>5 DEF CodesOK

LEMMA Inductive == CodesOK /\ PwOK /\ [Next]_vars => CodesOK' /\ PwOK'
<1> SUFFICES ASSUME CodesOK, PwOK, [Next]_vars PROVE CodesOK' /\ PwOK'
  OBVIOUS
<1>1. CASE ResetPassword \/ \E t \in Terminals : AskLocked(t) \/ WrongPassword(t) \/ RightPassword(t)
  BY <1>1, PasswordSteps, CodesKept
<1>2. CASE Enroll \/ (\E s \in Steps : Confirm(s)) \/ Disable \/ Unlock
  BY <1>2, EnrolmentSteps, PwKept
<1>3. CASE \E a \in Actors : AskCode(a)
  <2>1. PICK a \in Actors : AskCode(a)
    BY <1>3
  <2>2. CASE \E c \in Codes : VerifyReads(a, c)
    BY <2>2, ReadSteps, PwKept
  <2>3. CASE VerifyWrites(a)
    BY <2>3, WriteSteps, PwKept
  <2>4. CASE VerifyFails(a)
    BY <2>4, FailSteps, PwKept
  <2>5. QED
    BY <2>1, <2>2, <2>3, <2>4 DEF AskCode
<1>4. CASE \E t \in Terminals : MarkVerified(t)
  BY <1>4, MarkSteps, PwKept
<1>5. CASE \/ \E t \in Terminals : \/ Policy(t) \/ Grace(t) \/ Leave(t)
                                   \/ AskLockedFails(t) \/ FailureUnrecorded(t) \/ ClearingFails(t)
           \/ \E p \in Phones : \/ StartMobileLogin(p) \/ PendingMobile2FA(p)
                                \/ ConfirmMobile2FA(p) \/ EndMobileSession(p)
  <2>1. UNCHANGED <<stores, history>>
    BY <1>5 DEF Policy, Grace, Leave, AskLockedFails, FailureUnrecorded, ClearingFails,
                StartMobileLogin, PendingMobile2FA, ConfirmMobile2FA, EndMobileSession
  <2>2. UNCHANGED <<pw, e, held, uses, guesses, wrong>>
    BY <2>1 DEF stores, history
  <2>3. QED
    BY <2>2, CodesKept, PwKept
<1>6. CASE Tick
  BY <1>6, TickSteps
<1>7. CASE UNCHANGED vars
  <2>1. UNCHANGED <<pw, e, held, uses, guesses, wrong>>
    BY <1>7 DEF vars, stores, history
  <2>2. QED
    BY <2>1, CodesKept, PwKept
<1>8. QED
  BY <1>1, <1>2, <1>3, <1>4, <1>5, <1>6, <1>7 DEF Next

\* No code, of the authenticator or a backup code, is taken twice, however many
\* terminals and phones ask and whoever confirms, disables or enrols between.
THEOREM CodesTakenOnce == Spec => []CodesAreSingleUse
<1>1. CodesOK => CodesAreSingleUse
  BY CodesApart DEF CodesOK, UsesOK, CodesAreSingleUse
<1>2. QED
  BY <1>1, Initially, Inductive, PTL DEF Spec

\* No wrong code is lost to another caller's save: the count is in failures and locks.
THEOREM WrongCodesCounted == Spec => []WrongCodesAllCount
<1>1. CodesOK => WrongCodesAllCount
  BY DEF CodesOK, GuessesOK, WrongCodesAllCount
<1>2. QED
  BY <1>1, Initially, Inductive, PTL DEF Spec

\* MaxFailures wrong passwords lock, at however many terminals they were typed, if
\* RecordFailure could record them; what phones are told is not counted.
THEOREM WrongPasswordsCounted == Spec => []RecordedFailuresLock
<1>1. PwOK => RecordedFailuresLock
  BY Limits DEF PwOK, RecordedFailuresLock
<1>2. QED
  BY <1>1, Initially, Inductive, PTL DEF Spec

\* Verify refuses a code during a lockout, and its caller has read the entry as it is.
LEMMA RefusedWhileLocked ==
  ASSUME CodesOK, NEW a \in Actors, VerifyWrites(a), e.left > 0 PROVE e' = e
<1>1. held[a].entry = e
  BY DEF VerifyWrites, CodesOK, LockOK
<1>2. Verify(held[a].entry, held[a].code) = [says |-> "refused", saves |-> e]
  BY <1>1 DEF Verify, Refuses
<1>3. QED
  BY <1>2 DEF VerifyWrites

\* What leaves a lockout as long as it is, or ends it, or lets time go by.
LEMMA LockoutShrinks ==
  ASSUME CodesOK, [Next]_vars, e.left > 0 PROVE e'.left <= e.left
<1>0. e \in Entry /\ e.left \in Nat /\ NoEntry.left = 0
  BY DEF CodesOK, EntryOK, Entry, NoEntry
<1>1. CASE UNCHANGED e
  BY <1>0, <1>1
<1>2. CASE Enroll
  <2>1. NoEntry \in Entry /\ e' = [NoEntry EXCEPT !.state = "enrolled"]
    BY <1>2, NoEntryIs DEF Enroll
  <2>2. e'.left = 0
    BY <1>0, <2>1 DEF Entry
  <2>3. QED
    BY <1>0, <2>2
<1>3. CASE Disable
  BY <1>0, <1>3 DEF Disable
<1>4. CASE Unlock
  <2>1. e'.left = 0
    BY <1>0, <1>4 DEF Unlock, Entry
  <2>2. QED
    BY <1>0, <2>1
<1>5. CASE \E s \in Steps : Confirm(s)
  <2>1. e'.left = e.left
    BY <1>0, <1>5 DEF Confirm, Entry
  <2>2. QED
    BY <1>0, <2>1
<1>6. CASE \E a \in Actors : VerifyWrites(a)
  BY <1>0, <1>6, RefusedWhileLocked
<1>7. CASE \E t \in Terminals : MarkVerified(t)
  <2>1. e'.left = e.left
    BY <1>0, <1>7 DEF MarkVerified, Entry
  <2>2. QED
    BY <1>0, <2>1
<1>8. CASE Tick
  <2>1. e'.left = Less(e.left)
    BY <1>0, <1>8 DEF Tick, Entry
  <2>2. QED
    BY <1>0, <2>1 DEF Less
<1>9. CASE ResetPassword \/ \E t \in Terminals : AskLocked(t) \/ WrongPassword(t) \/ RightPassword(t)
  BY <1>1, <1>9 DEF ResetPassword, AskLocked, WrongPassword, RightPassword
<1>10. CASE \/ \E t \in Terminals : \/ Policy(t) \/ Grace(t) \/ Leave(t)
                                    \/ AskLockedFails(t) \/ FailureUnrecorded(t) \/ ClearingFails(t)
            \/ \E p \in Phones : \/ StartMobileLogin(p) \/ PendingMobile2FA(p)
                                 \/ ConfirmMobile2FA(p) \/ EndMobileSession(p)
  <2>1. UNCHANGED stores
    BY <1>10 DEF Policy, Grace, Leave, AskLockedFails, FailureUnrecorded, ClearingFails,
                 StartMobileLogin, PendingMobile2FA, ConfirmMobile2FA, EndMobileSession
  <2>2. QED
    BY <1>1, <2>1 DEF stores
<1>11. CASE \E a \in Actors : (\E c \in Codes : VerifyReads(a, c)) \/ VerifyFails(a)
  BY <1>1, <1>11 DEF VerifyReads, VerifyFails
<1>12. CASE UNCHANGED vars
  BY <1>1, <1>12 DEF vars, stores
<1>13. QED
  BY <1>2, <1>3, <1>4, <1>5, <1>6, <1>7, <1>8, <1>9, <1>10, <1>11, <1>12 DEF Next, AskCode

\* A lockout of the second factor runs out on its own time: no attempt during it, and
\* none that had begun before it, makes it longer.
THEOREM LockoutsRunOut == Spec => LockoutsAreNotExtended
<1>1. CodesOK /\ [Next]_vars => [e.left > 0 => e'.left <= e.left]_vars
  BY LockoutShrinks
<1>2. QED
  BY <1>1, Initially, Inductive, PTL DEF Spec, LockoutsAreNotExtended

-----------------------------------------------------------------------------
(* Types, and the grace window *)

Screens == {"signon", "password", "policy", "grace", "code", "mark", "in"}
PhoneSteps == {"out", "pending", "asked", "confirm", "full"}

\* What TypeOK says beyond CodesOK and PwOK, a part per variable.
PlacesOK ==
  /\ term \in [Terminals -> Screens]
  /\ phone \in [Phones -> [step : PhoneSteps, left : Nat]]
BoundsOK == pw.left <= LockFor /\ wrong <= MaxFailures /\ e.locks <= MaxLocks

\* No origin's grace lasts longer than its last code is old: recorded or about to be,
\* it ends within Window of the code.
GraceOK ==
  /\ proof \in [Origins -> Nat]
  /\ \A o \in Origins : e.verified[o] <= proof[o] /\ proof[o] <= Window
  /\ \A t \in Terminals : term[t] = "mark" /\ Origin[t] # NoOrigin => proof[Origin[t]] = Window

\* The inductive invariant.
IInv == CodesOK /\ PwOK /\ PlacesOK /\ BoundsOK /\ GraceOK

LEMMA OriginIs == ASSUME NEW t \in Terminals, Origin[t] # NoOrigin PROVE Origin[t] \in Origins
BY SignInAssumption

LEMMA GoesIs ==
  ASSUME PlacesOK, NEW t \in Terminals, NEW s \in Screens, Goes(t, s), UNCHANGED phone
  PROVE  PlacesOK' /\ term'[t] = s /\ \A u \in Terminals : u # t => term'[u] = term[u]
BY DEF PlacesOK, Goes

LEMMA TurnsIs ==
  ASSUME PlacesOK, NEW p \in Phones, NEW s \in PhoneSteps, NEW l \in Nat, Turns(p, s, l), UNCHANGED term
  PROVE  PlacesOK'
BY DEF PlacesOK, Turns

LEMMA LeftIs == ASSUME PlacesOK, NEW p \in Phones PROVE phone[p].left \in Nat
BY DEF PlacesOK

LEMMA LessIs == ASSUME NEW n \in Nat PROVE Less(n) \in Nat /\ Less(n) <= n
BY DEF Less

LEMMA MarkFree ==
  ASSUME GraceOK, UNCHANGED <<e, proof>>,
         \A t \in Terminals : term'[t] = "mark" => term[t] = "mark"
  PROVE  GraceOK'
BY DEF GraceOK

\* Wherever a terminal's screen changes, and no code was taken, it is not to "mark".
LEMMA ScreenSteps ==
  ASSUME IInv, NEW t \in Terminals,
         \/ AskLocked(t) \/ WrongPassword(t) \/ RightPassword(t) \/ Policy(t) \/ Grace(t) \/ Leave(t)
         \/ AskLockedFails(t) \/ FailureUnrecorded(t) \/ ClearingFails(t)
  PROVE  PlacesOK' /\ BoundsOK' /\ GraceOK'
<1>1. PICK s \in Screens \ {"mark"} : Goes(t, s)
  BY DEF AskLocked, WrongPassword, RightPassword, Policy, Grace, Leave, Screens,
         AskLockedFails, FailureUnrecorded, ClearingFails
<1>2. UNCHANGED <<phone, e, proof>>
  BY DEF AskLocked, WrongPassword, RightPassword, Policy, Grace, Leave, stores, history,
         AskLockedFails, FailureUnrecorded, ClearingFails
<1>3. PlacesOK' /\ \A u \in Terminals : term'[u] = "mark" => term[u] = "mark"
  BY <1>1, <1>2, GoesIs DEF IInv
<1>4. GraceOK'
  BY <1>2, <1>3, MarkFree DEF IInv
<1>5. pw'.left <= LockFor /\ wrong' <= MaxFailures
  <2>1. CASE \/ Policy(t) \/ Grace(t) \/ Leave(t)
             \/ AskLockedFails(t) \/ FailureUnrecorded(t) \/ ClearingFails(t)
    BY <2>1 DEF Policy, Grace, Leave, AskLockedFails, FailureUnrecorded, ClearingFails,
                stores, history, IInv, BoundsOK
  <2>2. CASE AskLocked(t)
    BY <2>2, Limits DEF AskLocked, Current, IInv, BoundsOK
  <2>3. CASE RightPassword(t)
    BY <2>3, Limits DEF RightPassword
  <2>4. CASE WrongPassword(t)
    <3>1. wrong' <= MaxFailures
      BY <2>4, Limits DEF WrongPassword, IInv, BoundsOK, PwOK
    <3>2. CASE pw.fails + 1 >= MaxFailures
      BY <2>4, <3>1, <3>2, Limits DEF WrongPassword, OneMoreFailure
    <3>3. CASE ~(pw.fails + 1 >= MaxFailures)
      <4>1. pw' = [pw EXCEPT !.fails = pw.fails + 1]
        BY <2>4, <3>3 DEF WrongPassword, OneMoreFailure
      <4>2. pw'.left = pw.left
        BY <4>1 DEF IInv, PwOK
      <4>3. QED
        BY <3>1, <4>2 DEF IInv, BoundsOK
    <3>4. QED
      BY <3>2, <3>3
  <2>5. QED
    BY <2>1, <2>2, <2>3, <2>4
<1>6. QED
  BY <1>2, <1>3, <1>4, <1>5 DEF BoundsOK, IInv

\* The administrator's steps leave terminals and phones; a new enrolment has no grace.
LEMMA AdminSteps ==
  ASSUME IInv, ResetPassword \/ Enroll \/ (\E s \in Steps : Confirm(s)) \/ Disable \/ Unlock
  PROVE  PlacesOK' /\ BoundsOK' /\ GraceOK'
<1>1. UNCHANGED <<term, phone, proof>>
  BY DEF ResetPassword, Enroll, Confirm, Disable, Unlock
<1>2. PlacesOK'
  BY <1>1 DEF IInv, PlacesOK
<1>3. PICK x \in Entry : x = e
  BY DEF IInv, CodesOK, EntryOK
<1>4. /\ e'.locks <= MaxLocks
      /\ \A o \in Origins : e'.verified[o] = e.verified[o] \/ e'.verified[o] = 0
  <2>0. MaxLocks \in Nat /\ x.locks <= MaxLocks
    BY <1>3, SignInAssumption DEF IInv, BoundsOK
  <2>1. CASE Enroll \/ Disable
    BY <2>0, <2>1 DEF Enroll, Disable, NoEntry
  <2>2. CASE Unlock
    BY <1>3, <2>0, <2>2 DEF Unlock, Entry
  <2>3. CASE \E s \in Steps : Confirm(s)
    <3>1. PICK s \in Steps : Confirm(s)
      BY <2>3
    <3>2. e' = [x EXCEPT !.state = "enabled", !.backup = BackupCodes, !.last = s]
      BY <1>3, <3>1 DEF Confirm
    <3>3. e'.locks = x.locks /\ e'.verified = x.verified
      BY <3>2 DEF Entry
    <3>4. QED
      BY <1>3, <2>0, <3>3
  <2>4. CASE ResetPassword
    BY <1>3, <2>0, <2>4 DEF ResetPassword
  <2>5. QED
    BY <2>1, <2>2, <2>3, <2>4
<1>5. GraceOK'
  <2>1. \A o \in Origins : e'.verified[o] <= proof[o]
    BY <1>4 DEF IInv, GraceOK
  <2>2. QED
    BY <1>1, <2>1 DEF IInv, GraceOK
<1>6. pw'.left <= LockFor /\ wrong' <= MaxFailures
  <2>1. CASE ResetPassword
    BY <2>1, Limits DEF ResetPassword
  <2>2. CASE ~ResetPassword
    <3>1. UNCHANGED <<pw, wrong>>
      BY <2>2 DEF Enroll, Confirm, Disable, Unlock
    <3>2. QED
      BY <3>1 DEF IInv, BoundsOK
  <2>3. QED
    BY <2>1, <2>2
<1>7. QED
  BY <1>2, <1>4, <1>5, <1>6 DEF BoundsOK

\* The phone's steps.
LEMMA PhoneMoves ==
  ASSUME IInv, NEW p \in Phones,
         StartMobileLogin(p) \/ PendingMobile2FA(p) \/ ConfirmMobile2FA(p) \/ EndMobileSession(p)
  PROVE  PlacesOK' /\ BoundsOK' /\ GraceOK'
<1>1. UNCHANGED <<pw, e, term, wrong, proof>>
  BY DEF StartMobileLogin, PendingMobile2FA, ConfirmMobile2FA, EndMobileSession, stores, history
<1>2. {PendingTTL, SessionTTL, 0, phone[p].left} \subseteq Nat
  BY SignInAssumption, LeftIs DEF IInv
<1>3. PICK s \in PhoneSteps, l \in Nat : Turns(p, s, l)
  BY <1>2 DEF StartMobileLogin, PendingMobile2FA, ConfirmMobile2FA, EndMobileSession, PhoneSteps
<1>4. PlacesOK'
  BY <1>1, <1>3, TurnsIs DEF IInv
<1>5. QED
  BY <1>1, <1>4, MarkFree DEF IInv, BoundsOK

\* Verify leaves every origin's grace as it is.
LEMMA VerifyKeepsGrace ==
  ASSUME NEW x \in Entry, NEW c \in Codes PROVE Verify(x, c).saves.verified = x.verified
<1>1. ASSUME NEW y \in Entry, y.verified = x.verified PROVE Cleared(y).verified = x.verified
  BY <1>1 DEF Cleared, Entry
<1>2. Counted(x).verified = x.verified
  BY DEF Counted, Entry
<1>3. CASE ~Refuses(x) /\ c \in Steps /\ ~(c <= x.last)
  <2>1. PICK y : y = [x EXCEPT !.last = c]
    OBVIOUS
  <2>2. c \in -2 .. 1
    BY <1>3 DEF Steps
  <2>3. y \in Entry /\ y.verified = x.verified
    BY <2>1, <2>2 DEF Entry
  <2>4. Verify(x, c) = [says |-> "ok", saves |-> Cleared(y)]
    BY <1>3, <2>1 DEF Verify
  <2>5. QED
    BY <1>1, <2>3, <2>4
<1>4. CASE ~Refuses(x) /\ c \notin Steps /\ c \in x.backup
  <2>1. PICK y : y = [x EXCEPT !.backup = x.backup \ {c}]
    OBVIOUS
  <2>2. y \in Entry /\ y.verified = x.verified
    BY <2>1 DEF Entry
  <2>3. Verify(x, c) = [says |-> "ok", saves |-> Cleared(y)]
    BY <1>4, <2>1 DEF Verify
  <2>4. QED
    BY <1>1, <2>2, <2>3
<1>5. CASE Refuses(x) \/ (c \in Steps /\ c <= x.last)
  BY <1>5 DEF Verify
<1>6. CASE ~Refuses(x) /\ c \notin Steps /\ c \notin x.backup
  BY <1>2, <1>6 DEF Verify
<1>7. QED
  BY <1>3, <1>4, <1>5, <1>6

\* A code taken from an origin is its proof, before it is recorded.
LEMMA TakenSteps ==
  ASSUME IInv, NEW a \in Actors, VerifyWrites(a)
  PROVE  PlacesOK' /\ BoundsOK' /\ GraceOK'
<1> DEFINE c == held[a].code
           v == Verify(held[a].entry, c)
<1>1. held[a].entry = e /\ c \in Codes /\ e \in Entry
  BY DEF VerifyWrites, IInv, CodesOK, LockOK, EntryOK
<1>2. v.saves.verified = e.verified /\ v.saves.locks <= MaxLocks
  BY <1>1, VerifyKeepsGrace DEF VerifyWrites
<1>3. /\ e' = IF v.says \in {"refused", "reused"} THEN e ELSE v.saves
      /\ proof' = IF v.says = "ok" /\ a \in Terminals /\ Origin[a] # NoOrigin
                  THEN [proof EXCEPT ![Origin[a]] = Window] ELSE proof
      /\ IF a \in Terminals
         THEN Goes(a, IF v.says = "ok" THEN "mark" ELSE "code") /\ UNCHANGED phone
         ELSE Turns(a, IF v.says = "ok" THEN "confirm" ELSE "pending", phone[a].left) /\ UNCHANGED term
      /\ UNCHANGED <<pw, wrong>>
  BY DEF VerifyWrites
<1> HIDE DEF v, c
<1>4. BoundsOK' /\ e'.verified = e.verified
  BY <1>2, <1>3 DEF IInv, BoundsOK
<1>5. proof \in [Origins -> Nat] /\ Window \in Nat /\ e.verified \in [Origins -> Nat]
  BY <1>1, Limits DEF IInv, GraceOK, Entry
<1>6. CASE a \notin Terminals
  <2>1. a \in Phones /\ phone[a].left \in Nat
    BY <1>6, LeftIs DEF Actors, IInv
  <2>2. PICK s \in PhoneSteps : Turns(a, s, phone[a].left)
    BY <1>3, <1>6 DEF PhoneSteps
  <2>3. UNCHANGED <<term, proof>>
    BY <1>3, <1>6
  <2>4. PlacesOK'
    BY <2>1, <2>2, <2>3, TurnsIs DEF IInv
  <2>5. QED
    BY <1>4, <2>3, <2>4 DEF IInv, GraceOK
<1>7. CASE a \in Terminals /\ v.says # "ok"
  <2>1. Goes(a, "code") /\ UNCHANGED <<phone, proof>> /\ "code" \in Screens
    BY <1>3, <1>7 DEF Screens
  <2>2. PlacesOK' /\ term'[a] = "code" /\ \A u \in Terminals : u # a => term'[u] = term[u]
    BY <1>7, <2>1, GoesIs DEF IInv
  <2>3. QED
    BY <1>4, <2>1, <2>2 DEF IInv, GraceOK
<1>8. CASE a \in Terminals /\ v.says = "ok"
  <2>1. Goes(a, "mark") /\ UNCHANGED phone /\ "mark" \in Screens
    BY <1>3, <1>8 DEF Screens
  <2>2. PlacesOK' /\ \A u \in Terminals : u # a => term'[u] = term[u]
    BY <1>8, <2>1, GoesIs DEF IInv
  <2>3. CASE Origin[a] = NoOrigin
    BY <1>3, <1>4, <1>8, <2>2, <2>3 DEF IInv, GraceOK
  <2>4. CASE Origin[a] # NoOrigin
    <3>1. Origin[a] \in Origins /\ proof' = [proof EXCEPT ![Origin[a]] = Window]
      BY <1>3, <1>8, <2>4, OriginIs
    <3>2. /\ proof' \in [Origins -> Nat] /\ proof'[Origin[a]] = Window
          /\ \A o \in Origins : o # Origin[a] => proof'[o] = proof[o]
      BY <1>5, <3>1
    <3>3. \A u \in Terminals : term'[u] = "mark" /\ Origin[u] # NoOrigin => proof'[Origin[u]] = Window
      <4>1. SUFFICES ASSUME NEW u \in Terminals, term'[u] = "mark", Origin[u] # NoOrigin
                     PROVE  proof'[Origin[u]] = Window
        OBVIOUS
      <4>2. Origin[u] \in Origins
        BY <4>1, OriginIs
      <4>3. CASE Origin[u] = Origin[a]
        BY <3>2, <4>3
      <4>4. CASE Origin[u] # Origin[a]
        BY <2>2, <3>2, <4>1, <4>2, <4>4 DEF IInv, GraceOK
      <4>5. QED
        BY <4>3, <4>4
    <3>4. \A o \in Origins : e.verified[o] <= proof'[o] /\ proof'[o] <= Window
      BY <1>5, <3>1, <3>2 DEF IInv, GraceOK
    <3>5. QED
      BY <1>4, <2>2, <3>2, <3>3, <3>4 DEF GraceOK
  <2>5. QED
    BY <1>4, <2>2, <2>3, <2>4
<1>9. QED
  BY <1>6, <1>7, <1>8

\* Asking for a code, or failing to save what was said: a terminal only goes back.
LEMMA AskSteps ==
  ASSUME IInv, NEW a \in Actors, (\E c \in Codes : VerifyReads(a, c)) \/ VerifyFails(a)
  PROVE  PlacesOK' /\ BoundsOK' /\ GraceOK'
<1>1. UNCHANGED <<pw, e, wrong, proof>>
  BY DEF VerifyReads, VerifyFails, history
<1>2. BoundsOK'
  BY <1>1 DEF IInv, BoundsOK
<1>3. CASE \E c \in Codes : VerifyReads(a, c)
  BY <1>1, <1>2, <1>3 DEF VerifyReads, IInv, PlacesOK, GraceOK
<1>4. CASE VerifyFails(a) /\ a \in Terminals
  <2>1. Goes(a, "signon") /\ UNCHANGED phone /\ "signon" \in Screens
    BY <1>4 DEF VerifyFails, Screens
  <2>2. PlacesOK' /\ term'[a] = "signon" /\ \A u \in Terminals : u # a => term'[u] = term[u]
    BY <1>4, <2>1, GoesIs DEF IInv
  <2>3. QED
    BY <1>1, <1>2, <2>2, MarkFree DEF IInv
<1>5. CASE VerifyFails(a) /\ a \notin Terminals
  <2>1. a \in Phones /\ phone[a].left \in Nat /\ "pending" \in PhoneSteps
    BY <1>5, LeftIs DEF Actors, IInv, PhoneSteps
  <2>2. Turns(a, "pending", phone[a].left) /\ UNCHANGED term
    BY <1>5 DEF VerifyFails
  <2>3. PlacesOK'
    BY <2>1, <2>2, TurnsIs DEF IInv
  <2>4. QED
    BY <1>1, <1>2, <2>2, <2>3, MarkFree DEF IInv
<1>6. QED
  BY <1>3, <1>4, <1>5

\* A grace is recorded while its proof still is as new.
LEMMA GraceSteps ==
  ASSUME IInv, NEW t \in Terminals, MarkVerified(t)
  PROVE  PlacesOK' /\ BoundsOK' /\ GraceOK'
<1>1. UNCHANGED <<pw, phone, wrong, proof>> /\ Goes(t, "in") /\ term[t] = "mark" /\ "in" \in Screens
  BY DEF MarkVerified, history, Screens
<1>2. PlacesOK' /\ term'[t] = "in" /\ \A u \in Terminals : u # t => term'[u] = term[u]
  BY <1>1, GoesIs DEF IInv
<1>3. PICK x \in Entry : x = e
  BY DEF IInv, CodesOK, EntryOK
<1>4. CASE e' = e
  BY <1>1, <1>2, <1>4, MarkFree DEF IInv, BoundsOK
<1>5. CASE e.state = "enabled" /\ Origin[t] # NoOrigin /\ e' = [e EXCEPT !.verified[Origin[t]] = Window]
  <2>1. PICK o \in Origins : o = Origin[t]
    BY <1>5, OriginIs
  <2>2. PICK f : f = [x.verified EXCEPT ![o] = Window]
    OBVIOUS
  <2>3. x.verified \in [Origins -> Nat]
    BY DEF Entry
  <2>4. e' = [x EXCEPT !.verified = f]
    BY <1>3, <1>5, <2>1, <2>2
  <2>5. e'.locks = x.locks /\ e'.verified = f
    BY <2>4 DEF Entry
  <2>6. proof[o] = Window /\ Window \in Nat
    BY <1>1, <1>5, <2>1, Limits DEF IInv, GraceOK
  <2>7. \A q \in Origins : e'.verified[q] <= proof[q]
    BY <1>3, <2>2, <2>3, <2>5, <2>6 DEF IInv, GraceOK
  <2>8. BoundsOK'
    BY <1>1, <1>3, <2>5 DEF IInv, BoundsOK
  <2>9. QED
    BY <1>1, <1>2, <2>7, <2>8 DEF IInv, GraceOK
<1>6. QED
  BY <1>4, <1>5 DEF MarkVerified

\* Time takes from the grace whatever it takes from its proof.
LEMMA TimeSteps ==
  ASSUME IInv, Tick
  PROVE  PlacesOK' /\ BoundsOK' /\ GraceOK'
<1>1. UNCHANGED <<term, wrong>>
  BY DEF Tick
<1>2. PICK x \in Entry : x = e
  BY DEF IInv, CodesOK, EntryOK
<1>3. PICK n, l, f : /\ n = IF x.last > -2 THEN x.last - 1 ELSE x.last
                     /\ l = Less(x.left)
                     /\ f = [o \in Origins |-> Less(x.verified[o])]
  OBVIOUS
<1>4. e' = [x EXCEPT !.last = n, !.left = l, !.verified = f]
  BY <1>2, <1>3 DEF Tick
<1>5. e'.locks = x.locks /\ e'.verified = f /\ x.verified \in [Origins -> Nat]
  BY <1>4 DEF Entry
<1>6. pw'.left <= LockFor
  <2>1. pw'.left = Less(pw.left) /\ pw.left \in Nat
    BY DEF Tick, IInv, PwOK
  <2>2. QED
    BY <2>1, LessIs, Limits DEF IInv, BoundsOK
<1>7. PlacesOK'
  <2>1. \A p \in Phones : phone[p] \in [step : PhoneSteps, left : Nat]
    BY DEF IInv, PlacesOK
  <2>2. phone' = [p \in Phones |-> [phone[p] EXCEPT !.left = Less(phone[p].left)]]
    BY DEF Tick
  <2>3. ASSUME NEW p \in Phones PROVE phone'[p] \in [step : PhoneSteps, left : Nat]
    <3>1. PICK y \in [step : PhoneSteps, left : Nat] : y = phone[p]
      BY <2>1
    <3>2. PICK k \in Nat : k = Less(y.left)
      BY LessIs
    <3>3. phone'[p] = [y EXCEPT !.left = k]
      BY <2>2, <3>1, <3>2
    <3>4. QED
      BY <3>3
  <2>4. QED
    BY <1>1, <2>2, <2>3 DEF IInv, PlacesOK
<1>8. ASSUME NEW o \in Origins
      PROVE  /\ proof'[o] \in Nat /\ e'.verified[o] <= proof'[o] /\ proof'[o] <= Window
             /\ Recording(o) => proof'[o] = proof[o]
  <2>1. proof'[o] = IF Recording(o) THEN proof[o] ELSE Less(proof[o])
    BY DEF Tick
  <2>2. PICK m \in Nat, k \in Nat : m = proof[o] /\ k = x.verified[o]
    BY <1>5 DEF IInv, GraceOK
  <2>3. k <= m /\ m <= Window
    BY <1>2, <2>2 DEF IInv, GraceOK
  <2>4. e'.verified[o] = Less(k)
    BY <1>3, <1>5, <2>2
  <2>5. Less(k) \in Nat /\ Less(k) <= k /\ Less(m) \in Nat /\ Less(m) <= m /\ Less(k) <= Less(m)
    BY <2>3 DEF Less
  <2>6. QED
    BY <2>1, <2>2, <2>3, <2>4, <2>5, Limits
<1>9. \A t \in Terminals : term'[t] = "mark" /\ Origin[t] # NoOrigin => proof'[Origin[t]] = Window
  BY <1>1, <1>8, OriginIs DEF Recording, IInv, GraceOK
<1>10. proof' \in [Origins -> Nat]
  BY <1>8 DEF Tick
<1>11. QED
  BY <1>1, <1>2, <1>5, <1>6, <1>7, <1>8, <1>9, <1>10 DEF IInv, BoundsOK, GraceOK

-----------------------------------------------------------------------------
LEMMA AtFirst == Init => IInv
<1> SUFFICES ASSUME Init PROVE IInv
  OBVIOUS
<1>1. PlacesOK
  BY DEF Init, PlacesOK, Screens, PhoneSteps
<1>2. BoundsOK
  BY NoEntryIs, Limits, SignInAssumption DEF Init, BoundsOK
<1>3. GraceOK
  BY Limits DEF Init, NoEntry, GraceOK
<1>4. QED
  BY <1>1, <1>2, <1>3, Initially DEF IInv

LEMMA Kept == IInv /\ [Next]_vars => IInv'
<1> SUFFICES ASSUME IInv, [Next]_vars PROVE IInv'
  OBVIOUS
<1>0. CodesOK' /\ PwOK'
  BY Inductive DEF IInv
<1> SUFFICES PlacesOK' /\ BoundsOK' /\ GraceOK'
  BY <1>0 DEF IInv
<1>1. CASE \E t \in Terminals : \/ AskLocked(t) \/ WrongPassword(t) \/ RightPassword(t)
                                \/ Policy(t) \/ Grace(t) \/ Leave(t)
                                \/ AskLockedFails(t) \/ FailureUnrecorded(t) \/ ClearingFails(t)
  BY <1>1, ScreenSteps
<1>2. CASE \E t \in Terminals : MarkVerified(t)
  BY <1>2, GraceSteps
<1>3. CASE \E a \in Actors : AskCode(a)
  BY <1>3, AskSteps, TakenSteps DEF AskCode
<1>4. CASE \E p \in Phones : \/ StartMobileLogin(p) \/ PendingMobile2FA(p)
                             \/ ConfirmMobile2FA(p) \/ EndMobileSession(p)
  BY <1>4, PhoneMoves
<1>5. CASE ResetPassword \/ Enroll \/ (\E s \in Steps : Confirm(s)) \/ Disable \/ Unlock
  BY <1>5, AdminSteps
<1>6. CASE Tick
  BY <1>6, TimeSteps
<1>7. CASE UNCHANGED vars
  BY <1>7 DEF vars, stores, history, IInv, PlacesOK, BoundsOK, GraceOK
<1>8. QED
  BY <1>1, <1>2, <1>3, <1>4, <1>5, <1>6, <1>7 DEF Next

\* Only the grace screen leads in from the grace screen.
LEMMA InFromGrace ==
  ASSUME IInv, [Next]_vars, NEW t \in Terminals, term[t] = "grace", term'[t] = "in"
  PROVE  WithinGrace(t)
<1>p. term \in [Terminals -> Screens]
  BY DEF IInv, PlacesOK
<1>1. ASSUME NEW u \in Terminals, NEW s, Goes(u, s), u # t \/ s # "in" PROVE FALSE
  BY <1>p, <1>1 DEF Goes
<1>2. ASSUME NEW u \in Terminals,
             \/ WrongPassword(u) \/ RightPassword(u) \/ AskLocked(u) \/ Leave(u)
             \/ AskLockedFails(u) \/ FailureUnrecorded(u) \/ ClearingFails(u)
      PROVE  FALSE
  <2>1. Goes(u, "signon") \/ Goes(u, "policy") \/ Goes(u, "password")
    BY <1>2 DEF WrongPassword, RightPassword, AskLocked, Leave,
                AskLockedFails, FailureUnrecorded, ClearingFails
  <2>2. QED
    BY <1>1, <2>1
<1>3. ASSUME NEW u \in Terminals, Policy(u) \/ MarkVerified(u) PROVE FALSE
  <2>1. u # t /\ \E s \in Screens : Goes(u, s)
    BY <1>3 DEF Policy, MarkVerified, Screens
  <2>2. QED
    BY <1>1, <2>1
<1>4. ASSUME NEW u \in Terminals, Grace(u) PROVE WithinGrace(t)
  <2>1. PICK within \in {WithinGrace(u), FALSE} : Goes(u, IF within THEN "in" ELSE "code")
    BY <1>4 DEF Grace
  <2>2. u = t
    BY <1>1, <2>1
  <2>3. within /\ WithinGrace(u)
    BY <1>1, <2>1
  <2>4. QED
    BY <2>2, <2>3
<1>5. ASSUME NEW a \in Actors, AskCode(a) PROVE FALSE
  <2>1. \/ UNCHANGED term
        \/ a \in Terminals /\ \E s \in {"mark", "code", "signon"} : Goes(a, s)
    BY <1>5 DEF AskCode, VerifyReads, VerifyWrites, VerifyFails
  <2>2. QED
    BY <1>1, <2>1
<1>6. term' # term
  OBVIOUS
<1>7. QED
  BY <1>2, <1>3, <1>4, <1>5, <1>6
     DEF Next, StartMobileLogin, PendingMobile2FA, ConfirmMobile2FA, EndMobileSession, ResetPassword,
         Enroll, Confirm, Disable, Unlock, Tick, vars

\* Every variable keeps its type and its bounds: no failure count at the limit, no
\* lockout longer than LockFor.
THEOREM SignInTypes == Spec => []TypeOK
<1>1. IInv => TypeOK
  <2>1. SUFFICES ASSUME IInv PROVE TypeOK
    OBVIOUS
  <2>2. pw \in [fails : 0 .. MaxFailures - 1, set : BOOLEAN, left : 0 .. LockFor]
    <3>1. PICK y \in [fails : Nat, set : BOOLEAN, left : Nat] : y = pw
      BY <2>1 DEF IInv, PwOK
    <3>2. y.fails \in 0 .. MaxFailures - 1 /\ y.left \in 0 .. LockFor
      BY <2>1, <3>1, Limits DEF IInv, PwOK, BoundsOK
    <3>3. QED
      BY <3>1, <3>2
  <2>3. /\ e \in Entry /\ e.failures < MaxFailures /\ e.locks <= MaxLocks
        /\ held \in [Actors -> {Nothing} \cup [code : Codes, entry : Entry]]
        /\ uses \in [Codes -> Nat] /\ wrong \in 0 .. MaxFailures /\ guesses \in Nat
    BY <2>1, Limits DEF IInv, CodesOK, EntryOK, LockOK, UsesOK, GuessesOK, PwOK, BoundsOK
  <2>4. /\ term \in [Terminals -> Screens]
        /\ phone \in [Phones -> [step : PhoneSteps, left : Nat]]
        /\ proof \in [Origins -> Nat]
    BY <2>1 DEF IInv, PlacesOK, GraceOK
  <2>5. QED
    BY <2>2, <2>3, <2>4 DEF TypeOK, Screens, PhoneSteps
<1>2. QED
  BY <1>1, AtFirst, Kept, PTL DEF Spec

\* Nobody skips the code by grace but from an address that gave one, recorded less than
\* Window ago, whatever was enrolled, disabled or locked in between.
THEOREM GraceHasItsCode == Spec => GraceIsEarned
<1> DEFINE Earned == \A t \in Terminals :
             term[t] = "grace" /\ term'[t] = "in" => Origin[t] # NoOrigin /\ proof[Origin[t]] > 0
<1>1. IInv /\ [Next]_vars => [Earned]_vars
  <2>1. SUFFICES ASSUME IInv, [Next]_vars, NEW t \in Terminals, term[t] = "grace", term'[t] = "in"
                 PROVE  Origin[t] # NoOrigin /\ proof[Origin[t]] > 0
    OBVIOUS
  <2>2. Origin[t] # NoOrigin /\ e.verified[Origin[t]] > 0
    BY <2>1, InFromGrace DEF WithinGrace
  <2>3. PICK o \in Origins : o = Origin[t]
    BY <2>2, OriginIs
  <2>4. PICK k \in Nat, m \in Nat : k = e.verified[o] /\ m = proof[o]
    BY <2>1 DEF IInv, GraceOK, CodesOK, EntryOK, Entry
  <2>5. k <= m
    BY <2>1, <2>4 DEF IInv, GraceOK
  <2>6. QED
    BY <2>2, <2>3, <2>4, <2>5
<1>2. QED
  BY <1>1, AtFirst, Kept, PTL DEF Spec, GraceIsEarned
=============================================================================
