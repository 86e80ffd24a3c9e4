--------------------------------- MODULE SignIn ---------------------------------
(***************************************************************************)
(* Signing in to one account: the password lockout (internal/loginlock),    *)
(* two-factor codes with their own lockout and grace window                 *)
(* (internal/twofa), the terminal's sign-on screens (internal/uiapp         *)
(* login.go) and the phone's two-step login (mobileapi handleLogin and      *)
(* handleLogin2FA over lego/mobile_sessions.go).                            *)
(*                                                                         *)
(* Time goes by in TOTP steps of 30 s.  Durations are kept as what is left  *)
(* of them, and a step of the code generator as its distance from now, so   *)
(* time itself has no bound.  Every terminal is a process of its own: what  *)
(* they share are the two JSON stores behind their lock files.  A store may *)
(* fail at any call (no lock file, no file, a disk that is full).           *)
(*                                                                         *)
(* Only the terminals' sign-on asks loginlock.  A password typed on a phone *)
(* (handleLogin), to switch to an administrator (switch_admin.go) or before *)
(* an administrator's ticket screens (verifyAdmin) is neither refused for a *)
(* lockout nor counted: those change nothing of pw.                         *)
(***************************************************************************)
EXTENDS Integers, Sequences

CONSTANTS
  Terminals,    \* terminal sessions, local or over the gateway
  Phones,       \* phones
  Origins,      \* where terminals sign in from ("local", a telnet client's address)
  Origin,       \* Origin[t]: where t comes from
  NoOrigin,     \* the web terminal: its client's address is not known
  Exempt,       \* terminals that the policy exempts from 2FA
  Required,     \* terminals that must have 2FA: sessions of the gateway, or by policy
  BackupCodes,  \* the backup codes that Confirm issues
  Wrong,        \* a code that is neither the authenticator's nor a backup code
  Nothing,      \* what a caller holds that is not in the middle of Verify
  MaxFailures,  \* wrong passwords, or wrong codes, in a row that lock
  LockFor,      \* the login lockout, in time steps
  LockTimes,    \* the 2FA lockouts in a row: 5, 10, 20, 40, 60 minutes in the code
  Window,       \* the 2FA grace window
  PendingTTL,   \* how long a phone may wait for its code
  SessionTTL,   \* how long a phone stays signed in
  MaxLocks      \* bound: 2FA lockouts in a row

Actors == Terminals \cup Phones

\* A code is one of the authenticator's for the step before now, now or after now,
\* a backup code, or none of these.
Steps == {-1, 0, 1}
Codes == Steps \cup BackupCodes \cup {Wrong}

\* twofa.go's entry.  last is LastStep, -2 when it is older than any code that is
\* looked at; left is what LockedUntil leaves, verified what each origin's grace does.
Entry == [state : {"none", "enrolled", "enabled"}, last : -2 .. 1, backup : SUBSET BackupCodes,
          failures : Nat, locks : Nat, left : Nat, verified : [Origins -> Nat]]
NoEntry == [state |-> "none", last |-> -2, backup |-> {}, failures |-> 0, locks |-> 0, left |-> 0,
            verified |-> [o \in Origins |-> 0]]

ASSUME SignInAssumption ==
  /\ Origin \in [Terminals -> Origins \cup {NoOrigin}] /\ NoOrigin \notin Origins
  /\ Terminals \cap Phones = {}
  /\ BackupCodes \cap {-1, 0, 1} = {} /\ Wrong \notin BackupCodes \cup {-1, 0, 1}
  /\ Nothing \notin [code : BackupCodes \cup {-1, 0, 1, Wrong}, entry : Entry]
  /\ MaxFailures \in Nat \ {0} /\ MaxLocks \in Nat
  /\ LockTimes \in Seq(Nat \ {0}) /\ LockTimes # << >>
  /\ {LockFor, Window, PendingTTL, SessionTTL} \subseteq Nat \ {0}

VARIABLES
  pw,     \* loginlock's entry: fails, and LockedUntil as set and what is left of it
  e,      \* twofa's entry
  held,   \* per caller of Verify: what it read behind the lock file, and the code
  term,   \* per terminal: how far its sign-on is
  phone,  \* per phone: its row of mobile_sessions, what it does and how long is left
  uses,   \* history: how often each code of this enrolment was taken
  wrong,  \* history: wrong passwords recorded since the last clearing, MaxFailures at most
  guesses,\* history: wrong codes in a row
  proof   \* history: per origin, what is left of Window since a code taken from there

stores == <<pw, e, held>>
history == <<uses, wrong, guesses, proof>>
vars == <<stores, term, phone, history>>

-----------------------------------------------------------------------------
Unused == [c \in Codes |-> 0]

Init ==
  /\ pw = [fails |-> 0, set |-> FALSE, left |-> 0]
  /\ e = NoEntry
  /\ held = [a \in Actors |-> Nothing]
  /\ term = [t \in Terminals |-> "signon"]
  /\ phone = [p \in Phones |-> [step |-> "out", left |-> 0]]
  /\ uses = Unused /\ wrong = 0 /\ guesses = 0 /\ proof = [o \in Origins |-> 0]

Free == \A a \in Actors : held[a] = Nothing
Goes(t, step) == term' = [term EXCEPT ![t] = step]
Turns(p, step, left) == phone' = [phone EXCEPT ![p] = [step |-> step, left |-> left]]

-----------------------------------------------------------------------------
(* loginlock: the password *)

\* Locked clears a lock that has expired.
Current == IF pw.set /\ pw.left = 0 THEN [fails |-> 0, set |-> FALSE, left |-> 0] ELSE pw

\* Mutant: one failure more is let through.
LateFailure ==
  IF pw.fails + 1 > MaxFailures THEN [fails |-> 0, set |-> TRUE, left |-> LockFor]
  ELSE [pw EXCEPT !.fails = @ + 1]

\* RecordFailure.
OneMoreFailure ==
  IF pw.fails + 1 >= MaxFailures THEN [fails |-> 0, set |-> TRUE, left |-> LockFor]
  ELSE [pw EXCEPT !.fails = @ + 1]

\* doLoginSubmit asks Locked before it looks at the password ...
AskLocked(t) ==
  /\ term[t] = "signon"
  /\ pw' = Current
  /\ wrong' = IF pw.set /\ ~Current.set THEN 0 ELSE wrong
  /\ Goes(t, IF Current.set THEN "signon" ELSE "password")
  /\ UNCHANGED <<e, held, phone, uses, guesses, proof>>

\* ... and goes on when Locked fails, whatever it would have said ...
AskLockedFails(t) ==
  /\ term[t] = "signon"
  /\ Goes(t, "password")
  /\ UNCHANGED <<stores, phone, history>>

\* ... a wrong one counts; on the lock, or on its own fifth, the session ends
\* (a new one starts at the sign-on screen again) ...
WrongPassword(t) ==
  /\ term[t] = "password"
  /\ pw' = OneMoreFailure
  /\ wrong' = IF wrong < MaxFailures THEN wrong + 1 ELSE wrong
  /\ Goes(t, "signon")
  /\ UNCHANGED <<e, held, phone, uses, guesses, proof>>

\* ... the right one clears, also a lock that came between.
RightPassword(t) ==
  /\ term[t] = "password"
  /\ pw' = [fails |-> 0, set |-> FALSE, left |-> 0]
  /\ wrong' = 0
  /\ Goes(t, "policy")
  /\ UNCHANGED <<e, held, phone, uses, guesses, proof>>

\* RecordFailure fails, or ClearFailures: sign-on goes its way all the same.
FailureUnrecorded(t) ==
  /\ term[t] = "password"
  /\ Goes(t, "signon")
  /\ UNCHANGED <<stores, phone, history>>

ClearingFails(t) ==
  /\ term[t] = "password"
  /\ Goes(t, "policy")
  /\ UNCHANGED <<stores, phone, history>>

\* An admin resets the password: ClearFailures.
ResetPassword ==
  /\ pw' = [fails |-> 0, set |-> FALSE, left |-> 0]
  /\ wrong' = 0
  /\ UNCHANGED <<e, held, term, phone, uses, guesses, proof>>

-----------------------------------------------------------------------------
(* twofa: enrolment, by an admin *)

\* Enroll: a new secret, not enabled yet, over whatever there was.
Enroll ==
  /\ Free
  /\ e' = [NoEntry EXCEPT !.state = "enrolled"]
  /\ uses' = Unused /\ guesses' = 0
  /\ UNCHANGED <<pw, held, term, phone, wrong, proof>>

\* Mutant: the code that confirmed the enrolment may sign in as well.
ConfirmForgetsStep(s) ==
  /\ Free /\ e.state = "enrolled"
  /\ e' = [e EXCEPT !.state = "enabled", !.backup = BackupCodes]
  /\ uses' = [uses EXCEPT ![s] = @ + 1]
  /\ UNCHANGED <<pw, held, term, phone, wrong, guesses, proof>>

\* Confirm with a code of the new secret: it is used up.  (A wrong code changes
\* nothing, and nobody confirms twice without enrolling again.)
Confirm(s) ==
  /\ Free /\ e.state = "enrolled"
  /\ e' = [e EXCEPT !.state = "enabled", !.backup = BackupCodes, !.last = s]
  /\ uses' = [uses EXCEPT ![s] = @ + 1]
  /\ UNCHANGED <<pw, held, term, phone, wrong, guesses, proof>>

Disable ==
  /\ Free /\ e.state # "none"
  /\ e' = NoEntry
  /\ uses' = Unused /\ guesses' = 0
  /\ UNCHANGED <<pw, held, term, phone, wrong, proof>>

Unlock ==
  /\ Free /\ e.state # "none"
  /\ e' = [e EXCEPT !.failures = 0, !.locks = 0, !.left = 0]
  /\ guesses' = 0
  /\ UNCHANGED <<pw, held, term, phone, uses, wrong, proof>>

-----------------------------------------------------------------------------
(* twofa.Verify *)

\* lockFor: each lockout is longer than the one before, up to the longest.
lockFor(locks) == LockTimes[IF locks < Len(LockTimes) THEN locks ELSE Len(LockTimes)]

\* A wrong code is counted; at MaxFailures the account locks.
Counted(x) ==
  IF x.failures + 1 < MaxFailures THEN [x EXCEPT !.failures = @ + 1]
  ELSE [x EXCEPT !.failures = 0, !.locks = @ + 1, !.left = lockFor(x.locks + 1)]

Cleared(x) == [x EXCEPT !.failures = 0, !.locks = 0, !.left = 0]
Refuses(x) == x.state # "enabled" \/ x.left > 0

\* Mutant: a code that comes during a lockout makes it last longer.
VerifySliding(x, c) ==
  IF x.state # "enabled" THEN [says |-> "refused", saves |-> x]
  ELSE IF x.left > 0 THEN [says |-> "extended", saves |-> [x EXCEPT !.left = lockFor(x.locks)]]
  ELSE [says |-> "wrong", saves |-> Counted(x)]

\* What Verify says to code c with the entry x, and the entry it saves.
Verify(x, c) ==
  IF Refuses(x) THEN [says |-> "refused", saves |-> x]
  ELSE IF c \in Steps
    THEN IF c <= x.last THEN [says |-> "reused", saves |-> x]
         ELSE [says |-> "ok", saves |-> Cleared([x EXCEPT !.last = c])]
  ELSE IF c \in x.backup
    THEN [says |-> "ok", saves |-> Cleared([x EXCEPT !.backup = @ \ {c}])]
    ELSE [says |-> "wrong", saves |-> Counted(x)]

\* The code screen of a terminal, or a phone whose row was found pending.
Asked(a) == IF a \in Terminals THEN term[a] = "code" ELSE phone[a].step = "asked"

\* Mutant: the entry is read whoever holds the lock file.
VerifyReadsUnlocked(a, c) ==
  /\ Asked(a) /\ held[a] = Nothing
  /\ held' = [held EXCEPT ![a] = [code |-> c, entry |-> e]]
  /\ UNCHANGED <<pw, e, term, phone, history>>

\* Verify takes the lock file and reads the entry ...
VerifyReads(a, c) ==
  /\ Asked(a) /\ Free
  /\ held' = [held EXCEPT ![a] = [code |-> c, entry |-> e]]
  /\ UNCHANGED <<pw, e, term, phone, history>>

\* ... and writes it and lets go.  A code taken sends the caller on; a terminal
\* stays at the code screen otherwise, a phone must ask again.
VerifyWrites(a) ==
  LET c == held[a].code
      v == Verify(held[a].entry, c)
  IN /\ held[a] # Nothing
     /\ v.saves.locks <= MaxLocks
     /\ held' = [held EXCEPT ![a] = Nothing]
     /\ e' = IF v.says \in {"refused", "reused"} THEN e ELSE v.saves
     /\ guesses' = IF v.says = "ok" THEN 0 ELSE IF v.says = "wrong" THEN guesses + 1 ELSE guesses
     /\ uses' = IF v.says = "ok" THEN [uses EXCEPT ![c] = @ + 1] ELSE uses
     /\ proof' = IF v.says = "ok" /\ a \in Terminals /\ Origin[a] # NoOrigin
                 THEN [proof EXCEPT ![Origin[a]] = Window] ELSE proof
     /\ IF a \in Terminals
        THEN Goes(a, IF v.says = "ok" THEN "mark" ELSE "code") /\ UNCHANGED phone
        ELSE Turns(a, IF v.says = "ok" THEN "confirm" ELSE "pending", phone[a].left) /\ UNCHANGED term
     /\ UNCHANGED <<pw, wrong>>

\* The process stops, or the new file cannot be written: nothing is saved, the lock
\* file is free again.
VerifyFails(a) ==
  /\ held[a] # Nothing
  /\ held' = [held EXCEPT ![a] = Nothing]
  /\ IF a \in Terminals THEN Goes(a, "signon") /\ UNCHANGED phone
     ELSE Turns(a, "pending", phone[a].left) /\ UNCHANGED term
  /\ UNCHANGED <<pw, e, history>>

-----------------------------------------------------------------------------
(* The terminal: continueSignOn and doTwoFACodeSubmit *)

\* IsEnabled, which says FALSE when the store cannot be read.
IsEnabled == {e.state = "enabled", FALSE}

\* The policy's exemption, then IsEnabled; without 2FA some must not go on.
Policy(t) ==
  /\ term[t] = "policy" /\ Free
  /\ \E enabled \in IsEnabled :
       Goes(t, IF t \in Exempt THEN "in"
               ELSE IF enabled THEN "grace"
               ELSE IF t \in Required THEN "signon" ELSE "in")
  /\ UNCHANGED <<stores, phone, history>>

WithinGrace(t) ==
  /\ Origin[t] # NoOrigin
  /\ e.state = "enabled" /\ e.left = 0
  /\ e.verified[Origin[t]] > 0

\* WithinGrace, which says FALSE too when the store cannot be read.
Grace(t) ==
  /\ term[t] = "grace" /\ Free
  /\ \E within \in {WithinGrace(t), FALSE} : Goes(t, IF within THEN "in" ELSE "code")
  /\ UNCHANGED <<stores, phone, history>>

\* Mutant: whatever address it came from, every origin has its grace.
MarkAnywhere(t) ==
  /\ term[t] = "mark" /\ Free
  /\ \/ e' = e
     \/ e.state = "enabled" /\ e' = [e EXCEPT !.verified = [o \in Origins |-> Window]]
  /\ Goes(t, "in")
  /\ UNCHANGED <<pw, held, phone, history>>

\* MarkVerified: the origin's grace begins, whichever enrolment there is by now.  It
\* may fail, and sign-on goes on.
MarkVerified(t) ==
  /\ term[t] = "mark" /\ Free
  /\ \/ e' = e
     \/ e.state = "enabled" /\ Origin[t] # NoOrigin
        /\ e' = [e EXCEPT !.verified[Origin[t]] = Window]
  /\ Goes(t, "in")
  /\ UNCHANGED <<pw, held, phone, history>>

\* Signing out, the sign-on timeout, a closed window, an account that has expired
\* or may not use this channel.
Leave(t) ==
  /\ term[t] # "signon" /\ held[t] = Nothing
  /\ Goes(t, "signon")
  /\ UNCHANGED <<stores, phone, history>>

-----------------------------------------------------------------------------
(* The phone: handleLogin, handleLogin2FA and handleLogout *)

\* The password is right: a full session, or one that waits for a code.
StartMobileLogin(p) ==
  /\ phone[p].step \in {"out", "pending"} \/ phone[p].left = 0
  /\ held[p] = Nothing /\ Free
  /\ \E enabled \in IsEnabled :
       IF enabled THEN Turns(p, "pending", PendingTTL) ELSE Turns(p, "full", SessionTTL)
  /\ UNCHANGED <<stores, term, history>>

\* PendingMobile2FA finds the row.
PendingMobile2FA(p) ==
  /\ phone[p].step = "pending" /\ phone[p].left > 0
  /\ Turns(p, "asked", phone[p].left)
  /\ UNCHANGED <<stores, term, history>>

\* ConfirmMobile2FA, if the row has not expired meanwhile.
ConfirmMobile2FA(p) ==
  /\ phone[p].step = "confirm"
  /\ IF phone[p].left > 0 THEN Turns(p, "full", SessionTTL) ELSE Turns(p, "pending", 0)
  /\ UNCHANGED <<stores, term, history>>

EndMobileSession(p) ==
  /\ phone[p].step = "full" /\ phone[p].left > 0
  /\ Turns(p, "out", 0)
  /\ UNCHANGED <<stores, term, history>>

-----------------------------------------------------------------------------
(* Time *)

Less(n) == IF n > 0 THEN n - 1 ELSE 0

\* Somebody at o has had a code taken and is about to have that recorded.
Recording(o) == \E t \in Terminals : Origin[t] = o /\ term[t] = "mark"

\* A step of 30 s: codes grow older, what is left of a duration less.  (Nobody is in
\* the middle of Verify for that long.)
Tick ==
  /\ Free
  /\ pw' = [pw EXCEPT !.left = Less(@)]
  /\ e' = [e EXCEPT !.last = IF @ > -2 THEN @ - 1 ELSE @, !.left = Less(@),
                    !.verified = [o \in Origins |-> Less(e.verified[o])]]
  /\ phone' = [p \in Phones |-> [phone[p] EXCEPT !.left = Less(@)]]
  /\ proof' = [o \in Origins |-> IF Recording(o) THEN proof[o] ELSE Less(proof[o])]
  /\ uses' = [c \in Codes |-> IF c \notin Steps THEN uses[c] ELSE IF c = 1 THEN 0 ELSE uses[c + 1]]
  /\ UNCHANGED <<held, term, wrong, guesses>>

-----------------------------------------------------------------------------
AskCode(a) == \/ \E c \in Codes : VerifyReads(a, c)
              \/ VerifyWrites(a)
              \/ VerifyFails(a)

Next ==
  \/ \E t \in Terminals : \/ AskLocked(t)
                          \/ AskLockedFails(t)
                          \/ WrongPassword(t)
                          \/ RightPassword(t)
                          \/ FailureUnrecorded(t)
                          \/ ClearingFails(t)
                          \/ Policy(t)
                          \/ Grace(t)
                          \/ MarkVerified(t)
                          \/ Leave(t)
  \/ \E a \in Actors : AskCode(a)
  \/ \E p \in Phones : \/ StartMobileLogin(p)
                       \/ PendingMobile2FA(p)
                       \/ ConfirmMobile2FA(p)
                       \/ EndMobileSession(p)
  \/ ResetPassword
  \/ Enroll
  \/ \E s \in Steps : Confirm(s)
  \/ Disable
  \/ Unlock
  \/ Tick

Spec == Init /\ [][Next]_vars

\* Time does not stand still; calls that were begun are finished.
FairSpec == /\ Spec
            /\ SF_vars(Tick)
            /\ \A a \in Actors : WF_vars(VerifyWrites(a) \/ VerifyFails(a))

-----------------------------------------------------------------------------
(* Properties *)

TypeOK ==
  /\ pw \in [fails : 0 .. MaxFailures - 1, set : BOOLEAN, left : 0 .. LockFor]
  /\ e \in Entry /\ e.failures < MaxFailures /\ e.locks <= MaxLocks
  /\ held \in [Actors -> {Nothing} \cup [code : Codes, entry : Entry]]
  /\ term \in [Terminals -> {"signon", "password", "policy", "grace", "code", "mark", "in"}]
  /\ phone \in [Phones -> [step : {"out", "pending", "asked", "confirm", "full"}, left : Nat]]
  /\ uses \in [Codes -> Nat] /\ wrong \in 0 .. MaxFailures /\ guesses \in Nat
  /\ proof \in [Origins -> Nat]

\* "Codes are single-use": whoever presents it, at a terminal, on a phone or to
\* confirm the enrolment, a code of the authenticator or a backup code is taken once.
CodesAreSingleUse == \A c \in Codes : uses[c] <= 1

\* "an attempt counter" is never lost to a lost update: every wrong code in a row has
\* been counted, as a failure or in a lockout.
WrongCodesAllCount == e.state = "enabled" => guesses = e.failures + MaxFailures * e.locks

\* MaxFailures wrong passwords that terminals recorded and nothing cleared leave the
\* account locked until a sign-on finds the lock expired: none is lost between the
\* terminals, which are processes of their own.  (Phones record none.)
RecordedFailuresLock == wrong >= MaxFailures => pw.set

\* A terminal that skips the code by grace has had one taken from its address and
\* recorded within Window: signing in by grace does not make the grace longer.
GraceIsEarned ==
  [][\A t \in Terminals :
       term[t] = "grace" /\ term'[t] = "in" => Origin[t] # NoOrigin /\ proof[Origin[t]] > 0]_vars

\* An attempt during a lockout does not make it longer, whoever was in the middle of
\* Verify when it began: a longer lockout only follows one that is over.
LockoutsAreNotExtended == [][e.left > 0 => e'.left <= e.left]_vars

\* Lockouts end by themselves, however many attempts there are meanwhile; the
\* password's, once Locked no longer fails while it lasts.
LockoutsEnd ==
  /\ (e.left > 0) ~> (e.left = 0)
  /\ <>[][pw.left > 0 => \A t \in Terminals : ~AskLockedFails(t)]_vars
       => ((pw.left > 0) ~> (pw.left = 0))
=============================================================================
