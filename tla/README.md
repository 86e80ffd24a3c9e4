# KC LEGO CLI: TLA+ models, model checking and proofs

The program (Go, `src/cmd`, `src/internal`) runs a LEGO parts workshop: people
check sets against their inventory, order and receive parts, keep a stock of loose
parts and low-stock thresholds, bag what they count, and are told what to do through a
queue of job tickets, if they are clocked in. They sign in and work on full-screen
terminal sessions (`internal/uiapp`), locally or through a telnet gateway
(`internal/gateway`), on phones (`internal/mobileapi`) and with the command line
(`cmd/wms`), each a process or a goroutine of its own, **all of them on one SQLite
file** (`internal/lego`) and two JSON stores. Nothing but SQLite's transactions and
lock files keeps them apart, and a session works for hours on a private copy of what
it read. That is where this project looks.

| module | models | extends |
| --- | --- | --- |
| `SetChecks` | set checks, set state, loose stock, thresholds, origins | |
| `CheckBook` | the abstract book of checks and stock that `SetChecks` implements | |
| `Orders` | orders and deliveries, composed with the checks and the stock | `SetChecks` |
| `Tickets` | job tickets and the devices that work from them | |
| `Jobs` | the abstract job queue that `Tickets` implements | |
| `BagScans` | bags of a check, the finish gate, the pool of reusable bags | |
| `Attendance` | shifts, breaks, rota, status cards, the gate, the idle watch | |
| `SignIn` | password lockout, two-factor codes, terminals and phones signing in | |
| `Gateway` | telnet sessions, reconnecting, the throttle | |

`MC<module>.tla` and `MC<module>_<run>.cfg` are a module's small instances,
`<module>_proofs.tla` its theorems and their proofs, `PROJECT.json` the components, runs,
mutants, definition-to-source map, hazards, findings and theorems.

To check a run: `tlc -workers 2 -config MCSetChecks_own.cfg MCSetChecks`. To check
the proofs: `tlapm SetChecks_proofs.tla`.

## 1. Inventory

### Components with state

**Set checks** (`lego/setcheck.go`; `uiapp/set_check.go`; `mobileapi/check_walk.go`,
`finish.go`; `cmd/wms/lego_sets.go`).
State: `set_checks`, `set_check_lines`, `set_state`, and a `*SetCheck` in the memory
of every session. Operations: open (resume a draft, recount from the last finished
check, start from the inventory), mark lines, take spares, save, finish, abandon, move
spares into a checked set, paper check, dispute. Interacts with the stock, thresholds,
bags, tickets, Part-DB. Hard: several sessions on one row; a save that writes over
what another finished; a transaction that fails after the copy was changed; a push of
minutes during which the screen is live. Correct when no count is lost or doubled,
extras enter the stock once, and a set's state row is the truth about its last check.

**Loose parts** (`lego/parts.go`). State: `owned_parts`,
`part_origins`. Operations: add, take, edit, tag by origin, import. Correct when
quantities are never negative and every move is a transfer.

**Orders and receiving** (`lego/orders.go`, `uiapp/workshop.go`,
`mobileapi/check_walk.go`, `finish.go`, `dashboardapi/orders.go`). State: `orders`,
`order_lines`. Operations: create, also from what a set is short of, edit, add lines,
receive and un-receive a line into a set's last check or the loose stock, set the status
("received" receives what is outstanding). Hard: two devices receive the same line; an
order marked received line by line, failing half-way, and marked again; un-receiving;
a check going on meanwhile. Correct when nothing is received beyond what was ordered,
no part comes from nowhere, and a set's missing count remains that of its last check.

**Job tickets** (`lego/tickets.go`, `uiapp/tickets_screens.go`). State:
`job_tickets`; per session `currentTicketID`, the open check or order. Operations:
assign, reopen, claim from the list or by scan, force-off, finish, abandon, notice.
Hard: a claim between list and UPDATE; a force-off while the person works; a person
with several claims and several devices. Correct when work leaves the queue only done,
and a person works only on what is theirs.

**Bags and the bag pool** (`lego/bags.go`, `cmd/wms/bagging.go`). State: `check_bags`,
`bag_pool`. Operations: look up or register a check's bag of a kind, add an instance
under a cap, scan, hold the finish until required bags are scanned, lend, hand back.
Hard: look-up and insert are separate; codes repeat over checks; a pool bag is
lent while its check is finished; some finishes ask no gate. Correct when labels of a
check are distinct, what the gate saw still holds at the finish, and a scan confirms a
bag of the check at hand.

**Attendance, shifts, status cards** (`lego/attendance.go`, `status_cards.go`,
`cmd/wms/gateway.go` `ticketWatch`). State: clock events, breaks, rota, cards; what the
watch alerted for. Hard: every operation is a query and then a write, and nothing keeps
a person's phone, screen and command line apart; the gate in front of a claim is three
queries before the UPDATE it guards. Correct when only two at once can double a shift or
a card, a shift begins at work, the gate turns away whom it should, and idling is noticed.

**Accuracy** (`lego/accuracy.go`): a score per person, role and day; escalations.

**Sessions** (`lego/sessions.go`, `mobile_sessions.go`): a force-log-off flag
consumed by the session's idle tick; phone tokens with an expiry and a pending second
factor.

**Login lock and two-factor** (`loginlock`, `twofa`, `uiapp/login.go`,
`mobileapi/mobileapi.go`). State: two JSON stores, each behind a lock file. Operations:
count, lock, clear; enrol, confirm, verify, grant and use a grace window, unlock,
disable. Hard: several front ends between asking and writing, over stores that may fail.
Correct when every code is used once, no count is lost, lockouts end, and grace is earned.

**Gateway** (`internal/gateway`). State: per address a throttle and at most one parked
session, per session a child process, a pump and the attached connection. Hard: a
handler, a reader, a pump and a grace timer per session act at once on a connection
that may be an older one. Correct when a child is held once, killed only by who gives it
up, its own timer or a later parking of its address, and nothing leaks.

**History, snapshots, audit log**: whole-database snapshots taken and restored beside
running sessions; a hash chain across processes and rotations.

**Sync engine, Part-DB, ModernWMS, notifications**: calls to outside systems that may
fail half-way, and a monitor with due times.

The rest (catalogue load, prices, rendering, labels, reports, configuration, backup,
plugins) has little or no state that several steps share. `PROJECT.json` lists
every component with its files and what is or is not modelled of it.

### How they interact

A check's finish (one transaction) writes the check, its lines, the set's state, the stock, the
origins and the thresholds, and hands back the check's pool bags. Before it screens and phones
ask whether a set's bags are scanned (the command line does not). After it the session pushes
the set to Part-DB if a token is set, and closes its ticket with a statement of its own. A
delivery writes the same stock and the lines of the set's last check, and the set's state
(`Orders` EXTENDS `SetChecks` for this). A ticket points at a set or an order; a session
remembers the ticket and only learns of a force-off from its 15-second tick. Attendance gates
claiming on a screen, claiming clears status cards, and the gateway's watch alerts for claims
that neither explains. A phone's request loads, changes and saves a check within one HTTP
request, beside the same person's screen. The gateway gives each telnet connection a terminal
session, whose failed sign-ins come back as strikes.

### What is hard here

`PROJECT.json` "hazards" lists thirty-eight places, each with its line and the properties
that would show it going wrong, or the reason none does. In short: a stale private
copy saved over newer rows; memory changed before a commit that fails; stock read and
written by several front ends; a query and then an insert; a list read before a claim; a
ticket taken away from a session in the middle of something; a finish that is two
statements; an order received half-way and again; one code presented twice at once; a
timer that fires while its session is claimed.

## 2. SetChecks

### State

| variable | code |
| --- | --- |
| `checks`, `lines`, `nextId` | tables `set_checks`, `set_check_lines`, AUTOINCREMENT |
| `setState` | table `set_state` (`last_check_id`, `missing_qty`) |
| `loose`, `minQty` | `owned_parts.qty`, `.min_qty` |
| `origins` | table `part_origins` |
| `copy` | the `*SetCheck` of each TUI session (`app.checking`), phone request or CLI call |
| `banked` | history variable: how often a check's extras entered the stock |

Each action is one transaction, or one change to a private copy. Between any two
actions of one session any other session may act.

| action | code |
| --- | --- |
| `ResumeDraft`, `StartRecount`, `StartFromInventory` | the three branches of `NewCheck` |
| `EagerSave` | `SaveCheck` from `startCheck`, `ensureCheckSaved`, a bag scan, a phone's pre-save |
| `Mark`, `MarkFirstExtra` | keys, undo, scans, a phone's line, CLI flags |
| `TakeIntoCheck` | the T key (`TakeSpareLoose`) |
| `SaveForLater`, `SaveFails` | `SaveCheck`, committed or rolled back |
| `Finish`, `FinishFails` | `FinishCheck`, committed or rolled back |
| `Abandon` | `finishAbandon` with `DeleteDraftCheck` |
| `Leave` | Q, hang-up, crash, end of a request or of a push: memory is gone |
| `TakeSpare` | `TakeSpare` with `refreshMissing` |

`saveCheck` is modelled as it is: an UPDATE by id, whose WHERE clause says nothing of
status, and lines that are written whether or not the row still exists. A
rollback leaves the copy's `id` and `status` changed, since `LastInsertId` and
`c.Status = done` come before the commit.

### Abstractions

* `missing_qty` is a sum over the lines. The model keeps the summands by part, so
  it tells apart more states than the code, never fewer. `NewCheck` multiplies the
  inventory by the number of copies owned; the constant `Need` is that product.
* Damaged, deprioritised, paper-checked and disputed marks, storage locations, the
  journal and the snapshot taken before a finish do not influence the fields modelled.
* Bag scanning is section 5: here a gated set's check needs a row first, and a finish refused
  because bags are unscanned is a finish not taken.
* The end of a push closes whatever check is on the screen: `Leave`.
* A phone that has made a check's row (`EagerSave`) may still `Mark` and may leave;
  the code goes straight on to the finish. The model has more behaviours here.
* A session holds one check at a time, as `app.checking` does.

### What may not be assumed: OneOwner

`OneOwner` says no two sessions open the same set. The ticket queue makes it likely,
the code does not enforce it: one person may use a screen and a phone, `wms lego
check` opens any set, and so does the set screen. The run `own` and all theorems but
`TypeCorrect` assume it; the run `erased` shows what happens without it. `TypeCorrect` needs no
assumption at all, and the two theorems on failing writes assume one session.

### Properties

`CopiesAreUpToDate` (a check in memory is still the live draft its session believes in),
`OneDraftPerJob`, `BankedExactlyOnce`, `MissingMatchesLastCheck`,
`ShortPartsAreTracked`, `LinesBelongToARow`, and the action properties
`FinishedStaysFinished` and `FinishedCheckGrowsOnlyFromStock` (what `TakeSpare` adds to a
finished check leaves the stock in that step; it is proved and in no run). Each is
stated in words above its definition.

**The abstract book.** `CheckBook` says what checks promise to somebody who sees no
session, no copy and no line: a book of checks beside a stock. A number is entered as a
draft where its job has none, is finished or given up once, and a finished entry is final;
the stock gains parts in the very step that finishes a check, and else only loses
what is used. `SetChecks` implements it (`ImplementsCheckBook == B!Spec`) with the rows of
`set_checks` as the book, `owned_parts.qty` as the stock and `set_state.last_check_id` as
what was finished last, although every session works on a copy it read earlier.
`OneDraftPerJob` and `FinishedStaysFinished` follow from it, so the run `own` does not
repeat them; the run `faults`, where the book does not hold, checks the two by themselves.

Five more, at the end of the module, state what comments
and guides say and the code does not keep (section 10).

## 3. Tickets and Jobs

| variable | code |
| --- | --- |
| `tickets` | table `job_tickets` (status, assigned_to, target) |
| `earlier` | `claimed_at`: which claimed ticket was claimed before which |
| `dev` | per TUI session or phone: where its handler is, `currentTicketID`, the open job, the ticket asked for |
| `worked` | history: who completed a check or order of which target |

Each query and each UPDATE is a step. `RequestJob` and `ScanOpenTicket` read, `Claim` is
the UPDATE with its WHERE clause followed by opening what `CurrentTicket` returns (after
a request) or the ticket scanned. `FinishWork` and `CloseTicket` are the two statements
at the end of a job: a force-off may come between them. `Notice` is
`checkTicketStillMine` on the idle tick. The admin's `Assign` and `ForceOff` come from
the TUI, the dashboard and the bot alike. `PhoneRequest`, `PhoneRefused`,
`FinishWork`, `CloseTicket` are a phone's finish request; two requests of one phone do
not overlap.

Abstractions: the gate in front of a claim may pass or refuse at any time (what it
asks is section 6); priorities, pace and the score a finish records do not affect the
status; claims made within one second are ordered as made; a session's crash is not a
step of its own, as its ticket stays claimed and a session that idles for ever behaves
the same towards the others.

**The abstract queue.** `Jobs` says what the queue promises and knows nothing of devices:
a job is posted, waits for anybody or for one person, is taken by somebody who may,
is given back or taken away, and is done only from the hands of a person who completed
what it asks for. `Tickets` implements it with the table as `jobs`
(`ImplementsJobs == J!Spec`), although every device acts on what it read earlier.
Two consequences are stated for a reader who does not want to open `Jobs`:
`HandoverGoesThroughTheQueue` and `DoneIsFinal`.

**Liveness and fairness.** `ForcedOffSessionsNotice`: a session whose ticket was taken
away does not work on without it for ever. A handler runs to its end, so `Claim` and
`CloseTicket`, once begun, are taken: weak fairness. `tea.Tick` is re-armed on each
tick (every 15 s) and its message waits in the program's queue while a handler runs, so
other handlers cannot shut `Notice` out by making it disabled again and again: strong
fairness. Nobody is assumed to do any work.

## 4. Orders

`Orders` EXTENDS `SetChecks`: every step of a check, a spare or a save may come
between two statements of an order, on the same tables.

| variable | code |
| --- | --- |
| `orders`, `orderLines` | tables `orders` (status) and `order_lines` (set, part, qty, received) |
| `office` | per person who manages orders, what they have read and not yet written |

| action | code |
| --- | --- |
| `NewOrder`, `AddOrderLine` | `SaveOrder` without an id, `AddOrderLine` |
| `OrderFromMissing`, `CountOnOrder`, `AddMissing` | the new order; per short line of the set's newest finished check, `onOrder` and the insert |
| `EditOrder`, `SaveOrder` | the form: `GetOrder`, later `SaveOrder` with every column as read |
| `Receive`, `Unreceive` | `ReceiveLine`, `UnreceiveLine`, a transaction each |
| `SetStatus` | `SetOrderStatus` to any other status |
| `BeginReceiving`, `ReceiveNext`, `MarkReceived` | `SetOrderStatus` "received": the outstanding lines are read, received one transaction each, then the status |
| `StopWork` | a statement failed or the process stopped: the rest stays undone |

A delivery goes into the set's last check, up to what the set needs (a surplus is lost),
or into the stock if the set has no check or the line names no set. `CheckFor` reads
`last_check_id`, while `OrderFromMissing` starts from the newest done check: the model
keeps both as they are. Quantities asked for are small positive numbers; prices, shelves
and the reading position of an order are left out.

Properties: `OrdersOK` (its part `received <= qty` is the one that could go
wrong: the same line received from two devices, or an order received again after a failure
half-way), `MissingMatchesLastCheck` (of `SetChecks`, now with deliveries in
between), and `DeliveriesMakeNoParts`: booking a line moves no more parts into the stock
and the set's check than the line says arrived. `OrdersKeepTheBook` says what is left of
`CheckBook` beside orders: every step is one of the book's, moves into or out of the stock
just the pieces of a line that is booked or taken back (`MovesStock`), or does not show.
It is proved; `MCOrders_book.cfg` checks it by hand on the instance of the run `orders`.

## 5. BagScans

| variable | code |
| --- | --- |
| `checks` | of `set_checks`, its status and whether the saved lines have extras; `gated` is history: whether it was finished through a gate that answered |
| `bags` | table `check_bags`, in the order of its ids |
| `pool` | table `bag_pool`: the check that has the bag |
| `hand` | per session or phone: the open check, and what was looked up and not yet written |
| `desk` | per administrator at the command line, the same |

`MarkExtra`/`ScanLabel` then `Register` are `EnsureCheckBag`'s look-up and INSERT;
`CountBags` then `AddBag` are `AddBagInstance`, with the cap read in the first;
`AskForPoolBag`, `TakePoolBag`, `HandPoolBag` are `AssignPoolBag`'s query, UPDATE and
INSERT. `ScanRow`, `ScanLabel` and a refusal are `ScanBag`'s outcomes. A phone scans
before its check has a row, too (`confirmCheckLine` by way of `bagWarningFor`): rows are
then looked for, and registered, under check 0.

A check is finished in three ways. `Gate` is `UnscannedRequiredBags` and `Finish` the
transaction of `FinishCheck` with the hand-back of pool bags: two steps, between which others
add bags, count extras or abandon. `GateFails` is that query failing, which lets the check
through (`set_check.go:897`, `finish.go:133` ask `err == nil && len(missing) > 0`).
`CheckFromCli` is `wms lego check`, which resumes the set's draft or makes a check of
its own and finishes it without asking anything. The schema's UNIQUE constraint is `Clashes`.

Abstractions: a code is a set, a kind and an instance number, or a reusable bag; the labels
that exist on paper are the constant `Labels`, since printing asks nothing of the tables; marking
a row found as scanned is one step with finding it, since rows are never deleted and
the mark commutes with every other statement; kinds of bag and the parts placed in them
are constants; saving over a finished check is `SetChecks`' subject, so a worker here
stays away from a check that closed before it started.

Properties: `GatedChecksHadTheirBags` (the gate and the finish are two statements, yet
no check that passed a gate which answered gets done with a required bag unscanned),
`BagsAreDistinct`, `ScansConfirmOwnBags` (codes repeat over checks, the newest row wins, and
yet no scan confirms a bag of a saved check that the scanner does not have open; rows under
check 0 are nobody's), and `PoolBagsScanWhereTheyAre`, which needs one administrator at
a time. `FinishedChecksHadTheirBags`, of every finished check, is what the guide says and
the code does not keep (section 10).

## 6. Attendance

| variable | code |
| --- | --- |
| `shifts`, `breaks`, `cards` | tables `clock_events`, `clock_breaks`, `status_cards`; `by` is history: who inserted the row |
| `rota` | who has a rota entry for today |
| `claims` | tickets claimed, by whom, released or not |
| `desk` | per request, screen and admin: the errand in progress and the shift it read |
| `barred` | history, per screen: what has kept its user from work all the time since the claim was asked for |
| `seen`, `watch` | `ticketWatch`: `seenIdleTicket`, and the claim it is looking at |
| `nudged` | history: claims alerted for |

Three kinds of desk act, as in the code, each for anybody and all at once: `Requests` (a
phone's HTTP requests, `wms attendance`) clock in and out and take breaks, `Screens` (TUI
sessions, `tickets_screens.go:171` and `693`, the only callers of `ClaimTicket`'s gate) claim
work, `Admins` tag people with cards. None of these operations is a transaction, so
every query and every statement is a step: `BeginClockIn`, `LookAtRota`, `InsertShift` are
`ClockIn`; `ClockOut`, `LeaveWithoutCard`; `BeginBreak`, `LookAtBreaks`, `InsertBreak`;
`BeginEndBreak`, `EndBreak`; `BeginCard`, `InsertCard`; `BeginClaim`, `GateLooksAtRota`,
`GateLooksAtBreak`, `ClaimTicket`, `WorkClearsCard` are `RequireClockedIn` and the claim
behind it. `Stop` ends an errand where it is. A clock-out leaves an open break's row open,
and `OnBreak` asks only about the current shift. The watch reads break and card of a
claim in two steps and ticks it off only when it has alerted.

Abstractions: a day and its times are left out (the claims in `Idle` may be found idle at
any time, the rota is today's); a claim is a row of its own, as what a claim does to the
ticket is section 3; the setting `wms attendance gate` is the constant `GateOn`; the
same gate in front of each step of a phone's check (`check_walk.go:244`, `299`, `345`,
`460`) guards nothing these tables hold; the alerts for no-shows and long breaks and the
team summaries only read.

Nothing here keeps one person's requests apart, and so what comments promise does not
hold: "at most one open row at a time -- enforced in Go" (`db.go:374`) is a query before an
INSERT, the gate's three answers may be old when the claim is made. `OneShift`, `OneBreak`,
`OneCard` and `WorkIsGated` state these promises, and a configuration each refutes them
(section 10). What the code does keep:

* `DoublesTakeTwo`: one request, or one admin, that asks first and inserts then doubles
  nothing by itself; of two open shifts or two active cards of a person the inserters
  differ.
* `ShiftsBeginAtWork`: whoever clocks in is not on a break, although earlier shifts may have
  been left on one and a request under way may yet insert one into them.
* `BarredGetNoWork`: whom one thing (no shift, no rota entry, a break) has kept from work
  all the time since the claim was asked for does not get it, however the three answers and
  the writes of other desks interleave.
* `IdleIsNoticed` (liveness): an idle claim that nothing explains is alerted for, and an
  explanation that has passed does not silence it for good. The watch goes through the whole
  list every five minutes for as long as the gateway runs, and a claim looked at may be
  explained just then again and again, so its steps are strongly fair, claim by claim.

The run has one desk for requests and two admins. Two requests at once, which double a shift,
are checked by hand with `MCAttendance_together.cfg` (the three safety properties hold), and
the theorems are about any number of requests, screens and admins.

## 7. SignIn

| variable | code |
| --- | --- |
| `pw` | the account's entry in `loginlock`'s store |
| `e` | its entry in `twofa`'s store |
| `held` | per caller of `Verify`, what it read behind the lock file |
| `term`, `phone` | how far each terminal's and phone's sign-on is, a phone's row in `mobile_sessions` |
| `uses`, `wrong`, `guesses`, `proof` | history: codes taken, wrong passwords recorded, wrong codes, per address the time since a code was taken there |

`AskLocked` and `WrongPassword`/`RightPassword` are separate steps of every terminal.
`VerifyReads` and `VerifyWrites` are the two ends of `Verify`'s critical section;
`VerifyFails` is a process that stops in it. `Policy`, `Grace`, `MarkVerified` are
`continueSignOn` and what follows a code; `StartMobileLogin`, `PendingMobile2FA`,
`ConfirmMobile2FA` are the phone's two requests, whose row may expire in between.
`Enroll`, `Confirm`, `Disable`, `Unlock`, `ResetPassword` are the administrator's and
come at any time. `Tick` is one TOTP step of 30 s: durations are kept as what is left
and code steps as distance from now, so time has no bound and no wrap.

The stores are files and their calls may fail. `AskLockedFails`: when `Locked` fails,
sign-on goes on to the password (`login.go:125` asks `lerr == nil && locked`).
`FailureUnrecorded`, `ClearingFails`: the errors of `RecordFailure` and `ClearFailures` are
not looked at. `IsEnabled` answers no when the store cannot be read (`twofa.go:492-505`), and
so lets a terminal that need not have 2FA, or a phone, in without a code. Only the terminals'
sign-on uses `loginlock` at all: a password typed on a phone (`mobileapi.go:181`), to switch
to an administrator (`switch_admin.go:101`) or in front of the ticket screens
(`tickets_screens.go:661`) is neither refused during a lockout nor counted, and these leave
`pw` alone.

Abstractions: one account; a code is its TOTP step, a backup code or a wrong one; the
policy's exemptions are the constants `Exempt` and `Required`; `Free` (nobody is in the
lock file) is the lock file's mutual exclusion, and `Tick` waits for it. A lockout's
length comes from the table `LockTimes`.

Properties: `CodesAreSingleUse` (terminals, phones and the confirmation of an enrolment
together), `WrongCodesAllCount` (no lost update between processes), `RecordedFailuresLock`
(`MaxFailures` wrong passwords that terminals recorded and nothing cleared leave a lock,
whichever calls fail besides; it says nothing of what was not recorded), `GraceIsEarned`
(signing in by grace does not extend it, one address's code gives another none) and
`LockoutsAreNotExtended` (an attempt during a lockout of the second factor does not make it
longer, nor does one that was in `Verify` when it began).

`LockoutsEnd`, the liveness beside it, is checked by hand with `MCSignIn_lockouts.cfg` (208,284
states; it holds): lockouts of both kinds end. Fairness: time goes on (`SF(Tick)`, as `Verify`
calls, which `Tick` waits for, take far less than 30 s) and a call of `Verify` ends. Without the
former nothing would end; nobody is assumed to try anything. A `Locked` that fails lets a wrong
password set the lockout anew, so the half of `LockoutsEnd` on passwords is about stores for
which that stops: from some time on `Locked` does not fail while a lockout lasts.

## 8. Gateway

| variable | code |
| --- | --- |
| `reconnect` | whether `rc.grace` is positive |
| `step`, `net`, `done`, `sess` | per connection: where `handleTelnetSession` is, the link, its done channel, its session |
| `child`, `pump`, `current` | per session: the process, what `pump` does and with whose connection in hand, the attached connection |
| `parked`, `timer` | the registry per address, the grace timer per parked connection |
| `throttle` | active sessions, strikes, block, per address |

The constant `Loopback` is the gateway's own machine, which the throttle exempts: it is never
refused, takes no slot and leaves no strikes (`throttle.go:44-48`, `62-64`, `90`).

A session is named by the connection that started it. An action is what a goroutine does
under one mutex or up to its next blocking call: `Admit`, `Refuse`, `Release` and the
strikes (throttle.go), `Claim`, `Start`, `Attach`, `Detach`, `Park`, `Kill` (a handler),
`ReaderEnds` (its reader), `PumpReads` to `PumpIsOver` (the pump, which decides whom to
write to before it writes), `TimerFires`, `TimerRuns`, `TimerKills` (the grace timer,
which may have fired while its session is being claimed). `ClientDrops` and
`ChildExits` are the world.

Abstractions: bytes, IAC, the question whether live or test and the web terminal are left
out; a connection is used once; strikes expire one at a time, at any time; the timer is
set in `Park` itself, a moment before the map is locked; `closeAll` at
shutdown is not modelled.

Properties: `EveryChildHasOneHolder`; `AddressesHoldFewSessions` (a parked session has
given its slot back, and yet an address that the throttle applies to holds no more than
`MaxSessions` altogether, not counting a child that its timer is just killing);
`KillsAreDue` (a child is killed by the handler that gives it up, by the timer of its own
parking or by a later parking of its address, never by an older timer or a stranger, and a
parking ends only so or with a claim of its session); `ConnectionsEndForAReason` (a late
failure of the pump on an earlier connection does not end the present one) and the liveness
property `NothingLingers`. A grace period is not a promise: a second connection of the
address that drops meanwhile replaces the first one's session (`GraceIsKept`, violated,
section 10). Fairness: goroutines that can go on do, timers run out, and a reader notices a
dead link at its idle timeout: weak fairness of each.

## 9. Runs

| run | instance | question | states |
| --- | --- | --- | --- |
| `own` | a screen and a phone, a set each (needs 2 and 1), one part in a shared stock, two checks, no faults, no push | are counts, stock and set state right when sessions keep to their own sets, and is it all a `CheckBook`? all seven properties hold | 505,115 |
| `faults` | one screen, one set, two checks, saves and finishes that may fail, Part-DB push | does a failed write leave a second draft, or reopen a finished check? no | 1,340,064 |
| `queue` | Alice at a screen and a phone, Bob at a screen, two targets, two tickets | does the queue implement `Jobs`, and is done work really done? yes | 1,327,954 |
| `notice` | the same people, one target, two tickets, with fairness | do the forced off find out? yes | 77,686 |
| `orders` | one set that needs one brick, one session checking it, one office, one order, two lines of up to two | are deliveries booked once and counted right beside a check? yes | 926,980 |
| `bags` | a screen, a phone, an administrator, the command line; one set, two kinds, a reusable bag for the parts, labels for the bag of extras, two checks, two rows | does a passed gate still hold at the finish, and is every scan the check's own? yes | 2,377,532 |
| `attendance` | Alice: a desk for requests, a screen, two admins, one claim that may idle; two shifts, breaks, cards; gate on | who doubles what, does a shift begin at work, who is given work, is idling noticed? as section 6 says | 589,680 |
| `signin` | a telnet and a web terminal, a phone, one backup code, two failures lock, lockouts of 1 and 2 steps, stores that fail | are codes single-use, attempts counted, grace earned, lockouts not prolonged? yes | 2,071,254 |
| `gateway` | three connections of one address, two sessions, two strikes | one holder per child, no kill out of turn, no wrong ending? yes | 371,902 |
| `lingering` | two such connections, with fairness | do slots and children come back? yes | 32,701 |
| `erased`, `inverse` | `SetChecks` with two sessions on one set; `Orders` | one statement of the code each, violated (section 10) | |

**Why the bounds are enough.** Two checks let a set have a finished check and a recount, or two
sets a check each. A stock and a take of two with a need of two give partial takes, refused
takes, a shortfall of one and of two, and over-full lines. Two tickets let one person hold both,
with the second finished first, and let a ticket go away and come back; three devices for two
people give the same person twice and two people at once. Two order lines give an order half
received; a quantity above the need gives a surplus. Two bag rows are two bags of one check, or
the same code on two checks. Two rows of each attendance table are what can be open at once, and
a shift left on a break beside the next one; one claim can be explained, go unexplained and be
alerted for. Two failures are the smallest limit at which a counter can lose one, and the second
lockout is longer than the first. Three connections are one parked, one that replaces it and one
that claims. The bounds in the guards are `MaxChecks`, `MaxHave`, `MaxExtra`, `MaxTake`,
`MaxLoose`, `MaxTickets`, `MaxOrders`, `MaxLines`, `MaxQty`, `MaxRows`, `Labels`, `MaxShifts`,
`MaxBreaks`, `MaxCards`, `MaxClaims`, `MaxLocks`, and in Gateway each connection being used
once.

Symmetry is used where it is sound: the targets in `queue` and the connections in `gateway`
(no liveness in either, and no property names one). Deadlock is checked except in `bags`,
where inserting stops at `MaxRows` with a session in the middle of it, and in
`gateway` and `lingering`, where every connection may be over.

Every property of a passing run has a mutant in `PROJECT.json`, a plausible bug in one
definition (a draft looked up without its status, a clamp against the wrong column, a
query left out, an entry read outside its lock, ...) under which TLC finds it violated.

## 10. Findings

Two runs state what a comment says and TLC refutes; the trace is the code's own doing.

1. `erased`: two sessions have the same draft open. One finishes it; the other saves
   its copy, status draft, over the finished row (`UPDATE ... WHERE id = ?`,
   `setcheck.go:363`). The result is a draft again and abandoning it deletes it,
   though abandoning "refuses anything already finished" (`setcheck.go:167`).
2. `inverse`: `ReceiveLine` puts a line of a set that has no check into the loose stock,
   `UnreceiveLine`, "ReceiveLine's inverse" (`orders.go:269`), takes it out only if the
   line names no set (`orders.go:294`): the parts stay.

More disagreements of this kind have a statement at the end of their module and a
configuration to see them with (`tlc -config <cfg> <MC module>` ends in a counterexample,
and the statement is violated by what the code does). They are kept beside the runs,
which ask about the system as a whole, but they are no less real:

| configuration | statement | what a comment or guide says, and what happens |
| --- | --- | --- |
| `MCSetChecks_failed` | `DoneChecksWereBanked` | `FinishCheck` marks the copy done before its transaction; if that fails, S saves the check as done, its extras never in the stock |
| `MCSetChecks_optional` | `OptionalNeverMissing` | `refreshMissing` counts optional parts, `FinishCheck` does not: moving a spare makes missing stickers count |
| `MCSetChecks_pushed` | `IncompleteSetsAreFlagged` | during a push the finished check's screen takes marks; S writes them into the check but not into `set_state` |
| `MCSetChecks_reused` | `FinishedStaysFinished` | sessions on sets of their own: an insert is rolled back, but its `LastInsertId` stays in the copy (`setcheck.go:362`) and another session's check gets that id; S then saves one session's draft over the other's finished check |
| `MCSetChecks_newest` | `LastCheckIsMostRecent` | an older draft finished after a newer one: `LastCheck` returns the newest id (`setcheck.go:308`), `last_check_id` the last finished |
| `MCTickets_evicted` | `OnlyTheForcedOffLoseTheirJob` | the idle tick compares with the person's oldest claim: who works on a second ticket is thrown out, unsaved counts included |
| `MCBagScans_recount` | `OwnLabelsAreAccepted` | a recount has "its own bag instances" (`db.go:254`), but a set's label whose newest row is on an abandoned check is refused (`bags.go:306`) |
| `MCBagScans_ungated` | `FinishedChecksHadTheirBags` | "Finishing a check holds until every bag kind that check actually needs has been scanned" (`docs/guides/set-checks.md:136`): a failed query lets it pass (`set_check.go:897`, `finish.go:133`), and `wms lego check` never asks (`cmd/wms/lego_sets.go:125`) |
| `MCAttendance_shifts` | `OneShift` | "at most one open row at a time" (`db.go:374`): two requests both find none and both insert (`attendance.go:49`) |
| `MCAttendance_breaks` | `OneBreak` | "ErrAlreadyOnBreak if one's already running" (`attendance.go:247`): a break card scanned twice at once starts two (`attendance.go:259`) |
| `MCAttendance_cards` | `OneCard` | "one current status at a time" (`status_cards.go:60`): two admins both clear and then both insert (`status_cards.go:72`) |
| `MCAttendance_gate` | `WorkIsGated` | "no claimable work happens during a break" (`attendance.go:249`): a break begun, or a shift ended, between the gate's queries and the claim's UPDATE (`tickets.go:199`) |
| `MCGateway_replaced` | `GraceIsKept` | a dropped connection's process "is kept alive for that long" (`docs/guides/telnet-and-web.md:58`): a later drop of the same address kills it (`reconnect.go:192`) |
| `MCGateway_stranded` | `TheAttachedAreTold` | the pump looks who is attached and ends; a connection attached after that is never told (`reconnect.go:53`), and sits there until it types or times out |

Further configurations hold, and look at the runs' modules from another side:
`MCSignIn_lockouts` (`LockoutsEnd`), `MCAttendance_together` (two requests at once, 798,224
states), `MCBagScans_labels` (labels of both kinds, no reusable bag, 2,593,657 states),
`MCGateway_local` (connections from loopback: `EveryChildHasOneHolder` without a throttle)
and `MCOrders_book` (`OrdersKeepTheBook`).

## 11. Proofs

For every number of sessions, people, devices, sets, parts, bags, connections and for every
bound. The assumptions on constants named `...Assumption` are always used; the column lists
what else is assumed.

| theorem | property | further assumptions |
| --- | --- | --- |
| `SetChecks_proofs!TypeCorrect` | `TypeOK` | none |
| `DraftsAreSafe`, `JobsHaveOneDraft`, `LinesHaveRows` | `CopiesAreUpToDate`, `OneDraftPerJob`, `LinesBelongToARow` | `~Faults`, `OneOwner` |
| `ExtrasBankedExactlyOnce`, `FinishedChecksStayFinished` | `BankedExactlyOnce`, `FinishedStaysFinished` | `~Faults`, `OneOwner` |
| `SetStateIsTrue`, `ShortPartsHaveThresholds`, `FinishedChecksGrowOnlyFromStock` | `MissingMatchesLastCheck`, `ShortPartsAreTracked`, `FinishedCheckGrowsOnlyFromStock` | and `~PartDB` |
| `ChecksImplementTheBook`, `LastChecksAreFinished` | `ImplementsCheckBook`, `CheckBook!LastIsDone` | `~Faults`, `OneOwner` |
| `FailedWritesLeaveOneDraft`, `FailedWritesReopenNothing` | `OneDraftPerJob`, `FinishedStaysFinished` | one session |
| `Tickets_proofs!QueueTypeCorrect`, `NoTicketDoneUnworked` | `TypeOK`, `DoneTicketsWereWorked` | none |
| `QueueImplementsJobs` | `ImplementsJobs` | none |
| `FinishedTicketsAreFinal`, `HandoverThroughTheQueue` | `DoneIsFinal`, `HandoverGoesThroughTheQueue` | none |
| `Orders_proofs!OrdersTypeCorrect`, `PartsComeFromDeliveries` | `OrdersOK`, `DeliveriesMakeNoParts` | none |
| `DeliveriesKeepTheRecord` | `MissingMatchesLastCheck` under `OrdersSpec` | `~Faults`, `~PartDB`, `OneOwner` |
| `DeliveriesKeepTheChecks` | `CopiesAreUpToDate`, `OneDraftPerJob`, `BankedExactlyOnce`, `LinesBelongToARow` under `OrdersSpec` | `~Faults`, `OneOwner` |
| `OrdersLeaveTheBook` | `OrdersKeepTheBook` | `~Faults`, `OneOwner` |
| `BagScans_proofs!TypeCorrect`, `GateIsSound`, `LabelsAreDistinct`, `ScansAreOwn` | `TypeOK`, `GatedChecksHadTheirBags`, `BagsAreDistinct`, `ScansConfirmOwnBags` | none |
| `PoolBagsAreFound` | `PoolBagsScanWhereTheyAre` | one administrator |
| `Attendance_proofs!AttendanceInvariant`, `DoublesComeOfTwo`, `ShiftsBegin`, `GateTurnsAway` | `TypeOK`, `DoublesTakeTwo`, `ShiftsBeginAtWork`, `BarredGetNoWork` | none |
| `SignIn_proofs!CodesTakenOnce`, `WrongCodesCounted`, `WrongPasswordsCounted` | `CodesAreSingleUse`, `WrongCodesAllCount`, `RecordedFailuresLock` | none |
| `SignInTypes`, `GraceHasItsCode`, `LockoutsRunOut` | `TypeOK`, `GraceIsEarned`, `LockoutsAreNotExtended` | none |
| `Gateway_proofs!GatewayTypes`, `FewSessions` | `TypeOK`, `AddressesHoldFewSessions` | none |
| `OneHolder`, `KillsInTurn`, `ConnectionsEndRightly` | `EveryChildHasOneHolder`, `KillsAreDue`, `ConnectionsEndForAReason` | none |

The assumptions are needed: in the instance of `erased` (no `OneOwner`) TLC also finds
`BankedExactlyOnce` and `FinishedStaysFinished` violated, in that of `MCSetChecks_failed`
(with `Faults`) `BankedExactlyOnce`; `MCSetChecks_pushed` shows what a push does to
the set state, and `MCSetChecks_reused` why the theorems on failing writes are about one
session. The code enforces none of `OneOwner`, `~Faults` and `~PartDB`: those theorems say
what holds as long as sessions keep to their own sets and writes succeed, and no more.

*SetChecks.* `BankedExactlyOnce` is not inductive: a step from a state in which a
session holds a draft's id whose row is already done would bank again. What rules that out
is that copies are up to date, which in turn needs that nobody else can hold the same
row. `IInv` is the conjunction of the type invariant, `IdsBelowNext` (rows exist only
below the AUTOINCREMENT counter, so an insert never hits a row), the drafts' and lines'
invariants, `BankedExactlyOnce` and, without pushes, the two on the set state. The argument
goes copy by copy: a step of session `ss` touches only rows of sets in `Assigned[ss]`, and
by `OneOwner` no other copy is of those sets. `TakeSpare` belongs to no session and
changes finished checks only, which no live draft is. There is one lemma per action.

`ChecksImplementTheBook` rests on the same `IInv`: a save or a finish writes under a number
that is above every row's (then the copy's job has no draft, since nobody else may open its
set) or under the number of the copy's own live draft; every other step leaves the book
alone or removes a draft or uses stock. `FailedWritesLeaveOneDraft` and
`FailedWritesReopenNothing` drop `~Faults` and the push and need another invariant, `FInv`:
a copy not marked done has no row, and then its job has no draft, or names a row that
is not finished: the row of its draft, or one that was rolled back after the copy got
its id. The second half is what another session breaks.

`LastChecksAreFinished` is an invariant
of the book alone (`LastStaysDone`), carried over by the refinement.

*Orders.* `RecordInv` takes `SetChecks`' `IInv` and the book's `LastIsDone` over as they
are: a step of a check keeps them by the lemmas of `SetChecks_proofs`, a step of an order as
a delivery changes only the lines of a set's last check, which is done and so nobody's
live draft, and the set's missing count together. `OrdersLeaveTheBook` needs nothing
more. `OrdersTypeCorrect` and `PartsComeFromDeliveries` need only the tables to be well
formed: a line is clamped to what is outstanding when it is booked, not when it was read.

*Tickets.* `IInv` adds to the types that handlers are ready (`HandlersAreReady`: a
handler that is closing has its job open and its user is among those who worked on it)
and that done tickets were worked. With it every step of `Tickets` is a step of `Jobs`
or leaves its variables alone; that done tickets were worked is then preserved at the
level of `Jobs`, once, rather than by fifteen actions.

*BagScans.* A check that a worker is about to finish through an answered gate already has
its bags (`GateInv`): the extras the worker has counted travel in the same hand, rows
never go, and scanned marks stay, so nothing between `Gate` and `Finish` can undo what
`Gate` saw. Labels are kept apart by the schema's constraint alone.
`PoolBagsAreFound` needs to know what the administrator who has asked for a bag may rely
on (`TakingOK`): no row of that check has the bag's code, and no other check has taken it.
Workers keep that: rows with a reusable bag's code are inserted by `HandPoolBag` only, and
a hand-back only empties the pool's entry. For this the codes of reusable bags are assumed
to be none of the numbers that labels are made of (`Pool \cap Nat = {}` in
`BagsAssumption`).

*Attendance.* `IInv` is the types, `DoublesTakeTwo` and what each desk may rely on
(`ErrandsOK`): one that has found no open shift, or has cleared the active cards, has none of
its own in the table, since only its own INSERT puts one there. So whoever inserts a second one
finds another's. `BarredOK` follows a claim through the gate's three queries: what a query has
asked about and let pass did not bar the whole time, and `barred` never grows while the claim is
under way. A shift begins at work because `InsertShift`'s row is the current one, and no break
can name it yet.

*SignIn.* `LockOK`: one caller at a time is behind the lock file and has read what is
stored. Then a step taken is never newer than `LastStep`, a backup code taken is not
stored any more, and `Tick` shifts both sides alike. For
`GraceHasItsCode` the invariant adds `GraceOK`: what the store calls grace ends within
`Window` of a code taken at that address, and a terminal about to record one has had one
taken in this very step of time. So `MarkVerified` never writes
a grace that ends later, and skipping a code writes none.
`LockoutsRunOut` needs only that who writes under the lock file has seen the lockout
(`RefusedWhileLocked`).

*Gateway.* `HInv` follows a child from the handler that starts it to whoever holds it:
early connections have nothing, what is parked was parked by a handler that has ended, a
timer that kills has taken its parking off the map first. `ConnectionsEndRightly` has an
invariant of its own, `JInv`: who is attached to a session is one of its own connections, and
a pump that is ending has lost its child. So whom the pump tells is who it failed to reach,
or who has no child any more. `FewSessions` counts: `SInv` says that `active` is the number of
handlers with a slot, and that where something is parked fewer than `MaxSessions` handlers
have or start a child: parking makes one less, and only a claim, which ends the parking, makes
one more. The cardinality of a set that is one element larger or smaller comes from the
library's theorems.

**Only model-checked.** Liveness (`ForcedOffSessionsNotice`, `IdleIsNoticed`, `NothingLingers`,
and by hand `LockoutsEnd`) is out of the prover's reach, as is `ENABLED`; and the violated
statements, of course. Every safety property, action property and refinement that a run checks
is a theorem. No module about which something is proved uses a RECURSIVE operator or induction
over data: `OnOrder`, a sum over lines, occurs in what an office orders, and no proof needs its
value.

## 12. Plan

Done: the modules above, each of the eight detailed ones with its instances, mutants and
proofs. In order of what they would add:

1. Two administrators at the pool: `PoolBagsScanWhereTheyAre` does not hold then, and
   what does has to be said.
2. Abstract specifications of the bags, the sign-in and the gateway, as `Jobs` and
   `CheckBook` are for the others.
3. A restore of a snapshot under running sessions (`history.go`), on top of `SetChecks`.
4. The audit log's chain over rotation and several processes, the rate limit's slot, the
   monitor's due times.
5. The sync engine's partial failures, with its two databases as environment.
6. `Rename` of an account over both stores of SignIn, and the PIN reset.

## 13. Not modelled, and why

Most of the code is rendering, menus, pickers, labels, reports, prices, catalogue import,
configuration and command-line glue: it keeps no state that several steps share, and
the map does not claim it. The models are about the smaller part that does.

* *Attendance*: no-show and overlong-break alerts and the team summaries read only.
* *SignIn*: renaming an account, the PIN reset's callers, the forced password change, the
  bot's PIN. The terminal's force-log-off is one flag read by one tick.
* *Gateway*: the web terminal (ttyd and tmux, outside the repository), the shutdown
  (`closeAll`), the telnet protocol.
* *Orders*: prices, spend, the import of packing lists, the Part-DB push of received parts.
* *Bags*: adding kinds, moving parts between kinds, printing.
* *Loose parts*: adding and editing by hand are single statements.
* Snapshots and restore replace whole tables under running sessions: a model of them is
  a model of every module at once (plan, 3).
* Accuracy scores, messages, events, handover, kanban: appended and read, nothing
  relates two of them.
* Part-DB, ModernWMS, Rebrickable and the chat services are outside the repository; the
  models keep only the moments at which they are called.
* Migrations, backup and update run alone.
* SQLite is taken at its word: a transaction is atomic and isolated, and a committed one
  survives. So are the lock files.
