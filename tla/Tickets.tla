------------------------------- MODULE Tickets -------------------------------
(***************************************************************************)
(* The job queue (internal/lego/tickets.go) and the devices that work from *)
(* it: full-screen TUI sessions (internal/uiapp/tickets_screens.go,        *)
(* set_check.go, workshop.go, app.go) and phones (internal/mobileapi).     *)
(*                                                                         *)
(* Every query and every UPDATE is one step; what a device remembers       *)
(* between two of them may be out of date when it uses it.  A TUI session  *)
(* runs one handler at a time, a phone request runs beside it.  The check  *)
(* or order itself is here only the fact that somebody completed it; its   *)
(* rows are module SetChecks.  Claims made within one second are ordered   *)
(* as they were made.                                                      *)
(***************************************************************************)
EXTENDS Integers

CONSTANTS
  Users,      \* the people who pick and check
  Screens,    \* TUI sessions
  Phones,     \* signed-in phones
  UserOf,     \* UserOf[dev]: who is signed in on the screen or phone
  Targets,    \* what a ticket can point at: sets to check, orders to receive
  Nobody,     \* assigned_to = ''
  NoTarget,   \* no check or order is open on the device
  MaxTickets  \* bound: tickets ever assigned

Devices == Screens \cup Phones
TicketIds == 1 .. MaxTickets

ASSUME TicketsAssumption ==
  /\ UserOf \in [Devices -> Users]
  /\ Nobody \notin Users /\ NoTarget \notin Targets
  /\ Screens \cap Phones = {}
  /\ MaxTickets \in Nat

Ticket == [status : {"queued", "claimed", "done"}, target : Targets,
           owner : Users \cup {Nobody}]
NoTicket == [status |-> "none"]
Device == [step : {"idle", "gated", "scanned", "closing"},
           ticket : TicketIds \cup {0}, job : Targets \cup {NoTarget},
           asked : TicketIds \cup {0}]
Idle == [step |-> "idle", ticket |-> 0, job |-> NoTarget, asked |-> 0]

VARIABLES
  tickets,  \* job_tickets: id -> row or NoTicket
  earlier,  \* claimed_at: <<i, j>> when claimed ticket i was claimed before j
  dev,      \* per device: where its handler is, app.currentTicketID, the open
            \* check or order, and the ticket it asked for
  worked    \* history: worked[t] are those who have completed a check of t

vars == <<tickets, earlier, dev, worked>>

-----------------------------------------------------------------------------
(* Queries *)

\* OpenTickets: queued, and nobody's or the user's own.
OpenTo(u, id) == tickets[id].status = "queued" /\ tickets[id].owner \in {Nobody, u}

HeldBy(u, id) == tickets[id].status = "claimed" /\ tickets[id].owner = u

\* ORDER BY claimed_at LIMIT 1 over what the user holds.
ClaimedFirst(u, id) ==
  /\ HeldBy(u, id)
  /\ \A i \in TicketIds : HeldBy(u, i) => <<i, id>> \notin earlier

\* CurrentTicket: the ticket the user claimed first, 0 if none.
Current(u) ==
  IF \E id \in TicketIds : ClaimedFirst(u, id)
  THEN CHOOSE id \in TicketIds : ClaimedFirst(u, id)
  ELSE 0

\* claimed_at when a claim is written, and when tickets leave the claimed ones.
Claimed == {id \in TicketIds : tickets[id].status = "claimed"}
NowClaimed(id) == earlier \cup (Claimed \X {id})
Without(ids) == {p \in earlier : p[1] \notin ids /\ p[2] \notin ids}

-----------------------------------------------------------------------------
Init ==
  /\ tickets = [id \in TicketIds |-> NoTicket]
  /\ earlier = {}
  /\ dev = [d \in Devices |-> Idle]
  /\ worked = [t \in Targets |-> {}]

-----------------------------------------------------------------------------
(* The admin's side *)

\* AssignTicket; ReopenTicket is the same with nobody assigned.
Assign(target, to) ==
  /\ \E id \in TicketIds :
       /\ tickets[id] = NoTicket
       /\ \A i \in TicketIds : tickets[i] = NoTicket => id <= i
       /\ tickets' = [tickets EXCEPT ![id] = [status |-> "queued", target |-> target, owner |-> to]]
  /\ UNCHANGED <<earlier, dev, worked>>

\* Mutant: the UPDATE does not set the status.
ForceOffStatusKept(id, to) ==
  /\ tickets[id].status = "claimed"
  /\ tickets' = [tickets EXCEPT ![id].owner = to]
  /\ UNCHANGED <<earlier, dev, worked>>

\* ForceOffTicket: back to the queue, for anyone or for the person named.
ForceOff(id, to) ==
  /\ tickets[id].status = "claimed"
  /\ tickets' = [tickets EXCEPT ![id].status = "queued", ![id].owner = to]
  /\ earlier' = Without({id})
  /\ UNCHANGED <<dev, worked>>

-----------------------------------------------------------------------------
(* Claiming.  The gate (RequireClockedIn) and the UPDATE are separate         *)
(* statements.  What the gate answers is attendance's affair: it may pass or   *)
(* refuse at any time, and a refusal changes nothing.                          *)

\* openTicket: the session takes the ticket on and opens what it points at.
Opened(d, id) ==
  [dev[d] EXCEPT !.step = "idle", !.ticket = id, !.job = tickets[id].target, !.asked = 0]

\* "Request work": Enter on a ticket of the list.
RequestJob(s, id) ==
  /\ dev[s].step = "idle" /\ dev[s].job = NoTarget
  /\ OpenTo(UserOf[s], id)
  /\ dev' = [dev EXCEPT ![s].step = "gated", ![s].asked = id]
  /\ UNCHANGED <<tickets, earlier, worked>>

\* "Scan a job ticket": one that is nobody's is claimed ...
ScanOpenTicket(s, id) ==
  /\ dev[s].step = "idle" /\ dev[s].job = NoTarget
  /\ tickets[id].status \in {"queued", "claimed"} /\ tickets[id].owner = Nobody
  /\ dev' = [dev EXCEPT ![s].step = "scanned", ![s].asked = id]
  /\ UNCHANGED <<tickets, earlier, worked>>

\* ... and one that names the user is opened as it is, claimed or queued.
ScanOwnTicket(s, id) ==
  /\ dev[s].step = "idle" /\ dev[s].job = NoTarget
  /\ tickets[id].status \in {"queued", "claimed"} /\ tickets[id].owner = UserOf[s]
  /\ dev' = [dev EXCEPT ![s] = Opened(s, id)]
  /\ UNCHANGED <<tickets, earlier, worked>>

\* Mutant: the condition on the person is missing.
QueuedForAnyone(u, id) == tickets[id].status = "queued"

\* The WHERE clause of ClaimTicket's UPDATE.
Claimable(u, id) == tickets[id].status = "queued" /\ tickets[id].owner \in {Nobody, u}

\* ClaimTicket's UPDATE.  After a request the session opens CurrentTicket,
\* after a scan the ticket scanned; a ticket that went is not opened.
Claim(s) ==
  LET u == UserOf[s]
      id == dev[s].asked
      first == Current(u)
  IN /\ dev[s].step \in {"gated", "scanned"}
     /\ IF Claimable(u, id)
        THEN /\ tickets' = [tickets EXCEPT ![id].status = "claimed", ![id].owner = u]
             /\ earlier' = NowClaimed(id)
             /\ dev' = [dev EXCEPT ![s] =
                          Opened(s, IF dev[s].step = "gated" /\ first # 0 THEN first ELSE id)]
        ELSE /\ dev' = [dev EXCEPT ![s].step = "idle", ![s].asked = 0]
             /\ UNCHANGED <<tickets, earlier>>
     /\ UNCHANGED worked

\* "My Current Job".
OpenCurrent(s) ==
  LET id == Current(UserOf[s])
  IN /\ dev[s].step = "idle" /\ dev[s].job = NoTarget
     /\ id # 0
     /\ dev' = [dev EXCEPT ![s] = Opened(s, id)]
     /\ UNCHANGED <<tickets, earlier, worked>>

-----------------------------------------------------------------------------
(* Working and finishing *)

\* A check or an order opened from its own screen, not from a ticket.
OpenWithoutTicket(s, target) ==
  /\ dev[s].step = "idle" /\ dev[s].job = NoTarget
  /\ dev' = [dev EXCEPT ![s].job = target]
  /\ UNCHANGED <<tickets, earlier, worked>>

\* Q or S: the job is left, the ticket stays claimed and remembered.
LeaveJob(s) ==
  /\ dev[s].step = "idle" /\ dev[s].job # NoTarget
  /\ dev' = [dev EXCEPT ![s].job = NoTarget]
  /\ UNCHANGED <<tickets, earlier, worked>>

\* A phone's finish request reads the current ticket and opens its target.
PhoneRequest(p) ==
  LET id == Current(UserOf[p])
  IN /\ dev[p].step = "idle" /\ dev[p].job = NoTarget
     /\ id # 0
     /\ dev' = [dev EXCEPT ![p].job = tickets[id].target]
     /\ UNCHANGED <<tickets, earlier, worked>>

\* The request is refused (lines still missing, a bag not scanned, an error).
PhoneRefused(p) ==
  /\ dev[p].step = "idle" /\ dev[p].job # NoTarget
  /\ dev' = [dev EXCEPT ![p] = Idle]
  /\ UNCHANGED <<tickets, earlier, worked>>

\* FinishCheck (or the order is received).
FinishWork(d) ==
  /\ dev[d].step = "idle" /\ dev[d].job # NoTarget
  /\ worked' = [worked EXCEPT ![dev[d].job] = @ \cup {UserOf[d]}]
  /\ dev' = [dev EXCEPT ![d] =
               IF d \in Phones \/ @.ticket # 0 THEN [@ EXCEPT !.step = "closing"]
               ELSE [@ EXCEPT !.job = NoTarget]]
  /\ UNCHANGED <<tickets, earlier>>

\* Mutant: the UPDATE goes by the person alone, whatever the ticket points at.
FinishableAnyTarget(d, id) == HeldBy(UserOf[d], id)

\* The WHERE clause of FinishTicket's UPDATE.
Finishable(d, id) == HeldBy(UserOf[d], id) /\ tickets[id].target = dev[d].job

\* FinishTicket: every ticket of this target the user holds is done.
CloseTicket(d) ==
  /\ dev[d].step = "closing"
  /\ tickets' = [id \in TicketIds |->
                   IF Finishable(d, id) THEN [tickets[id] EXCEPT !.status = "done"]
                   ELSE tickets[id]]
  /\ earlier' = Without({id \in TicketIds : Finishable(d, id)})
  /\ dev' = [dev EXCEPT ![d] = Idle]
  /\ UNCHANGED worked

\* finishAbandon (the draft's deletion is SetChecks!Abandon): AbandonTicket
\* releases the ticket if it still is the user's.
Abandon(s) ==
  LET id == dev[s].ticket
      held == id # 0 /\ HeldBy(UserOf[s], id)
  IN /\ dev[s].step = "idle" /\ dev[s].ticket # 0 /\ dev[s].job # NoTarget
     /\ tickets' = IF held THEN [tickets EXCEPT ![id].status = "queued", ![id].owner = Nobody]
                   ELSE tickets
     /\ earlier' = IF held THEN Without({id}) ELSE earlier
     /\ dev' = [dev EXCEPT ![s] = Idle]
     /\ UNCHANGED worked

\* Mutant: only a user with no ticket left at all is told.
NoticeNoTicket(s) ==
  /\ dev[s].step = "idle" /\ dev[s].ticket # 0
  /\ Current(UserOf[s]) = 0
  /\ dev' = [dev EXCEPT ![s] = Idle]
  /\ UNCHANGED <<tickets, earlier, worked>>

\* checkTicketStillMine, on every idle tick: the session drops its job when its
\* ticket is not the user's current one.
Notice(s) ==
  /\ dev[s].step = "idle" /\ dev[s].ticket # 0
  /\ Current(UserOf[s]) # dev[s].ticket
  /\ dev' = [dev EXCEPT ![s] = Idle]
  /\ UNCHANGED <<tickets, earlier, worked>>

-----------------------------------------------------------------------------
Next ==
  \/ \E t \in Targets, to \in Users \cup {Nobody} : Assign(t, to)
  \/ \E id \in TicketIds, to \in Users \cup {Nobody} : ForceOff(id, to)
  \/ \E s \in Screens, id \in TicketIds : RequestJob(s, id)
  \/ \E s \in Screens, id \in TicketIds : ScanOpenTicket(s, id)
  \/ \E s \in Screens, id \in TicketIds : ScanOwnTicket(s, id)
  \/ \E s \in Screens : Claim(s)
  \/ \E s \in Screens : OpenCurrent(s)
  \/ \E s \in Screens, t \in Targets : OpenWithoutTicket(s, t)
  \/ \E s \in Screens : LeaveJob(s)
  \/ \E p \in Phones : PhoneRequest(p)
  \/ \E p \in Phones : PhoneRefused(p)
  \/ \E d \in Devices : FinishWork(d)
  \/ \E d \in Devices : CloseTicket(d)
  \/ \E s \in Screens : Abandon(s)
  \/ \E s \in Screens : Notice(s)

Spec == Init /\ [][Next]_vars

\* A handler runs to its end.  Every session gets its idle tick again and again
\* (tea.Tick re-arms it every 15 s); a tick that falls into a handler waits in
\* the program's queue, so other handlers cannot keep it out: strong fairness.
Fairness ==
  /\ \A s \in Screens : WF_vars(Claim(s)) /\ SF_vars(Notice(s))
  /\ \A d \in Devices : WF_vars(CloseTicket(d))

FairSpec == Spec /\ Fairness

-----------------------------------------------------------------------------
(* Properties *)

\* e orders the members of C, as the times of their claims do.
ClaimOrder(e, C) ==
  /\ e \in SUBSET (C \X C)
  /\ \A i \in C : <<i, i>> \notin e
  /\ \A i, j \in C : i # j => ((<<i, j>> \in e) <=> (<<j, i>> \notin e))
  /\ \A i, j, k \in C : <<i, j>> \in e /\ <<j, k>> \in e => <<i, k>> \in e

\* Rows and devices are well formed, a claimed ticket is somebody's, and the
\* claimed tickets, and no others, are ordered by the time of their claims.
TypeOK ==
  /\ tickets \in [TicketIds -> Ticket \cup {NoTicket}]
  /\ dev \in [Devices -> Device]
  /\ worked \in [Targets -> SUBSET Users]
  /\ \A id \in Claimed : tickets[id].owner # Nobody
  /\ ClaimOrder(earlier, Claimed)

\* A ticket is marked done only for a person who completed its check or order:
\* no work disappears from the queue undone, whatever is open on which device.
DoneTicketsWereWorked ==
  \A id \in TicketIds :
    tickets[id].status = "done" => tickets[id].owner \in worked[tickets[id].target]

\* The queue as Jobs promises it.  A row never moves but by the steps of Jobs,
\* whatever the devices read before: a late claim takes no ticket that was
\* claimed, given away or done meanwhile; a late force-off, abandon or finish
\* moves no ticket that left the hands it was in; done is for ever, and only for
\* a person who completed the ticket's own check or order.
J == INSTANCE Jobs WITH
       Ids <- TicketIds, People <- Users, NotPosted <- NoTicket, jobs <- tickets

ImplementsJobs == J!Spec

\* What follows for a row: somebody's ticket passes to another person only by
\* going back to the queue (ForceOffTicket, AbandonTicket) ...
HandoverGoesThroughTheQueue ==
  [][\A id \in TicketIds :
       LET old == tickets[id]
           new == tickets'[id]
       IN old # NoTicket /\ old.owner # Nobody /\ new.owner # old.owner
            => new.status = "queued"]_vars

\* ... and once FinishTicket marked it done no UPDATE touches it again.
DoneIsFinal ==
  [][\A id \in TicketIds : tickets[id].status = "done" => tickets'[id] = tickets[id]]_vars

\* A session whose ticket was taken away finds out, gets it back, or ends the
\* job: it does not work on without the ticket for ever.
ForcedOffSessionsNotice ==
  \A s \in Screens, id \in TicketIds :
    (dev[s].ticket = id /\ ~HeldBy(UserOf[s], id))
      ~> (dev[s].ticket # id \/ HeldBy(UserOf[s], id))

-----------------------------------------------------------------------------
(* A statement of the code's comments that the code does not keep *)

\* The idle tick "notices when an admin has force-taken this session's claimed
\* job away": it takes no job away from a person who still holds its ticket.
OnlyTheForcedOffLoseTheirJob ==
  [][\A s \in Screens :
       dev[s].step = "idle" /\ dev[s].ticket # 0 /\ dev'[s].ticket = 0
         => LET t == tickets'[dev[s].ticket]
            IN ~(t.status = "claimed" /\ t.owner = UserOf[s])]_vars
=============================================================================
