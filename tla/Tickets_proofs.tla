---------------------------- MODULE Tickets_proofs -----------------------------
(***************************************************************************)
(* Machine-checked proofs about Tickets: what no interleaving of devices   *)
(* and admins can do to a row of the queue.                                *)
(***************************************************************************)
EXTENDS Tickets, TLAPS

\* All the proofs need of the state: the rows are well formed.
RowsTyped == tickets \in [TicketIds -> Ticket \cup {NoTicket}]

\* Each row of a step is as it was, or one of four statements wrote it.
RowStep(id) ==
  \/ tickets'[id] = tickets[id]
  \/ tickets[id] = NoTicket
  \/ tickets[id].status = "claimed" /\ tickets'[id].status = "queued"
  \/ /\ tickets[id].status = "queued" /\ tickets'[id].status = "claimed"
     /\ tickets[id].owner \in {Nobody, tickets'[id].owner}
  \/ /\ tickets[id].status = "claimed" /\ tickets'[id].status = "done"
     /\ tickets'[id].owner = tickets[id].owner

\* A row that is not NoTicket is a ticket; the status tells.
LEMMA RowShape ==
  ASSUME RowsTyped, NEW id \in TicketIds
  PROVE  tickets[id] = NoTicket \/ tickets[id] \in Ticket
BY DEF RowsTyped

\* The four statements are AssignTicket's INSERT, and the UPDATEs of
\* ForceOffTicket/AbandonTicket, of ClaimTicket and of FinishTicket.
LEMMA StepsOfRows ==
  ASSUME RowsTyped, [Next]_vars
  PROVE  RowsTyped' /\ \A id \in TicketIds : RowStep(id)
<1>1. ASSUME NEW t \in Targets, NEW to \in Users \cup {Nobody}, Assign(t, to)
      PROVE  RowsTyped' /\ \A id \in TicketIds : RowStep(id)
  <2>1. PICK id \in TicketIds :
          /\ tickets[id] = NoTicket
          /\ tickets' = [tickets EXCEPT ![id] = [status |-> "queued", target |-> t, owner |-> to]]
    BY <1>1 DEF Assign
  <2>2. [status |-> "queued", target |-> t, owner |-> to] \in Ticket
    BY DEF Ticket
  <2>3. QED
    BY <2>1, <2>2 DEF RowsTyped, RowStep
<1>2. ASSUME NEW id \in TicketIds, NEW to \in Users \cup {Nobody}, ForceOff(id, to)
      PROVE  RowsTyped' /\ \A i \in TicketIds : RowStep(i)
  <2>1. tickets[id] \in Ticket /\ tickets[id].status = "claimed"
    BY <1>2, RowShape DEF ForceOff, NoTicket
  <2>2. tickets' = [tickets EXCEPT ![id] = [tickets[id] EXCEPT !.status = "queued", !.owner = to]]
    BY <1>2 DEF ForceOff
  <2>3. [tickets[id] EXCEPT !.status = "queued", !.owner = to] \in Ticket
    BY <2>1 DEF Ticket
  <2>4. tickets'[id].status = "queued"
    BY <2>1, <2>2 DEF RowsTyped, Ticket
  <2>5. QED
    BY <2>1, <2>2, <2>3, <2>4 DEF RowsTyped, RowStep
<1>3. ASSUME NEW s \in Screens, Claim(s)
      PROVE  RowsTyped' /\ \A i \in TicketIds : RowStep(i)
  <2> DEFINE u == UserOf[s]
             id == dev[s].asked
  <2>1. CASE ~(id \in TicketIds /\ Claimable(u, id))
    <3>1. \A i \in TicketIds : tickets'[i] = tickets[i]
      BY <1>3, <2>1 DEF Claim, RowsTyped
    <3>2. RowsTyped'
      BY <1>3, <2>1 DEF Claim, RowsTyped
    <3>3. QED
      BY <3>1, <3>2 DEF RowStep
  <2>2. CASE id \in TicketIds /\ Claimable(u, id)
    <3>1. /\ tickets[id] \in Ticket
          /\ tickets[id].status = "queued" /\ tickets[id].owner \in {Nobody, u}
      BY <2>2, RowShape DEF Claimable, NoTicket
    <3>2. tickets' = [tickets EXCEPT ![id] = [tickets[id] EXCEPT !.status = "claimed", !.owner = u]]
      BY <1>3, <2>2 DEF Claim
    <3>3. u \in Users
      BY TicketsAssumption DEF Devices
    <3>4. [tickets[id] EXCEPT !.status = "claimed", !.owner = u] \in Ticket
      BY <3>1, <3>3 DEF Ticket
    <3>5. tickets'[id].status = "claimed" /\ tickets'[id].owner = u
      BY <2>2, <3>1, <3>2 DEF RowsTyped, Ticket
    <3>6. QED
      BY <2>2, <3>1, <3>2, <3>4, <3>5 DEF RowsTyped, RowStep
  <2>3. QED
    BY <2>1, <2>2
<1>4. ASSUME NEW d \in Devices, CloseTicket(d)
      PROVE  RowsTyped' /\ \A i \in TicketIds : RowStep(i)
  <2>1. tickets' = [i \in TicketIds |-> IF Finishable(d, i)
                                         THEN [tickets[i] EXCEPT !.status = "done"]
                                         ELSE tickets[i]]
    BY <1>4 DEF CloseTicket
  <2>2. ASSUME NEW i \in TicketIds, Finishable(d, i)
        PROVE  tickets'[i] \in Ticket /\ RowStep(i)
    <3>1. tickets[i] \in Ticket /\ tickets[i].status = "claimed"
      BY <2>2, RowShape DEF Finishable, HeldBy, NoTicket
    <3>2. tickets'[i] = [tickets[i] EXCEPT !.status = "done"]
      BY <2>1, <2>2
    <3>3. QED
      BY <3>1, <3>2 DEF Ticket, RowStep
  <2>3. ASSUME NEW i \in TicketIds, ~Finishable(d, i)
        PROVE  tickets'[i] = tickets[i]
    BY <2>1, <2>3
  <2>4. QED
    BY <2>1, <2>2, <2>3 DEF RowsTyped, RowStep
<1>5. ASSUME NEW s \in Screens, Abandon(s)
      PROVE  RowsTyped' /\ \A i \in TicketIds : RowStep(i)
  <2> DEFINE id == dev[s].ticket
  <2>1. CASE ~(id \in TicketIds /\ HeldBy(UserOf[s], id))
    <3>1. RowsTyped' /\ \A i \in TicketIds : tickets'[i] = tickets[i]
      BY <1>5, <2>1 DEF Abandon, RowsTyped
    <3>2. QED
      BY <3>1 DEF RowStep
  <2>2. CASE id \in TicketIds /\ HeldBy(UserOf[s], id)
    <3>1. tickets[id] \in Ticket /\ tickets[id].status = "claimed"
      BY <2>2, RowShape DEF HeldBy, NoTicket
    <3>2. tickets' = [tickets EXCEPT ![id] = [tickets[id] EXCEPT !.status = "queued", !.owner = Nobody]]
      BY <1>5, <2>2 DEF Abandon
    <3>3. [tickets[id] EXCEPT !.status = "queued", !.owner = Nobody] \in Ticket
      BY <3>1 DEF Ticket
    <3>4. tickets'[id].status = "queued"
      BY <2>2, <3>1, <3>2 DEF RowsTyped, Ticket
    <3>5. QED
      BY <2>2, <3>1, <3>2, <3>3, <3>4 DEF RowsTyped, RowStep
  <2>3. QED
    BY <2>1, <2>2
<1>6. ASSUME UNCHANGED tickets
      PROVE  RowsTyped' /\ \A i \in TicketIds : RowStep(i)
  BY <1>6 DEF RowsTyped, RowStep
<1>7. QED
  BY <1>1, <1>2, <1>3, <1>4, <1>5, <1>6
     DEF Next, vars, RequestJob, ScanOpenTicket, ScanOwnTicket, OpenCurrent, OpenWithoutTicket,
         LeaveJob, PhoneRequest, PhoneRefused, FinishWork, Notice

-----------------------------------------------------------------------------
(* Type correctness: rows, claims and what the devices remember *)

\* What a handler that has begun relies on: one that asked for a ticket knows
\* which, one that closes its job completed that job.
HandlersAreReady ==
  \A d \in Devices :
    /\ dev[d].step \in {"gated", "scanned"} => dev[d].asked \in TicketIds
    /\ dev[d].step = "closing" =>
         dev[d].job \in Targets /\ UserOf[d] \in worked[dev[d].job]

IInv == TypeOK /\ HandlersAreReady /\ DoneTicketsWereWorked

\* A claimed ticket that leaves the claimed ones leaves the order intact.
LEMMA OrderWithout ==
  ASSUME NEW C, NEW e, NEW D, ClaimOrder(e, C)
  PROVE  ClaimOrder({p \in e : p[1] \notin D /\ p[2] \notin D}, C \ D)
<1> DEFINE f == {p \in e : p[1] \notin D /\ p[2] \notin D}
<1>1. \A i, j : <<i, j>> \in f <=> <<i, j>> \in e /\ i \notin D /\ j \notin D
  OBVIOUS
<1>2. f \in SUBSET ((C \ D) \X (C \ D))
  BY DEF ClaimOrder
<1> HIDE DEF f
<1>3. QED
  BY <1>1, <1>2 DEF ClaimOrder

\* A ticket claimed now is the last of them.
LEMMA OrderWith ==
  ASSUME NEW C, NEW e, NEW id, id \notin C, ClaimOrder(e, C)
  PROVE  ClaimOrder(e \cup (C \X {id}), C \cup {id})
<1> DEFINE f == e \cup (C \X {id})
<1>1. \A i, j : <<i, j>> \in f <=> <<i, j>> \in e \/ (i \in C /\ j = id)
  OBVIOUS
<1>2. f \in SUBSET ((C \cup {id}) \X (C \cup {id}))
  BY DEF ClaimOrder
<1>3. \A i, j : <<i, j>> \in e => i \in C /\ j \in C
  BY DEF ClaimOrder
<1> HIDE DEF f
<1>4. QED
  BY <1>1, <1>2, <1>3 DEF ClaimOrder

\* CurrentTicket finds a ticket the user holds, or none.
LEMMA CurrentIsHeld ==
  ASSUME NEW u
  PROVE  /\ Current(u) \in TicketIds \cup {0}
         /\ Current(u) # 0 => HeldBy(u, Current(u))
<1>1. CASE \E id \in TicketIds : ClaimedFirst(u, id)
  <2>1. Current(u) \in TicketIds /\ ClaimedFirst(u, Current(u))
    BY <1>1 DEF Current
  <2>2. QED
    BY <2>1 DEF ClaimedFirst
<1>2. CASE ~ \E id \in TicketIds : ClaimedFirst(u, id)
  BY <1>2 DEF Current
<1>3. QED
  BY <1>1, <1>2

\* Opening a ticket that exists leaves a device well formed.
LEMMA OpenedTyped ==
  ASSUME TypeOK, NEW d \in Devices, NEW id \in TicketIds,
         tickets[id].status \in {"queued", "claimed", "done"}
  PROVE  Opened(d, id) \in Device /\ Opened(d, id).step = "idle"
<1>1. tickets[id] \in Ticket
  BY DEF TypeOK, NoTicket
<1>2. dev[d] \in Device
  BY DEF TypeOK
<1>3. QED
  BY <1>1, <1>2 DEF Opened, Device, Ticket

LEMMA IdleTyped == Idle \in Device /\ Idle.step = "idle"
BY DEF Idle, Device

\* 0 is no ticket.
LEMMA ZeroIsNoTicket == 0 \notin TicketIds
BY TicketsAssumption DEF TicketIds

\* A step that changes one device, to an idle one, keeps both invariants.
LEMMA DeviceTurnsIdle ==
  ASSUME TypeOK, HandlersAreReady, NEW d \in Devices, NEW new \in Device,
         new.step = "idle", dev' = [dev EXCEPT ![d] = new], UNCHANGED worked
  PROVE  dev' \in [Devices -> Device] /\ HandlersAreReady'
<1>1. dev' \in [Devices -> Device]
  BY DEF TypeOK
<1>2. ASSUME NEW x \in Devices
      PROVE  /\ dev'[x].step \in {"gated", "scanned"} => dev'[x].asked \in TicketIds
             /\ dev'[x].step = "closing" =>
                  dev'[x].job \in Targets /\ UserOf[x] \in worked'[dev'[x].job]
  <2>1. CASE x = d
    <3>1. dev'[x] = new
      BY <2>1 DEF TypeOK
    <3>2. QED
      BY <3>1
  <2>2. CASE x # d
    <3>1. dev'[x] = dev[x]
      BY <2>2 DEF TypeOK
    <3>2. QED
      BY <3>1 DEF HandlersAreReady
  <2>3. QED
    BY <2>1, <2>2
<1>3. QED
  BY <1>1, <1>2 DEF HandlersAreReady

-----------------------------------------------------------------------------
(* The refinement *)

\* Every step of the devices and admins is a step of the abstract queue, or
\* leaves it alone.
LEMMA StepsAreJobs ==
  ASSUME TypeOK, HandlersAreReady, [Next]_vars
  PROVE  [J!Next]_(J!vars)
<1> USE DEF J!vars
<1>0. RowsTyped
  BY DEF TypeOK, RowsTyped
<1>1. ASSUME NEW t \in Targets, NEW to \in Users \cup {Nobody}, Assign(t, to)
      PROVE  J!Next
  <2>1. PICK id \in TicketIds :
          /\ tickets[id] = NoTicket
          /\ tickets' = [tickets EXCEPT ![id] = [status |-> "queued", target |-> t, owner |-> to]]
          /\ UNCHANGED worked
    BY <1>1 DEF Assign
  <2>2. J!Post(id, t, to)
    BY <2>1 DEF J!Post
  <2>3. QED
    BY <2>2 DEF J!Next
<1>2. ASSUME NEW id \in TicketIds, NEW to \in Users \cup {Nobody}, ForceOff(id, to)
      PROVE  J!Next
  <2>1. tickets[id] \in Ticket /\ tickets[id].status = "claimed"
    BY <1>0, <1>2, RowShape DEF ForceOff, NoTicket
  <2>2. tickets' = [tickets EXCEPT ![id] = [tickets[id] EXCEPT !.status = "queued", !.owner = to]]
    BY <1>2 DEF ForceOff
  <2>3. tickets[id] # NoTicket /\ UNCHANGED worked
    BY <1>2, <2>1 DEF ForceOff, NoTicket
  <2>4. J!Return(id, to)
    BY <2>1, <2>2, <2>3 DEF J!Return
  <2>5. QED
    BY <2>4 DEF J!Next
<1>3. ASSUME NEW s \in Screens, Claim(s)
      PROVE  [J!Next]_(J!vars)
  <2> DEFINE u == UserOf[s]
             id == dev[s].asked
  <2>1. u \in Users /\ id \in TicketIds
    BY <1>3, TicketsAssumption DEF Devices, Claim, HandlersAreReady
  <2>2. CASE ~Claimable(u, id)
    BY <1>3, <2>2 DEF Claim
  <2>3. CASE Claimable(u, id)
    <3>1. tickets[id].status = "queued" /\ tickets[id].owner \in {Nobody, u}
      BY <2>3 DEF Claimable
    <3>2. tickets[id] # NoTicket
      BY <3>1 DEF NoTicket
    <3>3. tickets' = [tickets EXCEPT ![id] = [tickets[id] EXCEPT !.status = "claimed", !.owner = u]]
      BY <1>3, <2>3 DEF Claim
    <3>4. UNCHANGED worked
      BY <1>3 DEF Claim
    <3>5. J!Take(id, u)
      BY <3>1, <3>2, <3>3, <3>4 DEF J!Take
    <3>6. QED
      BY <2>1, <3>5 DEF J!Next
  <2>4. QED
    BY <2>2, <2>3
<1>4. ASSUME NEW d \in Devices, FinishWork(d)
      PROVE  J!Next
  <2>1. dev[d].job \in Targets /\ UserOf[d] \in Users
    BY <1>4, TicketsAssumption DEF FinishWork, TypeOK, Device
  <2>2. J!Complete(dev[d].job, UserOf[d])
    BY <1>4 DEF FinishWork, J!Complete
  <2>3. QED
    BY <2>1, <2>2 DEF J!Next
<1>5. ASSUME NEW d \in Devices, CloseTicket(d)
      PROVE  J!Next
  <2>1. /\ dev[d].job \in Targets /\ UserOf[d] \in worked[dev[d].job]
        /\ UserOf[d] \in Users
    BY <1>5, TicketsAssumption DEF CloseTicket, HandlersAreReady
  <2>2. tickets' = [id \in TicketIds |->
                     IF tickets[id].status = "claimed" /\ tickets[id].owner = UserOf[d]
                          /\ tickets[id].target = dev[d].job
                     THEN [tickets[id] EXCEPT !.status = "done"] ELSE tickets[id]]
    BY <1>5 DEF CloseTicket, Finishable, HeldBy
  <2>3. J!Finish(dev[d].job, UserOf[d])
    BY <1>5, <2>1, <2>2 DEF J!Finish, J!InHandOf, CloseTicket
  <2>4. QED
    BY <2>1, <2>3 DEF J!Next
<1>6. ASSUME NEW s \in Screens, Abandon(s)
      PROVE  [J!Next]_(J!vars)
  <2> DEFINE id == dev[s].ticket
  <2>1. CASE ~(id # 0 /\ HeldBy(UserOf[s], id))
    BY <1>6, <2>1 DEF Abandon
  <2>2. CASE id # 0 /\ HeldBy(UserOf[s], id)
    <3>1. id \in TicketIds
      BY <2>2 DEF TypeOK, Device, Devices
    <3>2. tickets[id].status = "claimed" /\ tickets[id] # NoTicket
      BY <2>2 DEF HeldBy, NoTicket
    <3>3. tickets' = [tickets EXCEPT ![id] = [tickets[id] EXCEPT !.status = "queued", !.owner = Nobody]]
      BY <1>6, <2>2 DEF Abandon
    <3>4. UNCHANGED worked
      BY <1>6 DEF Abandon
    <3>5. J!Return(id, Nobody)
      BY <3>2, <3>3, <3>4 DEF J!Return
    <3>6. QED
      BY <3>1, <3>5 DEF J!Next
  <2>3. QED
    BY <2>1, <2>2
<1>7. ASSUME UNCHANGED <<tickets, worked>>
      PROVE  [J!Next]_(J!vars)
  BY <1>7
<1>8. QED
  BY <1>1, <1>2, <1>3, <1>4, <1>5, <1>6, <1>7
     DEF Next, vars, RequestJob, ScanOpenTicket, ScanOwnTicket, OpenCurrent, OpenWithoutTicket,
         LeaveJob, PhoneRequest, PhoneRefused, Notice

\* No step of the abstract queue marks a ticket done that was not worked.
LEMMA JobsDoneWereWorked ==
  ASSUME RowsTyped, DoneTicketsWereWorked, [J!Next]_(J!vars),
         worked \in [Targets -> SUBSET Users]
  PROVE  DoneTicketsWereWorked'
<1>1. ASSUME NEW id \in TicketIds, tickets'[id].status = "done"
      PROVE  tickets'[id].owner \in worked'[tickets'[id].target]
  <2>1. ASSUME NEW i \in TicketIds, NEW t \in Targets, NEW for \in Users \cup {Nobody},
               J!Post(i, t, for)
        PROVE  tickets'[id] = tickets[id] /\ UNCHANGED worked
    BY <1>1, <2>1 DEF J!Post, RowsTyped
  <2>2. ASSUME NEW i \in TicketIds, NEW p \in Users, J!Take(i, p)
        PROVE  tickets'[id] = tickets[id] /\ UNCHANGED worked
    <3>1. tickets[i] \in Ticket
      BY <2>2, RowShape DEF J!Take
    <3>2. QED
      BY <1>1, <2>2, <3>1 DEF J!Take, RowsTyped, Ticket
  <2>3. ASSUME NEW i \in TicketIds, NEW for \in Users \cup {Nobody}, J!Return(i, for)
        PROVE  tickets'[id] = tickets[id] /\ UNCHANGED worked
    <3>1. tickets[i] \in Ticket
      BY <2>3, RowShape DEF J!Return
    <3>2. QED
      BY <1>1, <2>3, <3>1 DEF J!Return, RowsTyped, Ticket
  <2>4. ASSUME NEW t \in Targets, NEW p \in Users, J!Complete(t, p)
        PROVE  /\ tickets'[id] = tickets[id]
               /\ worked[tickets[id].target] \subseteq worked'[tickets[id].target]
    <3>1. tickets[id] \in Ticket
      BY <1>1, <2>4, RowShape DEF J!Complete, NoTicket
    <3>2. QED
      BY <2>4, <3>1 DEF J!Complete, Ticket
  <2>5. ASSUME NEW t \in Targets, NEW p \in Users, J!Finish(t, p)
        PROVE  tickets'[id].owner \in worked'[tickets'[id].target]
    <3>1. CASE J!InHandOf(p, id) /\ tickets[id].target = t
      <4>1. tickets'[id] = [tickets[id] EXCEPT !.status = "done"]
        BY <2>5, <3>1 DEF J!Finish
      <4>2. tickets[id] \in Ticket
        BY <3>1, RowShape DEF J!InHandOf, NoTicket
      <4>3. tickets'[id].owner = p /\ tickets'[id].target = t
        BY <3>1, <4>1, <4>2 DEF J!InHandOf, Ticket
      <4>4. QED
        BY <2>5, <4>3 DEF J!Finish
    <3>2. CASE ~(J!InHandOf(p, id) /\ tickets[id].target = t)
      <4>1. tickets'[id] = tickets[id] /\ UNCHANGED worked
        BY <2>5, <3>2 DEF J!Finish
      <4>2. QED
        BY <1>1, <4>1 DEF DoneTicketsWereWorked
    <3>3. QED
      BY <3>1, <3>2
  <2>6. QED
    BY <1>1, <2>1, <2>2, <2>3, <2>4, <2>5 DEF J!Next, J!vars, DoneTicketsWereWorked
<1>2. QED
  BY <1>1 DEF DoneTicketsWereWorked

-----------------------------------------------------------------------------
(* The invariant *)

\* The claims' part of TypeOK.
ClaimsOK ==
  /\ \A id \in Claimed : tickets[id].owner # Nobody
  /\ ClaimOrder(earlier, Claimed)

\* A statement that takes the tickets of D out of somebody's hands.
LEMMA ClaimsReleased ==
  ASSUME TypeOK, NEW D,
         Claimed' = Claimed \ D, earlier' = Without(D),
         \A id \in Claimed \ D : tickets'[id] = tickets[id]
  PROVE  ClaimsOK'
<1>1. ClaimOrder(earlier', Claimed')
  BY OrderWithout DEF TypeOK, Without
<1>2. QED
  BY <1>1 DEF ClaimsOK, TypeOK

LEMMA ClaimsUnchanged ==
  ASSUME TypeOK, UNCHANGED <<tickets, earlier>>
  PROVE  ClaimsOK'
BY DEF TypeOK, ClaimsOK, Claimed

\* Every step keeps the claims owned and in order.
LEMMA StepsOfClaims ==
  ASSUME TypeOK, HandlersAreReady, [Next]_vars
  PROVE  ClaimsOK'
<1>0. RowsTyped
  BY DEF TypeOK, RowsTyped
<1>1. ASSUME NEW t \in Targets, NEW to \in Users \cup {Nobody}, Assign(t, to)
      PROVE  ClaimsOK'
  <2>1. PICK id \in TicketIds :
          /\ tickets[id] = NoTicket
          /\ tickets' = [tickets EXCEPT ![id] = [status |-> "queued", target |-> t, owner |-> to]]
    BY <1>1 DEF Assign
  <2>2. Claimed' = Claimed /\ UNCHANGED earlier
    BY <1>0, <1>1, <2>1 DEF Claimed, RowsTyped, NoTicket, Assign
  <2>3. \A i \in Claimed : tickets'[i] = tickets[i]
    BY <1>0, <2>1 DEF Claimed, RowsTyped, NoTicket
  <2>4. QED
    BY <2>2, <2>3 DEF ClaimsOK, TypeOK
<1>2. ASSUME NEW id \in TicketIds, NEW to \in Users \cup {Nobody}, ForceOff(id, to)
      PROVE  ClaimsOK'
  <2>1. tickets[id] \in Ticket
    BY <1>0, <1>2, RowShape DEF ForceOff, NoTicket
  <2>2. tickets' = [tickets EXCEPT ![id] = [tickets[id] EXCEPT !.status = "queued", !.owner = to]]
    BY <1>2 DEF ForceOff
  <2>3. tickets'[id].status = "queued" /\ \A i \in TicketIds \ {id} : tickets'[i] = tickets[i]
    BY <1>0, <2>1, <2>2 DEF RowsTyped, Ticket
  <2>4. Claimed' = Claimed \ {id}
    BY <2>3 DEF Claimed
  <2>5. earlier' = Without({id})
    BY <1>2 DEF ForceOff
  <2>6. \A i \in Claimed \ {id} : tickets'[i] = tickets[i]
    BY <2>3 DEF Claimed
  <2>7. QED
    BY <2>4, <2>5, <2>6, ClaimsReleased
<1>3. ASSUME NEW s \in Screens, Claim(s)
      PROVE  ClaimsOK'
  <2> DEFINE u == UserOf[s]
             id == dev[s].asked
  <2>1. u \in Users /\ u # Nobody /\ id \in TicketIds
    BY <1>3, TicketsAssumption DEF Devices, Claim, HandlersAreReady
  <2>2. CASE ~Claimable(u, id)
    BY <1>3, <2>2, ClaimsUnchanged DEF Claim
  <2>3. CASE Claimable(u, id)
    <3>1. tickets[id] \in Ticket /\ tickets[id].status = "queued"
      BY <1>0, <2>1, <2>3, RowShape DEF Claimable, NoTicket
    <3>2. tickets' = [tickets EXCEPT ![id] = [tickets[id] EXCEPT !.status = "claimed", !.owner = u]]
      BY <1>3, <2>3 DEF Claim
    <3>3. /\ tickets'[id].status = "claimed" /\ tickets'[id].owner = u
          /\ \A i \in TicketIds \ {id} : tickets'[i] = tickets[i]
      BY <1>0, <2>1, <3>1, <3>2 DEF RowsTyped, Ticket
    <3>4. Claimed' = Claimed \cup {id} /\ id \notin Claimed
      BY <2>1, <3>1, <3>3 DEF Claimed
    <3>5. earlier' = earlier \cup (Claimed \X {id})
      BY <1>3, <2>3 DEF Claim, NowClaimed
    <3>6. ClaimOrder(earlier', Claimed')
      BY <3>4, <3>5, OrderWith DEF TypeOK
    <3>7. \A i \in Claimed' : tickets'[i].owner # Nobody
      BY <2>1, <3>3, <3>4 DEF TypeOK, Claimed
    <3>8. QED
      BY <3>6, <3>7 DEF ClaimsOK
  <2>4. QED
    BY <2>2, <2>3
<1>4. ASSUME NEW d \in Devices, CloseTicket(d)
      PROVE  ClaimsOK'
  <2> DEFINE D == {id \in TicketIds : Finishable(d, id)}
  <2>1. \A id \in TicketIds :
          tickets'[id] = IF Finishable(d, id) THEN [tickets[id] EXCEPT !.status = "done"]
                         ELSE tickets[id]
    BY <1>4 DEF CloseTicket
  <2>2. \A id \in D : tickets[id] \in Ticket /\ tickets[id].status = "claimed"
    BY <1>0, RowShape DEF Finishable, HeldBy, NoTicket
  <2>3. \A id \in D : tickets'[id].status = "done"
    BY <2>1, <2>2 DEF Ticket
  <2>4. \A id \in TicketIds \ D : tickets'[id] = tickets[id]
    BY <2>1
  <2>5. D \subseteq TicketIds
    OBVIOUS
  <2>6. earlier' = Without(D)
    BY <1>4 DEF CloseTicket
  <2> HIDE DEF D
  <2>7. Claimed' = Claimed \ D
    BY <2>2, <2>3, <2>4, <2>5 DEF Claimed
  <2>8. \A i \in Claimed \ D : tickets'[i] = tickets[i]
    BY <2>4 DEF Claimed
  <2>9. QED
    BY <2>6, <2>7, <2>8, ClaimsReleased
<1>5. ASSUME NEW s \in Screens, Abandon(s)
      PROVE  ClaimsOK'
  <2> DEFINE id == dev[s].ticket
  <2>1. CASE ~(id # 0 /\ HeldBy(UserOf[s], id))
    BY <1>5, <2>1, ClaimsUnchanged DEF Abandon
  <2>2. CASE id # 0 /\ HeldBy(UserOf[s], id)
    <3>1. id \in TicketIds
      BY <2>2 DEF TypeOK, Device, Devices
    <3>2. tickets[id] \in Ticket
      BY <1>0, <2>2, <3>1, RowShape DEF HeldBy, NoTicket
    <3>3. tickets' = [tickets EXCEPT ![id] = [tickets[id] EXCEPT !.status = "queued", !.owner = Nobody]]
      BY <1>5, <2>2 DEF Abandon
    <3>4. tickets'[id].status = "queued" /\ \A i \in TicketIds \ {id} : tickets'[i] = tickets[i]
      BY <1>0, <3>1, <3>2, <3>3 DEF RowsTyped, Ticket
    <3>5. Claimed' = Claimed \ {id}
      BY <3>4 DEF Claimed
    <3>6. earlier' = Without({id})
      BY <1>5, <2>2 DEF Abandon
    <3>7. \A i \in Claimed \ {id} : tickets'[i] = tickets[i]
      BY <3>4 DEF Claimed
    <3>8. QED
      BY <3>5, <3>6, <3>7, ClaimsReleased
  <2>3. QED
    BY <2>1, <2>2
<1>6. ASSUME UNCHANGED <<tickets, earlier>>
      PROVE  ClaimsOK'
  BY <1>6, ClaimsUnchanged
<1>7. QED
  BY <1>1, <1>2, <1>3, <1>4, <1>5, <1>6
     DEF Next, vars, RequestJob, ScanOpenTicket, ScanOwnTicket, OpenCurrent, OpenWithoutTicket,
         LeaveJob, PhoneRequest, PhoneRefused, FinishWork, Notice

\* What a device remembers is well formed, and its handlers stay ready.
DevicesOK ==
  /\ dev \in [Devices -> Device]
  /\ worked \in [Targets -> SUBSET Users]
  /\ HandlersAreReady

LEMMA StepsOfDevices ==
  ASSUME TypeOK, HandlersAreReady, [Next]_vars
  PROVE  DevicesOK'
<1>0. /\ dev \in [Devices -> Device] /\ worked \in [Targets -> SUBSET Users]
      /\ Screens \subseteq Devices /\ Phones \subseteq Devices
  BY DEF TypeOK, Devices
<1>1. ASSUME UNCHANGED <<dev, worked>>
      PROVE  DevicesOK'
  BY <1>0, <1>1 DEF DevicesOK, HandlersAreReady
<1>2. ASSUME NEW d \in Devices, NEW new \in Device, new.step = "idle",
             dev' = [dev EXCEPT ![d] = new], UNCHANGED worked
      PROVE  DevicesOK'
  BY <1>0, <1>2, DeviceTurnsIdle DEF DevicesOK
<1>3. ASSUME NEW s \in Screens, NEW id \in TicketIds,
             RequestJob(s, id) \/ ScanOpenTicket(s, id)
      PROVE  DevicesOK'
  <2>1. PICK step \in {"gated", "scanned"} :
          dev' = [dev EXCEPT ![s] = [dev[s] EXCEPT !.step = step, !.asked = id]]
    BY <1>3 DEF RequestJob, ScanOpenTicket
  <2>2. UNCHANGED worked
    BY <1>3 DEF RequestJob, ScanOpenTicket
  <2>3. [dev[s] EXCEPT !.step = step, !.asked = id] \in Device
    BY <1>0, <2>1 DEF Device
  <2>4. dev' \in [Devices -> Device]
    BY <1>0, <2>1, <2>3
  <2>5. dev'[s].step = step /\ dev'[s].asked = id
    BY <1>0, <2>1 DEF Device
  <2>6. \A x \in Devices \ {s} : dev'[x] = dev[x]
    BY <1>0, <2>1
  <2>7. HandlersAreReady'
    BY <2>1, <2>2, <2>5, <2>6 DEF HandlersAreReady
  <2>8. QED
    BY <1>0, <2>2, <2>4, <2>7 DEF DevicesOK
<1>4. ASSUME NEW s \in Screens, NEW id \in TicketIds, ScanOwnTicket(s, id)
      PROVE  DevicesOK'
  <2>1. Opened(s, id) \in Device /\ Opened(s, id).step = "idle"
    BY <1>0, <1>4, OpenedTyped DEF ScanOwnTicket
  <2>2. dev' = [dev EXCEPT ![s] = Opened(s, id)] /\ UNCHANGED worked
    BY <1>4 DEF ScanOwnTicket
  <2>3. QED
    BY <1>0, <1>2, <2>1, <2>2
<1>5. ASSUME NEW s \in Screens, Claim(s)
      PROVE  DevicesOK'
  <2> DEFINE u == UserOf[s]
             id == dev[s].asked
             first == Current(u)
             opens == IF dev[s].step = "gated" /\ first # 0 THEN first ELSE id
  <2>1. id \in TicketIds
    BY <1>0, <1>5 DEF Claim, HandlersAreReady
  <2>2. CASE Claimable(u, id)
    <3>1. opens \in TicketIds /\ tickets[opens].status \in {"queued", "claimed"}
      <4>1. CASE dev[s].step = "gated" /\ first # 0
        BY <4>1, CurrentIsHeld DEF HeldBy
      <4>2. CASE ~(dev[s].step = "gated" /\ first # 0)
        BY <2>1, <2>2, <4>2 DEF Claimable
      <4>3. QED
        BY <4>1, <4>2
    <3>2. dev' = [dev EXCEPT ![s] = Opened(s, opens)] /\ UNCHANGED worked
      BY <1>5, <2>2 DEF Claim
    <3> HIDE DEF opens
    <3>3. Opened(s, opens) \in Device /\ Opened(s, opens).step = "idle"
      BY <1>0, <3>1, OpenedTyped
    <3>4. QED
      BY <1>0, <1>2, <3>2, <3>3
  <2>3. CASE ~Claimable(u, id)
    <3> DEFINE new == [dev[s] EXCEPT !.step = "idle", !.asked = 0]
    <3>1. dev' = [dev EXCEPT ![s] = new] /\ UNCHANGED worked
      BY <1>5, <2>3 DEF Claim
    <3>2. new \in Device /\ new.step = "idle"
      BY <1>0 DEF Device
    <3> HIDE DEF new
    <3>3. QED
      BY <1>0, <1>2, <3>1, <3>2
  <2>4. QED
    BY <2>2, <2>3
<1>6. ASSUME NEW s \in Screens, OpenCurrent(s)
      PROVE  DevicesOK'
  <2> DEFINE id == Current(UserOf[s])
  <2>1. id \in TicketIds /\ tickets[id].status = "claimed"
    BY <1>6, CurrentIsHeld DEF OpenCurrent, HeldBy
  <2>2. dev' = [dev EXCEPT ![s] = Opened(s, id)] /\ UNCHANGED worked
    BY <1>6 DEF OpenCurrent
  <2> HIDE DEF id
  <2>3. Opened(s, id) \in Device /\ Opened(s, id).step = "idle"
    BY <1>0, <2>1, OpenedTyped
  <2>4. QED
    BY <1>0, <1>2, <2>2, <2>3
<1>7. ASSUME NEW d \in Devices, NEW job \in Targets \cup {NoTarget},
             dev[d].step = "idle", dev' = [dev EXCEPT ![d] = [dev[d] EXCEPT !.job = job]],
             UNCHANGED worked
      PROVE  DevicesOK'
  <2> DEFINE new == [dev[d] EXCEPT !.job = job]
  <2>1. new \in Device /\ new.step = "idle"
    BY <1>0, <1>7 DEF Device
  <2>2. dev' = [dev EXCEPT ![d] = new]
    BY <1>7
  <2> HIDE DEF new
  <2>3. QED
    BY <1>2, <1>7, <2>1, <2>2
<1>8. ASSUME NEW p \in Phones, PhoneRequest(p)
      PROVE  DevicesOK'
  <2>1. tickets[Current(UserOf[p])].target \in Targets
    BY <1>8, CurrentIsHeld DEF PhoneRequest, HeldBy, TypeOK, NoTicket, Ticket
  <2>2. /\ dev[p].step = "idle" /\ UNCHANGED worked
        /\ dev' = [dev EXCEPT ![p] = [dev[p] EXCEPT !.job = tickets[Current(UserOf[p])].target]]
    BY <1>8 DEF PhoneRequest
  <2>3. QED
    BY <1>0, <1>7, <2>1, <2>2
<1>9. ASSUME NEW d \in Devices, FinishWork(d)
      PROVE  DevicesOK'
  <2> DEFINE job == dev[d].job
  <2>1. job \in Targets /\ UserOf[d] \in Users /\ dev[d] \in Device
    BY <1>0, <1>9, TicketsAssumption DEF FinishWork, Device
  <2>2. worked' = [worked EXCEPT ![job] = worked[job] \cup {UserOf[d]}]
    BY <1>9 DEF FinishWork
  <2>3. /\ worked' \in [Targets -> SUBSET Users] /\ UserOf[d] \in worked'[job]
        /\ \A t \in Targets : worked[t] \subseteq worked'[t]
    BY <1>0, <2>1, <2>2
  <2>4. PICK new \in Device :
          /\ new.step = "idle" \/ (new.step = "closing" /\ new.job = job)
          /\ dev' = [dev EXCEPT ![d] = new]
    <3>1. CASE d \in Phones \/ dev[d].ticket # 0
      <4>1. dev' = [dev EXCEPT ![d] = [dev[d] EXCEPT !.step = "closing"]]
        BY <1>9, <3>1 DEF FinishWork
      <4>2. /\ [dev[d] EXCEPT !.step = "closing"] \in Device
            /\ [dev[d] EXCEPT !.step = "closing"].step = "closing"
            /\ [dev[d] EXCEPT !.step = "closing"].job = job
        BY <2>1 DEF Device
      <4>3. QED
        BY <4>1, <4>2
    <3>2. CASE ~(d \in Phones \/ dev[d].ticket # 0)
      <4>1. dev' = [dev EXCEPT ![d] = [dev[d] EXCEPT !.job = NoTarget]]
        BY <1>9, <3>2 DEF FinishWork
      <4>2. /\ [dev[d] EXCEPT !.job = NoTarget] \in Device
            /\ [dev[d] EXCEPT !.job = NoTarget].step = "idle"
        BY <1>9, <2>1 DEF Device, FinishWork
      <4>3. QED
        BY <4>1, <4>2
    <3>3. QED
      BY <3>1, <3>2
  <2>5. dev' \in [Devices -> Device] /\ dev'[d] = new
    BY <1>0, <2>4
  <2>6. \A x \in Devices \ {d} : dev'[x] = dev[x]
    BY <1>0, <2>4
  <2>7. ASSUME NEW x \in Devices
        PROVE  /\ dev'[x].step \in {"gated", "scanned"} => dev'[x].asked \in TicketIds
               /\ dev'[x].step = "closing" =>
                    dev'[x].job \in Targets /\ UserOf[x] \in worked'[dev'[x].job]
    <3>1. CASE x = d
      BY <2>1, <2>3, <2>4, <2>5, <3>1
    <3>2. CASE x # d
      BY <2>3, <2>6, <3>2 DEF HandlersAreReady
    <3>3. QED
      BY <3>1, <3>2
  <2>8. QED
    BY <2>3, <2>5, <2>7 DEF DevicesOK, HandlersAreReady
<1>10. ASSUME NEW d \in Devices, dev' = [dev EXCEPT ![d] = Idle], UNCHANGED worked
       PROVE  DevicesOK'
  BY <1>2, <1>10, IdleTyped
<1>11. ASSUME NEW s \in Screens, NEW t \in Targets, OpenWithoutTicket(s, t)
       PROVE  DevicesOK'
  BY <1>0, <1>7, <1>11 DEF OpenWithoutTicket
<1>12. ASSUME NEW s \in Screens, LeaveJob(s)
       PROVE  DevicesOK'
  BY <1>0, <1>7, <1>12 DEF LeaveJob
<1>13. ASSUME NEW t \in Targets, NEW to \in Users \cup {Nobody}, Assign(t, to)
       PROVE  DevicesOK'
  BY <1>1, <1>13 DEF Assign
<1>14. ASSUME NEW id \in TicketIds, NEW to \in Users \cup {Nobody}, ForceOff(id, to)
       PROVE  DevicesOK'
  BY <1>1, <1>14 DEF ForceOff
<1>15. ASSUME NEW d \in Devices,
              PhoneRefused(d) \/ CloseTicket(d) \/ Abandon(d) \/ Notice(d)
       PROVE  DevicesOK'
  BY <1>10, <1>15 DEF PhoneRefused, CloseTicket, Abandon, Notice
<1>16. QED
  BY <1>0, <1>1, <1>3, <1>4, <1>5, <1>6, <1>8, <1>9, <1>11, <1>12, <1>13, <1>14, <1>15
     DEF Next, vars

-----------------------------------------------------------------------------
(* The theorems *)

LEMMA Invariance == Spec => []IInv
<1>1. Init => IInv
  <2>1. ASSUME Init
        PROVE  TypeOK
    <3>1. Claimed = {} /\ earlier = {}
      BY <2>1 DEF Init, Claimed, NoTicket
    <3>2. ClaimOrder(earlier, Claimed)
      BY <3>1 DEF ClaimOrder
    <3>3. QED
      BY <2>1, <3>1, <3>2, IdleTyped DEF Init, TypeOK
  <2>2. ASSUME Init
        PROVE  HandlersAreReady /\ DoneTicketsWereWorked
    BY <2>2 DEF Init, HandlersAreReady, DoneTicketsWereWorked, Idle, NoTicket
  <2>3. QED
    BY <2>1, <2>2 DEF IInv
<1>2. IInv /\ [Next]_vars => IInv'
  <2> SUFFICES ASSUME IInv, [Next]_vars
               PROVE  IInv'
    OBVIOUS
  <2>1. TypeOK /\ HandlersAreReady /\ DoneTicketsWereWorked
    BY DEF IInv
  <2>2. RowsTyped /\ worked \in [Targets -> SUBSET Users]
    BY <2>1 DEF TypeOK, RowsTyped
  <2>3. RowsTyped'
    BY <2>2, StepsOfRows
  <2>4. ClaimsOK' /\ DevicesOK'
    BY <2>1, StepsOfClaims, StepsOfDevices
  <2>5. TypeOK'
    BY <2>3, <2>4 DEF TypeOK, RowsTyped, ClaimsOK, DevicesOK
  <2>6. DoneTicketsWereWorked'
    BY <2>1, <2>2, StepsAreJobs, JobsDoneWereWorked
  <2>7. QED
    BY <2>4, <2>5, <2>6 DEF IInv, DevicesOK
<1>3. QED
  BY <1>1, <1>2, PTL DEF Spec

\* The queue's rows, its claims and the devices' memories are well formed.
THEOREM QueueTypeCorrect == Spec => []TypeOK
<1>1. IInv => TypeOK
  BY DEF IInv
<1>2. QED
  BY <1>1, Invariance, PTL

\* FinishTicket marks no ticket done whose check or order its holder did not
\* complete.
THEOREM NoTicketDoneUnworked == Spec => []DoneTicketsWereWorked
<1>1. IInv => DoneTicketsWereWorked
  BY DEF IInv
<1>2. QED
  BY <1>1, Invariance, PTL

\* Screens, phones and admins together behave like the abstract queue: nothing
\* a device remembers lets it move a ticket that is not its to move.
THEOREM QueueImplementsJobs == Spec => ImplementsJobs
<1>1. Init => J!Init
  BY DEF Init, J!Init
<1>2. IInv /\ [Next]_vars => [J!Next]_(J!vars)
  BY StepsAreJobs DEF IInv
<1>3. QED
  BY <1>1, <1>2, Invariance, PTL DEF Spec, ImplementsJobs, J!Spec

\* No row is well formed by accident: it is so from the start.
LEMMA RowsTypedAlways == Spec => []RowsTyped
<1>1. Init => RowsTyped
  BY DEF Init, RowsTyped
<1>2. RowsTyped /\ [Next]_vars => RowsTyped'
  BY StepsOfRows
<1>3. QED
  BY <1>1, <1>2, PTL DEF Spec

\* A finished ticket is never touched again, by whichever device or admin.
THEOREM FinishedTicketsAreFinal == Spec => DoneIsFinal
<1>1. RowsTyped /\ [Next]_vars =>
        [\A id \in TicketIds : tickets[id].status = "done" => tickets'[id] = tickets[id]]_vars
  BY StepsOfRows DEF RowStep, NoTicket
<1>2. QED
  BY <1>1, RowsTypedAlways, PTL DEF Spec, DoneIsFinal

\* A person's ticket goes to another person only through the queue.
THEOREM HandoverThroughTheQueue == Spec => HandoverGoesThroughTheQueue
<1>1. RowsTyped /\ [Next]_vars =>
        [\A id \in TicketIds :
           LET old == tickets[id]
               new == tickets'[id]
           IN old # NoTicket /\ old.owner # Nobody /\ new.owner # old.owner
                => new.status = "queued"]_vars
  BY StepsOfRows DEF RowStep
<1>2. QED
  BY <1>1, RowsTypedAlways, PTL DEF Spec, HandoverGoesThroughTheQueue
=============================================================================
