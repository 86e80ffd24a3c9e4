---------------------------- MODULE Orders_proofs -----------------------------
(***************************************************************************)
(* Machine-checked proofs about Orders: what checks and spares keep true   *)
(* (SetChecks_proofs) deliveries keep true as well.                        *)
(***************************************************************************)
EXTENDS Orders, SetChecks_proofs

\* A set's state row names a check row, or none.
LastsAreChecks == \A s \in Sets : setState[s].last \in CheckIds \cup {0}

\* The lines an office still has to receive are in the table.
LeftAreLines == \A f \in Offices : office[f].step = "receiving" => DOMAIN office[f].left \subseteq Lines

OrdersInv == TypeInv /\ LastsAreChecks /\ OrdersOK /\ LeftAreLines

-----------------------------------------------------------------------------
(* Lemmas on lines and deliveries *)

\* What an order line is.
LEMMA LineShape ==
  ASSUME OrdersOK, NEW l \in Lines
  PROVE  /\ orderLines[l] \in OrderLine
         /\ orderLines[l].set \in Sets \cup {NoSet} /\ orderLines[l].part \in Parts
         /\ orderLines[l].qty \in Nat /\ orderLines[l].received \in Nat
         /\ orderLines[l].received <= orderLines[l].qty
         /\ Outstanding(l) \in Nat
<1>1. orderLines[l] \in OrderLine /\ orderLines[l].received <= orderLines[l].qty
  BY DEF OrdersOK, Lines
<1>2. QED
  BY <1>1 DEF OrderLine, Outstanding

\* The check that a line's delivery goes to is one of its set.
LEMMA CheckForShape ==
  ASSUME OrdersInv, NEW l \in Lines
  PROVE  /\ CheckFor(l) \in CheckIds \cup {0} /\ CheckFor(l) \in Nat
         /\ CheckFor(l) > 0 => /\ orderLines[l].set \in Sets /\ CheckFor(l) \in CheckIds
                               /\ CheckFor(l) = setState[orderLines[l].set].last
<1>1. orderLines[l].set \in Sets \cup {NoSet}
  BY LineShape DEF OrdersInv
<1>2. QED
  BY <1>1, OrdersAssumption DEF OrdersInv, LastsAreChecks, CheckFor, CheckIds

\* Filling a set's last check keeps the tables well formed.
LEMMA SetFilledType ==
  ASSUME TypeInv, LastsAreChecks, NEW s \in Sets, NEW id \in CheckIds, NEW ls,
         lines[id] # NoLines => ls \in [Parts -> Line], SetFilled(s, id, ls)
  PROVE  TypeInv' /\ LastsAreChecks'
<1>1. CASE lines[id] = NoLines
  <2>1. /\ setState' = [setState EXCEPT ![s].missing = [p \in Parts |-> 0]]
        /\ UNCHANGED <<checks, lines, nextId, loose, minQty, origins, copy, banked>>
    BY <1>1 DEF SetFilled
  <2>2. setState' \in [Sets -> SetState] /\ \A t \in Sets : setState'[t].last = setState[t].last
    BY <2>1 DEF TypeInv, TypeOK, SetState
  <2>3. QED
    BY <2>1, <2>2 DEF TypeInv, TypeOK, RowsHaveLines, LastsAreChecks
<1>2. CASE lines[id] # NoLines
  <2>1. /\ setState' = [setState EXCEPT ![s].missing = Shortfall(s, ls)]
        /\ lines' = [lines EXCEPT ![id] = ls]
        /\ UNCHANGED <<checks, nextId, loose, minQty, origins, copy, banked>>
    BY <1>2 DEF SetFilled
  <2>2. ls \in [Parts -> Line] /\ Shortfall(s, ls) \in [Parts -> Nat]
    BY <1>2, MissingType
  <2>3. setState' \in [Sets -> SetState] /\ \A t \in Sets : setState'[t].last = setState[t].last
    BY <2>1, <2>2 DEF TypeInv, TypeOK, SetState
  <2>4. QED
    BY <2>1, <2>2, <2>3 DEF TypeInv, TypeOK, RowsHaveLines, LastsAreChecks
<1>3. QED
  BY <1>1, <1>2

\* ... and so does filling the stock.
LEMMA StockFilledType ==
  ASSUME TypeInv, LastsAreChecks, NEW p \in Parts, NEW n \in Nat, StockFilled(p, n)
  PROVE  TypeInv' /\ LastsAreChecks'
BY DEF StockFilled, TypeInv, TypeOK, RowsHaveLines, LastsAreChecks

\* Taking pieces out of a check leaves its lines well formed.
LEMMA DebitType ==
  ASSUME NEW ls \in [Parts -> Line], NEW p \in Parts, NEW qty \in Nat
  PROVE  Debit(ls, p, qty) \in [Parts -> Line]
BY DEF Debit, Line

\* The lines of a check are missing altogether or well formed.
LEMMA LinesShape ==
  ASSUME TypeInv, NEW id \in CheckIds, lines[id] # NoLines
  PROVE  lines[id] \in [Parts -> Line]
BY DEF TypeInv, TypeOK

\* Booking a quantity on a line changes that line's received count only.
LEMMA BookedType ==
  ASSUME OrdersOK, NEW l \in Lines, NEW n \in Nat, n <= orderLines[l].qty, Booked(l, n)
  PROVE  /\ orderLines' \in Seq(OrderLine) /\ Len(orderLines') = Len(orderLines)
         /\ \A i \in Lines : i # l => orderLines'[i] = orderLines[i]
         /\ orderLines'[l].received = n /\ orderLines'[l].qty = orderLines[l].qty
         /\ orderLines'[l].part = orderLines[l].part
         /\ \A i \in Lines' : orderLines'[i].received <= orderLines'[i].qty
<1>1. orderLines[l] \in OrderLine
  BY LineShape
<1>2. [orderLines[l] EXCEPT !.received = n] \in OrderLine
  BY <1>1 DEF OrderLine
<1>3. orderLines' = [orderLines EXCEPT ![l] = [orderLines[l] EXCEPT !.received = n]]
  BY DEF Booked
<1>4. orderLines' \in Seq(OrderLine) /\ Len(orderLines') = Len(orderLines)
  BY <1>2, <1>3 DEF OrdersOK, Lines
<1>5. \A i \in Lines : i # l => orderLines'[i] = orderLines[i]
  BY <1>3 DEF OrdersOK, Lines
<1>6. orderLines'[l] = [orderLines[l] EXCEPT !.received = n]
  BY <1>3 DEF OrdersOK, Lines
<1>7. orderLines'[l].received = n /\ orderLines'[l].qty = orderLines[l].qty
      /\ orderLines'[l].part = orderLines[l].part
  BY <1>1, <1>6 DEF OrderLine
<1>8. \A i \in Lines' : orderLines'[i].received <= orderLines'[i].qty
  BY <1>4, <1>5, <1>7 DEF OrdersOK, Lines
<1>9. QED
  BY <1>4, <1>5, <1>7, <1>8

\* What a step of an order does to the tables.
LinesSound ==
  /\ TypeInv' /\ LastsAreChecks'
  /\ orderLines' \in Seq(OrderLine) /\ Len(orderLines') = Len(orderLines)
  /\ \A i \in Lines' : orderLines'[i].received <= orderLines'[i].qty

\* Receiving keeps the tables well formed and never books more than was ordered.
LEMMA ReceiveLineType ==
  ASSUME OrdersInv, NEW l \in Lines, NEW asked \in Nat, ReceiveLine(l, asked)
  PROVE  LinesSound
<1> DEFINE ln == orderLines[l]
           qty == Least(asked, Outstanding(l))
<1>1. /\ ln.part \in Parts /\ ln.qty \in Nat /\ ln.received \in Nat /\ ln.received <= ln.qty
      /\ Outstanding(l) = ln.qty - ln.received
  BY LineShape DEF OrdersInv, Outstanding
<1>2. qty \in Nat /\ ln.received + qty <= ln.qty /\ qty <= asked
  BY <1>1 DEF Least
<1>3. CASE qty <= 0
  BY <1>3 DEF ReceiveLine, vars, LinesSound, OrdersInv, OrdersOK, Lines, TypeInv, TypeOK,
              RowsHaveLines, LastsAreChecks
<1>4. CASE qty > 0
  <2>1. Booked(l, ln.received + qty)
    BY <1>2, <1>4 DEF ReceiveLine
  <2>2. /\ orderLines' \in Seq(OrderLine) /\ Len(orderLines') = Len(orderLines)
        /\ \A i \in Lines' : orderLines'[i].received <= orderLines'[i].qty
    BY <1>1, <1>2, <2>1, BookedType DEF OrdersInv
  <2>3. TypeInv' /\ LastsAreChecks'
    <3>1. CASE CheckFor(l) > 0
      <4>1. SetFilled(ln.set, CheckFor(l), Credit(ln.set, lines[CheckFor(l)], ln.part, qty))
        BY <1>2, <1>4, <3>1 DEF ReceiveLine
      <4>2. ln.set \in Sets /\ CheckFor(l) \in CheckIds
        BY <3>1, CheckForShape
      <4>3. lines[CheckFor(l)] # NoLines
              => Credit(ln.set, lines[CheckFor(l)], ln.part, qty) \in [Parts -> Line]
        BY <1>1, <1>2, <4>2, LinesShape, CreditType DEF OrdersInv
      <4>4. QED
        BY <4>1, <4>2, <4>3, SetFilledType DEF OrdersInv
    <3>2. CASE ~(CheckFor(l) > 0)
      <4>1. StockFilled(ln.part, loose[ln.part] + qty)
        BY <1>2, <1>4, <3>2 DEF ReceiveLine
      <4>2. loose[ln.part] + qty \in Nat
        BY <1>1, <1>2 DEF OrdersInv, TypeInv, TypeOK
      <4>3. QED
        BY <1>1, <4>1, <4>2, StockFilledType DEF OrdersInv
    <3>3. QED
      BY <3>1, <3>2
  <2>4. QED
    BY <2>2, <2>3 DEF LinesSound
<1>5. QED
  BY <1>2, <1>3, <1>4

\* Taking back keeps the tables well formed, too.
LEMMA UnreceiveLineType ==
  ASSUME OrdersInv, NEW l \in Lines, NEW asked \in Nat, UnreceiveLine(l, asked)
  PROVE  LinesSound
<1> DEFINE ln == orderLines[l]
           qty == Least(asked, ln.received)
<1>1. ln.part \in Parts /\ ln.qty \in Nat /\ ln.received \in Nat /\ ln.received <= ln.qty
  BY LineShape DEF OrdersInv
<1>2. qty \in Nat /\ ln.received - qty \in Nat /\ ln.received - qty <= ln.qty
  BY <1>1 DEF Least
<1>3. CASE qty <= 0
  BY <1>3 DEF UnreceiveLine, vars, LinesSound, OrdersInv, OrdersOK, Lines, TypeInv, TypeOK,
              RowsHaveLines, LastsAreChecks
<1>4. CASE qty > 0
  <2>1. Booked(l, ln.received - qty)
    BY <1>2, <1>4 DEF UnreceiveLine
  <2>2. /\ orderLines' \in Seq(OrderLine) /\ Len(orderLines') = Len(orderLines)
        /\ \A i \in Lines' : orderLines'[i].received <= orderLines'[i].qty
    BY <1>1, <1>2, <2>1, BookedType DEF OrdersInv
  <2>3. TypeInv' /\ LastsAreChecks'
    <3>1. CASE CheckFor(l) > 0
      <4>1. SetFilled(ln.set, CheckFor(l), Debit(lines[CheckFor(l)], ln.part, qty))
        BY <1>2, <1>4, <3>1 DEF UnreceiveLine
      <4>2. ln.set \in Sets /\ CheckFor(l) \in CheckIds
        BY <3>1, CheckForShape
      <4>3. lines[CheckFor(l)] # NoLines
              => Debit(lines[CheckFor(l)], ln.part, qty) \in [Parts -> Line]
        BY <1>1, <1>2, <4>2, LinesShape, DebitType DEF OrdersInv
      <4>4. QED
        BY <4>1, <4>2, <4>3, SetFilledType DEF OrdersInv
    <3>2. CASE ~(CheckFor(l) > 0) /\ ln.set = NoSet
      <4> DEFINE n == IF loose[ln.part] >= qty THEN loose[ln.part] - qty ELSE 0
      <4>1. StockFilled(ln.part, n)
        BY <1>2, <1>4, <3>2 DEF UnreceiveLine
      <4>2. n \in Nat
        BY <1>1, <1>2 DEF OrdersInv, TypeInv, TypeOK
      <4>3. QED
        BY <1>1, <4>1, <4>2, StockFilledType DEF OrdersInv
    <3>3. CASE ~(CheckFor(l) > 0) /\ ln.set # NoSet
      <4>1. UNCHANGED vars
        BY <1>2, <1>4, <3>3 DEF UnreceiveLine
      <4>2. QED
        BY <4>1 DEF vars, OrdersInv, TypeInv, TypeOK, RowsHaveLines, LastsAreChecks
    <3>4. QED
      BY <3>1, <3>2, <3>3
  <2>4. QED
    BY <2>2, <2>3 DEF LinesSound
<1>5. QED
  BY <1>2, <1>3, <1>4

-----------------------------------------------------------------------------
(* Every step keeps the tables well formed *)

OfficeOK(h) ==
  /\ Receiving(h) \/ Shorting(h) \/ h \in Editing \cup {Away}
  /\ h.step = "receiving" => DOMAIN h.left \subseteq Lines

\* One office's business changes to something well formed.
LEMMA OfficeKept ==
  ASSUME OrdersOK, LeftAreLines, NEW f \in Offices, NEW h, OfficeOK(h), office' = [office EXCEPT ![f] = h]
  PROVE  /\ office' = [g \in Offices |-> office'[g]]
         /\ \A g \in Offices : OfficeOK(office'[g])
BY DEF OrdersOK, OfficeOK, LeftAreLines

\* What an office that is busy holds.
LEMMA OfficeShape ==
  ASSUME OrdersOK, NEW f \in Offices
  PROVE  /\ office[f].step = "receiving" => Receiving(office[f])
         /\ office[f].step \in {"shorting", "adding"} => Shorting(office[f])
         /\ office[f].step = "editing" => office[f] \in Editing
BY DEF OrdersOK, Receiving, Shorting, Editing, Away

\* A step that leaves the checks and the stock alone.
LEMMA VarsKept ==
  ASSUME TypeInv, LastsAreChecks, UNCHANGED vars
  PROVE  TypeInv' /\ LastsAreChecks'
BY DEF vars, TypeInv, TypeOK, RowsHaveLines, LastsAreChecks

\* An order line is appended.
LEMMA LineAdded ==
  ASSUME OrdersOK, Len(orderLines) < MaxLines, NEW o \in OrderIds, NEW s \in Sets \cup {NoSet},
         NEW p \in Parts, NEW n \in Nat, orderLines' = Append(orderLines, NewLine(o, s, p, n))
  PROVE  /\ orderLines' \in Seq(OrderLine) /\ Len(orderLines') <= MaxLines
         /\ \A l \in Lines' : orderLines'[l].received <= orderLines'[l].qty
<1>1. NewLine(o, s, p, n) \in OrderLine /\ NewLine(o, s, p, n).received <= NewLine(o, s, p, n).qty
  BY DEF NewLine, OrderLine
<1>2. QED
  BY <1>1, OrdersAssumption DEF OrdersOK, Lines

\* A line's delivery and nothing else.
LEMMA DeliverySafe ==
  ASSUME OrdersInv, LinesSound, UNCHANGED orders, 
         office' = [g \in Offices |-> office'[g]], \A g \in Offices : OfficeOK(office'[g])
  PROVE  OrdersInv'
BY DEF OrdersInv, OrdersOK, LinesSound, OfficeOK, LeftAreLines, Lines

\* An office takes up, goes on with or ends some business, and the tables' lines stay.
LEMMA OfficeMoves ==
  ASSUME OrdersInv, NEW f \in Offices, NEW h, OfficeOK(h), office' = [office EXCEPT ![f] = h],
         UNCHANGED <<vars, orderLines>>, orders' \in [OrderIds -> Statuses \cup {"none"}]
  PROVE  OrdersInv'
<1>1. /\ office' = [g \in Offices |-> office'[g]]
      /\ \A g \in Offices : OfficeOK(office'[g])
  BY OfficeKept DEF OrdersInv
<1>2. TypeInv' /\ LastsAreChecks'
  BY VarsKept DEF OrdersInv
<1>3. OrdersOK' /\ LeftAreLines'
  BY <1>1 DEF OrdersInv, OrdersOK, OfficeOK, LeftAreLines, Lines
<1>4. QED
  BY <1>2, <1>3 DEF OrdersInv

\* An office that is away is up to nothing.
LEMMA AwayOK == OfficeOK(Away)
BY DEF OfficeOK, Away

LEMMA OfficeStepType ==
  ASSUME OrdersInv, NEW f \in Offices, OfficeStep(f) PROVE OrdersInv'
<1>0. OrdersOK /\ TypeInv /\ LastsAreChecks /\ LeftAreLines
  BY DEF OrdersInv
<1>1. CASE \E s \in Sets : OrderFromMissing(f, s)
  <2>1. PICK s \in Sets, id \in CheckIds, o \in OrderIds, p \in Parts :
          /\ IsNewest(id, DoneChecks(s))
          /\ orders' = [orders EXCEPT ![o] = "wanted"]
          /\ office' = [office EXCEPT ![f] =
                          [step |-> "shorting", order |-> o, set |-> s, part |-> p, qty |-> 0,
                           lacks |-> Missing(s, lines[id])]]
          /\ UNCHANGED <<vars, orderLines>>
    BY <1>1 DEF OrderFromMissing
  <2>2. lines[id] \in [Parts -> Line]
    BY <1>0, <2>1 DEF IsNewest, DoneChecks, TypeInv, RowsHaveLines
  <2>3. Missing(s, lines[id]) \in [Parts -> Nat]
    BY <2>2, MissingType
  <2>4. OfficeOK([step |-> "shorting", order |-> o, set |-> s, part |-> p, qty |-> 0,
                  lacks |-> Missing(s, lines[id])])
    BY <2>3 DEF OfficeOK, Shorting
  <2>5. QED
    BY <1>0, <2>1, <2>4, OfficeMoves DEF OrdersOK, Statuses
<1>2. CASE CountOnOrder(f)
  <2> DEFINE h == office[f]
  <2>1. PICK p \in DOMAIN h.lacks :
          LET rest == [q \in DOMAIN h.lacks \ {p} |-> h.lacks[q]]
          IN \/ office' = [office EXCEPT ![f].lacks = rest]
             \/ \E n \in 1 .. MaxQty :
                  office' = [office EXCEPT ![f] =
                               [step |-> "adding", order |-> h.order, set |-> h.set, part |-> p,
                                qty |-> n, lacks |-> rest]]
    BY <1>2 DEF CountOnOrder
  <2> DEFINE rest == [q \in DOMAIN h.lacks \ {p} |-> h.lacks[q]]
  <2>2. /\ Shorting(h) /\ h.step = "shorting" /\ UNCHANGED <<vars, orders, orderLines>>
    BY <1>0, <1>2, OfficeShape DEF CountOnOrder
  <2>3. p \in Parts /\ DOMAIN rest \subseteq Parts /\ rest \in [DOMAIN rest -> Nat]
    BY <2>2 DEF Shorting
  <2>4. OfficeOK([h EXCEPT !.lacks = rest])
    BY <2>2, <2>3 DEF OfficeOK, Shorting
  <2>5. ASSUME NEW n \in 1 .. MaxQty
        PROVE  OfficeOK([step |-> "adding", order |-> h.order, set |-> h.set, part |-> p,
                         qty |-> n, lacks |-> rest])
    <3>1. n \in Nat /\ h.order \in OrderIds /\ h.set \in Sets
      BY <2>2, OrdersAssumption DEF Shorting
    <3> HIDE DEF rest, h
    <3>2. QED
      BY <2>3, <3>1 DEF OfficeOK, Shorting
  <2>6. /\ office' = [g \in Offices |-> office'[g]]
        /\ \A g \in Offices : OfficeOK(office'[g])
    <3>1. CASE office' = [office EXCEPT ![f] = [h EXCEPT !.lacks = rest]]
      <4> HIDE DEF rest, h
      <4>1. QED
        BY <1>0, <2>4, <3>1, OfficeKept
    <3>2. ASSUME NEW n \in 1 .. MaxQty,
                 office' = [office EXCEPT ![f] =
                              [step |-> "adding", order |-> h.order, set |-> h.set, part |-> p,
                               qty |-> n, lacks |-> rest]]
          PROVE  /\ office' = [g \in Offices |-> office'[g]]
                 /\ \A g \in Offices : OfficeOK(office'[g])
      <4> HIDE DEF rest, h
      <4>1. QED
        BY <1>0, <2>5, <3>2, OfficeKept
    <3>3. QED
      BY <2>1, <3>1, <3>2
  <2>7. QED
    <3>1. TypeInv' /\ LastsAreChecks'
      BY <1>0, <2>2, VarsKept
    <3>2. OrdersOK' /\ LeftAreLines'
      BY <1>0, <2>2, <2>6 DEF OrdersOK, OfficeOK, LeftAreLines, Lines
    <3>3. QED
      BY <3>1, <3>2 DEF OrdersInv
<1>3. CASE AddMissing(f)
  <2>1. Shorting(office[f]) /\ UNCHANGED <<vars, orders>>
    BY <1>0, <1>3, OfficeShape DEF AddMissing
  <2>2. /\ orderLines' \in Seq(OrderLine) /\ Len(orderLines') <= MaxLines
        /\ \A l \in Lines' : orderLines'[l].received <= orderLines'[l].qty
    BY <1>0, <1>3, <2>1, LineAdded DEF AddMissing, Shorting
  <2>3. OfficeOK([office[f] EXCEPT !.step = "shorting"])
    BY <2>1 DEF OfficeOK, Shorting
  <2>4. office' = [office EXCEPT ![f] = [office[f] EXCEPT !.step = "shorting"]]
    BY <1>3 DEF AddMissing
  <2>5. QED
    <3>1. /\ office' = [g \in Offices |-> office'[g]]
          /\ \A g \in Offices : OfficeOK(office'[g])
      BY <1>0, <2>3, <2>4, OfficeKept
    <3>2. TypeInv' /\ LastsAreChecks'
      BY <1>0, <2>1, VarsKept
    <3>3. Lines \subseteq Lines'
      BY <1>0, <1>3 DEF AddMissing, OrdersOK, Lines
    <3>4. OrdersOK' /\ LeftAreLines'
      <4>1. LeftAreLines'
        BY <3>1, <3>3 DEF OfficeOK, LeftAreLines
      <4>2. QED
        BY <1>0, <2>1, <2>2, <3>1, <4>1 DEF OrdersOK, OfficeOK
    <3>5. QED
      BY <3>2, <3>4 DEF OrdersInv
<1>4. CASE StopWork(f)
  BY <1>0, <1>4, AwayOK, OfficeMoves DEF StopWork, OrdersOK
<1>5. CASE \E o \in OrderIds : EditOrder(f, o)
  <2>1. PICK o \in OrderIds : EditOrder(f, o)
    BY <1>5
  <2>2. OfficeOK([step |-> "editing", order |-> o, status |-> orders[o]])
    BY <1>0, <2>1 DEF EditOrder, OrdersOK, OfficeOK, Editing
  <2>3. QED
    BY <1>0, <2>1, <2>2, OfficeMoves DEF EditOrder, OrdersOK
<1>6. CASE SaveOrder(f)
  <2>1. office[f].order \in OrderIds /\ office[f].status \in Statuses
    BY <1>0, <1>6, OfficeShape DEF SaveOrder, Editing
  <2>2. QED
    BY <1>0, <1>6, <2>1, AwayOK, OfficeMoves DEF SaveOrder, OrdersOK
<1>7. CASE \E o \in OrderIds : BeginReceiving(f, o)
  <2>1. PICK o \in OrderIds : BeginReceiving(f, o)
    BY <1>7
  <2>2. LinesOf(o) \subseteq 1 .. MaxLines /\ \A l \in LinesOf(o) : Outstanding(l) \in Nat
    BY <1>0, LineShape, OrdersAssumption DEF LinesOf, Lines, OrdersOK
  <2>5. LinesOf(o) \subseteq Lines
    BY DEF LinesOf
  <2>3. OfficeOK([step |-> "receiving", order |-> o, left |-> [l \in LinesOf(o) |-> Outstanding(l)]])
    BY <2>2, <2>5 DEF OfficeOK, Receiving
  <2>4. QED
    BY <1>0, <2>1, <2>3, OfficeMoves DEF BeginReceiving, OrdersOK
<1>8. CASE ReceiveNext(f)
  <2> DEFINE left == office[f].left
  <2>1. PICK l \in DOMAIN left :
          /\ ReceiveLine(l, left[l])
          /\ office' = [office EXCEPT ![f].left = [other \in DOMAIN left \ {l} |-> left[other]]]
    BY <1>8 DEF ReceiveNext
  <2> DEFINE rest == [other \in DOMAIN left \ {l} |-> left[other]]
  <2>2. Receiving(office[f]) /\ UNCHANGED orders
    BY <1>0, <1>8, OfficeShape DEF ReceiveNext
  <2>3. OfficeOK([office[f] EXCEPT !.left = rest])
    BY <1>0, <2>2 DEF OfficeOK, Receiving, LeftAreLines
  <2>4. /\ office' = [g \in Offices |-> office'[g]]
        /\ \A g \in Offices : OfficeOK(office'[g])
    <3>1. office' = [office EXCEPT ![f] = [office[f] EXCEPT !.left = rest]]
      BY <2>1
    <3> HIDE DEF rest
    <3>2. QED
      BY <1>0, <2>3, <3>1, OfficeKept
  <2>5. LinesSound
    <3>1. l \in Lines /\ left[l] \in Nat
      BY <1>0, <2>2 DEF Receiving, LeftAreLines
    <3>2. QED
      BY <2>1, <3>1, ReceiveLineType
  <2>6. QED
    BY <2>2, <2>4, <2>5, DeliverySafe
<1>9. CASE MarkReceived(f)
  <2>1. office[f].order \in OrderIds
    BY <1>0, <1>9, OfficeShape DEF MarkReceived, Receiving
  <2>2. QED
    BY <1>0, <1>9, <2>1, AwayOK, OfficeMoves DEF MarkReceived, OrdersOK, Statuses
<1>10. QED
  BY <1>1, <1>2, <1>3, <1>4, <1>5, <1>6, <1>7, <1>8, <1>9 DEF OfficeStep

\* Checks and spares change what OrdersInv says of the checks' tables only.
LEMMA CheckStepType ==
  ASSUME OrdersInv, [Next]_vars, UNCHANGED orderVars PROVE OrdersInv'
<1>1. TypeInv'
  BY TypeInvStep DEF OrdersInv
<1>2. LastsAreChecks'
  <2>1. ASSUME NEW ss \in Sessions, Finish(ss) PROVE LastsAreChecks'
    <3>1. /\ SavedId(copy[ss]) \in CheckIds
          /\ setState' = [setState EXCEPT ![copy[ss].set] =
                            [last |-> SavedId(copy[ss]), missing |-> Missing(copy[ss].set, copy[ss].lines)]]
      BY <2>1 DEF Finish, WriteCheck
    <3>2. QED
      BY <3>1 DEF OrdersInv, LastsAreChecks, TypeInv, TypeOK
  <2>2. ASSUME NEW s \in Sets, NEW p \in Parts, NEW qty \in 1 .. MaxTake, TakeSpare(s, p, qty)
        PROVE  LastsAreChecks'
    BY <2>2 DEF TakeSpare, OrdersInv, LastsAreChecks, TypeInv, TypeOK, SetState
  <2>3. ASSUME NEW ss \in Sessions, SessionStep(ss), ~Finish(ss) PROVE UNCHANGED setState
    BY <2>3 DEF SessionStep, ResumeDraft, StartRecount, StartFromInventory, Mark, MarkFirstExtra,
                TakeIntoCheck, Leave, EagerSave, SaveForLater, SaveFails, FinishFails, Abandon,
                tables
  <2>4. UNCHANGED setState => LastsAreChecks'
    BY DEF OrdersInv, LastsAreChecks
  <2>5. QED
    BY <2>1, <2>2, <2>3, <2>4 DEF Next, vars
<1>3. OrdersOK' /\ LeftAreLines'
  BY DEF OrdersInv, OrdersOK, LeftAreLines, orderVars, Lines, Receiving, Shorting
<1>4. QED
  BY <1>1, <1>2, <1>3 DEF OrdersInv

\* Every step keeps the tables well formed.
LEMMA OrdersInvStep ==
  ASSUME OrdersInv, [OrdersNext]_allVars PROVE OrdersInv'
<1>0. OrdersOK /\ TypeInv /\ LastsAreChecks /\ LeftAreLines
  BY DEF OrdersInv
<1>o. office = [g \in Offices |-> office[g]] /\ \A g \in Offices : OfficeOK(office[g])
  BY <1>0 DEF OrdersOK, OfficeOK, LeftAreLines
<1>1. CASE CheckStep \/ UNCHANGED allVars
  BY <1>1, CheckStepType DEF CheckStep, allVars
<1>2. ASSUME NEW o \in OrderIds, NewOrder(o) PROVE OrdersInv'
  <2>1. TypeInv' /\ LastsAreChecks'
    BY <1>0, <1>2, VarsKept DEF NewOrder
  <2>2. OrdersOK' /\ LeftAreLines'
    BY <1>0, <1>2 DEF NewOrder, OrdersOK, LeftAreLines, Lines, Statuses
  <2>3. QED
    BY <2>1, <2>2 DEF OrdersInv
<1>3. ASSUME NEW o \in OrderIds, NEW s \in Sets \cup {NoSet}, NEW p \in Parts, NEW n \in 1 .. MaxQty,
             AddOrderLine(o, s, p, n)
      PROVE  OrdersInv'
  <2>0. n \in Nat
    BY OrdersAssumption
  <2>1. TypeInv' /\ LastsAreChecks'
    BY <1>0, <1>3, VarsKept DEF AddOrderLine
  <2>2. /\ orderLines' \in Seq(OrderLine) /\ Len(orderLines') <= MaxLines
        /\ \A l \in Lines' : orderLines'[l].received <= orderLines'[l].qty
    BY <1>0, <1>3, <2>0, LineAdded DEF AddOrderLine
  <2>3. Lines \subseteq Lines'
    BY <1>0, <1>3 DEF AddOrderLine, OrdersOK, Lines
  <2>4. LeftAreLines'
    BY <1>0, <1>3, <2>3 DEF AddOrderLine, LeftAreLines
  <2>5. OrdersOK'
    BY <1>0, <1>3, <2>2 DEF AddOrderLine, OrdersOK
  <2>6. QED
    BY <2>1, <2>4, <2>5 DEF OrdersInv
<1>4. ASSUME NEW o \in OrderIds, NEW status \in Statuses, SetStatus(o, status) PROVE OrdersInv'
  <2>1. TypeInv' /\ LastsAreChecks'
    BY <1>0, <1>4, VarsKept DEF SetStatus
  <2>2. OrdersOK' /\ LeftAreLines'
    BY <1>0, <1>4 DEF SetStatus, OrdersOK, LeftAreLines, Lines
  <2>3. QED
    BY <2>1, <2>2 DEF OrdersInv
<1>5. ASSUME NEW l \in 1 .. MaxLines, NEW n \in 1 .. MaxQty, Receive(l, n) \/ Unreceive(l, n)
      PROVE  OrdersInv'
  <2>1. l \in Lines /\ n \in Nat /\ UNCHANGED <<orders, office>>
    BY <1>5, OrdersAssumption DEF Receive, Unreceive
  <2>2. LinesSound
    BY <1>5, <2>1, ReceiveLineType, UnreceiveLineType DEF Receive, Unreceive
  <2>3. QED
    BY <1>o, <2>1, <2>2, DeliverySafe
<1>6. ASSUME NEW f \in Offices, OfficeStep(f) PROVE OrdersInv'
  BY <1>6, OfficeStepType
<1>7. QED
  BY <1>1, <1>2, <1>3, <1>4, <1>5, <1>6 DEF OrdersNext, OrderStep

\* Initially there is neither a check nor an order.
LEMMA OrdersInvInit ==
  ASSUME OrdersInit PROVE OrdersInv
<1>1. TypeInv
  BY ConstantsAssumption DEF OrdersInit, Init, TypeInv, TypeOK, RowsHaveLines, SetState, NoRow
<1>2. LastsAreChecks
  BY DEF OrdersInit, Init, LastsAreChecks
<1>3. OrdersOK /\ LeftAreLines
  BY OrdersAssumption DEF OrdersInit, OrdersOK, LeftAreLines, Lines, Away
<1>4. QED
  BY <1>1, <1>2, <1>3 DEF OrdersInv

\* The tables stay well formed, and no line is ever received beyond what was
\* ordered, whatever checks, phones and offices do in between and wherever one of
\* them stops.
THEOREM OrdersTypeCorrect == OrdersSpec => [](TypeOK /\ OrdersOK)
<1>1. OrdersInit => OrdersInv
  BY OrdersInvInit
<1>2. OrdersInv /\ [OrdersNext]_allVars => OrdersInv'
  BY OrdersInvStep
<1>3. OrdersInv => TypeOK /\ OrdersOK
  BY DEF OrdersInv, TypeInv
<1>4. QED
  BY <1>1, <1>2, <1>3, PTL DEF OrdersSpec

-----------------------------------------------------------------------------
(* Deliveries and the record of a set *)

\* A delivery into a set's last check leaves the set's state row true to it.
LEMMA FilledKeepsRecord ==
  ASSUME IInv(FALSE), B!LastIsDone, TypeInv', NEW s \in Sets, NEW id \in CheckIds,
         id = setState[s].last, NEW ls, lines[id] # NoLines => ls \in [Parts -> Line],
         SetFilled(s, id, ls)
  PROVE  IInv(FALSE)'
<1>0. id # 0 /\ checks[id].status = "done" /\ checks[id].set = s
  BY DEF B!LastIsDone, CheckIds
<1>1. checks[id] # NoRow /\ lines[id] # NoLines
  BY <1>0 DEF IInv, LinesBelongToARow, NoRow
<1>2. /\ setState' = [setState EXCEPT ![s].missing = Shortfall(s, ls)]
      /\ lines' = [lines EXCEPT ![id] = ls]
      /\ UNCHANGED <<checks, nextId, loose, minQty, origins, copy, banked>>
  BY <1>1 DEF SetFilled
<1>3. /\ lines'[id] = ls /\ ls \in [Parts -> Line]
      /\ \A i \in CheckIds : i # id => lines'[i] = lines[i]
      /\ setState'[s].last = id /\ setState'[s].missing = Shortfall(s, ls)
      /\ \A t \in Sets : t # s => setState'[t] = setState[t]
  BY <1>1, <1>2 DEF IInv, TypeInv, TypeOK, SetState
<1>4. IdsBelowNext' /\ OneDraftPerJob' /\ BankedExactlyOnce' /\ CopiesAreUpToDate'
  BY <1>2 DEF IInv, IdsBelowNext, OneDraftPerJob, BankedExactlyOnce, CopiesAreUpToDate, UpToDate,
              Drafts, DoneChecks
<1>5. LinesBelongToARow'
  <2>1. PICK p \in Parts : TRUE
    BY ConstantsAssumption
  <2>2. p \in DOMAIN ls /\ p \notin DOMAIN NoLines
    BY <1>3, <2>1 DEF NoLines
  <2>3. ls # NoLines
    BY <2>2
  <2>4. QED
    BY <1>1, <1>2, <1>3, <2>3 DEF IInv, LinesBelongToARow
<1>6. ASSUME ~PartDB PROVE MissingMatchesLastCheck'
  <2> SUFFICES ASSUME NEW t \in Sets, setState'[t].last # 0
               PROVE  LET i == setState'[t].last
                      IN /\ i \in CheckIds
                         /\ checks'[i].status = "done" /\ checks'[i].set = t
                         /\ \A r \in Parts : setState'[t].missing[r] \in
                              {Missing(t, lines'[i])[r], Gap(t, lines'[i], r)}
    BY DEF MissingMatchesLastCheck, Missing, Gap
  <2>1. CASE t = s
    BY <1>0, <1>2, <1>3, <2>1 DEF Shortfall
  <2>2. CASE t # s
    <3>1. /\ setState'[t] = setState[t] /\ setState[t].last \in CheckIds
          /\ checks[setState[t].last].set = t
      BY <1>3, <1>6, <2>2 DEF IInv, MissingMatchesLastCheck
    <3>2. lines'[setState[t].last] = lines[setState[t].last]
      BY <1>0, <1>3, <2>2, <3>1
    <3>3. QED
      BY <1>2, <1>6, <3>1, <3>2 DEF IInv, MissingMatchesLastCheck
  <2>3. QED
    BY <2>1, <2>2
<1>7. QED
  BY <1>4, <1>5, <1>6 DEF IInv

\* Whatever leaves the checks alone leaves the record true.
LEMMA RecordKept ==
  ASSUME IInv(FALSE), TypeInv',
         UNCHANGED <<checks, lines, nextId, setState, minQty, copy, banked>>
  PROVE  IInv(FALSE)'
<1>1. CopiesAreUpToDate'
  BY DEF IInv, CopiesAreUpToDate, UpToDate, Drafts, DoneChecks
<1>2. QED
  BY <1>1, TablesKept DEF IInv

\* Receiving a quantity of a line, or taking it back, keeps the record true.
LEMMA DeliveryKeepsRecord ==
  ASSUME IInv(FALSE), B!LastIsDone, OrdersInv, TypeInv', NEW l \in Lines, NEW n \in Nat,
         ReceiveLine(l, n) \/ UnreceiveLine(l, n)
  PROVE  IInv(FALSE)'
<1> DEFINE ln == orderLines[l]
<1>1. CASE UNCHANGED vars
  BY <1>1, RecordKept DEF vars
<1>2. ASSUME NEW p \in Parts, NEW m, StockFilled(p, m) PROVE IInv(FALSE)'
  BY <1>2, RecordKept DEF StockFilled
<1>3. ASSUME CheckFor(l) > 0, NEW m \in Nat,
             \/ SetFilled(ln.set, CheckFor(l), Credit(ln.set, lines[CheckFor(l)], ln.part, m))
             \/ SetFilled(ln.set, CheckFor(l), Debit(lines[CheckFor(l)], ln.part, m))
      PROVE  IInv(FALSE)'
  <2>1. /\ ln.set \in Sets /\ CheckFor(l) \in CheckIds /\ CheckFor(l) = setState[ln.set].last
        /\ ln.part \in Parts
    BY <1>3, CheckForShape, LineShape DEF OrdersInv
  <2>2. lines[CheckFor(l)] # NoLines
          => /\ Credit(ln.set, lines[CheckFor(l)], ln.part, m) \in [Parts -> Line]
             /\ Debit(lines[CheckFor(l)], ln.part, m) \in [Parts -> Line]
    BY <2>1, LinesShape, CreditType, DebitType DEF OrdersInv
  <2> HIDE DEF ln
  <2>3. QED
    BY <1>3, <2>1, <2>2, FilledKeepsRecord
<1>4. /\ ln.part \in Parts /\ Outstanding(l) \in Nat /\ ln.received \in Nat
      /\ Least(n, Outstanding(l)) \in Nat /\ Least(n, ln.received) \in Nat
  BY LineShape DEF OrdersInv, Least
<1>5. CASE ReceiveLine(l, n)
  BY <1>1, <1>2, <1>3, <1>4, <1>5 DEF ReceiveLine
<1>6. CASE UnreceiveLine(l, n)
  BY <1>1, <1>2, <1>3, <1>4, <1>6 DEF UnreceiveLine
<1>7. QED
  BY <1>5, <1>6

\* What every step keeps while sessions keep to their sets and no write fails.
RecordInv == OrdersInv /\ IInv(FALSE) /\ B!LastIsDone

\* A step of an office reads, and writes what belongs to orders alone, or it is a
\* delivery.
LEMMA OrderStepShape ==
  ASSUME OrdersInv, OrderStep
  PROVE  \/ UNCHANGED vars
         \/ \E l \in Lines, n \in Nat : ReceiveLine(l, n) \/ UnreceiveLine(l, n)
<1> DEFINE Delivery == \E l \in Lines, n \in Nat : ReceiveLine(l, n) \/ UnreceiveLine(l, n)
<1>1. ASSUME NEW l \in 1 .. MaxLines, NEW n \in 1 .. MaxQty, Receive(l, n) \/ Unreceive(l, n)
      PROVE  Delivery
  BY <1>1, OrdersAssumption DEF Receive, Unreceive
<1>2. ASSUME NEW f \in Offices, ReceiveNext(f) PROVE Delivery
  <2>1. office[f].step = "receiving" /\ Receiving(office[f])
    BY <1>2, OfficeShape DEF ReceiveNext, OrdersInv
  <2>2. PICK l \in DOMAIN office[f].left : ReceiveLine(l, office[f].left[l])
    BY <1>2 DEF ReceiveNext
  <2>3. l \in Lines /\ office[f].left[l] \in Nat
    BY <2>1, <2>2 DEF OrdersInv, LeftAreLines, Receiving
  <2>4. QED
    BY <2>2, <2>3
<1>3. QED
  BY <1>1, <1>2
     DEF OrderStep, OfficeStep, NewOrder, AddOrderLine, SetStatus, OrderFromMissing, CountOnOrder,
         AddMissing, StopWork, EditOrder, SaveOrder, BeginReceiving, MarkReceived

\* What a delivery moves: pieces of its line's part, into the stock or out of it, and
\* nothing where the set has a check or nothing is booked.
LEMMA DeliveryMovesStock ==
  ASSUME OrdersInv, NEW l \in Lines, NEW n \in Nat, ReceiveLine(l, n) \/ UnreceiveLine(l, n)
  PROVE  MovesStock(l) \/ UNCHANGED B!vars
<1> DEFINE ln == orderLines[l]
<1>1. /\ ln.part \in Parts /\ Outstanding(l) \in Nat /\ ln.received \in Nat
      /\ loose \in [Parts -> Nat] /\ DOMAIN orderLines = Lines /\ DOMAIN ln = {"order", "set", "part", "qty", "received"}
  BY LineShape DEF OrdersInv, TypeInv, TypeOK, OrdersOK, OrderLine, Lines
<1>2. /\ Least(n, Outstanding(l)) \in Nat /\ Least(n, ln.received) \in Nat
      /\ Least(n, ln.received) <= ln.received
  BY <1>1 DEF Least
<1>3. ASSUME NEW m \in Int, Booked(l, m) PROVE orderLines'[l].received = m
  BY <1>1, <1>3 DEF Booked
<1>4. ASSUME NEW s, NEW id, NEW ls, SetFilled(s, id, ls) PROVE UNCHANGED B!vars
  <2>1. UNCHANGED <<checks, loose>>
    BY <1>4 DEF SetFilled
  <2>2. PICK missing : setState' = [setState EXCEPT ![s].missing = missing]
    BY <1>4 DEF SetFilled
  <2>3. \A t \in Sets : setState'[t].last = setState[t].last
    BY <2>2 DEF OrdersInv, TypeInv, TypeOK, SetState
  <2>4. QED
    BY <2>1, <2>3 DEF B!vars
<1>5. ASSUME NEW m \in Nat, NEW b \in Int, Booked(l, b), StockFilled(ln.part, m),
             m = IF loose[ln.part] + b - ln.received >= 0 THEN loose[ln.part] + b - ln.received ELSE 0
      PROVE  MovesStock(l)
  BY <1>3, <1>5 DEF StockFilled, MovesStock
<1>6. UNCHANGED vars => UNCHANGED B!vars
  BY DEF vars, B!vars
<1>7. CASE ReceiveLine(l, n)
  BY <1>1, <1>2, <1>4, <1>5, <1>6, <1>7 DEF ReceiveLine
<1>8. CASE UnreceiveLine(l, n)
  BY <1>1, <1>2, <1>4, <1>5, <1>6, <1>8 DEF UnreceiveLine
<1>9. QED
  BY <1>7, <1>8

LEMMA RecordStep ==
  ASSUME ~Faults, OneOwner, RecordInv, [OrdersNext]_allVars
  PROVE  /\ RecordInv'
         /\ B!Next \/ (\E l \in Lines : MovesStock(l)) \/ UNCHANGED B!vars
<1>1. OrdersInv' /\ TypeInv'
  BY OrdersInvStep DEF RecordInv, OrdersInv
<1>2. CASE CheckStep \/ UNCHANGED allVars
  <2>1. [Next]_vars
    BY <1>2 DEF CheckStep, allVars
  <2>2. IInv(FALSE)' /\ (B!Next \/ UNCHANGED B!vars)
    BY <2>1, IInvStep, BookStep DEF RecordInv
  <2>3. B!LastIsDone'
    BY <2>2, LastStaysDone DEF RecordInv, IInv, TypeInv
  <2>4. QED
    BY <1>1, <2>2, <2>3 DEF RecordInv
<1>3. ASSUME UNCHANGED <<checks, [s \in Sets |-> setState[s].last]>> PROVE B!LastIsDone'
  <2>1. \A s \in Sets : setState'[s].last = setState[s].last
    BY <1>3
  <2>2. QED
    BY <1>3, <2>1 DEF RecordInv, B!LastIsDone
<1>4. CASE UNCHANGED vars
  BY <1>1, <1>3, <1>4, RecordKept DEF RecordInv, vars, B!vars
<1>5. ASSUME NEW l \in Lines, NEW n \in Nat, ReceiveLine(l, n) \/ UnreceiveLine(l, n)
      PROVE  RecordInv' /\ (MovesStock(l) \/ UNCHANGED B!vars)
  <2>1. IInv(FALSE)' /\ (MovesStock(l) \/ UNCHANGED B!vars)
    BY <1>1, <1>5, DeliveryKeepsRecord, DeliveryMovesStock DEF RecordInv
  <2>2. B!LastIsDone'
    BY <1>3, <2>1 DEF MovesStock, B!vars
  <2>3. QED
    BY <1>1, <2>1, <2>2 DEF RecordInv
<1>6. CASE OrderStep
  BY <1>4, <1>5, <1>6, OrderStepShape DEF RecordInv
<1>7. QED
  BY <1>2, <1>6 DEF OrdersNext

LEMMA RecordInvInit == ASSUME OrdersInit PROVE RecordInv
<1>1. B!LastIsDone
  BY DEF OrdersInit, Init, B!LastIsDone
<1>2. QED
  BY <1>1, OrdersInvInit, IInvInit DEF RecordInv, OrdersInit

\* Where sessions keep to their own sets, no save or finish of a check fails and no set
\* is pushed to Part-DB, orders received, in part or in full, and taken back, leave every
\* set's state row saying what its last finished check lacks.
THEOREM DeliveriesKeepTheRecord ==
  ASSUME ~Faults, ~PartDB, OneOwner
  PROVE  OrdersSpec => []MissingMatchesLastCheck
<1>1. OrdersInit => RecordInv
  BY RecordInvInit
<1>2. RecordInv /\ [OrdersNext]_allVars => RecordInv'
  BY RecordStep
<1>3. RecordInv => MissingMatchesLastCheck
  BY DEF RecordInv, IInv
<1>4. QED
  BY <1>1, <1>2, <1>3, PTL DEF OrdersSpec

\* Where sessions keep to their own sets and no save or finish of a check fails, no
\* delivery makes a copy outdated, splits a job into two drafts or banks an extra again:
\* what is received goes past the copies, into checks that are finished.
THEOREM DeliveriesKeepTheChecks ==
  ASSUME ~Faults, OneOwner
  PROVE  OrdersSpec => [](CopiesAreUpToDate /\ OneDraftPerJob /\ BankedExactlyOnce /\ LinesBelongToARow)
<1>1. OrdersInit => RecordInv
  BY RecordInvInit
<1>2. RecordInv /\ [OrdersNext]_allVars => RecordInv'
  BY RecordStep
<1>3. RecordInv => CopiesAreUpToDate /\ OneDraftPerJob /\ BankedExactlyOnce /\ LinesBelongToARow
  BY DEF RecordInv, IInv
<1>4. QED
  BY <1>1, <1>2, <1>3, PTL DEF OrdersSpec

\* Where sessions keep to their own sets and no save or finish of a check fails, the
\* checks and the stock beside orders are a CheckBook whose stock moves, besides, by the
\* pieces of the lines that are booked.  (What may fail half-way here is the office's
\* work: an order whose lines are received one by one.)
THEOREM OrdersLeaveTheBook ==
  ASSUME ~Faults, OneOwner
  PROVE  OrdersSpec => OrdersKeepTheBook
<1>1. OrdersInit => RecordInv
  BY RecordInvInit
<1>2. RecordInv /\ [OrdersNext]_allVars => RecordInv'
  BY RecordStep
<1>3. OrdersInit => B!Init
  BY DEF OrdersInit, Init, B!Init
<1>4. RecordInv /\ [OrdersNext]_allVars => [B!Next \/ \E l \in Lines : MovesStock(l)]_(B!vars)
  BY RecordStep
<1>5. QED
  BY <1>1, <1>2, <1>3, <1>4, PTL DEF OrdersSpec, OrdersKeepTheBook

-----------------------------------------------------------------------------
(* Deliveries and the count of parts *)

\* The pieces a check or the stock gains of each part, for a line l that books n more.
Bounded(l, n) ==
  \A s \in Sets, p \in Parts :
    Gained(s, p) <= 0 \/ (p = orderLines[l].part /\ Gained(s, p) <= n)

\* Nothing is gained where neither the stock nor the lines of a check change.
LEMMA NothingGained ==
  ASSUME TypeInv, UNCHANGED <<loose, lines>>, NEW s \in Sets, NEW p \in Parts
  PROVE  Gained(s, p) <= 0
<1> DEFINE id == setState[s].last
<1>1. loose[p] \in Nat
  BY DEF TypeInv, TypeOK
<1>2. (id \in CheckIds /\ lines[id] # NoLines) => lines[id][p].have \in Nat
  BY LinesShape DEF Line
<1>3. QED
  BY <1>1, <1>2 DEF Gained

\* Every line of a check has as much as in old or less, but q up to n more.
AtMost(ls, old, q, n) ==
  \A p \in Parts : ls[p].have <= old[p].have \/ (p = q /\ ls[p].have - old[p].have <= n)

\* A delivery into a check: its lines gain at most what is booked.
LEMMA CheckGains ==
  ASSUME TypeInv, NEW t \in Sets, NEW id \in CheckIds, NEW ls, NEW l, NEW n \in Int,
         SetFilled(t, id, ls),
         lines[id] # NoLines => ls \in [Parts -> Line] /\ AtMost(ls, lines[id], orderLines[l].part, n)
  PROVE  Bounded(l, n)
<1>1. CASE lines[id] = NoLines
  BY <1>1, NothingGained DEF SetFilled, Bounded
<1>2. CASE lines[id] # NoLines
  <2>1. loose' = loose /\ lines' = [lines EXCEPT ![id] = ls]
    BY <1>2 DEF SetFilled
  <2> SUFFICES ASSUME NEW s \in Sets, NEW p \in Parts
               PROVE  Gained(s, p) <= 0 \/ (p = orderLines[l].part /\ Gained(s, p) <= n)
    BY DEF Bounded
  <2> DEFINE i == setState[s].last
  <2>2. loose[p] \in Nat /\ loose'[p] = loose[p]
    BY <2>1 DEF TypeInv, TypeOK
  <2>3. ls[p].have \in Nat /\ lines[id][p].have \in Nat
    BY <1>2, LinesShape DEF Line
  <2>4. CASE i = id
    <3>1. lines'[i] = ls
      BY <2>1, <2>4 DEF TypeInv, TypeOK
    <3>2. Gained(s, p) = ls[p].have - lines[id][p].have
      BY <1>2, <2>2, <2>3, <2>4, <3>1 DEF Gained
    <3>3. QED
      BY <1>2, <2>3, <3>2 DEF AtMost
  <2>5. CASE i # id
    <3>1. i \in CheckIds => lines'[i] = lines[i]
      BY <2>1, <2>5 DEF TypeInv, TypeOK
    <3>2. (i \in CheckIds /\ lines[i] # NoLines) => lines[i][p].have \in Nat
      BY LinesShape DEF Line
    <3>3. QED
      BY <2>2, <3>1, <3>2 DEF Gained
  <2>6. QED
    BY <2>4, <2>5
<1>3. QED
  BY <1>1, <1>2

\* A delivery into the stock.
LEMMA StockGains ==
  ASSUME TypeInv, NEW l, NEW n \in Int, NEW m \in Nat, orderLines[l].part \in Parts,
         StockFilled(orderLines[l].part, m),
         m <= loose[orderLines[l].part] \/ m - loose[orderLines[l].part] <= n
  PROVE  Bounded(l, n)
<1> SUFFICES ASSUME NEW s \in Sets, NEW p \in Parts
             PROVE  Gained(s, p) <= 0 \/ (p = orderLines[l].part /\ Gained(s, p) <= n)
  BY DEF Bounded
<1> DEFINE i == setState[s].last
           q == orderLines[l].part
<1>1. /\ lines' = lines /\ loose[p] \in Nat
      /\ loose'[p] = IF p = q THEN m ELSE loose[p]
  BY DEF StockFilled, TypeInv, TypeOK
<1>2. (i \in CheckIds /\ lines[i] # NoLines) => lines[i][p].have \in Nat
  BY LinesShape DEF Line
<1>3. Gained(s, p) = IF p = q THEN m - loose[q] ELSE 0
  BY <1>1, <1>2 DEF Gained
<1>4. QED
  BY <1>1, <1>3

\* Crediting a check fills one line by no more than the quantity, debiting it none.
LEMMA CreditGains ==
  ASSUME NEW s \in Sets, NEW ls \in [Parts -> Line], NEW q \in Parts, NEW n \in Nat, NEW p \in Parts
  PROVE  /\ Credit(s, ls, q, n)[p].have <= ls[p].have
              \/ (p = q /\ Credit(s, ls, q, n)[p].have - ls[p].have <= n)
         /\ Debit(ls, q, n)[p].have <= ls[p].have
<1>1. Need[s][q] \in Nat /\ ls[p] \in Line /\ ls[p].have \in Nat
  BY ConstantsAssumption DEF Line
<1>2. CASE p # q
  BY <1>1, <1>2 DEF Credit, Debit
<1>3. CASE p = q
  <2>1. Credit(s, ls, q, n)[p] = [ls[p] EXCEPT !.have = Least(Need[s][q], ls[p].have + n)]
    BY <1>3 DEF Credit
  <2>2. Debit(ls, q, n)[p] = [ls[p] EXCEPT !.have = IF ls[p].have >= n THEN ls[p].have - n ELSE 0]
    BY <1>3 DEF Debit
  <2>3. QED
    BY <1>1, <1>3, <2>1, <2>2 DEF Least, Line
<1>4. QED
  BY <1>2, <1>3

\* Receiving a line: what is gained was booked in the same step.
LEMMA ReceiveGains ==
  ASSUME OrdersInv, NEW l \in Lines, NEW asked \in Nat, ReceiveLine(l, asked)
  PROVE  Bounded(l, orderLines'[l].received - orderLines[l].received)
<1> DEFINE ln == orderLines[l]
           qty == Least(asked, Outstanding(l))
<1>1. /\ ln.part \in Parts /\ ln.qty \in Nat /\ ln.received \in Nat /\ ln.received <= ln.qty
      /\ Outstanding(l) = ln.qty - ln.received /\ TypeInv
  BY LineShape DEF OrdersInv, Outstanding
<1>2. qty \in Nat /\ ln.received + qty <= ln.qty
  BY <1>1 DEF Least
<1>3. CASE qty <= 0
  <2>1. UNCHANGED <<vars, orderLines>>
    BY <1>3 DEF ReceiveLine
  <2>2. QED
    BY <1>1, <2>1, NothingGained DEF vars, Bounded
<1>4. CASE qty > 0
  <2>1. Booked(l, ln.received + qty)
    BY <1>2, <1>4 DEF ReceiveLine
  <2>2. orderLines'[l].received - ln.received = qty
    BY <1>1, <1>2, <2>1, BookedType DEF OrdersInv
  <2>3. CASE CheckFor(l) > 0
    <3> DEFINE old == lines[CheckFor(l)]
               ls == Credit(ln.set, old, ln.part, qty)
    <3>1. SetFilled(ln.set, CheckFor(l), ls)
      BY <1>2, <1>4, <2>3 DEF ReceiveLine
    <3>2. ln.set \in Sets /\ CheckFor(l) \in CheckIds
      BY <2>3, CheckForShape
    <3> HIDE DEF qty
    <3>3. ASSUME old # NoLines
          PROVE  /\ ls \in [Parts -> Line]
                 /\ AtMost(ls, old, ln.part, qty)
      <4>1. old \in [Parts -> Line]
        BY <1>1, <3>2, <3>3, LinesShape
      <4> HIDE DEF old
      <4>2. ls \in [Parts -> Line]
        BY <1>1, <1>2, <3>2, <4>1, CreditType
      <4>3. \A p \in Parts : ls[p].have <= old[p].have \/ (p = ln.part /\ ls[p].have - old[p].have <= qty)
        BY <1>1, <1>2, <3>2, <4>1, CreditGains, Zenon
      <4>4. QED
        BY <4>2, <4>3 DEF AtMost
    <3> HIDE DEF ls
    <3>4. Bounded(l, qty)
      <4>1. TypeInv /\ qty \in Int /\ (old # NoLines => ls \in [Parts -> Line] /\ AtMost(ls, old, ln.part, qty))
        BY <1>1, <1>2, <3>3
      <4>2. QED
        BY <3>1, <3>2, <4>1, CheckGains, Zenon
    <3>5. QED
      BY <2>2, <3>4
  <2>4. CASE ~(CheckFor(l) > 0)
    <3>1. StockFilled(ln.part, loose[ln.part] + qty)
      BY <1>2, <1>4, <2>4 DEF ReceiveLine
    <3>2. loose[ln.part] \in Nat /\ loose[ln.part] + qty \in Nat
      BY <1>1, <1>2 DEF TypeInv, TypeOK
    <3> HIDE DEF qty
    <3>3. Bounded(l, qty)
      BY <1>1, <1>2, <3>1, <3>2, StockGains
    <3>4. QED
      BY <2>2, <3>3
  <2>5. QED
    BY <2>3, <2>4
<1>5. QED
  BY <1>2, <1>3, <1>4

\* Taking a line back: nothing is gained.
LEMMA UnreceiveGains ==
  ASSUME OrdersInv, NEW l \in Lines, NEW asked \in Nat, UnreceiveLine(l, asked)
  PROVE  Bounded(l, 0)
<1> DEFINE ln == orderLines[l]
           qty == Least(asked, ln.received)
<1>1. ln.part \in Parts /\ ln.qty \in Nat /\ ln.received \in Nat /\ TypeInv
  BY LineShape DEF OrdersInv
<1>2. qty \in Nat
  BY <1>1 DEF Least
<1>3. CASE UNCHANGED vars
  BY <1>1, <1>3, NothingGained DEF vars, Bounded
<1>4. CASE qty > 0 /\ CheckFor(l) > 0
  <2> DEFINE ls == Debit(lines[CheckFor(l)], ln.part, qty)
  <2>1. SetFilled(ln.set, CheckFor(l), ls)
    BY <1>2, <1>4 DEF UnreceiveLine
  <2>2. ln.set \in Sets /\ CheckFor(l) \in CheckIds
    BY <1>4, CheckForShape
  <2>3. lines[CheckFor(l)] # NoLines =>
          /\ ls \in [Parts -> Line]
          /\ AtMost(ls, lines[CheckFor(l)], ln.part, 0)
    BY <1>1, <1>2, <2>2, LinesShape, DebitType, CreditGains DEF AtMost
  <2> HIDE DEF ls, qty
  <2>4. QED
    <3>1. TypeInv /\ 0 \in Int
      BY <1>1
    <3>2. QED
      BY <2>1, <2>2, <2>3, <3>1, CheckGains, Zenon
<1>5. CASE qty > 0 /\ ~(CheckFor(l) > 0) /\ ln.set = NoSet
  <2> DEFINE n == IF loose[ln.part] >= qty THEN loose[ln.part] - qty ELSE 0
  <2>1. StockFilled(ln.part, n)
    BY <1>2, <1>5 DEF UnreceiveLine
  <2>2. n \in Nat /\ n <= loose[ln.part]
    BY <1>1, <1>2 DEF TypeInv, TypeOK
  <2> HIDE DEF n, qty
  <2>3. QED
    BY <1>1, <2>1, <2>2, StockGains
<1>6. QED
  BY <1>2, <1>3, <1>4, <1>5 DEF UnreceiveLine

\* Parts come from what was delivered, once: booking a line adds no more of its part
\* than it says arrived, of other parts nothing, and taking back adds nothing.
THEOREM PartsComeFromDeliveries == OrdersSpec => DeliveriesMakeNoParts
<1> DEFINE Booking ==
             orderLines' # orderLines =>
               \A s \in Sets, p \in Parts :
                 \/ Gained(s, p) <= 0
                 \/ \E l \in Lines :
                      /\ orderLines[l].part = p
                      /\ Gained(s, p) <= orderLines'[l].received - orderLines[l].received
<1>1. OrdersInit => OrdersInv
  BY OrdersInvInit
<1>2. OrdersInv /\ [OrdersNext]_allVars => OrdersInv'
  BY OrdersInvStep
<1>3. OrdersInv /\ [OrdersNext]_allVars => [Booking]_allVars
  <2> SUFFICES ASSUME OrdersInv, OrdersNext PROVE Booking
    BY Zenon
  <2>1. CASE UNCHANGED orderLines
    BY <2>1
  <2>2. CASE UNCHANGED vars
    BY <2>2, NothingGained DEF vars, OrdersInv
  <2>3. ASSUME NEW l \in Lines, NEW n \in Nat, ReceiveLine(l, n) PROVE Booking
    BY <2>3, ReceiveGains DEF Bounded
  <2>4. ASSUME NEW l \in 1 .. MaxLines, NEW n \in 1 .. MaxQty, Receive(l, n) PROVE Booking
    BY <2>3, <2>4, OrdersAssumption DEF Receive
  <2>5. ASSUME NEW l \in 1 .. MaxLines, NEW n \in 1 .. MaxQty, Unreceive(l, n) PROVE Booking
    <3>1. l \in Lines /\ n \in Nat /\ UnreceiveLine(l, n)
      BY <2>5, OrdersAssumption DEF Unreceive
    <3>2. Bounded(l, 0)
      BY <3>1, UnreceiveGains
    <3>3. QED
      BY <3>2 DEF Bounded
  <2>6. ASSUME NEW f \in Offices, ReceiveNext(f) PROVE Booking
    <3>1. office[f].step = "receiving" /\ Receiving(office[f])
      BY <2>6, OfficeShape DEF ReceiveNext, OrdersInv
    <3>2. PICK l \in DOMAIN office[f].left : ReceiveLine(l, office[f].left[l])
      BY <2>6 DEF ReceiveNext
    <3>3. l \in Lines /\ office[f].left[l] \in Nat
      BY <3>1, <3>2 DEF OrdersInv, LeftAreLines, Receiving
    <3>4. QED
      BY <2>3, <3>2, <3>3
  <2> HIDE DEF Booking
  <2>7. CASE CheckStep
    BY <2>1, <2>7 DEF CheckStep, orderVars
  <2>8. CASE OrderStep
    BY <2>1, <2>2, <2>4, <2>5, <2>6, <2>8
       DEF OrderStep, OfficeStep, NewOrder, AddOrderLine, SetStatus, OrderFromMissing, CountOnOrder,
           AddMissing, StopWork, EditOrder, SaveOrder, BeginReceiving, MarkReceived
  <2>9. QED
    BY <2>7, <2>8 DEF OrdersNext
<1>4. QED
  BY <1>1, <1>2, <1>3, PTL DEF OrdersSpec, DeliveriesMakeNoParts
=============================================================================
