-------------------------------- MODULE Orders --------------------------------
(***************************************************************************)
(* Orders for missing parts, beside the checks and the stock that their    *)
(* deliveries fill (internal/lego/orders.go, driven by uiapp/workshop.go,  *)
(* mobileapi, dashboardapi and cmd/wms/lego_sets.go).                      *)
(*                                                                         *)
(* Receiving or taking back a quantity of one line is a transaction.       *)
(* Marking an order received, ordering what a set is short of and editing  *)
(* an order's header are several: whoever does one holds what it has read, *)
(* and checks, phones and other offices go on in between.  Shelves, prices *)
(* and the spend report read only.                                         *)
(***************************************************************************)
EXTENDS SetChecks, Sequences

CONSTANTS
  Offices,    \* whoever manages orders: a screen, the dashboard, the CLI
  NoSet,      \* set_num '' of a line that is for no set
  MaxOrders,  \* bound: orders ever made
  MaxLines,   \* bound: order lines ever added
  MaxQty      \* bound: pieces on one line

OrderIds == 1 .. MaxOrders

ASSUME OrdersAssumption ==
  /\ NoSet \notin Sets
  /\ MaxOrders \in Nat /\ MaxLines \in Nat /\ MaxQty \in Nat

Statuses == {"wanted", "ordered", "shipped", "received", "cancelled"}
OrderLine == [order : OrderIds, set : Sets \cup {NoSet}, part : Parts, qty : Nat, received : Nat]

\* What an office has read: the lines an order still waits for, what a set is
\* short of, the one part of it that is ordered next, an order's header.
Away == [step |-> "away"]
Receiving(h) ==
  /\ h.step = "receiving"
  /\ h = [step |-> h.step, order |-> h.order, left |-> h.left]
  /\ h.order \in OrderIds
  /\ DOMAIN h.left \subseteq 1 .. MaxLines /\ h.left \in [DOMAIN h.left -> Nat]
Shorting(h) ==
  /\ h.step \in {"shorting", "adding"}
  /\ h = [step |-> h.step, order |-> h.order, set |-> h.set, part |-> h.part, qty |-> h.qty,
          lacks |-> h.lacks]
  /\ h.order \in OrderIds /\ h.set \in Sets /\ h.part \in Parts /\ h.qty \in Nat
  /\ DOMAIN h.lacks \subseteq Parts /\ h.lacks \in [DOMAIN h.lacks -> Nat]
Editing == [step : {"editing"}, order : OrderIds, status : Statuses]

VARIABLES
  orders,      \* the orders table: id -> status, "none" where there is no row
  orderLines,  \* the order_lines table, in the order of its ids
  office       \* what each office is in the middle of

orderVars == <<orders, orderLines, office>>
allVars == <<vars, orderVars>>

-----------------------------------------------------------------------------
(* Queries *)

Lines == 1 .. Len(orderLines)
Outstanding(l) == orderLines[l].qty - orderLines[l].received
LinesOf(o) == {l \in Lines : orderLines[l].order = o /\ Outstanding(l) > 0}

\* Lines of orders that are neither received nor cancelled.
OpenLinesFor(s, p) ==
  {l \in Lines : /\ orderLines[l].set = s /\ orderLines[l].part = p
                 /\ orders[orderLines[l].order] \in {"wanted", "ordered", "shipped"}}

\* onOrder
OnOrder(s, p) == MapThenSumSet(Outstanding, OpenLinesFor(s, p))

\* last_check_id of the line's set; 0 for a set without a check and for no set.
CheckFor(l) == IF orderLines[l].set = NoSet THEN 0 ELSE setState[orderLines[l].set].last

IsFreshOrder(o) == orders[o] = "none" /\ \A other \in OrderIds : other < o => orders[other] # "none"

-----------------------------------------------------------------------------
OrdersInit ==
  /\ Init
  /\ orders = [o \in OrderIds |-> "none"]
  /\ orderLines = << >>
  /\ office = [f \in Offices |-> Away]

-----------------------------------------------------------------------------
(* Making orders *)

\* SaveOrder without an id.
NewOrder(o) ==
  /\ IsFreshOrder(o)
  /\ orders' = [orders EXCEPT ![o] = "wanted"]
  /\ UNCHANGED <<vars, orderLines, office>>

NewLine(o, s, p, n) == [order |-> o, set |-> s, part |-> p, qty |-> n, received |-> 0]

\* AddOrderLine: to any order, whatever its status, and nothing says the order exists.
AddOrderLine(o, s, p, n) ==
  /\ Len(orderLines) < MaxLines
  /\ orderLines' = Append(orderLines, NewLine(o, s, p, n))
  /\ UNCHANGED <<vars, orders, office>>

\* OrderFromMissing: the set's newest finished check is read, the order saved ...
OrderFromMissing(f, s) ==
  /\ office[f] = Away
  /\ \E id \in CheckIds, o \in OrderIds, p \in Parts :
       /\ IsNewest(id, DoneChecks(s))
       /\ IsFreshOrder(o)
       /\ orders' = [orders EXCEPT ![o] = "wanted"]
       /\ office' = [office EXCEPT ![f] =
                       [step |-> "shorting", order |-> o, set |-> s, part |-> p, qty |-> 0,
                        lacks |-> Missing(s, lines[id])]]
  /\ UNCHANGED <<vars, orderLines>>

\* ... and then, for one line of that check after the other, what is already on
\* order is subtracted, as it is by now, ...
CountOnOrder(f) ==
  LET h == office[f]
  IN /\ h.step = "shorting"
     /\ \E p \in DOMAIN h.lacks :
          LET short == h.lacks[p] - OnOrder(h.set, p)
              rest == [q \in DOMAIN h.lacks \ {p} |-> h.lacks[q]]
          IN \/ /\ short <= 0
                /\ office' = [office EXCEPT ![f].lacks = rest]
             \/ \E n \in 1 .. MaxQty :
                  /\ n = short
                  /\ office' = [office EXCEPT ![f] =
                                  [step |-> "adding", order |-> h.order, set |-> h.set, part |-> p,
                                   qty |-> n, lacks |-> rest]]
     /\ UNCHANGED <<vars, orders, orderLines>>

\* ... and the rest added as a line.
AddMissing(f) ==
  LET h == office[f]
  IN /\ h.step = "adding"
     /\ Len(orderLines) < MaxLines
     /\ orderLines' = Append(orderLines, NewLine(h.order, h.set, h.part, h.qty))
     /\ office' = [office EXCEPT ![f].step = "shorting"]
     /\ UNCHANGED <<vars, orders>>

\* The last part is done; or a statement of the office failed, or its process
\* was stopped, with the rest undone.
StopWork(f) ==
  /\ office[f] # Away
  /\ office' = [office EXCEPT ![f] = Away]
  /\ UNCHANGED <<vars, orders, orderLines>>

\* The edit form: GetOrder, then SaveOrder with every column as it was read,
\* the status too.
EditOrder(f, o) ==
  /\ office[f] = Away
  /\ orders[o] # "none"
  /\ office' = [office EXCEPT ![f] = [step |-> "editing", order |-> o, status |-> orders[o]]]
  /\ UNCHANGED <<vars, orders, orderLines>>
SaveOrder(f) ==
  /\ office[f].step = "editing"
  /\ orders' = [orders EXCEPT ![office[f].order] = office[f].status]
  /\ office' = [office EXCEPT ![f] = Away]
  /\ UNCHANGED <<vars, orderLines>>

-----------------------------------------------------------------------------
(* Deliveries *)

\* A set's last check has these lines now, and its missing count follows.  (If
\* its lines are gone the UPDATE finds none, and nothing is missing.)
SetFilled(s, id, ls) ==
  /\ IF lines[id] = NoLines
     THEN /\ setState' = [setState EXCEPT ![s].missing = [p \in Parts |-> 0]]
          /\ UNCHANGED lines
     ELSE /\ setState' = [setState EXCEPT ![s].missing = Shortfall(s, ls)]
          /\ lines' = [lines EXCEPT ![id] = ls]
  /\ UNCHANGED <<checks, nextId, loose, minQty, origins, copy, banked>>

StockFilled(p, n) ==
  /\ n <= MaxLoose
  /\ loose' = [loose EXCEPT ![p] = n]
  /\ UNCHANGED <<checks, lines, nextId, setState, minQty, origins, copy, banked>>

Booked(l, n) == orderLines' = [orderLines EXCEPT ![l].received = n]

\* Mutants: the clamp looks at what was ordered, not at what is outstanding; a
\* delivery for a checked set leaves its missing count, or goes into the stock too.
ReceiveLineTwice(l, asked) ==
  LET ln == orderLines[l]
      qty == Least(asked, ln.qty)
  IN IF qty <= 0 THEN UNCHANGED <<vars, orderLines>>
     ELSE /\ Booked(l, ln.received + qty)
          /\ IF CheckFor(l) > 0
             THEN SetFilled(ln.set, CheckFor(l), Credit(ln.set, lines[CheckFor(l)], ln.part, qty))
             ELSE StockFilled(ln.part, loose[ln.part] + qty)
ReceiveLineUncounted(l, asked) ==
  LET ln == orderLines[l]
      qty == Least(asked, Outstanding(l))
  IN IF qty <= 0 THEN UNCHANGED <<vars, orderLines>>
     ELSE /\ Booked(l, ln.received + qty)
          /\ IF CheckFor(l) > 0
             THEN /\ lines' = [lines EXCEPT ![CheckFor(l)] = Credit(ln.set, @, ln.part, qty)]
                  /\ UNCHANGED <<checks, nextId, setState, loose, minQty, origins, copy, banked>>
             ELSE StockFilled(ln.part, loose[ln.part] + qty)
ReceiveLineBoth(l, asked) ==
  LET ln == orderLines[l]
      qty == Least(asked, Outstanding(l))
      ls == IF CheckFor(l) > 0 THEN Credit(ln.set, lines[CheckFor(l)], ln.part, qty) ELSE NoLines
  IN IF qty <= 0 THEN UNCHANGED <<vars, orderLines>>
     ELSE /\ Booked(l, ln.received + qty)
          /\ loose[ln.part] + qty <= MaxLoose
          /\ loose' = [loose EXCEPT ![ln.part] = @ + qty]
          /\ IF CheckFor(l) > 0
             THEN /\ lines' = [lines EXCEPT ![CheckFor(l)] = ls]
                  /\ setState' = [setState EXCEPT ![ln.set].missing = Shortfall(ln.set, ls)]
             ELSE UNCHANGED <<lines, setState>>
          /\ UNCHANGED <<checks, nextId, minQty, origins, copy, banked>>

\* ReceiveLine: no more than is outstanding; into the set's last check, up to
\* what the set needs (a surplus is gone), or else into the loose parts.
ReceiveLine(l, asked) ==
  LET ln == orderLines[l]
      qty == Least(asked, Outstanding(l))
  IN IF qty <= 0 THEN UNCHANGED <<vars, orderLines>>
     ELSE /\ Booked(l, ln.received + qty)
          /\ IF CheckFor(l) > 0
             THEN SetFilled(ln.set, CheckFor(l), Credit(ln.set, lines[CheckFor(l)], ln.part, qty))
             ELSE StockFilled(ln.part, loose[ln.part] + qty)

Debit(ls, p, qty) == [ls EXCEPT ![p].have = IF @ >= qty THEN @ - qty ELSE 0]

\* UnreceiveLine: no more than was received; from the set's last check or, for a
\* line with no set, from the loose parts.
UnreceiveLine(l, asked) ==
  LET ln == orderLines[l]
      qty == Least(asked, ln.received)
  IN IF qty <= 0 THEN UNCHANGED <<vars, orderLines>>
     ELSE /\ Booked(l, ln.received - qty)
          /\ IF CheckFor(l) > 0
             THEN SetFilled(ln.set, CheckFor(l), Debit(lines[CheckFor(l)], ln.part, qty))
             ELSE IF ln.set = NoSet
             THEN StockFilled(ln.part, IF loose[ln.part] >= qty THEN loose[ln.part] - qty ELSE 0)
             ELSE UNCHANGED vars

\* A partial delivery on a screen, a phone's confirm.
Receive(l, n) ==
  /\ l \in Lines
  /\ ReceiveLine(l, n)
  /\ UNCHANGED <<orders, office>>

\* A phone's undo.
Unreceive(l, n) ==
  /\ l \in Lines
  /\ UnreceiveLine(l, n)
  /\ UNCHANGED <<orders, office>>

-----------------------------------------------------------------------------
(* SetOrderStatus *)

\* From any status to any other.
SetStatus(o, status) ==
  /\ orders[o] # "none"
  /\ orders' = [orders EXCEPT ![o] = status]
  /\ UNCHANGED <<vars, orderLines, office>>

\* "received": the outstanding lines are read, ...
BeginReceiving(f, o) ==
  /\ office[f] = Away
  /\ orders[o] # "none"
  /\ office' = [office EXCEPT ![f] = [step |-> "receiving", order |-> o,
                                      left |-> [l \in LinesOf(o) |-> Outstanding(l)]]]
  /\ UNCHANGED <<vars, orders, orderLines>>

\* ... received one after the other, each in its own transaction, ...
ReceiveNext(f) ==
  LET left == office[f].left
  IN /\ office[f].step = "receiving"
     /\ \E l \in DOMAIN left :
          /\ \A other \in DOMAIN left : l <= other
          /\ ReceiveLine(l, left[l])
          /\ office' = [office EXCEPT ![f].left = [other \in DOMAIN left \ {l} |-> left[other]]]
     /\ UNCHANGED orders

\* ... and the status set.  (An office that stops before leaves the status, and
\* the lines it has received.)
MarkReceived(f) ==
  /\ office[f].step = "receiving" /\ DOMAIN office[f].left = {}
  /\ orders' = [orders EXCEPT ![office[f].order] = "received"]
  /\ office' = [office EXCEPT ![f] = Away]
  /\ UNCHANGED <<vars, orderLines>>

-----------------------------------------------------------------------------
OfficeStep(f) ==
  \/ \E s \in Sets : OrderFromMissing(f, s)
  \/ CountOnOrder(f)
  \/ AddMissing(f)
  \/ StopWork(f)
  \/ \E o \in OrderIds : EditOrder(f, o)
  \/ SaveOrder(f)
  \/ \E o \in OrderIds : BeginReceiving(f, o)
  \/ ReceiveNext(f)
  \/ MarkReceived(f)

CheckStep == Next /\ UNCHANGED orderVars

OrderStep ==
  \/ \E o \in OrderIds : NewOrder(o)
  \/ \E o \in OrderIds, s \in Sets \cup {NoSet}, p \in Parts, n \in 1 .. MaxQty :
       AddOrderLine(o, s, p, n)
  \/ \E o \in OrderIds, status \in Statuses \ {"received"} : SetStatus(o, status)
  \/ \E l \in 1 .. MaxLines, n \in 1 .. MaxQty : Receive(l, n)
  \/ \E l \in 1 .. MaxLines, n \in 1 .. MaxQty : Unreceive(l, n)
  \/ \E f \in Offices : OfficeStep(f)

OrdersNext == CheckStep \/ OrderStep

OrdersSpec == OrdersInit /\ [][OrdersNext]_allVars

-----------------------------------------------------------------------------
(* Properties *)

\* The tables are well formed: in particular no line is ever received beyond what
\* was ordered, however often an order is received, in part, in full or again
\* after a failure.
OrdersOK ==
  /\ orders \in [OrderIds -> Statuses \cup {"none"}]
  /\ orderLines \in Seq(OrderLine)
  /\ Len(orderLines) <= MaxLines
  /\ \A l \in Lines : orderLines[l].received <= orderLines[l].qty
  /\ office = [f \in Offices |-> office[f]]
  /\ \A f \in Offices : Receiving(office[f]) \/ Shorting(office[f]) \/ office[f] \in Editing \cup {Away}

\* Deliveries make no parts: what the stock and a set's last check gain of a part
\* when a line is booked is no more than that line says has arrived of it, and
\* taking a delivery back never adds anything.
Gained(s, p) ==
  LET id == setState[s].last
  IN (loose'[p] - loose[p])
       + (IF id \in CheckIds /\ lines[id] # NoLines THEN lines'[id][p].have - lines[id][p].have ELSE 0)
DeliveriesMakeNoParts ==
  [][orderLines' # orderLines =>
       \A s \in Sets, p \in Parts :
         \/ Gained(s, p) <= 0
         \/ \E l \in Lines :
              /\ orderLines[l].part = p
              /\ Gained(s, p) <= orderLines'[l].received - orderLines[l].received]_allVars

\* A line that is booked or taken back moves that many of its pieces into the stock
\* or out of it, as far as there are any, and does not touch the book of checks.
MovesStock(l) ==
  LET p == orderLines[l].part
      n == loose[p] + orderLines'[l].received - orderLines[l].received
  IN /\ loose' = [loose EXCEPT ![p] = IF n >= 0 THEN n ELSE 0]
     /\ UNCHANGED <<checks, [s \in Sets |-> setState[s].last]>>

\* Beside orders, checks and stock are a CheckBook still, but for what deliveries
\* move: they never reopen, finish or delete a check, and nothing else that an office
\* does shows in the book or the stock.
OrdersKeepTheBook == B!Init /\ [][B!Next \/ \E l \in Lines : MovesStock(l)]_(B!vars)

-----------------------------------------------------------------------------
(* Statements of the code's comments that the code does not keep *)

\* "UnreceiveLine is ReceiveLine's inverse": what a line gives back leaves the
\* place that receiving it fills, as far as there is any left.
Held(l) ==
  IF CheckFor(l) > 0 THEN lines[CheckFor(l)][orderLines[l].part].have ELSE loose[orderLines[l].part]
UnreceivingTakesBack ==
  [][\A l \in Lines :
       LET back == orderLines[l].received - orderLines'[l].received
       IN back > 0 => Held(l)' = IF Held(l) >= back THEN Held(l) - back ELSE 0]_allVars
=============================================================================
