------------------------------ MODULE CheckBook ------------------------------
(***************************************************************************)
(* What parts checks promise to somebody who sees no session, no private   *)
(* copy and no line: a book of checks beside a stock of loose parts.  A    *)
(* set has one unfinished check of a kind at a time; it is given up or     *)
(* finished, and a finished check is final.  The stock gains parts when a  *)
(* check is finished, in the same step, and at no other time.  Module      *)
(* SetChecks implements it where sessions keep to their own sets and no    *)
(* write fails.                                                            *)
(***************************************************************************)
EXTENDS Integers

CONSTANTS
  Ids,      \* the numbers a check may get
  Sets,
  Kinds,
  Parts,
  NoCheck,  \* nothing entered under a number
  Opening   \* the stock before the first check

VARIABLES
  book,     \* id -> NoCheck or the check entered
  stock,    \* part -> loose pieces
  last      \* set -> the check finished last, 0 if none was

vars == <<book, stock, last>>

Unfinished(s, k) ==
  {id \in Ids : book[id] # NoCheck /\ book[id].status = "draft"
                                   /\ book[id].set = s /\ book[id].kind = k}

Init ==
  /\ book = [id \in Ids |-> NoCheck]
  /\ stock = Opening
  /\ last = [s \in Sets |-> 0]

Enter(id, s, k, status) ==
  book' = [book EXCEPT ![id] = [status |-> status, set |-> s, kind |-> k]]

\* The number of a new check is above every number in the book, and its job has
\* no unfinished check.
New(id, s, k) ==
  /\ \A other \in Ids : book[other] # NoCheck => other < id
  /\ Unfinished(s, k) = {}

Draft(id, s, k) ==
  /\ New(id, s, k)
  /\ Enter(id, s, k, "draft")
  /\ UNCHANGED <<stock, last>>

\* The surplus counted goes into the stock.
Finish(id, s, k) ==
  /\ New(id, s, k) \/ id \in Unfinished(s, k)
  /\ Enter(id, s, k, "done")
  /\ \A p \in Parts : stock'[p] >= stock[p]
  /\ last' = [last EXCEPT ![s] = id]

GiveUp(id) ==
  /\ book[id] # NoCheck /\ book[id].status = "draft"
  /\ book' = [book EXCEPT ![id] = NoCheck]
  /\ UNCHANGED <<stock, last>>

\* Spares are used, for a check or for a set.
Use(p, n) ==
  /\ n <= stock[p]
  /\ stock' = [stock EXCEPT ![p] = @ - n]
  /\ UNCHANGED <<book, last>>

Next ==
  \/ \E id \in Ids, s \in Sets, k \in Kinds : Draft(id, s, k) \/ Finish(id, s, k)
  \/ \E id \in Ids : GiveUp(id)
  \/ \E p \in Parts : \E n \in 1 .. stock[p] : Use(p, n)

Spec == Init /\ [][Next]_vars

\* What a set's record refers to is a finished check of that set, which therefore
\* nobody gives up or reopens.
LastIsDone ==
  \A s \in Sets : last[s] # 0 =>
    last[s] \in Ids /\ book[last[s]] # NoCheck
                    /\ book[last[s]].status = "done" /\ book[last[s]].set = s
=============================================================================
