--------------------------------- MODULE Jobs ---------------------------------
(***************************************************************************)
(* What the job queue promises, whatever devices people work on and        *)
(* whatever those devices remember: a job waits in the queue, for anybody  *)
(* or for one person, is in one person's hands, or is done, and it is done *)
(* only by the person who had it in hand and completed what it asks for.   *)
(* Module Tickets implements it.                                           *)
(***************************************************************************)
CONSTANTS
  Ids,      \* the jobs that may ever be posted
  People,   \* those who may take them
  Targets,  \* what a job asks for
  Nobody,   \* a job that waits for anybody
  NotPosted \* a job that does not exist yet

VARIABLES
  jobs,     \* id -> NotPosted or its record
  worked    \* worked[t]: the people who have completed t

vars == <<jobs, worked>>

InHandOf(p, id) == jobs[id].status = "claimed" /\ jobs[id].owner = p

Init ==
  /\ jobs = [id \in Ids |-> NotPosted]
  /\ worked = [t \in Targets |-> {}]

\* A job comes into being in the queue.
Post(id, target, for) ==
  /\ jobs[id] = NotPosted
  /\ jobs' = [jobs EXCEPT ![id] = [status |-> "queued", target |-> target, owner |-> for]]
  /\ UNCHANGED worked

\* A waiting job is taken by somebody it is not kept from.
Take(id, p) ==
  /\ jobs[id] # NotPosted
  /\ jobs[id].status = "queued" /\ jobs[id].owner \in {Nobody, p}
  /\ jobs' = [jobs EXCEPT ![id] = [@ EXCEPT !.status = "claimed", !.owner = p]]
  /\ UNCHANGED worked

\* A job in hand goes back to the queue: given up, or taken away.
Return(id, for) ==
  /\ jobs[id] # NotPosted
  /\ jobs[id].status = "claimed"
  /\ jobs' = [jobs EXCEPT ![id] = [@ EXCEPT !.status = "queued", !.owner = for]]
  /\ UNCHANGED worked

Complete(t, p) ==
  /\ worked' = [worked EXCEPT ![t] = @ \cup {p}]
  /\ UNCHANGED jobs

\* All the jobs a person has in hand for what he completed are done at once.
Finish(t, p) ==
  /\ p \in worked[t]
  /\ jobs' = [id \in Ids |->
                IF InHandOf(p, id) /\ jobs[id].target = t
                THEN [jobs[id] EXCEPT !.status = "done"] ELSE jobs[id]]
  /\ UNCHANGED worked

Next ==
  \/ \E id \in Ids, t \in Targets, for \in People \cup {Nobody} : Post(id, t, for)
  \/ \E id \in Ids, p \in People : Take(id, p)
  \/ \E id \in Ids, for \in People \cup {Nobody} : Return(id, for)
  \/ \E t \in Targets, p \in People : Complete(t, p)
  \/ \E t \in Targets, p \in People : Finish(t, p)

Spec == Init /\ [][Next]_vars
=============================================================================
