----------------------------- MODULE Gateway_proofs -----------------------------
(***************************************************************************)
(* Machine-checked proofs about Gateway: every child has one holder, a      *)
(* session in use or in its grace period survives, a connection ends for a  *)
(* reason of its own, and an address holds no more sessions than it may,    *)
(* for any number of connections and addresses.                             *)
(***************************************************************************)
EXTENDS Gateway, FiniteSetTheorems, TLAPS

Early == {"new", "admitted", "starting"}
Serving == {"attach", "serving", "park", "kill"}
Late == {"release", "gone"}

Shape ==
  /\ step \in [Conns -> Early \cup Serving \cup Late]
  /\ sess \in [Conns -> Conns \cup {None}]
  /\ child \in [Conns -> {"none", "up", "ended", "killed"}]
  /\ parked \in [Hosts -> Conns \cup {None}]
  /\ timer \in [Conns -> {"off", "running", "fired", "killing"}]

\* A connection that has not got that far has no session and has started none.
EarlyOnesHaveNothing ==
  \A c \in Conns : step[c] \in Early =>
    sess[c] = None /\ child[c] # "up" /\ \A d \in Conns : sess[d] # c

ServingOnesHaveASession == \A c \in Conns : step[c] \in Serving => sess[c] \in Conns

\* What is parked at an address was parked from there, by a handler that has ended.
ParkedAreLate ==
  \A h \in Hosts : parked[h] # None =>
    /\ Host[parked[h]] = h /\ sess[parked[h]] \in Conns
    /\ step[parked[h]] \in Late /\ timer[parked[h]] # "killing"

KillingAreLate ==
  \A p \in Conns : timer[p] = "killing" => step[p] \in Late /\ sess[p] \in Conns

\* EveryChildHasOneHolder says nothing of how a holder comes to be one: these do.
HInv == /\ Shape /\ EarlyOnesHaveNothing /\ ServingOnesHaveASession /\ ParkedAreLate
        /\ KillingAreLate /\ EveryChildHasOneHolder

-----------------------------------------------------------------------------
LEMMA Setting == Host \in [Conns -> Hosts] /\ None \notin Conns
BY GatewayAssumption

LEMMA Apart ==
  /\ \A x : ~(x \in Early /\ x \in Serving) /\ ~(x \in Early /\ x \in Late) /\ ~(x \in Serving /\ x \in Late)
BY DEF Early, Serving, Late

\* Where none of these change, the invariant stays.
LEMMA HKept ==
  ASSUME HInv, UNCHANGED <<step, sess, child, parked, timer>> PROVE HInv'
BY DEF HInv, Shape, EarlyOnesHaveNothing, ServingOnesHaveASession, ParkedAreLate, KillingAreLate,
       EveryChildHasOneHolder, Has, Serves

\* A handler that goes on within the early, the serving or the late steps, or gives up
\* early, changes no holder.
LEMMA StepOnly ==
  ASSUME HInv, NEW c \in Conns, NEW t, UNCHANGED <<sess, child, parked, timer>>,
         step' = [step EXCEPT ![c] = t],
         \/ step[c] \in Early /\ t \in Early \cup Late
         \/ step[c] \in Serving /\ t \in Serving
         \/ step[c] \in Late /\ t \in Late
  PROVE  HInv'
<1>1. /\ step \in [Conns -> Early \cup Serving \cup Late] /\ t \in Early \cup Serving \cup Late
      /\ \A d \in Conns : step'[d] = IF d = c THEN t ELSE step[d]
  BY DEF HInv, Shape
<1>2. Shape'
  BY <1>1 DEF HInv, Shape
<1>3. EarlyOnesHaveNothing'
  BY <1>1, Apart DEF HInv, EarlyOnesHaveNothing
<1>4. ServingOnesHaveASession'
  BY <1>1, Apart DEF HInv, ServingOnesHaveASession
<1>5. ParkedAreLate' /\ KillingAreLate'
  BY <1>1, Apart DEF HInv, Shape, ParkedAreLate, KillingAreLate
<1>6. \A d \in Conns : Serves(d)' <=> Serves(d)
  BY <1>1, Apart DEF Serves, Serving
<1>7. EveryChildHasOneHolder'
  BY <1>6 DEF HInv, EveryChildHasOneHolder, Has
<1>8. QED
  BY <1>2, <1>3, <1>4, <1>5, <1>7 DEF HInv

\* The session that was parked has a new holder and no other.
LEMMA ClaimKeeps ==
  ASSUME HInv, NEW c \in Conns, Claim(c) PROVE HInv'
<1>1. PICK h \in Hosts, p \in Conns \cup {None} : h = Host[c] /\ p = parked[h]
  BY Setting DEF HInv, Shape
<1>s. step[c] = "admitted" /\ UNCHANGED child
  BY DEF Claim, sessions
<1>2. CASE p = None
  <2>1. step' = [step EXCEPT ![c] = "starting"] /\ UNCHANGED <<sess, child, parked, timer>>
    BY <1>1, <1>2, <1>s DEF Claim, Goes, registry
  <2>2. QED
    BY <2>1, <1>s, StepOnly DEF Early
<1>3. CASE p # None
  <2>1. /\ step' = [step EXCEPT ![c] = "attach"] /\ sess' = [sess EXCEPT ![c] = sess[p]]
        /\ parked' = [parked EXCEPT ![h] = None] /\ timer' = Stopped(p)
    BY <1>1, <1>3, <1>s DEF Claim, Goes
  <2>2. /\ p \in Conns /\ Host[p] = h /\ sess[p] \in Conns /\ step[p] \in Late /\ timer[p] # "killing"
    BY <1>1, <1>3 DEF HInv, ParkedAreLate
  <2>3. PICK s \in Conns : s = sess[p]
    BY <2>2
  <2>4. Shape
    BY DEF HInv
  <2>5. /\ \A d \in Conns : step'[d] = IF d = c THEN "attach" ELSE step[d]
        /\ \A d \in Conns : sess'[d] = IF d = c THEN s ELSE sess[d]
        /\ \A g \in Hosts : parked'[g] = IF g = h THEN None ELSE parked[g]
        /\ \A d \in Conns : timer'[d] = "killing" <=> timer[d] = "killing"
    BY <2>1, <2>3, <2>4 DEF Shape, Stopped
  <2>6. Shape'
    <3>1. "attach" \in Early \cup Serving \cup Late
      BY DEF Serving
    <3>2. Stopped(p) \in [Conns -> {"off", "running", "fired", "killing"}]
      BY <2>4 DEF Shape, Stopped
    <3>3. QED
      BY <1>s, <2>1, <2>3, <2>4, <3>1, <3>2 DEF Shape
  <2>c. c # p /\ "attach" \in Serving /\ "attach" \notin Early /\ "attach" \notin Late /\ "admitted" \in Early
    BY <1>s, <2>2 DEF Early, Late, Serving
  <2>7. EarlyOnesHaveNothing'
    BY <1>s, <2>2, <2>3, <2>5, <2>c DEF HInv, EarlyOnesHaveNothing
  <2>8. ServingOnesHaveASession'
    BY <2>5, <2>c DEF HInv, ServingOnesHaveASession
  <2>9. ParkedAreLate'
    <3>1. ASSUME NEW g \in Hosts, parked'[g] # None
          PROVE  /\ Host[parked'[g]] = g /\ sess'[parked'[g]] \in Conns
                 /\ step'[parked'[g]] \in Late /\ timer'[parked'[g]] # "killing"
      <4>1. g # h /\ parked'[g] = parked[g] /\ parked[g] \in Conns
        BY <2>4, <2>5, <3>1 DEF Shape
      <4>2. /\ Host[parked[g]] = g /\ sess[parked[g]] \in Conns
            /\ step[parked[g]] \in Late /\ timer[parked[g]] # "killing"
        BY <4>1, <3>1 DEF HInv, ParkedAreLate
      <4>3. parked[g] # c
        BY <1>1, <4>1, <4>2
      <4>4. QED
        BY <2>5, <4>1, <4>2, <4>3
    <3>2. QED
      BY <3>1 DEF ParkedAreLate
  <2>10. KillingAreLate'
    BY <1>s, <2>5, <2>c, Apart DEF HInv, KillingAreLate
  <2>11. \A d, q \in Conns : Has(d, q)' <=> IF d = c THEN q = s ELSE d # p /\ Has(d, q)
    <3>1. \A d \in Conns : d # c => (parked'[Host[d]] = d <=> parked[Host[d]] = d /\ d # p)
      BY <1>1, <2>2, <2>5, Setting
    <3>2. Serves(c)' /\ \A d \in Conns : d # c => (Serves(d)' <=> Serves(d))
      BY <2>5 DEF Serves
    <3>3. ~Serves(p)
      BY <2>2, Apart DEF Serves, Serving
    <3>4. QED
      BY <2>2, <2>5, <3>1, <3>2, <3>3 DEF Has
  <2>12. EveryChildHasOneHolder'
    <3>1. Has(p, s)
      BY <1>1, <2>2, <2>3 DEF Has
    <3>2. \A q \in Conns : ~Has(c, q)
      BY <1>s, <2>c, Setting DEF HInv, EarlyOnesHaveNothing, Has
    <3>3. /\ \A q, d, f \in Conns : Has(d, q) /\ Has(f, q) => d = f
          /\ \A q \in Conns : child[q] = "up" => \E d \in Conns : Has(d, q)
      BY DEF HInv, EveryChildHasOneHolder
    <3>4. \A q, d, f \in Conns : Has(d, q)' /\ Has(f, q)' => d = f
      BY <2>2, <2>11, <3>1, <3>3
    <3>5. ASSUME NEW q \in Conns, child'[q] = "up" PROVE \E d \in Conns : Has(d, q)'
      <4>1. PICK d \in Conns : Has(d, q)
        BY <1>s, <3>3, <3>5
      <4>2. CASE d = p
        <5>1. q = s
          BY <4>1, <4>2, <2>3 DEF Has
        <5>2. QED
          BY <5>1, <2>11
      <4>3. CASE d # p
        BY <4>1, <4>3, <2>11, <3>2
      <4>4. QED
        BY <4>2, <4>3
    <3>6. QED
      BY <3>4, <3>5 DEF EveryChildHasOneHolder
  <2>13. QED
    BY <2>6, <2>7, <2>8, <2>9, <2>10, <2>12 DEF HInv
<1>4. QED
  BY <1>2, <1>3

\* A new session has the handler that started it.
LEMMA StartKeeps ==
  ASSUME HInv, NEW c \in Conns, Start(c) PROVE HInv'
<1>1. /\ step[c] = "starting" /\ step' = [step EXCEPT ![c] = "attach"]
      /\ sess' = [sess EXCEPT ![c] = c] /\ child' = [child EXCEPT ![c] = "up"]
      /\ UNCHANGED <<parked, timer>>
  BY DEF Start, Goes, registry
<1>2. Shape /\ "starting" \in Early /\ "attach" \in Serving /\ "attach" \notin Early /\ "attach" \notin Late
  BY DEF HInv, Early, Late, Serving
<1>3. /\ \A d \in Conns : step'[d] = IF d = c THEN "attach" ELSE step[d]
      /\ \A d \in Conns : sess'[d] = IF d = c THEN c ELSE sess[d]
      /\ \A d \in Conns : child'[d] = IF d = c THEN "up" ELSE child[d]
  BY <1>1, <1>2 DEF Shape
<1>4. Shape'
  BY <1>1, <1>2 DEF Shape
<1>5. sess[c] = None /\ \A d \in Conns : sess[d] # c
  BY <1>1, <1>2 DEF HInv, EarlyOnesHaveNothing
<1>6. EarlyOnesHaveNothing'
  BY <1>1, <1>2, <1>3, <1>5 DEF HInv, EarlyOnesHaveNothing
<1>7. ServingOnesHaveASession'
  BY <1>2, <1>3 DEF HInv, ServingOnesHaveASession
<1>8. \A h \in Hosts : parked[h] # c
  BY <1>1, <1>2, <1>5, Setting, Apart DEF HInv, ParkedAreLate
<1>9. ParkedAreLate'
  BY <1>1, <1>2, <1>3, <1>8 DEF HInv, Shape, ParkedAreLate
<1>10. timer[c] # "killing"
  BY <1>1, <1>2, Apart DEF HInv, KillingAreLate
<1>11. KillingAreLate'
  BY <1>1, <1>3, <1>10 DEF HInv, KillingAreLate
<1>12. \A d, q \in Conns : Has(d, q)' <=> IF d = c THEN q = c ELSE Has(d, q)
  BY <1>1, <1>3 DEF Has, Serves
<1>13. \A d \in Conns : ~Has(d, c)
  BY <1>5 DEF Has
<1>14. EveryChildHasOneHolder'
  <2>1. /\ \A q, d, f \in Conns : Has(d, q) /\ Has(f, q) => d = f
        /\ \A q \in Conns : child[q] = "up" => \E d \in Conns : Has(d, q)
    BY DEF HInv, EveryChildHasOneHolder
  <2>2. \A q, d, f \in Conns : Has(d, q)' /\ Has(f, q)' => d = f
    BY <1>12, <1>13, <2>1
  <2>3. \A q \in Conns : ~Has(c, q)
    BY <1>5, Setting DEF Has
  <2>4. \A q \in Conns : child'[q] = "up" => \E d \in Conns : Has(d, q)'
    BY <1>3, <1>12, <2>1, <2>3
  <2>5. QED
    BY <2>2, <2>4 DEF EveryChildHasOneHolder
<1>15. QED
  BY <1>4, <1>6, <1>7, <1>9, <1>11, <1>14 DEF HInv

\* The child of s is not running any more; then it needs no holder.
LEMMA EndKeeps ==
  ASSUME HInv, NEW s \in Conns, NEW how \in {"ended", "killed"},
         child' = [child EXCEPT ![s] = how] \/ child' = child,
         UNCHANGED <<step, sess, parked, timer>>
  PROVE  HInv'
<1>1. Shape
  BY DEF HInv
<1>2. child' \in [Conns -> {"none", "up", "ended", "killed"}]
  BY <1>1 DEF Shape
<1>3. \A q \in Conns : child'[q] = "up" => child[q] = "up"
  BY <1>1 DEF Shape
<1>4. Shape'
  BY <1>1, <1>2 DEF Shape
<1>5. \A d, q \in Conns : Has(d, q)' <=> Has(d, q)
  BY DEF Has, Serves
<1>6. EarlyOnesHaveNothing' /\ ServingOnesHaveASession' /\ ParkedAreLate' /\ KillingAreLate'
  BY <1>3 DEF HInv, EarlyOnesHaveNothing, ServingOnesHaveASession, ParkedAreLate, KillingAreLate
<1>7. EveryChildHasOneHolder'
  BY <1>3, <1>5 DEF HInv, EveryChildHasOneHolder
<1>8. QED
  BY <1>4, <1>6, <1>7 DEF HInv

\* A holder d of a session s whose child does not run may let go of it.
LEMMA LetGo ==
  ASSUME Shape, EveryChildHasOneHolder, NEW d \in Conns, NEW s \in Conns, Has(d, s),
         \A q \in Conns : child'[q] = "up" => child[q] = "up" /\ q # s,
         \A f, q \in Conns : Has(f, q)' <=> f # d /\ Has(f, q)
  PROVE  EveryChildHasOneHolder'
<1>1. /\ \A q, e, f \in Conns : Has(e, q) /\ Has(f, q) => e = f
      /\ \A q \in Conns : child[q] = "up" => \E f \in Conns : Has(f, q)
  BY DEF EveryChildHasOneHolder
<1>2. \A q \in Conns : Has(d, q) => q = s
  BY DEF Has
<1>3. ASSUME NEW q \in Conns, child'[q] = "up" PROVE \E f \in Conns : Has(f, q)'
  <2>1. PICK f \in Conns : Has(f, q)
    BY <1>1, <1>3
  <2>2. f # d
    BY <1>2, <1>3, <2>1
  <2>3. QED
    BY <2>1, <2>2
<1>4. QED
  BY <1>1, <1>3 DEF EveryChildHasOneHolder

\* The handler gives its session up: the child is not running when it has.
LEMMA KillKeeps ==
  ASSUME HInv, NEW c \in Conns, Kill(c) PROVE HInv'
<1>1. PICK s : s = sess[c]
  OBVIOUS
<1>2. /\ step[c] = "kill" /\ step' = [step EXCEPT ![c] = "release"] /\ child' = Killed(s)
      /\ UNCHANGED <<sess, parked, timer>>
  BY <1>1 DEF Kill, Goes, registry
<1>3. Shape /\ "kill" \in Serving /\ "release" \in Late /\ "release" \notin Serving /\ "release" \notin Early
  BY DEF HInv, Early, Late, Serving
<1>4. s \in Conns
  BY <1>1, <1>2, <1>3 DEF HInv, ServingOnesHaveASession
<1>5. /\ \A d \in Conns : step'[d] = IF d = c THEN "release" ELSE step[d]
      /\ \A q \in Conns : child'[q] = "up" => child[q] = "up" /\ q # s
      /\ child' \in [Conns -> {"none", "up", "ended", "killed"}]
  BY <1>2, <1>3, <1>4 DEF Shape, Killed
<1>6. Shape'
  BY <1>2, <1>3, <1>5 DEF Shape
<1>7. EarlyOnesHaveNothing' /\ ServingOnesHaveASession' /\ KillingAreLate'
  BY <1>2, <1>3, <1>5 DEF HInv, EarlyOnesHaveNothing, ServingOnesHaveASession, KillingAreLate
<1>8. ParkedAreLate'
  BY <1>2, <1>3, <1>5 DEF HInv, Shape, ParkedAreLate
<1>9. timer[c] # "killing" /\ parked[Host[c]] # c
  BY <1>2, <1>3, Setting, Apart DEF HInv, KillingAreLate, ParkedAreLate
<1>10. Has(c, s) /\ \A f, q \in Conns : Has(f, q)' <=> f # c /\ Has(f, q)
  <2>1. Serves(c) /\ ~(Serves(c)') /\ \A f \in Conns : f # c => (Serves(f)' <=> Serves(f))
    BY <1>2, <1>5 DEF Serves
  <2>2. QED
    BY <1>1, <1>2, <1>9, <2>1 DEF Has
<1>11. EveryChildHasOneHolder'
  BY <1>3, <1>4, <1>5, <1>10, LetGo DEF HInv
<1>12. QED
  BY <1>6, <1>7, <1>8, <1>11 DEF HInv

\* A timer that ends with its child killed, lets go of it.
LEMMA TimerKillsKeeps ==
  ASSUME HInv, NEW p \in Conns, TimerKills(p) PROVE HInv'
<1>1. PICK s : s = sess[p]
  OBVIOUS
<1>2. /\ timer[p] = "killing" /\ timer' = [timer EXCEPT ![p] = "off"] /\ child' = Killed(s)
      /\ UNCHANGED <<step, sess, parked>>
  BY <1>1 DEF TimerKills
<1>3. Shape /\ s \in Conns /\ step[p] \in Late
  BY <1>1, <1>2 DEF HInv, KillingAreLate
<1>4. /\ \A d \in Conns : timer'[d] = IF d = p THEN "off" ELSE timer[d]
      /\ \A q \in Conns : child'[q] = "up" => child[q] = "up" /\ q # s
      /\ child' \in [Conns -> {"none", "up", "ended", "killed"}]
  BY <1>2, <1>3 DEF Shape, Killed
<1>5. Shape'
  BY <1>2, <1>3, <1>4 DEF Shape
<1>6. EarlyOnesHaveNothing' /\ ServingOnesHaveASession' /\ KillingAreLate'
  BY <1>2, <1>4 DEF HInv, EarlyOnesHaveNothing, ServingOnesHaveASession, KillingAreLate
<1>7. ParkedAreLate'
  BY <1>2, <1>3, <1>4 DEF HInv, Shape, ParkedAreLate
<1>8. Has(p, s) /\ \A f, q \in Conns : Has(f, q)' <=> f # p /\ Has(f, q)
  <2>1. parked[Host[p]] # p
    BY <1>2, <1>3, Setting DEF HInv, ParkedAreLate
  <2>2. ~Serves(p)
    BY <1>3 DEF Serves, Late
  <2>3. \A f \in Conns : Serves(f)' <=> Serves(f)
    BY <1>2 DEF Serves
  <2>4. QED
    BY <1>1, <1>2, <1>4, <2>1, <2>2, <2>3 DEF Has
<1>9. EveryChildHasOneHolder'
  BY <1>3, <1>4, <1>8, LetGo DEF HInv
<1>10. QED
  BY <1>5, <1>6, <1>7, <1>9 DEF HInv

\* Where only timers change that do not kill before or after, nothing changes holder.
LEMMA TimerOnly ==
  ASSUME HInv, UNCHANGED <<step, sess, child, parked>>,
         timer' \in [Conns -> {"off", "running", "fired", "killing"}],
         \A d \in Conns : timer'[d] = "killing" <=> timer[d] = "killing"
  PROVE  HInv'
<1>1. \A d, q \in Conns : Has(d, q)' <=> Has(d, q)
  BY DEF Has, Serves
<1>2. Shape' /\ EveryChildHasOneHolder'
  BY <1>1 DEF HInv, Shape, EveryChildHasOneHolder
<1>3. EarlyOnesHaveNothing' /\ ServingOnesHaveASession' /\ KillingAreLate'
  BY DEF HInv, EarlyOnesHaveNothing, ServingOnesHaveASession, KillingAreLate
<1>4. ParkedAreLate'
  BY DEF HInv, Shape, ParkedAreLate
<1>5. QED
  BY <1>2, <1>3, <1>4 DEF HInv

\* The timer that finds its parking takes the session from the map to its death.
LEMMA TimerRunsKeeps ==
  ASSUME HInv, NEW p \in Conns, TimerRuns(p) PROVE HInv'
<1>1. Shape /\ timer[p] = "fired" /\ UNCHANGED <<step, sess, child>>
  BY DEF TimerRuns, HInv, sessions
<1>2. CASE parked[Host[p]] = p
  <2>1. PICK h \in Hosts : h = Host[p]
    BY Setting
  <2>2. parked' = [parked EXCEPT ![h] = None] /\ timer' = [timer EXCEPT ![p] = "killing"]
    BY <1>2, <2>1 DEF TimerRuns
  <2>3. /\ \A g \in Hosts : parked'[g] = IF g = h THEN None ELSE parked[g]
        /\ \A d \in Conns : timer'[d] = IF d = p THEN "killing" ELSE timer[d]
    BY <1>1, <2>1, <2>2 DEF Shape
  <2>4. Shape'
    BY <1>1, <2>2 DEF Shape
  <2>5. step[p] \in Late /\ sess[p] \in Conns
    BY <1>2, <2>1, Setting DEF HInv, ParkedAreLate
  <2>6. EarlyOnesHaveNothing' /\ ServingOnesHaveASession' /\ KillingAreLate'
    BY <1>1, <2>3, <2>5 DEF HInv, EarlyOnesHaveNothing, ServingOnesHaveASession, KillingAreLate
  <2>7. ParkedAreLate'
    <3>1. \A g \in Hosts : parked'[g] # None => g # h /\ parked'[g] = parked[g] /\ parked[g] # p
      BY <2>1, <2>3 DEF HInv, ParkedAreLate
    <3>2. QED
      BY <1>1, <2>3, <3>1 DEF HInv, Shape, ParkedAreLate
  <2>8. \A d \in Conns : (parked'[Host[d]] = d \/ timer'[d] = "killing")
                           <=> (parked[Host[d]] = d \/ timer[d] = "killing")
    BY <1>2, <2>1, <2>3, Setting
  <2>9. \A d, q \in Conns : Has(d, q)' <=> Has(d, q)
    BY <1>1, <2>8 DEF Has, Serves
  <2>10. EveryChildHasOneHolder'
    BY <1>1, <2>9 DEF HInv, EveryChildHasOneHolder
  <2>11. QED
    BY <2>4, <2>6, <2>7, <2>10 DEF HInv
<1>3. CASE parked[Host[p]] # p
  <2>1. timer' = [timer EXCEPT ![p] = "off"] /\ UNCHANGED parked
    BY <1>3 DEF TimerRuns
  <2>2. /\ timer' \in [Conns -> {"off", "running", "fired", "killing"}]
        /\ \A d \in Conns : timer'[d] = "killing" <=> timer[d] = "killing"
    BY <1>1, <2>1 DEF Shape
  <2>3. QED
    BY <1>1, <2>1, <2>2, TimerOnly
<1>4. QED
  BY <1>2, <1>3

\* The handler's session is parked; the one parked before is killed and let go of.
LEMMA ParkKeeps ==
  ASSUME HInv, NEW c \in Conns, Park(c) PROVE HInv'
<1>1. PICK h \in Hosts, old \in Conns \cup {None} : h = Host[c] /\ old = parked[h]
  BY Setting DEF HInv, Shape
<1>2. /\ step[c] = "park" /\ step' = [step EXCEPT ![c] = "release"]
      /\ parked' = [parked EXCEPT ![h] = c] /\ UNCHANGED sess
  BY <1>1 DEF Park, Goes
<1>3. Shape /\ "park" \in Serving /\ "release" \in Late /\ "release" \notin Serving /\ "release" \notin Early
  BY DEF HInv, Early, Late, Serving
<1>4. sess[c] \in Conns /\ c # old
  BY <1>1, <1>2, <1>3, Setting, Apart DEF HInv, ServingOnesHaveASession, ParkedAreLate
<1>5. old # None => /\ old \in Conns /\ Host[old] = h /\ sess[old] \in Conns /\ step[old] \in Late
                    /\ timer[old] # "killing"
  BY <1>1 DEF HInv, ParkedAreLate
<1>6. timer[c] # "killing"
  BY <1>2, <1>3, Apart DEF HInv, KillingAreLate
<1>7. /\ timer' \in [Conns -> {"off", "running", "fired", "killing"}]
      /\ \A d \in Conns : timer'[d] = "killing" <=> timer[d] = "killing"
  <2>1. CASE old = None
    <3>1. timer' = [timer EXCEPT ![c] = "running"]
      BY <1>1, <2>1 DEF Park
    <3>2. QED
      BY <1>3, <1>6, <3>1 DEF Shape
  <2>2. CASE old # None
    <3>1. timer' = [Stopped(old) EXCEPT ![c] = "running"]
      BY <1>1, <2>2 DEF Park
    <3>2. /\ Stopped(old) \in [Conns -> {"off", "running", "fired", "killing"}]
          /\ \A d \in Conns : Stopped(old)[d] = "killing" <=> timer[d] = "killing"
      BY <1>3, <1>5, <2>2 DEF Shape, Stopped
    <3>3. QED
      BY <1>6, <3>1, <3>2
  <2>3. QED
    BY <2>1, <2>2
<1>8. /\ child' \in [Conns -> {"none", "up", "ended", "killed"}]
      /\ \A q \in Conns : child'[q] = "up" => child[q] = "up" /\ (old # None => q # sess[old])
  <2>1. CASE old = None
    BY <1>1, <1>3, <2>1 DEF Park, Shape
  <2>2. CASE old # None
    <3>1. PICK s \in Conns : s = sess[old]
      BY <1>5, <2>2
    <3>2. child' = Killed(s)
      BY <1>1, <2>2, <3>1 DEF Park
    <3>3. QED
      BY <1>3, <3>1, <3>2 DEF Shape, Killed
  <2>3. QED
    BY <2>1, <2>2
<1>9. /\ \A d \in Conns : step'[d] = IF d = c THEN "release" ELSE step[d]
      /\ \A g \in Hosts : parked'[g] = IF g = h THEN c ELSE parked[g]
  BY <1>2, <1>3 DEF Shape
<1>10. Shape'
  BY <1>2, <1>3, <1>7, <1>8 DEF Shape
<1>11. EarlyOnesHaveNothing' /\ ServingOnesHaveASession' /\ KillingAreLate'
  BY <1>2, <1>3, <1>7, <1>8, <1>9 DEF HInv, EarlyOnesHaveNothing, ServingOnesHaveASession, KillingAreLate
<1>12. ParkedAreLate'
  <2>1. ASSUME NEW g \in Hosts, parked'[g] # None
        PROVE  /\ Host[parked'[g]] = g /\ sess'[parked'[g]] \in Conns
               /\ step'[parked'[g]] \in Late /\ timer'[parked'[g]] # "killing"
    <3>1. CASE g = h
      BY <1>1, <1>2, <1>3, <1>4, <1>6, <1>7, <1>9, <3>1
    <3>2. CASE g # h
      <4>1. parked'[g] = parked[g] /\ parked[g] \in Conns
        BY <1>3, <1>9, <2>1, <3>2 DEF Shape
      <4>2. /\ Host[parked[g]] = g /\ sess[parked[g]] \in Conns
            /\ step[parked[g]] \in Late /\ timer[parked[g]] # "killing"
        BY <2>1, <4>1 DEF HInv, ParkedAreLate
      <4>3. parked[g] # c
        BY <1>1, <3>2, <4>2
      <4>4. QED
        BY <1>2, <1>7, <1>9, <4>1, <4>2, <4>3
    <3>3. QED
      BY <3>1, <3>2
  <2>2. QED
    BY <2>1 DEF ParkedAreLate
<1>13. \A f, q \in Conns : Has(f, q)' <=> f # old /\ Has(f, q)
  <2>1. Serves(c) /\ \A f \in Conns : f # c => (Serves(f)' <=> Serves(f))
    BY <1>2, <1>9 DEF Serves
  <2>2. \A f \in Conns : f # c => (parked'[Host[f]] = f <=> parked[Host[f]] = f /\ f # old)
    BY <1>1, <1>5, <1>9, Setting
  <2>3. old # None => ~Serves(old)
    BY <1>5 DEF Serves, Late
  <2>4. parked'[Host[c]] = c
    BY <1>1, <1>9
  <2>5. ASSUME NEW f \in Conns, NEW q \in Conns PROVE Has(f, q)' <=> f # old /\ Has(f, q)
    <3>1. CASE f = c
      BY <1>2, <1>4, <2>1, <2>4, <3>1 DEF Has
    <3>2. CASE f = old
      <4>1. ~(Serves(f)')
        BY <1>4, <1>5, <2>1, <2>3, <3>2, Setting
      <4>2. QED
        BY <1>4, <1>5, <1>7, <2>2, <3>2, <4>1, Setting DEF Has
    <3>3. CASE f # c /\ f # old
      BY <1>2, <1>7, <2>1, <2>2, <3>3 DEF Has
    <3>4. QED
      BY <3>1, <3>2, <3>3
  <2>6. QED
    BY <2>5
<1>14. EveryChildHasOneHolder'
  <2>1. CASE old = None
    <3>1. \A f, q \in Conns : Has(f, q)' <=> Has(f, q)
      BY <1>13, <2>1, Setting
    <3>2. QED
      BY <1>8, <3>1 DEF HInv, EveryChildHasOneHolder
  <2>2. CASE old # None
    <3>1. PICK s \in Conns : s = sess[old]
      BY <1>5, <2>2
    <3>2. Has(old, s)
      BY <1>1, <1>5, <2>2, <3>1 DEF Has
    <3>3. QED
      BY <1>3, <1>5, <1>8, <1>13, <2>2, <3>1, <3>2, LetGo DEF HInv
  <2>3. QED
    BY <2>1, <2>2
<1>15. QED
  BY <1>10, <1>11, <1>12, <1>14 DEF HInv

-----------------------------------------------------------------------------
LEMMA HInitially == Init => HInv
<1> SUFFICES ASSUME Init PROVE HInv
  OBVIOUS
<1>1. Shape
  BY DEF Init, Shape, Early
<1>2. EarlyOnesHaveNothing /\ ServingOnesHaveASession /\ ParkedAreLate /\ KillingAreLate
  BY Setting DEF Init, EarlyOnesHaveNothing, ServingOnesHaveASession, ParkedAreLate, KillingAreLate, Serving
<1>3. EveryChildHasOneHolder
  BY Setting DEF Init, EveryChildHasOneHolder, Has
<1>4. QED
  BY <1>1, <1>2, <1>3 DEF HInv

LEMMA HInductive == HInv /\ [Next]_vars => HInv'
<1> SUFFICES ASSUME HInv, [Next]_vars PROVE HInv'
  OBVIOUS
<1>1. ASSUME NEW c \in Conns, Admit(c) \/ Refuse(c) \/ PreambleFails(c) \/ StartFails(c) PROVE HInv'
  <2>1. UNCHANGED <<sess, child, parked, timer>>
    BY <1>1 DEF Admit, Refuse, PreambleFails, StartFails, sessions, registry
  <2>2. \E t : step' = [step EXCEPT ![c] = t] /\ step[c] \in Early /\ t \in Early \cup Late
    BY <1>1 DEF Admit, Refuse, PreambleFails, StartFails, Goes, Early, Late
  <2>3. QED
    BY <2>1, <2>2, StepOnly
<1>2. ASSUME NEW c \in Conns, Attach(c) \/ Detach(c) \/ Release(c) PROVE HInv'
  <2>1. UNCHANGED <<sess, child, parked, timer>>
    BY <1>2 DEF Attach, Detach, Release, sessions, registry
  <2>2. \E t : /\ step' = [step EXCEPT ![c] = t]
               /\ \/ step[c] \in Serving /\ t \in Serving
                  \/ step[c] \in Late /\ t \in Late
    BY <1>2 DEF Attach, Detach, Release, Goes, Serving, Late
  <2>3. QED
    BY <2>1, <2>2, StepOnly
<1>3. ASSUME NEW c \in Conns, ChildExits(c) PROVE HInv'
  <2>1. child' = [child EXCEPT ![c] = "ended"] /\ UNCHANGED <<step, sess, parked, timer>>
    BY <1>3 DEF ChildExits, registry
  <2>2. QED
    BY <2>1, EndKeeps
<1>4. ASSUME NEW c \in Conns, TimerFires(c) PROVE HInv'
  <2>1. timer[c] = "running" /\ timer' = [timer EXCEPT ![c] = "fired"] /\ UNCHANGED <<step, sess, child, parked>>
    BY <1>4 DEF TimerFires, sessions
  <2>2. /\ timer' \in [Conns -> {"off", "running", "fired", "killing"}]
        /\ \A d \in Conns : timer'[d] = "killing" <=> timer[d] = "killing"
    BY <2>1 DEF HInv, Shape
  <2>3. QED
    BY <2>1, <2>2, TimerOnly
<1>5. ASSUME NEW c \in Conns, ReaderEnds(c) \/ PumpReads(c) \/ PumpStep(c) \/ ClientDrops(c) PROVE HInv'
  <2>1. UNCHANGED <<step, sess, child, parked, timer>>
    BY <1>5 DEF ReaderEnds, PumpReads, PumpStep, PumpWrites, PumpFails, PumpEnds, PumpIsOver, ClientDrops,
                sessions, registry
  <2>2. QED
    BY <2>1, HKept
<1>6. ASSUME NEW h \in Hosts, BlockEnds(h) \/ StrikeExpires(h) PROVE HInv'
  <2>1. UNCHANGED <<step, sess, child, parked, timer>>
    BY <1>6 DEF BlockEnds, StrikeExpires, sessions, registry
  <2>2. QED
    BY <2>1, HKept
<1>7. CASE UNCHANGED vars
  <2>1. UNCHANGED <<step, sess, child, parked, timer>>
    BY <1>7 DEF vars, sessions, registry
  <2>2. QED
    BY <2>1, HKept
<1>8. QED
  BY <1>1, <1>2, <1>3, <1>4, <1>5, <1>6, <1>7, ClaimKeeps, StartKeeps, KillKeeps, TimerRunsKeeps,
     TimerKillsKeeps, ParkKeeps
  DEF Next, HandlerStep, TimerStep

\* A running child is served, parked or about to be killed, and by one connection only:
\* two handlers never write to one terminal, and no child is left behind.
THEOREM OneHolder == Spec => []EveryChildHasOneHolder
<1>1. HInv => EveryChildHasOneHolder
  BY DEF HInv
<1>2. QED
  BY <1>1, HInitially, HInductive, PTL DEF Spec

-----------------------------------------------------------------------------
(* What a step may do to a session *)

Due(s) ==
  \E c \in Conns : /\ Has(c, s)
                   /\ \/ step[c] = "kill" \/ timer[c] = "killing"
                      \/ parked[Host[c]] = c /\ parked'[Host[c]] \notin {c, None}
KillsDue == \A s \in Conns : child[s] = "up" /\ child'[s] = "killed" => Due(s)
ParkingsDue ==
  \A h \in Hosts : parked[h] # None /\ parked'[h] = None =>
    \/ timer[parked[h]] = "fired"
    \/ \E c \in Conns : step[c] = "admitted" /\ step'[c] = "attach" /\ sess'[c] = sess[parked[h]]

\* Only these actions kill a child ...
LEMMA KillingSteps ==
  ASSUME HInv, Next PROVE KillsDue
<1>1. Shape
  BY DEF HInv
<1>2. ASSUME NEW c \in Conns, Kill(c) PROVE KillsDue
  <2>1. PICK s \in Conns : s = sess[c]
    BY <1>2 DEF Kill, HInv, ServingOnesHaveASession, Serving
  <2>2. Has(c, s) /\ step[c] = "kill"
    BY <1>2, <2>1 DEF Kill, Has, Serves
  <2>3. child' = Killed(s)
    BY <1>2, <2>1 DEF Kill
  <2>4. \A q \in Conns : child[q] = "up" /\ child'[q] = "killed" => q = s
    BY <1>1, <2>3 DEF Killed, Shape
  <2>5. QED
    BY <2>2, <2>4 DEF KillsDue, Due
<1>3. ASSUME NEW c \in Conns, TimerKills(c) PROVE KillsDue
  <2>1. PICK s \in Conns : s = sess[c]
    BY <1>3 DEF TimerKills, HInv, KillingAreLate
  <2>2. Has(c, s) /\ timer[c] = "killing"
    BY <1>3, <2>1 DEF TimerKills, Has
  <2>3. child' = Killed(s)
    BY <1>3, <2>1 DEF TimerKills
  <2>4. \A q \in Conns : child[q] = "up" /\ child'[q] = "killed" => q = s
    BY <1>1, <2>3 DEF Killed, Shape
  <2>5. QED
    BY <2>2, <2>4 DEF KillsDue, Due
<1>4. ASSUME NEW c \in Conns, Park(c) PROVE KillsDue
  <2>1. PICK h \in Hosts, old \in Conns \cup {None} : h = Host[c] /\ old = parked[h]
    BY <1>1, Setting DEF Shape
  <2>2. CASE old = None
    <3>1. child' = child
      BY <1>4, <2>1, <2>2 DEF Park
    <3>2. QED
      BY <3>1 DEF KillsDue
  <2>3. CASE old # None
    <3>1. Host[old] = h /\ sess[old] \in Conns /\ step[old] \in Late
      BY <2>1, <2>3 DEF HInv, ParkedAreLate
    <3>2. PICK s \in Conns : s = sess[old]
      BY <3>1
    <3>3. child' = Killed(s) /\ parked' = [parked EXCEPT ![h] = c] /\ step[c] = "park"
      BY <1>4, <2>1, <2>3, <3>2 DEF Park
    <3>4. c # old /\ c # None
      BY <3>1, <3>3, Setting DEF Late
    <3>5. parked'[Host[old]] = c
      BY <1>1, <3>1, <3>3 DEF Shape
    <3>6. old \in Conns /\ Has(old, s) /\ parked[Host[old]] = old
      BY <2>1, <2>3, <3>1, <3>2 DEF Has
    <3>7. Due(s)
      BY <3>4, <3>5, <3>6 DEF Due
    <3>8. \A q \in Conns : child[q] = "up" /\ child'[q] = "killed" => q = s
      BY <1>1, <3>3 DEF Killed, Shape
    <3>9. QED
      BY <3>7, <3>8 DEF KillsDue
  <2>4. QED
    BY <2>2, <2>3
<1>5. ASSUME NEW c \in Conns, Start(c) \/ ChildExits(c) PROVE KillsDue
  <2>1. \A q \in Conns : child'[q] = "killed" => child[q] = "killed"
    BY <1>1, <1>5 DEF Start, ChildExits, Shape
  <2>2. QED
    BY <2>1 DEF KillsDue
<1>6. CASE UNCHANGED child
  BY <1>6 DEF KillsDue
<1>7. QED
  BY <1>2, <1>3, <1>4, <1>5, <1>6
  DEF Next, HandlerStep, TimerStep, PumpStep, Admit, Refuse, PreambleFails, Claim, StartFails, Attach,
      Detach, Release, ReaderEnds, PumpReads, PumpWrites, PumpFails, PumpEnds, PumpIsOver, TimerFires,
      TimerRuns, ClientDrops, BlockEnds, StrikeExpires, sessions

\* ... and only these take a parking off the map.
LEMMA UnparkingSteps ==
  ASSUME HInv, Next PROVE ParkingsDue
<1>1. Shape
  BY DEF HInv
<1>2. ASSUME NEW c \in Conns, Claim(c) PROVE ParkingsDue
  <2>1. PICK g \in Hosts : g = Host[c]
    BY Setting
  <2>2. CASE parked[g] = None
    <3>1. UNCHANGED parked
      BY <1>2, <2>1, <2>2 DEF Claim, registry
    <3>2. QED
      BY <3>1 DEF ParkingsDue
  <2>3. CASE parked[g] # None
    <3>1. /\ step[c] = "admitted" /\ step' = [step EXCEPT ![c] = "attach"]
          /\ sess' = [sess EXCEPT ![c] = sess[parked[g]]] /\ parked' = [parked EXCEPT ![g] = None]
      BY <1>2, <2>1, <2>3 DEF Claim, Goes
    <3>2. step'[c] = "attach" /\ sess'[c] = sess[parked[g]]
      BY <1>1, <3>1 DEF Shape
    <3>3. \A h \in Hosts : parked[h] # None /\ parked'[h] = None => h = g
      BY <1>1, <3>1 DEF Shape
    <3>4. QED
      BY <3>1, <3>2, <3>3 DEF ParkingsDue
  <2>4. QED
    BY <2>2, <2>3
<1>3. ASSUME NEW c \in Conns, TimerRuns(c) PROVE ParkingsDue
  <2>1. CASE parked[Host[c]] = c
    <3>1. parked' = [parked EXCEPT ![Host[c]] = None] /\ timer[c] = "fired"
      BY <1>3, <2>1 DEF TimerRuns
    <3>2. \A h \in Hosts : parked[h] # None /\ parked'[h] = None => parked[h] = c
      BY <1>1, <2>1, <3>1, Setting DEF Shape
    <3>3. QED
      BY <3>1, <3>2 DEF ParkingsDue
  <2>2. CASE parked[Host[c]] # c
    <3>1. UNCHANGED parked
      BY <1>3, <2>2 DEF TimerRuns
    <3>2. QED
      BY <3>1 DEF ParkingsDue
  <2>3. QED
    BY <2>1, <2>2
<1>4. ASSUME NEW c \in Conns, Park(c) PROVE ParkingsDue
  <2>1. parked' = [parked EXCEPT ![Host[c]] = c]
    BY <1>4 DEF Park
  <2>2. \A h \in Hosts : parked'[h] = None => parked[h] = None
    BY <1>1, <2>1, Setting DEF Shape
  <2>3. QED
    BY <2>2 DEF ParkingsDue
<1>5. CASE UNCHANGED parked
  BY <1>5 DEF ParkingsDue
<1>6. QED
  BY <1>2, <1>3, <1>4, <1>5
  DEF Next, HandlerStep, TimerStep, PumpStep, Admit, Refuse, PreambleFails, Start, StartFails, Attach,
      Detach, Kill, Release, ReaderEnds, PumpReads, PumpWrites, PumpFails, PumpEnds, PumpIsOver, TimerFires,
      TimerKills, ClientDrops, ChildExits, BlockEnds, StrikeExpires, registry

\* A child is killed only by the handler that gives it up, by the timer of its own
\* parking or by a later parking at its address, and a parking ends only with its timer,
\* a claim or a later one, whatever older timers and claims do meanwhile.  (It may be
\* killed within its grace period: by a later parking.)
THEOREM KillsInTurn == Spec => KillsAreDue
<1>1. HInv /\ Next => KillsDue /\ ParkingsDue
  BY KillingSteps, UnparkingSteps
<1>2. HInv /\ [Next]_vars =>
        [/\ \A s \in Conns : child[s] = "up" /\ child'[s] = "killed" =>
              \E c \in Conns : /\ Has(c, s)
                               /\ \/ step[c] = "kill" \/ timer[c] = "killing"
                                  \/ parked[Host[c]] = c /\ parked'[Host[c]] \notin {c, None}
         /\ \A h \in Hosts : parked[h] # None /\ parked'[h] = None =>
              \/ timer[parked[h]] = "fired"
              \/ \E c \in Conns : step[c] = "admitted" /\ step'[c] = "attach" /\ sess'[c] = sess[parked[h]]]_vars
  BY <1>1 DEF KillsDue, ParkingsDue, Due
<1>3. QED
  BY <1>2, HInitially, HInductive, PTL DEF Spec, KillsAreDue

-----------------------------------------------------------------------------
(* Why a connection ends *)

\* Who is attached to a session has it, and a pump that says goodbye has seen its child end.
JInv ==
  /\ step \in [Conns -> Early \cup Serving \cup Late]
  /\ sess \in [Conns -> Conns \cup {None}]
  /\ child \in [Conns -> {"none", "up", "ended", "killed"}]
  /\ pump \in [Conns -> [at : {"reading", "writing", "ending", "over"}, to : Conns \cup {None}]]
  /\ current \in [Conns -> Conns \cup {None}] /\ done \in [Conns -> BOOLEAN]
  /\ \A s \in Conns : current[s] # None => sess[current[s]] = s /\ step[current[s]] \notin Early
  /\ \A s \in Conns : pump[s].at = "ending" => child[s] # "up"

LEMMA JInitially == Init => JInv
BY DEF Init, JInv, Early

\* A connection that goes on stays attached, and keeps its session once it is past Early.
LEMMA JHandler ==
  ASSUME JInv, NEW c \in Conns, NEW t \in Early \cup Serving \cup Late,
         step' = [step EXCEPT ![c] = t], t \in Early => step[c] \in Early,
         sess' \in [Conns -> Conns \cup {None}],
         \A d \in Conns : d # c \/ step[c] \notin Early => sess'[d] = sess[d],
         child' \in [Conns -> {"none", "up", "ended", "killed"}],
         \A q \in Conns : child'[q] = "up" => child[q] = "up",
         current' \in [Conns -> Conns \cup {None}],
         \A s \in Conns : current'[s] # None =>
            current'[s] = current[s] \/ (current'[s] = c /\ sess[c] = s /\ step[c] \notin Early),
         done' \in [Conns -> BOOLEAN], UNCHANGED pump
  PROVE  JInv'
<1>1. \A d \in Conns : step'[d] = IF d = c THEN t ELSE step[d]
  BY DEF JInv
<1>2. ASSUME NEW s \in Conns, current'[s] # None
      PROVE  sess'[current'[s]] = s /\ step'[current'[s]] \notin Early
  <2>1. CASE current'[s] = current[s]
    <3>1. sess[current[s]] = s /\ step[current[s]] \notin Early /\ current[s] \in Conns
      BY <1>2, <2>1 DEF JInv
    <3>2. QED
      BY <1>1, <2>1, <3>1
  <2>2. CASE current'[s] = c /\ sess[c] = s /\ step[c] \notin Early
    BY <1>1, <2>2
  <2>3. QED
    BY <1>2, <2>1, <2>2
<1>3. step' \in [Conns -> Early \cup Serving \cup Late]
  BY DEF JInv
<1>4. \A s \in Conns : pump'[s].at = "ending" => child'[s] # "up"
  BY DEF JInv
<1>5. QED
  BY <1>2, <1>3, <1>4 DEF JInv

\* The usual case: nobody is attached anew and no session is handed over.
LEMMA JStep ==
  ASSUME JInv, NEW c \in Conns, NEW t \in Early \cup Serving \cup Late,
         step' = [step EXCEPT ![c] = t], t \in Early => step[c] \in Early,
         child' \in [Conns -> {"none", "up", "ended", "killed"}],
         \A q \in Conns : child'[q] = "up" => child[q] = "up",
         UNCHANGED <<sess, current, done, pump>>
  PROVE  JInv'
<1>1. /\ sess' \in [Conns -> Conns \cup {None}] /\ current' \in [Conns -> Conns \cup {None}]
      /\ done' \in [Conns -> BOOLEAN]
  BY DEF JInv
<1>2. \A d \in Conns : d # c \/ step[c] \notin Early => sess'[d] = sess[d]
  OBVIOUS
<1>3. \A s \in Conns : current'[s] # None =>
        current'[s] = current[s] \/ (current'[s] = c /\ sess[c] = s /\ step[c] \notin Early)
  OBVIOUS
<1>4. UNCHANGED pump
  OBVIOUS
<1>5. QED
  BY <1>1, <1>2, <1>3, <1>4, JHandler, Zenon

\* What happens outside a handler leaves it its session and at most detaches it.
LEMMA JOutside ==
  ASSUME JInv, UNCHANGED <<step, sess>>, done' \in [Conns -> BOOLEAN],
         child' \in [Conns -> {"none", "up", "ended", "killed"}],
         \A q \in Conns : child'[q] = "up" => child[q] = "up",
         pump' \in [Conns -> [at : {"reading", "writing", "ending", "over"}, to : Conns \cup {None}]],
         \A s \in Conns : pump'[s].at = "ending" => pump[s].at = "ending" \/ child'[s] # "up",
         \/ UNCHANGED current
         \/ \E s \in Conns : current' = [current EXCEPT ![s] = None]
  PROVE  JInv'
<1>1. /\ current' \in [Conns -> Conns \cup {None}]
      /\ \A s \in Conns : current'[s] # None => current'[s] = current[s]
  BY DEF JInv
<1>2. \A s \in Conns : pump'[s].at = "ending" => child'[s] # "up"
  BY DEF JInv
<1>3. QED
  BY <1>1, <1>2 DEF JInv

LEMMA KilledIs ==
  ASSUME JInv, NEW s
  PROVE  /\ Killed(s) \in [Conns -> {"none", "up", "ended", "killed"}]
         /\ \A q \in Conns : Killed(s)[q] = "up" => child[q] = "up"
BY DEF JInv, Killed

LEMMA JInductive == HInv /\ JInv /\ [Next]_vars => JInv'
<1> SUFFICES ASSUME HInv, JInv, [Next]_vars PROVE JInv'
  OBVIOUS
<1>0. /\ Early \subseteq Early \cup Serving \cup Late
      /\ "admitted" \in Early /\ "starting" \in Early /\ "new" \in Early
      /\ {"release", "gone", "attach", "serving", "park", "kill"} \subseteq Early \cup Serving \cup Late
      /\ {"release", "gone", "attach", "serving", "park", "kill"} \cap Early = {}
  BY DEF Early, Serving, Late
<1>c. /\ child \in [Conns -> {"none", "up", "ended", "killed"}]
      /\ pump \in [Conns -> [at : {"reading", "writing", "ending", "over"}, to : Conns \cup {None}]]
      /\ current \in [Conns -> Conns \cup {None}] /\ done \in [Conns -> BOOLEAN]
      /\ sess \in [Conns -> Conns \cup {None}]
  BY DEF JInv
<1>1. ASSUME NEW c \in Conns, Admit(c) \/ Refuse(c) \/ PreambleFails(c) \/ StartFails(c) \/ Release(c) PROVE JInv'
  <2>1. UNCHANGED <<sess, child, pump, current, done>>
    BY <1>1 DEF Admit, Refuse, PreambleFails, StartFails, Release, sessions
  <2>2. PICK t \in Early \cup Serving \cup Late :
          step' = [step EXCEPT ![c] = t] /\ (t \in Early => step[c] \in Early)
    BY <1>0, <1>1 DEF Admit, Refuse, PreambleFails, StartFails, Release, Goes
  <2>3. QED
    BY <1>c, <2>1, <2>2, JStep
<1>2. ASSUME NEW c \in Conns, Claim(c) PROVE JInv'
  <2>1. step[c] = "admitted" /\ UNCHANGED <<child, pump, current, done>>
    BY <1>2 DEF Claim, sessions
  <2>2. CASE parked[Host[c]] = None
    <3>1. step' = [step EXCEPT ![c] = "starting"] /\ UNCHANGED sess
      BY <1>2, <2>2 DEF Claim, Goes
    <3>2. PICK t \in Early : t = "starting"
      BY <1>0
    <3>3. QED
      BY <1>0, <1>c, <2>1, <3>1, <3>2, JStep
  <2>3. CASE parked[Host[c]] # None
    <3>1. step' = [step EXCEPT ![c] = "attach"] /\ sess' = [sess EXCEPT ![c] = sess[parked[Host[c]]]]
      BY <1>2, <2>3 DEF Claim, Goes
    <3>2. sess[parked[Host[c]]] \in Conns
      BY <2>3, Setting DEF HInv, ParkedAreLate
    <3>3. sess' \in [Conns -> Conns \cup {None}] /\ \A d \in Conns : d # c => sess'[d] = sess[d]
      BY <1>c, <3>1, <3>2
    <3>4. PICK t \in Early \cup Serving \cup Late : t = "attach" /\ t \notin Early
      BY <1>0
    <3>5. \A d \in Conns : d # c \/ step[c] \notin Early => sess'[d] = sess[d]
      BY <1>0, <2>1, <3>3
    <3>6. /\ current' \in [Conns -> Conns \cup {None}] /\ done' \in [Conns -> BOOLEAN]
          /\ \A s \in Conns : current'[s] # None =>
                current'[s] = current[s] \/ (current'[s] = c /\ sess[c] = s /\ step[c] \notin Early)
      BY <1>c, <2>1
    <3>7. /\ child' \in [Conns -> {"none", "up", "ended", "killed"}]
          /\ \A q \in Conns : child'[q] = "up" => child[q] = "up"
      BY <1>c, <2>1
    <3>8. step' = [step EXCEPT ![c] = t] /\ (t \in Early => step[c] \in Early) /\ UNCHANGED pump
      BY <2>1, <3>1, <3>4
    <3>9. QED
      BY <3>3, <3>4, <3>5, <3>6, <3>7, <3>8, JHandler, Zenon
  <2>4. QED
    BY <2>2, <2>3
<1>3. ASSUME NEW c \in Conns, Start(c) PROVE JInv'
  <2>1. /\ step[c] = "starting" /\ step' = [step EXCEPT ![c] = "attach"] /\ sess' = [sess EXCEPT ![c] = c]
        /\ child' = [child EXCEPT ![c] = "up"] /\ pump' = [pump EXCEPT ![c].at = "reading"]
        /\ UNCHANGED <<current, done>>
    BY <1>3 DEF Start, Goes
  <2>2. pump' \in [Conns -> [at : {"reading", "writing", "ending", "over"}, to : Conns \cup {None}]]
        /\ pump'[c].at = "reading" /\ \A s \in Conns : s # c => pump'[s] = pump[s]
    BY <1>c, <2>1
  <2>3. \A s \in Conns : pump'[s].at = "ending" => child'[s] # "up"
    BY <1>c, <2>1, <2>2 DEF JInv
  <2>4. \A s \in Conns : current[s] # c
    BY <1>0, <2>1, Setting DEF JInv
  <2>5. /\ step' \in [Conns -> Early \cup Serving \cup Late] /\ sess' \in [Conns -> Conns \cup {None}]
        /\ child' \in [Conns -> {"none", "up", "ended", "killed"}]
        /\ \A d \in Conns : d # c => step'[d] = step[d] /\ sess'[d] = sess[d]
    BY <1>0, <2>1 DEF JInv
  <2>6. \A s \in Conns : current'[s] # None => sess'[current'[s]] = s /\ step'[current'[s]] \notin Early
    BY <1>c, <2>1, <2>4, <2>5 DEF JInv
  <2>7. QED
    BY <1>c, <2>1, <2>2, <2>3, <2>5, <2>6 DEF JInv
<1>4. ASSUME NEW c \in Conns, Attach(c) PROVE JInv'
  <2>1. /\ step[c] = "attach" /\ step' = [step EXCEPT ![c] = "serving"]
        /\ current' = [current EXCEPT ![sess[c]] = c] /\ UNCHANGED <<sess, child, pump, done>>
    BY <1>4 DEF Attach, Goes
  <2>2. sess[c] \in Conns /\ step[c] \notin Early
    BY <1>0, <2>1 DEF HInv, ServingOnesHaveASession, Serving
  <2>3. PICK s \in Conns : s = sess[c]
    BY <2>2
  <2>4. /\ current' \in [Conns -> Conns \cup {None}]
        /\ \A q \in Conns : current'[q] = IF q = s THEN c ELSE current[q]
    BY <1>c, <2>1, <2>3
  <2>5. \A q \in Conns : current'[q] # None =>
          current'[q] = current[q] \/ (current'[q] = c /\ sess[c] = q /\ step[c] \notin Early)
    BY <2>2, <2>3, <2>4
  <2>6. PICK t \in Early \cup Serving \cup Late : t = "serving" /\ t \notin Early
    BY <1>0
  <2>7. /\ child' \in [Conns -> {"none", "up", "ended", "killed"}]
        /\ \A q \in Conns : child'[q] = "up" => child[q] = "up"
        /\ sess' \in [Conns -> Conns \cup {None}]
        /\ \A d \in Conns : d # c \/ step[c] \notin Early => sess'[d] = sess[d]
        /\ done' \in [Conns -> BOOLEAN]
    BY <1>c, <2>1
  <2>8. step' = [step EXCEPT ![c] = t] /\ (t \in Early => step[c] \in Early) /\ UNCHANGED pump
    BY <2>1, <2>6
  <2>9. QED
    BY <2>4, <2>5, <2>6, <2>7, <2>8, JHandler, Zenon
<1>5. ASSUME NEW c \in Conns, Detach(c) PROVE JInv'
  <2>1. /\ step[c] = "serving" /\ UNCHANGED <<sess, child, pump, done>>
        /\ current' = current \/ current' = [current EXCEPT ![sess[c]] = None]
    BY <1>5 DEF Detach
  <2>2. sess[c] \in Conns
    BY <1>0, <2>1 DEF HInv, ServingOnesHaveASession, Serving
  <2>3. PICK t \in {"park", "kill"} : step' = [step EXCEPT ![c] = t]
    BY <1>5 DEF Detach, Goes
  <2>4. t \in Early \cup Serving \cup Late /\ t \notin Early
    BY <1>0, <2>3
  <2>5. /\ current' \in [Conns -> Conns \cup {None}]
        /\ \A s \in Conns : current'[s] # None => current'[s] = current[s]
    BY <1>c, <2>1, <2>2
  <2>6. \A s \in Conns : current'[s] # None =>
          current'[s] = current[s] \/ (current'[s] = c /\ sess[c] = s /\ step[c] \notin Early)
    BY <2>5
  <2>7. /\ child' \in [Conns -> {"none", "up", "ended", "killed"}]
        /\ \A q \in Conns : child'[q] = "up" => child[q] = "up"
        /\ sess' \in [Conns -> Conns \cup {None}]
        /\ \A d \in Conns : d # c \/ step[c] \notin Early => sess'[d] = sess[d]
        /\ done' \in [Conns -> BOOLEAN]
    BY <1>c, <2>1
  <2>8. (t \in Early => step[c] \in Early) /\ UNCHANGED pump
    BY <2>1, <2>4
  <2>9. QED
    BY <2>3, <2>4, <2>5, <2>6, <2>7, <2>8, JHandler, Zenon
<1>6. ASSUME NEW c \in Conns, Kill(c) \/ Park(c) PROVE JInv'
  <2>1. step' = [step EXCEPT ![c] = "release"] /\ UNCHANGED <<sess, pump, current, done>>
    BY <1>6 DEF Kill, Park, Goes
  <2>2. child' = child \/ \E s : child' = Killed(s)
    BY <1>6 DEF Kill, Park
  <2>3. /\ child' \in [Conns -> {"none", "up", "ended", "killed"}]
        /\ \A q \in Conns : child'[q] = "up" => child[q] = "up"
    BY <1>c, <2>2, KilledIs
  <2>4. "release" \in Early \cup Serving \cup Late /\ "release" \notin Early
    BY <1>0
  <2>5. QED
    BY <2>1, <2>3, <2>4, JStep
<1>7. ASSUME NEW c \in Conns, TimerKills(c) \/ ChildExits(c) PROVE JInv'
  <2>1. UNCHANGED <<step, sess, pump, current, done>>
    BY <1>7 DEF TimerKills, ChildExits
  <2>2. child' = Killed(sess[c]) \/ child' = [child EXCEPT ![c] = "ended"]
    BY <1>7 DEF TimerKills, ChildExits
  <2>3. /\ child' \in [Conns -> {"none", "up", "ended", "killed"}]
        /\ \A q \in Conns : child'[q] = "up" => child[q] = "up"
    BY <1>c, <2>2, KilledIs
  <2>4. QED
    BY <1>c, <2>1, <2>3, JOutside
<1>8. ASSUME NEW s \in Conns, PumpReads(s) \/ PumpWrites(s) PROVE JInv'
  <2>1. UNCHANGED <<step, sess, child, current, done>>
    BY <1>8 DEF PumpReads, PumpWrites
  <2>2. PICK x \in [at : {"reading", "writing"}, to : Conns \cup {None}] : pump' = [pump EXCEPT ![s] = x]
    BY <1>8, <1>c DEF PumpReads, PumpWrites
  <2>3. /\ pump' \in [Conns -> [at : {"reading", "writing", "ending", "over"}, to : Conns \cup {None}]]
        /\ \A q \in Conns : pump'[q].at = "ending" => pump[q].at = "ending"
    BY <1>c, <2>2
  <2>4. QED
    BY <1>c, <2>1, <2>3, JOutside
<1>9. ASSUME NEW s \in Conns, PumpFails(s) \/ PumpIsOver(s) PROVE JInv'
  <2>1. UNCHANGED <<step, sess, child>>
    BY <1>9 DEF PumpFails, PumpIsOver
  <2>2. PICK x \in [at : {"reading", "over"}, to : Conns \cup {None}] : pump' = [pump EXCEPT ![s] = x]
    BY <1>9, <1>c DEF PumpFails, PumpIsOver
  <2>3. /\ pump' \in [Conns -> [at : {"reading", "writing", "ending", "over"}, to : Conns \cup {None}]]
        /\ \A q \in Conns : pump'[q].at = "ending" => pump[q].at = "ending"
    BY <1>c, <2>2
  <2>4. current' = current \/ current' = [current EXCEPT ![s] = None]
    BY <1>9 DEF PumpFails, PumpIsOver, SignalCurrentDone
  <2>5. done' \in [Conns -> BOOLEAN]
    BY <1>9, <1>c DEF PumpFails, PumpIsOver, SignalCurrentDone
  <2>6. QED
    BY <1>c, <2>1, <2>3, <2>4, <2>5, JOutside
<1>10. ASSUME NEW s \in Conns, PumpEnds(s) PROVE JInv'
  <2>1. UNCHANGED <<step, sess, child, current, done>> /\ child[s] # "up"
    BY <1>10 DEF PumpEnds
  <2>2. PICK x \in [at : {"ending"}, to : Conns \cup {None}] : pump' = [pump EXCEPT ![s] = x]
    BY <1>10, <1>c DEF PumpEnds
  <2>3. /\ pump' \in [Conns -> [at : {"reading", "writing", "ending", "over"}, to : Conns \cup {None}]]
        /\ \A q \in Conns : q # s => pump'[q] = pump[q]
    BY <1>c, <2>2
  <2>4. QED
    BY <1>c, <2>1, <2>3, JOutside
<1>11. CASE \/ \E c \in Conns : ReaderEnds(c) \/ ClientDrops(c) \/ TimerFires(c) \/ TimerRuns(c)
            \/ \E h \in Hosts : BlockEnds(h) \/ StrikeExpires(h)
            \/ UNCHANGED vars
  <2>1. UNCHANGED <<step, sess, child, pump, current>>
    BY <1>11 DEF ReaderEnds, ClientDrops, TimerFires, TimerRuns, BlockEnds, StrikeExpires, vars, sessions
  <2>2. done' \in [Conns -> BOOLEAN]
    BY <1>11, <1>c DEF ReaderEnds, ClientDrops, TimerFires, TimerRuns, BlockEnds, StrikeExpires, vars
  <2>3. QED
    BY <1>c, <2>1, <2>2, JOutside
<1>12. QED
  BY <1>1, <1>2, <1>3, <1>4, <1>5, <1>6, <1>7, <1>8, <1>9, <1>10, <1>11
  DEF Next, HandlerStep, PumpStep, TimerStep

\* A connection is told that it has ended only when its client has gone or the child of
\* its own session has ended, never on account of an earlier connection.
THEOREM ConnectionsEndRightly == Spec => ConnectionsEndForAReason
<1>1. HInv /\ JInv /\ [Next]_vars =>
        [\A c \in Conns : ~done[c] /\ done'[c] => ~net[c] \/ child[sess[c]] # "up"]_vars
  <2> SUFFICES ASSUME HInv, JInv, Next, NEW c \in Conns, ~done[c], done'[c]
               PROVE  ~net[c] \/ child[sess[c]] # "up"
    OBVIOUS
  <2>1. ASSUME NEW d \in Conns, ReaderEnds(d) PROVE ~net[c] \/ child[sess[c]] # "up"
    <3>1. d = c
      BY <2>1 DEF ReaderEnds
    <3>2. QED
      BY <2>1, <3>1 DEF ReaderEnds
  <2>2. ASSUME NEW s \in Conns, PumpFails(s) PROVE ~net[c] \/ child[sess[c]] # "up"
    <3>1. pump[s].to = c
      BY <2>2 DEF PumpFails, SignalCurrentDone, JInv
    <3>2. QED
      BY <2>2, <3>1 DEF PumpFails
  <2>3. ASSUME NEW s \in Conns, PumpIsOver(s) PROVE ~net[c] \/ child[sess[c]] # "up"
    <3>1. pump[s].to = c /\ current[s] = c /\ c # None
      BY <2>3 DEF PumpIsOver, SignalCurrentDone, JInv
    <3>2. sess[c] = s /\ child[s] # "up"
      BY <2>3, <3>1 DEF PumpIsOver, JInv
    <3>3. QED
      BY <3>2
  <2>4. CASE UNCHANGED done
    BY <2>4
  <2>5. QED
    BY <2>1, <2>2, <2>3, <2>4
    DEF Next, HandlerStep, TimerStep, PumpStep, Admit, Refuse, PreambleFails, Claim, Start, StartFails,
        Attach, Detach, Park, Kill, Release, PumpReads, PumpWrites, PumpEnds, TimerFires, TimerRuns,
        TimerKills, ClientDrops, ChildExits, BlockEnds, StrikeExpires
<1>2. QED
  BY <1>1, HInitially, HInductive, JInitially, JInductive, PTL DEF Spec, ConnectionsEndForAReason

-----------------------------------------------------------------------------
(* What an address holds *)

\* The connections of h that have a slot, and those with a child of their own or about
\* to start one.
Slotted == {"admitted", "starting", "attach", "serving", "park", "kill", "release"}
InUse == {"starting", "attach", "serving", "park", "kill"}
Slots(h) == {c \in Conns : Host[c] = h /\ step[c] \in Slotted}
Busy(h) == {c \in Conns : Host[c] = h /\ step[c] \in InUse}

\* The addresses that the throttle looks at.
Limited == Hosts \ Loopback

\* The throttle counts the slots; and as long as something is parked there, whose slot
\* may have gone to somebody else, one child less is in use than there may be slots:
\* parking makes one free, and only a claim, which ends the parking, takes one.
SInv ==
  /\ throttle \in [Hosts -> [active : 0 .. MaxSessions, strikes : 0 .. Strikes - 1, blocked : BOOLEAN]]
  /\ \A h \in Limited : throttle[h].active = Cardinality(Slots(h))
  /\ \A h \in Limited : parked[h] # None => Cardinality(Busy(h)) < MaxSessions

LEMMA SomeLimited == Limited \subseteq Hosts
BY DEF Limited

LEMMA Numbers == MaxSessions \in Nat /\ MaxSessions > 0 /\ Strikes \in Nat /\ Strikes > 0
BY GatewayAssumption

LEMMA Sizes ==
  ASSUME NEW h
  PROVE  /\ IsFiniteSet(Slots(h)) /\ IsFiniteSet(Busy(h))
         /\ Cardinality(Slots(h)) \in Nat /\ Cardinality(Busy(h)) \in Nat
         /\ Cardinality(Busy(h)) <= Cardinality(Slots(h))
<1>1. Slots(h) \subseteq Conns /\ Busy(h) \subseteq Slots(h)
  BY DEF Slots, Busy, Slotted, InUse
<1>2. IsFiniteSet(Slots(h))
  BY <1>1, GatewayAssumption, FS_Subset
<1>3. IsFiniteSet(Busy(h)) /\ Cardinality(Busy(h)) <= Cardinality(Slots(h))
  BY <1>1, <1>2, FS_Subset
<1>4. QED
  BY <1>2, <1>3, FS_CardinalityType

\* Where a connection goes on, it is in the sets of its own address or not.
LEMMA SetsAfter ==
  ASSUME Shape, NEW c \in Conns, NEW t, step' = [step EXCEPT ![c] = t], NEW h \in Hosts
  PROVE  /\ Slots(h)' = IF h # Host[c] THEN Slots(h)
                        ELSE IF t \in Slotted THEN Slots(h) \cup {c} ELSE Slots(h) \ {c}
         /\ Busy(h)' = IF h # Host[c] THEN Busy(h)
                       ELSE IF t \in InUse THEN Busy(h) \cup {c} ELSE Busy(h) \ {c}
<1>1. \A d \in Conns : step'[d] = IF d = c THEN t ELSE step[d]
  BY DEF Shape
<1>2. QED
  BY <1>1 DEF Slots, Busy

LEMMA SlotsOnly ==
  ASSUME Shape, NEW c \in Conns, step[c] \in Slotted, NEW t \in Slotted,
         step' = [step EXCEPT ![c] = t], NEW h \in Hosts
  PROVE  Slots(h)' = Slots(h)
<1>1. Slots(h)' = IF h # Host[c] THEN Slots(h) ELSE Slots(h) \cup {c}
  BY SetsAfter
<1>2. h = Host[c] => c \in Slots(h)
  BY DEF Slots
<1>3. QED
  BY <1>1, <1>2

\* Handlers that keep their slot, without anything being parked, or where parking makes
\* one child less.
LEMMA SMove ==
  ASSUME Shape, SInv, NEW c \in Conns, step[c] \in Slotted, NEW t \in Slotted,
         step' = [step EXCEPT ![c] = t],
         throttle' \in [Hosts -> [active : 0 .. MaxSessions, strikes : 0 .. Strikes - 1, blocked : BOOLEAN]],
         \A h \in Hosts : throttle'[h].active = throttle[h].active,
         \A h \in Hosts : parked'[h] # None =>
           \/ parked'[h] = parked[h] /\ (h = Host[c] /\ t \in InUse => step[c] \in InUse)
           \/ h = Host[c] /\ step[c] \in InUse /\ t \notin InUse
  PROVE  SInv'
<1>1. \A h \in Limited : throttle'[h].active = Cardinality(Slots(h)')
  BY SlotsOnly, SomeLimited DEF SInv
<1>2. ASSUME NEW h \in Limited, parked'[h] # None PROVE Cardinality(Busy(h)') < MaxSessions
  <2>0. h \in Hosts
    BY SomeLimited
  <2>1. /\ IsFiniteSet(Busy(h)) /\ Cardinality(Busy(h)) \in Nat /\ Cardinality(Slots(h)) \in Nat
        /\ Cardinality(Busy(h)) <= Cardinality(Slots(h)) /\ Cardinality(Slots(h)) <= MaxSessions
    <3>1. Cardinality(Slots(h)) \in 0 .. MaxSessions
      BY <2>0 DEF SInv
    <3>2. QED
      BY <3>1, Sizes, Numbers
  <2>2. CASE parked'[h] = parked[h] /\ (h = Host[c] /\ t \in InUse => step[c] \in InUse)
    <3>1. Cardinality(Busy(h)) < MaxSessions
      BY <1>2, <2>2 DEF SInv
    <3>a. h = Host[c] /\ t \in InUse => c \in Busy(h)
      BY <2>2 DEF Busy
    <3>b. Busy(h)' = IF h # Host[c] THEN Busy(h)
                     ELSE IF t \in InUse THEN Busy(h) \cup {c} ELSE Busy(h) \ {c}
      BY <2>0, SetsAfter
    <3>2. Busy(h)' \subseteq Busy(h)
      BY <3>a, <3>b
    <3>3. Cardinality(Busy(h)') <= Cardinality(Busy(h)) /\ Cardinality(Busy(h)') \in Nat
      BY <2>1, <3>2, FS_Subset, FS_CardinalityType
    <3>4. QED
      BY <2>1, <3>1, <3>3, Numbers
  <2>3. CASE h = Host[c] /\ step[c] \in InUse /\ t \notin InUse
    <3>1. Busy(h)' = Busy(h) \ {c} /\ c \in Busy(h)
      <4>1. Busy(h)' = Busy(h) \ {c}
        BY <2>0, <2>3, SetsAfter
      <4>2. c \in Busy(h)
        BY <2>3 DEF Busy
      <4>3. QED
        BY <4>1, <4>2
    <3>2. Cardinality(Busy(h) \ {c}) = Cardinality(Busy(h)) - 1
      BY <2>1, <3>1, FS_RemoveElement
    <3>3. QED
      BY <2>1, <3>1, <3>2, Numbers
  <2>4. QED
    BY <1>2, <2>0, <2>2, <2>3
<1>3. QED
  BY <1>1, <1>2 DEF SInv

\* Where no connection goes on, nothing is parked and no slot changes hands.
LEMMA SElsewhere ==
  ASSUME SInv, UNCHANGED step,
         throttle' \in [Hosts -> [active : 0 .. MaxSessions, strikes : 0 .. Strikes - 1, blocked : BOOLEAN]],
         \A h \in Hosts : throttle'[h].active = throttle[h].active,
         \A h \in Hosts : parked'[h] # None => parked'[h] = parked[h]
  PROVE  SInv'
<1>1. \A h \in Hosts : Slots(h)' = Slots(h) /\ Busy(h)' = Busy(h)
  BY DEF Slots, Busy
<1>2. QED
  BY <1>1, SomeLimited DEF SInv

\* This machine's own connections come and go without a slot.
LEMMA ExemptKeeps ==
  ASSUME Shape, SInv, NEW c \in Conns, Host[c] \in Loopback, Admit(c) \/ Release(c) PROVE SInv'
<1>1. PICK t \in {"admitted", "gone"} : step' = [step EXCEPT ![c] = t] /\ UNCHANGED <<parked, throttle>>
  BY DEF Admit, Release, Goes, registry
<1>2. \A h \in Limited : Slots(h)' = Slots(h) /\ Busy(h)' = Busy(h)
  BY <1>1, SetsAfter DEF Limited
<1>3. QED
  BY <1>1, <1>2 DEF SInv

\* A slot is taken only where there is one.
LEMMA AdmitKeeps ==
  ASSUME Shape, SInv, NEW c \in Conns, Host[c] \notin Loopback, Admit(c) PROVE SInv'
<1>1. PICK g \in Limited : g = Host[c] /\ g \in Hosts
  BY Setting DEF Limited
<1>2. PICK x \in [active : 0 .. MaxSessions, strikes : 0 .. Strikes - 1, blocked : BOOLEAN] : x = throttle[g]
  BY <1>1, SomeLimited DEF SInv
<1>3. /\ step[c] = "new" /\ step' = [step EXCEPT ![c] = "admitted"] /\ UNCHANGED parked
      /\ x.active < MaxSessions
      /\ throttle' = [throttle EXCEPT ![g] = [x EXCEPT !.active = x.active + 1]]
  BY <1>1, <1>2 DEF Admit, HasRoom, Goes, registry, Limited
<1>4. PICK n \in 0 .. MaxSessions : n = x.active + 1
  BY <1>3, Numbers
<1>a. [x EXCEPT !.active = n] \in [active : 0 .. MaxSessions, strikes : 0 .. Strikes - 1, blocked : BOOLEAN]
  OBVIOUS
<1>5. PICK y \in [active : 0 .. MaxSessions, strikes : 0 .. Strikes - 1, blocked : BOOLEAN] :
        y = [x EXCEPT !.active = n] /\ y.active = n
  BY <1>a
<1>6. throttle' = [throttle EXCEPT ![g] = y]
  BY <1>3, <1>4, <1>5
<1>7. throttle' \in [Hosts -> [active : 0 .. MaxSessions, strikes : 0 .. Strikes - 1, blocked : BOOLEAN]]
      /\ \A h \in Hosts : throttle'[h].active = IF h = g THEN n ELSE throttle[h].active
  BY <1>5, <1>6 DEF SInv
<1>8. /\ "admitted" \in Slotted /\ "admitted" \notin InUse /\ "new" \notin Slotted /\ "new" \notin InUse
  BY DEF Slotted, InUse
<1>9. \A h \in Hosts : Slots(h)' = IF h = g THEN Slots(h) \cup {c} ELSE Slots(h)
  BY <1>1, <1>3, <1>8, SetsAfter
<1>10. \A h \in Hosts : Busy(h)' = Busy(h)
  BY <1>1, <1>3, <1>8, SetsAfter DEF Busy
<1>11. c \notin Slots(g)
  BY <1>3, <1>8 DEF Slots
<1>12. Cardinality(Slots(g) \cup {c}) = Cardinality(Slots(g)) + 1
  BY <1>11, Sizes, FS_AddElement
<1>13. \A h \in Limited : throttle'[h].active = Cardinality(Slots(h)')
  BY <1>1, <1>2, <1>4, <1>7, <1>9, <1>12, SomeLimited DEF SInv
<1>14. QED
  BY <1>3, <1>7, <1>10, <1>13, SomeLimited DEF SInv

LEMMA RefuseKeeps ==
  ASSUME Shape, SInv, NEW c \in Conns, Refuse(c) PROVE SInv'
<1>1. step[c] = "new" /\ step' = [step EXCEPT ![c] = "gone"] /\ UNCHANGED <<parked, throttle>>
  BY DEF Refuse, Goes, registry
<1>2. "gone" \notin Slotted /\ "gone" \notin InUse /\ "new" \notin Slotted /\ "new" \notin InUse
  BY DEF Slotted, InUse
<1>3. \A h \in Hosts : Slots(h)' = Slots(h) /\ Busy(h)' = Busy(h)
  BY <1>1, <1>2, SetsAfter DEF Slots, Busy
<1>4. QED
  BY <1>1, <1>3, SomeLimited DEF SInv

\* A slot is given back by the one who had it.
LEMMA ReleaseKeeps ==
  ASSUME Shape, SInv, NEW c \in Conns, Host[c] \notin Loopback, Release(c) PROVE SInv'
<1>1. PICK g \in Limited : g = Host[c] /\ g \in Hosts
  BY Setting DEF Limited
<1>2. PICK x \in [active : 0 .. MaxSessions, strikes : 0 .. Strikes - 1, blocked : BOOLEAN] : x = throttle[g]
  BY <1>1, SomeLimited DEF SInv
<1>3. /\ step[c] = "release" /\ step' = [step EXCEPT ![c] = "gone"] /\ UNCHANGED parked
      /\ throttle' = [throttle EXCEPT ![g] = [x EXCEPT !.active = x.active - 1]]
  BY <1>1, <1>2 DEF Release, Goes, registry
<1>4. /\ "gone" \notin Slotted /\ "gone" \notin InUse /\ "release" \in Slotted /\ "release" \notin InUse
  BY DEF Slotted, InUse
<1>5. \A h \in Hosts : Slots(h)' = IF h = g THEN Slots(h) \ {c} ELSE Slots(h)
  BY <1>1, <1>3, <1>4, SetsAfter
<1>6. \A h \in Hosts : Busy(h)' = Busy(h)
  BY <1>1, <1>3, <1>4, SetsAfter DEF Busy
<1>7. c \in Slots(g)
  BY <1>1, <1>3, <1>4 DEF Slots
<1>8. /\ Cardinality(Slots(g) \ {c}) = Cardinality(Slots(g)) - 1 /\ Cardinality(Slots(g) \ {c}) \in Nat
      /\ x.active = Cardinality(Slots(g))
  BY <1>2, <1>7, Sizes, FS_RemoveElement, FS_CardinalityType DEF SInv
<1>9. PICK n \in 0 .. MaxSessions : n = x.active - 1
  BY <1>8, Numbers
<1>a. [x EXCEPT !.active = n] \in [active : 0 .. MaxSessions, strikes : 0 .. Strikes - 1, blocked : BOOLEAN]
  OBVIOUS
<1>10. PICK y \in [active : 0 .. MaxSessions, strikes : 0 .. Strikes - 1, blocked : BOOLEAN] :
         y = [x EXCEPT !.active = n] /\ y.active = n
  BY <1>a
<1>11. throttle' = [throttle EXCEPT ![g] = y]
  BY <1>3, <1>9, <1>10
<1>12. throttle' \in [Hosts -> [active : 0 .. MaxSessions, strikes : 0 .. Strikes - 1, blocked : BOOLEAN]]
       /\ \A h \in Hosts : throttle'[h].active = IF h = g THEN n ELSE throttle[h].active
  BY <1>10, <1>11 DEF SInv
<1>13. \A h \in Limited : throttle'[h].active = Cardinality(Slots(h)')
  BY <1>5, <1>8, <1>9, <1>12, SomeLimited DEF SInv
<1>14. QED
  BY <1>3, <1>6, <1>12, <1>13, SomeLimited DEF SInv

\* Strikes and blocks leave the slots alone.
LEMMA StruckIs ==
  ASSUME NEW x \in [active : 0 .. MaxSessions, strikes : 0 .. Strikes - 1, blocked : BOOLEAN]
  PROVE  /\ Struck(x) \in [active : 0 .. MaxSessions, strikes : 0 .. Strikes - 1, blocked : BOOLEAN]
         /\ Struck(x).active = x.active
<1>1. CASE x.strikes + 1 >= Strikes
  <2>1. 0 \in 0 .. Strikes - 1
    BY Numbers
  <2>2. QED
    BY <1>1, <2>1 DEF Struck
<1>2. CASE ~(x.strikes + 1 >= Strikes)
  <2>1. PICK n \in 0 .. Strikes - 1 : n = x.strikes + 1
    BY <1>2, Numbers
  <2>2. Struck(x) = [x EXCEPT !.strikes = n]
    BY <1>2, <2>1 DEF Struck
  <2>3. QED
    BY <2>2
<1>3. QED
  BY <1>1, <1>2

LEMMA ThrottleKeeps ==
  ASSUME SInv, NEW h \in Hosts, BlockEnds(h) \/ StrikeExpires(h) PROVE SInv'
<1>1. PICK x \in [active : 0 .. MaxSessions, strikes : 0 .. Strikes - 1, blocked : BOOLEAN] : x = throttle[h]
  BY DEF SInv
<1>2. UNCHANGED <<step, parked>>
  BY DEF BlockEnds, StrikeExpires, registry
<1>3. PICK y \in [active : 0 .. MaxSessions, strikes : 0 .. Strikes - 1, blocked : BOOLEAN] :
        y.active = x.active /\ throttle' = [throttle EXCEPT ![h] = y]
  <2>1. CASE BlockEnds(h)
    <3>1. throttle' = [throttle EXCEPT ![h] = [x EXCEPT !.blocked = FALSE]]
      BY <1>1, <2>1 DEF BlockEnds
    <3>2. QED
      BY <3>1
  <2>2. CASE StrikeExpires(h)
    <3>1. PICK n \in 0 .. Strikes - 1 : n = x.strikes - 1
      BY <1>1, <2>2, Numbers DEF StrikeExpires
    <3>2. throttle' = [throttle EXCEPT ![h] = [x EXCEPT !.strikes = n]]
      BY <1>1, <2>2, <3>1 DEF StrikeExpires
    <3>3. QED
      BY <3>2
  <2>3. QED
    BY <2>1, <2>2
<1>4. /\ throttle' \in [Hosts -> [active : 0 .. MaxSessions, strikes : 0 .. Strikes - 1, blocked : BOOLEAN]]
      /\ \A g \in Hosts : throttle'[g].active = throttle[g].active
  BY <1>1, <1>3 DEF SInv
<1>5. QED
  BY <1>2, <1>4, SElsewhere

LEMMA SInitially == Init => SInv
<1> SUFFICES ASSUME Init PROVE SInv
  OBVIOUS
<1>1. \A h \in Hosts : Slots(h) = {}
  BY DEF Init, Slots, Slotted
<1>2. 0 \in 0 .. MaxSessions /\ 0 \in 0 .. Strikes - 1 /\ Cardinality({}) = 0
  BY Numbers, FS_EmptySet
<1>3. QED
  BY <1>1, <1>2, SomeLimited DEF Init, SInv

\* The handler's steps between the first and the last, each with its place before and after.
LEMMA HandlerKeeps ==
  ASSUME HInv, SInv, NEW c \in Conns,
         \/ PreambleFails(c) \/ Claim(c) \/ Start(c) \/ StartFails(c) \/ Attach(c)
         \/ Detach(c) \/ Park(c) \/ Kill(c)
  PROVE  SInv'
<1>0. Shape /\ Host[c] \in Hosts
  BY Setting DEF HInv
<1>t. throttle \in [Hosts -> [active : 0 .. MaxSessions, strikes : 0 .. Strikes - 1, blocked : BOOLEAN]]
  BY DEF SInv
<1>1. CASE PreambleFails(c) \/ Start(c) \/ StartFails(c) \/ Attach(c) \/ Detach(c)
  <2>1. UNCHANGED <<parked, throttle>> /\ step[c] \in Slotted
    BY <1>1 DEF PreambleFails, Start, StartFails, Attach, Detach, registry, Slotted
  <2>2. PICK t \in Slotted : step' = [step EXCEPT ![c] = t] /\ (t \in InUse => step[c] \in InUse)
    BY <1>1 DEF PreambleFails, Start, StartFails, Attach, Detach, Goes, Slotted, InUse
  <2>3. QED
    BY <1>0, <1>t, <2>1, <2>2, SMove
<1>2. CASE Claim(c)
  <2>1. UNCHANGED throttle /\ step[c] = "admitted" /\ step[c] \in Slotted
    BY <1>2 DEF Claim, Slotted
  <2>2. CASE parked[Host[c]] = None
    <3>1. UNCHANGED parked
      BY <1>2, <2>2 DEF Claim, registry
    <3>2. PICK t \in Slotted : step' = [step EXCEPT ![c] = t]
      BY <1>2, <2>2 DEF Claim, Goes, Slotted
    <3>3. \A h \in Hosts : parked'[h] # None => parked'[h] = parked[h] /\ h # Host[c]
      BY <2>2, <3>1
    <3>4. QED
      BY <1>0, <1>t, <2>1, <3>2, <3>3, SMove
  <2>3. CASE parked[Host[c]] # None
    <3>1. parked' = [parked EXCEPT ![Host[c]] = None]
      BY <1>2, <2>3 DEF Claim
    <3>2. PICK t \in Slotted : step' = [step EXCEPT ![c] = t]
      BY <1>2, <2>3 DEF Claim, Goes, Slotted
    <3>3. \A h \in Hosts : parked'[h] # None => parked'[h] = parked[h] /\ h # Host[c]
      BY <1>0, <3>1 DEF Shape
    <3>4. QED
      BY <1>0, <1>t, <2>1, <3>2, <3>3, SMove
  <2>4. QED
    BY <2>2, <2>3
<1>3. CASE Park(c)
  <2>1. /\ UNCHANGED throttle /\ step[c] \in Slotted /\ step[c] \in InUse
        /\ parked' = [parked EXCEPT ![Host[c]] = c] /\ step' = [step EXCEPT ![c] = "release"]
    BY <1>3 DEF Park, Goes, Slotted, InUse
  <2>2. PICK t \in Slotted : t = "release" /\ t \notin InUse
    BY DEF Slotted, InUse
  <2>3. \A h \in Hosts : parked'[h] = parked[h] \/ h = Host[c]
    BY <1>0, <2>1 DEF Shape
  <2>4. QED
    BY <1>0, <1>t, <2>1, <2>2, <2>3, SMove
<1>4. CASE Kill(c)
  <2>1. UNCHANGED parked /\ step[c] \in Slotted /\ step' = [step EXCEPT ![c] = "release"]
    BY <1>4 DEF Kill, registry, Goes, Slotted
  <2>2. PICK t \in Slotted : t = "release" /\ t \notin InUse
    BY DEF Slotted, InUse
  <2>3. throttle' = throttle \/ throttle' = [throttle EXCEPT ![Host[c]] = Struck(throttle[Host[c]])]
    BY <1>4 DEF Kill
  <2>4. /\ throttle' \in [Hosts -> [active : 0 .. MaxSessions, strikes : 0 .. Strikes - 1, blocked : BOOLEAN]]
        /\ \A h \in Hosts : throttle'[h].active = throttle[h].active
    <3>1. PICK x \in [active : 0 .. MaxSessions, strikes : 0 .. Strikes - 1, blocked : BOOLEAN] :
            x = throttle[Host[c]]
      BY <1>0, <1>t
    <3>2. PICK y \in [active : 0 .. MaxSessions, strikes : 0 .. Strikes - 1, blocked : BOOLEAN] :
            y = Struck(x) /\ y.active = x.active
      BY StruckIs
    <3>3. QED
      BY <1>0, <1>t, <2>3, <3>1, <3>2
  <2>5. QED
    BY <1>0, <2>1, <2>2, <2>4, SMove
<1>5. QED
  BY <1>1, <1>2, <1>3, <1>4

LEMMA SInductive == HInv /\ SInv /\ [Next]_vars => SInv'
<1> SUFFICES ASSUME HInv, SInv, [Next]_vars PROVE SInv'
  OBVIOUS
<1>0. Shape
  BY DEF HInv
<1>1. ASSUME NEW c \in Conns, Admit(c) \/ Refuse(c) \/ HandlerStep(c) PROVE SInv'
  BY <1>0, <1>1, ExemptKeeps, AdmitKeeps, RefuseKeeps, ReleaseKeeps, HandlerKeeps DEF HandlerStep
<1>2. ASSUME NEW h \in Hosts, BlockEnds(h) \/ StrikeExpires(h) PROVE SInv'
  BY <1>2, ThrottleKeeps
<1>3. CASE \/ \E c \in Conns : \/ ReaderEnds(c) \/ PumpReads(c) \/ PumpStep(c) \/ TimerStep(c)
                               \/ ClientDrops(c) \/ ChildExits(c)
           \/ UNCHANGED vars
  <2>1. UNCHANGED <<step, throttle>>
    BY <1>3 DEF ReaderEnds, PumpReads, PumpStep, PumpWrites, PumpFails, PumpEnds, PumpIsOver, TimerStep,
                TimerFires, TimerRuns, TimerKills, ClientDrops, ChildExits, vars
  <2>2. UNCHANGED parked \/ \E p \in Conns : TimerRuns(p)
    BY <1>3 DEF ReaderEnds, PumpReads, PumpStep, PumpWrites, PumpFails, PumpEnds, PumpIsOver, TimerStep,
                TimerFires, TimerKills, ClientDrops, ChildExits, vars, registry
  <2>3. \A h \in Hosts : parked'[h] # None => parked'[h] = parked[h]
    BY <1>0, <2>2 DEF TimerRuns, Shape
  <2>4. QED
    BY <2>1, <2>3, SElsewhere DEF SInv
<1>4. QED
  BY <1>1, <1>2, <1>3 DEF Next

\* An address that the throttle looks at (any but this machine's own) never has more
\* sessions starting, served and parked than it may have slots, though the parked one has
\* given its slot back, in whatever order links drop, come back and are claimed.  A child
\* whose timer is about to kill it is not counted.
THEOREM FewSessions == Spec => []AddressesHoldFewSessions
<1>1. HInv /\ SInv => AddressesHoldFewSessions
  <2>1. SUFFICES ASSUME HInv, SInv, NEW h \in Limited
                 PROVE  Cardinality({c \in Conns : Host[c] = h /\ (step[c] = "starting" \/ Serves(c)
                                                                     \/ parked[h] = c)}) <= MaxSessions
    BY DEF AddressesHoldFewSessions, Limited
  <2> DEFINE Held == {c \in Conns : Host[c] = h /\ (step[c] = "starting" \/ Serves(c) \/ parked[h] = c)}
  <2>2. IsFiniteSet(Busy(h)) /\ Cardinality(Busy(h)) \in Nat
    BY Sizes
  <2>3. CASE parked[h] = None
    <3>1. Held = Busy(h)
      BY <2>3, Setting DEF Busy, InUse, Serves
    <3>2. Cardinality(Slots(h)) \in 0 .. MaxSessions
      BY <2>1, SomeLimited DEF SInv
    <3>3. QED
      BY <2>2, <3>1, <3>2, Sizes, Numbers
  <2>4. CASE parked[h] # None
    <3>1. Held \subseteq Busy(h) \cup {parked[h]}
      BY DEF Busy, InUse, Serves
    <3>2. IsFiniteSet(Busy(h) \cup {parked[h]}) /\ Cardinality(Busy(h) \cup {parked[h]}) <= Cardinality(Busy(h)) + 1
      <4>1. PICK p : p = parked[h]
        OBVIOUS
      <4>2. /\ IsFiniteSet(Busy(h) \cup {p})
            /\ Cardinality(Busy(h) \cup {p}) = IF p \in Busy(h) THEN Cardinality(Busy(h)) ELSE Cardinality(Busy(h)) + 1
        BY <2>2, FS_AddElement
      <4>3. QED
        BY <2>2, <4>1, <4>2
    <3>3. Cardinality(Held) <= Cardinality(Busy(h) \cup {parked[h]}) /\ Cardinality(Held) \in Nat
      BY <3>1, <3>2, FS_Subset, FS_CardinalityType
    <3>4. Cardinality(Busy(h)) < MaxSessions
      BY <2>1, <2>4 DEF SInv
    <3>5. Cardinality(Busy(h) \cup {parked[h]}) \in Nat
      BY <3>2, FS_CardinalityType
    <3>6. QED
      BY <2>2, <3>2, <3>3, <3>4, <3>5, Numbers
  <2>5. QED
    BY <2>3, <2>4
<1>2. QED
  BY <1>1, HInitially, HInductive, SInitially, SInductive, PTL DEF Spec

\* Every variable keeps its type, the throttle's counts their bounds.
THEOREM GatewayTypes == Spec => []TypeOK
<1> DEFINE Rest == reconnect \in BOOLEAN /\ net \in [Conns -> BOOLEAN]
<1>1. HInv /\ JInv /\ SInv /\ Rest => TypeOK
  BY DEF HInv, Shape, JInv, SInv, TypeOK, Early, Serving, Late
<1>2. Init => Rest
  BY DEF Init
<1>3. Rest /\ [Next]_vars => Rest'
  <2>1. SUFFICES ASSUME Rest, [Next]_vars PROVE Rest'
    OBVIOUS
  <2>2. /\ reconnect' = reconnect
        /\ net' = net \/ \E c \in Conns : net' = [net EXCEPT ![c] = FALSE]
    BY <2>1 DEF Next, HandlerStep, TimerStep, PumpStep, Admit, Refuse, PreambleFails, Claim, Start,
        StartFails, Attach, Detach, Park, Kill, Release, ReaderEnds, PumpReads, PumpWrites, PumpFails,
        PumpEnds, PumpIsOver, TimerFires, TimerRuns, TimerKills, ClientDrops, ChildExits, BlockEnds,
        StrikeExpires, vars
  <2>3. QED
    BY <2>1, <2>2
<1> HIDE DEF Rest
<1>4. QED
  BY <1>1, <1>2, <1>3, HInitially, HInductive, JInitially, JInductive, SInitially, SInductive, PTL DEF Spec
=============================================================================
