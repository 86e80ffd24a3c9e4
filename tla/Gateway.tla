-------------------------------- MODULE Gateway --------------------------------
(***************************************************************************)
(* The telnet gateway: a connection is admitted, gets a child `wms tui` of   *)
(* its own or takes over the one that its address left behind, and gives it  *)
(* up when the link drops (internal/gateway telnet.go, reconnect.go,         *)
(* throttle.go).                                                             *)
(*                                                                         *)
(* Concurrent are one handler and one reader per connection, one pump per    *)
(* child, one timer per parked session, and the world outside.  An action is *)
(* what a goroutine does under one mutex, or up to its next blocking call.   *)
(***************************************************************************)
EXTENDS Integers, FiniteSets

CONSTANTS
  Conns,        \* connections; each is used once
  Hosts,        \* client addresses
  Host,         \* Host[c]: where c comes from
  Loopback,     \* this machine's own addresses, which the throttle exempts
  MaxSessions,  \* Throttle.MaxSessions
  Strikes,      \* Throttle.Strikes
  None          \* no connection

ASSUME GatewayAssumption ==
  /\ Host \in [Conns -> Hosts] /\ None \notin Conns /\ Loopback \subseteq Hosts
  /\ IsFiniteSet(Conns)
  /\ MaxSessions \in Nat \ {0} /\ Strikes \in Nat \ {0}

VARIABLES
  reconnect,  \* the setting: is rc.grace positive?
  step,       \* per connection: how far handleTelnetSession is
  net,        \* per connection: is the client still there?
  done,       \* per connection: is its done channel closed?
  sess,       \* per connection: its session, named after the connection that started it
  child,      \* per session: its process, or how that ended
  pump,       \* per session: what pump does, and the connection it has in its hand
  current,    \* per session: the attached connection
  parked,     \* per host: the connection that parked a session there, or None
  timer,      \* per connection that parked: the timer of the grace period
  throttle    \* per host: active sessions, strikes, blocked or not

sessions == <<child, pump, current>>
registry == <<parked, timer>>
vars == <<reconnect, step, net, done, sess, sessions, registry, throttle>>

-----------------------------------------------------------------------------
Init ==
  /\ reconnect \in BOOLEAN
  /\ step = [c \in Conns |-> "new"]
  /\ net = [c \in Conns |-> TRUE]
  /\ done = [c \in Conns |-> FALSE]
  /\ sess = [c \in Conns |-> None]
  /\ child = [s \in Conns |-> "none"]
  /\ pump = [s \in Conns |-> [at |-> "over", to |-> None]]
  /\ current = [s \in Conns |-> None]
  /\ parked = [h \in Hosts |-> None]
  /\ timer = [c \in Conns |-> "off"]
  /\ throttle = [h \in Hosts |-> [active |-> 0, strikes |-> 0, blocked |-> FALSE]]

Goes(c, to) == step' = [step EXCEPT ![c] = to]
Killed(s) == IF child[s] = "up" THEN [child EXCEPT ![s] = "killed"] ELSE child
Stopped(p) == IF timer[p] = "running" THEN [timer EXCEPT ![p] = "off"] ELSE timer

-----------------------------------------------------------------------------
(* throttle.go: this machine's own connections are never refused, take no slot and *)
(* leave no strikes.                                                               *)

\* Mutant: one session more.
HasRoomForOneMore(h) == h \in Loopback \/ (~throttle[h].blocked /\ throttle[h].active <= MaxSessions)

HasRoom(h) == h \in Loopback \/ (~throttle[h].blocked /\ throttle[h].active < MaxSessions)

Admit(c) ==
  /\ step[c] = "new" /\ HasRoom(Host[c])
  /\ throttle' = IF Host[c] \in Loopback THEN throttle
                 ELSE [throttle EXCEPT ![Host[c]].active = @ + 1]
  /\ Goes(c, "admitted")
  /\ UNCHANGED <<reconnect, net, done, sess, sessions, registry>>

Refuse(c) ==
  /\ step[c] = "new" /\ ~HasRoom(Host[c])
  /\ net' = [net EXCEPT ![c] = FALSE]
  /\ Goes(c, "gone")
  /\ UNCHANGED <<reconnect, done, sess, sessions, registry, throttle>>

\* The deferred release and conn.Close.
Release(c) ==
  /\ step[c] = "release"
  /\ throttle' = IF Host[c] \in Loopback THEN throttle
                 ELSE [throttle EXCEPT ![Host[c]].active = @ - 1]
  /\ net' = [net EXCEPT ![c] = FALSE]
  /\ Goes(c, "gone")
  /\ UNCHANGED <<reconnect, done, sess, sessions, registry>>

\* Mutant: the block comes one strike late.
StruckLate(x) ==
  IF x.strikes + 1 > Strikes THEN [x EXCEPT !.strikes = 0, !.blocked = TRUE]
  ELSE [x EXCEPT !.strikes = @ + 1]

\* Enough strikes in a short while block the address.
Struck(x) ==
  IF x.strikes + 1 >= Strikes THEN [x EXCEPT !.strikes = 0, !.blocked = TRUE]
  ELSE [x EXCEPT !.strikes = @ + 1]

BlockEnds(h) ==
  /\ throttle[h].blocked
  /\ throttle' = [throttle EXCEPT ![h].blocked = FALSE]
  /\ UNCHANGED <<reconnect, step, net, done, sess, sessions, registry>>

StrikeExpires(h) ==
  /\ throttle[h].strikes > 0
  /\ throttle' = [throttle EXCEPT ![h].strikes = @ - 1]
  /\ UNCHANGED <<reconnect, step, net, done, sess, sessions, registry>>

-----------------------------------------------------------------------------
(* handleTelnetSession: a session is found or started *)

\* The preamble cannot be written to a client that has gone.
PreambleFails(c) ==
  /\ step[c] = "admitted" /\ ~net[c]
  /\ Goes(c, "release")
  /\ UNCHANGED <<reconnect, net, done, sess, sessions, registry, throttle>>

\* claim: whatever is parked at this address; its timer is stopped, if it has not fired.
Claim(c) ==
  LET p == parked[Host[c]] IN
  /\ step[c] = "admitted"
  /\ IF p = None THEN Goes(c, "starting") /\ UNCHANGED <<sess, registry>>
     ELSE /\ sess' = [sess EXCEPT ![c] = sess[p]]
          /\ parked' = [parked EXCEPT ![Host[c]] = None]
          /\ timer' = Stopped(p)
          /\ Goes(c, "attach")
  /\ UNCHANGED <<reconnect, net, done, sessions, throttle>>

\* pty.Start and newSession, after the question whether live or test.
Start(c) ==
  /\ step[c] = "starting"
  /\ sess' = [sess EXCEPT ![c] = c]
  /\ child' = [child EXCEPT ![c] = "up"]
  /\ pump' = [pump EXCEPT ![c].at = "reading"]
  /\ Goes(c, "attach")
  /\ UNCHANGED <<reconnect, net, done, current, registry, throttle>>

StartFails(c) ==
  /\ step[c] = "starting"
  /\ Goes(c, "release")
  /\ UNCHANGED <<reconnect, net, done, sess, sessions, registry, throttle>>

Attach(c) ==
  /\ step[c] = "attach"
  /\ current' = [current EXCEPT ![sess[c]] = c]
  /\ Goes(c, "serving")
  /\ UNCHANGED <<reconnect, net, done, sess, child, pump, registry, throttle>>

-----------------------------------------------------------------------------
(* Serving *)

\* The reader: the client has gone, or has been silent for too long, or what it types
\* cannot be written to a child that has ended.
ReaderEnds(c) ==
  /\ step[c] = "serving" /\ ~done[c]
  /\ ~net[c] \/ child[sess[c]] # "up"
  /\ done' = [done EXCEPT ![c] = TRUE]
  /\ UNCHANGED <<reconnect, step, net, sess, sessions, registry, throttle>>

\* Mutant: whoever is attached by now is told.
SignalAnyone(s, c) ==
  IF current[s] # None
  THEN /\ current' = [current EXCEPT ![s] = None]
       /\ done' = [done EXCEPT ![current[s]] = TRUE]
  ELSE UNCHANGED <<current, done>>

\* signalCurrentDone: c is detached and told, if it is still the one attached.
SignalCurrentDone(s, c) ==
  IF c # None /\ current[s] = c
  THEN /\ current' = [current EXCEPT ![s] = None]
       /\ done' = [done EXCEPT ![c] = TRUE]
  ELSE UNCHANGED <<current, done>>

\* pump has read output and looks who is attached (without anybody it is dropped) ...
PumpReads(s) ==
  /\ pump[s].at = "reading" /\ child[s] = "up" /\ current[s] # None
  /\ pump' = [pump EXCEPT ![s] = [at |-> "writing", to |-> current[s]]]
  /\ UNCHANGED <<reconnect, step, net, done, sess, child, current, registry, throttle>>

\* ... and writes to that connection: it succeeds ...
PumpWrites(s) ==
  /\ pump[s].at = "writing"
  /\ pump' = [pump EXCEPT ![s] = [at |-> "reading", to |-> None]]
  /\ UNCHANGED <<reconnect, step, net, done, sess, child, current, registry, throttle>>

\* ... or fails, as the client has gone.
PumpFails(s) ==
  /\ pump[s].at = "writing" /\ ~net[pump[s].to]
  /\ pump' = [pump EXCEPT ![s] = [at |-> "reading", to |-> None]]
  /\ SignalCurrentDone(s, pump[s].to)
  /\ UNCHANGED <<reconnect, step, net, sess, child, registry, throttle>>

\* The child has ended: pump looks who is attached ...
PumpEnds(s) ==
  /\ pump[s].at = "reading" /\ child[s] # "up"
  /\ pump' = [pump EXCEPT ![s] = [at |-> "ending", to |-> current[s]]]
  /\ UNCHANGED <<reconnect, step, net, done, sess, child, current, registry, throttle>>

\* ... tells it and is over.
PumpIsOver(s) ==
  /\ pump[s].at = "ending"
  /\ pump' = [pump EXCEPT ![s] = [at |-> "over", to |-> None]]
  /\ SignalCurrentDone(s, pump[s].to)
  /\ UNCHANGED <<reconnect, step, net, sess, child, registry, throttle>>

-----------------------------------------------------------------------------
(* The end of a connection *)

Detach(c) ==
  LET s == sess[c] IN
  /\ step[c] = "serving" /\ done[c]
  /\ current' = IF current[s] = c THEN [current EXCEPT ![s] = None] ELSE current
  /\ Goes(c, IF reconnect THEN "park" ELSE "kill")
  /\ UNCHANGED <<reconnect, net, done, sess, child, pump, registry, throttle>>

\* Without reconnects: killSession, and a strike for a session that had ended by itself
\* with its sign-in attempts used up (exit status 42).
Kill(c) ==
  LET s == sess[c] IN
  /\ step[c] = "kill"
  /\ child' = Killed(s)
  /\ \/ UNCHANGED throttle
     \/ /\ child[s] = "ended" /\ Host[c] \notin Loopback
        /\ throttle' = [throttle EXCEPT ![Host[c]] = Struck(@)]
  /\ Goes(c, "release")
  /\ UNCHANGED <<reconnect, net, done, sess, pump, current, registry>>

\* Mutant: what was parked before is forgotten.
ParkOver(c) ==
  LET h == Host[c] IN
  /\ step[c] = "park"
  /\ timer' = [timer EXCEPT ![c] = "running"]
  /\ parked' = [parked EXCEPT ![h] = c]
  /\ Goes(c, "release")
  /\ UNCHANGED <<reconnect, net, done, sess, sessions, throttle>>

\* Mutant: the timer is not set.
ParkForGood(c) ==
  LET h == Host[c] IN
  /\ step[c] = "park"
  /\ IF parked[h] = None THEN UNCHANGED child ELSE child' = Killed(sess[parked[h]])
  /\ parked' = [parked EXCEPT ![h] = c]
  /\ Goes(c, "release")
  /\ UNCHANGED <<reconnect, net, done, sess, pump, current, timer, throttle>>

\* park: an older session at this address makes room; the grace period begins.  (The
\* timer is set just before the map is locked; a grace period is longer than that.)
Park(c) ==
  LET h == Host[c]
      old == parked[h]
  IN /\ step[c] = "park"
     /\ IF old = None THEN timer' = [timer EXCEPT ![c] = "running"] /\ UNCHANGED child
        ELSE timer' = [Stopped(old) EXCEPT ![c] = "running"] /\ child' = Killed(sess[old])
     /\ parked' = [parked EXCEPT ![h] = c]
     /\ Goes(c, "release")
     /\ UNCHANGED <<reconnect, net, done, sess, pump, current, throttle>>

\* The grace period is over ...
TimerFires(p) ==
  /\ timer[p] = "running"
  /\ timer' = [timer EXCEPT ![p] = "fired"]
  /\ UNCHANGED <<reconnect, step, net, done, sess, sessions, parked, throttle>>

\* Mutant: whatever is parked at the address is taken for its own.
TimerTakesAny(p) ==
  /\ timer[p] = "fired"
  /\ IF parked[Host[p]] # None
     THEN parked' = [parked EXCEPT ![Host[p]] = None] /\ timer' = [timer EXCEPT ![p] = "killing"]
     ELSE timer' = [timer EXCEPT ![p] = "off"] /\ UNCHANGED parked
  /\ UNCHANGED <<reconnect, step, net, done, sess, sessions, throttle>>

\* ... the timer looks whether its parking is still there, and takes it off the map ...
TimerRuns(p) ==
  /\ timer[p] = "fired"
  /\ IF parked[Host[p]] = p
     THEN parked' = [parked EXCEPT ![Host[p]] = None] /\ timer' = [timer EXCEPT ![p] = "killing"]
     ELSE timer' = [timer EXCEPT ![p] = "off"] /\ UNCHANGED parked
  /\ UNCHANGED <<reconnect, step, net, done, sess, sessions, throttle>>

\* ... and kills it.
TimerKills(p) ==
  /\ timer[p] = "killing"
  /\ child' = Killed(sess[p])
  /\ timer' = [timer EXCEPT ![p] = "off"]
  /\ UNCHANGED <<reconnect, step, net, done, sess, pump, current, parked, throttle>>

-----------------------------------------------------------------------------
(* The world outside *)

\* (Between these steps nothing looks at the client: a link that drops there might as
\* well drop a little later.)
ClientDrops(c) ==
  /\ net[c] /\ step[c] \in {"admitted", "serving"}
  /\ net' = [net EXCEPT ![c] = FALSE]
  /\ UNCHANGED <<reconnect, step, done, sess, sessions, registry, throttle>>

\* The user signs out, or has used up the sign-in attempts.
ChildExits(s) ==
  /\ child[s] = "up"
  /\ child' = [child EXCEPT ![s] = "ended"]
  /\ UNCHANGED <<reconnect, step, net, done, sess, pump, current, registry, throttle>>

-----------------------------------------------------------------------------
HandlerStep(c) == \/ PreambleFails(c) \/ Claim(c) \/ Start(c) \/ StartFails(c) \/ Attach(c)
                  \/ Detach(c) \/ Park(c) \/ Kill(c) \/ Release(c)
PumpStep(s) == PumpWrites(s) \/ PumpFails(s) \/ PumpEnds(s) \/ PumpIsOver(s)
TimerStep(p) == TimerFires(p) \/ TimerRuns(p) \/ TimerKills(p)

Next == \/ \E c \in Conns : \/ Admit(c)
                            \/ Refuse(c)
                            \/ HandlerStep(c)
                            \/ ReaderEnds(c)
                            \/ PumpReads(c)
                            \/ PumpStep(c)
                            \/ TimerStep(c)
                            \/ ClientDrops(c)
                            \/ ChildExits(c)
        \/ \E h \in Hosts : BlockEnds(h) \/ StrikeExpires(h)

Spec == Init /\ [][Next]_vars

\* Goroutines that can go on do, timers run out, and a reader notices that its client
\* has gone (after the idle timeout at the latest).
FairSpec == /\ Spec
            /\ \A c \in Conns : /\ WF_vars(HandlerStep(c))
                                /\ WF_vars(~net[c] /\ ReaderEnds(c))
                                /\ WF_vars(PumpStep(c))
                                /\ WF_vars(TimerStep(c))

-----------------------------------------------------------------------------
(* Properties *)

TypeOK ==
  /\ reconnect \in BOOLEAN
  /\ step \in [Conns -> {"new", "admitted", "starting", "attach", "serving", "park", "kill",
                         "release", "gone"}]
  /\ net \in [Conns -> BOOLEAN] /\ done \in [Conns -> BOOLEAN]
  /\ sess \in [Conns -> Conns \cup {None}]
  /\ child \in [Conns -> {"none", "up", "ended", "killed"}]
  /\ pump \in [Conns -> [at : {"reading", "writing", "ending", "over"}, to : Conns \cup {None}]]
  /\ current \in [Conns -> Conns \cup {None}]
  /\ parked \in [Hosts -> Conns \cup {None}]
  /\ timer \in [Conns -> {"off", "running", "fired", "killing"}]
  /\ throttle \in [Hosts -> [active : 0 .. MaxSessions, strikes : 0 .. Strikes - 1, blocked : BOOLEAN]]

Serves(c) == step[c] \in {"attach", "serving", "park", "kill"}
Has(c, s) == sess[c] = s /\ (Serves(c) \/ parked[Host[c]] = c \/ timer[c] = "killing")

\* No two connections share a child, and none is left running with nobody to end it: a
\* running child is served, parked or about to be killed, once.
EveryChildHasOneHolder ==
  \A s \in Conns : /\ \A c, d \in Conns : Has(c, s) /\ Has(d, s) => c = d
                   /\ child[s] = "up" => \E c \in Conns : Has(c, s)

\* "An address may hold only a few sessions at once", where the throttle applies: those
\* starting or served and the parked one, which has no slot any more, are together no
\* more than MaxSessions.  (One whose timer is killing it is not counted.)
AddressesHoldFewSessions ==
  \A h \in Hosts \ Loopback :
    Cardinality({c \in Conns : Host[c] = h /\ (step[c] = "starting" \/ Serves(c) \/ parked[h] = c)})
      <= MaxSessions

\* Nobody's session is killed by an older timer or a stranger: a child is killed by the
\* handler that gives it up, by the timer of its own parking, or by a later parking at
\* its address, which takes its place however much of the grace period is left; and a
\* parking ends only so or with a claim of its session.
KillsAreDue ==
  [][/\ \A s \in Conns : child[s] = "up" /\ child'[s] = "killed" =>
          \E c \in Conns : /\ Has(c, s)
                           /\ \/ step[c] = "kill" \/ timer[c] = "killing"
                              \/ parked[Host[c]] = c /\ parked'[Host[c]] \notin {c, None}
     /\ \A h \in Hosts : parked[h] # None /\ parked'[h] = None =>
          \/ timer[parked[h]] = "fired"
          \/ \E c \in Conns : step[c] = "admitted" /\ step'[c] = "attach" /\ sess'[c] = sess[parked[h]]]_vars

\* A connection ends for a reason of its own: its client has gone or its child has ended,
\* never because a write to an earlier connection of the same session failed.
ConnectionsEndForAReason ==
  [][\A c \in Conns : ~done[c] /\ done'[c] => ~net[c] \/ child[sess[c]] # "up"]_vars

\* A dropped connection gives its slot back, and a child that nobody is connected to any
\* more ends or is claimed.
NothingLingers ==
  \A c \in Conns :
    /\ (step[c] # "new" /\ ~net[c]) ~> (step[c] = "gone")
    /\ (child[c] = "up" /\ \A d \in Conns : Has(d, c) => ~net[d])
         ~> (child[c] # "up" \/ \E d \in Conns : Has(d, c) /\ net[d])

\* "Whoever's currently attached needs to know the session is over": nobody is attached
\* to a session whose pump has ended without being told.  (The code breaks it.)
TheAttachedAreTold ==
  \A c \in Conns : step[c] = "serving" /\ pump[sess[c]].at = "over" => done[c]

\* "A dropped telnet connection's `wms tui` process is kept alive for that long, and a new
\* connection from the same address within the window resumes it": a child whose grace
\* period is running is not killed.  (The code breaks it where the address parks another.)
GraceIsKept ==
  [][\A p \in Conns : timer[p] = "running" /\ child[sess[p]] = "up" => child'[sess[p]] # "killed"]_vars
=============================================================================
