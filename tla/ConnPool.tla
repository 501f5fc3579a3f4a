------------------------------ MODULE ConnPool ------------------------------
(***************************************************************************)
(* The connection pool of a Session (internal/client/pool.go, conn.go and  *)
(* the part of client.go and stream.go that takes a connection and gives   *)
(* it back).                                                               *)
(*                                                                         *)
(* Every action is one critical section of Session.mu, or one step a       *)
(* goroutine takes outside it; everything the code does between Lock and   *)
(* Unlock is one action.  Requests, a burst's dial attempts, the closing   *)
(* of victims and the servers at the other end interleave freely.          *)
(*                                                                         *)
(* Time is kept only as far as the code compares it: the order in which    *)
(* pooled connections were last used, and whether an idle one has passed   *)
(* its timeout.                                                            *)
(***************************************************************************)
EXTENDS Integers, FiniteSets

CONSTANTS
  Requests,            \* calls of send, each made once
  Keys,                \* dialSpecs: everything that decides what a connection is
  Conns,               \* identities of live connections, numbered
  Groups,              \* identities of live dial groups, numbered
  Protos,              \* Protos[k]: the protocols a server behind k may negotiate
  Raced,               \* the keys that are neither cleartext nor forced to HTTP/1.1
  Covers,              \* <<k, l>>: a connection for k may carry requests for l
  Modes,               \* how a request may ask for its connection
  KeepAlive,           \* FALSE is Options.DisableKeepAlive
  Attempts,            \* ConnPolicy.Attempts, 0 for a family that does not race
  SpareBeforePreface,  \* ConnPolicy.SpareBeforePreface
  MaxConnsPerHost,     \* maxConnsPerHost
  MaxIdleConns,        \* Options.MaxIdleConns
  MaxFaults,           \* bound: how often something outside goes wrong
  Faulty,              \* bound: where - "dial", "server" or "clock"
  None

ASSUME ConstantsAssumption ==
  /\ Conns \subseteq Nat /\ Groups \subseteq Nat
  /\ IsFiniteSet(Requests) /\ IsFiniteSet(Conns)
  /\ None \notin Requests \cup Keys \cup Conns \cup Groups
  /\ Protos \in [Keys -> SUBSET {"h1", "h2"}]
  /\ Raced \subseteq Keys /\ Covers \subseteq Keys \X Keys
  /\ Modes \subseteq {"pooled", "fresh", "pinned"}
  /\ Faulty \subseteq {"dial", "server", "clock"}
  /\ KeepAlive \in BOOLEAN /\ SpareBeforePreface \in BOOLEAN
  /\ Attempts \in Nat /\ MaxFaults \in Nat
  /\ MaxConnsPerHost \in Nat \ {0} /\ MaxIdleConns \in Nat \ {0}

VARIABLES
  closed,    \* Session.closed
  pool,      \* the connections listed in Session.conns, under their own key
  lastUsed,  \* conn.lastUsed as a rank among the pooled ones, 0 outside the pool
  orphans,   \* Session.orphans, each with its shutdownOrphan goroutine
  doomed,    \* taken out under the lock, still to be closed outside it
  aliases,   \* Session.aliases: a connection to another name that took k on
  dialing,   \* Session.dialing: the current group of a key
  group,     \* the dialGroups
  conn,      \* the conns
  req,       \* where each request is
  faults     \* bound: faults so far

vars == <<closed, pool, lastUsed, orphans, doomed, aliases, dialing, group,
          conn, req, faults>>

-----------------------------------------------------------------------------
(* Records                                                                 *)

(* A connection. "gone": the server gave an HTTP/1.1 one up and nobody has  *)
(* read that yet; "draining": no new request, those under way may finish;   *)
(* "dead": known to be lost; "closed": closed from this side.               *)
ConnRecord == [st: {"free", "open", "gone", "draining", "dead", "closed"},
               proto: {"h1", "h2"}, key: Keys \cup {None}, busy: Int,
               handed: BOOLEAN, expired: BOOLEAN,
               watch: {"off", "on", "taken"}]

NoConn == [st |-> "free", proto |-> "h2", key |-> None, busy |-> 0,
           handed |-> FALSE, expired |-> FALSE, watch |-> "off"]

(* A dial group. dialing, preface and spare count its attempt goroutines by *)
(* how far they are; running is the counter the code keeps.                 *)
GroupRecord == [key: Keys \cup {None}, waiting: Int, started: Int, running: Int,
                dialing: Int, preface: Int, spare: Int,
                won: BOOLEAN, claimed: BOOLEAN, cancelled: BOOLEAN,
                err: {"none", "failed", "cancelled"}]

NoGroup == [key |-> None, waiting |-> 0, started |-> 0, running |-> 0,
            dialing |-> 0, preface |-> 0, spare |-> 0,
            won |-> FALSE, claimed |-> FALSE, cancelled |-> FALSE, err |-> "none"]

(* A request. end is how its exchange, and at last the request, ended;      *)
(* "cancelled" is a context cancelled by somebody else.                     *)
ReqRecord == [pc: {"new", "conn", "lookup", "wait", "dial", "unwatch", "exchange",
                   "body", "release", "released", "closing", "evict", "done"},
              key: Keys \cup {None}, mode: {"pooled", "fresh", "pinned", "resend"},
              on: Conns \cup {None}, reused: BOOLEAN, looked: BOOLEAN,
              grp: Groups \cup {None}, woken: BOOLEAN,
              end: {"none", "ok", "dropped", "unprocessed", "other",
                    "failed", "cancelled"}]

NewReq == [pc |-> "new", key |-> None, mode |-> "pooled", on |-> None,
           reused |-> FALSE, looked |-> FALSE, grp |-> None, woken |-> FALSE,
           end |-> "none"]

Ended(why) == [NewReq EXCEPT !.pc = "done", !.end = why]

-----------------------------------------------------------------------------
(* Connections                                                             *)

Usable(c) == conn[c].st \in {"open", "gone"}
(* Mutant of CanTake: a second request fits on an HTTP/1.1 connection.      *)
CanTakeSecond(c) == conn[c].proto = "h2" \/ conn[c].busy <= 1

CanTake(c) == conn[c].proto = "h2" \/ conn[c].busy = 0
Live(c) == Usable(c) /\ ~(conn[c].busy = 0 /\ conn[c].expired)

(* The lowest identity not in use: which one is taken says nothing.         *)
IsNextConn(c) == /\ conn[c].st = "free"
                 /\ \A d \in Conns : conn[d].st = "free" => c <= d

NewConn(k, p) == [NoConn EXCEPT !.st = "open", !.proto = p, !.key = k]

(* acquire, with what every hand-out does beside it: lastUsed (expired),    *)
(* handed, and the idle watch taken from the connection.                    *)
Acquired(cs, c) ==
  [cs EXCEPT ![c].busy = @ + 1, ![c].handed = TRUE, ![c].expired = FALSE,
             ![c].watch = IF @ = "on" THEN "taken" ELSE @]

(* watchIdle.                                                               *)
Watched(cs, c) ==
  IF cs[c].proto = "h1" /\ cs[c].watch = "off" /\ cs[c].busy = 0
                        /\ cs[c].st \in {"open", "gone"}
  THEN [cs EXCEPT ![c].watch = "on"] ELSE cs

Closed(cs, c) == [cs EXCEPT ![c].st = "closed"]

-----------------------------------------------------------------------------
(* The pool                                                                *)

(* Stamps as ranks among the connections of P.                              *)
Ranked(stamp, P) ==
  [c \in Conns |-> IF c \in P THEN Cardinality({d \in P : stamp[d] <= stamp[c]})
                   ELSE 0]

Touched(c) == [lastUsed EXCEPT ![c] = Cardinality(Conns) + 1]

(* sweepLocked.                                                             *)
Sweepable == {c \in pool : conn[c].busy = 0 /\ (~Usable(c) \/ conn[c].expired)}

(* evictLRULocked over the list P: the longest idle beyond the limit.       *)
OverLimit(P, stamp, cs) ==
  LET idle == {c \in P : cs[c].busy = 0}
  IN {c \in idle : Cardinality({d \in idle : stamp[d] < stamp[c]})
                     < Cardinality(P) - MaxIdleConns}

Own(k, P) == {c \in P : conn[c].key = k /\ Live(c) /\ CanTake(c)}
Aliased(k, P) == {c \in P : c = aliases[k] /\ Live(c)}

(* pickLockedAt: the key's own first, then the alias.                       *)
Pickable(k, P) == IF Own(k, P) # {} THEN Own(k, P) ELSE Aliased(k, P)

(* burstable.                                                               *)
Burstable(r, P) ==
  /\ Attempts > 0 /\ KeepAlive
  /\ req[r].mode = "pooled" /\ req[r].key \in Raced
  /\ \A c \in P : conn[c].key = req[r].key => conn[c].proto = "h2"

-----------------------------------------------------------------------------
Init ==
  /\ closed = FALSE
  /\ pool = {} /\ orphans = {} /\ doomed = {}
  /\ lastUsed = [c \in Conns |-> 0]
  /\ aliases = [k \in Keys |-> None]
  /\ dialing = [k \in Keys |-> None]
  /\ group = [g \in Groups |-> NoGroup]
  /\ conn = [c \in Conns |-> NoConn]
  /\ req = [r \in Requests |-> NewReq]
  /\ faults = 0

(* A request reaches the choice of its connection.                          *)
Start(r) ==
  /\ req[r].pc = "new"
  /\ \E k \in Keys, m \in Modes :
       req' = [req EXCEPT ![r].pc = "conn", ![r].key = k, ![r].mode = m]
  /\ UNCHANGED <<closed, pool, lastUsed, orphans, doomed, aliases, dialing,
                 group, conn, faults>>

-----------------------------------------------------------------------------
(* conn(): one turn of its loop, under the lock.  The sweep is throttled by *)
(* the clock, so a turn sweeps or does not.                                 *)

ConnRefused(r) ==
  /\ req[r].pc = "conn" /\ req[r].mode # "pinned"
  /\ closed
  /\ req' = [req EXCEPT ![r] = Ended("failed")]
  /\ UNCHANGED <<closed, pool, lastUsed, orphans, doomed, aliases, dialing,
                 group, conn, faults>>

Looks(r) == req[r].mode = "pooled" /\ KeepAlive

(* A pooled connection is handed out; an HTTP/1.1 one still has its watch   *)
(* to end.                                                                  *)
Picked(r, c) ==
  /\ conn' = Acquired(conn, c)
  /\ req' = [req EXCEPT ![r].on = c, ![r].reused = conn[c].handed,
                        ![r].pc = IF conn[c].proto = "h1" THEN "unwatch"
                                                          ELSE "exchange"]

PickConn(r) ==
  /\ req[r].pc = "conn" /\ ~closed /\ Looks(r)
  /\ \E swept \in {{}, Sweepable} :
       LET kept == pool \ swept
       IN \E c \in Pickable(req[r].key, kept) :
            /\ Picked(r, c)
            /\ pool' = kept
            /\ doomed' = doomed \cup swept
            /\ lastUsed' = Ranked(Touched(c), kept)
  /\ UNCHANGED <<closed, orphans, aliases, dialing, group, faults>>

(* Mutant of WithWaiter: the waiter is not counted before the comparison.   *)
WithWaiterLate(gr) ==
  LET start == gr.started < Attempts /\ gr.started < gr.waiting
  IN IF start
     THEN [gr EXCEPT !.waiting = @ + 1, !.started = @ + 1, !.running = @ + 1,
                     !.dialing = @ + 1]
     ELSE [gr EXCEPT !.waiting = @ + 1]

(* joinGroupLocked: wait on the key's group, a new one when there is none   *)
(* or the last was won, with one more attempt while there are fewer than    *)
(* requests and than the policy allows.                                     *)
WithWaiter(gr) ==
  LET start == gr.started < Attempts /\ gr.started <= gr.waiting
  IN IF start
     THEN [gr EXCEPT !.waiting = @ + 1, !.started = @ + 1, !.running = @ + 1,
                     !.dialing = @ + 1]
     ELSE [gr EXCEPT !.waiting = @ + 1]

JoinGroup(r) ==
  LET k == req[r].key
      current == dialing[k]
      IsFree(g) == group[g] = NoGroup
  IN \E g \in Groups :
       /\ IF current = None \/ (current # None /\ group[current].won)
          THEN IsFree(g) /\ \A h \in Groups : IsFree(h) => g <= h
          ELSE g = current
       /\ dialing' = [dialing EXCEPT ![k] = g]
       /\ group' = [group EXCEPT ![g] = WithWaiter([@ EXCEPT !.key = k])]
       /\ req' = [req EXCEPT ![r].pc = "wait", ![r].grp = g, ![r].woken = FALSE]

(* Nothing to hand out: dial, or look once for a connection to another      *)
(* name, or - after that look - wait on the key's attempts.                 *)
PickNothing(r) ==
  /\ req[r].pc = "conn" /\ req[r].mode # "pinned" /\ ~closed
  /\ \E swept \in {{}, Sweepable} :
       LET k == req[r].key
           kept == pool \ swept
       IN /\ Looks(r) => Pickable(k, kept) = {}
          /\ aliases' = IF Looks(r) THEN [aliases EXCEPT ![k] = None] ELSE aliases
          /\ pool' = kept
          /\ doomed' = doomed \cup swept
          /\ lastUsed' = Ranked(lastUsed, kept)
          /\ \/ /\ ~Burstable(r, kept)
                /\ req' = [req EXCEPT ![r].pc = "dial"]
                /\ UNCHANGED <<dialing, group>>
             \/ /\ Burstable(r, kept) /\ ~req[r].looked
                /\ req' = [req EXCEPT ![r].pc = "lookup", ![r].looked = TRUE]
                /\ UNCHANGED <<dialing, group>>
             \/ /\ Burstable(r, kept) /\ req[r].looked
                /\ JoinGroup(r)
  /\ UNCHANGED <<closed, orphans, conn, faults>>

(* Mutant of LookupHit: the address decides, the certificate is not asked.  *)
LookupHitByAddress(r) ==
  /\ req[r].pc = "lookup"
  /\ \E c \in pool :
       /\ conn[c].proto = "h2" /\ Usable(c) /\ conn[c].key # req[r].key
       /\ aliases' = [aliases EXCEPT ![req[r].key] = c]
  /\ req' = [req EXCEPT ![r].pc = "conn"]
  /\ UNCHANGED <<closed, pool, lastUsed, orphans, doomed, dialing, group, conn,
                 faults>>

(* ipPooled found a connection: its address is the host's, it is still in   *)
(* the pool, and its certificate covers the host.                           *)
LookupHit(r) ==
  /\ req[r].pc = "lookup"
  /\ \E c \in pool :
       /\ conn[c].proto = "h2" /\ Usable(c)
       /\ conn[c].key # req[r].key /\ <<conn[c].key, req[r].key>> \in Covers
       /\ aliases' = [aliases EXCEPT ![req[r].key] = c]
  /\ req' = [req EXCEPT ![r].pc = "conn"]
  /\ UNCHANGED <<closed, pool, lastUsed, orphans, doomed, dialing, group, conn,
                 faults>>

(* It found none - or the lookup failed - and conn() takes the lock again   *)
(* to wait on the group, without another look at the pool or at closed.     *)
LookupMiss(r) ==
  /\ req[r].pc = "lookup"
  /\ JoinGroup(r)
  /\ UNCHANGED <<closed, pool, lastUsed, orphans, doomed, aliases, conn, faults>>

-----------------------------------------------------------------------------
(* waitGroupLocked, after its select                                        *)

(* A group nobody waits on and nothing runs for is gone: its identity is    *)
(* free again.                                                              *)
Kept(gr) == IF gr.waiting = 0 /\ gr.running = 0 THEN NoGroup ELSE gr

(* The group changed: its error when that is all there will be, or another  *)
(* turn of conn().                                                          *)
WaitEnds(r) ==
  /\ req[r].pc = "wait" /\ req[r].woken
  /\ LET g == req[r].grp
         left == [group[g] EXCEPT !.waiting = @ - 1]
     IN /\ group' = [group EXCEPT ![g] = Kept(left)]
        /\ req' = [req EXCEPT ![r] =
             IF ~left.won /\ left.running = 0 /\ left.err # "none"
             THEN Ended(left.err)
             ELSE [@ EXCEPT !.pc = "conn", !.grp = None, !.woken = FALSE]]
  /\ UNCHANGED <<closed, pool, lastUsed, orphans, doomed, aliases, dialing,
                 conn, faults>>

(* The request's own connect limit, or its cancellation.                    *)
GiveUp(r) ==
  /\ req[r].pc = "wait"
  /\ LET g == req[r].grp
         left == [group[g] EXCEPT !.waiting = @ - 1]
     IN group' = [group EXCEPT ![g] =
          Kept([left EXCEPT !.cancelled = @ \/ (left.waiting = 0 /\ ~left.won)])]
  /\ req' = [req EXCEPT ![r] = Ended("failed")]
  /\ UNCHANGED <<closed, pool, lastUsed, orphans, doomed, aliases, dialing,
                 conn, faults>>

-----------------------------------------------------------------------------
(* dialAttempt                                                              *)

(* Mutant of Claim: only a winner keeps the next attempt from the preface.  *)
ClaimUnlessWon(g) ==
  /\ SpareBeforePreface
  /\ group[g].dialing > 0 /\ "h2" \in Protos[group[g].key]
  /\ LET gr == group[g]
     IN group' = [group EXCEPT ![g] =
          IF gr.won
          THEN [gr EXCEPT !.dialing = @ - 1, !.spare = @ + 1]
          ELSE [gr EXCEPT !.dialing = @ - 1, !.preface = @ + 1, !.claimed = TRUE]]
  /\ UNCHANGED <<closed, pool, lastUsed, orphans, doomed, aliases, dialing,
                 conn, req, faults>>

(* spare(): an attempt that came up as HTTP/2 claims the preface, or learns *)
(* that it is not needed.                                                   *)
Claim(g) ==
  /\ SpareBeforePreface
  /\ group[g].dialing > 0 /\ "h2" \in Protos[group[g].key]
  /\ LET gr == group[g]
     IN group' = [group EXCEPT ![g] =
          IF gr.won \/ gr.claimed
          THEN [gr EXCEPT !.dialing = @ - 1, !.spare = @ + 1]
          ELSE [gr EXCEPT !.dialing = @ - 1, !.preface = @ + 1, !.claimed = TRUE]]
  /\ UNCHANGED <<closed, pool, lastUsed, orphans, doomed, aliases, dialing,
                 conn, req, faults>>

(* Mutant of AttemptEnds: waiters are woken for a winner only.              *)
AttemptEndsWakingForWinner(g, ran, list, stamp, cs, drop) ==
  LET over == OverLimit(list, stamp, cs)
      k == ran.key
      last == ran.running = 0
  IN /\ pool' = list \ over
     /\ lastUsed' = Ranked(stamp, list \ over)
     /\ doomed' = doomed \cup over \cup drop
     /\ conn' = cs
     /\ dialing' = IF last /\ dialing[k] = g THEN [dialing EXCEPT ![k] = None]
                                             ELSE dialing
     /\ group' = [group EXCEPT ![g] =
                    Kept([ran EXCEPT !.cancelled = @ \/ last])]
     /\ req' = [r \in Requests |->
                  IF req[r].pc = "wait" /\ req[r].grp = g /\ ran.won
                  THEN [req[r] EXCEPT !.woken = TRUE] ELSE req[r]]

(* What every attempt ends with: the pool is brought within its limit, the  *)
(* group is closed after its last attempt, and everyone waiting is woken.   *)
(* ran is the group with the attempt's outcome in it, list the pool with    *)
(* what it opened, drop what it opened for nothing.                         *)
AttemptEnds(g, ran, list, stamp, cs, drop) ==
  LET over == OverLimit(list, stamp, cs)
      k == ran.key
      last == ran.running = 0
  IN /\ pool' = list \ over
     /\ lastUsed' = Ranked(stamp, list \ over)
     /\ doomed' = doomed \cup over \cup drop
     /\ conn' = cs
     /\ dialing' = IF last /\ dialing[k] = g THEN [dialing EXCEPT ![k] = None]
                                             ELSE dialing
     /\ group' = [group EXCEPT ![g] =
                    Kept([ran EXCEPT !.cancelled = @ \/ last])]
     /\ req' = [r \in Requests |->
                  IF req[r].pc = "wait" /\ req[r].grp = g
                  THEN [req[r] EXCEPT !.woken = TRUE] ELSE req[r]]

(* An attempt fails, for the network's reasons - a fault - or because the   *)
(* group was cancelled.  The claimer gives the claim back, a spare leaves   *)
(* no error behind.                                                         *)
Breaks(why) ==
  /\ why = "failed" => faults < MaxFaults /\ "dial" \in Faulty
  /\ faults' = IF why = "failed" THEN faults + 1 ELSE faults

AttemptFails(g) ==
  LET why == IF group[g].cancelled THEN "cancelled" ELSE "failed"
      ran == [group[g] EXCEPT !.running = @ - 1]
  IN /\ \/ /\ group[g].dialing > 0 /\ Breaks(why)
           /\ AttemptEnds(g, [ran EXCEPT !.dialing = @ - 1, !.err = why],
                          pool, lastUsed, conn, {})
        \/ /\ group[g].preface > 0 /\ Breaks(why)
           /\ AttemptEnds(g, [ran EXCEPT !.preface = @ - 1, !.err = why,
                                         !.claimed = FALSE],
                          pool, lastUsed, conn, {})
        \/ /\ group[g].spare > 0 /\ UNCHANGED faults
           /\ AttemptEnds(g, [ran EXCEPT !.spare = @ - 1],
                          pool, lastUsed, conn, {})
     /\ UNCHANGED <<closed, orphans, aliases>>

(* The attempt's goroutine reaches the lock with a connection.              *)
CameUp(g, p) ==
  IF SpareBeforePreface /\ p = "h2"
  THEN [group[g] EXCEPT !.preface = @ - 1, !.running = @ - 1]
  ELSE [group[g] EXCEPT !.dialing = @ - 1, !.running = @ - 1]

Ready(g, p) ==
  /\ IF SpareBeforePreface /\ p = "h2" THEN group[g].preface > 0
                                       ELSE group[g].dialing > 0
  /\ p \in Protos[group[g].key]

(* Mutant of AttemptLate: the connection is neither kept nor closed.        *)
AttemptLateKept(g) ==
  /\ closed
  /\ \E p \in {"h1", "h2"}, c \in Conns :
       /\ Ready(g, p) /\ IsNextConn(c)
       /\ AttemptEnds(g, CameUp(g, p), pool, lastUsed,
                      [conn EXCEPT ![c] = NewConn(group[g].key, p)], {})
  /\ UNCHANGED <<closed, orphans, aliases, faults>>

(* The session was closed while it dialed.                                  *)
AttemptLate(g) ==
  /\ closed
  /\ \E p \in {"h1", "h2"}, c \in Conns :
       /\ Ready(g, p) /\ IsNextConn(c)
       /\ AttemptEnds(g, CameUp(g, p), pool, lastUsed,
                      [conn EXCEPT ![c] = NewConn(group[g].key, p)], {c})
  /\ UNCHANGED <<closed, orphans, aliases, faults>>

(* Mutant of AttemptWins: closed is not looked at.                          *)
AttemptWinsAnyway(g) ==
  /\ Ready(g, "h2") /\ ~group[g].won
  /\ \E c \in Conns :
       /\ IsNextConn(c)
       /\ AttemptEnds(g, [CameUp(g, "h2") EXCEPT !.won = TRUE, !.cancelled = TRUE],
                      pool \cup {c}, Touched(c),
                      [conn EXCEPT ![c] = NewConn(group[g].key, "h2")], {})
  /\ UNCHANGED <<closed, orphans, aliases, faults>>

(* The first to come up as HTTP/2 goes into the pool for all of them, and   *)
(* the attempts still in their handshake are abandoned.                     *)
AttemptWins(g) ==
  /\ ~closed /\ Ready(g, "h2") /\ ~group[g].won
  /\ \E c \in Conns :
       /\ IsNextConn(c)
       /\ AttemptEnds(g, [CameUp(g, "h2") EXCEPT !.won = TRUE, !.cancelled = TRUE],
                      pool \cup {c}, Touched(c),
                      [conn EXCEPT ![c] = NewConn(group[g].key, "h2")], {})
  /\ UNCHANGED <<closed, orphans, aliases, faults>>

(* One that comes up after the winner is set up and shut down with GOAWAY.  *)
AttemptOrphaned(g) ==
  /\ ~closed /\ Ready(g, "h2") /\ group[g].won
  /\ \E c \in Conns :
       /\ IsNextConn(c)
       /\ orphans' = orphans \cup {c}
       /\ AttemptEnds(g, CameUp(g, "h2"), pool, lastUsed,
                      [conn EXCEPT ![c] = [NewConn(group[g].key, "h2")
                                             EXCEPT !.st = "draining"]], {})
  /\ UNCHANGED <<closed, aliases, faults>>

(* HTTP/1.1 waits in the pool for one of the requests, under its idle       *)
(* watch, when the key has room for it.                                     *)
AttemptH1(g) ==
  /\ ~closed /\ Ready(g, "h1")
  /\ \E c \in Conns :
       LET k == group[g].key
           cs == [conn EXCEPT ![c] = NewConn(k, "h1")]
           room == Cardinality({d \in pool : conn[d].key = k}) < MaxConnsPerHost
       IN /\ IsNextConn(c)
          /\ IF room
             THEN AttemptEnds(g, CameUp(g, "h1"), pool \cup {c}, Touched(c),
                              Watched(cs, c), {})
             ELSE AttemptEnds(g, CameUp(g, "h1"), pool, lastUsed, cs, {c})
  /\ UNCHANGED <<closed, orphans, aliases, faults>>

-----------------------------------------------------------------------------
(* conn() with a dial of its own                                            *)

DialFails(r) ==
  /\ req[r].pc = "dial"
  /\ Breaks("failed")
  /\ req' = [req EXCEPT ![r] = Ended("failed")]
  /\ UNCHANGED <<closed, pool, lastUsed, orphans, doomed, aliases, dialing,
                 group, conn>>

(* Closed meanwhile: the new connection is closed at once.                  *)
DialLate(r) ==
  /\ req[r].pc = "dial" /\ closed
  /\ \E p \in Protos[req[r].key], c \in Conns :
       /\ IsNextConn(c)
       /\ conn' = [conn EXCEPT ![c] = NewConn(req[r].key, p)]
       /\ doomed' = doomed \cup {c}
  /\ req' = [req EXCEPT ![r] = Ended("failed")]
  /\ UNCHANGED <<closed, pool, lastUsed, orphans, aliases, dialing, group, faults>>

(* Another call brought an HTTP/2 connection while the handshake ran: that  *)
(* one is used, and the new one closed.  A resend keeps its own.            *)
Multiplexed(r) == {c \in Pickable(req[r].key, pool) : conn[c].proto = "h2"}

DialRedundant(r) ==
  /\ req[r].pc = "dial" /\ ~closed
  /\ "h2" \in Protos[req[r].key] /\ Looks(r)
  /\ \E old \in Multiplexed(r), c \in Conns :
       /\ IsNextConn(c)
       /\ conn' = Acquired([conn EXCEPT ![c] = NewConn(req[r].key, "h2")], old)
       /\ lastUsed' = Ranked(Touched(old), pool)
       /\ doomed' = doomed \cup {c}
       /\ req' = [req EXCEPT ![r].pc = "exchange", ![r].on = old, ![r].reused = TRUE]
  /\ UNCHANGED <<closed, pool, orphans, aliases, dialing, group, faults>>

(* Mutant of DialUp: one more than the limit.                               *)
DialUpOneMore(r) ==
  /\ req[r].pc = "dial" /\ ~closed
  /\ \E p \in Protos[req[r].key], c \in Conns :
       LET k == req[r].key
           cs == Acquired([conn EXCEPT ![c] = NewConn(k, p)], c)
           room == Cardinality({d \in pool : conn[d].key = k}) <= MaxConnsPerHost
           list == IF KeepAlive /\ (p = "h2" \/ room) THEN pool \cup {c} ELSE pool
           over == OverLimit(list, Touched(c), cs)
           looked == p = "h2" /\ Looks(r)
       IN /\ IsNextConn(c)
          /\ looked => \/ Multiplexed(r) = {}
                       \/ \E d \in Pickable(k, pool) : conn[d].proto = "h1"
          /\ aliases' = IF looked /\ Pickable(k, pool) = {}
                        THEN [aliases EXCEPT ![k] = None] ELSE aliases
          /\ conn' = cs
          /\ pool' = list \ over
          /\ lastUsed' = Ranked(Touched(c), list \ over)
          /\ doomed' = doomed \cup over
          /\ req' = [req EXCEPT ![r].pc = "exchange", ![r].on = c, ![r].reused = FALSE]
  /\ UNCHANGED <<closed, orphans, dialing, group, faults>>

(* The new connection carries the request, and joins the pool unless the    *)
(* session keeps none or the key has its share of HTTP/1.1 ones.            *)
DialUp(r) ==
  /\ req[r].pc = "dial" /\ ~closed
  /\ \E p \in Protos[req[r].key], c \in Conns :
       LET k == req[r].key
           cs == Acquired([conn EXCEPT ![c] = NewConn(k, p)], c)
           room == Cardinality({d \in pool : conn[d].key = k}) < MaxConnsPerHost
           list == IF KeepAlive /\ (p = "h2" \/ room) THEN pool \cup {c} ELSE pool
           over == OverLimit(list, Touched(c), cs)
           looked == p = "h2" /\ Looks(r)
       IN /\ IsNextConn(c)
          /\ looked => \/ Multiplexed(r) = {}
                       \/ \E d \in Pickable(k, pool) : conn[d].proto = "h1"
          /\ aliases' = IF looked /\ Pickable(k, pool) = {}
                        THEN [aliases EXCEPT ![k] = None] ELSE aliases
          /\ conn' = cs
          /\ pool' = list \ over
          /\ lastUsed' = Ranked(Touched(c), list \ over)
          /\ doomed' = doomed \cup over
          /\ req' = [req EXCEPT ![r].pc = "exchange", ![r].on = c, ![r].reused = FALSE]
  /\ UNCHANGED <<closed, orphans, dialing, group, faults>>

-----------------------------------------------------------------------------
(* pinnedConn: the open connection the caller named, when it may carry the  *)
(* request and is free to.  The partition in a key is not compared here:    *)
(* pinned requests are checked over keys that differ in more than that.     *)
CarriesFor(c, k) ==
  \/ conn[c].key = k
  \/ conn[c].proto = "h2" /\ <<conn[c].key, k>> \in Covers

PinConn(r) ==
  /\ req[r].pc = "conn" /\ req[r].mode = "pinned" /\ ~closed
  /\ \E c \in pool :
       /\ Usable(c) /\ CarriesFor(c, req[r].key) /\ CanTake(c)
       /\ Picked(r, c)
       /\ lastUsed' = Ranked(Touched(c), pool)
  /\ UNCHANGED <<closed, pool, orphans, doomed, aliases, dialing, group, faults>>

(* No such connection, the wrong one, or a busy one.                        *)
PinFails(r) ==
  /\ req[r].pc = "conn" /\ req[r].mode = "pinned"
  /\ req' = [req EXCEPT ![r] = Ended("failed")]
  /\ UNCHANGED <<closed, pool, lastUsed, orphans, doomed, aliases, dialing,
                 group, conn, faults>>

(* endIdleWatch: the pending read is woken and waited for.  When the server *)
(* was gone the read may have met that, or the deadline first.  A dead      *)
(* connection leaves the pool, and a request not pinned to it looks again.  *)
EndIdleWatch(r) ==
  /\ req[r].pc = "unwatch"
  /\ LET c == req[r].on
         good == [req EXCEPT ![r].pc = "exchange"]
         bad == [req EXCEPT ![r] = IF @.mode = "pinned" THEN Ended("failed")
                                   ELSE [@ EXCEPT !.pc = "conn", !.on = None]]
         Unwatched(st) == [conn EXCEPT ![c].watch = IF @ = "taken" THEN "off" ELSE @,
                                    ![c].st = st]
     IN \/ /\ Usable(c)
           /\ conn' = Unwatched(conn[c].st)
           /\ req' = good
           /\ UNCHANGED <<pool, lastUsed, doomed>>
        \/ /\ ~Usable(c) \/ (conn[c].st = "gone" /\ conn[c].watch = "taken")
           /\ conn' = Unwatched(IF Usable(c) THEN "dead" ELSE conn[c].st)
           /\ req' = bad
           /\ pool' = pool \ {c}
           /\ lastUsed' = Ranked(lastUsed, pool \ {c})
           /\ doomed' = doomed \cup {c}
  /\ UNCHANGED <<closed, orphans, aliases, dialing, group, faults>>

-----------------------------------------------------------------------------
(* The exchange: send from the connection on, then the body                 *)

(* The connection is given back unused: it speaks the wrong protocol, or    *)
(* the request it was for went over QUIC.                                   *)
HandBack(r) ==
  /\ req[r].pc = "exchange"
  /\ req' = [req EXCEPT ![r].pc = "release", ![r].end = "ok"]
  /\ UNCHANGED <<closed, pool, lastUsed, orphans, doomed, aliases, dialing,
                 group, conn, faults>>

(* The response headers arrive; an HTTP/1.1 response may end the connection.*)
Respond(r) ==
  /\ req[r].pc = "exchange"
  /\ LET c == req[r].on
     IN /\ conn[c].st \in {"open", "draining"}
        /\ \/ conn' = conn
           \/ conn[c].proto = "h1" /\ conn' = [conn EXCEPT ![c].st = "draining"]
  /\ req' = [req EXCEPT ![r].pc = "body"]
  /\ UNCHANGED <<closed, pool, lastUsed, orphans, doomed, aliases, dialing,
                 group, faults>>

(* roundTrip fails: the connection dropped; an HTTP/2 connection that takes *)
(* no more requests, or a server that refuses the one stream - a fault -    *)
(* left this one unprocessed; or anything else - a limit, a cancellation,   *)
(* a reset stream.  HTTP/1.1 is dead after any failure.                     *)
ExchangeFails(r) ==
  /\ req[r].pc = "exchange"
  /\ LET c == req[r].on
     IN /\ \E why \in {"dropped", "unprocessed", "other"} :
             /\ why = "dropped" => conn[c].st \in {"gone", "dead", "closed"}
             /\ why = "unprocessed" => /\ conn[c].proto = "h2"
                                       /\ conn[c].st \in {"open", "draining"}
             /\ IF why = "unprocessed" /\ conn[c].st = "open"
                THEN "server" \in Faulty /\ faults < MaxFaults /\ faults' = faults + 1
                ELSE UNCHANGED faults
             /\ req' = [req EXCEPT ![r].pc = "release", ![r].end = why]
        /\ conn' = IF conn[c].proto = "h1" /\ conn[c].st # "closed"
                   THEN [conn EXCEPT ![c].st = "dead"] ELSE conn
  /\ UNCHANGED <<closed, pool, lastUsed, orphans, doomed, aliases, dialing, group>>

(* Stream.Close: an HTTP/1.1 body that was not read to its end closes the   *)
(* connection first.                                                        *)
CloseBody(r) ==
  /\ req[r].pc = "body"
  /\ LET c == req[r].on
     IN \/ conn' = conn
        \/ conn[c].proto = "h1" /\ conn' = Closed(conn, c)
  /\ req' = [req EXCEPT ![r].pc = "release", ![r].end = "ok"]
  /\ UNCHANGED <<closed, pool, lastUsed, orphans, doomed, aliases, dialing,
                 group, faults>>

(* A redirect's body past the drain limit: closed, evicted, then released.  *)
DrainOverflow(r) ==
  /\ req[r].pc = "body"
  /\ LET c == req[r].on
     IN /\ conn[c].proto = "h1"
        /\ conn' = Closed(conn, c)
        /\ pool' = pool \ {c}
        /\ lastUsed' = Ranked(lastUsed, pool \ {c})
  /\ req' = [req EXCEPT ![r].pc = "release", ![r].end = "ok"]
  /\ UNCHANGED <<closed, orphans, doomed, aliases, dialing, group, faults>>

-----------------------------------------------------------------------------
(* release and evict                                                        *)

AfterRelease(r) ==
  IF req[r].end = "ok" THEN [req EXCEPT ![r] = Ended("ok")]
                       ELSE [req EXCEPT ![r].pc = "evict"]

(* The counter goes down before the lock is taken.                          *)
Release(r) ==
  /\ req[r].pc = "release"
  /\ LET c == req[r].on
     IN /\ conn' = [conn EXCEPT ![c].busy = @ - 1]
        /\ req' = IF conn[c].busy = 1 THEN [req EXCEPT ![r].pc = "released"]
                                      ELSE AfterRelease(r)
  /\ UNCHANGED <<closed, pool, lastUsed, orphans, doomed, aliases, dialing,
                 group, faults>>

(* Under the lock: in the pool it is idle from now on, outside it nobody    *)
(* will use it again.                                                       *)
Released(r) ==
  /\ req[r].pc = "released"
  /\ LET c == req[r].on
     IN IF c \in pool
        THEN /\ lastUsed' = Ranked(Touched(c), pool)
             /\ conn' = Watched([conn EXCEPT ![c].expired = FALSE], c)
             /\ req' = AfterRelease(r)
        ELSE /\ req' = [req EXCEPT ![r].pc = "closing"]
             /\ UNCHANGED <<lastUsed, conn>>
  /\ UNCHANGED <<closed, pool, orphans, doomed, aliases, dialing, group, faults>>

ReleaseCloses(r) ==
  /\ req[r].pc = "closing"
  /\ conn' = Closed(conn, req[r].on)
  /\ req' = AfterRelease(r)
  /\ UNCHANGED <<closed, pool, lastUsed, orphans, doomed, aliases, dialing,
                 group, faults>>

(* After a failed exchange: HTTP/1.1 goes, HTTP/2 goes when the connection  *)
(* failed as a whole, gently.  Then the request goes once more on a new     *)
(* connection when a reused one died under it.                              *)
MustEvict(r) ==
  LET c == req[r].on
  IN conn[c].proto = "h1" \/ ~Usable(c) \/ req[r].end \in {"dropped", "unprocessed"}

Resendable(r) ==
  /\ req[r].reused /\ req[r].mode # "pinned"
  /\ \/ req[r].end = "dropped"
     \/ req[r].end = "unprocessed" /\ conn[req[r].on].proto = "h2"

Evict(r) ==
  /\ req[r].pc = "evict"
  /\ LET c == req[r].on
         h2 == conn[c].proto = "h2"
     IN IF MustEvict(r)
        THEN /\ pool' = pool \ {c}
             /\ lastUsed' = Ranked(lastUsed, pool \ {c})
             /\ orphans' = IF h2 THEN orphans \cup {c} ELSE orphans
             /\ doomed' = IF h2 THEN doomed ELSE doomed \cup {c}
             /\ conn' = IF h2 /\ conn[c].st = "open"
                        THEN [conn EXCEPT ![c].st = "draining"] ELSE conn
        ELSE UNCHANGED <<pool, lastUsed, orphans, doomed, conn>>
  /\ \/ /\ Resendable(r)
        /\ req' = [req EXCEPT ![r] = [NewReq EXCEPT !.pc = "conn", !.key = req[r].key,
                                                    !.mode = "resend"]]
     \/ req' = [req EXCEPT ![r] = Ended("failed")]  \* nothing to resend, or no time
  /\ UNCHANGED <<closed, aliases, dialing, group, faults>>

(* shutdownOrphan: HTTP/2 closes once its streams are through.              *)
Streams(c) == {r \in Requests : req[r].on = c /\ req[r].pc \in {"exchange", "body"}}

OrphanDone(c) ==
  /\ c \in orphans
  /\ Streams(c) = {} \/ conn[c].st \in {"dead", "closed"}
  /\ conn' = Closed(conn, c)
  /\ orphans' = orphans \ {c}
  /\ UNCHANGED <<closed, pool, lastUsed, doomed, aliases, dialing, group, req, faults>>

(* ... or is left to them after five minutes.                               *)
OrphanTimeout(c) ==
  /\ c \in orphans /\ Streams(c) # {}
  /\ orphans' = orphans \ {c}
  /\ UNCHANGED <<closed, pool, lastUsed, doomed, aliases, dialing, group, conn,
                 req, faults>>

(* closeAll, drop.close(): outside the lock, in no order.                   *)
CloseDoomed(c) ==
  /\ c \in doomed
  /\ conn' = Closed(conn, c)
  /\ doomed' = doomed \ {c}
  /\ UNCHANGED <<closed, pool, lastUsed, orphans, aliases, dialing, group, req, faults>>

-----------------------------------------------------------------------------
(* Session.Close                                                            *)

(* Mutant of SessionClose: the pool is emptied and not closed.              *)
SessionCloseForgets ==
  /\ ~closed
  /\ closed' = TRUE
  /\ doomed' = doomed \cup orphans
  /\ pool' = {} /\ orphans' = {}
  /\ lastUsed' = Ranked(lastUsed, {})
  /\ aliases' = [k \in Keys |-> None]
  /\ group' = [g \in Groups |-> IF \E k \in Keys : dialing[k] = g
                                THEN [group[g] EXCEPT !.cancelled = TRUE]
                                ELSE group[g]]
  /\ UNCHANGED <<dialing, conn, req, faults>>

SessionClose ==
  /\ ~closed
  /\ closed' = TRUE
  /\ doomed' = doomed \cup pool \cup orphans
  /\ pool' = {} /\ orphans' = {}
  /\ lastUsed' = Ranked(lastUsed, {})
  /\ aliases' = [k \in Keys |-> None]
  /\ group' = [g \in Groups |-> IF \E k \in Keys : dialing[k] = g
                                THEN [group[g] EXCEPT !.cancelled = TRUE]
                                ELSE group[g]]
  /\ UNCHANGED <<dialing, conn, req, faults>>

-----------------------------------------------------------------------------
(* The servers and the clock                                                *)

Fault(where, cs) ==
  /\ faults < MaxFaults /\ where \in Faulty
  /\ faults' = faults + 1
  /\ conn' = cs
  /\ UNCHANGED <<closed, pool, lastUsed, orphans, doomed, aliases, dialing,
                 group, req>>

(* HTTP/1.1: the server closes its end, or writes unasked.                  *)
ServerGone(c) ==
  /\ conn[c].proto = "h1" /\ conn[c].st = "open"
  /\ Fault("server", [conn EXCEPT ![c].st = "gone"])

(* HTTP/2: GOAWAY, or the connection drops under the read loop.             *)
Goaway(c) ==
  /\ conn[c].proto = "h2" /\ conn[c].st = "open"
  /\ Fault("server", [conn EXCEPT ![c].st = "draining"])
Dropped(c) ==
  /\ conn[c].proto = "h2" /\ conn[c].st \in {"open", "draining"}
  /\ Fault("server", [conn EXCEPT ![c].st = "dead"])

(* The pending read of watchIdle meets it.                                  *)
WatchFires(c) ==
  /\ conn[c].watch # "off" /\ conn[c].st = "gone"
  /\ conn' = [conn EXCEPT ![c].st = "dead"]
  /\ UNCHANGED <<closed, pool, lastUsed, orphans, doomed, aliases, dialing,
                 group, req, faults>>

(* An idle connection passes its idle timeout.                              *)
Expires(c) ==
  /\ c \in pool /\ conn[c].busy = 0 /\ ~conn[c].expired
  /\ Fault("clock", [conn EXCEPT ![c].expired = TRUE])

(* A closed connection nothing refers to: its identity is free again.       *)
Forgotten(c) ==
  /\ conn[c].st = "closed"
  /\ c \notin pool \cup orphans \cup doomed
  /\ \A k \in Keys : aliases[k] # c
  /\ \A r \in Requests : req[r].on # c
  /\ conn' = [conn EXCEPT ![c] = NoConn]
  /\ UNCHANGED <<closed, pool, lastUsed, orphans, doomed, aliases, dialing,
                 group, req, faults>>

-----------------------------------------------------------------------------
(* The specification                                                        *)

TakeConn(r) == ConnRefused(r) \/ PickConn(r) \/ PickNothing(r) \/ PinConn(r) \/ PinFails(r)
Lookup(r) == LookupHit(r) \/ LookupMiss(r)
OwnDial(r) == DialFails(r) \/ DialLate(r) \/ DialRedundant(r) \/ DialUp(r)
Exchange(r) == Respond(r) \/ ExchangeFails(r)
Body(r) == CloseBody(r) \/ DrainOverflow(r)
GiveBack(r) == Release(r) \/ Released(r) \/ ReleaseCloses(r) \/ Evict(r)

Request(r) ==
  \/ Start(r) \/ TakeConn(r) \/ Lookup(r) \/ WaitEnds(r) \/ GiveUp(r) \/ OwnDial(r)
  \/ EndIdleWatch(r) \/ HandBack(r) \/ Exchange(r) \/ Body(r) \/ GiveBack(r)

Attempt(g) ==
  \/ Claim(g) \/ AttemptFails(g) \/ AttemptLate(g) \/ AttemptWins(g)
  \/ AttemptOrphaned(g) \/ AttemptH1(g)

Closer(c) == OrphanDone(c) \/ OrphanTimeout(c) \/ CloseDoomed(c)

Environment(c) ==
  ServerGone(c) \/ Goaway(c) \/ Dropped(c) \/ WatchFires(c) \/ Expires(c) \/ Forgotten(c)

Next ==
  \/ \E r \in Requests : Request(r)
  \/ \E g \in Groups : Attempt(g)
  \/ \E c \in Conns : Closer(c) \/ Environment(c)
  \/ SessionClose

Spec == Init /\ [][Next]_vars

(* Goroutines run on: a lookup, a dial and an attempt end, at the connect   *)
(* limit if not before; what was taken out to close is closed.  Nothing is  *)
(* assumed of servers, of callers - who may keep a response open for ever - *)
(* or of the clock.                                                         *)
Program(r) ==
  TakeConn(r) \/ Lookup(r) \/ WaitEnds(r) \/ OwnDial(r) \/ EndIdleWatch(r) \/ GiveBack(r)

Fairness ==
  /\ \A r \in Requests : WF_vars(Program(r))
  /\ \A g \in Groups : WF_vars(Attempt(g))
  /\ \A c \in Conns : WF_vars(Closer(c)) /\ WF_vars(Forgotten(c))

FairSpec == Spec /\ Fairness

-----------------------------------------------------------------------------
(* Properties                                                              *)

Holds(r, c) ==
  req[r].on = c /\ req[r].pc \in {"unwatch", "exchange", "body", "release"}
Using(r, c) == req[r].on = c /\ req[r].pc \in {"exchange", "body"}
Waits(r, g) == req[r].pc = "wait" /\ req[r].grp = g

(* The type invariant: every record of the pool, its groups and requests.   *)
TypeOK ==
  /\ closed \in BOOLEAN
  /\ pool \subseteq Conns /\ orphans \subseteq Conns /\ doomed \subseteq Conns
  /\ lastUsed \in [Conns -> Nat]
  /\ aliases \in [Keys -> Conns \cup {None}]
  /\ dialing \in [Keys -> Groups \cup {None}]
  /\ group \in [Groups -> GroupRecord]
  /\ conn \in [Conns -> ConnRecord]
  /\ req \in [Requests -> ReqRecord]
  /\ faults \in 0..MaxFaults

(* An HTTP/1.1 connection carries one request at a time: two would write    *)
(* over each other's unread responses (conn.busy, conn.go).                 *)
H1Exclusive ==
  \A c \in Conns : conn[c].proto = "h1" =>
    \A r, s \in Requests : Holds(r, c) /\ Holds(s, c) => r = s

(* A pooled connection's busy counter is exactly the requests that hold it: *)
(* the sweep and the limiter judge by it, and by nothing else, whether a    *)
(* connection may be closed under its users (sweepLocked, evictLRULocked).  *)
BusyCounts ==
  \A c \in pool : conn[c].busy = Cardinality({r \in Requests : Holds(r, c)})

(* What the pool takes out to close - by sweep, by limit, by eviction, as a *)
(* redundant handshake - no request is using, unless the session itself was *)
(* closed over it.                                                          *)
VictimsUnused ==
  ~closed => \A c \in doomed, r \in Requests : ~Using(r, c)

(* Every socket that is open has someone left to close it: the pool, a      *)
(* closer, an orphan's goroutine, or the request that will give it back.    *)
NoLeakedSocket ==
  \A c \in Conns : conn[c].st \notin {"free", "closed"} =>
    \/ c \in pool \cup orphans \cup doomed
    \/ \E r \in Requests :
         /\ req[r].on = c
         /\ req[r].pc \in {"unwatch", "exchange", "body", "release",
                           "released", "closing"}

(* A request goes out only on a connection made for its key, or on one that *)
(* took its name on with a certificate for it, however stale the alias that *)
(* says so and whatever happened during the lookup (dialSpec, ipPooled).    *)
RightConnection ==
  \A r \in Requests, c \in Conns :
    Holds(r, c) =>
      \/ conn[c].key = req[r].key
      \/ conn[c].proto = "h2" /\ <<conn[c].key, req[r].key>> \in Covers

(* An idle pooled HTTP/1.1 connection is under watch, so that a server that *)
(* gives it up is noticed before the next request is written (watchIdle).   *)
IdleWatched ==
  \A c \in pool :
    (conn[c].proto = "h1" /\ conn[c].busy = 0 /\ Usable(c)) =>
      \/ conn[c].watch = "on"
      \/ \E r \in Requests : req[r].on = c /\ req[r].pc = "released"

(* A waiting request has an attempt still to come or a wake-up already:     *)
(* nobody waits on a group nothing runs for (joinGroupLocked, dialAttempt). *)
NoStrandedWaiter ==
  \A r \in Requests, g \in Groups :
    Waits(r, g) /\ ~req[r].woken => group[g].running > 0

(* The group's counters are what they count, under every order of joins,    *)
(* give-ups and finishes: cancelling for nobody and starting an attempt per *)
(* request both rest on them.                                               *)
GroupCounts ==
  \A g \in Groups :
    /\ group[g].waiting = Cardinality({r \in Requests : Waits(r, g)})
    /\ group[g].running = group[g].dialing + group[g].preface + group[g].spare
    /\ group[g].started <= Attempts

(* A family that closes spares before the preface sends at most one preface *)
(* per burst: an attempt past its claim and a winner exclude each other     *)
(* (dialGroup.claimed).                                                     *)
OnePreface ==
  SpareBeforePreface =>
    \A g \in Groups :
      /\ group[g].preface <= 1
      /\ group[g].won => group[g].preface = 0

(* Nothing enters the pool of a closed session, whatever was being dialed.  *)
ClosedStaysEmpty == closed => pool = {} /\ \A k \in Keys : aliases[k] = None

(* A key's share of the pool never holds more HTTP/1.1 connections than the *)
(* browser's limit, counted over dials and attempts that finish together.   *)
HostLimit ==
  \A k \in Keys :
    Cardinality({c \in pool : conn[c].key = k /\ conn[c].proto = "h1"})
      <= MaxConnsPerHost

(* The books of the pool are right together: what it counts is so, what it  *)
(* closes nobody uses, what it keeps is watched, and no host has too many   *)
(* (busy, waiting, started; the sweep, the limiter, maxConnsPerHost).       *)
PoolBooks == BusyCounts /\ VictimsUnused /\ IdleWatched /\ GroupCounts /\ HostLimit

(* Every request that asks for a connection gets one or ends, though every  *)
(* other request keeps its response open for ever: it does not stay where   *)
(* conn() and its dials are, by a lost wake-up or by a round of joins and   *)
(* wake-ups without an outcome.                                             *)
EveryRequestServed ==
  \A r \in Requests : []<>(req[r].pc \notin {"conn", "lookup", "wait", "dial", "unwatch"})

(* After Session.Close every socket comes to be closed and stays closed,    *)
(* but those a request still has outside the pool - also what was dialing,  *)
(* being released or finishing its streams at that moment.                  *)
CloseDrains ==
  <>[](closed => \A c \in Conns : \/ conn[c].st \in {"free", "closed"}
                                   \/ \E r \in Requests : Using(r, c))

-----------------------------------------------------------------------------
(* What the code's comments promise, and the runs refute                   *)

(* "a request that gives up must not take the others' connection with it":  *)
(* while the session is open no request ends by a cancellation that was not *)
(* its own (joinGroupLocked).                                               *)
NobodyElsesCancel ==
  ~closed => \A r \in Requests : req[r].end # "cancelled"

(* "Close ... would cut the neighbouring streams": release closes no        *)
(* HTTP/2 connection another request is using (evict, release).             *)
NeighbourNotCut ==
  ~closed => \A r, s \in Requests :
    req[r].pc = "closing" => ~Using(s, req[r].on)
=============================================================================
