---------------------------- MODULE ConnPoolBooks ----------------------------
(***************************************************************************)
(* The pool's books, proved for every value of the constants: what its     *)
(* counters count, that what it closes nobody uses, that what it keeps is  *)
(* watched and within the browser's limit, and that every open socket has  *)
(* someone left to close it.                                               *)
(***************************************************************************)
EXTENDS ConnPoolSafety

-----------------------------------------------------------------------------
(* The invariant                                                           *)

Holders(c) == {r \in Requests : Holds(r, c)}
Listed(c) == c \in pool \cup orphans \cup doomed
Releasing == {"release", "released", "closing", "evict"}
Owning == {"unwatch", "exchange", "body", "release", "released", "closing"}

(* A free identity is in nobody's list, and what is to be closed is not in  *)
(* the pool.                                                                *)
Placed(c) == /\ conn[c].st = "free" => ~Listed(c)
             /\ c \in pool => c \notin doomed

(* busy counts the holders - of an HTTP/1.1 connection while it is pooled:  *)
(* one found dead as its watch ended leaves the pool with the count as is.  *)
Counts(c) ==
  conn[c].st # "free" /\ (c \in pool \/ conn[c].proto = "h2") =>
    conn[c].busy = Cardinality(Holders(c))

Unheld(c) == \A r \in Requests : ~Holds(r, c)
VictimUnheld(c) == ~closed /\ c \in doomed => Unheld(c)

(* After a failed exchange an HTTP/1.1 connection is lost, so that nobody   *)
(* takes it between its release and its eviction.                           *)
FailedIsLost(c) ==
  \A r \in Requests :
    conn[c].proto = "h1" /\ req[r].on = c /\ req[r].pc \in Releasing /\ req[r].end # "ok" =>
      /\ conn[c].st \in {"dead", "closed"}
      /\ req[r].pc # "release" => Unheld(c)

EvictsFailed(c) ==
  \A r \in Requests : req[r].on = c /\ req[r].pc = "evict" => req[r].end # "ok"

(* Only HTTP/1.1 has a watch, and it is taken for the one that ends it.     *)
WatchPlaced(c) ==
  /\ conn[c].proto = "h2" => conn[c].watch = "off"
  /\ c \in pool /\ conn[c].watch = "taken" =>
       \E r \in Requests : req[r].on = c /\ req[r].pc = "unwatch"
  /\ \A r \in Requests : req[r].on = c /\ req[r].pc = "unwatch" => conn[c].proto = "h1"

WatchedIdle(c) ==
  c \in pool /\ conn[c].proto = "h1" /\ conn[c].busy = 0 /\ Usable(c) =>
    \/ conn[c].watch = "on"
    \/ \E r \in Requests : req[r].on = c /\ req[r].pc = "released"

HasOwner(c) ==
  conn[c].st \notin {"free", "closed"} =>
    Listed(c) \/ \E r \in Requests : req[r].on = c /\ req[r].pc \in Owning

BooksOf(c) == /\ Placed(c) /\ Counts(c) /\ VictimUnheld(c) /\ FailedIsLost(c)
              /\ EvictsFailed(c) /\ WatchPlaced(c) /\ WatchedIdle(c) /\ HasOwner(c)

(* A group's books.                                                         *)
Waiters(g) == {r \in Requests : Waits(r, g)}
WaitingOf(g) == group[g].waiting = Cardinality(Waiters(g)) /\ group[g].started <= Attempts

BooksInv == (\A c \in Conns : BooksOf(c)) /\ HostLimit

-----------------------------------------------------------------------------
(* A connection a step has nothing to do with                              *)

(* What ties a request to a connection, as far as the books go.             *)
Tying == Owning \cup {"evict"}
Tied(r, c) == req[r].on = c /\ req[r].pc \in Tying

SameTie(r, c) ==
  /\ Tied(r, c)' <=> Tied(r, c)
  /\ Tied(r, c) => req'[r].pc = req[r].pc /\ req'[r].end = req[r].end

(* The connection and its requests are as they were; at most it is taken    *)
(* out of the pool while it is idle, or when the session is closed.         *)
Aside(c) ==
  /\ conn'[c] = conn[c] /\ \A r \in Requests : SameTie(r, c)
  /\ c \in pool' => c \in pool
  /\ c \in doomed' => c \in doomed \/ closed' \/ (c \in pool /\ conn[c].busy = 0)
  /\ c \in doomed' => c \in doomed \/ c \notin pool'
  /\ Listed(c)' <=> Listed(c)

LEMMA HoldersFinite ==
  ASSUME NEW c
  PROVE  /\ IsFiniteSet(Holders(c)) /\ Cardinality(Holders(c)) \in Nat
         /\ Cardinality(Holders(c)) = 0 <=> Unheld(c)
<1>1. Holders(c) \subseteq Requests
  BY DEF Holders
<1>2. IsFiniteSet(Holders(c))
  BY <1>1, FS_Subset, ConstantsAssumption
<1>3. Holders(c) = {} <=> Unheld(c)
  BY DEF Holders, Unheld
<1> QED
  BY <1>2, <1>3, FS_CardinalityType, FS_EmptySet

(* The sweep and the limiter judge by busy, and busy is right.              *)
LEMMA IdleIsUnheld ==
  ASSUME NEW c, Placed(c), Counts(c), c \in pool, conn[c].busy = 0
  PROVE  Unheld(c)
BY HoldersFinite DEF Placed, Counts, Listed

LEMMA TiesHold ==
  ASSUME NEW c, \A r \in Requests : SameTie(r, c)
  PROVE  /\ \A r \in Requests : Holds(r, c)' <=> Holds(r, c)
         /\ Holders(c)' = Holders(c) /\ (Unheld(c)' <=> Unheld(c))
<1>1. \A r \in Requests : Holds(r, c)' <=> Holds(r, c)
  BY DEF SameTie, Tied, Tying, Owning, Holds
<1> QED
  BY <1>1 DEF Holders, Unheld

LEMMA Untouched ==
  ASSUME NEW c \in Conns, BooksOf(c), Aside(c), closed => closed'
  PROVE  BooksOf(c)'
<1>0. /\ conn'[c] = conn[c]
      /\ Holders(c)' = Holders(c) /\ (Unheld(c)' <=> Unheld(c))
  BY TiesHold DEF Aside
<1>1. Placed(c)' /\ Counts(c)'
  BY <1>0 DEF BooksOf, Aside, Placed, Counts
<1>2. VictimUnheld(c)'
  BY <1>0, IdleIsUnheld DEF BooksOf, Aside, VictimUnheld
<1>3. FailedIsLost(c)'
  <2> SUFFICES ASSUME NEW r \in Requests,
                      conn'[c].proto = "h1", req'[r].on = c, req'[r].pc \in Releasing,
                      req'[r].end # "ok"
               PROVE  /\ conn'[c].st \in {"dead", "closed"}
                      /\ req'[r].pc # "release" => Unheld(c)'
    BY DEF FailedIsLost
  <2>1. Tied(r, c)'
    BY DEF Tied, Tying, Owning, Releasing
  <2>2. Tied(r, c) /\ req'[r].pc = req[r].pc /\ req'[r].end = req[r].end
    BY <2>1 DEF Aside, SameTie
  <2> QED
    BY <1>0, <2>2 DEF BooksOf, FailedIsLost, Tied
<1>4. \A r \in Requests, pc \in Tying :
        req'[r].on = c /\ req'[r].pc = pc <=> req[r].on = c /\ req[r].pc = pc
  BY DEF Aside, SameTie, Tied
<1>5. WatchPlaced(c)' /\ WatchedIdle(c)' /\ HasOwner(c)'
  BY <1>0, <1>4 DEF BooksOf, Aside, WatchPlaced, WatchedIdle, HasOwner, Usable, Tying, Owning
<1>6. EvictsFailed(c)'
  BY DEF BooksOf, Aside, EvictsFailed, SameTie, Tied, Tying
<1> QED
  BY <1>1, <1>2, <1>3, <1>5, <1>6 DEF BooksOf

(* One request moves: the others are tied as they were, and it too where it *)
(* neither was nor goes.                                                    *)
LEMMA OthersTied ==
  ASSUME NEW r \in Requests, NEW c, \A s \in Requests \ {r} : req'[s] = req[s],
         ~Tied(r, c), ~Tied(r, c)'
  PROVE  \A s \in Requests : SameTie(s, c)
BY DEF SameTie, Tied

LEMMA LimitKept ==
  ASSUME TypeInv, HostLimit, NEW N \in SUBSET Conns, pool' \subseteq pool \cup N,
         \A c \in N : conn'[c].proto = "h2",
         \A c \in pool : conn'[c].proto = conn[c].proto /\ conn'[c].key = conn[c].key
  PROVE  HostLimit'
<1> SUFFICES ASSUME NEW k \in Keys
             PROVE  Cardinality({c \in pool' : conn'[c].key = k /\ conn'[c].proto = "h1"})
                      <= MaxConnsPerHost
  BY DEF HostLimit
<1> DEFINE before == {c \in pool : conn[c].key = k /\ conn[c].proto = "h1"}
           after == {c \in pool' : conn'[c].key = k /\ conn'[c].proto = "h1"}
<1>1. after \subseteq before
  OBVIOUS
<1>2. before \subseteq Conns
  BY DEF TypeInv, TypeOK
<1>3. IsFiniteSet(before)
  BY <1>2, FS_Subset, ConstantsAssumption
<1>4. Cardinality(after) <= Cardinality(before) /\ Cardinality(before) \in Nat
      /\ Cardinality(after) \in Nat
  BY <1>1, <1>3, FS_Subset, FS_CardinalityType
<1>5. Cardinality(before) <= MaxConnsPerHost
  BY DEF HostLimit
<1> QED
  BY <1>4, <1>5, ConstantsAssumption

(* A step that has nothing to do with any connection.                       *)
LEMMA NoneTouched ==
  ASSUME TypeInv, BooksInv, \A c \in Conns : Aside(c), closed => closed', pool' \subseteq pool
  PROVE  BooksInv'
<1>1. \A c \in Conns : BooksOf(c)'
  BY Untouched DEF BooksInv
<1>2. HostLimit'
  <2>1. \A c \in pool : conn'[c] = conn[c]
    BY DEF Aside, TypeInv, TypeOK
  <2> QED
    <3>1. {} \in SUBSET Conns /\ pool' \subseteq pool \cup {}
      OBVIOUS
    <3> QED
      BY <2>1, <3>1, LimitKept DEF BooksInv
<1> QED
  BY <1>1, <1>2 DEF BooksInv

-----------------------------------------------------------------------------
(* Requests that hold nothing, before or after                             *)

LEMMA JoinsWait ==
  ASSUME TypeInv, NEW r \in Requests, JoinGroup(r)
  PROVE  req'[r].pc = "wait" /\ \A s \in Requests \ {r} : req'[s] = req[s]
<1>1. PICK g \in Groups : req' = [req EXCEPT ![r].pc = "wait", ![r].grp = g, ![r].woken = FALSE]
  BY DEF JoinGroup
<1> QED
  BY <1>1, Fields DEF TypeInv, TypeOK, ReqRecord

LEMMA BooksPlain ==
  ASSUME TypeInv, BooksInv, NEW r \in Requests,
         Start(r) \/ ConnRefused(r) \/ PinFails(r) \/ Lookup(r) \/ WaitEnds(r) \/ GiveUp(r)
           \/ DialFails(r)
  PROVE  BooksInv'
<1>0. req[r] \in ReqRecord /\ req \in [Requests -> ReqRecord]
  BY Fields DEF TypeInv, TypeOK
<1>1. UNCHANGED <<closed, pool, orphans, doomed, conn>>
  BY DEF Start, ConnRefused, PinFails, Lookup, LookupHit, LookupMiss, WaitEnds, GiveUp, DialFails
<1>2. \A s \in Requests \ {r} : req'[s] = req[s]
  BY <1>0 DEF Start, ConnRefused, PinFails, Lookup, LookupHit, LookupMiss, WaitEnds, GiveUp,
              DialFails, JoinGroup
<1>3. req[r].pc \notin Tying
  BY DEF Start, ConnRefused, PinFails, Lookup, LookupHit, LookupMiss, WaitEnds, GiveUp,
         DialFails, Tying, Owning
<1>4. req'[r].pc \in {"conn", "wait", "done"}
  <2>1. CASE Start(r) \/ Lookup(r)
    <3>1. CASE Start(r)
      <4>1. PICK k \in Keys, m \in Modes :
              req' = [req EXCEPT ![r].pc = "conn", ![r].key = k, ![r].mode = m]
        BY <3>1 DEF Start
      <4> QED
        BY <1>0, <4>1 DEF ReqRecord
    <3>2. CASE LookupHit(r)
      BY <1>0, <3>2 DEF LookupHit, ReqRecord
    <3>3. CASE LookupMiss(r)
      BY <3>3, JoinsWait DEF LookupMiss
    <3> QED
      BY <2>1, <3>1, <3>2, <3>3 DEF Lookup
  <2>2. CASE ConnRefused(r) \/ PinFails(r) \/ GiveUp(r) \/ DialFails(r)
    BY <1>0, <2>2, EndedPc DEF ConnRefused, PinFails, GiveUp, DialFails
  <2>3. CASE WaitEnds(r)
    BY <1>0, <2>3, EndedPc DEF WaitEnds, ReqRecord
  <2> QED
    BY <2>1, <2>2, <2>3
<1>5. \A c \in Conns : Aside(c)
  <2> SUFFICES ASSUME NEW c \in Conns PROVE Aside(c)
    OBVIOUS
  <2>1. ~Tied(r, c) /\ ~Tied(r, c)'
    BY <1>3, <1>4 DEF Tied, Tying, Owning
  <2> QED
    BY <1>1, <1>2, <2>1, OthersTied DEF Aside, Listed
<1> QED
  BY <1>1, <1>5, NoneTouched

(* A turn of conn() that finds nothing may have swept the pool.             *)
LEMMA BooksNothing ==
  ASSUME TypeInv, BooksInv, NEW r \in Requests, PickNothing(r)
  PROVE  BooksInv'
<1>0. req[r] \in ReqRecord /\ req \in [Requests -> ReqRecord]
  BY Fields DEF TypeInv, TypeOK
<1>1. PICK swept \in {{}, Sweepable} :
        /\ pool' = pool \ swept /\ doomed' = doomed \cup swept
        /\ \/ req' = [req EXCEPT ![r].pc = "dial"]
           \/ req' = [req EXCEPT ![r].pc = "lookup", ![r].looked = TRUE]
           \/ JoinGroup(r)
  BY DEF PickNothing
<1>2. \A s \in Requests \ {r} : req'[s] = req[s]
  BY <1>0, <1>1, JoinsWait
<1>3. req[r].pc = "conn" /\ req'[r].pc \in {"dial", "lookup", "wait"}
  <2>1. CASE req' = [req EXCEPT ![r].pc = "dial"]
    BY <1>0, <2>1 DEF PickNothing, ReqRecord
  <2>2. CASE req' = [req EXCEPT ![r].pc = "lookup", ![r].looked = TRUE]
    BY <1>0, <2>2 DEF PickNothing, ReqRecord
  <2> QED
    BY <1>1, <2>1, <2>2, JoinsWait DEF PickNothing
<1>4. \A c \in swept : c \in pool /\ conn[c].busy = 0
  BY DEF Sweepable
<1>5. UNCHANGED <<closed, orphans, conn>>
  BY DEF PickNothing
<1>6. \A c \in Conns : Aside(c)
  <2> SUFFICES ASSUME NEW c \in Conns PROVE Aside(c)
    OBVIOUS
  <2>1. ~Tied(r, c) /\ ~Tied(r, c)'
    BY <1>3 DEF Tied, Tying, Owning
  <2>2. c \in swept => c \in pool /\ conn[c].busy = 0
    BY <1>4
  <2> QED
    BY <1>1, <1>2, <1>5, <2>1, <2>2, OthersTied DEF Aside, Listed
<1> QED
  BY <1>1, <1>5, <1>6, NoneTouched

-----------------------------------------------------------------------------
(* Connections handed out                                                  *)

(* A free identity is tied to nobody and in no list.                        *)
LEMMA FreshUntied ==
  ASSUME ConnInv, NEW c \in Conns, BooksOf(c), conn[c].st = "free"
  PROVE  ~Listed(c) /\ \A r \in Requests : req[r].on # c
BY DEF ConnInv, BooksOf, Placed

(* A new connection nobody has taken yet: listed somewhere, and watched if  *)
(* it waits in the pool.                                                    *)
LEMMA FreshBooks ==
  ASSUME NEW c \in Conns, conn'[c].st # "free", conn'[c].busy = 0,
         conn'[c].proto = "h2" => conn'[c].watch = "off", conn'[c].watch # "taken",
         \A r \in Requests : ~Tied(r, c)', Listed(c)', c \in pool' => c \notin doomed',
         c \in pool' /\ conn'[c].proto = "h1" => conn'[c].watch = "on"
  PROVE  BooksOf(c)'
<1> USE DEF Tied, Tying, Owning
<1>1. Unheld(c)' /\ Holders(c)' = {}
  BY DEF Unheld, Holders, Holds
<1>2. Placed(c)' /\ Counts(c)' /\ VictimUnheld(c)'
  BY <1>1, FS_EmptySet DEF Placed, Counts, VictimUnheld
<1>3. FailedIsLost(c)' /\ EvictsFailed(c)'
  BY DEF FailedIsLost, EvictsFailed, Releasing
<1>4. WatchPlaced(c)' /\ WatchedIdle(c)' /\ HasOwner(c)'
  BY DEF WatchPlaced, WatchedIdle, HasOwner
<1> QED
  BY <1>2, <1>3, <1>4 DEF BooksOf

(* A new connection that carries its request already.                       *)
LEMMA CarryingBooks ==
  ASSUME NEW c \in Conns, NEW r \in Requests, conn'[c].st # "free", conn'[c].busy = 1,
         conn'[c].watch = "off", c \notin doomed',
         \A s \in Requests : Tied(s, c)' <=> s = r, req'[r].on = c, req'[r].pc = "exchange"
  PROVE  BooksOf(c)'
<1> USE DEF Tied, Tying, Owning
<1>1. Holders(c)' = {r}
  BY DEF Holders, Holds
<1>2. Placed(c)' /\ Counts(c)' /\ VictimUnheld(c)'
  BY <1>1, FS_Singleton DEF Placed, Counts, VictimUnheld
<1>3. FailedIsLost(c)' /\ EvictsFailed(c)'
  BY DEF FailedIsLost, EvictsFailed, Releasing
<1>4. WatchPlaced(c)' /\ WatchedIdle(c)' /\ HasOwner(c)'
  BY DEF WatchPlaced, WatchedIdle, HasOwner
<1> QED
  BY <1>2, <1>3, <1>4 DEF BooksOf

(* A pooled connection that takes one request more: it is counted, and the  *)
(* watch of an HTTP/1.1 one is taken.                                       *)
LEMMA TakenBooks ==
  ASSUME NEW c \in Conns, NEW r \in Requests, TypeInv, BooksOf(c),
         c \in pool, Usable(c), conn[c].proto = "h1" => conn[c].busy = 0,
         conn' = Acquired(conn, c) \/ conn'[c] = Acquired(conn, c)[c],
         ~Tied(r, c), \A s \in Requests \ {r} : SameTie(s, c),
         req'[r].on = c,
         req'[r].pc = IF conn[c].proto = "h1" THEN "unwatch" ELSE "exchange",
         c \notin doomed'
  PROVE  BooksOf(c)'
<1>0. conn[c] \in ConnRecord
  BY Fields DEF TypeInv
<1>1. /\ conn'[c].st = conn[c].st /\ conn'[c].proto = conn[c].proto
      /\ conn'[c].busy = conn[c].busy + 1
      /\ conn'[c].watch = IF conn[c].watch = "on" THEN "taken" ELSE conn[c].watch
  BY <1>0 DEF Acquired, ConnRecord, TypeInv, TypeOK
<1>2. Holds(r, c)' /\ ~Holds(r, c) /\ \A s \in Requests \ {r} : Holds(s, c)' <=> Holds(s, c)
  BY DEF Holds, Tied, Tying, Owning, SameTie
<1>3. Holders(c)' = Holders(c) \cup {r} /\ r \notin Holders(c)
  BY <1>2 DEF Holders
<1>4. Cardinality(Holders(c)') = Cardinality(Holders(c)) + 1
  BY <1>3, HoldersFinite, FS_AddElement
<1>5. conn[c].busy = Cardinality(Holders(c)) /\ conn[c].busy \in Nat
  BY HoldersFinite DEF BooksOf, Counts, Usable
<1>6. Placed(c)' /\ Counts(c)' /\ VictimUnheld(c)'
  BY <1>1, <1>4, <1>5 DEF Placed, Counts, VictimUnheld, Usable
<1>7. FailedIsLost(c)'
  <2> SUFFICES ASSUME NEW s \in Requests, conn[c].proto = "h1", Tied(s, c)',
                      req'[s].pc \in Releasing, req'[s].end # "ok"
               PROVE  FALSE
    BY <1>1 DEF FailedIsLost, Releasing, Tied, Tying, Owning
  <2>1. s # r
    BY DEF Releasing
  <2>2. req[s].on = c /\ req[s].pc \in Releasing /\ req[s].end # "ok"
    BY <2>1 DEF SameTie, Tied
  <2> QED
    BY <2>2 DEF BooksOf, FailedIsLost, Usable
<1>8. WatchPlaced(c)'
  <2>1. conn'[c].proto = "h2" => conn'[c].watch = "off"
    BY <1>1 DEF BooksOf, WatchPlaced
  <2>2. conn'[c].watch = "taken" => req'[r].on = c /\ req'[r].pc = "unwatch"
    BY <1>0, <1>1, <2>1 DEF ConnRecord
  <2>3. \A s \in Requests : req'[s].on = c /\ req'[s].pc = "unwatch" => conn'[c].proto = "h1"
    <3> SUFFICES ASSUME NEW s \in Requests, req'[s].on = c, req'[s].pc = "unwatch"
                 PROVE  conn'[c].proto = "h1"
      OBVIOUS
    <3>1. CASE s = r
      BY <1>1, <3>1
    <3>2. CASE s # r
      BY <1>1, <3>2 DEF SameTie, Tied, Tying, Owning, BooksOf, WatchPlaced
    <3> QED
      BY <3>1, <3>2
  <2> QED
    BY <2>1, <2>2, <2>3 DEF WatchPlaced
<1>9. WatchedIdle(c)' /\ HasOwner(c)'
  BY <1>1, <1>5 DEF WatchedIdle, HasOwner, Owning
<1>10. EvictsFailed(c)'
  BY DEF BooksOf, EvictsFailed, SameTie, Tied, Tying
<1> QED
  BY <1>6, <1>7, <1>8, <1>9, <1>10 DEF BooksOf

(* A host's room is looked at and taken in one step.                        *)
LEMMA LimitRoom ==
  ASSUME TypeInv, HostLimit, NEW c \in Conns, NEW k,
         Cardinality({d \in pool : conn[d].key = k}) < MaxConnsPerHost,
         pool' \subseteq pool \cup {c}, conn'[c].key = k,
         \A d \in pool : conn'[d].proto = conn[d].proto /\ conn'[d].key = conn[d].key
  PROVE  HostLimit'
<1> SUFFICES ASSUME NEW l \in Keys
             PROVE  Cardinality({d \in pool' : conn'[d].key = l /\ conn'[d].proto = "h1"})
                      <= MaxConnsPerHost
  BY DEF HostLimit
<1> DEFINE before == {d \in pool : conn[d].key = l /\ conn[d].proto = "h1"}
           all == {d \in pool : conn[d].key = k}
           after == {d \in pool' : conn'[d].key = l /\ conn'[d].proto = "h1"}
<1>1. before \subseteq Conns /\ all \subseteq Conns
  BY DEF TypeInv, TypeOK
<1>2. /\ IsFiniteSet(before) /\ Cardinality(before) \in Nat
      /\ IsFiniteSet(all) /\ Cardinality(all) \in Nat
      /\ IsFiniteSet(all \cup {c}) /\ Cardinality(all \cup {c}) \in Nat
  BY <1>1, FS_Subset, FS_AddElement, FS_CardinalityType, ConstantsAssumption
<1>3. CASE l = k
  <2>1. after \subseteq all \cup {c}
    BY <1>3
  <2>2. Cardinality(after) <= Cardinality(all \cup {c}) /\ Cardinality(after) \in Nat
    BY <1>2, <2>1, FS_Subset, FS_CardinalityType
  <2>3. Cardinality(all \cup {c}) <= Cardinality(all) + 1
    BY <1>2, FS_AddElement
  <2>4. Cardinality(all) < MaxConnsPerHost
    OBVIOUS
  <2> HIDE DEF all, after
  <2>5. Cardinality(after) <= MaxConnsPerHost
    BY <1>2, <2>2, <2>3, <2>4, ConstantsAssumption
  <2> QED
    BY <2>5 DEF after
<1>4. CASE l # k
  <2>1. after \subseteq before
    BY <1>4
  <2>2. Cardinality(after) <= Cardinality(before) /\ Cardinality(after) \in Nat
    BY <1>2, <2>1, FS_Subset, FS_CardinalityType
  <2>3. Cardinality(before) <= MaxConnsPerHost
    BY DEF HostLimit
  <2> HIDE DEF before, after
  <2>4. Cardinality(after) <= MaxConnsPerHost
    BY <1>2, <2>2, <2>3, ConstantsAssumption
  <2> QED
    BY <2>4 DEF after
<1> QED
  BY <1>3, <1>4

(* A connection of the pool goes to r, the idle ones in swept go out.       *)
LEMMA BooksTaken ==
  ASSUME TypeInv, BooksInv, NEW r \in Requests, NEW c \in pool, NEW swept \in SUBSET Conns,
         Usable(c), CanTake(c), c \notin swept, req[r].pc = "conn", Picked(r, c),
         \A d \in swept : d \in pool /\ conn[d].busy = 0,
         pool' = pool \ swept, doomed' = doomed \cup swept, UNCHANGED <<closed, orphans>>
  PROVE  BooksInv'
<1>0. /\ req[r] \in ReqRecord /\ req \in [Requests -> ReqRecord]
      /\ conn \in [Conns -> ConnRecord] /\ c \in Conns /\ conn[c] \in ConnRecord
  BY Fields DEF TypeInv, TypeOK
<1>1. /\ req'[r].on = c
      /\ req'[r].pc = IF conn[c].proto = "h1" THEN "unwatch" ELSE "exchange"
      /\ \A s \in Requests \ {r} : req'[s] = req[s]
  BY <1>0 DEF Picked, ReqRecord
<1>2. \A d \in Conns : ~Tied(r, d)
  BY DEF Tied, Tying, Owning
<1>3. /\ \A d \in Conns \ {c} : conn'[d] = conn[d]
      /\ conn'[c].proto = conn[c].proto /\ conn'[c].key = conn[c].key
  BY <1>0, AcquiredFields DEF Picked
<1>4. ASSUME NEW d \in Conns, d # c PROVE BooksOf(d)'
  <2>1. ~Tied(r, d)'
    BY <1>1, <1>4 DEF Tied
  <2>2. \A s \in Requests : SameTie(s, d)
    BY <1>1, <1>2, <2>1, OthersTied
  <2>3. Aside(d)
    BY <1>3, <1>4, <2>2 DEF Aside, Listed
  <2> QED
    BY <2>3, Untouched DEF BooksInv
<1>5. BooksOf(c)'
  <2>1. c \notin doomed'
    BY <1>0 DEF BooksInv, BooksOf, Placed
  <2>2. \A s \in Requests \ {r} : SameTie(s, c)
    BY <1>1 DEF SameTie, Tied
  <2>3. conn[c].proto = "h1" => conn[c].busy = 0
    BY DEF CanTake
  <2>4. BooksOf(c) /\ conn' = Acquired(conn, c)
    BY <1>0 DEF BooksInv, Picked
  <2> QED
    BY <1>0, <1>1, <1>2, <2>1, <2>2, <2>3, <2>4, TakenBooks
<1>6. HostLimit'
  <2>1. {} \in SUBSET Conns /\ pool' \subseteq pool \cup {}
    OBVIOUS
  <2>2. \A d \in pool : conn'[d].proto = conn[d].proto /\ conn'[d].key = conn[d].key
    BY <1>3 DEF TypeInv, TypeOK
  <2> QED
    BY <2>1, <2>2, LimitKept DEF BooksInv
<1> QED
  BY <1>4, <1>5, <1>6 DEF BooksInv

(* An alias is HTTP/2, which takes any number.                              *)
LEMMA PickableTakes ==
  ASSUME TypeInv, ConnInv, NEW k \in Keys, NEW P \in SUBSET pool, NEW c \in Pickable(k, P)
  PROVE  c \in P /\ c \in pool /\ Usable(c) /\ CanTake(c)
BY DEF Pickable, Own, Aliased, Live, CanTake, ConnInv, TypeInv, TypeOK

LEMMA BooksPicked ==
  ASSUME TypeInv, ConnInv, BooksInv, NEW r \in Requests, PickConn(r) \/ PinConn(r)
  PROVE  BooksInv'
<1>1. CASE PickConn(r)
  <2>1. PICK swept \in {{}, Sweepable} : \E c \in Pickable(req[r].key, pool \ swept) :
          /\ Picked(r, c)
          /\ pool' = pool \ swept /\ doomed' = doomed \cup swept
    BY <1>1 DEF PickConn
  <2>2. PICK c \in Pickable(req[r].key, pool \ swept) :
          Picked(r, c) /\ pool' = pool \ swept /\ doomed' = doomed \cup swept
    BY <2>1
  <2>3. req[r].pc = "conn" /\ req[r].key \in Keys /\ UNCHANGED <<closed, orphans>>
    BY <1>1 DEF PickConn, TypeInv, WellPlaced
  <2>4. c \in pool /\ c \notin swept /\ Usable(c) /\ CanTake(c)
    BY <2>3, PickableTakes
  <2>5. swept \in SUBSET Conns /\ \A d \in swept : d \in pool /\ conn[d].busy = 0
    BY DEF Sweepable, TypeInv, TypeOK
  <2> QED
    BY <2>2, <2>3, <2>4, <2>5, BooksTaken
<1>2. CASE PinConn(r)
  <2>1. PICK c \in pool : Usable(c) /\ CanTake(c) /\ Picked(r, c)
    BY <1>2 DEF PinConn
  <2>2. /\ req[r].pc = "conn" /\ UNCHANGED <<closed, orphans>>
        /\ pool' = pool \ {} /\ doomed' = doomed \cup {}
    BY <1>2 DEF PinConn
  <2>3. {} \in SUBSET Conns /\ c \notin {} /\ \A d \in {} : d \in pool /\ conn[d].busy = 0
    OBVIOUS
  <2> QED
    BY <2>1, <2>2, <2>3, BooksTaken
<1> QED
  BY <1>1, <1>2

-----------------------------------------------------------------------------
(* Connections dialed                                                      *)

LEMMA NewConnFields ==
  ASSUME NEW k, NEW p
  PROVE  /\ NewConn(k, p).st = "open" /\ NewConn(k, p).proto = p /\ NewConn(k, p).key = k
         /\ NewConn(k, p).busy = 0 /\ NewConn(k, p).watch = "off"
BY DEF NewConn, NoConn

(* A connection nobody asked for any more.                                  *)
LEMMA BooksLate ==
  ASSUME TypeInv, ConnInv, BooksInv, NEW r \in Requests, DialLate(r)
  PROVE  BooksInv'
<1>0. req \in [Requests -> ReqRecord] /\ conn \in [Conns -> ConnRecord]
  BY DEF TypeInv, TypeOK
<1>1. PICK p \in Protos[req[r].key], c \in Conns :
        /\ IsNextConn(c) /\ conn' = [conn EXCEPT ![c] = NewConn(req[r].key, p)]
        /\ doomed' = doomed \cup {c}
  BY DEF DialLate
<1>2. /\ req' = [req EXCEPT ![r] = Ended("failed")] /\ req[r].pc = "dial"
      /\ UNCHANGED <<closed, pool, orphans>>
  BY DEF DialLate
<1>3. /\ \A s \in Requests \ {r} : req'[s] = req[s]
      /\ \A d \in Conns : ~Tied(r, d) /\ ~Tied(r, d)'
  BY <1>0, <1>2, EndedPc DEF Tied, Tying, Owning
<1>4. \A d \in Conns, s \in Requests : SameTie(s, d)
  BY <1>3, OthersTied
<1>5. conn[c].st = "free" /\ ~Listed(c) /\ \A s \in Requests : req[s].on # c
  BY <1>1, FreshUntied DEF IsNextConn, BooksInv
<1>6. ASSUME NEW d \in Conns, d # c PROVE BooksOf(d)'
  <2>1. Aside(d)
    BY <1>0, <1>1, <1>2, <1>4, <1>6 DEF Aside, Listed
  <2> QED
    BY <1>2, <2>1, Untouched DEF BooksInv
<1>7. BooksOf(c)'
  <2>1. conn'[c] = NewConn(req[r].key, p)
    BY <1>0, <1>1
  <2>2. \A s \in Requests : ~Tied(s, c)'
    BY <1>4, <1>5 DEF SameTie, Tied
  <2>3. Listed(c)' /\ c \notin pool'
    BY <1>1, <1>2, <1>5 DEF Listed
  <2> QED
    BY <2>1, <2>2, <2>3, NewConnFields, FreshBooks
<1>8. HostLimit'
  <2>1. {} \in SUBSET Conns /\ pool' \subseteq pool \cup {}
    BY <1>2
  <2>2. \A d \in pool : conn'[d] = conn[d]
    BY <1>0, <1>1, <1>5 DEF Listed, TypeInv, TypeOK
  <2> QED
    BY <2>1, <2>2, LimitKept DEF BooksInv
<1> QED
  BY <1>6, <1>7, <1>8 DEF BooksInv

(* Another dial's connection was pooled meanwhile: it is taken, and the new *)
(* one closed.                                                              *)
LEMMA BooksRedundant ==
  ASSUME TypeInv, ConnInv, BooksInv, NEW r \in Requests, DialRedundant(r)
  PROVE  BooksInv'
<1>0. /\ req[r] \in ReqRecord /\ req \in [Requests -> ReqRecord]
      /\ conn \in [Conns -> ConnRecord]
  BY Fields DEF TypeInv, TypeOK
<1>1. PICK old \in Multiplexed(r), c \in Conns :
        /\ IsNextConn(c)
        /\ conn' = Acquired([conn EXCEPT ![c] = NewConn(req[r].key, "h2")], old)
        /\ doomed' = doomed \cup {c}
        /\ req' = [req EXCEPT ![r].pc = "exchange", ![r].on = old, ![r].reused = TRUE]
  BY DEF DialRedundant
<1>2. /\ req[r].pc = "dial" /\ req[r].key \in Keys /\ UNCHANGED <<closed, pool, orphans>>
  BY DEF DialRedundant, TypeInv, WellPlaced
<1>3. old \in pool /\ old \in Conns /\ Usable(old) /\ conn[old].proto = "h2"
  <2>1. old \in Pickable(req[r].key, pool) /\ conn[old].proto = "h2" /\ pool \in SUBSET pool
    BY DEF Multiplexed
  <2> QED
    BY <1>2, <2>1, PickableTakes DEF TypeInv, TypeOK
<1>4. conn[c].st = "free" /\ ~Listed(c) /\ \A s \in Requests : req[s].on # c
  BY <1>1, FreshUntied DEF IsNextConn, BooksInv
<1>5. old # c
  BY <1>3, <1>4 DEF Usable
<1>6. /\ \A s \in Requests \ {r} : req'[s] = req[s]
      /\ req'[r].pc = "exchange" /\ req'[r].on = old
  BY <1>0, <1>1 DEF ReqRecord
<1>7. \A d \in Conns : ~Tied(r, d) /\ (d # old => ~Tied(r, d)')
  BY <1>2, <1>6 DEF Tied, Tying, Owning
<1>8. /\ conn'[c] = NewConn(req[r].key, "h2")
      /\ conn'[old] = Acquired(conn, old)[old]
      /\ \A d \in Conns \ {c, old} : conn'[d] = conn[d]
  BY <1>0, <1>1, <1>3, <1>5 DEF Acquired
<1>9. ASSUME NEW d \in Conns, d # c, d # old PROVE BooksOf(d)'
  <2>1. \A s \in Requests : SameTie(s, d)
    BY <1>6, <1>7, <1>9, OthersTied
  <2>2. Aside(d)
    BY <1>1, <1>2, <1>8, <1>9, <2>1 DEF Aside, Listed
  <2> QED
    BY <1>2, <2>2, Untouched DEF BooksInv
<1>10. BooksOf(c)'
  <2>1. \A s \in Requests : ~Tied(s, c)'
    BY <1>4, <1>5, <1>6 DEF Tied
  <2>2. Listed(c)' /\ c \notin pool'
    BY <1>1, <1>2, <1>4 DEF Listed
  <2> QED
    BY <1>8, <2>1, <2>2, NewConnFields, FreshBooks
<1>11. BooksOf(old)'
  <2>1. \A s \in Requests \ {r} : SameTie(s, old)
    BY <1>6 DEF SameTie, Tied
  <2>2. BooksOf(old) /\ old \notin doomed'
    BY <1>1, <1>3, <1>5 DEF BooksInv, BooksOf, Placed
  <2> QED
    BY <1>3, <1>6, <1>7, <1>8, <2>1, <2>2, TakenBooks
<1>12. HostLimit'
  <2>1. {} \in SUBSET Conns /\ pool' \subseteq pool \cup {}
    BY <1>2
  <2>2. \A d \in pool : conn'[d].proto = conn[d].proto /\ conn'[d].key = conn[d].key
    BY <1>0, <1>3, <1>4, <1>8, AcquiredFields DEF Listed, TypeInv, TypeOK
  <2> QED
    BY <2>1, <2>2, LimitKept DEF BooksInv
<1> QED
  BY <1>9, <1>10, <1>11, <1>12 DEF BooksInv

(* The new connection carries the request, and joins the pool with the      *)
(* others out that are over its limit.                                      *)
LEMMA BooksDialed ==
  ASSUME TypeInv, ConnInv, BooksInv, NEW r \in Requests, DialUp(r)
  PROVE  BooksInv'
<1>0. /\ req[r] \in ReqRecord /\ req \in [Requests -> ReqRecord]
      /\ conn \in [Conns -> ConnRecord]
  BY Fields DEF TypeInv, TypeOK
<1>1. PICK p \in Protos[req[r].key], c \in Conns :
        LET k == req[r].key
            cs == Acquired([conn EXCEPT ![c] = NewConn(k, p)], c)
            room == Cardinality({d \in pool : conn[d].key = k}) < MaxConnsPerHost
            list == IF KeepAlive /\ (p = "h2" \/ room) THEN pool \cup {c} ELSE pool
            over == OverLimit(list, Touched(c), cs)
        IN /\ IsNextConn(c) /\ conn' = cs
           /\ pool' = list \ over /\ doomed' = doomed \cup over
           /\ req' = [req EXCEPT ![r].pc = "exchange", ![r].on = c, ![r].reused = FALSE]
  BY DEF DialUp
<1> DEFINE k == req[r].key
           cs == Acquired([conn EXCEPT ![c] = NewConn(k, p)], c)
           room == Cardinality({d \in pool : conn[d].key = k}) < MaxConnsPerHost
           list == IF KeepAlive /\ (p = "h2" \/ room) THEN pool \cup {c} ELSE pool
           over == OverLimit(list, Touched(c), cs)
<1>2. /\ req[r].pc = "dial" /\ k \in Keys /\ p \in {"h1", "h2"} /\ UNCHANGED <<closed, orphans>>
  BY ConstantsAssumption DEF DialUp, TypeInv, WellPlaced
<1>3. conn[c].st = "free" /\ ~Listed(c) /\ \A s \in Requests : req[s].on # c
  BY <1>1, FreshUntied DEF IsNextConn, BooksInv
<1>4. /\ \A s \in Requests \ {r} : req'[s] = req[s]
      /\ req'[r].pc = "exchange" /\ req'[r].on = c
  BY <1>0, <1>1 DEF ReqRecord
<1>5. \A d \in Conns : ~Tied(r, d) /\ (d # c => ~Tied(r, d)')
  BY <1>2, <1>4 DEF Tied, Tying, Owning
<1>6. /\ conn' = cs /\ cs[c].st = "open" /\ cs[c].busy = 1 /\ cs[c].watch = "off"
      /\ cs[c].proto = p /\ cs[c].key = k
      /\ \A d \in Conns \ {c} : cs[d] = conn[d]
  <2> DEFINE made == [conn EXCEPT ![c] = NewConn(k, p)]
  <2>1. made \in [Conns -> ConnRecord]
    BY <1>0, <1>2, RecordTypes
  <2>2. made[c] = NewConn(k, p) /\ \A d \in Conns \ {c} : made[d] = conn[d]
    BY <1>0
  <2>3. Acquired(made, c)[c].watch = IF made[c].watch = "on" THEN "taken" ELSE made[c].watch
    BY <2>1 DEF Acquired, ConnRecord
  <2>4. conn' = cs /\ cs = Acquired(made, c)
    BY <1>1
  <2> HIDE DEF made, cs
  <2>5. /\ cs[c].proto = made[c].proto /\ cs[c].key = made[c].key /\ cs[c].st = made[c].st
        /\ cs[c].busy = made[c].busy + 1
        /\ \A d \in Conns \ {c} : cs[d] = made[d]
    BY <2>1, <2>4, AcquiredFields
  <2>6. /\ made[c].st = "open" /\ made[c].proto = p /\ made[c].key = k
        /\ made[c].busy = 0 /\ made[c].watch = "off"
    BY <2>2, NewConnFields
  <2>7. cs[c].busy = 1 /\ cs[c].watch = "off"
    BY <2>3, <2>4, <2>5, <2>6
  <2> QED
    BY <2>2, <2>4, <2>5, <2>6, <2>7
<1>7. /\ pool' = list \ over /\ doomed' = doomed \cup over
      /\ list \subseteq pool \cup {c} /\ pool \subseteq list
  BY <1>1
<1>8. over \subseteq list /\ \A d \in over : cs[d].busy = 0
  BY DEF OverLimit
<1> HIDE DEF cs, over
<1>9. c \notin over
  BY <1>6, <1>8
<1>10. c \in list => p = "h2" \/ room
  BY <1>3 DEF Listed
<1> HIDE DEF room, list
<1>11. ASSUME NEW d \in Conns, d # c PROVE BooksOf(d)'
  <2>1. \A s \in Requests : SameTie(s, d)
    BY <1>4, <1>5, <1>11, OthersTied
  <2>2. d \in over => d \in pool /\ conn[d].busy = 0
    BY <1>6, <1>7, <1>8, <1>11
  <2>3. d \in pool' <=> d \in pool /\ d \notin over
    BY <1>7, <1>11
  <2>4. Aside(d)
    BY <1>2, <1>6, <1>7, <1>11, <2>1, <2>2, <2>3 DEF Aside, Listed
  <2> QED
    BY <1>2, <2>4, Untouched DEF BooksInv
<1>12. BooksOf(c)'
  <2>1. \A s \in Requests : Tied(s, c)' <=> s = r
    BY <1>3, <1>4 DEF Tied, Tying, Owning
  <2>2. c \notin doomed'
    BY <1>3, <1>7, <1>9 DEF Listed
  <2> QED
    BY <1>4, <1>6, <2>1, <2>2, CarryingBooks
<1>13. HostLimit'
  <2>1. \A d \in pool : conn'[d].proto = conn[d].proto /\ conn'[d].key = conn[d].key
    BY <1>3, <1>6 DEF Listed, TypeInv, TypeOK
  <2>2. pool' \subseteq pool \cup {c}
    BY <1>7
  <2>3. CASE p = "h2"
    <3>1. {c} \in SUBSET Conns /\ \A d \in {c} : conn'[d].proto = "h2"
      BY <1>6, <2>3
    <3> QED
      BY <2>1, <2>2, <3>1, LimitKept DEF BooksInv
  <2>4. CASE c \notin list
    <3>1. {} \in SUBSET Conns /\ pool' \subseteq pool \cup {}
      BY <1>7, <2>4
    <3> QED
      BY <2>1, <3>1, LimitKept DEF BooksInv
  <2>5. CASE room
    BY <1>2, <1>6, <2>1, <2>2, <2>5, LimitRoom DEF BooksInv, room
  <2> QED
    BY <1>10, <2>3, <2>4, <2>5
<1> QED
  BY <1>11, <1>12, <1>13 DEF BooksInv

(* An attempt that brings no connection: the pool at most shrinks.          *)
LEMMA AttemptTies ==
  ASSUME TypeInv, NEW g, NEW ran, NEW list, NEW stamp, NEW cs, NEW drop,
         AttemptEnds(g, ran, list, stamp, cs, drop), NEW c
  PROVE  \A r \in Requests : SameTie(r, c)
<1>1. \A r \in Requests :
        /\ req'[r].pc = req[r].pc /\ req'[r].on = req[r].on
        /\ req[r].pc # "wait" => req'[r] = req[r]
  BY AttemptEndsMoves
<1> QED
  BY <1>1 DEF SameTie, Tied, Tying, Owning

LEMMA BooksFails ==
  ASSUME TypeInv, BooksInv, NEW g, NEW ran, NEW stamp,
         AttemptEnds(g, ran, pool, stamp, conn, {}), UNCHANGED <<closed, orphans>>
  PROVE  BooksInv'
<1> DEFINE over == OverLimit(pool, stamp, conn)
<1>1. pool' = pool \ over /\ doomed' = doomed \cup over /\ conn' = conn
  BY DEF AttemptEnds
<1>2. \A d \in over : d \in pool /\ conn[d].busy = 0
  BY DEF OverLimit
<1> HIDE DEF over
<1>3. ASSUME NEW c \in Conns PROVE Aside(c)
  BY <1>1, <1>2, AttemptTies DEF Aside, Listed
<1>4. pool' \subseteq pool
  BY <1>1
<1> QED
  BY <1>3, <1>4, NoneTouched

(* One that does: into the pool, an orphan, or to be closed.                *)
LEMMA BooksUp ==
  ASSUME TypeInv, ConnInv, BooksInv, NEW g, NEW ran, NEW list, NEW stamp, NEW cs, NEW drop,
         NEW c \in Conns, conn[c].st = "free",
         AttemptEnds(g, ran, list, stamp, cs, drop), closed' = closed,
         \A d \in Conns \ {c} : cs[d] = conn[d],
         cs[c].st # "free", cs[c].busy = 0, cs[c].watch # "taken",
         cs[c].proto = "h2" => cs[c].watch = "off",
         pool \subseteq list, list \subseteq pool \cup {c}, drop \subseteq {c},
         orphans' \subseteq orphans \cup {c}, orphans \subseteq orphans',
         c \in list \/ c \in drop \/ c \in orphans',
         c \in list => c \notin drop /\ (cs[c].proto = "h1" => cs[c].watch = "on"),
         \/ c \notin list \/ cs[c].proto = "h2"
         \/ Cardinality({d \in pool : conn[d].key = cs[c].key}) < MaxConnsPerHost
  PROVE  BooksInv'
<1> DEFINE over == OverLimit(list, stamp, cs)
<1>1. pool' = list \ over /\ doomed' = doomed \cup over \cup drop /\ conn' = cs
  BY DEF AttemptEnds
<1>2. over \subseteq list /\ \A d \in over : cs[d].busy = 0
  BY DEF OverLimit
<1> HIDE DEF over
<1>3. ~Listed(c) /\ \A s \in Requests : req[s].on # c
  BY FreshUntied DEF BooksInv
<1>4. ASSUME NEW d \in Conns, d # c PROVE BooksOf(d)'
  <2>1. d \in over => d \in pool /\ conn[d].busy = 0
    BY <1>2, <1>4
  <2>2. d \in pool' <=> d \in pool /\ d \notin over
    BY <1>1, <1>4
  <2>3. (d \in orphans' <=> d \in orphans) /\ (d \in doomed' <=> d \in doomed \/ d \in over)
    BY <1>1, <1>4
  <2>4. conn'[d] = conn[d] /\ \A s \in Requests : SameTie(s, d)
    BY <1>1, <1>4, AttemptTies
  <2>5. Aside(d)
    BY <2>1, <2>2, <2>3, <2>4 DEF Aside, Listed
  <2> QED
    BY <2>5, Untouched DEF BooksInv
<1>5. BooksOf(c)'
  <2>1. \A s \in Requests : ~Tied(s, c)'
    BY <1>3, AttemptTies DEF SameTie, Tied
  <2>2. Listed(c)' /\ (c \in pool' => c \in list /\ c \notin doomed')
    BY <1>1, <1>3 DEF Listed
  <2> QED
    BY <1>1, <2>1, <2>2, FreshBooks
<1>6. HostLimit'
  <2>1. \A d \in pool : conn'[d] = conn[d]
    BY <1>1, <1>3 DEF Listed, TypeInv, TypeOK
  <2>2. pool' \subseteq pool \cup {c}
    BY <1>1
  <2>3. CASE cs[c].proto = "h2"
    <3>1. {c} \in SUBSET Conns /\ \A d \in {c} : conn'[d].proto = "h2"
      BY <1>1, <2>3
    <3> QED
      BY <2>1, <2>2, <3>1, LimitKept DEF BooksInv
  <2>4. CASE c \notin list
    <3>1. {} \in SUBSET Conns /\ pool' \subseteq pool \cup {}
      BY <1>1, <2>4
    <3> QED
      BY <2>1, <3>1, LimitKept DEF BooksInv
  <2>5. CASE Cardinality({d \in pool : conn[d].key = cs[c].key}) < MaxConnsPerHost
    BY <1>1, <2>1, <2>2, <2>5, LimitRoom DEF BooksInv
  <2> QED
    BY <2>3, <2>4, <2>5
<1> QED
  BY <1>4, <1>5, <1>6 DEF BooksInv

LEMMA BooksAttempt ==
  ASSUME TypeInv, ConnInv, BooksInv, NEW g \in Groups, Attempt(g)
  PROVE  BooksInv'
<1>0. conn \in [Conns -> ConnRecord]
  BY DEF TypeInv, TypeOK
<1>1. CASE Claim(g)
  <2>1. \A c \in Conns : Aside(c)
    BY <1>1 DEF Claim, Aside, SameTie, Tied, Listed
  <2> QED
    BY <1>1, <2>1, NoneTouched DEF Claim
<1>2. CASE AttemptFails(g)
  <2>1. /\ \E ran : AttemptEnds(g, ran, pool, lastUsed, conn, {})
        /\ UNCHANGED <<closed, orphans>>
    BY <1>2 DEF AttemptFails
  <2> QED
    BY <2>1, BooksFails
<1>3. ASSUME NEW c \in Conns, conn[c].st = "free", NEW p \in {"h1", "h2"}
      PROVE  LET cs == [conn EXCEPT ![c] = NewConn(group[g].key, p)]
             IN /\ cs[c].st = "open" /\ cs[c].busy = 0 /\ cs[c].watch = "off"
                /\ cs[c].proto = p /\ cs[c].key = group[g].key
                /\ \A d \in Conns \ {c} : cs[d] = conn[d]
  BY <1>0, <1>3, NewConnFields
<1>4. CASE AttemptLate(g)
  <2>1. PICK p \in {"h1", "h2"}, c \in Conns :
          IsNextConn(c) /\ AttemptEnds(g, CameUp(g, p), pool, lastUsed,
                                      [conn EXCEPT ![c] = NewConn(group[g].key, p)], {c})
    BY <1>4 DEF AttemptLate
  <2> DEFINE cs == [conn EXCEPT ![c] = NewConn(group[g].key, p)]
  <2>2. /\ conn[c].st = "free" /\ UNCHANGED <<closed, orphans>>
        /\ c \notin pool
    BY <1>4, <2>1, FreshUntied DEF AttemptLate, IsNextConn, BooksInv, Listed
  <2>3. /\ cs[c].st = "open" /\ cs[c].busy = 0 /\ cs[c].watch = "off"
        /\ cs[c].proto = p /\ \A d \in Conns \ {c} : cs[d] = conn[d]
    BY <1>3, <2>2
  <2>4. AttemptEnds(g, CameUp(g, p), pool, lastUsed, cs, {c})
    BY <2>1
  <2>5. /\ pool \subseteq pool \cup {c} /\ {c} \subseteq {c} /\ c \in {c}
        /\ orphans' \subseteq orphans \cup {c} /\ orphans \subseteq orphans'
    BY <2>2
  <2> HIDE DEF cs
  <2> QED
    BY <2>2, <2>3, <2>4, <2>5, BooksUp
<1>5. CASE AttemptWins(g)
  <2>1. PICK c \in Conns :
          IsNextConn(c) /\ AttemptEnds(g, [CameUp(g, "h2") EXCEPT !.won = TRUE, !.cancelled = TRUE],
                      pool \cup {c}, Touched(c),
                      [conn EXCEPT ![c] = NewConn(group[g].key, "h2")], {})
    BY <1>5 DEF AttemptWins
  <2> DEFINE cs == [conn EXCEPT ![c] = NewConn(group[g].key, "h2")]
             ran == [CameUp(g, "h2") EXCEPT !.won = TRUE, !.cancelled = TRUE]
             none == {}
  <2>2. conn[c].st = "free" /\ UNCHANGED <<closed, orphans>>
    BY <1>5, <2>1 DEF AttemptWins, IsNextConn
  <2>3. /\ cs[c].st = "open" /\ cs[c].busy = 0 /\ cs[c].watch = "off"
        /\ cs[c].proto = "h2" /\ \A d \in Conns \ {c} : cs[d] = conn[d]
    BY <1>3, <2>2
  <2>4. AttemptEnds(g, ran, pool \cup {c}, Touched(c), cs, none)
    BY <2>1
  <2>5. /\ pool \subseteq pool \cup {c} /\ none \subseteq {c} /\ c \in pool \cup {c} /\ c \notin none
        /\ orphans' \subseteq orphans \cup {c} /\ orphans \subseteq orphans'
    BY <2>2
  <2> HIDE DEF cs, ran, none
  <2> QED
    BY <2>2, <2>3, <2>4, <2>5, BooksUp
<1>6. CASE AttemptOrphaned(g)
  <2>1. PICK c \in Conns :
          /\ IsNextConn(c) /\ orphans' = orphans \cup {c}
          /\ AttemptEnds(g, CameUp(g, "h2"), pool, lastUsed,
                         [conn EXCEPT ![c] = [NewConn(group[g].key, "h2")
                                                EXCEPT !.st = "draining"]], {})
    BY <1>6 DEF AttemptOrphaned
  <2> DEFINE cs == [conn EXCEPT ![c] = [NewConn(group[g].key, "h2") EXCEPT !.st = "draining"]]
             none == {}
  <2>2. conn[c].st = "free" /\ closed' = closed /\ c \notin pool
    BY <1>6, <2>1, FreshUntied DEF AttemptOrphaned, IsNextConn, BooksInv, Listed
  <2>3. /\ cs[c].st = "draining" /\ cs[c].busy = 0 /\ cs[c].watch = "off"
        /\ cs[c].proto = "h2" /\ \A d \in Conns \ {c} : cs[d] = conn[d]
    BY <1>0 DEF NewConn, NoConn
  <2>4. AttemptEnds(g, CameUp(g, "h2"), pool, lastUsed, cs, none)
    BY <2>1
  <2>5. /\ pool \subseteq pool \cup {c} /\ none \subseteq {c} /\ c \in orphans'
        /\ orphans' \subseteq orphans \cup {c} /\ orphans \subseteq orphans'
    BY <2>1
  <2> HIDE DEF cs, none
  <2> QED
    BY <2>2, <2>3, <2>4, <2>5, BooksUp
<1>7. CASE AttemptH1(g)
  <2> DEFINE k == group[g].key
             fresh(c) == [conn EXCEPT ![c] = NewConn(k, "h1")]
             room == Cardinality({d \in pool : conn[d].key = k}) < MaxConnsPerHost
  <2>1. PICK c \in Conns :
          /\ IsNextConn(c)
          /\ IF room
             THEN AttemptEnds(g, CameUp(g, "h1"), pool \cup {c}, Touched(c),
                              Watched(fresh(c), c), {})
             ELSE AttemptEnds(g, CameUp(g, "h1"), pool, lastUsed, fresh(c), {c})
    BY <1>7 DEF AttemptH1
  <2>2. conn[c].st = "free" /\ UNCHANGED <<closed, orphans>> /\ c \notin pool
    BY <1>7, <2>1, FreshUntied DEF AttemptH1, IsNextConn, BooksInv, Listed
  <2>3. /\ fresh(c)[c].st = "open" /\ fresh(c)[c].busy = 0 /\ fresh(c)[c].watch = "off"
        /\ fresh(c)[c].proto = "h1" /\ fresh(c)[c].key = k
        /\ \A d \in Conns \ {c} : fresh(c)[d] = conn[d]
    BY <1>3, <2>2
  <2>4. fresh(c) \in [Conns -> ConnRecord]
    BY <1>0, RecordTypes, Fields DEF GroupRecord, TypeInv
  <2>5. CASE room
    <3> DEFINE cs == Watched(fresh(c), c)
               none == {}
    <3> HIDE DEF fresh
    <3>1. /\ cs[c].st = "open" /\ cs[c].busy = 0 /\ cs[c].watch = "on"
          /\ cs[c].proto = "h1" /\ cs[c].key = k
          /\ \A d \in Conns \ {c} : cs[d] = conn[d]
      BY <2>3, <2>4 DEF Watched, ConnRecord
    <3>2. AttemptEnds(g, CameUp(g, "h1"), pool \cup {c}, Touched(c), cs, none)
      BY <2>1, <2>5
    <3>3. /\ pool \subseteq pool \cup {c} /\ none \subseteq {c} /\ c \in pool \cup {c} /\ c \notin none
          /\ orphans' \subseteq orphans \cup {c} /\ orphans \subseteq orphans'
      BY <2>2
    <3>4. Cardinality({d \in pool : conn[d].key = cs[c].key}) < MaxConnsPerHost
      BY <2>5, <3>1
    <3> HIDE DEF cs, none
    <3> QED
      BY <2>2, <3>1, <3>2, <3>3, <3>4, BooksUp
  <2>6. CASE ~room
    <3> DEFINE cs == fresh(c)
    <3>1. AttemptEnds(g, CameUp(g, "h1"), pool, lastUsed, cs, {c})
      BY <2>1, <2>6
    <3>2. /\ cs[c].st = "open" /\ cs[c].busy = 0 /\ cs[c].watch = "off"
          /\ cs[c].proto = "h1" /\ \A d \in Conns \ {c} : cs[d] = conn[d]
      BY <2>3
    <3>3. /\ pool \subseteq pool \cup {c} /\ {c} \subseteq {c} /\ c \in {c}
          /\ orphans' \subseteq orphans \cup {c} /\ orphans \subseteq orphans'
      BY <2>2
    <3> HIDE DEF cs, fresh
    <3> QED
      BY <2>2, <3>1, <3>2, <3>3, BooksUp
  <2> QED
    BY <2>5, <2>6
<1> QED
  BY <1>1, <1>2, <1>4, <1>5, <1>6, <1>7 DEF Attempt

-----------------------------------------------------------------------------
(* A connection's own requests                                             *)

(* A step about one connection.                                             *)
LEMMA OneTouched ==
  ASSUME TypeInv, BooksInv, NEW c \in Conns, closed => closed', pool' \subseteq pool,
         \A d \in Conns \ {c} : Aside(d),
         c \in pool => conn'[c].proto = conn[c].proto /\ conn'[c].key = conn[c].key,
         BooksOf(c)'
  PROVE  BooksInv'
<1>1. \A d \in Conns : BooksOf(d)'
  BY Untouched DEF BooksInv
<1>2. HostLimit'
  <2>1. \A d \in pool : conn'[d].proto = conn[d].proto /\ conn'[d].key = conn[d].key
    BY DEF Aside, TypeInv, TypeOK
  <2>2. {} \in SUBSET Conns /\ pool' \subseteq pool \cup {}
    OBVIOUS
  <2> QED
    BY <2>1, <2>2, LimitKept DEF BooksInv
<1> QED
  BY <1>1, <1>2 DEF BooksInv

(* ... and one request of it.                                               *)
LEMMA OneServed ==
  ASSUME TypeInv, BooksInv, NEW r \in Requests, NEW c \in Conns, req[r].on = c,
         req'[r].on = c \/ req'[r].pc \notin Tying,
         \A s \in Requests \ {r} : req'[s] = req[s],
         \A d \in Conns \ {c} : conn'[d] = conn[d],
         conn'[c].proto = conn[c].proto, conn'[c].key = conn[c].key,
         closed' = closed, pool' \in {pool, pool \ {c}},
         orphans' \in {orphans, orphans \cup {c}}, doomed' \in {doomed, doomed \cup {c}},
         BooksOf(c)'
  PROVE  BooksInv'
<1>1. ASSUME NEW d \in Conns \ {c} PROVE Aside(d)
  <2>1. ~Tied(r, d) /\ ~Tied(r, d)'
    BY <1>1 DEF Tied
  <2>2. \A s \in Requests : SameTie(s, d)
    BY <2>1, OthersTied
  <2>3. /\ d \in pool' <=> d \in pool
        /\ d \in orphans' <=> d \in orphans
        /\ d \in doomed' <=> d \in doomed
    BY <1>1
  <2>4. d \in doomed' => d \in doomed \/ d \notin pool'
    BY <2>3
  <2> QED
    BY <1>1, <2>2, <2>3, <2>4 DEF Aside, Listed
<1>2. pool' \subseteq pool
  OBVIOUS
<1> QED
  BY <1>1, <1>2, OneTouched

(* While a request holds an HTTP/1.1 connection nobody is giving it back.   *)
LEMMA NobodyElse ==
  ASSUME ConnInv, NEW c \in Conns, BooksOf(c), conn[c].proto = "h1",
         NEW r \in Requests, Holds(r, c), NEW s \in Requests, s # r, req[s].on = c
  PROVE  /\ ~Holds(s, c)
         /\ req[s].pc \in Releasing => req[s].end = "ok"
<1>1. ~Holds(s, c)
  BY DEF ConnInv
<1>2. req[s].pc # "release"
  BY <1>1 DEF Holds
<1>3. ~Unheld(c)
  BY DEF Unheld
<1> QED
  BY <1>1, <1>2, <1>3 DEF BooksOf, FailedIsLost

(* r goes on with a connection it holds.                                    *)
LEMMA StillHeld ==
  ASSUME ConnInv, NEW c \in Conns, BooksOf(c), NEW r \in Requests,
         req[r].on = c, req[r].pc \in {"unwatch", "exchange", "body"},
         req'[r].on = c, req'[r].pc \in {"exchange", "body", "release"},
         \A s \in Requests \ {r} : req'[s] = req[s],
         conn'[c].proto = conn[c].proto, conn'[c].busy = conn[c].busy, conn'[c].st # "free",
         \/ conn'[c].watch = conn[c].watch /\ req[r].pc # "unwatch"
         \/ conn'[c].watch # "taken" /\ conn[c].proto = "h1",
         conn[c].proto = "h1" /\ req'[r].pc = "release" /\ req'[r].end # "ok"
           => conn'[c].st \in {"dead", "closed"},
         c \in pool' => c \in pool, c \in doomed' => c \in doomed, closed' = closed
  PROVE  BooksOf(c)'
<1>1. Holds(r, c) /\ Holds(r, c)' /\ conn[c].st # "free"
  BY DEF Holds, ConnInv
<1>2. \A s \in Requests : Holds(s, c)' <=> Holds(s, c)
  BY <1>1 DEF Holds
<1>3. Holders(c)' = Holders(c) /\ ~Unheld(c)
  BY <1>1, <1>2 DEF Holders, Unheld
<1>4. Placed(c)' /\ Counts(c)' /\ VictimUnheld(c)'
  BY <1>1, <1>3 DEF BooksOf, Placed, Counts, VictimUnheld
<1>5. FailedIsLost(c)' /\ EvictsFailed(c)'
  <2>1. ASSUME conn[c].proto = "h1", NEW s \in Requests, req'[s].on = c,
               req'[s].pc \in Releasing, req'[s].end # "ok"
        PROVE  conn'[c].st \in {"dead", "closed"} /\ req'[s].pc = "release"
    <3>1. s = r
      BY <1>1, <2>1, NobodyElse
    <3> QED
      BY <2>1, <3>1 DEF Releasing
  <2>2. EvictsFailed(c)'
    BY DEF BooksOf, EvictsFailed
  <2> QED
    BY <2>1, <2>2 DEF FailedIsLost
<1>6. WatchPlaced(c)'
  <2>1. conn'[c].proto = "h2" => conn'[c].watch = "off"
    BY DEF BooksOf, WatchPlaced
  <2>2. \A s \in Requests : req'[s].on = c /\ req'[s].pc = "unwatch" => conn'[c].proto = "h1"
    BY DEF BooksOf, WatchPlaced
  <2>3. c \in pool' /\ conn'[c].watch = "taken" =>
          \E s \in Requests : req'[s].on = c /\ req'[s].pc = "unwatch"
    BY DEF BooksOf, WatchPlaced
  <2> QED
    BY <2>1, <2>2, <2>3 DEF WatchPlaced
<1>7. WatchedIdle(c)'
  BY <1>1, <1>3, HoldersFinite DEF BooksOf, Counts, WatchedIdle
<1>8. HasOwner(c)'
  BY DEF HasOwner, Owning
<1> QED
  BY <1>4, <1>5, <1>6, <1>7, <1>8 DEF BooksOf

LEMMA BooksHeld ==
  ASSUME TypeInv, ConnInv, BooksInv, NEW r \in Requests,
         HandBack(r) \/ Exchange(r) \/ Body(r)
  PROVE  BooksInv'
<1> USE DEF Exchange, Body
<1>a. PICK c \in Conns : c = req[r].on
  BY DEF TypeInv, WellPlaced, HandBack, Respond, ExchangeFails, CloseBody, DrainOverflow
<1>0. /\ req[r] \in ReqRecord /\ req \in [Requests -> ReqRecord]
      /\ conn \in [Conns -> ConnRecord] /\ conn[c] \in ConnRecord /\ c = req[r].on
  BY <1>a, Fields DEF TypeInv, TypeOK
<1>1. /\ UNCHANGED <<closed, orphans, doomed>> /\ pool' \in {pool, pool \ {c}}
      /\ req[r].pc \in {"exchange", "body"}
  BY <1>0 DEF HandBack, Respond, ExchangeFails, CloseBody, DrainOverflow
<1>2. \A s \in Requests \ {r} : req'[s] = req[s]
  BY <1>0 DEF HandBack, Respond, ExchangeFails, CloseBody, DrainOverflow
<1>3. /\ req'[r].on = c /\ req'[r].pc \in {"body", "release"}
      /\ ExchangeFails(r) \/ req'[r].pc = "body" \/ req'[r].end = "ok"
  BY <1>0 DEF HandBack, Respond, ExchangeFails, CloseBody, DrainOverflow, ReqRecord
<1>4. conn[c].st # "free"
  BY <1>0 DEF ConnInv
<1>5. /\ conn' = conn \/ \E st \in {"draining", "closed", "dead"} :
                            conn' = [conn EXCEPT ![c].st = st]
      /\ ExchangeFails(r) /\ conn[c].proto = "h1" => conn'[c].st \in {"dead", "closed"}
  <2>1. CASE ExchangeFails(r)
    BY <1>0, <2>1 DEF ExchangeFails, ConnRecord
  <2>2. CASE ~ExchangeFails(r)
    BY <1>0, <2>2 DEF HandBack, Respond, CloseBody, DrainOverflow, Closed
  <2> QED
    BY <2>1, <2>2
<1>6. /\ conn'[c].proto = conn[c].proto /\ conn'[c].busy = conn[c].busy
      /\ conn'[c].watch = conn[c].watch /\ conn'[c].key = conn[c].key
      /\ conn'[c].st # "free"
      /\ \A d \in Conns \ {c} : conn'[d] = conn[d]
  BY <1>0, <1>4, <1>5 DEF ConnRecord
<1>7. BooksOf(c)'
  <2>1. BooksOf(c) /\ req[r].on = c /\ (c \in pool' => c \in pool)
    BY <1>0, <1>1 DEF BooksInv
  <2>2. conn[c].proto = "h1" /\ req'[r].pc = "release" /\ req'[r].end # "ok"
          => conn'[c].st \in {"dead", "closed"}
    BY <1>3, <1>5
  <2> QED
    BY <1>1, <1>2, <1>3, <1>6, <2>1, <2>2, StillHeld
<1> QED
  BY <1>0, <1>1, <1>2, <1>3, <1>6, <1>7, OneServed

(* The watch ends: with a connection that is good, or one that is out.      *)
LEMMA BooksWatchEnds ==
  ASSUME TypeInv, ConnInv, BooksInv, NEW r \in Requests, EndIdleWatch(r)
  PROVE  BooksInv'
<1>a. PICK c \in Conns : c = req[r].on
  BY DEF TypeInv, WellPlaced, EndIdleWatch
<1>0. /\ req[r] \in ReqRecord /\ req \in [Requests -> ReqRecord]
      /\ conn \in [Conns -> ConnRecord] /\ conn[c] \in ConnRecord /\ req[r].on = c
  BY <1>a, Fields DEF TypeInv, TypeOK
<1>1. /\ req[r].pc = "unwatch" /\ UNCHANGED <<closed, orphans>> /\ BooksOf(c)
      /\ Holds(r, c)
  BY <1>0 DEF EndIdleWatch, BooksInv, Holds
<1>2. conn[c].proto = "h1" /\ conn[c].st # "free"
  BY <1>0, <1>1 DEF BooksOf, WatchPlaced, ConnInv
<1>3. PICK st \in {"open", "gone", "draining", "dead", "closed"} :
        /\ conn' = [conn EXCEPT ![c].watch = IF @ = "taken" THEN "off" ELSE @, ![c].st = st]
        /\ \/ /\ req' = [req EXCEPT ![r].pc = "exchange"]
              /\ UNCHANGED <<pool, doomed>>
           \/ /\ req' = [req EXCEPT ![r] = IF @.mode = "pinned" THEN Ended("failed")
                                   ELSE [@ EXCEPT !.pc = "conn", !.on = None]]
              /\ pool' = pool \ {c} /\ doomed' = doomed \cup {c}
  <2> DEFINE Unwatched(st) == [conn EXCEPT ![c].watch = IF @ = "taken" THEN "off" ELSE @,
                                           ![c].st = st]
  <2>1. conn[c].st \in {"open", "gone", "draining", "dead", "closed"}
    BY <1>0, <1>2 DEF ConnRecord
  <2>2. \/ /\ conn' = Unwatched(conn[c].st)
           /\ req' = [req EXCEPT ![r].pc = "exchange"]
           /\ UNCHANGED <<pool, doomed>>
        \/ /\ conn' = Unwatched(IF Usable(c) THEN "dead" ELSE conn[c].st)
           /\ req' = [req EXCEPT ![r] = IF @.mode = "pinned" THEN Ended("failed")
                                   ELSE [@ EXCEPT !.pc = "conn", !.on = None]]
           /\ pool' = pool \ {c} /\ doomed' = doomed \cup {c}
    BY <1>0 DEF EndIdleWatch
  <2> QED
    BY <2>1, <2>2
<1>4. /\ conn'[c].proto = "h1" /\ conn'[c].busy = conn[c].busy /\ conn'[c].key = conn[c].key
      /\ conn'[c].st # "free" /\ conn'[c].watch # "taken"
      /\ \A d \in Conns \ {c} : conn'[d] = conn[d]
  BY <1>0, <1>2, <1>3 DEF ConnRecord
<1>5. /\ \A s \in Requests \ {r} : req'[s] = req[s]
      /\ pool' \in {pool, pool \ {c}} /\ doomed' \in {doomed, doomed \cup {c}}
  BY <1>0, <1>3
<1>6. CASE req' = [req EXCEPT ![r].pc = "exchange"] /\ UNCHANGED <<pool, doomed>>
  <2>1. req'[r].on = c /\ req'[r].pc = "exchange"
    BY <1>0, <1>6 DEF ReqRecord
  <2>2. BooksOf(c)'
    BY <1>0, <1>1, <1>2, <1>4, <1>5, <1>6, <2>1, StillHeld
  <2> QED
    BY <1>0, <1>1, <1>2, <1>4, <1>5, <2>1, <2>2, OneServed
<1>7. CASE /\ req' = [req EXCEPT ![r] = IF @.mode = "pinned" THEN Ended("failed")
                                   ELSE [@ EXCEPT !.pc = "conn", !.on = None]]
           /\ pool' = pool \ {c} /\ doomed' = doomed \cup {c}
  <2>1. req'[r].pc \in {"conn", "done"}
    BY <1>0, <1>7, EndedPc DEF ReqRecord
  <2>2. Unheld(c)'
    BY <1>0, <1>1, <1>2, <1>5, <2>1, NobodyElse DEF Unheld, Holds
  <2>3. Placed(c)' /\ Counts(c)' /\ VictimUnheld(c)' /\ WatchedIdle(c)' /\ HasOwner(c)'
    BY <1>4, <1>7, <2>2 DEF Placed, Counts, VictimUnheld, WatchedIdle, HasOwner, Listed
  <2>4. \A s \in Requests : req'[s].on = c /\ req'[s].pc \in Releasing => req'[s].end = "ok"
    BY <1>1, <1>2, <1>5, <2>1, NobodyElse DEF Releasing
  <2>5. FailedIsLost(c)' /\ WatchPlaced(c)' /\ EvictsFailed(c)'
    <3>1. \A s \in Requests : req'[s].pc = "evict" /\ req'[s].on = c => s # r
      BY <2>1
    <3>2. EvictsFailed(c)'
      BY <1>1, <1>5, <3>1 DEF BooksOf, EvictsFailed
    <3>3. FailedIsLost(c)' /\ WatchPlaced(c)'
      BY <1>4, <1>7, <2>4 DEF FailedIsLost, WatchPlaced
    <3> QED
      BY <3>2, <3>3
  <2>6. BooksOf(c)'
    BY <2>3, <2>5 DEF BooksOf
  <2>7. req'[r].pc \notin Tying
    BY <2>1 DEF Tying, Owning
  <2> QED
    BY <1>0, <1>1, <1>2, <1>4, <1>5, <2>6, <2>7, OneServed
<1> QED
  BY <1>3, <1>6, <1>7

(* r leaves a connection alone it has no more than given back.              *)
LEMMA LeavesIt ==
  ASSUME NEW c \in Conns, BooksOf(c), conn[c].st # "free", NEW r \in Requests,
         req[r].on = c, req[r].pc \in {"released", "closing", "evict"},
         req'[r].on = c \/ req'[r].pc \notin Tying,
         req'[r].pc \in {"closing", "evict", "conn", "done"},
         req'[r].pc \in {"closing", "evict"} => req'[r].end = req[r].end,
         req'[r].pc = "evict" => req[r].end # "ok",
         \A s \in Requests \ {r} : req'[s] = req[s]
  PROVE  /\ Holders(c)' = Holders(c) /\ (Unheld(c)' <=> Unheld(c))
         /\ EvictsFailed(c)'
         /\ conn'[c].proto = conn[c].proto /\ (conn[c].st \in {"dead", "closed"} =>
              conn'[c].st \in {"dead", "closed"}) => FailedIsLost(c)'
         /\ \A s \in Requests : req'[s].on = c /\ req'[s].pc = "unwatch" <=>
                                  req[s].on = c /\ req[s].pc = "unwatch"
<1>1. ~Holds(r, c) /\ ~Holds(r, c)'
  BY DEF Holds
<1>2. \A s \in Requests : Holds(s, c)' <=> Holds(s, c)
  BY <1>1 DEF Holds
<1>3. Holders(c)' = Holders(c) /\ (Unheld(c)' <=> Unheld(c))
  BY <1>2 DEF Holders, Unheld
<1>4. EvictsFailed(c)'
  BY DEF BooksOf, EvictsFailed
<1>5. ASSUME conn'[c].proto = conn[c].proto,
             conn[c].st \in {"dead", "closed"} => conn'[c].st \in {"dead", "closed"}
      PROVE  FailedIsLost(c)'
  <2> SUFFICES ASSUME NEW s \in Requests, conn[c].proto = "h1", req'[s].on = c,
                      req'[s].pc \in Releasing, req'[s].end # "ok"
               PROVE  /\ conn'[c].st \in {"dead", "closed"}
                      /\ req'[s].pc # "release" => Unheld(c)'
    BY <1>5 DEF FailedIsLost
  <2>1. /\ req[s].on = c /\ req[s].pc \in Releasing /\ req[s].end # "ok"
        /\ req'[s].pc # "release" => req[s].pc # "release"
    BY DEF Releasing
  <2> QED
    BY <1>3, <1>5, <2>1 DEF BooksOf, FailedIsLost
<1>6. \A s \in Requests : req'[s].on = c /\ req'[s].pc = "unwatch" <=>
                                  req[s].on = c /\ req[s].pc = "unwatch"
  OBVIOUS
<1> QED
  BY <1>3, <1>4, <1>5, <1>6

(* The counter goes down, and the last one answers for the connection.      *)
LEMMA BooksReleases ==
  ASSUME TypeInv, ConnInv, BooksInv, NEW r \in Requests, Release(r)
  PROVE  BooksInv'
<1>a. PICK c \in Conns : c = req[r].on
  BY DEF TypeInv, WellPlaced, Release
<1>0. /\ req[r] \in ReqRecord /\ req \in [Requests -> ReqRecord]
      /\ conn \in [Conns -> ConnRecord] /\ conn[c] \in ConnRecord /\ req[r].on = c
      /\ conn[c].busy \in Int
  BY <1>a, Fields DEF TypeInv, TypeOK, ConnRecord
<1>1. /\ req[r].pc = "release" /\ Holds(r, c) /\ BooksOf(c)
      /\ conn[c].st # "free"
      /\ UNCHANGED <<closed, pool, orphans, doomed>>
      /\ conn' = [conn EXCEPT ![c].busy = conn[c].busy - 1]
      /\ req' = IF conn[c].busy = 1 THEN [req EXCEPT ![r].pc = "released"] ELSE AfterRelease(r)
  BY <1>0 DEF Release, Holds, BooksInv, ConnInv
<1>2. /\ conn'[c].proto = conn[c].proto /\ conn'[c].busy = conn[c].busy - 1
      /\ conn'[c].key = conn[c].key /\ conn'[c].st = conn[c].st
      /\ conn'[c].watch = conn[c].watch
      /\ \A d \in Conns \ {c} : conn'[d] = conn[d]
  BY <1>0, <1>1 DEF ConnRecord
<1>3. /\ \A s \in Requests \ {r} : req'[s] = req[s]
      /\ \/ req'[r].pc = "done"
         \/ /\ req'[r].pc \in {"released", "evict"} /\ req'[r].on = c
            /\ req'[r].end = req[r].end
            /\ req'[r].pc = "evict" => req[r].end # "ok"
      /\ conn[c].busy = 1 => req'[r].pc = "released"
  BY <1>0, <1>1, EndedPc DEF AfterRelease, ReqRecord
<1>4. ~Unheld(c)
  BY <1>1 DEF Unheld
<1>5. Holders(c)' = Holders(c) \ {r} /\ r \in Holders(c)
  <2>1. ~Holds(r, c)' /\ \A s \in Requests \ {r} : Holds(s, c)' <=> Holds(s, c)
    BY <1>3 DEF Holds
  <2> QED
    BY <1>1, <2>1 DEF Holders
<1>6. Cardinality(Holders(c)') = Cardinality(Holders(c)) - 1
  BY <1>5, HoldersFinite, FS_RemoveElement
<1>7. Placed(c)' /\ Counts(c)' /\ VictimUnheld(c)'
  BY <1>1, <1>2, <1>4, <1>6 DEF BooksOf, Placed, Counts, VictimUnheld, Listed
<1>8. FailedIsLost(c)'
  <2> SUFFICES ASSUME NEW s \in Requests, conn[c].proto = "h1", req'[s].on = c,
                      req'[s].pc \in Releasing, req'[s].end # "ok"
               PROVE  conn[c].st \in {"dead", "closed"} /\ Unheld(c)'
    BY <1>2 DEF FailedIsLost
  <2>1. s = r
    BY <1>1, <1>3, NobodyElse
  <2>2. Unheld(c)'
    BY <1>1, <1>5 DEF ConnInv, Holders, Unheld
  <2>3. req[r].end # "ok"
    BY <1>3, <2>1 DEF Releasing
  <2> QED
    BY <1>0, <1>1, <2>2, <2>3 DEF BooksOf, FailedIsLost, Releasing
<1>9. EvictsFailed(c)'
  BY <1>1, <1>3 DEF BooksOf, EvictsFailed
<1>10. WatchPlaced(c)'
  <2>1. \A s \in Requests : req'[s].on = c /\ req'[s].pc = "unwatch" <=>
                              req[s].on = c /\ req[s].pc = "unwatch"
    BY <1>1, <1>3
  <2> QED
    BY <1>1, <1>2, <2>1 DEF BooksOf, WatchPlaced
<1>11. WatchedIdle(c)'
  BY <1>0, <1>2, <1>3 DEF WatchedIdle
<1>12. HasOwner(c)'
  <2>1. CASE Listed(c)
    BY <1>1, <2>1 DEF HasOwner, Listed
  <2>2. CASE conn[c].busy = 1
    BY <1>3, <2>2 DEF HasOwner, Owning
  <2>3. CASE ~Listed(c) /\ conn[c].busy # 1
    <3>1. conn[c].proto = "h2"
      BY <1>0, <1>1, <2>3 DEF ConnInv, ConnRecord
    <3>2. conn[c].busy = Cardinality(Holders(c))
      BY <1>1, <3>1 DEF BooksOf, Counts
    <3>3. Cardinality(Holders(c)') # 0
      BY <1>0, <1>6, <2>3, <3>2, HoldersFinite
    <3>4. Holders(c)' # {}
      BY <3>3, FS_EmptySet
    <3>5. PICK s \in Requests : Holds(s, c)'
      BY <3>4 DEF Holders
    <3> QED
      BY <3>5 DEF Holds, HasOwner, Owning
  <2> QED
    BY <2>1, <2>2, <2>3
<1>13. BooksOf(c)'
  BY <1>7, <1>8, <1>9, <1>10, <1>11, <1>12 DEF BooksOf
<1>14. req'[r].on = c \/ req'[r].pc \notin Tying
  BY <1>3 DEF Tying, Owning
<1> QED
  BY <1>0, <1>1, <1>2, <1>3, <1>13, <1>14, OneServed

LEMMA BooksReleased ==
  ASSUME TypeInv, ConnInv, BooksInv, NEW r \in Requests, Released(r)
  PROVE  BooksInv'
<1>a. PICK c \in Conns : c = req[r].on
  BY DEF TypeInv, WellPlaced, Released
<1>0. /\ req[r] \in ReqRecord /\ req \in [Requests -> ReqRecord]
      /\ conn \in [Conns -> ConnRecord] /\ conn[c] \in ConnRecord /\ req[r].on = c
  BY <1>a, Fields DEF TypeInv, TypeOK
<1>1. /\ req[r].pc = "released" /\ BooksOf(c) /\ conn[c].st # "free"
      /\ UNCHANGED <<closed, pool, orphans, doomed>>
  BY <1>0 DEF Released, BooksInv, ConnInv
<1>2. IF c \in pool
      THEN /\ conn' = Watched([conn EXCEPT ![c].expired = FALSE], c)
           /\ req' = AfterRelease(r)
      ELSE conn' = conn /\ req' = [req EXCEPT ![r].pc = "closing"]
  BY <1>0 DEF Released
<1>3. /\ \A s \in Requests \ {r} : req'[s] = req[s]
      /\ \/ req'[r].pc = "done" /\ c \in pool
         \/ /\ req'[r].on = c /\ req'[r].end = req[r].end
            /\ req'[r].pc = IF c \in pool THEN "evict" ELSE "closing"
            /\ req'[r].pc = "evict" => req[r].end # "ok"
  BY <1>0, <1>2, EndedPc DEF AfterRelease, ReqRecord
<1>4. /\ conn'[c].proto = conn[c].proto /\ conn'[c].busy = conn[c].busy
      /\ conn'[c].key = conn[c].key /\ conn'[c].st = conn[c].st
      /\ \A d \in Conns \ {c} : conn'[d] = conn[d]
      /\ conn'[c].watch = IF c \in pool /\ conn[c].proto = "h1" /\ conn[c].watch = "off"
                                        /\ conn[c].busy = 0 /\ Usable(c)
                          THEN "on" ELSE conn[c].watch
  <2> DEFINE used == [conn EXCEPT ![c].expired = FALSE]
  <2>1. /\ used \in [Conns -> ConnRecord] /\ used[c].proto = conn[c].proto
        /\ used[c].busy = conn[c].busy /\ used[c].watch = conn[c].watch
        /\ used[c].key = conn[c].key /\ used[c].st = conn[c].st
        /\ \A d \in Conns \ {c} : used[d] = conn[d]
    BY <1>0 DEF ConnRecord
  <2> HIDE DEF used
  <2>2. CASE c \in pool
    <3>1. conn' = Watched(used, c)
      BY <1>2, <2>2 DEF used
    <3>2. used[c] \in ConnRecord
      BY <2>1
    <3>3. CASE conn[c].proto = "h1" /\ conn[c].watch = "off" /\ conn[c].busy = 0 /\ Usable(c)
      <4>1. conn' = [used EXCEPT ![c].watch = "on"]
        BY <2>1, <3>1, <3>3 DEF Watched, Usable
      <4> QED
        BY <2>1, <2>2, <3>2, <3>3, <4>1 DEF ConnRecord
    <3>4. CASE ~(conn[c].proto = "h1" /\ conn[c].watch = "off" /\ conn[c].busy = 0 /\ Usable(c))
      <4>1. conn' = used
        BY <2>1, <3>1, <3>4 DEF Watched, Usable
      <4> QED
        BY <2>1, <3>4, <4>1
    <3> QED
      BY <3>3, <3>4
  <2>3. CASE c \notin pool
    BY <1>2, <2>3
  <2> QED
    BY <2>2, <2>3
<1>5. req'[r].on = c \/ req'[r].pc \notin Tying
  BY <1>3 DEF Tying, Owning
<1>6. /\ Holders(c)' = Holders(c) /\ (Unheld(c)' <=> Unheld(c))
      /\ EvictsFailed(c)' /\ FailedIsLost(c)'
      /\ \A s \in Requests : req'[s].on = c /\ req'[s].pc = "unwatch" <=>
                              req[s].on = c /\ req[s].pc = "unwatch"
  BY <1>0, <1>1, <1>3, <1>4, <1>5, LeavesIt
<1>7. Placed(c)' /\ Counts(c)' /\ VictimUnheld(c)'
  BY <1>1, <1>4, <1>6 DEF BooksOf, Placed, Counts, VictimUnheld, Listed
<1>8. WatchPlaced(c)'
  <2>1. conn'[c].proto = "h2" => conn'[c].watch = "off"
    BY <1>1, <1>4 DEF BooksOf, WatchPlaced
  <2>2. conn'[c].watch = "taken" => conn[c].watch = "taken"
    BY <1>4
  <2> QED
    BY <1>1, <1>4, <1>6, <2>1, <2>2 DEF BooksOf, WatchPlaced
<1>9. WatchedIdle(c)'
  <2> SUFFICES ASSUME c \in pool, conn[c].proto = "h1", conn[c].busy = 0, Usable(c)
               PROVE  conn'[c].watch = "on"
    BY <1>1, <1>4 DEF WatchedIdle, Usable
  <2>1. Unheld(c)
    BY <1>1, IdleIsUnheld DEF BooksOf
  <2>2. conn[c].watch # "taken"
    BY <1>1, <2>1 DEF BooksOf, WatchPlaced, Unheld, Holds
  <2> QED
    BY <1>0, <1>4, <2>2 DEF ConnRecord
<1>10. HasOwner(c)'
  <2>1. CASE c \in pool
    BY <1>1, <2>1 DEF HasOwner, Listed
  <2>2. CASE c \notin pool
    BY <1>3, <2>2 DEF HasOwner, Owning
  <2> QED
    BY <2>1, <2>2
<1>11. BooksOf(c)'
  BY <1>6, <1>7, <1>8, <1>9, <1>10 DEF BooksOf
<1> QED
  BY <1>0, <1>1, <1>3, <1>4, <1>5, <1>11, OneServed

LEMMA BooksReleaseCloses ==
  ASSUME TypeInv, ConnInv, BooksInv, NEW r \in Requests, ReleaseCloses(r)
  PROVE  BooksInv'
<1>a. PICK c \in Conns : c = req[r].on
  BY DEF TypeInv, WellPlaced, ReleaseCloses
<1>0. /\ req[r] \in ReqRecord /\ req \in [Requests -> ReqRecord]
      /\ conn \in [Conns -> ConnRecord] /\ conn[c] \in ConnRecord /\ req[r].on = c
  BY <1>a, Fields DEF TypeInv, TypeOK
<1>1. /\ req[r].pc = "closing" /\ BooksOf(c) /\ conn[c].st # "free"
      /\ UNCHANGED <<closed, pool, orphans, doomed>>
      /\ conn' = [conn EXCEPT ![c].st = "closed"] /\ req' = AfterRelease(r)
  BY <1>0 DEF ReleaseCloses, BooksInv, ConnInv, Closed
<1>2. /\ conn'[c].proto = conn[c].proto /\ conn'[c].busy = conn[c].busy
      /\ conn'[c].key = conn[c].key /\ conn'[c].st = "closed"
      /\ conn'[c].watch = conn[c].watch
      /\ \A d \in Conns \ {c} : conn'[d] = conn[d]
  BY <1>0, <1>1 DEF ConnRecord
<1>3. /\ \A s \in Requests \ {r} : req'[s] = req[s]
      /\ \/ req'[r].pc = "done"
         \/ /\ req'[r].on = c /\ req'[r].end = req[r].end
            /\ req'[r].pc = "evict" /\ req[r].end # "ok"
  BY <1>0, <1>1, EndedPc DEF AfterRelease, ReqRecord
<1>5. req'[r].on = c \/ req'[r].pc \notin Tying
  BY <1>3 DEF Tying, Owning
<1>6. /\ Holders(c)' = Holders(c) /\ (Unheld(c)' <=> Unheld(c))
      /\ EvictsFailed(c)' /\ FailedIsLost(c)'
      /\ \A s \in Requests : req'[s].on = c /\ req'[s].pc = "unwatch" <=>
                              req[s].on = c /\ req[s].pc = "unwatch"
  BY <1>0, <1>1, <1>2, <1>3, <1>5, LeavesIt
<1>7. Placed(c)' /\ Counts(c)' /\ VictimUnheld(c)' /\ WatchPlaced(c)'
  BY <1>1, <1>2, <1>6 DEF BooksOf, Placed, Counts, VictimUnheld, WatchPlaced
<1>8. WatchedIdle(c)' /\ HasOwner(c)'
  BY <1>2 DEF WatchedIdle, HasOwner, Usable
<1>9. BooksOf(c)'
  BY <1>6, <1>7, <1>8 DEF BooksOf
<1> QED
  BY <1>0, <1>1, <1>2, <1>3, <1>5, <1>9, OneServed

(* Nobody else has a connection that is evicted to be closed.               *)
LEMMA BooksEvicts ==
  ASSUME TypeInv, ConnInv, BooksInv, NEW r \in Requests, Evict(r)
  PROVE  BooksInv'
<1>a. PICK c \in Conns : c = req[r].on
  BY DEF TypeInv, WellPlaced, Evict
<1>0. /\ req[r] \in ReqRecord /\ req \in [Requests -> ReqRecord]
      /\ conn \in [Conns -> ConnRecord] /\ conn[c] \in ConnRecord /\ req[r].on = c
  BY <1>a, Fields DEF TypeInv, TypeOK
<1>1. /\ req[r].pc = "evict" /\ BooksOf(c) /\ conn[c].st # "free" /\ closed' = closed
  BY <1>0 DEF Evict, BooksInv, ConnInv
<1>2. \/ /\ pool' = pool \ {c}
         /\ orphans' = IF conn[c].proto = "h2" THEN orphans \cup {c} ELSE orphans
         /\ doomed' = IF conn[c].proto = "h2" THEN doomed ELSE doomed \cup {c}
         /\ conn' = IF conn[c].proto = "h2" /\ conn[c].st = "open"
                    THEN [conn EXCEPT ![c].st = "draining"] ELSE conn
      \/ UNCHANGED <<pool, orphans, doomed, conn>>
  BY <1>0 DEF Evict
<1>3. \/ req' = [req EXCEPT ![r] = [NewReq EXCEPT !.pc = "conn", !.key = req[r].key,
                                                  !.mode = "resend"]]
      \/ req' = [req EXCEPT ![r] = Ended("failed")]
  BY <1>0 DEF Evict
<1>4. /\ conn'[c].proto = conn[c].proto /\ conn'[c].busy = conn[c].busy
      /\ conn'[c].key = conn[c].key /\ conn'[c].watch = conn[c].watch
      /\ conn'[c].st # "free" /\ (Usable(c)' => Usable(c))
      /\ conn[c].st \in {"dead", "closed"} => conn'[c].st \in {"dead", "closed"}
      /\ conn'[c].st # "closed" => conn[c].st # "closed"
      /\ \A d \in Conns \ {c} : conn'[d] = conn[d]
  <2>1. conn' = conn \/ (conn[c].st = "open" /\ conn' = [conn EXCEPT ![c].st = "draining"])
    BY <1>2
  <2>2. CASE conn' = conn
    BY <1>1, <2>2 DEF Usable
  <2>3. CASE conn[c].st = "open" /\ conn' = [conn EXCEPT ![c].st = "draining"]
    BY <1>0, <2>3 DEF Usable, ConnRecord
  <2> QED
    BY <2>1, <2>2, <2>3
<1>5. /\ \A s \in Requests \ {r} : req'[s] = req[s]
      /\ req'[r].pc \in {"conn", "done"} /\ req'[r].pc \notin Tying
  BY <1>0, <1>3, EndedPc DEF NewReq, Tying, Owning
<1>6. /\ Holders(c)' = Holders(c) /\ (Unheld(c)' <=> Unheld(c))
      /\ EvictsFailed(c)' /\ FailedIsLost(c)'
      /\ \A s \in Requests : req'[s].on = c /\ req'[s].pc = "unwatch" <=>
                              req[s].on = c /\ req[s].pc = "unwatch"
  BY <1>0, <1>1, <1>4, <1>5, LeavesIt
<1>7. conn[c].proto = "h1" => Unheld(c)
  BY <1>0, <1>1 DEF BooksOf, EvictsFailed, FailedIsLost, Releasing
<1>8. c \in pool' => c \in pool /\ c \notin doomed' /\ doomed' = doomed
  BY <1>1, <1>2 DEF BooksOf, Placed
<1>9. Placed(c)' /\ Counts(c)' /\ VictimUnheld(c)'
  <2>1. Placed(c)' /\ Counts(c)'
    BY <1>1, <1>4, <1>6, <1>8 DEF BooksOf, Placed, Counts
  <2>2. doomed' = doomed \/ conn[c].proto # "h2"
    BY <1>2
  <2>3. conn[c].proto \in {"h1", "h2"}
    BY <1>0 DEF ConnRecord
  <2>4. VictimUnheld(c)'
    BY <1>1, <1>6, <1>7, <2>2, <2>3 DEF BooksOf, VictimUnheld
  <2> QED
    BY <2>1, <2>4
<1>10. WatchPlaced(c)'
  BY <1>1, <1>4, <1>6, <1>8 DEF BooksOf, WatchPlaced
<1>11. WatchedIdle(c)'
  <2>1. \A s \in Requests : req[s].on = c /\ req[s].pc = "released" =>
                              req'[s].on = c /\ req'[s].pc = "released"
    BY <1>1, <1>5
  <2> QED
    BY <1>1, <1>4, <1>8, <2>1 DEF BooksOf, WatchedIdle
<1>12. HasOwner(c)'
  <2>1. Listed(c) => Listed(c)'
    BY <1>2 DEF Listed
  <2>2. \A s \in Requests : req[s].on = c /\ req[s].pc \in Owning =>
                              req'[s].on = c /\ req'[s].pc \in Owning
    BY <1>1, <1>5 DEF Owning
  <2> QED
    BY <1>1, <1>4, <2>1, <2>2 DEF BooksOf, HasOwner
<1>13. BooksOf(c)'
  BY <1>6, <1>9, <1>10, <1>11, <1>12 DEF BooksOf
<1>14. /\ pool' \in {pool, pool \ {c}} /\ orphans' \in {orphans, orphans \cup {c}}
       /\ doomed' \in {doomed, doomed \cup {c}}
  BY <1>2
<1> QED
  BY <1>0, <1>1, <1>4, <1>5, <1>13, <1>14, OneServed

-----------------------------------------------------------------------------
(* Closers, servers, the clock and Close                                   *)

(* Only how the connection is doing changes.                                *)
LEMMA BooksStatus ==
  ASSUME TypeInv, BooksInv, NEW c \in Conns, conn[c].st # "free", conn'[c].st # "free",
         \A d \in Conns \ {c} : conn'[d] = conn[d],
         conn'[c].proto = conn[c].proto, conn'[c].busy = conn[c].busy,
         conn'[c].key = conn[c].key, conn'[c].watch = conn[c].watch, Usable(c)' => Usable(c),
         conn[c].st \in {"dead", "closed"} => conn'[c].st \in {"dead", "closed"},
         UNCHANGED <<closed, pool, req>>,
         orphans' \in {orphans, orphans \ {c}}, doomed' \in {doomed, doomed \ {c}},
         \/ conn'[c].st = "closed"
         \/ conn[c].st # "closed" /\ UNCHANGED <<orphans, doomed>>
  PROVE  BooksInv'
<1>1. ASSUME NEW d \in Conns \ {c} PROVE Aside(d)
  <2>1. \A s \in Requests : SameTie(s, d)
    BY DEF SameTie, Tied
  <2> QED
    BY <1>1, <2>1 DEF Aside, Listed
<1>2. Holders(c)' = Holders(c) /\ (Unheld(c)' <=> Unheld(c))
  BY DEF Holders, Unheld, Holds
<1>3. Placed(c)' /\ Counts(c)' /\ VictimUnheld(c)'
  BY <1>2 DEF BooksInv, BooksOf, Placed, Counts, VictimUnheld
<1>4. FailedIsLost(c)' /\ EvictsFailed(c)'
  BY <1>2 DEF BooksInv, BooksOf, FailedIsLost, EvictsFailed
<1>5. WatchPlaced(c)' /\ WatchedIdle(c)'
  BY DEF BooksInv, BooksOf, WatchPlaced, WatchedIdle
<1>6. HasOwner(c)'
  BY DEF BooksInv, BooksOf, HasOwner, Listed
<1>7. BooksOf(c)'
  BY <1>3, <1>4, <1>5, <1>6 DEF BooksOf
<1>8. pool' \subseteq pool
  OBVIOUS
<1> QED
  BY <1>1, <1>7, <1>8, OneTouched

(* After five minutes an orphan is left to the requests it still has.       *)
LEMMA BooksOrphan ==
  ASSUME TypeInv, ConnInv, BooksInv, NEW c \in Conns, OrphanTimeout(c)
  PROVE  BooksInv'
<1>1. /\ UNCHANGED <<closed, pool, doomed, conn, req>> /\ orphans' = orphans \ {c}
      /\ BooksOf(c)
  BY DEF OrphanTimeout, BooksInv
<1>2. \E r \in Requests : req[r].on = c /\ req[r].pc \in Owning
  BY DEF OrphanTimeout, Streams, Owning
<1>3. ASSUME NEW d \in Conns \ {c} PROVE Aside(d)
  <2>1. \A s \in Requests : SameTie(s, d)
    BY <1>1 DEF SameTie, Tied
  <2> QED
    BY <1>1, <1>3, <2>1 DEF Aside, Listed
<1>4. Holders(c)' = Holders(c) /\ (Unheld(c)' <=> Unheld(c))
  BY <1>1 DEF Holders, Unheld, Holds
<1>5. Placed(c)' /\ Counts(c)' /\ VictimUnheld(c)'
  BY <1>1, <1>4 DEF BooksOf, Placed, Counts, VictimUnheld, Listed
<1>6. FailedIsLost(c)' /\ EvictsFailed(c)' /\ WatchPlaced(c)' /\ WatchedIdle(c)'
  BY <1>1, <1>4 DEF BooksOf, FailedIsLost, EvictsFailed, WatchPlaced, WatchedIdle, Usable
<1>7. HasOwner(c)'
  BY <1>1, <1>2 DEF HasOwner
<1>8. BooksOf(c)'
  BY <1>5, <1>6, <1>7 DEF BooksOf
<1> QED
  BY <1>1, <1>3, <1>8, OneTouched

LEMMA BooksForgotten ==
  ASSUME TypeInv, BooksInv, NEW c \in Conns, Forgotten(c)
  PROVE  BooksInv'
<1>1. /\ UNCHANGED <<closed, pool, orphans, doomed, req>>
      /\ ~Listed(c) /\ \A r \in Requests : req[r].on # c
      /\ conn' = [conn EXCEPT ![c] = NoConn]
  BY DEF Forgotten, Listed
<1>2. /\ conn'[c].st = "free" /\ conn'[c].proto = "h2" /\ conn'[c].watch = "off"
      /\ \A d \in Conns \ {c} : conn'[d] = conn[d]
  BY <1>1 DEF NoConn, TypeInv, TypeOK
<1>3. ASSUME NEW d \in Conns \ {c} PROVE Aside(d)
  <2>1. \A s \in Requests : SameTie(s, d)
    BY <1>1 DEF SameTie, Tied
  <2> QED
    BY <1>1, <1>2, <1>3, <2>1 DEF Aside, Listed
<1>4. Placed(c)' /\ Counts(c)' /\ VictimUnheld(c)'
  BY <1>1, <1>2 DEF Placed, Counts, VictimUnheld, Listed
<1>5. FailedIsLost(c)' /\ EvictsFailed(c)' /\ WatchPlaced(c)' /\ WatchedIdle(c)' /\ HasOwner(c)'
  BY <1>1, <1>2 DEF FailedIsLost, EvictsFailed, WatchPlaced, WatchedIdle, HasOwner
<1>6. BooksOf(c)'
  BY <1>4, <1>5 DEF BooksOf
<1>7. c \notin pool
  BY <1>1 DEF Listed
<1> QED
  BY <1>1, <1>3, <1>6, <1>7, OneTouched

LEMMA BooksOutside ==
  ASSUME TypeInv, ConnInv, BooksInv, NEW c \in Conns, Closer(c) \/ Environment(c)
  PROVE  BooksInv'
<1>0. conn \in [Conns -> ConnRecord] /\ conn[c] \in ConnRecord
  BY Fields DEF TypeInv, TypeOK
<1>1. CASE OrphanTimeout(c)
  BY <1>1, BooksOrphan
<1>2. CASE Forgotten(c)
  BY <1>2, BooksForgotten
<1>3. CASE OrphanDone(c) \/ CloseDoomed(c)
  <2>1. /\ conn' = [conn EXCEPT ![c].st = "closed"] /\ UNCHANGED <<closed, pool, req>>
        /\ orphans' \in {orphans, orphans \ {c}} /\ doomed' \in {doomed, doomed \ {c}}
    BY <1>3 DEF OrphanDone, CloseDoomed, Closed
  <2>2. conn[c].st # "free"
    BY <1>3 DEF OrphanDone, CloseDoomed, BooksInv, BooksOf, Placed, Listed
  <2>3. /\ conn'[c].proto = conn[c].proto /\ conn'[c].busy = conn[c].busy
        /\ conn'[c].key = conn[c].key /\ conn'[c].watch = conn[c].watch
        /\ conn'[c].st = "closed"
        /\ \A d \in Conns \ {c} : conn'[d] = conn[d]
    BY <1>0, <2>1 DEF ConnRecord
  <2>4. ~Usable(c)'
    BY <2>3 DEF Usable
  <2> QED
    BY <2>1, <2>2, <2>3, <2>4, BooksStatus
<1>4. CASE ServerGone(c) \/ Goaway(c) \/ Dropped(c) \/ WatchFires(c)
  <2>1. /\ UNCHANGED <<closed, pool, orphans, doomed, req>>
        /\ conn[c].st \in {"open", "gone", "draining"}
        /\ \/ conn[c].st = "open" /\ conn' = [conn EXCEPT ![c].st = "gone"]
           \/ conn' = [conn EXCEPT ![c].st = "draining"]
           \/ conn' = [conn EXCEPT ![c].st = "dead"]
    BY <1>4 DEF ServerGone, Goaway, Dropped, WatchFires, Fault
  <2>2. /\ conn'[c].proto = conn[c].proto /\ conn'[c].busy = conn[c].busy
        /\ conn'[c].key = conn[c].key /\ conn'[c].watch = conn[c].watch
        /\ conn'[c].st # "free" /\ (Usable(c)' => Usable(c))
        /\ \A d \in Conns \ {c} : conn'[d] = conn[d]
    BY <1>0, <2>1 DEF ConnRecord, Usable
  <2> QED
    BY <2>1, <2>2, BooksStatus
<1>5. CASE Expires(c)
  <2>1. /\ UNCHANGED <<closed, pool, orphans, doomed, req>> /\ c \in pool
        /\ conn' = [conn EXCEPT ![c].expired = TRUE]
    BY <1>5 DEF Expires, Fault
  <2>2. /\ conn'[c].proto = conn[c].proto /\ conn'[c].busy = conn[c].busy
        /\ conn'[c].key = conn[c].key /\ conn'[c].watch = conn[c].watch
        /\ conn'[c].st = conn[c].st /\ (Usable(c)' => Usable(c))
        /\ \A d \in Conns \ {c} : conn'[d] = conn[d]
    BY <1>0, <2>1 DEF ConnRecord, Usable
  <2>3. conn[c].st # "free"
    BY <2>1 DEF BooksInv, BooksOf, Placed, Listed
  <2>4. \A d \in Conns \ {c} : Aside(d)
    BY <2>1, <2>2 DEF Aside, SameTie, Tied, Listed
  <2>5. Holders(c)' = Holders(c) /\ (Unheld(c)' <=> Unheld(c)) /\ (Usable(c)' <=> Usable(c))
    BY <2>1, <2>2 DEF Holders, Unheld, Holds, Usable
  <2>6. BooksOf(c)'
    <3>1. Placed(c)' /\ Counts(c)' /\ VictimUnheld(c)' /\ HasOwner(c)'
      BY <2>1, <2>2, <2>5
      DEF BooksInv, BooksOf, Placed, Counts, VictimUnheld, HasOwner, Listed
    <3>2. FailedIsLost(c)' /\ EvictsFailed(c)' /\ WatchPlaced(c)' /\ WatchedIdle(c)'
      BY <2>1, <2>2, <2>5
      DEF BooksInv, BooksOf, FailedIsLost, EvictsFailed, WatchPlaced, WatchedIdle
    <3> QED
      BY <3>1, <3>2 DEF BooksOf
  <2> QED
    BY <2>1, <2>2, <2>4, <2>6, OneTouched
<1> QED
  BY <1>1, <1>2, <1>3, <1>4, <1>5 DEF Closer, Environment

LEMMA BooksClosed ==
  ASSUME TypeInv, BooksInv, SessionClose \/ UNCHANGED vars
  PROVE  BooksInv'
<1>1. /\ UNCHANGED <<conn, req>> /\ (closed => closed') /\ pool' \subseteq pool
      /\ \A c \in Conns : Listed(c)' <=> Listed(c)
      /\ doomed' = doomed \/ (closed' /\ pool' = {})
  BY DEF SessionClose, vars, Listed
<1>2. ASSUME NEW c \in Conns PROVE Aside(c)
  <2>1. \A s \in Requests : SameTie(s, c)
    BY <1>1 DEF SameTie, Tied
  <2> QED
    BY <1>1, <2>1 DEF Aside
<1> QED
  BY <1>1, <1>2, NoneTouched

LEMMA BooksStep == TypeInv /\ ConnInv /\ BooksInv /\ [Next]_vars => BooksInv'
<1> SUFFICES ASSUME TypeInv, ConnInv, BooksInv, [Next]_vars PROVE BooksInv'
  OBVIOUS
<1>1. ASSUME NEW r \in Requests, Request(r) PROVE BooksInv'
  <2>1. CASE Start(r) \/ TakeConn(r) \/ Lookup(r) \/ WaitEnds(r) \/ GiveUp(r)
    BY <2>1, BooksPlain, BooksNothing, BooksPicked DEF TakeConn
  <2>2. CASE OwnDial(r)
    BY <2>2, BooksPlain, BooksLate, BooksRedundant, BooksDialed DEF OwnDial
  <2>3. CASE EndIdleWatch(r) \/ HandBack(r) \/ Exchange(r) \/ Body(r)
    BY <2>3, BooksWatchEnds, BooksHeld
  <2>4. CASE GiveBack(r)
    BY <2>4, BooksReleases, BooksReleased, BooksReleaseCloses, BooksEvicts DEF GiveBack
  <2> QED
    BY <1>1, <2>1, <2>2, <2>3, <2>4 DEF Request
<1> QED
  BY <1>1, BooksAttempt, BooksOutside, BooksClosed DEF Next

LEMMA BooksInit == Init => BooksInv
<1> SUFFICES ASSUME Init PROVE BooksInv
  OBVIOUS
<1>1. /\ \A c \in Conns : conn[c] = NoConn
      /\ \A r \in Requests : req[r] = NewReq
      /\ pool = {} /\ orphans = {} /\ doomed = {}
  BY DEF Init
<1>2. \A c \in Conns : BooksOf(c)
  <2> SUFFICES ASSUME NEW c \in Conns PROVE BooksOf(c)
    OBVIOUS
  <2>1. conn[c].st = "free" /\ conn[c].proto = "h2" /\ conn[c].watch = "off"
    BY <1>1 DEF NoConn
  <2>2. \A r \in Requests : req[r].pc = "new"
    BY <1>1 DEF NewReq
  <2>3. Placed(c) /\ Counts(c) /\ VictimUnheld(c)
    BY <1>1, <2>1 DEF Placed, Counts, VictimUnheld, Listed
  <2>4. FailedIsLost(c) /\ EvictsFailed(c) /\ WatchPlaced(c) /\ WatchedIdle(c) /\ HasOwner(c)
    BY <1>1, <2>1, <2>2
    DEF FailedIsLost, EvictsFailed, WatchPlaced, WatchedIdle, HasOwner, Releasing
  <2> QED
    BY <2>3, <2>4 DEF BooksOf
<1>3. HostLimit
  <2> SUFFICES ASSUME NEW k \in Keys
               PROVE  Cardinality({c \in pool : conn[c].key = k /\ conn[c].proto = "h1"})
                        <= MaxConnsPerHost
    BY DEF HostLimit
  <2>1. {c \in pool : conn[c].key = k /\ conn[c].proto = "h1"} = {}
    BY <1>1
  <2>2. Cardinality({c \in pool : conn[c].key = k /\ conn[c].proto = "h1"}) = 0
    BY <2>1, FS_EmptySet
  <2> QED
    BY <2>2, ConstantsAssumption
<1> QED
  BY <1>2, <1>3 DEF BooksInv

-----------------------------------------------------------------------------
(* The groups' books                                                       *)

WaitBooks == \A g \in Groups : WaitingOf(g)

LEMMA WaitersFinite ==
  ASSUME NEW g
  PROVE  IsFiniteSet(Waiters(g)) /\ Cardinality(Waiters(g)) \in Nat
<1>1. Waiters(g) \subseteq Requests
  BY DEF Waiters
<1> QED
  BY <1>1, FS_Subset, FS_CardinalityType, ConstantsAssumption

(* Nobody joins and nobody leaves.                                          *)
LEMMA SameWaiters ==
  ASSUME WaitBooks,
         \A g \in Groups : /\ group'[g].waiting = group[g].waiting
                           /\ group'[g].started <= Attempts
                           /\ \A r \in Requests : Waits(r, g)' <=> Waits(r, g)
  PROVE  WaitBooks'
<1>1. \A g \in Groups : Waiters(g)' = Waiters(g)
  BY DEF Waiters
<1> QED
  BY <1>1 DEF WaitBooks, WaitingOf

LEMMA PlainWaits ==
  ASSUME TypeInv, WaitBooks, NEW r \in Requests, PlainStep(r)
  PROVE  WaitBooks'
<1>1. group' = group /\ \A g \in Groups, s \in Requests : Waits(s, g)' <=> Waits(s, g)
  BY PlainMoves DEF Waits
<1> QED
  BY <1>1, SameWaiters DEF WaitBooks, WaitingOf

LEMMA JoinWaits ==
  ASSUME TypeInv, WaitBooks, NEW r \in Requests, req[r].pc # "wait", JoinGroup(r)
  PROVE  WaitBooks'
<1>0. req \in [Requests -> ReqRecord] /\ req[r] \in ReqRecord /\ group \in [Groups -> GroupRecord]
  BY Fields DEF TypeInv, TypeOK
<1>1. PICK g \in Groups :
        /\ group' = [group EXCEPT ![g] = WithWaiter([@ EXCEPT !.key = req[r].key])]
        /\ req' = [req EXCEPT ![r].pc = "wait", ![r].grp = g, ![r].woken = FALSE]
  BY DEF JoinGroup
<1> DEFINE gr == [group[g] EXCEPT !.key = req[r].key]
<1>2. /\ gr \in GroupRecord /\ gr.waiting = group[g].waiting /\ gr.started = group[g].started
      /\ gr.waiting \in Int /\ gr.started \in Int
  BY <1>0 DEF GroupRecord, ReqRecord
<1>3. group'[g] = WithWaiter(gr) /\ \A h \in Groups \ {g} : group'[h] = group[h]
  BY <1>0, <1>1
<1> HIDE DEF gr
<1>4. /\ group'[g].waiting = group[g].waiting + 1
      /\ group'[g].started \in {group[g].started, group[g].started + 1}
      /\ group'[g].started = group[g].started + 1 => group[g].started < Attempts
  BY <1>2, <1>3 DEF WithWaiter, GroupRecord
<1>5. /\ \A s \in Requests \ {r} : req'[s] = req[s]
      /\ req'[r].pc = "wait" /\ req'[r].grp = g
  BY <1>0, <1>1 DEF ReqRecord
<1>6. ASSUME NEW h \in Groups PROVE WaitingOf(h)'
  <2>1. CASE h = g
    <3>1. ~Waits(r, g) /\ Waits(r, g)' /\ \A s \in Requests \ {r} : Waits(s, g)' <=> Waits(s, g)
      BY <1>5 DEF Waits
    <3>2. Waiters(g)' = Waiters(g) \cup {r} /\ r \notin Waiters(g)
      BY <3>1 DEF Waiters
    <3>3. Cardinality(Waiters(g)') = Cardinality(Waiters(g)) + 1
      BY <3>2, WaitersFinite, FS_AddElement
    <3>4. group'[g].started <= Attempts
      BY <1>2, <1>4, ConstantsAssumption DEF WaitBooks, WaitingOf
    <3> QED
      BY <1>4, <2>1, <3>3, <3>4 DEF WaitBooks, WaitingOf
  <2>2. CASE h # g
    <3>1. \A s \in Requests : Waits(s, h)' <=> Waits(s, h)
      BY <1>5, <2>2 DEF Waits
    <3>2. Waiters(h)' = Waiters(h)
      BY <3>1 DEF Waiters
    <3> QED
      BY <1>3, <2>2, <3>2 DEF WaitBooks, WaitingOf
  <2> QED
    BY <2>1, <2>2
<1> QED
  BY <1>6 DEF WaitBooks

LEMMA NothingWaits ==
  ASSUME TypeInv, WaitBooks, NEW r \in Requests, PickNothing(r) \/ LookupMiss(r)
  PROVE  WaitBooks'
<1>0. req \in [Requests -> ReqRecord] /\ req[r] \in ReqRecord
  BY Fields DEF TypeInv, TypeOK
<1>1. req[r].pc \in {"conn", "lookup"}
  BY DEF PickNothing, LookupMiss
<1>2. CASE JoinGroup(r)
  BY <1>1, <1>2, JoinWaits
<1>3. CASE ~JoinGroup(r)
  <2>1. /\ group' = group
        /\ \/ req' = [req EXCEPT ![r].pc = "dial"]
           \/ req' = [req EXCEPT ![r].pc = "lookup", ![r].looked = TRUE]
    BY <1>3 DEF PickNothing, LookupMiss
  <2>2. /\ \A s \in Requests \ {r} : req'[s] = req[s]
        /\ req'[r].pc \in {"dial", "lookup"}
    BY <1>0, <2>1 DEF ReqRecord
  <2>3. \A g \in Groups, s \in Requests : Waits(s, g)' <=> Waits(s, g)
    BY <1>1, <2>2 DEF Waits
  <2> QED
    BY <2>1, <2>3, SameWaiters DEF WaitBooks, WaitingOf
<1> QED
  BY <1>2, <1>3

(* A group that is given up has nobody waiting, and its books start anew.   *)
LEMMA KeptWaits ==
  ASSUME NEW gr
  PROVE  /\ Kept(gr).waiting = gr.waiting
         /\ gr.started <= Attempts => Kept(gr).started <= Attempts
BY ConstantsAssumption DEF Kept, NoGroup

LEMMA LeaveWaits ==
  ASSUME TypeInv, WaitBooks, NEW r \in Requests, WaitEnds(r) \/ GiveUp(r)
  PROVE  WaitBooks'
<1>0. /\ req \in [Requests -> ReqRecord] /\ req[r] \in ReqRecord /\ req[r].grp \in Groups
      /\ group \in [Groups -> GroupRecord] /\ req[r].pc = "wait"
  BY Fields DEF TypeInv, TypeOK, WellPlaced, WaitEnds, GiveUp
<1>1. PICK g \in Groups : g = req[r].grp
  BY <1>0
<1> DEFINE left == [group[g] EXCEPT !.waiting = group[g].waiting - 1]
<1>2. /\ group' = [group EXCEPT ![g] = Kept(left)]
         \/ group' = [group EXCEPT ![g] =
              Kept([left EXCEPT !.cancelled = @ \/ (left.waiting = 0 /\ ~left.won)])]
      /\ \A s \in Requests \ {r} : req'[s] = req[s]
  BY <1>0, <1>1 DEF WaitEnds, GiveUp
<1>3. req'[r].pc \in {"conn", "done"}
  <2>1. CASE WaitEnds(r)
    BY <1>0, <2>1, EndedPc DEF WaitEnds, ReqRecord
  <2>2. CASE GiveUp(r)
    BY <1>0, <2>2, EndedPc DEF GiveUp
  <2> QED
    BY <2>1, <2>2
<1>4. /\ left \in GroupRecord /\ left.waiting = group[g].waiting - 1
      /\ left.started = group[g].started
  BY <1>0 DEF GroupRecord
<1> HIDE DEF left
<1>5. PICK gr : /\ group' = [group EXCEPT ![g] = Kept(gr)]
                /\ gr.waiting = group[g].waiting - 1 /\ gr.started = group[g].started
  <2>1. \A b : LET x == [left EXCEPT !.cancelled = b]
               IN x.waiting = left.waiting /\ x.started = left.started
    BY <1>4 DEF GroupRecord
  <2>2. CASE group' = [group EXCEPT ![g] = Kept(left)]
    BY <1>4, <2>2
  <2>3. CASE group' = [group EXCEPT ![g] =
               Kept([left EXCEPT !.cancelled = @ \/ (left.waiting = 0 /\ ~left.won)])]
    <3>1. PICK b : b = (left.cancelled \/ (left.waiting = 0 /\ ~left.won))
      OBVIOUS
    <3>2. group' = [group EXCEPT ![g] = Kept([left EXCEPT !.cancelled = b])]
      BY <2>3, <3>1
    <3>3. LET x == [left EXCEPT !.cancelled = b]
          IN x.waiting = group[g].waiting - 1 /\ x.started = group[g].started
      BY <1>4, <2>1
    <3> QED
      BY <3>2, <3>3
  <2> QED
    BY <1>2, <2>2, <2>3
<1>6. /\ group'[g].waiting = group[g].waiting - 1 /\ group'[g].started <= Attempts
      /\ \A h \in Groups \ {g} : group'[h] = group[h]
  BY <1>0, <1>5, KeptWaits DEF WaitBooks, WaitingOf
<1>7. ASSUME NEW h \in Groups PROVE WaitingOf(h)'
  <2>1. CASE h = g
    <3>1. Waits(r, g) /\ ~Waits(r, g)' /\ \A s \in Requests \ {r} : Waits(s, g)' <=> Waits(s, g)
      BY <1>0, <1>1, <1>2, <1>3 DEF Waits
    <3>2. Waiters(g)' = Waiters(g) \ {r} /\ r \in Waiters(g)
      BY <3>1 DEF Waiters
    <3>3. Cardinality(Waiters(g)') = Cardinality(Waiters(g)) - 1
      BY <3>2, WaitersFinite, FS_RemoveElement
    <3> QED
      BY <1>6, <2>1, <3>3 DEF WaitBooks, WaitingOf
  <2>2. CASE h # g
    <3>1. \A s \in Requests : Waits(s, h)' <=> Waits(s, h)
      BY <1>1, <1>2, <1>3, <2>2 DEF Waits
    <3>2. Waiters(h)' = Waiters(h)
      BY <3>1 DEF Waiters
    <3> QED
      BY <1>6, <2>2, <3>2 DEF WaitBooks, WaitingOf
  <2> QED
    BY <2>1, <2>2
<1> QED
  BY <1>7 DEF WaitBooks

(* An attempt counts itself, never the requests.                            *)
LEMMA EndWaits ==
  ASSUME TypeInv, WaitBooks, NEW g \in Groups, NEW ran \in GroupRecord,
         ran.waiting = group[g].waiting, ran.started = group[g].started,
         NEW list, NEW stamp, NEW cs, NEW drop, AttemptEnds(g, ran, list, stamp, cs, drop)
  PROVE  WaitBooks'
<1>1. group' = [group EXCEPT ![g] = Kept([ran EXCEPT !.cancelled = @ \/ ran.running = 0])]
  BY DEF AttemptEnds
<1>2. \A b : LET x == [ran EXCEPT !.cancelled = b]
             IN x.waiting = ran.waiting /\ x.started = ran.started
  BY DEF GroupRecord
<1>3. /\ group'[g].waiting = group[g].waiting /\ group'[g].started <= Attempts
      /\ \A h \in Groups \ {g} : group'[h] = group[h]
  BY <1>1, <1>2, KeptWaits DEF WaitBooks, WaitingOf, TypeInv, TypeOK
<1>4. \A h \in Groups, r \in Requests : Waits(r, h)' <=> Waits(r, h)
  BY AttemptEndsMoves DEF Waits
<1> QED
  BY <1>3, <1>4, SameWaiters DEF WaitBooks, WaitingOf

LEMMA AttemptWaits ==
  ASSUME TypeInv, WaitBooks, NEW g \in Groups, Attempt(g)
  PROVE  WaitBooks'
<1>0. group \in [Groups -> GroupRecord] /\ group[g] \in GroupRecord
  BY Fields DEF TypeInv, TypeOK
<1>1. CASE Claim(g)
  <2> DEFINE spared == [group[g] EXCEPT !.dialing = @ - 1, !.spare = @ + 1]
             claims == [group[g] EXCEPT !.dialing = @ - 1, !.preface = @ + 1,
                                        !.claimed = TRUE]
  <2>1. group' = [group EXCEPT ![g] = IF group[g].won \/ group[g].claimed
                                      THEN spared ELSE claims]
    BY <1>1 DEF Claim
  <2>2. /\ spared.waiting = group[g].waiting /\ spared.started = group[g].started
        /\ claims.waiting = group[g].waiting /\ claims.started = group[g].started
    BY <1>0 DEF GroupRecord
  <2> HIDE DEF spared, claims
  <2>3. /\ group'[g].waiting = group[g].waiting /\ group'[g].started = group[g].started
        /\ \A h \in Groups \ {g} : group'[h] = group[h]
    BY <1>0, <2>1, <2>2
  <2>4. \A h \in Groups, r \in Requests : Waits(r, h)' <=> Waits(r, h)
    BY <1>1 DEF Claim, Waits
  <2> QED
    BY <2>3, <2>4, SameWaiters DEF WaitBooks, WaitingOf
<1>2. CASE AttemptFails(g)
  <2> DEFINE why == IF group[g].cancelled THEN "cancelled" ELSE "failed"
             ran == [group[g] EXCEPT !.running = @ - 1]
             a == [ran EXCEPT !.dialing = @ - 1, !.err = why]
             b == [ran EXCEPT !.preface = @ - 1, !.err = why, !.claimed = FALSE]
             c == [ran EXCEPT !.spare = @ - 1]
  <2>1. \E out \in {a, b, c} : AttemptEnds(g, out, pool, lastUsed, conn, {})
    BY <1>2 DEF AttemptFails
  <2>2. /\ ran \in GroupRecord /\ ran.waiting = group[g].waiting
        /\ ran.started = group[g].started
        /\ ran.dialing - 1 \in Int /\ ran.preface - 1 \in Int /\ ran.spare - 1 \in Int
    BY <1>0 DEF GroupRecord
  <2>3. why \in {"cancelled", "failed"}
    OBVIOUS
  <2> HIDE DEF why, ran
  <2>4. /\ a \in GroupRecord /\ a.waiting = ran.waiting /\ a.started = ran.started
        /\ b \in GroupRecord /\ b.waiting = ran.waiting /\ b.started = ran.started
        /\ c \in GroupRecord /\ c.waiting = ran.waiting /\ c.started = ran.started
    BY <2>2, <2>3 DEF GroupRecord
  <2> HIDE DEF a, b, c
  <2> QED
    BY <2>1, <2>2, <2>4, EndWaits
<1>3. CASE ~Claim(g) /\ ~AttemptFails(g)
  <2>1. \E p, list, stamp, cs, drop, ran :
          /\ AttemptEnds(g, ran, list, stamp, cs, drop)
          /\ \/ ran = CameUp(g, p)
             \/ ran = [CameUp(g, p) EXCEPT !.won = TRUE, !.cancelled = TRUE]
    <3>1. CASE AttemptLate(g)
      BY <3>1 DEF AttemptLate
    <3>2. CASE AttemptWins(g)
      BY <3>2 DEF AttemptWins
    <3>3. CASE AttemptOrphaned(g)
      BY <3>3 DEF AttemptOrphaned
    <3>4. CASE AttemptH1(g)
      BY <3>4 DEF AttemptH1
    <3> QED
      BY <1>3, <3>1, <3>2, <3>3, <3>4 DEF Attempt
  <2>2. PICK p, list, stamp, cs, drop, ran :
          /\ AttemptEnds(g, ran, list, stamp, cs, drop)
          /\ \/ ran = CameUp(g, p)
             \/ ran = [CameUp(g, p) EXCEPT !.won = TRUE, !.cancelled = TRUE]
    BY <2>1
  <2> DEFINE up == CameUp(g, p)
  <2>3. up.waiting = group[g].waiting /\ up.started = group[g].started /\ up \in GroupRecord
    <3>1. up \in GroupRecord
      BY <1>0, CameUpType
    <3>2. CASE SpareBeforePreface /\ p = "h2"
      BY <1>0, <3>1, <3>2 DEF CameUp, GroupRecord
    <3>3. CASE ~(SpareBeforePreface /\ p = "h2")
      BY <1>0, <3>1, <3>3 DEF CameUp, GroupRecord
    <3> QED
      BY <3>1, <3>2, <3>3
  <2> HIDE DEF up
  <2>4. \A x \in GroupRecord : LET y == [x EXCEPT !.won = TRUE, !.cancelled = TRUE]
                               IN y.waiting = x.waiting /\ y.started = x.started
                                    /\ y \in GroupRecord
    BY DEF GroupRecord
  <2>5. ran = up \/ ran = [up EXCEPT !.won = TRUE, !.cancelled = TRUE]
    BY <2>2 DEF up
  <2>6. ran \in GroupRecord /\ ran.waiting = group[g].waiting /\ ran.started = group[g].started
    BY <2>3, <2>4, <2>5
  <2> QED
    BY <2>2, <2>6, EndWaits
<1> QED
  BY <1>1, <1>2, <1>3

LEMMA WaitStep == TypeInv /\ WaitBooks /\ [Next]_vars => WaitBooks'
<1> SUFFICES ASSUME TypeInv, WaitBooks, [Next]_vars PROVE WaitBooks'
  OBVIOUS
<1>1. ASSUME NEW r \in Requests, Request(r) PROVE WaitBooks'
  BY <1>1, PlainWaits, NothingWaits, LeaveWaits DEF PlainStep, Request, TakeConn, Lookup
<1>2. ASSUME group' = group \/ SessionClose, req' = req PROVE WaitBooks'
  <2>1. \A gr \in GroupRecord : LET x == [gr EXCEPT !.cancelled = TRUE]
                                IN x.waiting = gr.waiting /\ x.started = gr.started
    BY DEF GroupRecord
  <2>2. \A g \in Groups :
          group'[g] = group[g] \/ group'[g] = [group[g] EXCEPT !.cancelled = TRUE]
    BY <1>2 DEF SessionClose
  <2>3. \A g \in Groups :
          group'[g].waiting = group[g].waiting /\ group'[g].started = group[g].started
    BY <2>1, <2>2, GroupType
  <2>4. \A g \in Groups, r \in Requests : Waits(r, g)' <=> Waits(r, g)
    BY <1>2 DEF Waits
  <2> QED
    BY <2>3, <2>4, SameWaiters DEF WaitBooks, WaitingOf
<1>3. ASSUME NEW c \in Conns, Closer(c) \/ Environment(c) PROVE WaitBooks'
  BY <1>2, <1>3
  DEF Closer, OrphanDone, OrphanTimeout, CloseDoomed, Environment, ServerGone, Goaway,
      Dropped, WatchFires, Expires, Forgotten, Fault
<1>4. CASE SessionClose \/ UNCHANGED vars
  BY <1>2, <1>4 DEF SessionClose, vars
<1> QED
  BY <1>1, <1>3, <1>4, AttemptWaits DEF Next

LEMMA WaitInit == Init => WaitBooks
<1> SUFFICES ASSUME Init, NEW g \in Groups PROVE WaitingOf(g)
  BY DEF WaitBooks
<1>1. group[g].waiting = 0 /\ group[g].started = 0
  BY DEF Init, NoGroup
<1>2. Waiters(g) = {}
  BY DEF Init, NewReq, Waiters, Waits
<1> QED
  BY <1>1, <1>2, FS_EmptySet, ConstantsAssumption DEF WaitingOf

-----------------------------------------------------------------------------
(* The theorems                                                            *)

AllBooks == TypeInv /\ ConnInv /\ GroupInv /\ BooksInv /\ WaitBooks

LEMMA BooksInvariant == Spec => []AllBooks
<1>a. Init => ConnInv
  BY ConstantsAssumption DEF Init, ConnInv, Holds, NewReq
<1>1. Init => AllBooks
  BY <1>a, InitType, GroupInit, BooksInit, WaitInit DEF AllBooks
<1>2. AllBooks /\ [Next]_vars => AllBooks'
  BY TypeStep, ConnStep, GroupStep, BooksStep, WaitStep DEF AllBooks
<1> QED
  BY <1>1, <1>2, PTL DEF Spec

(* The pool's books are right at every moment: busy counts the requests     *)
(* that hold a pooled connection, what the sweep, the limit or an eviction  *)
(* took out nobody is using, an idle HTTP/1.1 connection is watched, a      *)
(* group counts its waiters and its attempts, and no host has more pooled   *)
(* connections than the browser's limit (pool.go, conn.go).                 *)
THEOREM BooksBalance == Spec => []PoolBooks
<1>1. AllBooks => PoolBooks
  <2> SUFFICES ASSUME AllBooks PROVE PoolBooks
    OBVIOUS
  <2> USE DEF AllBooks, BooksInv
  <2>1. BusyCounts
    BY DEF BusyCounts, BooksOf, Placed, Counts, Listed, Holders, TypeInv, TypeOK
  <2>2. VictimsUnused
    BY DEF VictimsUnused, BooksOf, VictimUnheld, Unheld, Using, Holds, TypeInv, TypeOK
  <2>3. IdleWatched
    BY DEF IdleWatched, BooksOf, WatchedIdle, TypeInv, TypeOK
  <2>4. GroupCounts
    BY DEF GroupCounts, GroupInv, Sound, Counted, WaitBooks, WaitingOf, Waiters
  <2> QED
    BY <2>1, <2>2, <2>3, <2>4 DEF PoolBooks
<1> QED
  BY <1>1, BooksInvariant, PTL

(* No socket is lost: whatever is open is in the pool, on its way to a      *)
(* closer, left to an orphan's goroutine, or in the hands of a request that *)
(* gives it back (release, evict, shutdownOrphan, Close).                   *)
THEOREM EverySocketOwned == Spec => []NoLeakedSocket
<1>1. AllBooks => NoLeakedSocket
  BY DEF AllBooks, BooksInv, BooksOf, HasOwner, Listed, Owning, NoLeakedSocket
<1> QED
  BY <1>1, BooksInvariant, PTL
=============================================================================
