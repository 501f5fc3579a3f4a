-------------------------- MODULE ConnPoolSafety ----------------------------
(***************************************************************************)
(* Safety of the connection pool, proved for every value of the constants. *)
(* Three inductive invariants over the types of ConnPoolProofs:            *)
(* ClosedStaysEmpty by itself, ConnInv for the hand-out of connections,    *)
(* and GroupInv for the dial groups.                                       *)
(***************************************************************************)
EXTENDS ConnPoolProofs

-----------------------------------------------------------------------------
(* A closed session's pool                                                 *)

LEMMA ClosedStep ==
  TypeInv /\ ClosedStaysEmpty /\ [Next]_vars => ClosedStaysEmpty'
<1> SUFFICES ASSUME TypeInv, ClosedStaysEmpty, [Next]_vars PROVE ClosedStaysEmpty'
  OBVIOUS
<1> USE DEF ClosedStaysEmpty
<1>1. ASSUME NEW r \in Requests, Start(r) \/ WaitEnds(r) \/ GiveUp(r) \/ HandBack(r)
                                 \/ Exchange(r) \/ CloseBody(r)
      PROVE  ClosedStaysEmpty'
  BY <1>1 DEF Start, WaitEnds, GiveUp, HandBack, Exchange, Respond, ExchangeFails, CloseBody
<1>2. ASSUME NEW r \in Requests, TakeConn(r) PROVE ClosedStaysEmpty'
  BY <1>2 DEF TakeConn, ConnRefused, PickConn, PickNothing, PinConn, PinFails
<1>3. ASSUME NEW r \in Requests, Lookup(r) PROVE ClosedStaysEmpty'
  BY <1>3 DEF Lookup, LookupHit, LookupMiss
<1>4. ASSUME NEW r \in Requests, OwnDial(r) PROVE ClosedStaysEmpty'
  BY <1>4 DEF OwnDial, DialFails, DialLate, DialRedundant, DialUp
<1>5. ASSUME NEW r \in Requests, EndIdleWatch(r) \/ DrainOverflow(r) \/ GiveBack(r)
      PROVE  ClosedStaysEmpty'
  BY <1>5 DEF EndIdleWatch, DrainOverflow, GiveBack, Release, Released, ReleaseCloses, Evict
<1>6. ASSUME NEW g \in Groups, Attempt(g) PROVE ClosedStaysEmpty'
  BY <1>6 DEF Attempt, Claim, AttemptFails, AttemptLate, AttemptWins, AttemptOrphaned,
              AttemptH1, AttemptEnds
<1>7. ASSUME NEW c \in Conns, Closer(c) \/ Environment(c) PROVE ClosedStaysEmpty'
  BY <1>7 DEF Closer, OrphanDone, OrphanTimeout, CloseDoomed, Environment, ServerGone,
              Goaway, Dropped, WatchFires, Expires, Forgotten, Fault
<1>8. CASE SessionClose
  BY <1>8 DEF SessionClose
<1>9. CASE UNCHANGED vars
  BY <1>9 DEF vars
<1> QED
  BY <1>1, <1>2, <1>3, <1>4, <1>5, <1>6, <1>7, <1>8, <1>9 DEF Next, Request, Body

(* Nothing enters the pool of a closed session - not the connection of an   *)
(* attempt or a dial that was under way, nor an alias (Close, conn,         *)
(* dialAttempt).                                                            *)
THEOREM ClosedPoolEmpty == Spec => []ClosedStaysEmpty
<1>1. Init => ClosedStaysEmpty
  BY DEF Init, ClosedStaysEmpty
<1>2. Spec => []TypeInv
  BY InitType, TypeStep, PTL DEF Spec
<1> QED
  BY <1>1, <1>2, ClosedStep, PTL DEF Spec

-----------------------------------------------------------------------------
(* Who may have a connection                                               *)

Suits(c, k) ==
  conn[c].key = k \/ (conn[c].proto = "h2" /\ <<conn[c].key, k>> \in Covers)

(* A connection somebody refers to is not a free identity; an alias is for  *)
(* HTTP/2 and covered by the certificate; a holder's connection is one for  *)
(* its key, and with HTTP/1.1 counts exactly that holder.                   *)
ConnInv ==
  \A c \in Conns :
    /\ \A r \in Requests : req[r].on = c => conn[c].st # "free"
    /\ \A k \in Keys : aliases[k] = c =>
         /\ conn[c].st # "free" /\ conn[c].proto = "h2"
         /\ <<conn[c].key, k>> \in Covers
    /\ \A r \in Requests : Holds(r, c) =>
         Suits(c, req[r].key) /\ (conn[c].proto = "h1" => conn[c].busy = 1)
    /\ conn[c].proto = "h1" =>
         \A r, s \in Requests : Holds(r, c) /\ Holds(s, c) => r = s

(* A connection as good as it was: the same one, or one nobody refers to.   *)
Same(c) ==
  \/ /\ conn'[c].proto = conn[c].proto /\ conn'[c].key = conn[c].key
     /\ conn[c].proto = "h1" /\ (\E r \in Requests : Holds(r, c)')
          => conn'[c].busy = conn[c].busy
     /\ conn[c].st # "free" => conn'[c].st # "free"
  \/ conn[c].st = "free"
  \/ /\ \A r \in Requests : req[r].on # c
     /\ \A k \in Keys : aliases[k] # c

(* No request takes a connection on that it did not hold.                   *)
NoMoreHolders ==
  \A r \in Requests, c \in Conns :
    /\ req'[r].on = c => req[r].on = c
    /\ Holds(r, c)' => Holds(r, c) /\ req'[r].key = req[r].key

NoMoreAliases == \A k \in Keys, c \in Conns : aliases'[k] = c => aliases[k] = c

LEMMA SteadyConns ==
  ASSUME ConnInv, \A c \in Conns : Same(c), NoMoreHolders, NoMoreAliases
  PROVE  ConnInv'
<1> SUFFICES ASSUME NEW c \in Conns
             PROVE  /\ \A r \in Requests : req'[r].on = c => conn'[c].st # "free"
                    /\ \A k \in Keys : aliases'[k] = c =>
                         /\ conn'[c].st # "free" /\ conn'[c].proto = "h2"
                         /\ <<conn'[c].key, k>> \in Covers
                    /\ \A r \in Requests : Holds(r, c)' =>
                         Suits(c, req[r].key)' /\ (conn'[c].proto = "h1" => conn'[c].busy = 1)
                    /\ conn'[c].proto = "h1" =>
                         \A r, s \in Requests : Holds(r, c)' /\ Holds(s, c)' => r = s
  BY DEF ConnInv
<1>1. CASE \A r \in Requests : req[r].on # c
  <2>1. \A k \in Keys : aliases'[k] = c =>
          /\ conn'[c].st # "free" /\ conn'[c].proto = "h2"
          /\ <<conn'[c].key, k>> \in Covers
    BY DEF Same, NoMoreAliases, ConnInv
  <2> QED
    BY <1>1, <2>1 DEF NoMoreHolders, Holds
<1>2. CASE \E r \in Requests : req[r].on = c
  <2>1. /\ conn'[c].proto = conn[c].proto /\ conn'[c].key = conn[c].key
        /\ conn[c].proto = "h1" /\ (\E r \in Requests : Holds(r, c)')
             => conn'[c].busy = conn[c].busy
        /\ conn[c].st # "free" /\ conn'[c].st # "free"
    BY <1>2 DEF Same, ConnInv
  <2> QED
    BY <2>1 DEF NoMoreHolders, NoMoreAliases, ConnInv, Suits, Holds
<1> QED
  BY <1>1, <1>2

(* r takes c on: it suits r's key, and nobody has it if it is HTTP/1.1.     *)
LEMMA TakesOn ==
  ASSUME TypeInv, TypeInv', ConnInv, NEW r \in Requests, NEW c \in Conns,
         \A d \in Conns \ {c} : Same(d),
         conn[c].st # "free" =>
           conn'[c].proto = conn[c].proto /\ conn'[c].key = conn[c].key,
         conn'[c].st # "free",
         conn'[c].proto = "h1" =>
           conn'[c].busy = 1 /\ \A s \in Requests : ~Holds(s, c),
         Suits(c, req[r].key)',
         req'[r].key = req[r].key, req'[r].on = c,
         \A s \in Requests \ {r} : req'[s] = req[s],
         NoMoreAliases
  PROVE  ConnInv'
<1> SUFFICES ASSUME NEW d \in Conns
             PROVE  /\ \A s \in Requests : req'[s].on = d => conn'[d].st # "free"
                    /\ \A k \in Keys : aliases'[k] = d =>
                         /\ conn'[d].st # "free" /\ conn'[d].proto = "h2"
                         /\ <<conn'[d].key, k>> \in Covers
                    /\ \A s \in Requests : Holds(s, d)' =>
                         Suits(d, req[s].key)' /\ (conn'[d].proto = "h1" => conn'[d].busy = 1)
                    /\ conn'[d].proto = "h1" =>
                         \A s, t \in Requests : Holds(s, d)' /\ Holds(t, d)' => s = t
  BY DEF ConnInv
<1>1. CASE d = c
  <2>1. \A s \in Requests : Holds(s, c)' => s = r \/ Holds(s, c)
    BY DEF Holds
  <2>2. \A s \in Requests : Holds(s, c) => Suits(c, req[s].key) /\ conn[c].st # "free"
    BY DEF ConnInv, Holds
  <2>3. \A k \in Keys : aliases'[k] = c =>
          /\ conn'[c].st # "free" /\ conn'[c].proto = "h2"
          /\ <<conn'[c].key, k>> \in Covers
    BY DEF NoMoreAliases, ConnInv
  <2>4. \A s \in Requests : Holds(s, c)' => Suits(c, req[s].key)'
    BY <2>1, <2>2 DEF Suits
  <2> QED
    BY <1>1, <2>1, <2>3, <2>4
<1>2. CASE d # c
  <2>1. \A s \in Requests : req'[s].on = d => req[s].on = d /\ req'[s] = req[s]
    BY <1>2
  <2>2. CASE \A s \in Requests : req[s].on # d
    <3>1. \A k \in Keys : aliases'[k] = d =>
            /\ conn'[d].st # "free" /\ conn'[d].proto = "h2"
            /\ <<conn'[d].key, k>> \in Covers
      BY <1>2 DEF Same, NoMoreAliases, ConnInv
    <3> QED
      BY <2>1, <2>2, <3>1 DEF Holds
  <2>3. CASE \E s \in Requests : req[s].on = d
    <3>1. /\ conn'[d].proto = conn[d].proto /\ conn'[d].key = conn[d].key
          /\ conn[d].proto = "h1" /\ (\E t \in Requests : Holds(t, d)')
               => conn'[d].busy = conn[d].busy
          /\ conn[d].st # "free" /\ conn'[d].st # "free"
      BY <1>2, <2>3 DEF Same, ConnInv
    <3>2. \A s \in Requests : Holds(s, d)' => Holds(s, d) /\ req'[s] = req[s]
      BY <2>1 DEF Holds
    <3> QED
      BY <2>1, <3>1, <3>2 DEF NoMoreAliases, ConnInv, Suits
  <2> QED
    BY <2>2, <2>3
<1> QED
  BY <1>1, <1>2

(* One request moves and connections stay: what most steps come to.         *)
LEMMA OneMoves ==
  ASSUME NEW r \in Requests,
         \A s \in Requests \ {r} : req'[s] = req[s],
         \/ req'[r].on \notin Conns
         \/ /\ req'[r].on = req[r].on /\ req'[r].key = req[r].key
            /\ req'[r].pc \in {"unwatch", "exchange", "body", "release"}
                 => req[r].pc \in {"unwatch", "exchange", "body", "release"}
  PROVE  NoMoreHolders
BY DEF NoMoreHolders, Holds

LEMMA EndedOn == \A why : Ended(why).on \notin Conns
BY ConstantsAssumption DEF Ended, NewReq

LEMMA AttemptEndsMoves ==
  ASSUME TypeInv, NEW g, NEW ran, NEW list, NEW stamp, NEW cs, NEW drop,
         AttemptEnds(g, ran, list, stamp, cs, drop)
  PROVE  /\ \A r \in Requests :
              /\ req'[r].pc = req[r].pc /\ req'[r].key = req[r].key
              /\ req'[r].on = req[r].on /\ req'[r].grp = req[r].grp
              /\ req[r].pc = "wait" /\ req[r].grp = g => req'[r].woken
              /\ ~(req[r].pc = "wait" /\ req[r].grp = g) => req'[r] = req[r]
         /\ NoMoreHolders
<1>1. \A x \in ReqRecord : LET y == [x EXCEPT !.woken = TRUE]
                         IN y.pc = x.pc /\ y.key = x.key /\ y.on = x.on
                              /\ y.grp = x.grp /\ y.woken
  BY DEF ReqRecord
<1>2. \A r \in Requests :
        /\ req'[r].pc = req[r].pc /\ req'[r].key = req[r].key
        /\ req'[r].on = req[r].on /\ req'[r].grp = req[r].grp
        /\ req[r].pc = "wait" /\ req[r].grp = g => req'[r].woken
        /\ ~(req[r].pc = "wait" /\ req[r].grp = g) => req'[r] = req[r]
  BY <1>1, Fields DEF AttemptEnds, TypeInv
<1> QED
  BY <1>2 DEF NoMoreHolders, Holds

(* Steps that hand no connection out.                                       *)
LEMMA RequestSteady ==
  ASSUME TypeInv, ConnInv, NEW r \in Requests,
         Start(r) \/ ConnRefused(r) \/ PickNothing(r) \/ PinFails(r) \/ LookupMiss(r)
           \/ WaitEnds(r) \/ GiveUp(r) \/ DialFails(r) \/ HandBack(r)
  PROVE  ConnInv'
<1> USE DEF TypeInv
<1>0. req[r] \in ReqRecord /\ req \in [Requests -> ReqRecord]
  BY Fields DEF TypeOK
<1>1. conn' = conn /\ NoMoreAliases
  BY ConstantsAssumption
  DEF Start, ConnRefused, PickNothing, PinFails, LookupMiss, WaitEnds, GiveUp,
      DialFails, HandBack, NoMoreAliases, TypeOK
<1>2. \A c \in Conns : Same(c)
  BY <1>1 DEF Same
<1>3. \A s \in Requests \ {r} : req'[s] = req[s]
  BY <1>0 DEF Start, ConnRefused, PickNothing, PinFails, LookupMiss, WaitEnds, GiveUp,
      DialFails, HandBack, JoinGroup
<1>4. CASE Start(r) \/ PickNothing(r) \/ LookupMiss(r)
  <2>1. req'[r].pc \in {"conn", "dial", "lookup", "wait"} /\ req'[r].on = req[r].on
    <3>1. CASE Start(r)
      <4>1. PICK k \in Keys, m \in Modes :
              req' = [req EXCEPT ![r].pc = "conn", ![r].key = k, ![r].mode = m]
        BY <3>1 DEF Start
      <4> QED
        BY <1>0, <4>1 DEF ReqRecord
    <3>2. JoinGroup(r) => req'[r].pc = "wait" /\ req'[r].on = req[r].on
      BY <1>0 DEF JoinGroup, ReqRecord
    <3>3. CASE PickNothing(r)
      <4>1. \/ JoinGroup(r)
            \/ req' = [req EXCEPT ![r].pc = "dial"]
            \/ req' = [req EXCEPT ![r].pc = "lookup", ![r].looked = TRUE]
        BY <3>3 DEF PickNothing
      <4> QED
        BY <1>0, <3>2, <4>1 DEF ReqRecord
    <3>4. CASE LookupMiss(r)
      BY <3>2, <3>4 DEF LookupMiss
    <3> QED
      BY <1>4, <3>1, <3>3, <3>4
  <2>2. NoMoreHolders
    BY <1>3, <2>1 DEF NoMoreHolders, Holds
  <2> QED
    BY <1>1, <1>2, <2>2, SteadyConns
<1>5. CASE ConnRefused(r) \/ PinFails(r) \/ GiveUp(r) \/ DialFails(r)
  <2>1. req'[r].on \notin Conns
    BY <1>0, <1>5, EndedOn DEF ConnRefused, PinFails, GiveUp, DialFails
  <2> QED
    BY <1>1, <1>2, <1>3, <2>1, OneMoves, SteadyConns
<1>6. CASE WaitEnds(r)
  <2>1. \/ req'[r].on \notin Conns
        \/ req'[r].pc = "conn" /\ req'[r].on = req[r].on
    BY <1>0, <1>6, EndedOn DEF WaitEnds, ReqRecord
  <2>2. NoMoreHolders
    BY <1>3, <2>1 DEF NoMoreHolders, Holds
  <2> QED
    BY <1>1, <1>2, <2>2, SteadyConns
<1>7. CASE HandBack(r)
  <2>1. /\ req'[r].on = req[r].on /\ req'[r].key = req[r].key
        /\ req[r].pc = "exchange"
    BY <1>0, <1>7 DEF HandBack, ReqRecord
  <2> QED
    BY <1>1, <1>2, <1>3, <2>1, OneMoves, SteadyConns
<1> QED
  BY <1>4, <1>5, <1>6, <1>7

LEMMA ExchangeSteady ==
  ASSUME TypeInv, ConnInv, NEW r \in Requests,
         EndIdleWatch(r) \/ Exchange(r) \/ Body(r) \/ GiveBack(r)
  PROVE  ConnInv'
<1> USE DEF TypeInv
<1>a. PICK c \in Conns : c = req[r].on
  BY DEF WellPlaced, EndIdleWatch, Exchange, Respond, ExchangeFails, Body, CloseBody,
      DrainOverflow, GiveBack, Release, Released, ReleaseCloses, Evict
<1>0. /\ req[r] \in ReqRecord /\ req \in [Requests -> ReqRecord] /\ c = req[r].on
      /\ conn \in [Conns -> ConnRecord] /\ c \in Conns /\ conn[c] \in ConnRecord
  BY <1>a, Fields DEF TypeOK
<1>1. NoMoreAliases
  BY DEF NoMoreAliases, EndIdleWatch, Exchange, Respond, ExchangeFails, Body, CloseBody,
      DrainOverflow, GiveBack, Release, Released, ReleaseCloses, Evict
<1>2. \A s \in Requests \ {r} : req'[s] = req[s]
  BY <1>0
  DEF EndIdleWatch, Exchange, Respond, ExchangeFails, Body, CloseBody, DrainOverflow,
      GiveBack, Release, Released, ReleaseCloses, Evict, AfterRelease
<1>3. \A d \in Conns \ {c} : conn'[d] = conn[d]
  BY <1>0
  DEF EndIdleWatch, Exchange, Respond, ExchangeFails, Body, CloseBody, DrainOverflow,
      GiveBack, Release, Released, ReleaseCloses, Evict, Closed, Watched
<1>4. conn[c].st # "free"
  BY <1>0 DEF ConnInv
<1>5. /\ conn'[c].proto = conn[c].proto /\ conn'[c].key = conn[c].key
      /\ conn'[c].st # "free"
      /\ ~Release(r) => conn'[c].busy = conn[c].busy
  <2>1. CASE EndIdleWatch(r)
    BY <1>0, <1>4, <2>1 DEF EndIdleWatch, Closed, Watched, ConnRecord
  <2>2. CASE Exchange(r)
    BY <1>0, <1>4, <2>2 DEF Exchange, Respond, ExchangeFails, ConnRecord
  <2>3. CASE Body(r)
    BY <1>0, <1>4, <2>3 DEF Body, CloseBody, DrainOverflow, Closed, ConnRecord
  <2>4. CASE Release(r)
    BY <1>0, <1>4, <2>4 DEF Release, ConnRecord
  <2>5. CASE Released(r)
    BY <1>0, <1>4, <2>5 DEF Released, Closed, Watched, ConnRecord
  <2>6. CASE ReleaseCloses(r)
    BY <1>0, <1>4, <2>6 DEF ReleaseCloses, Closed, ConnRecord
  <2>7. CASE Evict(r)
    BY <1>0, <1>4, <2>7 DEF Evict, Closed, ConnRecord
  <2> QED
    BY <2>1, <2>2, <2>3, <2>4, <2>5, <2>6, <2>7 DEF GiveBack
<1>6. \/ req'[r].on \notin Conns
      \/ /\ req'[r].on = c /\ req'[r].key = req[r].key
         /\ req'[r].pc \in {"unwatch", "exchange", "body", "release"}
              => req[r].pc \in {"unwatch", "exchange", "body", "release"}
  <2>1. CASE EndIdleWatch(r)
    <3>1. \/ req' = [req EXCEPT ![r].pc = "exchange"]
          \/ req' = [req EXCEPT ![r] = Ended("failed")]
          \/ req' = [req EXCEPT ![r] = [@ EXCEPT !.pc = "conn", !.on = None]]
      BY <1>0, <2>1 DEF EndIdleWatch
    <3>2. req[r].pc = "unwatch"
      BY <2>1 DEF EndIdleWatch
    <3>3. CASE req' = [req EXCEPT ![r].pc = "exchange"]
      BY <1>0, <3>2, <3>3 DEF ReqRecord
    <3>4. CASE req' = [req EXCEPT ![r] = Ended("failed")]
      BY <1>0, <3>4, EndedOn
    <3>5. CASE req' = [req EXCEPT ![r] = [@ EXCEPT !.pc = "conn", !.on = None]]
      <4>1. req'[r].on = None
        BY <1>0, <3>5 DEF ReqRecord
      <4> QED
        BY <4>1, ConstantsAssumption
    <3> QED
      BY <3>1, <3>3, <3>4, <3>5
  <2>2. CASE Exchange(r) \/ Body(r)
    BY <1>0, <2>2 DEF Exchange, Respond, ExchangeFails, Body, CloseBody, DrainOverflow, ReqRecord
  <2>3. CASE GiveBack(r)
    <3>1. [NewReq EXCEPT !.pc = "conn", !.key = req[r].key, !.mode = "resend"].on = None
      BY DEF NewReq
    <3>2. \/ \E pc \in {"released", "closing", "evict"} : req' = [req EXCEPT ![r].pc = pc]
          \/ \E why : req' = [req EXCEPT ![r] = Ended(why)]
          \/ req' = [req EXCEPT ![r] = [NewReq EXCEPT !.pc = "conn", !.key = req[r].key,
                                                     !.mode = "resend"]]
      BY <2>3 DEF GiveBack, Release, Released, ReleaseCloses, Evict, AfterRelease
    <3>3. CASE \E pc \in {"released", "closing", "evict"} : req' = [req EXCEPT ![r].pc = pc]
      BY <1>0, <3>3 DEF ReqRecord
    <3>4. CASE \E why : req' = [req EXCEPT ![r] = Ended(why)]
      BY <1>0, <3>4, EndedOn
    <3>5. CASE req' = [req EXCEPT ![r] = [NewReq EXCEPT !.pc = "conn", !.key = req[r].key,
                                                     !.mode = "resend"]]
      <4>1. req'[r].on = None
        BY <1>0, <3>1, <3>5
      <4> QED
        BY <4>1, ConstantsAssumption
    <3> QED
      BY <3>2, <3>3, <3>4, <3>5
  <2> QED
    BY <2>1, <2>2, <2>3
<1>7. NoMoreHolders
  BY <1>0, <1>2, <1>6, OneMoves
<1>8. ~Release(r) => conn'[c].busy = conn[c].busy
  BY <1>5
<1>9. Release(r) /\ conn[c].proto = "h1" => \A s \in Requests : ~Holds(s, c)'
  <2> SUFFICES ASSUME Release(r), conn[c].proto = "h1" PROVE \A s \in Requests : ~Holds(s, c)'
    OBVIOUS
  <2>1. Holds(r, c)
    BY <1>0 DEF Holds, Release
  <2>2. \A s \in Requests : Holds(s, c) => s = r
    BY <1>0, <2>1 DEF ConnInv
  <2>3. ~Holds(r, c)'
    <3>1. \/ \E pc \in {"released", "evict"} : req' = [req EXCEPT ![r].pc = pc]
          \/ req' = [req EXCEPT ![r] = Ended("ok")]
      BY DEF Release, AfterRelease
    <3> QED
      BY <1>0, <3>1, EndedOn DEF Holds, ReqRecord
  <2> QED
    BY <1>7, <2>2, <2>3, <1>0 DEF NoMoreHolders
<1>10. \A d \in Conns : Same(d)
  BY <1>3, <1>4, <1>5, <1>8, <1>9 DEF Same
<1> QED
  BY <1>1, <1>7, <1>10, SteadyConns

LEMMA OutsideSteady ==
  ASSUME TypeInv, ConnInv,
         \/ \E g \in Groups : Attempt(g)
         \/ \E c \in Conns : Closer(c) \/ Environment(c)
         \/ \E r \in Requests : DialLate(r)
         \/ SessionClose
  PROVE  ConnInv'
<1> USE DEF TypeInv
<1>0. conn \in [Conns -> ConnRecord] /\ req \in [Requests -> ReqRecord]
  BY DEF TypeOK
<1>1. NoMoreAliases
  BY ConstantsAssumption
  DEF NoMoreAliases, Attempt, Claim, AttemptFails, AttemptLate, AttemptWins,
      AttemptOrphaned, AttemptH1, Closer, OrphanDone, OrphanTimeout, CloseDoomed,
      Environment, ServerGone, Goaway, Dropped, WatchFires, Expires, Forgotten, Fault,
      DialLate, SessionClose, TypeOK
<1>2. req' = req => NoMoreHolders
  BY DEF NoMoreHolders, Holds
<1>3. conn' = conn => \A d \in Conns : Same(d)
  BY DEF Same
<1>4. ASSUME NEW g \in Groups, Attempt(g) PROVE ConnInv'
  <2>1. NoMoreHolders
    BY <1>2, <1>4, AttemptEndsMoves
    DEF Attempt, Claim, AttemptFails, AttemptLate, AttemptWins, AttemptOrphaned, AttemptH1
  <2>2. \/ conn' = conn
        \/ \E c \in Conns : /\ conn[c].st = "free"
                            /\ \A d \in Conns \ {c} : conn'[d] = conn[d]
    BY <1>0, <1>4
    DEF Attempt, Claim, AttemptFails, AttemptLate, AttemptWins, AttemptOrphaned, AttemptH1,
        AttemptEnds, IsNextConn, Watched
  <2>3. \A d \in Conns : Same(d)
    BY <2>2 DEF Same
  <2> QED
    BY <1>1, <2>1, <2>3, SteadyConns
<1>5. ASSUME NEW c \in Conns, Closer(c) \/ Environment(c) PROVE ConnInv'
  <2>1. req' = req
    BY <1>5 DEF Closer, OrphanDone, OrphanTimeout, CloseDoomed, Environment, ServerGone,
      Goaway, Dropped, WatchFires, Expires, Forgotten, Fault
  <2>2. \A d \in Conns \ {c} : conn'[d] = conn[d]
    BY <1>0, <1>5 DEF Closer, OrphanDone, OrphanTimeout, CloseDoomed, Environment, ServerGone,
      Goaway, Dropped, WatchFires, Expires, Forgotten, Fault, Closed
  <2>3. CASE Forgotten(c)
    <3>1. Same(c)
      BY <2>3 DEF Same, Forgotten
    <3>2. \A d \in Conns : Same(d)
      BY <2>2, <3>1 DEF Same
    <3> QED
      BY <1>1, <1>2, <2>1, <3>2, SteadyConns
  <2>4. CASE ~Forgotten(c)
    <3>1. /\ conn'[c].proto = conn[c].proto /\ conn'[c].key = conn[c].key
          /\ conn'[c].busy = conn[c].busy
          /\ conn[c].st # "free" => conn'[c].st # "free"
      BY <1>0, <1>5, <2>4 DEF Closer, OrphanDone, OrphanTimeout, CloseDoomed, Environment,
        ServerGone, Goaway, Dropped, WatchFires, Expires, Fault, Closed, ConnRecord
    <3>2. \A d \in Conns : Same(d)
      BY <2>2, <3>1 DEF Same
    <3> QED
      BY <1>1, <1>2, <2>1, <3>2, SteadyConns
  <2> QED
    BY <2>3, <2>4
<1>6. ASSUME NEW r \in Requests, DialLate(r) PROVE ConnInv'
  <2>1. \E c \in Conns : /\ conn[c].st = "free"
                       /\ \A d \in Conns \ {c} : conn'[d] = conn[d]
    BY <1>0, <1>6 DEF DialLate, IsNextConn
  <2>2. \A d \in Conns : Same(d)
    BY <2>1 DEF Same
  <2>3. /\ req'[r].on \notin Conns
        /\ \A s \in Requests \ {r} : req'[s] = req[s]
    BY <1>0, <1>6, EndedOn DEF DialLate
  <2> QED
    BY <1>1, <2>2, <2>3, OneMoves, SteadyConns
<1>7. CASE SessionClose
  BY <1>1, <1>2, <1>3, <1>7, SteadyConns DEF SessionClose
<1> QED
  BY <1>4, <1>5, <1>6, <1>7

(* A hand-out: the connection is counted, and is what it was otherwise.     *)
LEMMA AcquiredFields ==
  ASSUME NEW cs \in [Conns -> ConnRecord], NEW c \in Conns
  PROVE  /\ Acquired(cs, c)[c].proto = cs[c].proto /\ Acquired(cs, c)[c].key = cs[c].key
         /\ Acquired(cs, c)[c].st = cs[c].st
         /\ Acquired(cs, c)[c].busy = cs[c].busy + 1
         /\ \A d \in Conns \ {c} : Acquired(cs, c)[d] = cs[d]
BY DEF Acquired, ConnRecord

(* An HTTP/1.1 connection with nothing under way is in nobody's hands.      *)
LEMMA IdleUnheld ==
  ASSUME ConnInv, NEW c \in Conns, conn[c].proto = "h1", conn[c].busy = 0
  PROVE  \A s \in Requests : ~Holds(s, c)
BY DEF ConnInv

(* The step takes c, as it is, out of the pool for r.                       *)
LEMMA PickedTakesOn ==
  ASSUME TypeInv, TypeInv', ConnInv, NEW r \in Requests, NEW c \in Conns,
         Picked(r, c), conn[c].st # "free", CanTake(c), Suits(c, req[r].key),
         NoMoreAliases
  PROVE  ConnInv'
<1>0. req[r] \in ReqRecord /\ conn \in [Conns -> ConnRecord] /\ req \in [Requests -> ReqRecord]
  BY Fields DEF TypeInv, TypeOK
<1>1. /\ req'[r].key = req[r].key /\ req'[r].on = c
      /\ \A s \in Requests \ {r} : req'[s] = req[s]
  BY <1>0 DEF Picked, ReqRecord
<1>2. /\ conn'[c].proto = conn[c].proto /\ conn'[c].key = conn[c].key
      /\ conn'[c].st # "free" /\ conn'[c].busy = conn[c].busy + 1
      /\ \A d \in Conns \ {c} : conn'[d] = conn[d]
  BY <1>0, AcquiredFields DEF Picked
<1>3. \A d \in Conns \ {c} : Same(d)
  BY <1>2 DEF Same
<1>4. conn'[c].proto = "h1" => conn'[c].busy = 1 /\ \A s \in Requests : ~Holds(s, c)
  <2> SUFFICES ASSUME conn[c].proto = "h1"
               PROVE  conn'[c].busy = 1 /\ \A s \in Requests : ~Holds(s, c)
    BY <1>2
  <2>1. conn[c].busy = 0
    BY DEF CanTake
  <2>2. \A s \in Requests : ~Holds(s, c)
    BY <2>1, IdleUnheld
  <2> QED
    BY <1>2, <2>1, <2>2
<1>5. Suits(c, req[r].key)'
  BY <1>1, <1>2 DEF Suits
<1> QED
  BY <1>1, <1>2, <1>3, <1>4, <1>5, TakesOn

LEMMA TakeStep ==
  ASSUME TypeInv, TypeInv', ConnInv, NEW r \in Requests,
         PickConn(r) \/ PinConn(r) \/ LookupHit(r) \/ DialRedundant(r) \/ DialUp(r)
  PROVE  ConnInv'
<1> USE DEF TypeInv
<1>0. /\ req[r] \in ReqRecord /\ conn \in [Conns -> ConnRecord]
      /\ req \in [Requests -> ReqRecord]
      /\ req[r].key \in Keys /\ aliases \in [Keys -> Conns \cup {None}]
      /\ Protos[req[r].key] \subseteq {"h1", "h2"}
  BY Fields, ConstantsAssumption
  DEF TypeOK, WellPlaced, PickConn, PinConn, LookupHit, DialRedundant, DialUp
<1>1. \A P \in SUBSET pool : \A c \in Pickable(req[r].key, P) :
        /\ c \in Conns /\ conn[c].st # "free" /\ Suits(c, req[r].key) /\ CanTake(c)
  BY <1>0 DEF Pickable, Own, Aliased, Live, Usable, Suits, CanTake, ConnInv, TypeOK
<1>2. CASE PickConn(r)
  <2>0. PICK P \in SUBSET pool : \E c \in Pickable(req[r].key, P) : Picked(r, c)
    BY <1>2 DEF PickConn
  <2>1. PICK c \in Pickable(req[r].key, P) : Picked(r, c)
    BY <2>0
  <2>2. NoMoreAliases
    BY <1>2 DEF PickConn, NoMoreAliases
  <2> QED
    BY <1>1, <2>1, <2>2, PickedTakesOn
<1>3. CASE PinConn(r)
  <2>1. PICK c \in pool : Usable(c) /\ CarriesFor(c, req[r].key) /\ CanTake(c) /\ Picked(r, c)
    BY <1>3 DEF PinConn
  <2>2. c \in Conns /\ conn[c].st # "free" /\ Suits(c, req[r].key)
    BY <2>1 DEF TypeOK, Usable, CarriesFor, Suits
  <2>3. NoMoreAliases
    BY <1>3 DEF PinConn, NoMoreAliases
  <2> QED
    BY <2>1, <2>2, <2>3, PickedTakesOn
<1>4. CASE LookupHit(r)
  <2>1. PICK c \in Conns :
          /\ conn[c].proto = "h2" /\ conn[c].st # "free"
          /\ <<conn[c].key, req[r].key>> \in Covers
          /\ aliases' = [aliases EXCEPT ![req[r].key] = c]
    BY <1>4 DEF LookupHit, TypeOK, Usable
  <2>2. conn' = conn
    BY <1>4 DEF LookupHit
  <2>3. \A s \in Requests :
          /\ req'[s].on = req[s].on /\ req'[s].key = req[s].key
          /\ req'[s].pc = req[s].pc \/ req'[s].pc = "conn"
    BY <1>0, <1>4 DEF LookupHit, ReqRecord
  <2>4. \A s \in Requests, d \in Conns : Holds(s, d)' => Holds(s, d)
    BY <2>3 DEF Holds
  <2>5. \A k \in Keys, d \in Conns : aliases'[k] = d =>
          aliases[k] = d \/ (d = c /\ k = req[r].key)
    BY <1>0, <2>1
  <2>6. \A d \in Conns : \A k \in Keys : aliases'[k] = d =>
          conn[d].st # "free" /\ conn[d].proto = "h2" /\ <<conn[d].key, k>> \in Covers
    BY <2>1, <2>5 DEF ConnInv
  <2>7. \A d \in Conns : \A s \in Requests :
          /\ req'[s].on = d => conn[d].st # "free"
          /\ Holds(s, d)' =>
               Suits(d, req'[s].key) /\ (conn[d].proto = "h1" => conn[d].busy = 1)
    <3> TAKE d \in Conns
    <3> TAKE s \in Requests
    <3>1. req'[s].on = d => conn[d].st # "free"
      BY <2>3 DEF ConnInv
    <3>2. Holds(s, d) => Suits(d, req[s].key) /\ (conn[d].proto = "h1" => conn[d].busy = 1)
      BY DEF ConnInv
    <3>3. req'[s].key = req[s].key
      BY <2>3
    <3> QED
      BY <2>4, <3>1, <3>2, <3>3
  <2>8. \A d \in Conns : conn[d].proto = "h1" =>
          \A s, t \in Requests : Holds(s, d)' /\ Holds(t, d)' => s = t
    BY <2>4 DEF ConnInv
  <2> QED
    BY <2>2, <2>6, <2>7, <2>8 DEF ConnInv, Suits
<1>5. CASE DialRedundant(r)
  <2>1. PICK old \in Multiplexed(r), c \in Conns :
          /\ IsNextConn(c)
          /\ conn' = Acquired([conn EXCEPT ![c] = NewConn(req[r].key, "h2")], old)
          /\ req' = [req EXCEPT ![r].pc = "exchange", ![r].on = old, ![r].reused = TRUE]
    BY <1>5 DEF DialRedundant
  <2>2. /\ old \in Conns /\ conn[old].st # "free" /\ conn[old].proto = "h2"
        /\ Suits(old, req[r].key) /\ conn[c].st = "free"
    BY <1>1, <2>1 DEF Multiplexed, IsNextConn
  <2> DEFINE cs == [conn EXCEPT ![c] = NewConn(req[r].key, "h2")]
  <2>3. /\ cs \in [Conns -> ConnRecord] /\ cs[old] = conn[old]
        /\ \A d \in Conns \ {c} : cs[d] = conn[d]
    BY <1>0, <2>2, RecordTypes
  <2>4. conn' = Acquired(cs, old)
    BY <2>1
  <2> HIDE DEF cs
  <2>5. /\ conn'[old].proto = conn[old].proto /\ conn'[old].key = conn[old].key
        /\ conn'[old].st = conn[old].st
        /\ \A d \in Conns \ {old, c} : conn'[d] = conn[d]
    BY <2>2, <2>3, <2>4, AcquiredFields
  <2>6. \A d \in Conns \ {old} : Same(d)
    BY <2>2, <2>5 DEF Same
  <2>7. /\ req'[r].key = req[r].key /\ req'[r].on = old
        /\ \A s \in Requests \ {r} : req'[s] = req[s]
    BY <1>0, <2>1 DEF ReqRecord
  <2>8. NoMoreAliases
    BY <1>5 DEF DialRedundant, NoMoreAliases
  <2>9. Suits(old, req[r].key)'
    BY <2>2, <2>5, <2>7 DEF Suits
  <2> QED
    BY <2>2, <2>5, <2>6, <2>7, <2>8, <2>9, TakesOn
<1>6. CASE DialUp(r)
  <2>1. PICK p \in Protos[req[r].key], c \in Conns :
          /\ IsNextConn(c)
          /\ conn' = Acquired([conn EXCEPT ![c] = NewConn(req[r].key, p)], c)
          /\ req' = [req EXCEPT ![r].pc = "exchange", ![r].on = c, ![r].reused = FALSE]
    BY <1>6 DEF DialUp
  <2>2. conn[c].st = "free"
    BY <2>1 DEF IsNextConn
  <2> DEFINE cs == [conn EXCEPT ![c] = NewConn(req[r].key, p)]
  <2>3. NewConn(req[r].key, p).busy = 0 /\ NewConn(req[r].key, p).st = "open"
        /\ NewConn(req[r].key, p).key = req[r].key
    BY DEF NewConn, NoConn
  <2>4. /\ cs \in [Conns -> ConnRecord] /\ cs[c] = NewConn(req[r].key, p)
        /\ \A d \in Conns \ {c} : cs[d] = conn[d]
    BY <1>0, RecordTypes
  <2>5. conn' = Acquired(cs, c)
    BY <2>1
  <2> HIDE DEF cs
  <2>6. /\ conn'[c].key = req[r].key /\ conn'[c].st = "open" /\ conn'[c].busy = 0 + 1
        /\ \A d \in Conns \ {c} : conn'[d] = conn[d]
    BY <2>3, <2>4, <2>5, AcquiredFields
  <2>7. \A d \in Conns \ {c} : Same(d)
    BY <2>6 DEF Same
  <2>8. /\ req'[r].key = req[r].key /\ req'[r].on = c
        /\ \A s \in Requests \ {r} : req'[s] = req[s]
    BY <1>0, <2>1 DEF ReqRecord
  <2>9. NoMoreAliases
    <3>1. aliases' \in {aliases, [aliases EXCEPT ![req[r].key] = None]}
      BY <1>6 DEF DialUp
    <3> QED
      BY <1>0, <3>1, ConstantsAssumption DEF NoMoreAliases
  <2>10. \A s \in Requests : ~Holds(s, c)
    BY <2>2 DEF ConnInv, Holds
  <2>11. Suits(c, req[r].key)'
    BY <2>6, <2>8 DEF Suits
  <2>12. conn'[c].st # "free" /\ conn'[c].busy = 1
    BY <2>6
  <2> QED
    BY <2>2, <2>7, <2>8, <2>9, <2>10, <2>11, <2>12, TakesOn
<1> QED
  BY <1>2, <1>3, <1>4, <1>5, <1>6

LEMMA ConnStep == TypeInv /\ ConnInv /\ [Next]_vars => ConnInv'
<1> SUFFICES ASSUME TypeInv, ConnInv, [Next]_vars PROVE ConnInv'
  OBVIOUS
<1>1. TypeInv'
  BY TypeStep
<1>2. ASSUME NEW r \in Requests, Request(r) PROVE ConnInv'
  <2>1. CASE Start(r) \/ WaitEnds(r) \/ GiveUp(r) \/ HandBack(r)
    BY <2>1, RequestSteady
  <2>2. CASE TakeConn(r) \/ Lookup(r)
    BY <1>1, <2>2, RequestSteady, TakeStep DEF TakeConn, Lookup
  <2>3. CASE OwnDial(r)
    BY <1>1, <2>3, RequestSteady, OutsideSteady, TakeStep DEF OwnDial
  <2>4. CASE EndIdleWatch(r) \/ Exchange(r) \/ Body(r) \/ GiveBack(r)
    BY <2>4, ExchangeSteady
  <2> QED
    BY <1>2, <2>1, <2>2, <2>3, <2>4 DEF Request
<1>3. CASE UNCHANGED vars
  BY <1>3 DEF vars, ConnInv, Holds, Suits
<1> QED
  BY <1>2, <1>3, OutsideSteady DEF Next

LEMMA ConnInvariant == Spec => []ConnInv
<1>1. Init => ConnInv
  BY ConstantsAssumption DEF Init, ConnInv, Holds, NewReq
<1>2. Spec => []TypeInv
  BY InitType, TypeStep, PTL DEF Spec
<1> QED
  BY <1>1, <1>2, ConnStep, PTL DEF Spec

(* No HTTP/1.1 connection ever has two requests on it, whatever is picked,  *)
(* pinned, dialed, released and swept around it (canTake, acquire, release).*)
THEOREM H1NeverShared == Spec => []H1Exclusive
<1>1. ConnInv => H1Exclusive
  BY DEF ConnInv, H1Exclusive
<1> QED
  BY <1>1, ConnInvariant, PTL

(* Every request is on a connection for its own key, or on an HTTP/2 one    *)
(* whose certificate covers it - through every alias (pickLockedAt,         *)
(* ipPooled, pinnedConn).                                                   *)
THEOREM AlwaysRightConnection == Spec => []RightConnection
<1>1. ConnInv => RightConnection
  BY DEF ConnInv, RightConnection, Suits
<1> QED
  BY <1>1, ConnInvariant, PTL

-----------------------------------------------------------------------------
(* The dial groups: no request is left waiting on a group that runs         *)
(* nothing, and a family that closes its spares before the preface sends    *)
(* one preface per burst.                                                   *)

(* running counts the attempts, wherever they are.                          *)
Counted(gr) ==
  /\ gr.dialing >= 0 /\ gr.preface >= 0 /\ gr.spare >= 0
  /\ gr.running = gr.dialing + gr.preface + gr.spare

(* An attempt past its claim is the only one, and there is no winner yet.   *)
OneClaim(gr) ==
  SpareBeforePreface =>
    gr.preface <= 1 /\ (gr.won \/ ~gr.claimed => gr.preface = 0)

Sound(gr) == Counted(gr) /\ OneClaim(gr)

(* The group a key dials by runs something, and is the key's.               *)
Linked ==
  \A k \in Keys : dialing[k] # None =>
    group[dialing[k]].running > 0 /\ group[dialing[k]].key = k

LooksToJoin == \A r \in Requests : req[r].pc = "lookup" => Attempts > 0

GroupInv ==
  /\ \A g \in Groups : Sound(group[g])
  /\ Linked /\ LooksToJoin /\ NoStrandedWaiter

-----------------------------------------------------------------------------
LEMMA GroupType == TypeInv => /\ \A g \in Groups : group[g] \in GroupRecord
                              /\ \A k \in Keys : dialing[k] # None => dialing[k] \in Groups
BY DEF TypeInv, TypeOK

LEMMA NoGroupSound == Sound(NoGroup) /\ NoGroup.running = 0
BY DEF Sound, Counted, OneClaim, NoGroup

(* A group that is given up keeps what its waiters and its key rely on.     *)
LEMMA KeptSound ==
  ASSUME NEW gr \in GroupRecord, Sound(gr)
  PROVE  /\ Sound(Kept(gr)) /\ Kept(gr).running = gr.running
         /\ gr.running > 0 => Kept(gr).key = gr.key
BY NoGroupSound DEF Kept, GroupRecord

(* What most steps come to: no group loses an attempt, no key changes its   *)
(* group, and no request begins to wait or to look up.                      *)
LEMMA SteadyGroups ==
  ASSUME TypeInv, GroupInv, dialing' = dialing,
         \A g \in Groups :
           /\ Sound(group'[g]) /\ group'[g].running = group[g].running
           /\ group[g].running > 0 => group'[g].key = group[g].key,
         \A r \in Requests : req'[r] = req[r] \/ req'[r].pc \notin {"wait", "lookup"}
  PROVE  GroupInv'
<1>1. Linked'
  BY GroupType DEF Linked, GroupInv
<1>2. LooksToJoin'
  BY DEF LooksToJoin, GroupInv
<1>3. NoStrandedWaiter'
  <2> SUFFICES ASSUME NEW r \in Requests, NEW g \in Groups,
                      Waits(r, g)', ~req'[r].woken
               PROVE  group'[g].running > 0
    BY DEF NoStrandedWaiter
  <2>1. req'[r] = req[r]
    BY DEF Waits
  <2>2. group[g].running > 0
    BY <2>1 DEF Waits, GroupInv, NoStrandedWaiter
  <2> QED
    BY <2>2
<1> QED
  BY <1>1, <1>2, <1>3 DEF GroupInv

LEMMA UntouchedGroups ==
  ASSUME TypeInv, GroupInv, group' = group, dialing' = dialing,
         \A r \in Requests : req'[r] = req[r] \/ req'[r].pc \notin {"wait", "lookup"}
  PROVE  GroupInv'
<1>1. \A g \in Groups : Sound(group[g])
  BY DEF GroupInv
<1> QED
  BY <1>1, SteadyGroups

-----------------------------------------------------------------------------
(* Requests                                                                *)

LEMMA EndedPc == \A why : Ended(why).pc = "done"
BY DEF Ended, NewReq

(* Requests' steps outside the groups, and what they leave alone.           *)
PlainStep(r) ==
  \/ Start(r) \/ ConnRefused(r) \/ PickConn(r) \/ PinConn(r) \/ PinFails(r)
  \/ LookupHit(r) \/ OwnDial(r) \/ EndIdleWatch(r) \/ HandBack(r)
  \/ Exchange(r) \/ Body(r) \/ GiveBack(r)

LEMMA PlainMoves ==
  ASSUME TypeInv, NEW r \in Requests, PlainStep(r)
  PROVE  /\ group' = group /\ dialing' = dialing /\ req[r].pc # "wait"
         /\ \A s \in Requests : \/ req'[s] = req[s]
                                \/ s = r /\ req'[s].pc \notin {"wait", "lookup"}
<1> USE DEF TypeInv, PlainStep
<1>0. req[r] \in ReqRecord /\ req \in [Requests -> ReqRecord]
  BY Fields DEF TypeOK
<1>1. group' = group /\ dialing' = dialing /\ req[r].pc # "wait"
  BY DEF Start, ConnRefused, PickConn, PinConn, PinFails, LookupHit, OwnDial, DialFails,
         DialLate, DialRedundant, DialUp, EndIdleWatch, HandBack, Exchange, Respond,
         ExchangeFails, Body, CloseBody, DrainOverflow, GiveBack, Release, Released,
         ReleaseCloses, Evict
<1>2. \A s \in Requests : \/ req'[s] = req[s]
                          \/ s = r /\ req'[s].pc \notin {"wait", "lookup"}
  <2>1. CASE Start(r)
    <3>1. PICK k \in Keys, m \in Modes :
            req' = [req EXCEPT ![r].pc = "conn", ![r].key = k, ![r].mode = m]
      BY <2>1 DEF Start
    <3> QED
      BY <1>0, <3>1 DEF ReqRecord
  <2>9. CASE LookupHit(r) \/ HandBack(r)
    BY <1>0, <2>9 DEF LookupHit, HandBack, ReqRecord
  <2>2. CASE ConnRefused(r) \/ PinFails(r)
    BY <1>0, <2>2, EndedPc DEF ConnRefused, PinFails
  <2>3. CASE PickConn(r) \/ PinConn(r)
    <3>1. PICK c \in pool : Picked(r, c)
      BY <2>3 DEF PickConn, PinConn, TypeOK, Pickable, Own, Aliased
    <3> QED
      BY <1>0, <3>1 DEF Picked, ReqRecord
  <2>4. CASE OwnDial(r)
    <3>1. CASE DialFails(r) \/ DialLate(r)
      BY <1>0, <3>1, EndedPc DEF DialFails, DialLate
    <3>2. CASE DialRedundant(r) \/ DialUp(r)
      <4>1. \E c \in Conns, b \in BOOLEAN :
              req' = [req EXCEPT ![r].pc = "exchange", ![r].on = c, ![r].reused = b]
        BY <3>2 DEF DialRedundant, DialUp, Multiplexed, Pickable, Own, Aliased, TypeOK
      <4> QED
        BY <1>0, <4>1 DEF ReqRecord
    <3> QED
      BY <2>4, <3>1, <3>2 DEF OwnDial
  <2>5. CASE EndIdleWatch(r)
    <3>1. \/ req' = [req EXCEPT ![r].pc = "exchange"]
          \/ req' = [req EXCEPT ![r] = Ended("failed")]
          \/ req' = [req EXCEPT ![r] = [req[r] EXCEPT !.pc = "conn", !.on = None]]
      BY <1>0, <2>5 DEF EndIdleWatch
    <3> QED
      BY <1>0, <3>1, EndedPc DEF ReqRecord
  <2>6. CASE Exchange(r) \/ Body(r)
    BY <1>0, <2>6 DEF Exchange, Respond, ExchangeFails, Body, CloseBody, DrainOverflow, ReqRecord
  <2>7. CASE Evict(r)
    BY <1>0, <2>7, EndedPc DEF Evict, NewReq
  <2>8. CASE Release(r) \/ Released(r) \/ ReleaseCloses(r)
    <3>1. \A s \in Requests :
            \/ AfterRelease(r)[s] = req[s]
            \/ s = r /\ AfterRelease(r)[s].pc \notin {"wait", "lookup"}
      BY <1>0, EndedPc DEF AfterRelease, ReqRecord
    <3> QED
      BY <1>0, <2>8, <3>1 DEF Release, Released, ReleaseCloses, ReqRecord
  <2> QED
    BY <2>1, <2>2, <2>3, <2>4, <2>5, <2>6, <2>7, <2>8, <2>9 DEF GiveBack
<1> QED
  BY <1>1, <1>2

LEMMA PlainRequest ==
  ASSUME TypeInv, GroupInv, NEW r \in Requests, PlainStep(r)
  PROVE  GroupInv'
BY PlainMoves, UntouchedGroups

(* A join leaves the group with an attempt under way, whether it found one, *)
(* started one or both.                                                     *)
LEMMA JoinStep ==
  ASSUME TypeInv, GroupInv, NEW r \in Requests, req[r].key \in Keys,
         Attempts > 0, JoinGroup(r)
  PROVE  GroupInv'
<1> DEFINE k == req[r].key
<1>1. PICK g \in Groups :
        /\ \/ group[g] = NoGroup
           \/ dialing[k] = g
        /\ dialing' = [dialing EXCEPT ![k] = g]
        /\ group' = [group EXCEPT ![g] = WithWaiter([@ EXCEPT !.key = k])]
        /\ req' = [req EXCEPT ![r].pc = "wait", ![r].grp = g, ![r].woken = FALSE]
  BY DEF JoinGroup
<1>2. PICK gr \in GroupRecord : gr = [group[g] EXCEPT !.key = k]
  BY GroupType DEF GroupRecord
<1>3. Sound(group[g]) /\ group[g] \in GroupRecord
  BY GroupType DEF GroupInv
<1>4. /\ Sound(gr) /\ gr.key = k /\ gr.running = group[g].running
      /\ gr.started = group[g].started /\ gr.waiting = group[g].waiting
  BY <1>2, <1>3 DEF Sound, Counted, OneClaim, GroupRecord
<1>5. gr.running > 0 \/ (gr.started = 0 /\ gr.waiting = 0)
  <2>1. CASE group[g] = NoGroup
    BY <1>4, <2>1 DEF NoGroup
  <2>2. CASE dialing[k] = g
    BY <1>4, <2>2, ConstantsAssumption DEF GroupInv, Linked
  <2> QED
    BY <1>1, <2>1, <2>2
<1>6. PICK new \in GroupRecord : new = WithWaiter(gr)
  BY WithWaiterType
<1>7. Sound(new) /\ new.running > 0 /\ new.running >= gr.running /\ new.key = k
  BY <1>4, <1>5, <1>6, ConstantsAssumption
  DEF WithWaiter, Sound, Counted, OneClaim, GroupRecord
<1>8. group'[g] = new /\ \A h \in Groups \ {g} : group'[h] = group[h]
  BY <1>1, <1>2, <1>6 DEF TypeInv, TypeOK
<1>9. \A h \in Groups : Sound(group'[h])
  BY <1>7, <1>8 DEF GroupInv
<1>10. Linked'
  <2> SUFFICES ASSUME NEW l \in Keys, dialing'[l] # None
               PROVE  group'[dialing'[l]].running > 0 /\ group'[dialing'[l]].key = l
    BY DEF Linked
  <2>1. CASE l = k
    BY <1>1, <1>7, <1>8, <2>1 DEF TypeInv, TypeOK
  <2>2. CASE l # k
    <3>1. dialing'[l] = dialing[l]
      BY <1>1, <2>2 DEF TypeInv, TypeOK
    <3>2. group[dialing[l]].running > 0 /\ group[dialing[l]].key = l
      BY <3>1 DEF GroupInv, Linked
    <3>3. dialing[l] # g
      <4>1. group[g] # NoGroup \/ dialing[l] # g
        BY <3>2, NoGroupSound
      <4>2. dialing[k] = g => group[g].key = k
        BY ConstantsAssumption DEF GroupInv, Linked
      <4> QED
        BY <1>1, <2>2, <3>2, <4>1, <4>2
    <3> QED
      BY <1>8, <3>1, <3>2, <3>3, GroupType
  <2> QED
    BY <2>1, <2>2
<1>11. \A s \in Requests : s # r => req'[s] = req[s]
  BY <1>1 DEF TypeInv, TypeOK
<1>12. req'[r].pc = "wait" /\ req'[r].grp = g
  BY <1>1, Fields DEF TypeInv, TypeOK, ReqRecord
<1>13. LooksToJoin'
  BY DEF LooksToJoin
<1>14. NoStrandedWaiter'
  <2> SUFFICES ASSUME NEW s \in Requests, NEW h \in Groups, Waits(s, h)', ~req'[s].woken
               PROVE  group'[h].running > 0
    BY DEF NoStrandedWaiter
  <2>1. CASE h = g
    BY <1>7, <1>8, <2>1
  <2>2. CASE h # g
    BY <1>8, <1>11, <1>12, <2>2 DEF Waits, GroupInv, NoStrandedWaiter
  <2> QED
    BY <2>1, <2>2
<1> QED
  BY <1>9, <1>10, <1>13, <1>14 DEF GroupInv

LEMMA NothingStep ==
  ASSUME TypeInv, GroupInv, NEW r \in Requests, PickNothing(r) \/ LookupMiss(r)
  PROVE  GroupInv'
<1>0. req[r].key \in Keys /\ req \in [Requests -> ReqRecord] /\ req[r] \in ReqRecord
  BY Fields DEF TypeInv, TypeOK, WellPlaced, PickNothing, LookupMiss
<1>1. CASE LookupMiss(r)
  BY <1>0, <1>1, JoinStep DEF LookupMiss, GroupInv, LooksToJoin
<1>2. CASE PickNothing(r)
  <2>1. \/ req' = [req EXCEPT ![r].pc = "dial"] /\ UNCHANGED <<dialing, group>>
        \/ /\ req' = [req EXCEPT ![r].pc = "lookup", ![r].looked = TRUE]
           /\ UNCHANGED <<dialing, group>> /\ Attempts > 0
        \/ JoinGroup(r) /\ Attempts > 0
    BY <1>2 DEF PickNothing, Burstable
  <2>2. CASE req' = [req EXCEPT ![r].pc = "dial"] /\ UNCHANGED <<dialing, group>>
    BY <1>0, <2>2, UntouchedGroups DEF ReqRecord
  <2>3. CASE /\ req' = [req EXCEPT ![r].pc = "lookup", ![r].looked = TRUE]
             /\ UNCHANGED <<dialing, group>> /\ Attempts > 0
    <3>1. \A s \in Requests : req'[s] = req[s] \/ req'[s].pc = "lookup"
      BY <1>0, <2>3 DEF ReqRecord
    <3>2. NoStrandedWaiter'
      BY <2>3, <3>1 DEF NoStrandedWaiter, GroupInv, Waits
    <3>3. LooksToJoin' /\ Linked'
      BY <2>3 DEF LooksToJoin, Linked, GroupInv
    <3> QED
      BY <2>3, <3>2, <3>3 DEF GroupInv
  <2>4. CASE JoinGroup(r) /\ Attempts > 0
    BY <1>0, <2>4, JoinStep
  <2> QED
    BY <2>1, <2>2, <2>3, <2>4
<1> QED
  BY <1>1, <1>2

LEMMA LeaveStep ==
  ASSUME TypeInv, GroupInv, NEW r \in Requests, WaitEnds(r) \/ GiveUp(r)
  PROVE  GroupInv'
<1>0. /\ req \in [Requests -> ReqRecord] /\ req[r] \in ReqRecord /\ req[r].grp \in Groups
      /\ group \in [Groups -> GroupRecord]
  BY Fields DEF TypeInv, TypeOK, WellPlaced, WaitEnds, GiveUp
<1>1. PICK g \in Groups : g = req[r].grp
  BY <1>0
<1>2. PICK gr \in GroupRecord :
        /\ group' = [group EXCEPT ![g] = Kept(gr)]
        /\ \E cancelled \in BOOLEAN :
             gr = [group[g] EXCEPT !.waiting = group[g].waiting - 1, !.cancelled = cancelled]
  <2>1. group[g] \in GroupRecord /\ group[g].waiting - 1 \in Int
    BY <1>0 DEF GroupRecord
  <2>2. \A b \in BOOLEAN :
          [group[g] EXCEPT !.waiting = group[g].waiting - 1, !.cancelled = b] \in GroupRecord
    BY <2>1 DEF GroupRecord
  <2>3. CASE WaitEnds(r)
    <3>1. group' = [group EXCEPT ![g] = Kept([group[g] EXCEPT !.waiting = group[g].waiting - 1])]
      BY <1>1, <2>3 DEF WaitEnds
    <3>2. [group[g] EXCEPT !.waiting = group[g].waiting - 1]
            = [group[g] EXCEPT !.waiting = group[g].waiting - 1,
                               !.cancelled = group[g].cancelled]
      BY <2>1 DEF GroupRecord
    <3>3. group[g].cancelled \in BOOLEAN
      BY <2>1 DEF GroupRecord
    <3> QED
      BY <2>2, <3>1, <3>2, <3>3
  <2>4. CASE GiveUp(r)
    <3> DEFINE left == [group[g] EXCEPT !.waiting = group[g].waiting - 1]
    <3>1. group' = [group EXCEPT ![g] =
            Kept([left EXCEPT !.cancelled = left.cancelled \/ (left.waiting = 0 /\ ~left.won)])]
      BY <1>1, <2>4 DEF GiveUp
    <3>2. \A b \in BOOLEAN :
            [left EXCEPT !.cancelled = b]
              = [group[g] EXCEPT !.waiting = group[g].waiting - 1, !.cancelled = b]
      BY <2>1 DEF GroupRecord
    <3>3. (left.cancelled \/ (left.waiting = 0 /\ ~left.won)) \in BOOLEAN
      OBVIOUS
    <3> QED
      BY <2>2, <3>1, <3>2, <3>3
  <2> QED
    BY <2>3, <2>4
<1>3. Sound(gr) /\ gr.running = group[g].running /\ gr.key = group[g].key
  BY <1>0, <1>2 DEF GroupInv, Sound, Counted, OneClaim, GroupRecord
<1>4. \A h \in Groups :
        /\ Sound(group'[h]) /\ group'[h].running = group[h].running
        /\ group[h].running > 0 => group'[h].key = group[h].key
  BY <1>0, <1>2, <1>3, KeptSound DEF GroupInv
<1>5. \A s \in Requests : req'[s] = req[s] \/ req'[s].pc \notin {"wait", "lookup"}
  <2>1. \/ \E why : req' = [req EXCEPT ![r] = Ended(why)]
        \/ req' = [req EXCEPT ![r] =
                     [req[r] EXCEPT !.pc = "conn", !.grp = None, !.woken = FALSE]]
    BY <1>0 DEF WaitEnds, GiveUp
  <2>2. \/ \E why : req'[r] = Ended(why)
        \/ req'[r] = [req[r] EXCEPT !.pc = "conn", !.grp = None, !.woken = FALSE]
    BY <1>0, <2>1
  <2>3. req'[r].pc \notin {"wait", "lookup"}
    BY <1>0, <2>2, EndedPc DEF ReqRecord
  <2>4. \A s \in Requests \ {r} : req'[s] = req[s]
    BY <1>0, <2>1
  <2> QED
    BY <2>3, <2>4
<1>6. dialing' = dialing
  BY DEF WaitEnds, GiveUp
<1> QED
  BY <1>4, <1>5, <1>6, SteadyGroups

-----------------------------------------------------------------------------
(* Attempts                                                                *)

LEMMA ClaimStep ==
  ASSUME TypeInv, GroupInv, NEW g \in Groups, Claim(g)
  PROVE  GroupInv'
<1>0. group \in [Groups -> GroupRecord] /\ group[g] \in GroupRecord
  BY Fields DEF TypeInv, TypeOK
<1> DEFINE gr == group[g]
<1>1. /\ gr.dialing > 0 /\ Sound(gr) /\ SpareBeforePreface
      /\ gr.dialing \in Int /\ gr.preface \in Int /\ gr.spare \in Int /\ gr.running \in Int
  BY <1>0 DEF Claim, GroupInv, GroupRecord
<1>2. CASE gr.won \/ gr.claimed
  <2>1. group' = [group EXCEPT ![g] =
                    [gr EXCEPT !.dialing = gr.dialing - 1, !.spare = gr.spare + 1]]
    BY <1>2 DEF Claim
  <2>2. /\ group'[g].running = gr.running /\ group'[g].key = gr.key
        /\ group'[g].dialing = gr.dialing - 1 /\ group'[g].spare = gr.spare + 1
        /\ group'[g].preface = gr.preface /\ group'[g].won = gr.won
        /\ group'[g].claimed = gr.claimed
    BY <1>0, <2>1 DEF GroupRecord
  <2>3. Sound(group'[g])
    BY <1>1, <2>2 DEF Sound, Counted, OneClaim
  <2> QED
    BY <1>0, <2>1, <2>2, <2>3, SteadyGroups DEF Claim, GroupInv
<1>3. CASE ~(gr.won \/ gr.claimed)
  <2>1. group' = [group EXCEPT ![g] = [gr EXCEPT !.dialing = gr.dialing - 1,
                                                 !.preface = gr.preface + 1,
                                                 !.claimed = TRUE]]
    BY <1>3 DEF Claim
  <2>2. /\ group'[g].running = gr.running /\ group'[g].key = gr.key
        /\ group'[g].dialing = gr.dialing - 1 /\ group'[g].spare = gr.spare
        /\ group'[g].preface = gr.preface + 1 /\ group'[g].won = gr.won
        /\ group'[g].claimed
    BY <1>0, <2>1 DEF GroupRecord
  <2>3. Sound(group'[g])
    BY <1>1, <1>3, <2>2 DEF Sound, Counted, OneClaim
  <2> QED
    BY <1>0, <2>1, <2>2, <2>3, SteadyGroups DEF Claim, GroupInv
<1> QED
  BY <1>2, <1>3

(* However an attempt ends, its group's waiters are woken, and the last one *)
(* takes the group from its key.                                            *)
LEMMA EndStep ==
  ASSUME TypeInv, GroupInv, NEW g \in Groups, NEW ran \in GroupRecord,
         NEW list, NEW stamp, NEW cs, NEW drop,
         Sound(ran), ran.key = group[g].key,
         AttemptEnds(g, ran, list, stamp, cs, drop)
  PROVE  GroupInv'
<1>0. group \in [Groups -> GroupRecord] /\ dialing \in [Keys -> Groups \cup {None}]
  BY DEF TypeInv, TypeOK
<1>1. PICK new \in GroupRecord :
        /\ group' = [group EXCEPT ![g] = Kept(new)]
        /\ Sound(new) /\ new.running = ran.running /\ new.key = ran.key
  <2>1. group' = [group EXCEPT ![g] =
                    Kept([ran EXCEPT !.cancelled = ran.cancelled \/ ran.running = 0])]
    BY DEF AttemptEnds
  <2>2. \A b \in BOOLEAN :
          LET new == [ran EXCEPT !.cancelled = b]
          IN /\ new \in GroupRecord /\ Sound(new)
             /\ new.running = ran.running /\ new.key = ran.key
    BY DEF GroupRecord, Sound, Counted, OneClaim
  <2> QED
    BY <2>1, <2>2
<1>2. /\ Sound(group'[g]) /\ group'[g].running = ran.running
      /\ ran.running > 0 => group'[g].key = group[g].key
      /\ \A h \in Groups \ {g} : group'[h] = group[h]
  BY <1>0, <1>1, KeptSound
<1>3. ran.running >= 0
  BY DEF Sound, Counted, GroupRecord
<1>4. \A k \in Keys : dialing'[k] = dialing[k] \/ dialing'[k] = None
  BY <1>0 DEF AttemptEnds
<1>5. \A k \in Keys : dialing'[k] = g => ran.running > 0
  <2> SUFFICES ASSUME NEW k \in Keys, dialing'[k] = g, ran.running = 0 PROVE FALSE
    BY <1>3 DEF GroupRecord
  <2>1. dialing[k] = g /\ group[g].key = k
    BY <1>4, ConstantsAssumption DEF GroupInv, Linked
  <2>2. dialing' = [dialing EXCEPT ![k] = None]
    BY <2>1 DEF AttemptEnds
  <2> QED
    BY <1>0, <2>2, ConstantsAssumption
<1>6. Linked'
  <2> SUFFICES ASSUME NEW k \in Keys, dialing'[k] # None
               PROVE  group'[dialing'[k]].running > 0 /\ group'[dialing'[k]].key = k
    BY DEF Linked
  <2>1. dialing'[k] = dialing[k] /\ dialing[k] \in Groups
    BY <1>0, <1>4
  <2>2. group[dialing[k]].running > 0 /\ group[dialing[k]].key = k
    BY <2>1 DEF GroupInv, Linked
  <2> QED
    BY <1>2, <1>5, <2>1, <2>2
<1>7. \A r \in Requests :
        /\ req'[r].pc = req[r].pc /\ req'[r].grp = req[r].grp
        /\ req[r].pc = "wait" /\ req[r].grp = g => req'[r].woken
        /\ ~(req[r].pc = "wait" /\ req[r].grp = g) => req'[r] = req[r]
  BY AttemptEndsMoves
<1>8. LooksToJoin'
  BY <1>7 DEF GroupInv, LooksToJoin
<1>9. NoStrandedWaiter'
  BY <1>2, <1>7 DEF GroupInv, NoStrandedWaiter, Waits
<1>10. \A h \in Groups : Sound(group'[h])
  BY <1>2 DEF GroupInv
<1> QED
  BY <1>6, <1>8, <1>9, <1>10 DEF GroupInv

(* An attempt may win where no other can be past its claim.                 *)
LEMMA WonSound ==
  ASSUME NEW ran \in GroupRecord, Sound(ran), SpareBeforePreface => ran.preface = 0
  PROVE  LET winner == [ran EXCEPT !.won = TRUE, !.cancelled = TRUE]
         IN winner \in GroupRecord /\ Sound(winner) /\ winner.key = ran.key
BY DEF Sound, Counted, OneClaim, GroupRecord

LEMMA CameUpSound ==
  ASSUME TypeInv, GroupInv, NEW g \in Groups, NEW p \in {"h1", "h2"}, Ready(g, p)
  PROVE  LET ran == CameUp(g, p)
             winner == [ran EXCEPT !.won = TRUE, !.cancelled = TRUE]
         IN /\ ran \in GroupRecord /\ Sound(ran) /\ ran.key = group[g].key
            /\ p = "h2" => winner \in GroupRecord /\ Sound(winner) /\ winner.key = group[g].key
<1>0. group[g] \in GroupRecord /\ Sound(group[g])
  BY GroupType DEF GroupInv
<1> DEFINE gr == group[g]
<1>1. /\ gr.dialing \in Int /\ gr.preface \in Int /\ gr.spare \in Int /\ gr.running \in Int
      /\ gr.running - 1 \in Int /\ gr.dialing - 1 \in Int /\ gr.preface - 1 \in Int
  BY <1>0 DEF GroupRecord
<1>2. CASE SpareBeforePreface /\ p = "h2"
  <2>1. CameUp(g, p) = [gr EXCEPT !.preface = gr.preface - 1, !.running = gr.running - 1]
    BY <1>2 DEF CameUp
  <2>2. gr.preface = 1
    BY <1>0, <1>1, <1>2 DEF Ready, Sound, OneClaim, Counted
  <2> DEFINE ran == [gr EXCEPT !.preface = gr.preface - 1, !.running = gr.running - 1]
  <2>3. ran \in GroupRecord /\ ran.key = gr.key /\ Sound(ran)
    <3>1. ran \in GroupRecord
      BY <1>0, <1>1 DEF GroupRecord
    <3>2. /\ ran.running = gr.running - 1 /\ ran.key = gr.key
          /\ ran.dialing + ran.preface = gr.dialing + gr.preface - 1
          /\ ran.dialing >= 0 /\ ran.preface >= 0 /\ ran.spare = gr.spare
          /\ ran.preface <= gr.preface /\ ran.won = gr.won /\ ran.claimed = gr.claimed
      BY <1>0, <1>1, <2>2 DEF GroupRecord, Sound, Counted
    <3> HIDE DEF ran
    <3>3. Counted(ran)
      BY <1>0, <1>1, <3>1, <3>2 DEF Sound, Counted, GroupRecord
    <3>4. OneClaim(ran)
      BY <1>0, <1>1, <3>1, <3>2 DEF Sound, OneClaim, GroupRecord
    <3> QED
      BY <3>1, <3>2, <3>3, <3>4 DEF Sound
  <2>4. ran.preface = 0
    BY <1>0, <2>2 DEF GroupRecord
  <2> HIDE DEF ran
  <2>5. CameUp(g, p) = ran
    BY <2>1 DEF ran
  <2> QED
    BY <2>3, <2>4, <2>5, WonSound
<1>3. CASE ~(SpareBeforePreface /\ p = "h2")
  <2>1. CameUp(g, p) = [gr EXCEPT !.dialing = gr.dialing - 1, !.running = gr.running - 1]
    BY <1>3 DEF CameUp
  <2>2. gr.dialing > 0
    BY <1>3 DEF Ready
  <2> DEFINE ran == [gr EXCEPT !.dialing = gr.dialing - 1, !.running = gr.running - 1]
  <2>3. ran \in GroupRecord /\ ran.key = gr.key /\ Sound(ran)
    <3>1. ran \in GroupRecord
      BY <1>0, <1>1 DEF GroupRecord
    <3>2. /\ ran.running = gr.running - 1 /\ ran.key = gr.key
          /\ ran.dialing + ran.preface = gr.dialing + gr.preface - 1
          /\ ran.dialing >= 0 /\ ran.preface >= 0 /\ ran.spare = gr.spare
          /\ ran.preface <= gr.preface /\ ran.won = gr.won /\ ran.claimed = gr.claimed
      BY <1>0, <1>1, <2>2 DEF GroupRecord, Sound, Counted
    <3> HIDE DEF ran
    <3>3. Counted(ran)
      BY <1>0, <1>1, <3>1, <3>2 DEF Sound, Counted, GroupRecord
    <3>4. OneClaim(ran)
      BY <1>0, <1>1, <3>1, <3>2 DEF Sound, OneClaim, GroupRecord
    <3> QED
      BY <3>1, <3>2, <3>3, <3>4 DEF Sound
  <2> HIDE DEF ran
  <2>5. CameUp(g, p) = ran
    BY <2>1 DEF ran
  <2> QED
    BY <1>3, <2>3, <2>5, WonSound
<1> QED
  BY <1>2, <1>3

LEMMA FailedSound ==
  ASSUME TypeInv, GroupInv, NEW g \in Groups, NEW why \in {"none", "failed", "cancelled"}
  PROVE  LET ran == [group[g] EXCEPT !.running = group[g].running - 1]
             a == [ran EXCEPT !.dialing = ran.dialing - 1, !.err = why]
             b == [ran EXCEPT !.preface = ran.preface - 1, !.err = why, !.claimed = FALSE]
             c == [ran EXCEPT !.spare = ran.spare - 1]
         IN /\ a \in GroupRecord /\ b \in GroupRecord /\ c \in GroupRecord
            /\ a.key = group[g].key /\ b.key = group[g].key /\ c.key = group[g].key
            /\ group[g].dialing > 0 => Sound(a)
            /\ group[g].preface > 0 => Sound(b)
            /\ group[g].spare > 0 => Sound(c)
<1>0. group[g] \in GroupRecord /\ Sound(group[g])
  BY GroupType DEF GroupInv
<1> DEFINE gr == group[g]
<1>1. /\ gr.dialing \in Int /\ gr.preface \in Int /\ gr.spare \in Int /\ gr.running \in Int
      /\ gr.running - 1 \in Int /\ gr.dialing - 1 \in Int
      /\ gr.preface - 1 \in Int /\ gr.spare - 1 \in Int
  BY <1>0 DEF GroupRecord
<1> DEFINE ran == [gr EXCEPT !.running = gr.running - 1]
           a == [ran EXCEPT !.dialing = ran.dialing - 1, !.err = why]
           b == [ran EXCEPT !.preface = ran.preface - 1, !.err = why, !.claimed = FALSE]
           c == [ran EXCEPT !.spare = ran.spare - 1]
<1>2. /\ ran \in GroupRecord /\ ran.running = gr.running - 1 /\ ran.key = gr.key
      /\ ran.dialing = gr.dialing /\ ran.preface = gr.preface /\ ran.spare = gr.spare
      /\ ran.won = gr.won /\ ran.claimed = gr.claimed
  BY <1>0, <1>1 DEF GroupRecord
<1> HIDE DEF ran
<1>3. a \in GroupRecord /\ a.key = gr.key /\ (gr.dialing > 0 => Sound(a))
  <2>1. a \in GroupRecord /\ a.key = gr.key
    BY <1>1, <1>2 DEF GroupRecord
  <2>2. /\ a.running = gr.running - 1 /\ a.dialing = gr.dialing - 1
        /\ a.preface = gr.preface /\ a.spare = gr.spare /\ a.won = gr.won
        /\ a.claimed = gr.claimed
    BY <1>1, <1>2 DEF GroupRecord
  <2> HIDE DEF a
  <2>3. gr.dialing > 0 => Counted(a)
    BY <1>0, <1>1, <2>2 DEF Sound, Counted
  <2>4. gr.dialing > 0 => OneClaim(a)
    BY <1>0, <1>1, <2>2 DEF Sound, Counted, OneClaim
  <2> QED
    BY <2>1, <2>3, <2>4 DEF Sound
<1>4. b \in GroupRecord /\ b.key = gr.key /\ (gr.preface > 0 => Sound(b))
  <2>1. b \in GroupRecord /\ b.key = gr.key
    BY <1>1, <1>2 DEF GroupRecord
  <2>2. /\ b.running = gr.running - 1 /\ b.preface = gr.preface - 1
        /\ b.dialing = gr.dialing /\ b.spare = gr.spare /\ b.won = gr.won
        /\ b.claimed = FALSE
    BY <1>1, <1>2 DEF GroupRecord
  <2> HIDE DEF b
  <2>3. gr.preface > 0 => Counted(b)
    BY <1>0, <1>1, <2>2 DEF Sound, Counted
  <2>4. gr.preface > 0 => OneClaim(b)
    BY <1>0, <1>1, <2>2 DEF Sound, Counted, OneClaim
  <2> QED
    BY <2>1, <2>3, <2>4 DEF Sound
<1>5. c \in GroupRecord /\ c.key = gr.key /\ (gr.spare > 0 => Sound(c))
  BY <1>0, <1>1, <1>2 DEF Sound, Counted, OneClaim, GroupRecord
<1> QED
  BY <1>3, <1>4, <1>5 DEF ran

LEMMA AttemptStep ==
  ASSUME TypeInv, GroupInv, NEW g \in Groups, Attempt(g)
  PROVE  GroupInv'
<1>1. CASE Claim(g)
  BY <1>1, ClaimStep
<1>2. CASE AttemptFails(g)
  <2>1. PICK why \in {"failed", "cancelled"} :
          LET ran == [group[g] EXCEPT !.running = group[g].running - 1]
          IN \/ /\ group[g].dialing > 0
                /\ AttemptEnds(g, [ran EXCEPT !.dialing = ran.dialing - 1, !.err = why],
                               pool, lastUsed, conn, {})
             \/ /\ group[g].preface > 0
                /\ AttemptEnds(g, [ran EXCEPT !.preface = ran.preface - 1, !.err = why,
                                              !.claimed = FALSE],
                               pool, lastUsed, conn, {})
             \/ /\ group[g].spare > 0
                /\ AttemptEnds(g, [ran EXCEPT !.spare = ran.spare - 1],
                               pool, lastUsed, conn, {})
    BY <1>2 DEF AttemptFails
  <2> QED
    BY <2>1, FailedSound, EndStep
<1>3. CASE AttemptLate(g)
  <2>1. PICK p \in {"h1", "h2"}, c \in Conns :
          /\ Ready(g, p)
          /\ AttemptEnds(g, CameUp(g, p), pool, lastUsed,
                         [conn EXCEPT ![c] = NewConn(group[g].key, p)], {c})
    BY <1>3 DEF AttemptLate
  <2> QED
    BY <2>1, CameUpSound, EndStep
<1>4. CASE AttemptWins(g)
  <2>1. PICK c \in Conns :
          /\ Ready(g, "h2")
          /\ AttemptEnds(g, [CameUp(g, "h2") EXCEPT !.won = TRUE, !.cancelled = TRUE],
                         pool \cup {c}, Touched(c),
                         [conn EXCEPT ![c] = NewConn(group[g].key, "h2")], {})
    BY <1>4 DEF AttemptWins
  <2> QED
    BY <2>1, CameUpSound, EndStep
<1>5. CASE AttemptOrphaned(g)
  <2>1. PICK c \in Conns :
          /\ Ready(g, "h2")
          /\ AttemptEnds(g, CameUp(g, "h2"), pool, lastUsed,
                         [conn EXCEPT ![c] = [NewConn(group[g].key, "h2")
                                                EXCEPT !.st = "draining"]], {})
    BY <1>5 DEF AttemptOrphaned
  <2> QED
    BY <2>1, CameUpSound, EndStep
<1>6. CASE AttemptH1(g)
  <2>1. \E list, stamp, cs, drop : Ready(g, "h1")
                                     /\ AttemptEnds(g, CameUp(g, "h1"), list, stamp, cs, drop)
    BY <1>6 DEF AttemptH1
  <2> QED
    BY <2>1, CameUpSound, EndStep
<1> QED
  BY <1>1, <1>2, <1>3, <1>4, <1>5, <1>6 DEF Attempt

-----------------------------------------------------------------------------
(* The rest, and the theorems                                              *)

LEMMA GroupOutside ==
  ASSUME TypeInv, GroupInv,
         (\E c \in Conns : Closer(c) \/ Environment(c)) \/ UNCHANGED vars
  PROVE  GroupInv'
<1>1. group' = group /\ dialing' = dialing /\ req' = req
  BY DEF Closer, OrphanDone, OrphanTimeout, CloseDoomed, Environment, ServerGone, Goaway,
         Dropped, WatchFires, Expires, Forgotten, Fault, vars
<1> QED
  BY <1>1, UntouchedGroups

LEMMA GroupClose == ASSUME TypeInv, GroupInv, SessionClose PROVE GroupInv'
<1>1. \A gr \in GroupRecord : LET x == [gr EXCEPT !.cancelled = TRUE]
                              IN x.running = gr.running /\ x.key = gr.key
                                   /\ (Sound(gr) => Sound(x))
  BY DEF GroupRecord, Sound, Counted, OneClaim
<1>2. \A g \in Groups : group'[g] = group[g] \/ group'[g] = [group[g] EXCEPT !.cancelled = TRUE]
  BY DEF SessionClose
<1>3. \A g \in Groups :
        /\ Sound(group'[g]) /\ group'[g].running = group[g].running
        /\ group[g].running > 0 => group'[g].key = group[g].key
  BY <1>1, <1>2, GroupType DEF GroupInv
<1> QED
  BY <1>3, SteadyGroups DEF SessionClose

LEMMA GroupStep == TypeInv /\ GroupInv /\ [Next]_vars => GroupInv'
<1> SUFFICES ASSUME TypeInv, GroupInv, [Next]_vars PROVE GroupInv'
  OBVIOUS
<1>1. ASSUME NEW r \in Requests, Request(r) PROVE GroupInv'
  BY <1>1, PlainRequest, NothingStep, LeaveStep DEF PlainStep, Request, TakeConn, Lookup
<1>2. ASSUME NEW g \in Groups, Attempt(g) PROVE GroupInv'
  BY <1>2, AttemptStep
<1> QED
  BY <1>1, <1>2, GroupOutside, GroupClose DEF Next

LEMMA GroupInit == Init => GroupInv
BY NoGroupSound DEF Init, GroupInv, Linked, LooksToJoin, NoStrandedWaiter, Waits, NewReq

LEMMA GroupInvariant == Spec => []GroupInv
<1>1. Spec => []TypeInv
  BY InitType, TypeStep, PTL DEF Spec
<1> QED
  BY <1>1, GroupInit, GroupStep, PTL DEF Spec

(* No lost wake-up: a request that waits on a group has an attempt still to *)
(* come or has been woken (joinGroupLocked, dialAttempt, waitGroupLocked).  *)
THEOREM NobodyStranded == Spec => []NoStrandedWaiter
<1>1. GroupInv => NoStrandedWaiter
  BY DEF GroupInv
<1> QED
  BY <1>1, GroupInvariant, PTL

(* One preface per burst for a family that closes spares before it          *)
(* (dialGroup.claimed, spare in dialAttempt).                               *)
THEOREM SinglePreface == Spec => []OnePreface
<1>1. GroupInv => OnePreface
  BY DEF GroupInv, Sound, OneClaim, OnePreface
<1> QED
  BY <1>1, GroupInvariant, PTL
=============================================================================
