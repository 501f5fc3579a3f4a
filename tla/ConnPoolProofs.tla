-------------------------- MODULE ConnPoolProofs ----------------------------
(***************************************************************************)
(* Proofs about the connection pool, for every number of requests, keys,   *)
(* connections and attempts.                                               *)
(***************************************************************************)
EXTENDS ConnPool, FiniteSetTheorems, TLAPS

-----------------------------------------------------------------------------
(* Types                                                                   *)

(* What a request's place says about the rest of it.                        *)
WellPlaced ==
  \A r \in Requests :
    /\ req[r].pc \notin {"new", "done"} => req[r].key \in Keys
    /\ req[r].pc \in {"unwatch", "exchange", "body", "release", "released",
                      "closing", "evict"} => req[r].on \in Conns
    /\ req[r].pc = "wait" => req[r].grp \in Groups

TypeInv == TypeOK /\ WellPlaced

(* Ranks are natural numbers: the pool is a finite set.                     *)
LEMMA RankedType ==
  ASSUME NEW stamp, NEW P \in SUBSET Conns
  PROVE  Ranked(stamp, P) \in [Conns -> Nat]
<1>1. \A c \in Conns : {d \in P : stamp[d] <= stamp[c]} \subseteq Conns
  OBVIOUS
<1>2. \A S \in SUBSET Conns : Cardinality(S) \in Nat
  BY FS_Subset, FS_CardinalityType, ConstantsAssumption
<1> QED
  BY <1>1, <1>2 DEF Ranked

LEMMA RecordTypes ==
  /\ NoConn \in ConnRecord
  /\ NoGroup \in GroupRecord
  /\ NewReq \in ReqRecord
  /\ \A k \in Keys \cup {None}, p \in {"h1", "h2"} : NewConn(k, p) \in ConnRecord
  /\ \A why \in {"none", "ok", "dropped", "unprocessed", "other", "failed", "cancelled"} :
       /\ Ended(why) \in ReqRecord
       /\ Ended(why).pc = "done"
<1>1. NoConn \in ConnRecord
  BY DEF NoConn, ConnRecord
<1>2. NoGroup \in GroupRecord
  BY DEF NoGroup, GroupRecord
<1>3. NewReq \in ReqRecord
  BY DEF NewReq, ReqRecord
<1>4. \A k \in Keys \cup {None}, p \in {"h1", "h2"} : NewConn(k, p) \in ConnRecord
  BY <1>1 DEF NewConn, ConnRecord
<1>5. \A why \in {"none", "ok", "dropped", "unprocessed", "other", "failed", "cancelled"} :
        Ended(why) \in ReqRecord /\ Ended(why).pc = "done"
  BY <1>3 DEF Ended, ReqRecord
<1> QED
  BY <1>1, <1>2, <1>3, <1>4, <1>5

LEMMA Fields ==
  ASSUME TypeOK
  PROVE  /\ \A r \in Requests : req[r] \in ReqRecord
         /\ \A c \in Conns : conn[c] \in ConnRecord
         /\ \A g \in Groups : group[g] \in GroupRecord
BY DEF TypeOK

LEMMA AcquiredType ==
  ASSUME NEW cs \in [Conns -> ConnRecord], NEW c \in Conns
  PROVE  Acquired(cs, c) \in [Conns -> ConnRecord]
<1>1. cs[c].busy + 1 \in Int
  BY DEF ConnRecord
<1>2. cs[c] \in ConnRecord
  OBVIOUS
<1> QED
  BY <1>1, <1>2 DEF Acquired, ConnRecord

LEMMA WatchedType ==
  ASSUME NEW cs \in [Conns -> ConnRecord], NEW c \in Conns
  PROVE  Watched(cs, c) \in [Conns -> ConnRecord]
BY DEF Watched, ConnRecord

LEMMA ClosedType ==
  ASSUME NEW cs \in [Conns -> ConnRecord], NEW c \in Conns
  PROVE  Closed(cs, c) \in [Conns -> ConnRecord]
BY DEF Closed, ConnRecord

LEMMA WithWaiterType ==
  ASSUME NEW gr \in GroupRecord
  PROVE  WithWaiter(gr) \in GroupRecord
<1>1. /\ gr.waiting + 1 \in Int /\ gr.started + 1 \in Int
      /\ gr.running + 1 \in Int /\ gr.dialing + 1 \in Int
  BY DEF GroupRecord
<1> QED
  BY <1>1 DEF WithWaiter, GroupRecord

(* A waiting request, whatever it was before: the group is typed, and the   *)
(* request waits on it.                                                     *)
LEMMA JoinGroupType ==
  ASSUME TypeInv, NEW r \in Requests, JoinGroup(r), req[r].key \in Keys
  PROVE  /\ dialing' \in [Keys -> Groups \cup {None}]
         /\ group' \in [Groups -> GroupRecord]
         /\ req' \in [Requests -> ReqRecord]
         /\ WellPlaced'
<1>1. PICK g \in Groups :
        /\ dialing' = [dialing EXCEPT ![req[r].key] = g]
        /\ group' = [group EXCEPT ![g] = WithWaiter([@ EXCEPT !.key = req[r].key])]
        /\ req' = [req EXCEPT ![r].pc = "wait", ![r].grp = g, ![r].woken = FALSE]
  BY DEF JoinGroup
<1>2. req[r] \in ReqRecord /\ group[g] \in GroupRecord
  BY Fields DEF TypeInv
<1>3. [group[g] EXCEPT !.key = req[r].key] \in GroupRecord
  BY <1>2 DEF GroupRecord
<1>4. group' \in [Groups -> GroupRecord]
  BY <1>1, <1>3, WithWaiterType DEF TypeInv, TypeOK
<1>5. req' \in [Requests -> ReqRecord]
  BY <1>1, <1>2 DEF TypeInv, TypeOK, ReqRecord
<1>6. WellPlaced'
  BY <1>1 DEF TypeInv, TypeOK, WellPlaced, ReqRecord
<1> QED
  BY <1>1, <1>4, <1>5, <1>6 DEF TypeInv, TypeOK

(* A request that is handed a connection.                                   *)
LEMMA PickedType ==
  ASSUME TypeInv, NEW r \in Requests, NEW c \in Conns, req[r].pc = "conn",
         Picked(r, c)
  PROVE  /\ conn' \in [Conns -> ConnRecord]
         /\ req' \in [Requests -> ReqRecord]
         /\ WellPlaced'
<1>1. conn' \in [Conns -> ConnRecord]
  BY AcquiredType DEF Picked, TypeInv, TypeOK
<1>2. req[r] \in ReqRecord /\ conn[c] \in ConnRecord /\ req[r].key \in Keys
  BY Fields DEF TypeInv, WellPlaced
<1>3. conn[c].handed \in BOOLEAN
  BY <1>2 DEF ConnRecord
<1>4. PICK p \in {"unwatch", "exchange"} :
        req' = [req EXCEPT ![r].on = c, ![r].reused = conn[c].handed, ![r].pc = p]
  BY DEF Picked
<1>5. req' \in [Requests -> ReqRecord]
  BY <1>2, <1>3, <1>4 DEF TypeInv, TypeOK, ReqRecord
<1>6. WellPlaced'
  BY <1>2, <1>4 DEF TypeInv, TypeOK, WellPlaced
<1> QED
  BY <1>1, <1>5, <1>6

LEMMA InitType == Init => TypeInv
<1>1. ASSUME Init PROVE TypeOK
  <2>1. /\ conn \in [Conns -> ConnRecord]
        /\ group \in [Groups -> GroupRecord]
        /\ req \in [Requests -> ReqRecord]
    BY <1>1, RecordTypes DEF Init
  <2>2. 0 \in 0..MaxFaults
    BY ConstantsAssumption
  <2> QED
    BY <1>1, <2>1, <2>2 DEF Init, TypeOK
<1>2. Init => WellPlaced
  BY DEF Init, WellPlaced, NewReq
<1> QED
  BY <1>1, <1>2 DEF TypeInv

(* The requests' steps up to their connection.                              *)
LEMMA TakeType ==
  ASSUME TypeInv, NEW r \in Requests
  PROVE  Start(r) \/ TakeConn(r) \/ Lookup(r) => TypeInv'
<1> USE DEF TypeInv
<1>0. req[r] \in ReqRecord
  BY Fields
<1>1. CASE Start(r)
  <2>1. PICK k \in Keys, m \in {"pooled", "fresh", "pinned"} :
          req' = [req EXCEPT ![r].pc = "conn", ![r].key = k, ![r].mode = m]
    BY <1>1, ConstantsAssumption DEF Start
  <2>2. req' \in [Requests -> ReqRecord]
    BY <1>0, <2>1 DEF TypeOK, ReqRecord
  <2>3. WellPlaced'
    BY <2>1 DEF TypeOK, WellPlaced, ReqRecord
  <2> QED
    BY <1>1, <2>2, <2>3 DEF TypeOK, Start
<1>2. CASE ConnRefused(r)
  BY <1>2, RecordTypes DEF TypeOK, WellPlaced, ConnRefused
<1>3. CASE PickConn(r)
  <2>1. PICK swept \in {{}, Sweepable} :
          LET kept == pool \ swept
          IN \E c \in Pickable(req[r].key, kept) :
               /\ Picked(r, c)
               /\ pool' = kept
               /\ doomed' = doomed \cup swept
               /\ lastUsed' = Ranked(Touched(c), kept)
    BY <1>3 DEF PickConn
  <2>2. PICK c \in Pickable(req[r].key, pool \ swept) :
          /\ Picked(r, c)
          /\ pool' = pool \ swept
          /\ doomed' = doomed \cup swept
          /\ lastUsed' = Ranked(Touched(c), pool \ swept)
    BY <2>1
  <2>3. swept \subseteq Conns /\ pool \subseteq Conns /\ c \in Conns
    BY DEF TypeOK, Sweepable, Pickable, Own, Aliased
  <2>4. pool' \subseteq Conns /\ doomed' \subseteq Conns
    BY <2>2, <2>3 DEF TypeOK
  <2>5. lastUsed' \in [Conns -> Nat]
    BY <2>2, <2>3, RankedType
  <2>6. /\ conn' \in [Conns -> ConnRecord]
        /\ req' \in [Requests -> ReqRecord]
        /\ WellPlaced'
    BY <1>3, <2>2, <2>3, PickedType DEF PickConn
  <2> QED
    BY <1>3, <2>4, <2>5, <2>6 DEF TypeOK, PickConn
<1>4. CASE PickNothing(r)
  <2>1. PICK swept \in {{}, Sweepable} :
          /\ \/ aliases' = [aliases EXCEPT ![req[r].key] = None]
             \/ aliases' = aliases
          /\ pool' = pool \ swept
          /\ doomed' = doomed \cup swept
          /\ lastUsed' = Ranked(lastUsed, pool \ swept)
          /\ \/ /\ req' = [req EXCEPT ![r].pc = "dial"]
                /\ UNCHANGED <<dialing, group>>
             \/ /\ req' = [req EXCEPT ![r].pc = "lookup", ![r].looked = TRUE]
                /\ UNCHANGED <<dialing, group>>
             \/ JoinGroup(r)
    BY <1>4 DEF PickNothing
  <2>2. swept \subseteq Conns /\ pool \subseteq Conns
    BY DEF TypeOK, Sweepable
  <2>3. pool' \subseteq Conns /\ doomed' \subseteq Conns
    BY <2>1, <2>2 DEF TypeOK
  <2>4. lastUsed' \in [Conns -> Nat]
    BY <2>1, <2>2, RankedType
  <2>5. aliases' \in [Keys -> Conns \cup {None}]
    BY <2>1 DEF TypeOK
  <2>6. req[r].pc = "conn" /\ req[r].key \in Keys
    BY <1>4 DEF PickNothing, WellPlaced
  <2>7. /\ dialing' \in [Keys -> Groups \cup {None}]
        /\ group' \in [Groups -> GroupRecord]
        /\ req' \in [Requests -> ReqRecord]
        /\ WellPlaced'
    <3>1. CASE req' = [req EXCEPT ![r].pc = "dial"] /\ UNCHANGED <<dialing, group>>
      BY <1>0, <2>6, <3>1 DEF TypeOK, WellPlaced, ReqRecord
    <3>2. CASE /\ req' = [req EXCEPT ![r].pc = "lookup", ![r].looked = TRUE]
               /\ UNCHANGED <<dialing, group>>
      BY <1>0, <2>6, <3>2 DEF TypeOK, WellPlaced, ReqRecord
    <3>3. CASE JoinGroup(r)
      BY <2>6, <3>3, JoinGroupType
    <3> QED
      BY <2>1, <3>1, <3>2, <3>3
  <2> QED
    BY <1>4, <2>3, <2>4, <2>5, <2>7 DEF TypeOK, PickNothing
<1>5. CASE PinConn(r)
  <2>1. PICK c \in pool : Picked(r, c) /\ lastUsed' = Ranked(Touched(c), pool)
    BY <1>5 DEF PinConn
  <2>2. c \in Conns /\ pool \subseteq Conns
    BY DEF TypeOK
  <2>3. lastUsed' \in [Conns -> Nat]
    BY <2>1, <2>2, RankedType
  <2>4. /\ conn' \in [Conns -> ConnRecord]
        /\ req' \in [Requests -> ReqRecord]
        /\ WellPlaced'
    BY <1>5, <2>1, <2>2, PickedType DEF PinConn
  <2> QED
    BY <1>5, <2>3, <2>4 DEF TypeOK, PinConn
<1>6. CASE PinFails(r)
  BY <1>6, RecordTypes DEF TypeOK, WellPlaced, PinFails
<1>7. CASE LookupHit(r)
  BY <1>0, <1>7 DEF TypeOK, WellPlaced, LookupHit, ReqRecord
<1>8. CASE LookupMiss(r)
  BY <1>8, JoinGroupType DEF TypeOK, WellPlaced, LookupMiss
<1> QED
  BY <1>1, <1>2, <1>3, <1>4, <1>5, <1>6, <1>7, <1>8 DEF TakeConn, Lookup

(* The requests' waits and dials.                                           *)
LEMMA WaitType ==
  ASSUME TypeInv, NEW r \in Requests, WaitEnds(r) \/ GiveUp(r)
  PROVE  TypeInv'
<1> USE DEF TypeInv
<1>0. req[r] \in ReqRecord /\ req[r].grp \in Groups /\ group[req[r].grp] \in GroupRecord
  BY Fields DEF WellPlaced, WaitEnds, GiveUp
<1> DEFINE left == [group[req[r].grp] EXCEPT !.waiting = @ - 1]
<1>1. left \in GroupRecord
  <2>1. group[req[r].grp].waiting - 1 \in Int
    BY <1>0 DEF GroupRecord
  <2> QED
    BY <1>0, <2>1 DEF GroupRecord
<1>2. left.err \in {"none", "failed", "cancelled"}
  BY <1>1 DEF GroupRecord
<1>3. \A b \in BOOLEAN : Kept(left) \in GroupRecord
                     /\ Kept([left EXCEPT !.cancelled = b]) \in GroupRecord
  BY <1>1, RecordTypes DEF Kept, GroupRecord
<1>4. left.cancelled \in BOOLEAN /\ left.won \in BOOLEAN
  BY <1>1 DEF GroupRecord
<1> HIDE DEF left
<1>5. CASE WaitEnds(r)
  <2>1. group' = [group EXCEPT ![req[r].grp] = Kept(left)]
    BY <1>5 DEF WaitEnds, left
  <2>2. req' = [req EXCEPT ![r] =
                  IF ~left.won /\ left.running = 0 /\ left.err # "none"
                  THEN Ended(left.err)
                  ELSE [@ EXCEPT !.pc = "conn", !.grp = None, !.woken = FALSE]]
    BY <1>5 DEF WaitEnds, left
  <2>3. [req[r] EXCEPT !.pc = "conn", !.grp = None, !.woken = FALSE] \in ReqRecord
    BY <1>0 DEF ReqRecord
  <2>4. req' \in [Requests -> ReqRecord]
    BY <1>2, <2>2, <2>3, RecordTypes DEF TypeOK
  <2>5. req'[r].pc = "done" \/ (req'[r].pc = "conn" /\ req'[r].key = req[r].key)
    BY <1>0, <1>2, <2>2, RecordTypes DEF TypeOK, ReqRecord
  <2>6. WellPlaced'
    BY <1>5, <2>2, <2>5 DEF TypeOK, WellPlaced, WaitEnds
  <2> QED
    BY <1>0, <1>3, <1>5, <2>1, <2>4, <2>6 DEF TypeOK, WaitEnds
<1>6. CASE GiveUp(r)
  <2>1. group' = [group EXCEPT ![req[r].grp] =
                    Kept([left EXCEPT !.cancelled = @ \/ (left.waiting = 0 /\ ~left.won)])]
    BY <1>6 DEF GiveUp, left
  <2>2. group' \in [Groups -> GroupRecord]
    BY <1>0, <1>3, <1>4, <2>1 DEF TypeOK
  <2> QED
    BY <1>6, <2>2, RecordTypes DEF TypeOK, WellPlaced, GiveUp
<1> QED
  BY <1>5, <1>6

LEMMA DialType ==
  ASSUME TypeInv, NEW r \in Requests, OwnDial(r)
  PROVE  TypeInv'
<1> USE DEF TypeInv
<1>0. /\ req[r] \in ReqRecord /\ req[r].key \in Keys
      /\ Protos[req[r].key] \subseteq {"h1", "h2"}
  BY Fields, ConstantsAssumption
  DEF WellPlaced, OwnDial, DialFails, DialLate, DialRedundant, DialUp
<1>1. \A p \in {"h1", "h2"}, c \in Conns :
        [conn EXCEPT ![c] = NewConn(req[r].key, p)] \in [Conns -> ConnRecord]
  BY <1>0, RecordTypes DEF TypeOK
<1>2. CASE DialFails(r)
  <2>1. faults' \in 0..MaxFaults
    BY <1>2, ConstantsAssumption DEF TypeOK, DialFails, Breaks
  <2> QED
    BY <1>2, <2>1, RecordTypes DEF TypeOK, WellPlaced, DialFails
<1>3. CASE DialLate(r)
  BY <1>0, <1>1, <1>3, RecordTypes DEF TypeOK, WellPlaced, DialLate
<1>4. CASE DialRedundant(r)
  <2>1. PICK old \in Conns, c \in Conns :
          /\ conn' = Acquired([conn EXCEPT ![c] = NewConn(req[r].key, "h2")], old)
          /\ lastUsed' = Ranked(Touched(old), pool)
          /\ doomed' = doomed \cup {c}
          /\ req' = [req EXCEPT ![r].pc = "exchange", ![r].on = old, ![r].reused = TRUE]
    BY <1>4 DEF DialRedundant, Multiplexed, Pickable, Own, Aliased, TypeOK
  <2>2. req' \in [Requests -> ReqRecord]
    BY <1>0, <2>1 DEF TypeOK, ReqRecord
  <2>3. WellPlaced'
    BY <1>0, <2>1 DEF TypeOK, WellPlaced, ReqRecord
  <2> QED
    BY <1>1, <1>4, <2>1, <2>2, <2>3, AcquiredType, RankedType DEF TypeOK, DialRedundant
<1>5. CASE DialUp(r)
  <2>1. PICK p \in Protos[req[r].key], c \in Conns :
          LET cs == Acquired([conn EXCEPT ![c] = NewConn(req[r].key, p)], c)
              room == Cardinality({d \in pool : conn[d].key = req[r].key}) < MaxConnsPerHost
              list == IF KeepAlive /\ (p = "h2" \/ room) THEN pool \cup {c} ELSE pool
              over == OverLimit(list, Touched(c), cs)
          IN /\ conn' = cs
             /\ pool' = list \ over
             /\ lastUsed' = Ranked(Touched(c), list \ over)
             /\ doomed' = doomed \cup over
             /\ req' = [req EXCEPT ![r].pc = "exchange", ![r].on = c, ![r].reused = FALSE]
    BY <1>5 DEF DialUp
  <2>2. req' \in [Requests -> ReqRecord]
    BY <1>0, <2>1 DEF TypeOK, ReqRecord
  <2>3. WellPlaced'
    BY <1>0, <2>1 DEF TypeOK, WellPlaced, ReqRecord
  <2>4. conn' \in [Conns -> ConnRecord]
    BY <1>0, <1>1, <2>1, AcquiredType
  <2>5. pool' \in SUBSET Conns /\ doomed' \in SUBSET Conns
    BY <2>1 DEF TypeOK, OverLimit
  <2>6. lastUsed' \in [Conns -> Nat]
    BY <2>1, <2>5, RankedType
  <2>7. aliases' \in [Keys -> Conns \cup {None}]
    BY <1>5 DEF TypeOK, DialUp
  <2> QED
    BY <1>5, <2>2, <2>3, <2>4, <2>5, <2>6, <2>7 DEF TypeOK, DialUp
<1> QED
  BY <1>2, <1>3, <1>4, <1>5 DEF OwnDial

(* The requests' exchanges, and what they give back.                        *)
LEMMA ExchangeType ==
  ASSUME TypeInv, NEW r \in Requests,
         EndIdleWatch(r) \/ HandBack(r) \/ Exchange(r) \/ Body(r)
  PROVE  TypeInv'
<1> USE DEF TypeInv
<1>0. /\ req[r] \in ReqRecord /\ req[r].on \in Conns
      /\ conn[req[r].on] \in ConnRecord
  BY Fields
  DEF WellPlaced, EndIdleWatch, HandBack, Exchange, Respond, ExchangeFails, Body,
      CloseBody, DrainOverflow
<1>1. CASE EndIdleWatch(r)
  <2>1. [req[r] EXCEPT !.pc = "conn", !.on = None] \in ReqRecord
    BY <1>0 DEF ReqRecord
  <2>a. [req[r] EXCEPT !.pc = "exchange"] \in ReqRecord
    BY <1>0 DEF ReqRecord
  <2>b. PICK x \in {[req[r] EXCEPT !.pc = "exchange"],
                    [req[r] EXCEPT !.pc = "conn", !.on = None], Ended("failed")} :
          req' = [req EXCEPT ![r] = x]
    BY <1>0, <1>1 DEF EndIdleWatch, TypeOK
  <2>2. req' \in [Requests -> ReqRecord]
    BY <2>1, <2>a, <2>b, RecordTypes DEF TypeOK
  <2>c. /\ x.pc \in {"exchange", "conn", "done"}
        /\ x.pc # "done" => x.key = req[r].key
        /\ x.pc = "exchange" => x.on = req[r].on
    <3>1. CASE x = [req[r] EXCEPT !.pc = "exchange"]
      BY <1>0, <3>1 DEF ReqRecord
    <3>2. CASE x = [req[r] EXCEPT !.pc = "conn", !.on = None]
      BY <1>0, <3>2 DEF ReqRecord
    <3>3. CASE x = Ended("failed")
      BY <3>3, RecordTypes
    <3> QED
      BY <2>b, <3>1, <3>2, <3>3
  <2>3. WellPlaced'
    <3>1. req[r].key \in Keys
      BY <1>1 DEF WellPlaced, EndIdleWatch
    <3>2. req'[r] = x /\ \A s \in Requests : s # r => req'[s] = req[s]
      BY <2>b DEF TypeOK
    <3> QED
      BY <1>0, <2>c, <3>1, <3>2 DEF WellPlaced
  <2>4. PICK w \in {"off", "on", "taken"}, st \in {"open", "gone", "draining", "dead", "closed", "free"} :
          conn' = [conn EXCEPT ![req[r].on].watch = w, ![req[r].on].st = st]
    BY <1>0, <1>1 DEF EndIdleWatch, ConnRecord, Usable
  <2>5. conn' \in [Conns -> ConnRecord]
    BY <1>0, <2>4 DEF TypeOK, ConnRecord
  <2> QED
    BY <1>0, <1>1, <2>2, <2>3, <2>5, RankedType DEF TypeOK, EndIdleWatch
<1>2. CASE HandBack(r)
  <2>1. req' \in [Requests -> ReqRecord]
    BY <1>0, <1>2 DEF TypeOK, HandBack, ReqRecord
  <2> QED
    BY <1>0, <1>2, <2>1 DEF TypeOK, HandBack, WellPlaced, ReqRecord
<1>3. CASE Respond(r)
  <2>1. req' \in [Requests -> ReqRecord]
    BY <1>0, <1>3 DEF TypeOK, Respond, ReqRecord
  <2>2. conn' \in [Conns -> ConnRecord]
    <3>1. conn' = conn \/ conn' = [conn EXCEPT ![req[r].on].st = "draining"]
      BY <1>3 DEF Respond
    <3>2. [conn EXCEPT ![req[r].on].st = "draining"] \in [Conns -> ConnRecord]
      BY <1>0 DEF TypeOK, ConnRecord
    <3> QED
      BY <3>1, <3>2 DEF TypeOK
  <2>3. WellPlaced'
    BY <1>0, <1>3 DEF TypeOK, Respond, WellPlaced, ReqRecord
  <2> QED
    BY <1>3, <2>1, <2>2, <2>3 DEF TypeOK, Respond
<1>4. CASE ExchangeFails(r)
  <2>1. PICK why \in {"dropped", "unprocessed", "other"} :
          req' = [req EXCEPT ![r].pc = "release", ![r].end = why]
    BY <1>4 DEF ExchangeFails
  <2>a. req[r].key \in Keys
    BY <1>4 DEF ExchangeFails, WellPlaced
  <2>2. req' \in [Requests -> ReqRecord]
    BY <1>0, <2>1 DEF TypeOK, ReqRecord
  <2>3. conn' \in [Conns -> ConnRecord]
    BY <1>0, <1>4 DEF TypeOK, ExchangeFails, ConnRecord
  <2>4. WellPlaced'
    BY <1>0, <2>1, <2>a DEF TypeOK, WellPlaced, ReqRecord
  <2>5. faults' \in 0..MaxFaults
    <3>1. faults' = faults \/ (faults < MaxFaults /\ faults' = faults + 1)
      BY <1>4 DEF ExchangeFails
    <3> QED
      BY <1>0, <3>1, ConstantsAssumption DEF TypeOK
  <2> QED
    BY <1>4, <2>2, <2>3, <2>4, <2>5 DEF TypeOK, ExchangeFails
<1>5. CASE CloseBody(r)
  <2>1. req' \in [Requests -> ReqRecord]
    BY <1>0, <1>5 DEF TypeOK, CloseBody, ReqRecord
  <2>2. conn' \in [Conns -> ConnRecord]
    BY <1>0, <1>5, ClosedType DEF TypeOK, CloseBody
  <2>3. WellPlaced'
    BY <1>0, <1>5 DEF TypeOK, CloseBody, WellPlaced, ReqRecord
  <2> QED
    BY <1>5, <2>1, <2>2, <2>3 DEF TypeOK, CloseBody
<1>6. CASE DrainOverflow(r)
  <2>1. req' \in [Requests -> ReqRecord]
    BY <1>0, <1>6 DEF TypeOK, DrainOverflow, ReqRecord
  <2>2. WellPlaced'
    BY <1>0, <1>6 DEF TypeOK, DrainOverflow, WellPlaced, ReqRecord
  <2> QED
    BY <1>0, <1>6, <2>1, <2>2, ClosedType, RankedType DEF TypeOK, DrainOverflow
<1> QED
  BY <1>1, <1>2, <1>3, <1>4, <1>5, <1>6 DEF Exchange, Body

LEMMA GiveBackType ==
  ASSUME TypeInv, NEW r \in Requests, GiveBack(r)
  PROVE  TypeInv'
<1> USE DEF TypeInv
<1>0. /\ req[r] \in ReqRecord /\ req[r].on \in Conns /\ req[r].key \in Keys
      /\ conn[req[r].on] \in ConnRecord
  BY Fields DEF WellPlaced, GiveBack, Release, Released, ReleaseCloses, Evict
<1>1. AfterRelease(r) \in [Requests -> ReqRecord]
  BY <1>0, RecordTypes DEF TypeOK, AfterRelease, ReqRecord
<1>2. /\ AfterRelease(r)[r].pc \in {"done", "evict"}
      /\ AfterRelease(r)[r].pc = "evict" =>
           AfterRelease(r)[r].on = req[r].on /\ AfterRelease(r)[r].key = req[r].key
      /\ \A s \in Requests : s # r => AfterRelease(r)[s] = req[s]
  BY <1>0, RecordTypes DEF TypeOK, AfterRelease, ReqRecord
<1>3. req' = AfterRelease(r) => WellPlaced'
  BY <1>0, <1>2 DEF WellPlaced
<1>4. CASE Release(r)
  <2>1. conn[req[r].on].busy - 1 \in Int
    BY <1>0 DEF ConnRecord
  <2>2. conn' \in [Conns -> ConnRecord]
    BY <1>0, <1>4, <2>1 DEF TypeOK, Release, ConnRecord
  <2>3. req' = [req EXCEPT ![r].pc = "released"] => req' \in [Requests -> ReqRecord]
    BY <1>0 DEF TypeOK, ReqRecord
  <2>4. req' = [req EXCEPT ![r].pc = "released"] => WellPlaced'
    BY <1>0 DEF TypeOK, WellPlaced, ReqRecord
  <2> QED
    BY <1>1, <1>3, <1>4, <2>2, <2>3, <2>4 DEF TypeOK, Release
<1>5. CASE Released(r)
  <2>1. [conn EXCEPT ![req[r].on].expired = FALSE] \in [Conns -> ConnRecord]
    BY <1>0 DEF TypeOK, ConnRecord
  <2>2. req' = [req EXCEPT ![r].pc = "closing"] => req' \in [Requests -> ReqRecord]
    BY <1>0 DEF TypeOK, ReqRecord
  <2>3. req' = [req EXCEPT ![r].pc = "closing"] => WellPlaced'
    BY <1>0 DEF TypeOK, WellPlaced, ReqRecord
  <2>4. req' \in [Requests -> ReqRecord] /\ WellPlaced'
    BY <1>1, <1>3, <1>5, <2>2, <2>3 DEF Released
  <2>5. conn' \in [Conns -> ConnRecord] /\ lastUsed' \in [Conns -> Nat]
    <3>1. conn' \in {conn, Watched([conn EXCEPT ![req[r].on].expired = FALSE], req[r].on)}
      BY <1>5 DEF Released
    <3>2. lastUsed' \in {lastUsed, Ranked(Touched(req[r].on), pool)}
      BY <1>5 DEF Released
    <3>a. Watched([conn EXCEPT ![req[r].on].expired = FALSE], req[r].on)
            \in [Conns -> ConnRecord]
      BY <1>0, <2>1, WatchedType
    <3>3. conn' \in [Conns -> ConnRecord]
      BY <3>1, <3>a DEF TypeOK
    <3> QED
      BY <3>2, <3>3, RankedType DEF TypeOK
  <2> QED
    BY <1>5, <2>4, <2>5 DEF TypeOK, Released
<1>6. CASE ReleaseCloses(r)
  BY <1>0, <1>1, <1>3, <1>6, ClosedType DEF TypeOK, ReleaseCloses
<1>7. CASE Evict(r)
  <2> DEFINE again == [NewReq EXCEPT !.pc = "conn", !.key = req[r].key, !.mode = "resend"]
  <2>a. NewReq \in ReqRecord
    BY RecordTypes
  <2>c. again.pc = "conn" /\ again.key \in Keys
    BY <1>0 DEF NewReq
  <2>1. again \in ReqRecord
    <3>1. \A k \in Keys :
            [NewReq EXCEPT !.pc = "conn", !.key = k, !.mode = "resend"] \in ReqRecord
      BY <2>a DEF ReqRecord
    <3> QED
      BY <1>0, <3>1
  <2>b. PICK x \in {again, Ended("failed")} : req' = [req EXCEPT ![r] = x]
    BY <1>7 DEF Evict
  <2> HIDE DEF again
  <2>2. req' \in [Requests -> ReqRecord] /\ WellPlaced'
    BY <2>1, <2>b, <2>c, RecordTypes DEF TypeOK, WellPlaced
  <2>3. conn' \in [Conns -> ConnRecord]
    BY <1>0, <1>7 DEF TypeOK, Evict, ConnRecord
  <2> QED
    BY <1>0, <1>7, <2>2, <2>3, RankedType DEF TypeOK, Evict
<1> QED
  BY <1>4, <1>5, <1>6, <1>7 DEF GiveBack

(* The attempts: what AttemptEnds makes of typed arguments is typed.        *)
LEMMA AttemptEndsType ==
  ASSUME TypeInv, NEW g \in Groups, NEW ran \in GroupRecord, NEW list \in SUBSET Conns,
         NEW stamp, NEW cs \in [Conns -> ConnRecord], NEW drop \in SUBSET Conns,
         AttemptEnds(g, ran, list, stamp, cs, drop),
         closed' = closed, aliases' = aliases, orphans' \subseteq Conns,
         faults' \in 0..MaxFaults
  PROVE  TypeInv'
<1> USE DEF TypeInv
<1>1. OverLimit(list, stamp, cs) \subseteq Conns
  BY DEF OverLimit
<1>2. pool' \subseteq Conns /\ doomed' \subseteq Conns /\ lastUsed' \in [Conns -> Nat]
  BY <1>1, RankedType DEF AttemptEnds, TypeOK
<1>3. dialing' \in [Keys -> Groups \cup {None}]
  BY DEF AttemptEnds, TypeOK
<1>4. \A b \in BOOLEAN : Kept([ran EXCEPT !.cancelled = b]) \in GroupRecord
  BY RecordTypes DEF Kept, GroupRecord
<1>5. group' \in [Groups -> GroupRecord]
  <2>1. (ran.cancelled \/ ran.running = 0) \in BOOLEAN
    BY DEF GroupRecord
  <2> QED
    BY <1>4, <2>1 DEF AttemptEnds, TypeOK
<1>6. \A x \in ReqRecord : [x EXCEPT !.woken = TRUE] \in ReqRecord
  BY DEF ReqRecord
<1>7. req' \in [Requests -> ReqRecord]
  BY <1>6 DEF AttemptEnds, TypeOK
<1>8. \A r \in Requests : /\ req'[r].pc = req[r].pc /\ req'[r].key = req[r].key
                        /\ req'[r].on = req[r].on /\ req'[r].grp = req[r].grp
  <2>1. \A x \in ReqRecord : LET y == [x EXCEPT !.woken = TRUE]
                           IN y.pc = x.pc /\ y.key = x.key /\ y.on = x.on /\ y.grp = x.grp
    BY DEF ReqRecord
  <2> QED
    BY <2>1, Fields DEF AttemptEnds
<1>9. WellPlaced'
  BY <1>8 DEF WellPlaced
<1> QED
  BY <1>2, <1>3, <1>5, <1>7, <1>9 DEF AttemptEnds, TypeOK

LEMMA CameUpType ==
  ASSUME NEW g \in Groups, NEW p, group[g] \in GroupRecord
  PROVE  /\ CameUp(g, p) \in GroupRecord
         /\ [CameUp(g, p) EXCEPT !.won = TRUE, !.cancelled = TRUE] \in GroupRecord
<1>1. /\ group[g].preface - 1 \in Int /\ group[g].dialing - 1 \in Int
      /\ group[g].running - 1 \in Int
  BY DEF GroupRecord
<1>2. CameUp(g, p) \in GroupRecord
  BY <1>1 DEF CameUp, GroupRecord
<1>3. \A x \in GroupRecord : [x EXCEPT !.won = TRUE, !.cancelled = TRUE] \in GroupRecord
  BY DEF GroupRecord
<1> QED
  BY <1>2, <1>3

LEMMA AttemptType ==
  ASSUME TypeInv, NEW g \in Groups
  PROVE  Attempt(g) => TypeInv'
<1> USE DEF TypeInv
<1>0. /\ group[g] \in GroupRecord /\ group[g].key \in Keys \cup {None}
      /\ group[g].preface - 1 \in Int /\ group[g].dialing - 1 \in Int
      /\ group[g].spare - 1 \in Int /\ group[g].running - 1 \in Int
      /\ group[g].preface + 1 \in Int /\ group[g].spare + 1 \in Int
  BY Fields DEF GroupRecord
<1>a. \A p \in {"h1", "h2"}, c \in Conns :
        [conn EXCEPT ![c] = NewConn(group[g].key, p)] \in [Conns -> ConnRecord]
  BY <1>0, RecordTypes DEF TypeOK
<1>b. /\ pool \in SUBSET Conns /\ conn \in [Conns -> ConnRecord]
      /\ \A c \in Conns : {c} \in SUBSET Conns
      /\ \A p : CameUp(g, p) \in GroupRecord
      /\ [CameUp(g, "h2") EXCEPT !.won = TRUE, !.cancelled = TRUE] \in GroupRecord
      /\ {} \in SUBSET Conns
      /\ \A p \in {"h1", "h2"}, c \in Conns :
           [conn EXCEPT ![c] = NewConn(group[g].key, p)] \in [Conns -> ConnRecord]
  BY <1>0, <1>a, CameUpType DEF TypeOK
<1>1. CASE Claim(g)
  <2> DEFINE spared == [group[g] EXCEPT !.dialing = @ - 1, !.spare = @ + 1]
             claims == [group[g] EXCEPT !.dialing = @ - 1, !.preface = @ + 1,
                                        !.claimed = TRUE]
  <2>1. group' = [group EXCEPT ![g] = IF group[g].won \/ group[g].claimed
                                      THEN spared ELSE claims]
    BY <1>1 DEF Claim
  <2>2. spared \in GroupRecord /\ claims \in GroupRecord
    BY <1>0 DEF GroupRecord
  <2> HIDE DEF spared, claims
  <2>4. group' \in [Groups -> GroupRecord]
    BY <2>1, <2>2 DEF TypeOK
  <2> QED
    BY <1>1, <2>4 DEF TypeOK, WellPlaced, Claim
<1>2. CASE AttemptFails(g)
  <2> DEFINE why == IF group[g].cancelled THEN "cancelled" ELSE "failed"
             ran == [group[g] EXCEPT !.running = @ - 1]
  <2>1. PICK out \in {[ran EXCEPT !.dialing = @ - 1, !.err = why],
                     [ran EXCEPT !.preface = @ - 1, !.err = why, !.claimed = FALSE],
                     [ran EXCEPT !.spare = @ - 1]} :
          AttemptEnds(g, out, pool, lastUsed, conn, {})
    BY <1>2 DEF AttemptFails
  <2>2. why \in {"cancelled", "failed"}
    OBVIOUS
  <2>3. ran \in GroupRecord /\ ran.dialing = group[g].dialing
        /\ ran.preface = group[g].preface /\ ran.spare = group[g].spare
    BY <1>0 DEF GroupRecord
  <2>4. faults' \in 0..MaxFaults
    BY <1>2, ConstantsAssumption DEF TypeOK, AttemptFails, Breaks
  <2> HIDE DEF why, ran
  <2>5. /\ ran.dialing - 1 \in Int /\ ran.preface - 1 \in Int /\ ran.spare - 1 \in Int
    BY <1>0, <2>3
  <2>6. [ran EXCEPT !.dialing = @ - 1, !.err = why] \in GroupRecord
    BY <2>2, <2>3, <2>5 DEF GroupRecord
  <2>7. [ran EXCEPT !.preface = @ - 1, !.err = why, !.claimed = FALSE] \in GroupRecord
    BY <2>2, <2>3, <2>5 DEF GroupRecord
  <2>8. [ran EXCEPT !.spare = @ - 1] \in GroupRecord
    BY <2>3, <2>5 DEF GroupRecord
  <2>9. out \in GroupRecord
    BY <2>1, <2>6, <2>7, <2>8
  <2>10. closed' = closed /\ aliases' = aliases /\ orphans' \subseteq Conns
    BY <1>2 DEF AttemptFails, TypeOK
  <2>11. pool \in SUBSET Conns /\ conn \in [Conns -> ConnRecord]
    BY DEF TypeOK
  <2> QED
    BY <2>1, <2>4, <2>9, <2>10, <2>11, AttemptEndsType
<1>3. CASE AttemptLate(g)
  <2>1. PICK p \in {"h1", "h2"}, c \in Conns :
          AttemptEnds(g, CameUp(g, p), pool, lastUsed,
                      [conn EXCEPT ![c] = NewConn(group[g].key, p)], {c})
    BY <1>3 DEF AttemptLate
  <2>2. closed' = closed /\ aliases' = aliases /\ orphans' \subseteq Conns
        /\ faults' \in 0..MaxFaults
    BY <1>3 DEF AttemptLate, TypeOK
  <2> QED
    BY <1>b, <2>1, <2>2, AttemptEndsType
<1>4. CASE AttemptWins(g)
  <2>1. PICK c \in Conns :
          AttemptEnds(g, [CameUp(g, "h2") EXCEPT !.won = TRUE, !.cancelled = TRUE],
                      pool \cup {c}, Touched(c),
                      [conn EXCEPT ![c] = NewConn(group[g].key, "h2")], {})
    BY <1>4 DEF AttemptWins
  <2>2. closed' = closed /\ aliases' = aliases /\ orphans' \subseteq Conns
        /\ faults' \in 0..MaxFaults
    BY <1>4 DEF AttemptWins, TypeOK
  <2>3. pool \cup {c} \in SUBSET Conns
    BY <1>b
  <2> QED
    BY <1>b, <2>1, <2>2, <2>3, AttemptEndsType
<1>5. CASE AttemptOrphaned(g)
  <2>1. PICK c \in Conns :
          /\ orphans' = orphans \cup {c}
          /\ AttemptEnds(g, CameUp(g, "h2"), pool, lastUsed,
                         [conn EXCEPT ![c] = [NewConn(group[g].key, "h2")
                                                EXCEPT !.st = "draining"]], {})
    BY <1>5 DEF AttemptOrphaned
  <2>2. \A x \in ConnRecord : [x EXCEPT !.st = "draining"] \in ConnRecord
    BY DEF ConnRecord
  <2>3. [conn EXCEPT ![c] = [NewConn(group[g].key, "h2") EXCEPT !.st = "draining"]]
          \in [Conns -> ConnRecord]
    BY <1>0, <2>2, RecordTypes DEF TypeOK
  <2>4. closed' = closed /\ aliases' = aliases /\ orphans' \subseteq Conns
        /\ faults' \in 0..MaxFaults
    BY <1>5, <2>1 DEF AttemptOrphaned, TypeOK
  <2> QED
    BY <1>b, <2>1, <2>3, <2>4, AttemptEndsType
<1>6. CASE AttemptH1(g)
  <2>1. PICK c \in Conns :
          LET k == group[g].key
              cs == [conn EXCEPT ![c] = NewConn(k, "h1")]
          IN \/ AttemptEnds(g, CameUp(g, "h1"), pool \cup {c}, Touched(c), Watched(cs, c), {})
             \/ AttemptEnds(g, CameUp(g, "h1"), pool, lastUsed, cs, {c})
    BY <1>6 DEF AttemptH1
  <2>2. Watched([conn EXCEPT ![c] = NewConn(group[g].key, "h1")], c) \in [Conns -> ConnRecord]
    BY <1>a, WatchedType
  <2>3. closed' = closed /\ aliases' = aliases /\ orphans' \subseteq Conns
        /\ faults' \in 0..MaxFaults
    BY <1>6 DEF AttemptH1, TypeOK
  <2>4. pool \cup {c} \in SUBSET Conns /\ {c} \in SUBSET Conns
    BY <1>b
  <2> QED
    BY <1>a, <1>b, <2>1, <2>2, <2>3, <2>4, AttemptEndsType
<1> QED
  BY <1>1, <1>2, <1>3, <1>4, <1>5, <1>6 DEF Attempt

LEMMA OutsideType ==
  ASSUME TypeInv, NEW c \in Conns
  PROVE  Closer(c) \/ Environment(c) => TypeInv'
<1> USE DEF TypeInv
<1>0. conn[c] \in ConnRecord
  BY Fields
<1>1. \A st \in {"gone", "draining", "dead"} :
        [conn EXCEPT ![c].st = st] \in [Conns -> ConnRecord]
  BY <1>0 DEF TypeOK, ConnRecord
<1>2. [conn EXCEPT ![c].expired = TRUE] \in [Conns -> ConnRecord]
  BY <1>0 DEF TypeOK, ConnRecord
<1>3. \A cs, where : Fault(where, cs) => faults' \in 0..MaxFaults
  BY ConstantsAssumption DEF TypeOK, Fault
<1>4. CASE Closer(c)
  BY <1>4, ClosedType
  DEF TypeOK, WellPlaced, Closer, OrphanDone, OrphanTimeout, CloseDoomed
<1>5. CASE ServerGone(c) \/ Goaway(c) \/ Dropped(c)
  <2>1. \E st \in {"gone", "draining", "dead"} : Fault("server", [conn EXCEPT ![c].st = st])
    BY <1>5 DEF ServerGone, Goaway, Dropped
  <2> QED
    BY <1>1, <1>3, <2>1 DEF TypeOK, WellPlaced, Fault
<1>6. CASE WatchFires(c)
  BY <1>1, <1>6 DEF TypeOK, WellPlaced, WatchFires
<1>7. CASE Expires(c)
  BY <1>2, <1>3, <1>7 DEF TypeOK, WellPlaced, Expires, Fault
<1>8. CASE Forgotten(c)
  BY <1>8, RecordTypes DEF TypeOK, WellPlaced, Forgotten
<1> QED
  BY <1>4, <1>5, <1>6, <1>7, <1>8 DEF Environment

LEMMA SessionCloseType ==
  ASSUME TypeInv, SessionClose
  PROVE  TypeInv'
<1>1. \A x \in GroupRecord : [x EXCEPT !.cancelled = TRUE] \in GroupRecord
  BY DEF GroupRecord
<1>2. group' \in [Groups -> GroupRecord]
  BY <1>1 DEF TypeInv, TypeOK, SessionClose
<1>3. lastUsed' \in [Conns -> Nat]
  BY RankedType DEF SessionClose
<1> QED
  BY <1>2, <1>3 DEF TypeInv, TypeOK, WellPlaced, SessionClose

LEMMA TypeStep == TypeInv /\ [Next]_vars => TypeInv'
<1> SUFFICES ASSUME TypeInv, [Next]_vars PROVE TypeInv'
  OBVIOUS
<1>1. ASSUME NEW r \in Requests, Request(r) PROVE TypeInv'
  BY <1>1, TakeType, WaitType, DialType, ExchangeType, GiveBackType DEF Request
<1>2. CASE UNCHANGED vars
  BY <1>2 DEF vars, TypeInv, TypeOK, WellPlaced
<1> QED
  BY <1>1, <1>2, AttemptType, OutsideType, SessionCloseType DEF Next

(* Every record of the pool, its groups and its requests keeps its type:    *)
(* the variables of Session.mu and of conn.                                 *)
THEOREM TypeCorrect == Spec => []TypeOK
<1>1. Spec => []TypeInv
  BY InitType, TypeStep, PTL DEF Spec
<1>2. TypeInv => TypeOK
  BY DEF TypeInv
<1> QED
  BY <1>1, <1>2, PTL
=============================================================================
