-------------------------- MODULE RequestPathProofs -------------------------
(***************************************************************************)
(* EveryConnectionOwned and NoBlindRepeat for any number of requests, any  *)
(* policy and any bounds.  Neither is inductive: what a request may own    *)
(* depends on where it stands, and so does what may have come of its POST. *)
(* Then the dials through proxies that its connections come from, and the  *)
(* reading of the responses that go out to the caller.                     *)
(***************************************************************************)
EXTENDS RequestPath, ProxyDial, BodyReader, FiniteSetTheorems, SequenceTheorems, TLAPS

(* Where a request stands, and the connections it may own there.  A race    *)
(* owns what its TCP job brought up; an exchange over TCP owns its          *)
(* connection; a response is held only while a retry is decided.            *)
HoldsByPlace(rec) ==
  /\ rec.pc # "race" => rec.tcp = "off"
  /\ rec.pc \notin {"trip", "answer", "final", "handed"} => rec.conn = "none"
  /\ rec.pc = "trip" => rec.conn # "none"
  /\ rec.pc \notin {"failed", "backoff"} => rec.held = "none"

(* A POST in doubt has failed, with nothing held and no word that it was    *)
(* not processed: what doStream must see to end it there.                   *)
DoubtIsFailed(rec) ==
  rec.acted = "net" =>
    rec.pc = "failed" /\ rec.held = "none" /\ ~rec.unprocessed /\ rec.kind # "get"

(* A POST that died on a kept connection goes again on a new one, within    *)
(* the hop.                                                                 *)
KeptIsFresh(rec) ==
  /\ rec.fresh => rec.conn # "kept"
  /\ rec.acted = "kept" => rec.fresh /\ rec.kind # "get" /\ ~rec.turned /\ rec.pc # "hop"

(* A streamed body that may still be sent has not been; it is not raced and *)
(* its request is never tried again.                                        *)
StreamedOnce(rec) ==
  /\ rec.bodies <= 1
  /\ rec.kind = "upload" => rec.pc # "backoff"
  /\ rec.kind = "upload" /\ ~rec.turned =>
       /\ rec.pc \notin {"race", "h3"}
       /\ rec.pc \in {"hop", "send", "dial", "trip"} => rec.bodies = 0

(* And a retry is waited for only while there are attempts left.            *)
Fit(rec) == /\ HoldsByPlace(rec) /\ DoubtIsFailed(rec) /\ KeptIsFresh(rec) /\ StreamedOnce(rec)
            /\ rec.pc = "backoff" => rec.attempt < Attempts

RPInv ==
  /\ RPTypes
  /\ \A i \in Requests : Fit(r[i])
  /\ EveryConnectionOwned

-----------------------------------------------------------------------------
(* Counting owners                                                         *)

(* Two sets that differ in whether i is in them.                            *)
LEMMA OneChange ==
  ASSUME NEW P, NEW Q, NEW i, IsFiniteSet(P), P \ {i} = Q \ {i}
  PROVE  /\ IsFiniteSet(Q) /\ Cardinality(P) \in Nat /\ Cardinality(Q) \in Nat
         /\ Cardinality(Q) = Cardinality(P) - (IF i \in P THEN 1 ELSE 0)
                                            + (IF i \in Q THEN 1 ELSE 0)
<1>. DEFINE R == P \ {i}
<1>1. /\ IsFiniteSet(R)
      /\ Cardinality(R) = Cardinality(P) - (IF i \in P THEN 1 ELSE 0)
      /\ Cardinality(P) \in Nat /\ Cardinality(R) \in Nat
  <2>1. IsFiniteSet(R) BY FS_RemoveElement
  <2>2. Cardinality(P) \in Nat /\ Cardinality(R) \in Nat BY <2>1, FS_CardinalityType
  <2>. QED BY <2>1, <2>2, FS_RemoveElement
<1>2. CASE i \in Q
  <2>1. Q = R \cup {i} /\ i \notin R BY <1>2
  <2>. HIDE DEF R
  <2>. QED BY <1>1, <1>2, <2>1, FS_AddElement
<1>3. CASE i \notin Q
  <2>1. Q = R BY <1>3
  <2>. HIDE DEF R
  <2>. QED BY <1>1, <1>3, <2>1
<1>. QED BY <1>2, <1>3

(* The connections a request owns.                                          *)
OwnsOf(rec) == (IF rec.conn # "none" THEN 1 ELSE 0) + (IF rec.held = "tcp" THEN 1 ELSE 0)
               + (IF rec.tcp = "up" THEN 1 ELSE 0)

Owners == Cardinality(OnHop) + Cardinality(OfHeld) + Cardinality(OfRace)

(* The sets of owners are finite.                                           *)
LEMMA OwnersAreCounted ==
  /\ IsFiniteSet(OnHop) /\ IsFiniteSet(OfHeld) /\ IsFiniteSet(OfRace)
  /\ Cardinality(OnHop) \in Nat /\ Cardinality(OfHeld) \in Nat /\ Cardinality(OfRace) \in Nat
<1>1. IsFiniteSet(OnHop) /\ IsFiniteSet(OfHeld) /\ IsFiniteSet(OfRace)
  BY RequestPathAssumption, FS_Subset DEF OnHop, OfHeld, OfRace
<1>. QED BY <1>1, FS_CardinalityType

LEMMA OwnersCount ==
  ASSUME NEW i \in Requests, NEW rec, r \in [Requests -> RequestRecord], Set(i, rec)
  PROVE  /\ Owners \in Nat /\ Owners' \in Nat
         /\ Cardinality(OnHop') \in Nat /\ Cardinality(OfHeld') \in Nat
         /\ Cardinality(OfRace') \in Nat
         /\ Owners' = Owners - OwnsOf(r[i]) + OwnsOf(rec)
<1>1. \A j \in Requests : r'[j] = IF j = i THEN rec ELSE r[j]
  BY DEF Set
<1>2. /\ OnHop \ {i} = OnHop' \ {i} /\ OfHeld \ {i} = OfHeld' \ {i}
      /\ OfRace \ {i} = OfRace' \ {i}
  BY <1>1 DEF OnHop, OfHeld, OfRace
<1>3. /\ i \in OnHop <=> r[i].conn # "none"
      /\ i \in OnHop' <=> rec.conn # "none"
      /\ i \in OfHeld <=> r[i].held = "tcp"
      /\ i \in OfHeld' <=> rec.held = "tcp"
      /\ i \in OfRace <=> r[i].tcp = "up"
      /\ i \in OfRace' <=> rec.tcp = "up"
  BY <1>1 DEF OnHop, OfHeld, OfRace
<1>4. IsFiniteSet(OnHop) /\ IsFiniteSet(OfHeld) /\ IsFiniteSet(OfRace)
  BY OwnersAreCounted
<1>. HIDE DEF Set
<1>5. /\ Cardinality(OnHop) \in Nat /\ Cardinality(OnHop') \in Nat
      /\ Cardinality(OnHop') = Cardinality(OnHop) - (IF r[i].conn # "none" THEN 1 ELSE 0)
                                                  + (IF rec.conn # "none" THEN 1 ELSE 0)
  BY <1>2, <1>3, <1>4, OneChange
<1>6. /\ Cardinality(OfHeld) \in Nat /\ Cardinality(OfHeld') \in Nat
      /\ Cardinality(OfHeld') = Cardinality(OfHeld) - (IF r[i].held = "tcp" THEN 1 ELSE 0)
                                                    + (IF rec.held = "tcp" THEN 1 ELSE 0)
  BY <1>2, <1>3, <1>4, OneChange
<1>7. /\ Cardinality(OfRace) \in Nat /\ Cardinality(OfRace') \in Nat
      /\ Cardinality(OfRace') = Cardinality(OfRace) - (IF r[i].tcp = "up" THEN 1 ELSE 0)
                                                    + (IF rec.tcp = "up" THEN 1 ELSE 0)
  BY <1>2, <1>3, <1>4, OneChange
<1>. QED BY <1>5, <1>6, <1>7 DEF Owners, OwnsOf

-----------------------------------------------------------------------------
(* The step of one request                                                 *)

(* What does not concern a request.                                         *)
Surroundings ==
  /\ kept \in 0..MaxKept /\ lent \in Nat /\ late \in [Late -> Nat]
  /\ adv \in BOOLEAN /\ broken \in BOOLEAN /\ quicWorks \in BOOLEAN

(* A request's new record that fits, and connections that change hands with *)
(* it as its own do.                                                        *)
LEMMA Moves ==
  ASSUME RPInv, NEW i \in Requests, NEW rec, Set(i, rec), rec \in RequestRecord, Fit(rec),
         Surroundings',
         lent' - late'["tcpUp"] - OwnsOf(rec) = lent - late["tcpUp"] - OwnsOf(r[i])
  PROVE  RPInv'
<1>1. r \in [Requests -> RequestRecord] BY DEF RPInv, RPTypes
<1>2. r' \in [Requests -> RequestRecord] BY <1>1 DEF Set
<1>3. RPTypes' BY <1>2 DEF RPTypes, Surroundings
<1>4. \A j \in Requests : Fit(r'[j])
  BY <1>1 DEF Set, RPInv
<1>5. EveryConnectionOwned'
  <2>1. /\ Owners \in Nat /\ Owners' \in Nat
        /\ Cardinality(OnHop') \in Nat /\ Cardinality(OfHeld') \in Nat
        /\ Cardinality(OfRace') \in Nat
        /\ Owners' = Owners - OwnsOf(r[i]) + OwnsOf(rec)
    BY <1>1, OwnersCount
  <2>2. lent = late["tcpUp"] + Owners
    BY OwnersAreCounted DEF RPInv, EveryConnectionOwned, Owners, RPTypes, Late
  <2>3. OwnsOf(rec) \in Int /\ OwnsOf(r[i]) \in Int BY DEF OwnsOf
  <2>4. late["tcpUp"] \in Nat /\ lent \in Nat /\ late'["tcpUp"] \in Nat /\ lent' \in Nat
    BY DEF RPInv, RPTypes, Surroundings, Late
  <2>5. lent' = late'["tcpUp"] + Owners'
    BY <2>1, <2>2, <2>3, <2>4
  <2>. QED BY <2>5, <2>4, <2>1 DEF EveryConnectionOwned, Owners
<1>. QED BY <1>3, <1>4, <1>5 DEF RPInv

(* Steps that change only what is around, the leftovers of races included.  *)
LEMMA RestKeeps ==
  ASSUME RPInv, UNCHANGED r, Surroundings',
         lent' - late'["tcpUp"] = lent - late["tcpUp"]
  PROVE  RPInv'
<1>1. RPTypes' /\ \A i \in Requests : Fit(r'[i])
  BY DEF RPInv, RPTypes, Surroundings
<1>2. OnHop' = OnHop /\ OfHeld' = OfHeld /\ OfRace' = OfRace
  BY DEF OnHop, OfHeld, OfRace
<1>3. late["tcpUp"] \in Nat /\ lent \in Nat /\ late'["tcpUp"] \in Nat /\ lent' \in Nat
  BY DEF RPInv, RPTypes, Surroundings, Late
<1>4. EveryConnectionOwned'
  BY <1>2, <1>3, OwnersAreCounted DEF RPInv, EveryConnectionOwned
<1>. QED BY <1>1, <1>4 DEF RPInv

-----------------------------------------------------------------------------
(* The records the steps build                                             *)

(* A call that has not begun owns nothing and has sent nothing.             *)
LEMMA NewIsRecord == NewRequest \in RequestRecord /\ Fit(NewRequest) /\ OwnsOf(NewRequest) = 0
  BY RequestPathAssumption
  DEF NewRequest, RequestRecord, Fit, HoldsByPlace, DoubtIsFailed, KeptIsFresh, StreamedOnce, OwnsOf

Places == {"new", "hop", "send", "race", "h3", "dial", "trip", "answer", "failed",
           "backoff", "final", "handed", "over"}
Jobs == {"off", "dialing", "up", "down", "seen"}

(* One field at a time: what a step's record is made by.                    *)
LEMMA FieldsKeep ==
  ASSUME NEW rec \in RequestRecord
  PROVE  /\ \A v \in Places : [rec EXCEPT !.pc = v] \in RequestRecord
         /\ \A v \in Kinds \cup {"none"} :
               [rec EXCEPT !.kind = v] \in RequestRecord
         /\ \A v \in 0..Attempts :
               [rec EXCEPT !.attempt = v] \in RequestRecord
         /\ \A v \in 0..MaxHops : [rec EXCEPT !.hop = v] \in RequestRecord
         /\ \A v \in BOOLEAN : /\ [rec EXCEPT !.turned = v] \in RequestRecord
                               /\ [rec EXCEPT !.wait = v] \in RequestRecord
                               /\ [rec EXCEPT !.fresh = v] \in RequestRecord
         /\ \A v \in BOOLEAN : /\ [rec EXCEPT !.retryable = v] \in RequestRecord
                               /\ [rec EXCEPT !.unprocessed = v] \in RequestRecord
                               /\ [rec EXCEPT !.asked = v] \in RequestRecord
         /\ \A v \in Jobs : /\ [rec EXCEPT !.quic = v] \in RequestRecord
                            /\ [rec EXCEPT !.tcp = v] \in RequestRecord
         /\ \A v \in {"none", "kept", "new"} :
               [rec EXCEPT !.conn = v] \in RequestRecord
         /\ \A v \in {"no", "late", "deadline", "cancel"} :
               [rec EXCEPT !.stop = v] \in RequestRecord
         /\ \A v \in {"none", "h3", "tcp"} :
               [rec EXCEPT !.held = v] \in RequestRecord
         /\ \A v \in {"no", "kept", "guess", "net", "status", "redirect", "again"} :
               [rec EXCEPT !.acted = v] \in RequestRecord
         /\ \A v \in Nat : /\ [rec EXCEPT !.sends = v] \in RequestRecord
                           /\ [rec EXCEPT !.bodies = v] \in RequestRecord
<1>1. \A v \in Places : [rec EXCEPT !.pc = v] \in RequestRecord
  BY DEF RequestRecord, Places
<1>2. \A v \in Kinds \cup {"none"} : [rec EXCEPT !.kind = v] \in RequestRecord
  BY DEF RequestRecord
<1>3. \A v \in 0..Attempts : [rec EXCEPT !.attempt = v] \in RequestRecord
  BY DEF RequestRecord
<1>4. \A v \in 0..MaxHops : [rec EXCEPT !.hop = v] \in RequestRecord
  BY DEF RequestRecord
<1>5. \A v \in BOOLEAN : /\ [rec EXCEPT !.turned = v] \in RequestRecord
                         /\ [rec EXCEPT !.wait = v] \in RequestRecord
                         /\ [rec EXCEPT !.fresh = v] \in RequestRecord
  BY DEF RequestRecord
<1>6. \A v \in BOOLEAN : /\ [rec EXCEPT !.retryable = v] \in RequestRecord
                         /\ [rec EXCEPT !.unprocessed = v] \in RequestRecord
                         /\ [rec EXCEPT !.asked = v] \in RequestRecord
  BY DEF RequestRecord
<1>7. \A v \in Jobs : /\ [rec EXCEPT !.quic = v] \in RequestRecord
                      /\ [rec EXCEPT !.tcp = v] \in RequestRecord
  BY DEF RequestRecord, Jobs
<1>8. \A v \in {"none", "kept", "new"} :
         [rec EXCEPT !.conn = v] \in RequestRecord
  BY DEF RequestRecord
<1>9. \A v \in {"no", "late", "deadline", "cancel"} :
         [rec EXCEPT !.stop = v] \in RequestRecord
  BY DEF RequestRecord
<1>10. \A v \in {"none", "h3", "tcp"} :
         [rec EXCEPT !.held = v] \in RequestRecord
  BY DEF RequestRecord
<1>11. \A v \in {"no", "kept", "guess", "net", "status", "redirect", "again"} :
         [rec EXCEPT !.acted = v] \in RequestRecord
  BY DEF RequestRecord
<1>12. \A v \in Nat : /\ [rec EXCEPT !.sends = v] \in RequestRecord
                     /\ [rec EXCEPT !.bodies = v] \in RequestRecord
  BY DEF RequestRecord
<1>. QED BY <1>1, <1>2, <1>3, <1>4, <1>5, <1>6, <1>7, <1>8, <1>9, <1>10, <1>11, <1>12

(* An exchange begun, and what may have come of it.                         *)
LEMMA SentIsRecord ==
  ASSUME NEW i \in Requests, r \in [Requests -> RequestRecord]
  PROVE  /\ Sent(i) \in RequestRecord
         /\ \A why \in {"kept", "guess", "net"} : Doubt(i, Sent(i), why) \in RequestRecord
<1>1. r[i] \in RequestRecord OBVIOUS
<1>2. r[i].sends + 1 \in Nat /\ r[i].bodies + 1 \in Nat /\ r[i].bodies \in Nat
  BY <1>1 DEF RequestRecord
<1>3. Sent(i) \in RequestRecord
  BY <1>1, <1>2, FieldsKeep DEF Sent
<1>4. ASSUME NEW rec \in RequestRecord, NEW why \in {"kept", "guess", "net"}
      PROVE  Doubt(i, rec, why) \in RequestRecord
  BY <1>4 DEF Doubt, RequestRecord
<1>. QED BY <1>3, <1>4

(* A request's failure.                                                     *)
LEMMA FailsIsRecord ==
  ASSUME NEW rec \in RequestRecord, NEW retryable \in BOOLEAN, NEW unprocessed \in BOOLEAN
  PROVE  Fails(rec, retryable, unprocessed) \in RequestRecord
  BY FieldsKeep DEF Places, Jobs, Fails

-----------------------------------------------------------------------------
(* Steps by what becomes of the connections                                *)

(* None changes hands but among the request's own.                          *)
LEMMA QuietMoves ==
  ASSUME RPInv, NEW i \in Requests, NEW rec \in RequestRecord, Set(i, rec), Fit(rec),
         OwnsOf(rec) = OwnsOf(r[i]), UNCHANGED <<kept, lent, late>>,
         adv' \in BOOLEAN, broken' \in BOOLEAN, quicWorks' \in BOOLEAN
  PROVE  RPInv'
<1>1. Surroundings' BY DEF RPInv, RPTypes, Surroundings
<1>2. lent' - late'["tcpUp"] - OwnsOf(rec) = lent - late["tcpUp"] - OwnsOf(r[i])
  OBVIOUS
<1>. QED BY <1>1, <1>2, Moves

(* The request gives one back, or drops it.                                 *)
LEMMA GivingMoves ==
  ASSUME RPInv, NEW i \in Requests, NEW rec \in RequestRecord, Set(i, rec), Fit(rec),
         OwnsOf(rec) = OwnsOf(r[i]) - 1, GivenBack(1) \/ Evicted, UNCHANGED late,
         adv' \in BOOLEAN, broken' \in BOOLEAN, quicWorks' \in BOOLEAN
  PROVE  RPInv'
<1>1. r \in [Requests -> RequestRecord] BY DEF RPInv, RPTypes
<1>2. lent' = lent - 1 BY DEF GivenBack, Evicted
<1>3. kept' \in 0..MaxKept
  BY RequestPathAssumption DEF GivenBack, Evicted, RPInv, RPTypes
<1>4. late["tcpUp"] \in Nat /\ lent \in Nat BY DEF RPInv, RPTypes, Late
<1>5. OwnsOf(r[i]) \in Nat BY DEF OwnsOf
<1>6. /\ Owners \in Nat /\ Owners' \in Nat
      /\ Owners' = Owners - OwnsOf(r[i]) + OwnsOf(rec)
  BY <1>1, OwnersCount
<1>7. lent = late["tcpUp"] + Owners
  BY <1>4, OwnersAreCounted DEF RPInv, EveryConnectionOwned, Owners
<1>8. lent' \in Nat BY <1>2, <1>4, <1>5, <1>6, <1>7
<1>9. Surroundings' BY <1>3, <1>8 DEF RPInv, RPTypes, Surroundings
<1>10. lent' - late'["tcpUp"] - OwnsOf(rec) = lent - late["tcpUp"] - OwnsOf(r[i])
  BY <1>2, <1>4, <1>5
<1>. QED BY <1>9, <1>10, Moves

(* The request is lent one.                                                 *)
LEMMA TakingMoves ==
  ASSUME RPInv, NEW i \in Requests, NEW rec \in RequestRecord, Set(i, rec), Fit(rec),
         OwnsOf(rec) = OwnsOf(r[i]) + 1, lent' = lent + 1, kept' \in 0..MaxKept,
         UNCHANGED <<late, adv, broken, quicWorks>>
  PROVE  RPInv'
<1>1. late["tcpUp"] \in Nat /\ lent \in Nat BY DEF RPInv, RPTypes, Late
<1>2. OwnsOf(r[i]) \in Nat BY DEF OwnsOf
<1>3. Surroundings' BY <1>1 DEF RPInv, RPTypes, Surroundings
<1>4. lent' - late'["tcpUp"] - OwnsOf(rec) = lent - late["tcpUp"] - OwnsOf(r[i])
  BY <1>1, <1>2
<1>. QED BY <1>3, <1>4, Moves

-----------------------------------------------------------------------------
(* One lemma per group of actions                                          *)

(* From the call to the choice of a connection: nothing changes hands.      *)
LEMMA DecideKeeps ==
  ASSUME RPInv, NEW i \in Requests,
         Begin(i) \/ Hop(i) \/ SendRefused(i) \/ SendDemanded(i) \/ SendDirect(i) \/ SendRace(i)
  PROVE  RPInv'
<1>1. r \in [Requests -> RequestRecord] /\ r[i] \in RequestRecord /\ Fit(r[i])
  BY DEF RPInv, RPTypes
<1>2. adv \in BOOLEAN /\ broken \in BOOLEAN /\ quicWorks \in BOOLEAN
  BY DEF RPInv, RPTypes
<1>. USE DEF HoldsByPlace, DoubtIsFailed, KeptIsFresh, StreamedOnce, OwnsOf
<1>3. CASE Begin(i)
  <2>1. PICK k \in Kinds : Set(i, [NewRequest EXCEPT !.pc = "hop", !.kind = k])
    BY <1>3 DEF Begin
  <2>. DEFINE rec == [NewRequest EXCEPT !.pc = "hop", !.kind = k]
  <2>2. rec \in RequestRecord
    BY NewIsRecord, FieldsKeep DEF Places
  <2>3. Fit(rec) /\ OwnsOf(rec) = 0
    <3>1. rec.pc = "hop" /\ rec.tcp = "off" /\ rec.conn = "none" /\ rec.held = "none"
      BY DEF NewRequest
    <3>2. rec.acted = "no" /\ rec.bodies = 0 BY DEF NewRequest
    <3>. HIDE DEF rec
    <3>. QED BY <3>1, <3>2 DEF Fit
  <2>4. OwnsOf(r[i]) = 0
    <3>1. r[i].pc \in {"new", "over"} BY <1>3 DEF Begin
    <3>2. r[i].conn = "none" /\ r[i].held = "none" /\ r[i].tcp = "off"
      BY <1>1, <3>1 DEF Fit
    <3>. QED BY <3>2
  <2>. HIDE DEF rec
  <2>. QED BY <1>2, <1>3, <2>1, <2>2, <2>3, <2>4, QuietMoves DEF Begin, rec
<1>4. CASE Hop(i)
  <2>. DEFINE fails == Fails(r[i], FALSE, FALSE)
              sends == [To(i, "send") EXCEPT !.sends = 0, !.fresh = FALSE]
  <2>1. fails \in RequestRecord /\ sends \in RequestRecord
    BY <1>1, FailsIsRecord, FieldsKeep DEF Places, To
  <2>2. Fit(fails) /\ Fit(sends) /\ OwnsOf(fails) = OwnsOf(r[i]) /\ OwnsOf(sends) = OwnsOf(r[i])
    BY <1>1, <1>4 DEF Hop, At, To, Fails, RequestRecord, Fit
  <2>3. Set(i, fails) \/ Set(i, sends) BY <1>4 DEF Hop
  <2>. HIDE DEF fails, sends
  <2>. QED BY <1>2, <1>4, <2>1, <2>2, <2>3, QuietMoves DEF Hop
<1>5. CASE SendRefused(i)
  <2>1. PICK retryable \in BOOLEAN : Set(i, Fails(r[i], retryable, FALSE))
    BY <1>5 DEF SendRefused
  <2>. DEFINE fails == Fails(r[i], retryable, FALSE)
  <2>2. fails \in RequestRecord BY <1>1, FailsIsRecord
  <2>3. Fit(fails) /\ OwnsOf(fails) = OwnsOf(r[i])
    BY <1>1, <1>5 DEF SendRefused, At, Fails, RequestRecord, Fit
  <2>4. Set(i, fails) BY <2>1
  <2>. HIDE DEF fails
  <2>. QED BY <1>2, <1>5, <2>2, <2>3, <2>4, QuietMoves DEF SendRefused
<1>6. CASE SendDemanded(i)
  <2>. DEFINE rec == To(i, "h3")
  <2>1. rec \in RequestRecord BY <1>1, FieldsKeep DEF Places, To
  <2>2. Fit(rec) /\ OwnsOf(rec) = OwnsOf(r[i])
    BY <1>1, <1>6 DEF SendDemanded, At, To, RequestRecord, Fit
  <2>3. Set(i, rec) BY <1>6 DEF SendDemanded
  <2>. HIDE DEF rec
  <2>. QED BY <1>2, <1>6, <2>1, <2>2, <2>3, QuietMoves DEF SendDemanded
<1>7. CASE SendDirect(i)
  <2>. DEFINE rec == To(i, "dial")
  <2>1. rec \in RequestRecord BY <1>1, FieldsKeep DEF Places, To
  <2>2. Fit(rec) /\ OwnsOf(rec) = OwnsOf(r[i])
    BY <1>1, <1>7 DEF SendDirect, At, To, RequestRecord, Fit
  <2>3. Set(i, rec) BY <1>7 DEF SendDirect
  <2>. HIDE DEF rec
  <2>. QED BY <1>2, <1>7, <2>1, <2>2, <2>3, QuietMoves DEF SendDirect
<1>8. CASE SendRace(i)
  <2>. DEFINE holdBack == ByAltSvc /\ quicWorks
              rec == [To(i, "race") EXCEPT !.quic = "dialing", !.wait = holdBack,
                                           !.tcp = IF holdBack THEN "off" ELSE "dialing"]
  <2>1. Set(i, rec) /\ ~Streaming(i) /\ At(i, "send") BY <1>8 DEF SendRace
  <2>2. holdBack \in BOOLEAN BY <1>2 DEF ByAltSvc
  <2>. HIDE DEF holdBack
  <2>3. (IF holdBack THEN "off" ELSE "dialing") \in Jobs BY DEF Jobs
  <2>4. rec \in RequestRecord
    <3>1. "race" \in Places /\ "dialing" \in Jobs BY DEF Places, Jobs
    <3>. QED BY <1>1, <2>2, <2>3, <3>1, FieldsKeep DEF To
  <2>5. Fit(rec) /\ OwnsOf(rec) = OwnsOf(r[i])
    BY <1>1, <2>1 DEF Streaming, At, To, RequestRecord, Fit
  <2>. HIDE DEF rec
  <2>. QED BY <1>2, <1>8, <2>1, <2>4, <2>5, QuietMoves DEF SendRace
<1>. QED BY <1>3, <1>4, <1>5, <1>6, <1>7, <1>8
(* The race: what its TCP job brings up is the winner's, or is left to be   *)
(* released later.                                                          *)
LEMMA RaceKeeps ==
  ASSUME RPInv, NEW i \in Requests, Race(i)
  PROVE  RPInv'
<1>1. r \in [Requests -> RequestRecord] /\ r[i] \in RequestRecord /\ Fit(r[i])
  BY DEF RPInv, RPTypes
<1>2. /\ adv \in BOOLEAN /\ broken \in BOOLEAN /\ quicWorks \in BOOLEAN
      /\ kept \in 0..MaxKept /\ lent \in Nat /\ late \in [Late -> Nat]
  BY DEF RPInv, RPTypes
<1>3. At(i, "race") /\ r[i].conn = "none" /\ r[i].held = "none"
  BY <1>1 DEF Fit, HoldsByPlace, Race, Racing, QuicUp, QuicDown, TcpUp, TcpDown, RaceWaits,
              RaceQuicWins, RaceQuicLoses, RaceTcpWins, RaceTcpLoses, At
<1>. USE DEF HoldsByPlace, DoubtIsFailed, KeptIsFresh, StreamedOnce, OwnsOf
<1>4. CASE QuicUp(i) \/ QuicDown(i)
  <2>1. PICK v \in {"up", "down"} : Set(i, [r[i] EXCEPT !.quic = v])
    BY <1>4 DEF QuicUp, QuicDown
  <2>. DEFINE rec == [r[i] EXCEPT !.quic = v]
  <2>2. rec \in RequestRecord BY <1>1, FieldsKeep DEF Jobs
  <2>3. Fit(rec) /\ OwnsOf(rec) = OwnsOf(r[i]) BY <1>1 DEF RequestRecord, Fit
  <2>4. Set(i, rec) BY <2>1
  <2>. HIDE DEF rec
  <2>. QED BY <1>2, <1>4, <2>2, <2>3, <2>4, QuietMoves DEF QuicUp, QuicDown
<1>5. CASE TcpUp(i)
  <2>. DEFINE rec == [r[i] EXCEPT !.tcp = "up"]
  <2>1. rec \in RequestRecord BY <1>1, FieldsKeep DEF Jobs
  <2>2. Fit(rec) BY <1>1, <1>3 DEF At, RequestRecord, Fit
  <2>3. OwnsOf(rec) = OwnsOf(r[i]) + 1
    <3>1. r[i].tcp = "dialing" BY <1>5 DEF TcpUp
    <3>2. rec.tcp = "up" /\ rec.conn = "none" /\ rec.held = "none"
      BY <1>1, <1>3 DEF RequestRecord
    <3>. QED BY <1>3, <3>1, <3>2
  <2>4. Set(i, rec) /\ lent' = lent + 1 BY <1>5 DEF TcpUp
  <2>5. kept' \in 0..MaxKept BY <1>2, <1>5, RequestPathAssumption DEF TcpUp
  <2>. HIDE DEF rec
  <2>. QED BY <1>5, <2>1, <2>2, <2>3, <2>4, <2>5, TakingMoves DEF TcpUp
<1>6. CASE TcpDown(i)
  <2>. DEFINE rec == [r[i] EXCEPT !.tcp = "down"]
  <2>1. rec \in RequestRecord BY <1>1, FieldsKeep DEF Jobs
  <2>2. Fit(rec) BY <1>1, <1>3 DEF At, RequestRecord, Fit
  <2>3. OwnsOf(rec) = OwnsOf(r[i]) BY <1>1, <1>6 DEF TcpDown, RequestRecord
  <2>4. Set(i, rec) BY <1>6 DEF TcpDown
  <2>. HIDE DEF rec
  <2>. QED BY <1>2, <1>6, <2>1, <2>2, <2>3, <2>4, QuietMoves DEF TcpDown
<1>7. CASE RaceWaits(i)
  <2>. DEFINE v == IF r[i].tcp = "off" THEN "dialing" ELSE r[i].tcp
              rec == [r[i] EXCEPT !.wait = FALSE, !.tcp = v]
  <2>1. v \in Jobs BY <1>1 DEF RequestRecord, Jobs
  <2>2. v = "up" <=> r[i].tcp = "up" OBVIOUS
  <2>3. Set(i, rec) BY <1>1, <1>7 DEF RaceWaits, RequestRecord
  <2>. HIDE DEF v
  <2>4. rec \in RequestRecord BY <1>1, <2>1, FieldsKeep
  <2>5. Fit(rec) BY <1>1, <1>3 DEF At, RequestRecord, Fit
  <2>6. OwnsOf(rec) = OwnsOf(r[i]) BY <1>1, <2>2 DEF RequestRecord
  <2>. HIDE DEF rec
  <2>. QED BY <1>2, <1>7, <2>3, <2>4, <2>5, <2>6, QuietMoves DEF RaceWaits
<1>8. CASE RaceQuicWins(i)
  <2>. DEFINE rec == [To(i, "h3") EXCEPT !.quic = "off", !.tcp = "off", !.wait = FALSE]
  <2>1. rec \in RequestRecord BY <1>1, FieldsKeep DEF Places, Jobs, To
  <2>2. Fit(rec) BY <1>1, <1>3 DEF At, To, RequestRecord, Fit
  <2>3. OwnsOf(rec) = 0
    <3>1. rec.tcp = "off" /\ rec.conn = "none" /\ rec.held = "none"
      BY <1>1, <1>3 DEF To, RequestRecord
    <3>. QED BY <3>1
  <2>4. Set(i, rec) /\ UNCHANGED <<kept, lent, adv, broken, quicWorks>>
    BY <1>8 DEF RaceQuicWins
  <2>. HIDE DEF rec
  <2>5. late' \in [Late -> Nat] /\ late'["tcpUp"] = late["tcpUp"] + OwnsOf(r[i])
    <3>1. CASE r[i].tcp = "dialing"
      <4>1. late' = [late EXCEPT !["tcpDialing"] = late["tcpDialing"] + 1]
        BY <1>8, <3>1 DEF RaceQuicWins
      <4>. QED BY <1>2, <1>3, <3>1, <4>1 DEF Late
    <3>2. CASE r[i].tcp = "up"
      <4>1. late' = [late EXCEPT !["tcpUp"] = late["tcpUp"] + 1]
        BY <1>8, <3>2 DEF RaceQuicWins
      <4>. QED BY <1>2, <1>3, <3>2, <4>1 DEF Late
    <3>3. CASE r[i].tcp \notin {"dialing", "up"}
      <4>1. late' = late BY <1>8, <3>3 DEF RaceQuicWins
      <4>. QED BY <1>2, <1>3, <3>3, <4>1 DEF Late
    <3>. QED BY <3>1, <3>2, <3>3
  <2>6. Surroundings' BY <1>2, <2>4, <2>5 DEF Surroundings
  <2>7. lent' - late'["tcpUp"] - OwnsOf(rec) = lent - late["tcpUp"] - OwnsOf(r[i])
    <3>1. lent \in Nat /\ late["tcpUp"] \in Nat /\ OwnsOf(r[i]) \in Nat
      BY <1>2 DEF Late
    <3>. QED BY <2>3, <2>4, <2>5, <3>1
  <2>. QED BY <2>1, <2>2, <2>4, <2>6, <2>7, Moves
<1>9. CASE RaceQuicLoses(i)
  <2>. DEFINE v == IF r[i].tcp = "off" THEN "dialing" ELSE r[i].tcp
              fails == Fails(r[i], TRUE, TRUE)
              waits == [r[i] EXCEPT !.quic = "seen", !.tcp = v]
  <2>1. v \in Jobs /\ (v = "up" <=> r[i].tcp = "up") BY <1>1 DEF RequestRecord, Jobs
  <2>2. \/ r[i].tcp = "seen" /\ Set(i, fails)
        \/ Set(i, waits)
    BY <1>1, <1>9 DEF RaceQuicLoses, RequestRecord
  <2>. HIDE DEF v
  <2>3. fails \in RequestRecord /\ waits \in RequestRecord
    <3>1. "seen" \in Jobs BY DEF Jobs
    <3>. QED BY <1>1, <2>1, <3>1, FailsIsRecord, FieldsKeep
  <2>4. Fit(fails) /\ Fit(waits)
    BY <1>1, <1>3 DEF At, Fails, RequestRecord, Fit
  <2>5. OwnsOf(waits) = OwnsOf(r[i]) BY <1>1, <2>1 DEF RequestRecord
  <2>6. r[i].tcp = "seen" => OwnsOf(fails) = OwnsOf(r[i])
    BY <1>1, <1>3 DEF Fails, RequestRecord
  <2>. HIDE DEF fails, waits
  <2>. QED BY <1>2, <1>9, <2>2, <2>3, <2>4, <2>5, <2>6, QuietMoves DEF RaceQuicLoses
<1>10. CASE RaceTcpWins(i)
  <2>. DEFINE rec == [To(i, "trip") EXCEPT !.conn = "new", !.quic = "off", !.tcp = "off",
                                           !.wait = FALSE]
  <2>1. rec \in RequestRecord BY <1>1, FieldsKeep DEF Places, Jobs, To
  <2>2. Fit(rec) BY <1>1, <1>3 DEF At, To, RequestRecord, Fit
  <2>3. OwnsOf(rec) = OwnsOf(r[i])
    <3>1. rec.tcp = "off" /\ rec.conn = "new" /\ rec.held = "none"
      BY <1>1, <1>3 DEF To, RequestRecord
    <3>2. r[i].tcp = "up" BY <1>10 DEF RaceTcpWins
    <3>. QED BY <1>3, <3>1, <3>2
  <2>4. Set(i, rec) /\ UNCHANGED <<kept, lent, adv, quicWorks>>
    BY <1>10 DEF RaceTcpWins
  <2>5. broken' \in BOOLEAN BY <1>10, <1>2 DEF RaceTcpWins
  <2>6. late' \in [Late -> Nat] /\ late'["tcpUp"] = late["tcpUp"]
    <3>1. CASE r[i].quic = "dialing"
      <4>1. late' = [late EXCEPT !["quic"] = late["quic"] + 1]
        BY <1>10, <3>1 DEF RaceTcpWins
      <4>. QED BY <1>2, <4>1 DEF Late
    <3>2. CASE r[i].quic # "dialing"
      <4>1. late' = late BY <1>10, <3>2 DEF RaceTcpWins
      <4>. QED BY <1>2, <4>1
    <3>. QED BY <3>1, <3>2
  <2>. HIDE DEF rec
  <2>7. Surroundings' BY <1>2, <2>4, <2>5, <2>6 DEF Surroundings
  <2>. QED BY <2>1, <2>2, <2>3, <2>4, <2>6, <2>7, Moves
<1>11. CASE RaceTcpLoses(i)
  <2>. DEFINE fails == Fails(r[i], TRUE, TRUE)
              seen == [r[i] EXCEPT !.tcp = "seen"]
  <2>1. fails \in RequestRecord /\ seen \in RequestRecord
    BY <1>1, FailsIsRecord, FieldsKeep DEF Jobs
  <2>2. Fit(fails) /\ Fit(seen) BY <1>1, <1>3 DEF At, Fails, RequestRecord, Fit
  <2>3. r[i].tcp = "down" /\ (Set(i, fails) \/ Set(i, seen)) BY <1>11 DEF RaceTcpLoses
  <2>4. OwnsOf(fails) = OwnsOf(r[i]) /\ OwnsOf(seen) = OwnsOf(r[i])
    BY <1>1, <1>3, <2>3 DEF Fails, RequestRecord
  <2>. HIDE DEF fails, seen
  <2>. QED BY <1>2, <1>11, <2>1, <2>2, <2>3, <2>4, QuietMoves DEF RaceTcpLoses
<1>. QED BY <1>4, <1>5, <1>6, <1>7, <1>8, <1>9, <1>10, <1>11 DEF Race
(* The exchange.  The connection is lent, goes on with the answer, or is    *)
(* given back; only a failure for good leaves a POST in doubt.              *)
LEMMA ExchangeKeeps ==
  ASSUME RPInv, NEW i \in Requests, Exchange(i)
  PROVE  RPInv'
<1>1. r \in [Requests -> RequestRecord] /\ r[i] \in RequestRecord /\ Fit(r[i])
  BY DEF RPInv, RPTypes
<1>2. /\ adv \in BOOLEAN /\ broken \in BOOLEAN /\ quicWorks \in BOOLEAN
      /\ kept \in 0..MaxKept /\ lent \in Nat
  BY DEF RPInv, RPTypes
<1>. DEFINE Tries(rec) == rec = Sent(i) \/ \E why \in {"kept", "guess", "net"} :
                                             rec = Doubt(i, Sent(i), why)
<1>3. At(i, "h3") \/ At(i, "dial") \/ At(i, "trip")
  BY DEF Exchange, H3Answered, H3Fails, H3Ends, Dial, DialFails, WrongProtocol, TripAnswered,
         TripDropped, TripFails
(* What the request is when it begins, and after an exchange it sent.       *)
<1>4. /\ r[i].tcp = "off" /\ r[i].held = "none" /\ r[i].acted # "net" /\ r[i].bodies \in Nat
      /\ r[i].bodies <= 1 /\ (Streaming(i) => ~At(i, "h3") /\ r[i].bodies = 0)
      /\ (At(i, "trip") <=> r[i].conn # "none")
  BY <1>1, <1>3 DEF At, Fit, HoldsByPlace, DoubtIsFailed, StreamedOnce, Streaming, RequestRecord
<1>5. ASSUME NEW rec, Tries(rec)
      PROVE  /\ rec \in RequestRecord
             /\ rec.tcp = "off" /\ rec.held = "none" /\ rec.conn = r[i].conn
             /\ rec.kind = r[i].kind /\ rec.turned = r[i].turned /\ rec.bodies <= 1
             /\ rec.bodies = IF Streaming(i) THEN r[i].bodies + 1 ELSE r[i].bodies
             /\ rec.fresh = r[i].fresh /\ rec.pc = r[i].pc
  <2>1. rec \in RequestRecord BY <1>1, <1>5, SentIsRecord
  <2>2. /\ Sent(i).tcp = "off" /\ Sent(i).held = "none" /\ Sent(i).conn = r[i].conn
        /\ Sent(i).kind = r[i].kind /\ Sent(i).turned = r[i].turned
        /\ Sent(i).bodies = IF Streaming(i) THEN r[i].bodies + 1 ELSE r[i].bodies
        /\ Sent(i).fresh = r[i].fresh /\ Sent(i).pc = r[i].pc
    BY <1>1, <1>4 DEF Sent, RequestRecord
  <2>3. Sent(i) \in RequestRecord BY <1>1, SentIsRecord
  <2>4. /\ rec.tcp = Sent(i).tcp /\ rec.held = Sent(i).held /\ rec.conn = Sent(i).conn
        /\ rec.kind = Sent(i).kind /\ rec.turned = Sent(i).turned /\ rec.bodies = Sent(i).bodies
        /\ rec.fresh = Sent(i).fresh /\ rec.pc = Sent(i).pc
    BY <1>5, <2>3 DEF Doubt, RequestRecord
  <2>5. (IF Streaming(i) THEN r[i].bodies + 1 ELSE r[i].bodies) <= 1
    BY <1>4
  <2>. QED BY <2>1, <2>2, <2>4, <2>5
<1>6. Tries(Sent(i)) /\ \A why \in {"kept", "guess", "net"} : Tries(Doubt(i, Sent(i), why))
  OBVIOUS
<1>7. Sent(i).acted # "net" /\ \A why \in {"kept", "guess"} : Doubt(i, Sent(i), why).acted # "net"
  <2>1. Sent(i).acted # "net" BY <1>1, <1>4 DEF Sent, RequestRecord
  <2>2. Sent(i) \in RequestRecord BY <1>1, SentIsRecord
  <2>. QED BY <2>1, <2>2 DEF Doubt, RequestRecord
<1>8. Doubt(i, Sent(i), "net").acted = "net" => r[i].kind # "get"
  <2>1. Sent(i).acted # "net" BY <1>7
  <2>2. Sent(i) \in RequestRecord BY <1>1, SentIsRecord
  <2>. QED BY <2>1, <2>2 DEF Doubt, Posting, RequestRecord
(* Only a dead kept connection leaves the doubt of one.                     *)
<1>20. ASSUME NEW rec,
              rec = Sent(i) \/ \E why \in {"guess", "net"} : rec = Doubt(i, Sent(i), why)
       PROVE  KeptIsFresh(rec)
  <2>1. KeptIsFresh(r[i]) BY <1>1 DEF Fit
  <2>2. Sent(i) \in RequestRecord BY <1>1, SentIsRecord
  <2>3. Tries(Sent(i)) /\ Tries(rec) BY <1>20
  <2>4. /\ rec.conn = r[i].conn /\ rec.kind = r[i].kind /\ rec.turned = r[i].turned
        /\ rec.fresh = r[i].fresh /\ rec.pc = r[i].pc
    BY <1>5, <2>3
  <2>5. Sent(i).acted = r[i].acted BY <1>1 DEF Sent, RequestRecord
  <2>6. rec.acted = "kept" => r[i].acted = "kept" BY <1>20, <2>2, <2>5 DEF Doubt, RequestRecord
  <2>. HIDE DEF Tries
  <2>. QED BY <2>1, <2>4, <2>6 DEF KeptIsFresh
(* A failure, whatever the exchange left in doubt.                          *)
<1>9. ASSUME NEW rec, Tries(rec), KeptIsFresh(rec),
             NEW retryable \in BOOLEAN, NEW unprocessed \in BOOLEAN,
             unprocessed => rec = Sent(i)
      PROVE  /\ Fails(rec, retryable, unprocessed) \in RequestRecord
             /\ Fit(Fails(rec, retryable, unprocessed))
             /\ OwnsOf(Fails(rec, retryable, unprocessed)) = 0
  <2>. DEFINE fails == Fails(rec, retryable, unprocessed)
  <2>1. rec \in RequestRecord BY <1>5, <1>9
  <2>2. fails \in RequestRecord BY <2>1, FailsIsRecord
  <2>3. /\ fails.pc = "failed" /\ fails.tcp = "off" /\ fails.conn = "none"
        /\ fails.held = rec.held /\ fails.acted = rec.acted /\ fails.bodies = rec.bodies
        /\ fails.kind = rec.kind /\ fails.turned = rec.turned /\ fails.fresh = rec.fresh
    BY <2>1 DEF Fails, RequestRecord
  <2>4. unprocessed => ~(rec.acted = "net") BY <1>7, <1>9
  <2>5. ~unprocessed => ~fails.unprocessed BY <2>1 DEF Fails, RequestRecord
  <2>6. rec.acted = "net" => r[i].kind # "get" BY <1>7, <1>8, <1>9
  <2>7. /\ rec.held = "none" /\ rec.kind = r[i].kind /\ rec.bodies <= 1
    BY <1>5, <1>9
  <2>. HIDE DEF fails, Tries
  <2>8. OwnsOf(fails) = 0 BY <2>3, <2>7 DEF OwnsOf
  <2>9. HoldsByPlace(fails) BY <2>3, <2>7 DEF HoldsByPlace
  <2>10. DoubtIsFailed(fails) BY <2>3, <2>4, <2>5, <2>6, <2>7 DEF DoubtIsFailed
  <2>11. StreamedOnce(fails) BY <2>3, <2>7 DEF StreamedOnce
  <2>12. KeptIsFresh(fails) BY <1>9, <2>3 DEF KeptIsFresh
  <2>. QED BY <2>2, <2>3, <2>8, <2>9, <2>10, <2>11, <2>12 DEF Fit, fails
(* Another place with what was sent.                                        *)
<1>10. ASSUME NEW rec, Tries(rec), KeptIsFresh(rec), rec.acted # "net",
              NEW pc \in {"answer", "dial"},
              pc = "dial" => At(i, "h3")
       PROVE  /\ [rec EXCEPT !.pc = pc] \in RequestRecord
              /\ Fit([rec EXCEPT !.pc = pc])
              /\ OwnsOf([rec EXCEPT !.pc = pc]) = OwnsOf(r[i])
  <2>. DEFINE goes == [rec EXCEPT !.pc = pc]
  <2>1. rec \in RequestRecord BY <1>5, <1>10
  <2>2. goes \in RequestRecord BY <1>10, <2>1, FieldsKeep DEF Places
  <2>3. /\ goes.pc = pc /\ goes.tcp = rec.tcp /\ goes.conn = rec.conn
        /\ goes.held = rec.held /\ goes.acted = rec.acted /\ goes.bodies = rec.bodies
        /\ goes.kind = rec.kind /\ goes.turned = rec.turned /\ goes.fresh = rec.fresh
    BY <2>1 DEF RequestRecord
  <2>4. /\ rec.tcp = "off" /\ rec.held = "none" /\ rec.conn = r[i].conn
        /\ rec.kind = r[i].kind /\ rec.turned = r[i].turned /\ rec.bodies <= 1
    BY <1>5, <1>10
  <2>5. At(i, "h3") => ~(r[i].kind = "upload" /\ ~r[i].turned) /\ r[i].conn = "none"
    BY <1>1, <1>4 DEF Streaming, At
  <2>. HIDE DEF goes, Tries
  <2>6. OwnsOf(goes) = OwnsOf(r[i]) BY <1>4, <2>3, <2>4 DEF OwnsOf
  <2>7. HoldsByPlace(goes) BY <1>10, <2>3, <2>4, <2>5 DEF HoldsByPlace
  <2>8. DoubtIsFailed(goes) BY <1>10, <2>3 DEF DoubtIsFailed
  <2>9. StreamedOnce(goes) BY <1>10, <2>3, <2>4, <2>5 DEF StreamedOnce
  <2>10. KeptIsFresh(goes) BY <1>10, <2>3 DEF KeptIsFresh
  <2>. QED BY <1>10, <2>2, <2>3, <2>6, <2>7, <2>8, <2>9, <2>10 DEF Fit, goes
<1>. HIDE DEF Tries
<1>11. CASE H3Answered(i) \/ TripAnswered(i)
  <2>. DEFINE rec == [Sent(i) EXCEPT !.pc = "answer"]
  <2>1. Set(i, rec) BY <1>11 DEF H3Answered, TripAnswered
  <2>2. rec \in RequestRecord /\ Fit(rec) /\ OwnsOf(rec) = OwnsOf(r[i])
    BY <1>6, <1>7, <1>10, <1>20
  <2>. HIDE DEF rec
  <2>. QED BY <1>2, <1>11, <2>1, <2>2, QuietMoves DEF H3Answered, TripAnswered
<1>12. CASE H3Fails(i)
  <2>1. PICK sent \in {Sent(i), Doubt(i, Sent(i), "guess")} : Set(i, [sent EXCEPT !.pc = "dial"])
    BY <1>12 DEF H3Fails
  <2>. DEFINE rec == [sent EXCEPT !.pc = "dial"]
  <2>2. rec \in RequestRecord /\ Fit(rec) /\ OwnsOf(rec) = OwnsOf(r[i])
    BY <1>6, <1>7, <1>10, <1>12, <1>20 DEF H3Fails
  <2>3. Set(i, rec) BY <2>1
  <2>. HIDE DEF rec
  <2>. QED BY <1>2, <1>12, <2>2, <2>3, QuietMoves DEF H3Fails
<1>13. CASE H3Ends(i)
  <2>1. PICK sent \in {Sent(i), Doubt(i, Sent(i), "net")} : Set(i, Fails(sent, TRUE, FALSE))
    BY <1>13 DEF H3Ends
  <2>. DEFINE rec == Fails(sent, TRUE, FALSE)
  <2>2. rec \in RequestRecord /\ Fit(rec) /\ OwnsOf(rec) = 0
    BY <1>6, <1>9, <1>20
  <2>3. OwnsOf(r[i]) = 0
    <3>1. r[i].conn = "none" BY <1>4, <1>13 DEF H3Ends, At
    <3>. QED BY <1>4, <3>1 DEF OwnsOf
  <2>4. Set(i, rec) BY <2>1
  <2>. HIDE DEF rec
  <2>. QED BY <1>2, <1>13, <2>2, <2>3, <2>4, QuietMoves DEF H3Ends
<1>14. CASE Dial(i)
  <2>1. PICK c \in {"new", "kept"} : /\ Set(i, [To(i, "trip") EXCEPT !.conn = c])
                                     /\ c = "kept" => ~r[i].fresh
    BY <1>14 DEF Dial
  <2>. DEFINE rec == [To(i, "trip") EXCEPT !.conn = c]
  <2>2. rec \in RequestRecord BY <1>1, FieldsKeep DEF Places, To
  <2>3. Fit(rec)
    BY <1>1, <1>4, <1>14, <2>1 DEF Dial, At, To, RequestRecord, Fit, HoldsByPlace, DoubtIsFailed,
                                  KeptIsFresh, StreamedOnce, Streaming
  <2>4. OwnsOf(rec) = OwnsOf(r[i]) + 1
    <3>1. r[i].conn = "none" BY <1>4, <1>14 DEF Dial, At
    <3>2. rec.conn # "none" /\ rec.held = "none" /\ rec.tcp = "off"
      BY <1>1, <1>4 DEF To, RequestRecord
    <3>. QED BY <1>4, <3>1, <3>2 DEF OwnsOf
  <2>5. Set(i, rec) BY <2>1
  <2>. HIDE DEF rec
  <2>6. lent' = lent + 1 /\ UNCHANGED <<late, adv, broken, quicWorks>> BY <1>14 DEF Dial
  <2>7. kept' \in 0..MaxKept BY <1>2, <1>14, RequestPathAssumption DEF Dial
  <2>. QED BY <2>2, <2>3, <2>4, <2>5, <2>6, <2>7, TakingMoves
<1>15. CASE DialFails(i)
  <2>. DEFINE rec == Fails(r[i], TRUE, TRUE)
  <2>1. rec \in RequestRecord BY <1>1, FailsIsRecord
  <2>2. Fit(rec) /\ OwnsOf(rec) = OwnsOf(r[i])
    <3>1. r[i].conn = "none" BY <1>4, <1>15 DEF DialFails, At
    <3>2. /\ rec.pc = "failed" /\ rec.tcp = "off" /\ rec.conn = "none"
          /\ rec.held = "none" /\ rec.acted # "net" /\ rec.bodies <= 1
      BY <1>1, <1>4 DEF Fails, RequestRecord
    <3>3. KeptIsFresh(rec) BY <1>1 DEF Fails, RequestRecord, Fit, KeptIsFresh
    <3>. HIDE DEF rec
    <3>. QED BY <1>4, <3>1, <3>2, <3>3
             DEF Fit, HoldsByPlace, DoubtIsFailed, StreamedOnce, OwnsOf
  <2>3. Set(i, rec) BY <1>15 DEF DialFails
  <2>. HIDE DEF rec
  <2>. QED BY <1>2, <1>15, <2>1, <2>2, <2>3, QuietMoves DEF DialFails
(* What the connection of an exchange over TCP counts.                      *)
<1>16. At(i, "trip") => OwnsOf(r[i]) = 1
  BY <1>4 DEF OwnsOf
<1>17. CASE WrongProtocol(i)
  <2>. DEFINE rec == Fails(r[i], FALSE, FALSE)
  <2>1. rec \in RequestRecord BY <1>1, FailsIsRecord
  <2>2. Fit(rec) /\ OwnsOf(rec) = 0
    <3>1. /\ rec.pc = "failed" /\ rec.tcp = "off" /\ rec.conn = "none"
          /\ rec.held = "none" /\ rec.acted # "net" /\ rec.bodies <= 1
      BY <1>1, <1>4 DEF Fails, RequestRecord
    <3>2. KeptIsFresh(rec) BY <1>1 DEF Fails, RequestRecord, Fit, KeptIsFresh
    <3>. HIDE DEF rec
    <3>. QED BY <3>1, <3>2 DEF Fit, HoldsByPlace, DoubtIsFailed, StreamedOnce, OwnsOf
  <2>3. Set(i, rec) /\ At(i, "trip") /\ GivenBack(1) BY <1>17 DEF WrongProtocol
  <2>. HIDE DEF rec
  <2>. QED BY <1>2, <1>16, <1>17, <2>1, <2>2, <2>3, GivingMoves DEF WrongProtocol
<1>18. CASE TripFails(i)
  <2>. DEFINE rec == Fails(Doubt(i, Sent(i), "net"), TRUE, FALSE)
  <2>1. rec \in RequestRecord /\ Fit(rec) /\ OwnsOf(rec) = 0 BY <1>6, <1>9, <1>20
  <2>2. Set(i, rec) /\ At(i, "trip") /\ GivenBack(1) BY <1>18 DEF TripFails
  <2>. HIDE DEF rec
  <2>. QED BY <1>2, <1>16, <1>18, <2>1, <2>2, GivingMoves DEF TripFails
<1>19. CASE TripDropped(i)
  <2>1. PICK rec : /\ Set(i, rec)
                   /\ \/ MayResend(i) /\ \E sent \in {Sent(i), Doubt(i, Sent(i), "kept")} :
                                           rec = Resent(sent)
                      \/ rec = Fails(Sent(i), TRUE, TRUE)
                      \/ rec = Fails(Doubt(i, Sent(i), "net"), TRUE, FALSE)
    BY <1>19 DEF TripDropped
  <2>2. rec \in RequestRecord /\ Fit(rec) /\ OwnsOf(rec) = 0
    <3>1. CASE \/ rec = Fails(Sent(i), TRUE, TRUE)
               \/ rec = Fails(Doubt(i, Sent(i), "net"), TRUE, FALSE)
      BY <1>6, <1>9, <1>20, <3>1
    <3>2. ASSUME MayResend(i), NEW sent \in {Sent(i), Doubt(i, Sent(i), "kept")},
                 rec = Resent(sent)
          PROVE  rec \in RequestRecord /\ Fit(rec) /\ OwnsOf(rec) = 0
      <4>1. Tries(sent) /\ sent.acted # "net" BY <1>6, <1>7
      <4>2. /\ sent \in RequestRecord
            /\ sent.tcp = "off" /\ sent.held = "none" /\ sent.kind = r[i].kind
            /\ sent.turned = r[i].turned /\ sent.bodies <= 1
        BY <1>5, <4>1
      <4>3. rec \in RequestRecord BY <3>2, <4>2, FieldsKeep DEF Resent, Places
      <4>4. /\ rec.pc = "send" /\ rec.tcp = sent.tcp /\ rec.conn = "none"
            /\ rec.held = sent.held /\ rec.acted = sent.acted /\ rec.bodies = sent.bodies
            /\ rec.kind = sent.kind /\ rec.turned = sent.turned /\ rec.fresh
        BY <3>2, <4>2 DEF Resent, RequestRecord
      <4>5. ~(r[i].kind = "upload" /\ ~r[i].turned) BY <3>2 DEF MayResend, Streaming
      <4>6. OwnsOf(rec) = 0 BY <4>2, <4>4 DEF OwnsOf
      <4>7. sent.acted = "kept" => sent.kind # "get" /\ ~sent.turned
        <5>1. CASE sent = Sent(i)
          BY <1>20, <5>1 DEF KeptIsFresh
        <5>2. CASE sent = Doubt(i, Sent(i), "kept")
          <6>1. Posting(i) => r[i].kind # "get" /\ ~r[i].turned BY DEF Posting
          <6>2. ~Posting(i) => sent = Sent(i)
            <7>1. Sent(i) \in RequestRecord BY <1>1, SentIsRecord
            <7>. QED BY <5>2, <7>1 DEF Doubt, RequestRecord
          <6>. QED BY <4>2, <5>1, <6>1, <6>2
        <5>. QED BY <3>2, <5>1, <5>2
      <4>8. KeptIsFresh(rec) BY <4>4, <4>7 DEF KeptIsFresh
      <4>. QED BY <4>1, <4>2, <4>3, <4>4, <4>5, <4>6, <4>8
               DEF Fit, HoldsByPlace, DoubtIsFailed, StreamedOnce
    <3>. QED BY <2>1, <3>1, <3>2
  <2>3. At(i, "trip") /\ Evicted BY <1>19 DEF TripDropped
  <2>. QED BY <1>2, <1>16, <1>19, <2>1, <2>2, <2>3, GivingMoves DEF TripDropped
<1>. QED
  BY <1>11, <1>12, <1>13, <1>14, <1>15, <1>17, <1>18, <1>19 DEF Exchange
(* The connection of a hop, if it is over one, given back.                  *)
LEMMA ReturnedMoves ==
  ASSUME RPInv, NEW i \in Requests, NEW rec \in RequestRecord, Set(i, rec), Fit(rec),
         Returned(i), OwnsOf(rec) = 0, r[i].held = "none", r[i].tcp = "off", UNCHANGED late,
         adv' \in BOOLEAN, broken' \in BOOLEAN, quicWorks' \in BOOLEAN
  PROVE  RPInv'
<1>1. CASE r[i].conn = "none"
  <2>1. OwnsOf(rec) = OwnsOf(r[i]) BY <1>1 DEF OwnsOf
  <2>2. UNCHANGED <<kept, lent, late>> BY <1>1 DEF Returned
  <2>. QED BY <2>1, <2>2, QuietMoves
<1>2. CASE r[i].conn # "none"
  <2>1. OwnsOf(r[i]) = 1 BY <1>2 DEF OwnsOf
  <2>2. GivenBack(1) BY <1>2 DEF Returned
  <2>. QED BY <2>1, <2>2, GivingMoves
<1>. QED BY <1>1, <1>2

(* A request that is over, or that begins again, owns nothing and leaves    *)
(* nothing in doubt.                                                        *)
LEMMA OverIsRecord ==
  ASSUME NEW rec \in RequestRecord
  PROVE  /\ Over(rec) \in RequestRecord /\ Fit(Over(rec)) /\ OwnsOf(Over(rec)) = 0
         /\ Handed(rec) \in RequestRecord /\ Fit(Handed(rec))
         /\ rec.held = "none" /\ rec.tcp = "off" => OwnsOf(Handed(rec)) = OwnsOf(rec)
<1>1. rec.kind \in Kinds \cup {"none"} /\ rec.conn \in {"none", "kept", "new"}
  BY DEF RequestRecord
<1>2. Over(rec) \in RequestRecord /\ Handed(rec) \in RequestRecord
  BY <1>1, NewIsRecord, FieldsKeep DEF Over, Handed, Places
<1>3. /\ Over(rec).pc = "over" /\ Over(rec).tcp = "off" /\ Over(rec).conn = "none"
      /\ Over(rec).held = "none" /\ Over(rec).acted = "no" /\ Over(rec).bodies = 0
      /\ ~Over(rec).fresh
  BY DEF Over, NewRequest
<1>4. /\ Handed(rec).pc = "handed" /\ Handed(rec).tcp = "off" /\ Handed(rec).conn = rec.conn
      /\ Handed(rec).held = "none" /\ Handed(rec).acted = "no" /\ Handed(rec).bodies = 0
      /\ ~Handed(rec).fresh
  BY DEF Handed, NewRequest
<1>. QED BY <1>2, <1>3, <1>4
         DEF Fit, HoldsByPlace, DoubtIsFailed, KeptIsFresh, StreamedOnce, OwnsOf

(* The answer: held, followed, handed out, and the stream's close.          *)
LEMMA AnswerKeeps ==
  ASSUME RPInv, NEW i \in Requests,
         \/ AnswerHeld(i) \/ AnswerRedirect(i) \/ AnswerFinal(i)
         \/ HandOver(i) \/ AskAgain(i) \/ CloseStream(i)
  PROVE  RPInv'
<1>1. r \in [Requests -> RequestRecord] /\ r[i] \in RequestRecord /\ Fit(r[i])
  BY DEF RPInv, RPTypes
<1>2. adv \in BOOLEAN /\ broken \in BOOLEAN /\ quicWorks \in BOOLEAN
  BY DEF RPInv, RPTypes
<1>3. r[i].pc \in {"answer", "final", "handed"}
  BY DEF AnswerHeld, AnswerRedirect, AnswerFinal, HandOver, AskAgain, CloseStream, At
<1>4. /\ r[i].tcp = "off" /\ r[i].held = "none" /\ r[i].acted # "net" /\ r[i].bodies <= 1
  BY <1>1, <1>3 DEF Fit, HoldsByPlace, DoubtIsFailed, KeptIsFresh, StreamedOnce
<1>12. /\ r[i].fresh => r[i].conn # "kept"
       /\ r[i].acted = "kept" => r[i].fresh /\ r[i].kind # "get" /\ ~r[i].turned
  BY <1>1 DEF Fit, KeptIsFresh
<1>5. NoteAltSvc => adv' \in BOOLEAN /\ broken' \in BOOLEAN
  BY <1>2 DEF NoteAltSvc
<1>6. CASE AnswerHeld(i)
  <2>. DEFINE over == IF r[i].conn = "none" THEN "h3" ELSE "tcp"
              came == IF r[i].kind = "get" THEN r[i].acted ELSE "status"
              fails == Fails(r[i], TRUE, FALSE)
              rec == [fails EXCEPT !.held = over, !.acted = came]
  <2>1. over \in {"h3", "tcp"} /\ (over = "tcp" <=> r[i].conn # "none") OBVIOUS
  <2>2. came \in {"no", "guess", "status", "redirect", "again"}
    BY <1>1, <1>4, <1>12 DEF RequestRecord
  <2>3. fails \in RequestRecord BY <1>1, FailsIsRecord
  <2>4. /\ fails.pc = "failed" /\ fails.conn = "none" /\ fails.tcp = "off"
        /\ fails.bodies = r[i].bodies /\ fails.held = "none" /\ fails.acted = r[i].acted
    BY <1>1, <1>4 DEF Fails, RequestRecord
  <2>5. Set(i, rec)
    <3>1. Set(i, [fails EXCEPT !.held = over,
                               !.acted = IF r[i].kind = "get" THEN fails.acted ELSE "status"])
      BY <1>6, <2>3 DEF AnswerHeld, RequestRecord
    <3>. QED BY <2>4, <3>1
  <2>. HIDE DEF over, came, fails
  <2>6. rec \in RequestRecord BY <2>1, <2>2, <2>3, FieldsKeep
  <2>7. /\ rec.pc = "failed" /\ rec.conn = "none" /\ rec.tcp = "off" /\ rec.held = over
        /\ rec.acted = came /\ rec.bodies = r[i].bodies
    BY <2>3, <2>4 DEF RequestRecord
  <2>. HIDE DEF rec
  <2>8. OwnsOf(rec) = OwnsOf(r[i]) BY <1>4, <2>1, <2>7 DEF OwnsOf
  <2>9. Fit(rec) BY <1>4, <2>2, <2>7 DEF Fit, HoldsByPlace, DoubtIsFailed, KeptIsFresh, StreamedOnce
  <2>. QED BY <1>2, <1>6, <2>5, <2>6, <2>8, <2>9, QuietMoves DEF AnswerHeld
<1>7. CASE AnswerRedirect(i)
  <2>1. PICK turns \in (IF r[i].kind = "upload" THEN {TRUE} ELSE BOOLEAN) :
          Set(i, IF r[i].hop >= MaxHops THEN Fails(r[i], FALSE, FALSE)
                 ELSE [To(i, "hop") EXCEPT !.hop = @ + 1, !.conn = "none",
                         !.turned = @ \/ turns,
                         !.acted = IF ~Posting(i) THEN @ ELSE IF turns THEN "redirect" ELSE "no"])
    BY <1>7 DEF AnswerRedirect
  <2>2. turns \in BOOLEAN /\ (r[i].kind = "upload" => turns) OBVIOUS
  <2>3. Returned(i) /\ UNCHANGED <<late, adv, broken, quicWorks>> BY <1>7 DEF AnswerRedirect
  <2>4. CASE r[i].hop >= MaxHops
    <3>. DEFINE rec == Fails(r[i], FALSE, FALSE)
    <3>1. rec \in RequestRecord BY <1>1, FailsIsRecord
    <3>2. Fit(rec) /\ OwnsOf(rec) = 0
      <4>1. /\ rec.pc = "failed" /\ rec.tcp = "off" /\ rec.conn = "none"
            /\ rec.held = "none" /\ rec.acted # "net" /\ rec.bodies <= 1
        BY <1>1, <1>4 DEF Fails, RequestRecord
      <4>2. KeptIsFresh(rec) BY <1>1, <1>12 DEF Fails, RequestRecord, KeptIsFresh
      <4>. HIDE DEF rec
      <4>. QED BY <4>1, <4>2 DEF Fit, HoldsByPlace, DoubtIsFailed, StreamedOnce, OwnsOf
    <3>3. Set(i, rec) BY <2>1, <2>4
    <3>. HIDE DEF rec
    <3>. QED BY <1>2, <1>4, <2>3, <3>1, <3>2, <3>3, ReturnedMoves
  <2>5. CASE ~(r[i].hop >= MaxHops)
    <3>. DEFINE came == IF ~Posting(i) THEN r[i].acted ELSE IF turns THEN "redirect" ELSE "no"
                turned == r[i].turned \/ turns
                rec == [To(i, "hop") EXCEPT !.hop = r[i].hop + 1, !.conn = "none",
                                            !.turned = turned, !.acted = came]
    <3>1. Set(i, rec)
      BY <1>1, <2>1, <2>5 DEF To, RequestRecord
    <3>2. r[i].hop + 1 \in 0..MaxHops
      BY <1>1, <2>5, RequestPathAssumption DEF RequestRecord
    <3>3. came \in {"no", "guess", "status", "redirect", "again"}
      BY <1>1, <1>4, <1>12 DEF RequestRecord, Posting
    <3>4. turned \in BOOLEAN /\ (r[i].kind = "upload" => turned)
      BY <2>2
    <3>. HIDE DEF came, turned
    <3>5. rec \in RequestRecord BY <1>1, <3>2, <3>3, <3>4, FieldsKeep DEF To, Places
    <3>6. /\ rec.pc = "hop" /\ rec.tcp = "off" /\ rec.conn = "none" /\ rec.held = "none"
          /\ rec.acted = came /\ rec.bodies = r[i].bodies /\ rec.kind = r[i].kind
      BY <1>1, <1>4 DEF To, RequestRecord
    <3>7. rec.turned = turned BY <1>1 DEF To, RequestRecord
    <3>. HIDE DEF rec
    <3>8. Fit(rec) /\ OwnsOf(rec) = 0
      BY <1>4, <3>3, <3>4, <3>6, <3>7
      DEF Fit, HoldsByPlace, DoubtIsFailed, KeptIsFresh, StreamedOnce, OwnsOf
    <3>. QED BY <1>2, <1>4, <2>3, <3>1, <3>5, <3>8, ReturnedMoves
  <2>. QED BY <2>4, <2>5
<1>8. CASE AnswerFinal(i)
  <2>. DEFINE rec == [To(i, "final") EXCEPT !.acted = "no"]
  <2>1. rec \in RequestRecord BY <1>1, FieldsKeep DEF To, Places
  <2>2. /\ rec.pc = "final" /\ rec.tcp = "off" /\ rec.conn = r[i].conn /\ rec.held = "none"
        /\ rec.acted = "no" /\ rec.bodies = r[i].bodies /\ rec.fresh = r[i].fresh
    BY <1>1, <1>4 DEF To, RequestRecord
  <2>3. Set(i, rec) BY <1>8 DEF AnswerFinal
  <2>. HIDE DEF rec
  <2>4. Fit(rec) /\ OwnsOf(rec) = OwnsOf(r[i])
    BY <1>4, <1>12, <2>2
    DEF Fit, HoldsByPlace, DoubtIsFailed, KeptIsFresh, StreamedOnce, OwnsOf
  <2>. QED BY <1>2, <1>8, <2>1, <2>3, <2>4, QuietMoves DEF AnswerFinal
<1>9. CASE HandOver(i)
  <2>1. Set(i, Handed(r[i])) /\ UNCHANGED <<kept, lent, late, quicWorks>> BY <1>9 DEF HandOver
  <2>2. adv' \in BOOLEAN /\ broken' \in BOOLEAN BY <1>2, <1>5, <1>9 DEF HandOver
  <2>3. /\ Handed(r[i]) \in RequestRecord /\ Fit(Handed(r[i]))
        /\ OwnsOf(Handed(r[i])) = OwnsOf(r[i])
    BY <1>1, <1>4, OverIsRecord
  <2>. QED BY <1>2, <2>1, <2>2, <2>3, QuietMoves
<1>10. CASE AskAgain(i)
  <2>. DEFINE stop == IF r[i].stop = "cancel" THEN "cancel" ELSE "no"
              rec == [NewRequest EXCEPT !.pc = "hop", !.kind = "get", !.asked = TRUE, !.stop = stop]
  <2>1. Set(i, rec) /\ Returned(i) /\ UNCHANGED <<late, quicWorks>> BY <1>10 DEF AskAgain
  <2>2. adv' \in BOOLEAN /\ broken' \in BOOLEAN BY <1>5, <1>10 DEF AskAgain
  <2>3. "get" \in Kinds \cup {"none"} BY <1>1, <1>10 DEF AskAgain, RequestRecord
  <2>4. stop \in {"no", "cancel"} OBVIOUS
  <2>. HIDE DEF stop
  <2>5. rec \in RequestRecord BY <2>3, <2>4, NewIsRecord, FieldsKeep DEF Places
  <2>6. /\ rec.pc = "hop" /\ rec.tcp = "off" /\ rec.conn = "none" /\ rec.held = "none"
        /\ rec.acted = "no" /\ rec.bodies = 0
    BY DEF NewRequest
  <2>. HIDE DEF rec
  <2>7. Fit(rec) /\ OwnsOf(rec) = 0
    BY <2>6 DEF Fit, HoldsByPlace, DoubtIsFailed, KeptIsFresh, StreamedOnce, OwnsOf
  <2>. QED BY <1>2, <1>4, <2>1, <2>2, <2>5, <2>7, ReturnedMoves
<1>11. CASE CloseStream(i)
  <2>1. Set(i, Over(r[i])) /\ Returned(i) /\ UNCHANGED <<late, adv, broken, quicWorks>>
    BY <1>11 DEF CloseStream
  <2>2. Over(r[i]) \in RequestRecord /\ Fit(Over(r[i])) /\ OwnsOf(Over(r[i])) = 0
    BY <1>1, OverIsRecord
  <2>. QED BY <1>2, <1>4, <2>1, <2>2, ReturnedMoves
<1>. QED BY <1>6, <1>7, <1>8, <1>9, <1>10, <1>11
(* A retry.  The POST in doubt ends here: nothing is held and nothing says  *)
(* that it was not processed, so that it is Forbidden.                      *)
LEMMA RetryKeeps ==
  ASSUME RPInv, NEW i \in Requests,
         GiveUp(i) \/ Backoff(i) \/ BackoffRunsOut(i) \/ BackoffEnds(i)
  PROVE  RPInv'
<1>1. r \in [Requests -> RequestRecord] /\ r[i] \in RequestRecord /\ Fit(r[i])
  BY DEF RPInv, RPTypes
<1>2. adv \in BOOLEAN /\ broken \in BOOLEAN /\ quicWorks \in BOOLEAN
  BY DEF RPInv, RPTypes
<1>3. r[i].pc \in {"failed", "backoff"}
  BY DEF GiveUp, Backoff, BackoffRunsOut, BackoffEnds, At
<1>4. /\ r[i].tcp = "off" /\ r[i].conn = "none" /\ r[i].bodies <= 1
      /\ OwnsOf(r[i]) = IF r[i].held = "tcp" THEN 1 ELSE 0
      /\ r[i].held \in {"none", "h3", "tcp"}
      /\ r[i].acted = "net" => r[i].held = "none"
      /\ r[i].pc = "backoff" => r[i].acted # "net" /\ r[i].kind # "upload"
  BY <1>1, <1>3 DEF Fit, HoldsByPlace, DoubtIsFailed, StreamedOnce, OwnsOf, RequestRecord
<1>9. /\ r[i].fresh => r[i].conn # "kept"
      /\ r[i].acted = "kept" => r[i].fresh /\ r[i].kind # "get" /\ ~r[i].turned
  BY <1>1 DEF Fit, KeptIsFresh
<1>5. ASSUME Set(i, HeldOr(i)), UNCHANGED <<kept, lent, late, adv, broken, quicWorks>>
      PROVE  RPInv'
  <2>1. CASE r[i].held = "none"
    <3>1. Set(i, Over(r[i])) BY <1>5, <2>1 DEF HeldOr
    <3>2. Over(r[i]) \in RequestRecord /\ Fit(Over(r[i])) /\ OwnsOf(Over(r[i])) = 0
      BY <1>1, OverIsRecord
    <3>. QED BY <1>2, <1>4, <1>5, <2>1, <3>1, <3>2, QuietMoves
  <2>2. CASE r[i].held # "none"
    <3>. DEFINE came == IF r[i].held = "tcp" THEN "new" ELSE "none"
                rec == [To(i, "final") EXCEPT !.conn = came, !.held = "none"]
    <3>1. Set(i, rec) BY <1>5, <2>2 DEF HeldOr
    <3>2. came \in {"new", "none"} /\ (came = "new" <=> r[i].held = "tcp") OBVIOUS
    <3>. HIDE DEF came
    <3>3. rec \in RequestRecord BY <1>1, <3>2, FieldsKeep DEF To, Places
    <3>4. /\ rec.pc = "final" /\ rec.tcp = "off" /\ rec.conn = came /\ rec.held = "none"
          /\ rec.acted = r[i].acted /\ rec.bodies = r[i].bodies
          /\ rec.fresh = r[i].fresh /\ rec.kind = r[i].kind /\ rec.turned = r[i].turned
      BY <1>1, <1>4 DEF To, RequestRecord
    <3>. HIDE DEF rec
    <3>5. Fit(rec) /\ OwnsOf(rec) = OwnsOf(r[i])
      BY <1>4, <1>9, <2>2, <3>2, <3>4
      DEF Fit, HoldsByPlace, DoubtIsFailed, KeptIsFresh, StreamedOnce, OwnsOf
    <3>. QED BY <1>2, <1>5, <3>1, <3>3, <3>5, QuietMoves
  <2>. QED BY <2>1, <2>2
<1>6. CASE GiveUp(i) \/ BackoffRunsOut(i)
  BY <1>5, <1>6 DEF GiveUp, BackoffRunsOut
<1>7. CASE Backoff(i)
  <2>. DEFINE rec == To(i, "backoff")
  <2>1. Set(i, rec) /\ At(i, "failed") /\ MayRetry(i) BY <1>7 DEF Backoff
  <2>2. rec \in RequestRecord BY <1>1, FieldsKeep DEF To, Places
  <2>3. /\ rec.pc = "backoff" /\ rec.tcp = "off" /\ rec.conn = "none" /\ rec.held = r[i].held
        /\ rec.acted = r[i].acted /\ rec.bodies = r[i].bodies /\ rec.kind = r[i].kind
        /\ rec.attempt = r[i].attempt /\ rec.fresh = r[i].fresh /\ rec.turned = r[i].turned
    BY <1>1, <1>4 DEF To, RequestRecord
  <2>4. r[i].acted # "net"
    BY <1>1, <2>1 DEF MayRetry, Forbidden, Fit, DoubtIsFailed
  <2>5. r[i].kind # "upload" /\ r[i].attempt < Attempts BY <2>1 DEF MayRetry
  <2>. HIDE DEF rec
  <2>6. Fit(rec) /\ OwnsOf(rec) = OwnsOf(r[i])
    BY <1>4, <1>9, <2>3, <2>4, <2>5
    DEF Fit, HoldsByPlace, DoubtIsFailed, KeptIsFresh, StreamedOnce, OwnsOf
  <2>. QED BY <1>2, <1>7, <2>1, <2>2, <2>6, QuietMoves DEF Backoff
<1>8. CASE BackoffEnds(i)
  <2>. DEFINE stop == IF r[i].stop = "late" THEN "no" ELSE r[i].stop
              came == IF r[i].acted \in {"kept", "guess"} THEN "again" ELSE r[i].acted
              rec == [To(i, "hop") EXCEPT !.attempt = r[i].attempt + 1, !.hop = 0, !.turned = FALSE,
                                          !.held = "none", !.stop = stop, !.acted = came]
  <2>1. Set(i, rec)
    BY <1>1, <1>8 DEF BackoffEnds, Again, To, RequestRecord
  <2>2. r[i].attempt + 1 \in 0..Attempts /\ 0 \in 0..MaxHops
    <3>1. r[i].attempt < Attempts BY <1>1, <1>8 DEF BackoffEnds, At, Fit
    <3>. QED BY <1>1, <3>1, RequestPathAssumption DEF RequestRecord
  <2>3. stop \in {"no", "late", "deadline", "cancel"} BY <1>1 DEF RequestRecord
  <2>11. /\ came \in {"no", "net", "status", "redirect", "again"}
         /\ came = "net" => r[i].acted = "net"
    BY <1>1 DEF RequestRecord
  <2>. HIDE DEF stop, came
  <2>4. rec \in RequestRecord BY <1>1, <2>2, <2>3, <2>11, FieldsKeep DEF To, Places
  <2>5. /\ rec.pc = "hop" /\ rec.tcp = "off" /\ rec.conn = "none" /\ rec.held = "none"
        /\ rec.acted = came /\ rec.bodies = r[i].bodies /\ rec.kind = r[i].kind
    BY <1>1, <1>4 DEF To, RequestRecord
  <2>6. r[i].pc = "backoff" BY <1>8 DEF BackoffEnds, At
  <2>. HIDE DEF rec
  <2>7. Fit(rec) /\ OwnsOf(rec) = 0
    BY <1>4, <2>5, <2>6, <2>11
    DEF Fit, HoldsByPlace, DoubtIsFailed, KeptIsFresh, StreamedOnce, OwnsOf
  <2>8. UNCHANGED <<late, adv, broken, quicWorks>> BY <1>8 DEF BackoffEnds
  <2>9. CASE r[i].held = "tcp"
    <3>1. GivenBack(1) BY <1>8, <2>9 DEF BackoffEnds
    <3>. QED BY <1>2, <1>4, <2>1, <2>4, <2>7, <2>8, <2>9, <3>1, GivingMoves
  <2>10. CASE r[i].held # "tcp"
    <3>1. UNCHANGED <<kept, lent>> BY <1>8, <2>10 DEF BackoffEnds
    <3>. QED BY <1>2, <1>4, <2>1, <2>4, <2>7, <2>8, <2>10, <3>1, QuietMoves
  <2>. QED BY <2>9, <2>10
<1>. QED BY <1>6, <1>7, <1>8

(* Outside a request's own steps.                                           *)
LEMMA StopKeeps ==
  ASSUME RPInv, NEW i \in Requests, NEW why \in Troubles, Stop(i, why)
  PROVE  RPInv'
<1>. DEFINE rec == [r[i] EXCEPT !.stop = why]
<1>1. r[i] \in RequestRecord /\ Fit(r[i]) BY DEF RPInv, RPTypes
<1>2. Set(i, rec) /\ UNCHANGED <<kept, lent, late, adv, broken, quicWorks>> BY DEF Stop
<1>3. why \in {"no", "late", "deadline", "cancel"} BY RequestPathAssumption
<1>4. rec \in RequestRecord BY <1>1, <1>3, FieldsKeep
<1>5. Fit(rec) /\ OwnsOf(rec) = OwnsOf(r[i])
  BY <1>1 DEF RequestRecord, Fit, HoldsByPlace, DoubtIsFailed, KeptIsFresh, StreamedOnce, OwnsOf
<1>6. adv' \in BOOLEAN /\ broken' \in BOOLEAN /\ quicWorks' \in BOOLEAN
  BY <1>2 DEF RPInv, RPTypes
<1>. HIDE DEF rec
<1>. QED BY <1>2, <1>4, <1>5, <1>6, QuietMoves

(* What decided races left behind, and the rest of the session.             *)
LEMMA LeftoverKeeps ==
  ASSUME RPInv, Leftover \/ Elsewhere
  PROVE  RPInv'
<1>1. /\ adv \in BOOLEAN /\ broken \in BOOLEAN /\ quicWorks \in BOOLEAN
      /\ kept \in 0..MaxKept /\ lent \in Nat /\ late \in [Late -> Nat]
  BY DEF RPInv, RPTypes
<1>2. /\ late["quic"] \in Nat /\ late["tcpDialing"] \in Nat /\ late["tcpUp"] \in Nat
      /\ MaxKept \in Nat
  BY <1>1, RequestPathAssumption DEF Late
<1>3. CASE LateQuic
  <2>1. late' = [late EXCEPT !["quic"] = late["quic"] - 1] BY <1>3 DEF LateQuic
  <2>2. late' \in [Late -> Nat] /\ late'["tcpUp"] = late["tcpUp"]
    <3>1. late["quic"] - 1 \in Nat BY <1>2, <1>3 DEF LateQuic
    <3>. QED BY <1>1, <2>1, <3>1 DEF Late
  <2>3. UNCHANGED <<r, kept, lent, adv>> /\ broken' \in BOOLEAN /\ quicWorks' \in BOOLEAN
    BY <1>1, <1>3 DEF LateQuic
  <2>4. Surroundings' BY <1>1, <2>2, <2>3 DEF Surroundings
  <2>. QED BY <2>2, <2>3, <2>4, RestKeeps
<1>4. CASE LateTcp
  <2>1. UNCHANGED <<r, kept, adv, broken, quicWorks>> /\ late["tcpDialing"] - 1 \in Nat
    BY <1>2, <1>4 DEF LateTcp
  <2>2. /\ late' \in [Late -> Nat] /\ lent' \in Nat
        /\ lent' - late'["tcpUp"] = lent - late["tcpUp"]
    <3>1. CASE /\ late' = [late EXCEPT !["tcpDialing"] = late["tcpDialing"] - 1,
                                       !["tcpUp"] = late["tcpUp"] + 1]
               /\ lent' = lent + 1
      <4>1. late' \in [Late -> Nat] /\ late'["tcpUp"] = late["tcpUp"] + 1
        BY <1>1, <1>2, <2>1, <3>1 DEF Late
      <4>. QED BY <1>1, <1>2, <3>1, <4>1
    <3>2. CASE late' = [late EXCEPT !["tcpDialing"] = late["tcpDialing"] - 1] /\ lent' = lent
      <4>1. late' \in [Late -> Nat] /\ late'["tcpUp"] = late["tcpUp"]
        BY <1>1, <1>2, <2>1, <3>2 DEF Late
      <4>. QED BY <1>1, <1>2, <3>2, <4>1
    <3>3. [late EXCEPT !["tcpDialing"] = @ - 1, !["tcpUp"] = @ + 1]
            = [late EXCEPT !["tcpDialing"] = late["tcpDialing"] - 1, !["tcpUp"] = late["tcpUp"] + 1]
      BY <1>1 DEF Late
    <3>. QED BY <1>4, <3>1, <3>2, <3>3 DEF LateTcp
  <2>3. Surroundings' BY <1>1, <2>1, <2>2 DEF Surroundings
  <2>. QED BY <2>1, <2>2, <2>3, RestKeeps
<1>5. CASE LateRelease
  <2>1. /\ UNCHANGED <<r, adv, broken, quicWorks>> /\ lent' = lent - 1
        /\ late' = [late EXCEPT !["tcpUp"] = late["tcpUp"] - 1] /\ late["tcpUp"] - 1 \in Nat
    BY <1>2, <1>5 DEF LateRelease, GivenBack
  <2>2. late' \in [Late -> Nat] /\ late'["tcpUp"] = late["tcpUp"] - 1
    BY <1>1, <2>1 DEF Late
  <2>3. kept' \in 0..MaxKept BY <1>1, <1>2, <1>5 DEF LateRelease, GivenBack
  <2>4. lent' \in Nat
    <3>1. lent = late["tcpUp"] + Owners /\ Owners \in Nat
      BY <1>1, <1>2, OwnersAreCounted DEF RPInv, EveryConnectionOwned, Owners
    <3>. QED BY <1>1, <1>2, <2>1, <3>1
  <2>5. Surroundings' BY <1>1, <2>1, <2>2, <2>3, <2>4 DEF Surroundings
  <2>6. lent' - late'["tcpUp"] = lent - late["tcpUp"] BY <1>1, <1>2, <2>1, <2>2
  <2>. QED BY <2>1, <2>5, <2>6, RestKeeps
<1>6. CASE Elsewhere
  <2>1. UNCHANGED <<r, lent, late, quicWorks>> BY <1>6 DEF Elsewhere
  <2>2. Surroundings' BY <1>1, <1>6 DEF Elsewhere, Surroundings
  <2>. QED BY <2>1, <2>2, RestKeeps
<1>. QED BY <1>3, <1>4, <1>5, <1>6 DEF Leftover

-----------------------------------------------------------------------------
(* Nothing is lent before the first request.                                *)
LEMMA RPInvInit == RPInit => RPInv
<1>. SUFFICES ASSUME RPInit PROVE RPInv OBVIOUS
<1>1. RPTypes
  <2>1. r \in [Requests -> RequestRecord] BY NewIsRecord DEF RPInit
  <2>2. late \in [Late -> Nat] BY DEF RPInit
  <2>3. kept \in 0..MaxKept BY RequestPathAssumption DEF RPInit
  <2>. QED BY <2>1, <2>2, <2>3 DEF RPInit, RPTypes
<1>2. \A i \in Requests : Fit(r[i]) BY NewIsRecord DEF RPInit
<1>3. OnHop = {} /\ OfHeld = {} /\ OfRace = {}
  BY DEF RPInit, NewRequest, OnHop, OfHeld, OfRace
<1>4. EveryConnectionOwned
  BY <1>3, FS_EmptySet DEF RPInit, EveryConnectionOwned, Late
<1>. QED BY <1>1, <1>2, <1>4 DEF RPInv

(* One lemma per group of actions.                                          *)
LEMMA RPInvNext == RPInv /\ [RPNext]_rpVars => RPInv'
<1>. SUFFICES ASSUME RPInv, [RPNext]_rpVars PROVE RPInv' OBVIOUS
<1>1. ASSUME NEW i \in Requests, Begin(i) \/ Progress(i) \/ CloseStream(i) PROVE RPInv'
  BY <1>1, DecideKeeps, RaceKeeps, ExchangeKeeps, AnswerKeeps, RetryKeeps DEF Progress, Decide
<1>2. CASE UNCHANGED rpVars
  <2>1. UNCHANGED <<r, kept, lent, late, adv, broken, quicWorks>> BY <1>2 DEF rpVars
  <2>2. Surroundings' BY <2>1 DEF RPInv, RPTypes, Surroundings
  <2>. QED BY <2>1, <2>2, RestKeeps
<1>. QED BY <1>1, <1>2, StopKeeps, LeftoverKeeps DEF RPNext

(* Every TCP connection whose busy count was raised has one owner, that     *)
(* will release it (Session.attempt, raceDial, respStream.Close).           *)
THEOREM ConnectionsAreOwned == RPSpec => []EveryConnectionOwned
<1>1. RPInv => EveryConnectionOwned BY DEF RPInv
<1>. QED BY RPInvInit, RPInvNext, <1>1, PTL DEF RPSpec

(* A retry never repeats a POST that the last exchange of the attempt left  *)
(* in doubt; one that died on a kept connection goes again once in its hop, *)
(* on a new connection; a streamed body goes out at most once (doStream,    *)
(* forbidden; send, freshConn).  Doubts from earlier in an attempt break    *)
(* RetryOnlyUnprocessed.                                                    *)
THEOREM LastDoubtEndsPosts == RPSpec => []NoBlindRepeat
<1>1. RPInv => NoBlindRepeat
  <2>. SUFFICES ASSUME RPInv, NEW i \in Requests
                PROVE  /\ r[i].pc \in {"h3", "trip"} => r[i].acted # "net"
                       /\ r[i].acted = "kept" => r[i].fresh
                       /\ r[i].fresh => r[i].conn # "kept"
                       /\ r[i].bodies <= 1
    BY DEF NoBlindRepeat
  <2>. QED BY DEF RPInv, Fit, DoubtIsFailed, KeptIsFresh, StreamedOnce
<1>. QED BY RPInvInit, RPInvNext, <1>1, PTL DEF RPSpec

(* The types: among them, that the count of lent connections is never       *)
(* released below zero and no request is tried more often than the policy   *)
(* allows (busy, RetryPolicy.Attempts).                                     *)
THEOREM RequestsAreTyped == RPSpec => []RPTypes
<1>1. RPInv => RPTypes BY DEF RPInv
<1>. QED BY RPInvInit, RPInvNext, <1>1, PTL DEF RPSpec

-----------------------------------------------------------------------------
(* Dials through proxies                                                   *)

(* DialEndsRight for any set of schemes and any number of repeats of the   *)
(* CONNECT.  It says what a dial that is over left behind; the invariant   *)
(* says what one that is not knows: which of its connections can still be  *)
(* open, where the target was named, and whether the last word was about   *)
(* credentials.                                                            *)
PdPlaces == {"idle", "shared", "reach", "connect", "judge", "greet", "login", "command", "relay",
             "quic", "enter", "over"}
PdVerdicts == {"none", "tunnel", "stray", "need", "needNew", "rejected", "refused", "closed",
               "dead", "timeout"}
SockStates == {"open", "closed", "unmade", "given"}
Dials == [pc : PdPlaces, scheme : {"http", "https", "socks", "udp"}, creds : BOOLEAN,
          with : BOOLEAN, again : BOOLEAN, kept : BOOLEAN, verdict : PdVerdicts,
          outcome : Outcomes, named : Nat, told : BOOLEAN, wants : BOOLEAN]
ProxyConns == [gone : BOOLEAN, unread : BOOLEAN, limit : BOOLEAN]
Assocs == [udp : {"none", "open", "closed"}, quic : {"none", "up", "dead"},
           entered : BOOLEAN, watched : BOOLEAN]

PdTypes ==
  /\ pdDial \in Dials /\ pdConn \in ProxyConns
  /\ pdAssoc \in Assocs /\ pdShut \in {"no", "taken", "done"}

NoneOpen(socks) == \A i \in DOMAIN socks : socks[i] # "open"
EarlierShut(socks) == \A i \in DOMAIN socks : i < Len(socks) => socks[i] # "open"

(* The connections: only the last can be open; the target was named on it,  *)
(* not yet, or on an earlier one.                                           *)
SocksInOrder ==
  /\ pdSocks \in Seq(SockStates) /\ EarlierShut(pdSocks)
  /\ pdDial.named <= Len(pdSocks)
  /\ pdDial.pc = "reach" \/ pdDial.named < Len(pdSocks) =>
       (pdDial.named # 0 => pdDial.told)

(* Before a connection is there: the first dial knows nothing; a repeat     *)
(* left nothing open, and only a CONNECT is repeated.                       *)
AtStart ==
  pdDial.pc \in {"idle", "shared", "reach"} =>
    /\ NoneOpen(pdSocks)
    /\ pdDial.pc # "reach" => ~pdDial.again
    /\ pdDial.again => pdDial.scheme \in {"http", "https"}
    /\ ~pdDial.again => /\ pdSocks = <<>>
                        /\ ~pdDial.wants

(* A CONNECT is sent on a connection with nothing left on it, and what was  *)
(* made of the answer is what the proxy said.                               *)
AtConnect ==
  /\ pdDial.pc \in {"connect", "judge"} =>
       /\ pdSocks # <<>>
       /\ pdDial.scheme \in {"http", "https"}
  /\ pdDial.pc = "connect" => ~pdConn.unread
  /\ pdDial.pc = "judge" =>
       /\ pdDial.named = Len(pdSocks)
       /\ pdDial.wants <=> pdDial.verdict \in {"need", "needNew", "rejected"}
       /\ pdDial.verdict \in {"tunnel", "need"} => ~pdConn.unread
       /\ pdDial.verdict = "tunnel" => ~pdConn.gone

(* SOCKS names the target in its last message.                              *)
AtSocks ==
  /\ pdDial.pc \in {"greet", "login", "command"} =>
       /\ pdSocks # <<>>
       /\ Last(pdSocks) = "open"
       /\ pdDial.named < Len(pdSocks)
       /\ ~pdDial.wants
       /\ ~pdConn.unread
       /\ ~pdConn.gone
  /\ pdDial.pc \in {"relay", "quic", "enter"} =>
       /\ pdSocks # <<>>
       /\ pdDial.named = Len(pdSocks)
       /\ ~pdDial.wants

(* There is no association before the relay answered; it has a connection   *)
(* to live on.                                                              *)
OverRelay ==
  /\ pdAssoc = NewPdAssoc \/ (pdAssoc.udp # "none" /\ pdSocks # <<>>)
  /\ pdDial.pc \in PdPlaces \ {"quic", "enter", "over"} => pdAssoc = NewPdAssoc
  /\ pdDial.pc \in {"quic", "enter"} => pdAssoc.udp # "none"

AtEnd ==
  pdDial.pc = "over" =>
    /\ pdDial.outcome \notin {"tunnel", "association"} => NoneOpen(pdSocks)
    /\ pdDial.outcome = "tunnel" =>
         /\ pdSocks # <<>>
         /\ Last(pdSocks) = "open"
         /\ ~pdConn.unread
         /\ ~pdConn.limit
         /\ ~pdConn.gone
         /\ pdAssoc = NewPdAssoc
    /\ pdDial.outcome = "association" =>
         /\ pdAssoc.udp # "none"
         /\ (pdAssoc.udp = "open" \/ Last(pdSocks) = "open") => pdAssoc.entered /\ pdShut # "done"

(* What the end says of the last connection.                                *)
StageOfLast ==
  pdDial.pc = "over" =>
    /\ pdDial.outcome = "auth" <=> pdDial.wants
    /\ pdDial.outcome = "dial" => pdDial.named # Len(pdSocks)
    /\ pdDial.outcome = "connect" => pdDial.named = Len(pdSocks)

PdInv == /\ PdTypes /\ SocksInOrder /\ AtStart /\ AtConnect /\ AtSocks /\ OverRelay
         /\ AtEnd /\ StageOfLast

-----------------------------------------------------------------------------
(* The connections of a dial: one more, or another state of the last.      *)
LEMMA OneSockMore ==
  ASSUME NEW socks \in Seq(SockStates), NoneOpen(socks), NEW state \in SockStates
  PROVE  LET new == Append(socks, state) IN
         /\ new \in Seq(SockStates) /\ Len(new) = Len(socks) + 1 /\ new # <<>>
         /\ Last(new) = state /\ EarlierShut(new)
         /\ state # "open" => NoneOpen(new)
<1>. DEFINE new == Append(socks, state)
<1>1. /\ new \in Seq(SockStates) /\ Len(new) = Len(socks) + 1
      /\ \A i \in 1..Len(socks) : new[i] = socks[i]
      /\ new[Len(socks) + 1] = state
      /\ DOMAIN socks = 1..Len(socks) /\ DOMAIN new = 1..Len(new) /\ Len(socks) \in Nat
  BY AppendProperties, LenProperties
<1>. HIDE DEF new
<1>2. new # <<>> /\ Last(new) = state BY <1>1 DEF Last
<1>3. EarlierShut(new) BY <1>1 DEF EarlierShut, NoneOpen
<1>4. ASSUME state # "open" PROVE NoneOpen(new)
  <2>. SUFFICES ASSUME NEW i \in DOMAIN new PROVE new[i] # "open" BY DEF NoneOpen
  <2>1. i \in DOMAIN socks \/ i = Len(socks) + 1 BY <1>1
  <2>. QED BY <1>1, <1>4, <2>1 DEF NoneOpen
<1>. QED BY <1>1, <1>2, <1>3, <1>4 DEF new

LEMMA LastSockIs ==
  ASSUME NEW socks \in Seq(SockStates), EarlierShut(socks), socks # <<>>,
         NEW state \in SockStates
  PROVE  LET new == [socks EXCEPT ![Len(socks)] = state] IN
         /\ new \in Seq(SockStates) /\ Len(new) = Len(socks) /\ new # <<>>
         /\ Last(new) = state /\ EarlierShut(new)
         /\ state # "open" => NoneOpen(new)
<1>. DEFINE new == [socks EXCEPT ![Len(socks)] = state]
<1>1. DOMAIN socks = 1..Len(socks) /\ Len(socks) \in Nat /\ Len(socks) # 0
  BY LenProperties, EmptySeq
<1>2. new \in Seq(SockStates) /\ Len(new) = Len(socks)
  BY <1>1, ExceptSeq
<1>3. /\ new[Len(new)] = state /\ DOMAIN new = DOMAIN socks
      /\ \A i \in DOMAIN socks : i # Len(socks) => new[i] = socks[i]
  BY <1>1, <1>2
<1>. HIDE DEF new
<1>4. new # <<>> /\ Last(new) = state BY <1>1, <1>2, <1>3 DEF Last
<1>5. EarlierShut(new) BY <1>1, <1>2, <1>3 DEF EarlierShut
<1>6. ASSUME state # "open" PROVE NoneOpen(new)
  <2>. SUFFICES ASSUME NEW i \in DOMAIN new PROVE new[i] # "open" BY DEF NoneOpen
  <2>1. CASE i = Len(socks) BY <1>2, <1>3, <1>6, <2>1
  <2>2. CASE i # Len(socks)
    <3>1. i < Len(socks) /\ new[i] = socks[i] BY <1>1, <1>3, <2>2
    <3>. QED BY <1>3, <3>1 DEF EarlierShut
  <2>. QED BY <2>1, <2>2
<1>. QED BY <1>2, <1>4, <1>5, <1>6 DEF new

(* Where a dial is over with no connection, or its last one, in a state.    *)
LEMMA SockIsLast ==
  ASSUME SocksInOrder, pdSocks # <<>>, NEW state \in SockStates, SockIs(state)
  PROVE  /\ pdSocks' \in Seq(SockStates) /\ Len(pdSocks') = Len(pdSocks) /\ pdSocks' # <<>>
         /\ Last(pdSocks') = state /\ EarlierShut(pdSocks') /\ Len(pdSocks) \in Nat
         /\ state # "open" => NoneOpen(pdSocks')
BY LastSockIs, LenProperties DEF SockIs, SocksInOrder

LEMMA SockIsNew ==
  ASSUME SocksInOrder, NoneOpen(pdSocks), NEW state \in SockStates,
         pdSocks' = Append(pdSocks, state)
  PROVE  /\ pdSocks' \in Seq(SockStates) /\ Len(pdSocks') = Len(pdSocks) + 1 /\ pdSocks' # <<>>
         /\ Last(pdSocks') = state /\ EarlierShut(pdSocks') /\ Len(pdSocks) \in Nat
         /\ state # "open" => NoneOpen(pdSocks')
BY OneSockMore, LenProperties DEF SocksInOrder

-----------------------------------------------------------------------------
(* The steps of a dial                                                     *)
LEMMA BeginsInv == PdInv /\ BeginsDial => PdInv'
<1>. SUFFICES ASSUME PdInv, BeginsDial PROVE PdInv'
  OBVIOUS
<1>1. PdTypes' BY DEF PdInv, PdTypes, Dials, PdPlaces, BeginsDial
<1>2. SocksInOrder'
  <2>1. pdSocks = <<>> /\ Len(pdSocks) = 0 BY DEF PdInv, AtStart, BeginsDial
  <2>2. /\ pdDial \in Dials /\ UNCHANGED pdSocks /\ pdDial'.named = pdDial.named
    BY DEF PdInv, PdTypes, Dials, BeginsDial
  <2>3. pdDial.named = 0 BY <2>1, <2>2 DEF PdInv, SocksInOrder, Dials
  <2>. QED BY <2>1, <2>2, <2>3 DEF PdInv, SocksInOrder
<1>3. AtStart' /\ AtConnect' /\ AtSocks' /\ OverRelay' /\ AtEnd' /\ StageOfLast'
  BY DEF PdInv, AtStart, AtConnect, AtSocks, OverRelay, AtEnd, StageOfLast, PdTypes, Dials,
         PdPlaces, BeginsDial, NewPdAssoc
<1>. QED BY <1>1, <1>2, <1>3 DEF PdInv

LEMMA AsksInv == PdInv /\ AsksShared => PdInv'
<1>. SUFFICES ASSUME PdInv, AsksShared PROVE PdInv'
  OBVIOUS
<1>0. pdSocks = <<>> /\ Len(pdSocks) = 0
  BY DEF PdInv, AtStart, AsksShared
<1>a. pdDial' \in Dials /\ (pdDial'.named = pdDial.named \/ pdDial'.named = 0)
  <2>1. CASE \E told \in BOOLEAN : pdDial' = [pdDial EXCEPT !.pc = "reach", !.told = told]
    BY <2>1 DEF PdInv, PdTypes, Dials, PdPlaces, Outcomes
  <2>2. CASE pdDial' = [pdDial EXCEPT !.pc = "over", !.outcome = "shared"]
    BY <2>2 DEF PdInv, PdTypes, Dials, PdPlaces, Outcomes
  <2>3. CASE pdDial' = [pdDial EXCEPT !.pc = "over", !.outcome = "connect", !.named = Len(pdSocks)]
    BY <1>0, <2>3 DEF PdInv, PdTypes, Dials, PdPlaces, Outcomes
  <2>4. CASE pdDial' = [pdDial EXCEPT !.pc = "over", !.outcome = "auth", !.wants = TRUE]
    BY <2>4 DEF PdInv, PdTypes, Dials, PdPlaces, Outcomes
  <2>. QED BY <2>1, <2>2, <2>3, <2>4 DEF AsksShared
<1>1. PdTypes' BY <1>a DEF PdInv, PdTypes, AsksShared
<1>2. SocksInOrder'
  <2>1. pdDial'.named = 0 BY <1>0, <1>a DEF PdInv, PdTypes, Dials, SocksInOrder
  <2>2. UNCHANGED pdSocks BY DEF AsksShared
  <2>3. 0 <= Len(pdSocks) /\ ~(0 < Len(pdSocks)) BY <1>0
  <2>. QED BY <2>1, <2>2, <2>3 DEF PdInv, SocksInOrder
<1>3. AtStart' /\ AtConnect' /\ AtSocks' /\ OverRelay' /\ AtEnd' /\ StageOfLast'
  BY <1>0 DEF PdInv, AtStart, AtConnect, AtSocks, OverRelay, AtEnd, StageOfLast, PdTypes, Dials,
         PdPlaces, AsksShared, NewPdAssoc
<1>. QED BY <1>1, <1>2, <1>3 DEF PdInv

LEMMA UnreachedInv == PdInv /\ Unreached => PdInv'
<1>. SUFFICES ASSUME PdInv, Unreached PROVE PdInv'
  OBVIOUS
<1>0. PICK state \in SockStates : state # "open" /\ pdSocks' = Append(pdSocks, state)
  BY DEF Unreached, SockStates
<1>1. NoneOpen(pdSocks) /\ SocksInOrder BY DEF PdInv, AtStart, Unreached
<1>2. /\ pdSocks' \in Seq(SockStates) /\ Len(pdSocks') = Len(pdSocks) + 1 /\ pdSocks' # <<>>
      /\ Last(pdSocks') = state /\ EarlierShut(pdSocks') /\ Len(pdSocks) \in Nat
      /\ NoneOpen(pdSocks')
  BY <1>0, <1>1, SockIsNew
<1>3. PdTypes' BY DEF PdInv, PdTypes, Dials, PdPlaces, Outcomes, Unreached
<1>4. SocksInOrder' BY <1>2 DEF PdInv, SocksInOrder, PdTypes, Dials, Unreached
<1>5. AtStart' /\ AtConnect' /\ AtSocks' /\ OverRelay' /\ AtEnd' /\ StageOfLast'
  BY <1>2 DEF PdInv, SocksInOrder, AtStart, AtConnect, AtSocks, OverRelay, AtEnd, StageOfLast,
              PdTypes, Dials, PdPlaces, Unreached, NewPdAssoc
<1>. QED BY <1>3, <1>4, <1>5 DEF PdInv

LEMMA ReachesH2Inv == PdInv /\ ReachesH2 => PdInv'
<1>. SUFFICES ASSUME PdInv, ReachesH2 PROVE PdInv'
  OBVIOUS
<1>0. PICK state \in SockStates : state # "open" /\ pdSocks' = Append(pdSocks, state)
  BY DEF ReachesH2, SockStates
<1>1. NoneOpen(pdSocks) /\ SocksInOrder BY DEF PdInv, AtStart, ReachesH2
<1>2. /\ pdSocks' \in Seq(SockStates) /\ Len(pdSocks') = Len(pdSocks) + 1 /\ pdSocks' # <<>>
      /\ Last(pdSocks') = state /\ EarlierShut(pdSocks') /\ Len(pdSocks) \in Nat
      /\ NoneOpen(pdSocks')
  BY <1>0, <1>1, SockIsNew
<1>a. pdDial' \in Dials /\ (pdDial'.named = pdDial.named \/ pdDial'.named = Len(pdSocks) + 1)
  <2>1. CASE pdDial' = [pdDial EXCEPT !.pc = "over", !.outcome = "shared"]
    BY <2>1 DEF PdInv, PdTypes, Dials, PdPlaces, Outcomes
  <2>2. CASE pdDial' = [pdDial EXCEPT !.pc = "over", !.outcome = "connect",
                                     !.named = Len(pdSocks) + 1]
    <3>1. PICK n \in Nat : n = Len(pdSocks) + 1 BY <1>2
    <3>. QED BY <2>2, <3>1 DEF PdInv, PdTypes, Dials, PdPlaces, Outcomes
  <2>3. CASE pdDial' = [pdDial EXCEPT !.pc = "over", !.outcome = "auth", !.wants = TRUE]
    BY <2>3 DEF PdInv, PdTypes, Dials, PdPlaces, Outcomes
  <2>4. CASE pdDial' = [pdDial EXCEPT !.pc = "over", !.outcome = "closed"]
    BY <2>4 DEF PdInv, PdTypes, Dials, PdPlaces, Outcomes
  <2>. QED BY <2>1, <2>2, <2>3, <2>4 DEF ReachesH2
<1>3. PdTypes' BY <1>a DEF PdInv, PdTypes, ReachesH2
<1>4. SocksInOrder'
  <2>1. pdDial.named = 0
    <3>1. pdSocks = <<>> /\ Len(pdSocks) = 0 BY DEF PdInv, AtStart, ReachesH2
    <3>. QED BY <3>1 DEF PdInv, PdTypes, Dials, SocksInOrder
  <2>2. pdDial'.pc = "over" BY DEF ReachesH2, PdInv, PdTypes, Dials
  <2>. QED BY <1>2, <1>a, <2>1, <2>2 DEF PdInv, SocksInOrder
<1>5. AtStart' /\ AtConnect' /\ AtSocks' /\ OverRelay' /\ AtEnd' /\ StageOfLast'
  BY <1>2 DEF PdInv, SocksInOrder, AtStart, AtConnect, AtSocks, OverRelay, AtEnd, StageOfLast,
              PdTypes, Dials, PdPlaces, ReachesH2, NewPdAssoc
<1>. QED BY <1>3, <1>4, <1>5 DEF PdInv

LEMMA ReachesInv == PdInv /\ Reaches => PdInv'
<1>. SUFFICES ASSUME PdInv, Reaches PROVE PdInv'
  OBVIOUS
<1>1. /\ NoneOpen(pdSocks) /\ SocksInOrder
      /\ "open" \in SockStates /\ pdSocks' = Append(pdSocks, "open")
  BY DEF PdInv, AtStart, Reaches, SockStates
<1>2. /\ pdSocks' \in Seq(SockStates) /\ Len(pdSocks') = Len(pdSocks) + 1 /\ pdSocks' # <<>>
      /\ Last(pdSocks') = "open" /\ EarlierShut(pdSocks') /\ Len(pdSocks) \in Nat
  BY <1>1, SockIsNew
<1>3. PdTypes' BY DEF PdInv, PdTypes, Dials, ProxyConns, PdPlaces, NewPdConn, Reaches
<1>4. SocksInOrder' BY <1>2 DEF PdInv, SocksInOrder, PdTypes, Dials, Reaches
<1>5. AtStart' /\ AtConnect' /\ AtSocks' /\ OverRelay' /\ AtEnd' /\ StageOfLast'
  BY <1>2 DEF PdInv, SocksInOrder, AtStart, AtConnect, AtSocks, OverRelay, AtEnd, StageOfLast,
              PdTypes, Dials, PdPlaces, Reaches, NewPdAssoc, NewPdConn
<1>. QED BY <1>3, <1>4, <1>5 DEF PdInv

-----------------------------------------------------------------------------
(* CONNECT                                                                 *)
LEMMA ConnectsInv == PdInv /\ Connects => PdInv'
<1>. SUFFICES ASSUME PdInv, Connects PROVE PdInv'
  OBVIOUS
<1>1. PICK a \in ConnectAnswers :
        /\ pdConn.gone => a.said \in {"hangup", "cut"}
        /\ pdDial' = [pdDial EXCEPT !.pc = "judge", !.verdict = Verdict(a, pdDial.with),
                         !.named = Len(pdSocks), !.wants = (a.said = "407")]
        /\ pdConn' = [pdConn EXCEPT !.unread = @ \/ a.extra \/ ~a.drains,
                        !.gone = @ \/ a.said \in {"hangup", "cut"} \/ a.closes # "no"]
  BY DEF Connects
<1>2. /\ a.said \in {"2xx", "407", "refusal", "hangup", "cut", "silence"}
      /\ a.extra \in BOOLEAN
      /\ a.drains \in BOOLEAN
      /\ a.said = "2xx" => a.drains /\ a.closes = "no"
  <2>1. CASE \E s \in {"2xx", "refusal", "hangup", "cut", "silence"} :
               a = [said |-> s, extra |-> FALSE, drains |-> TRUE, closes |-> "no"]
    BY <2>1
  <2>2. CASE \E s \in {"2xx", "407"} :
               a = [said |-> s, extra |-> TRUE, drains |-> TRUE, closes |-> "no"]
    BY <2>2
  <2>3. CASE \E d \in BOOLEAN, c \in {"no", "announced", "quietly"} :
               a = [said |-> "407", extra |-> FALSE, drains |-> d, closes |-> c]
    BY <2>3
  <2>. QED BY <1>1, <2>1, <2>2, <2>3 DEF ConnectAnswers
<1>. DEFINE v == Verdict(a, pdDial.with)
<1>3. /\ v \in PdVerdicts
      /\ (a.said = "407") <=> v \in {"need", "needNew", "rejected"}
      /\ v = "tunnel" => a.said = "2xx" /\ ~a.extra
      /\ v = "need" => ~a.extra /\ a.drains
  BY <1>2 DEF Verdict, PdVerdicts
<1>. HIDE DEF v
<1>4. /\ pdDial' = [pdDial EXCEPT !.pc = "judge", !.verdict = v, !.named = Len(pdSocks),
                                 !.wants = (a.said = "407")]
      /\ Len(pdSocks) \in Nat /\ pdDial.pc = "connect"
      /\ UNCHANGED <<pdSocks, pdAssoc, pdShut>>
  BY <1>1, LenProperties DEF v, Connects, PdInv, SocksInOrder
<1>5. PdTypes' BY <1>1, <1>3, <1>4 DEF PdInv, PdTypes, Dials, ProxyConns, PdPlaces
<1>6. pdDial \in Dials /\ pdConn \in ProxyConns BY DEF PdInv, PdTypes
<1>7. /\ pdDial'.pc = "judge" /\ pdDial'.verdict = v /\ pdDial'.named = Len(pdSocks)
      /\ pdDial'.wants <=> (a.said = "407")
      /\ pdDial'.scheme = pdDial.scheme
  BY <1>4, <1>6 DEF Dials
<1>8. /\ pdConn'.unread <=> (pdConn.unread \/ a.extra \/ ~a.drains)
      /\ pdConn'.gone <=> (pdConn.gone \/ a.said \in {"hangup", "cut"} \/ a.closes # "no")
  BY <1>1, <1>6 DEF ProxyConns
<1>9. SocksInOrder' BY <1>4, <1>7 DEF PdInv, SocksInOrder
<1>10. AtConnect' BY <1>1, <1>2, <1>3, <1>4, <1>7, <1>8 DEF PdInv, AtConnect
<1>11. AtStart' /\ AtSocks' /\ OverRelay' /\ AtEnd' /\ StageOfLast'
  BY <1>4, <1>7 DEF PdInv, AtStart, AtSocks, OverRelay, AtEnd, StageOfLast, PdPlaces
<1>. QED BY <1>5, <1>9, <1>10, <1>11 DEF PdInv

(* The three ways to a connection more.                                     *)
LEMMA DialsAgainInv ==
  ASSUME PdInv, pdDial.pc = "judge", DialsAgain
  PROVE  PdInv'
<1>1. pdSocks # <<>> /\ SocksInOrder /\ SockIs("closed") /\ "closed" \in SockStates
  BY DEF PdInv, AtConnect, DialsAgain, SockStates
<1>2. /\ pdSocks' \in Seq(SockStates) /\ Len(pdSocks') = Len(pdSocks) /\ EarlierShut(pdSocks')
      /\ NoneOpen(pdSocks') /\ pdSocks' # <<>>
  BY <1>1, SockIsLast
<1>3. PdTypes' BY DEF PdInv, PdTypes, Dials, ProxyConns, PdPlaces, DialsAgain
<1>4. SocksInOrder' BY <1>2 DEF PdInv, SocksInOrder, PdTypes, Dials, DialsAgain
<1>5. AtStart' /\ AtConnect' /\ AtSocks' /\ OverRelay' /\ AtEnd' /\ StageOfLast'
  BY <1>2 DEF PdInv, AtStart, AtConnect, AtSocks, OverRelay, AtEnd, StageOfLast, PdTypes, Dials,
              PdPlaces, DialsAgain, NewPdAssoc
<1>. QED BY <1>3, <1>4, <1>5 DEF PdInv

LEMMA RetriesInv == PdInv /\ (HangUpRetry \/ ChallengeRetry \/ DeadRetry) => PdInv'
<1>. SUFFICES ASSUME PdInv, HangUpRetry \/ ChallengeRetry \/ DeadRetry PROVE PdInv'
  OBVIOUS
<1>0. pdDial.pc = "judge" BY DEF HangUpRetry, ChallengeRetry, DeadRetry
<1>1. CASE DialsAgain BY <1>0, <1>1, DialsAgainInv
<1>2. CASE ~DialsAgain
  <2>1. /\ pdDial.verdict = "need"
        /\ pdDial' = [pdDial EXCEPT !.pc = "connect", !.with = TRUE, !.kept = TRUE]
        /\ UNCHANGED <<pdSocks, pdConn, pdAssoc, pdShut>>
    BY <1>2 DEF HangUpRetry, ChallengeRetry, DeadRetry
  <2>2. PdTypes' BY <2>1 DEF PdInv, PdTypes, Dials, PdPlaces
  <2>3. SocksInOrder' BY <2>1 DEF PdInv, SocksInOrder, PdTypes, Dials
  <2>4. AtStart' /\ AtConnect' /\ AtSocks' /\ OverRelay' /\ AtEnd' /\ StageOfLast'
    BY <1>0, <2>1 DEF PdInv, AtStart, AtConnect, AtSocks, OverRelay, AtEnd, StageOfLast, PdTypes,
                      Dials, PdPlaces, NewPdAssoc
  <2>. QED BY <2>2, <2>3, <2>4 DEF PdInv
<1>. QED BY <1>1, <1>2

LEMMA TunnelsInv == PdInv /\ Tunnels => PdInv'
<1>. SUFFICES ASSUME PdInv, Tunnels PROVE PdInv'
  OBVIOUS
<1>1. pdSocks # <<>> /\ SocksInOrder /\ SockIs("open") /\ "open" \in SockStates
  BY DEF PdInv, AtConnect, Tunnels, PdEnds, SockIs, SockStates
<1>2. /\ pdSocks' \in Seq(SockStates) /\ Len(pdSocks') = Len(pdSocks) /\ EarlierShut(pdSocks')
      /\ pdSocks' # <<>> /\ Last(pdSocks') = "open"
  BY <1>1, SockIsLast
<1>3. PdTypes' BY DEF PdInv, PdTypes, Dials, ProxyConns, PdPlaces, Outcomes, Tunnels, PdEnds
<1>4. SocksInOrder' BY <1>2 DEF PdInv, SocksInOrder, PdTypes, Dials, Tunnels, PdEnds
<1>5. AtStart' /\ AtConnect' /\ AtSocks' /\ OverRelay'
  BY <1>2 DEF PdInv, AtStart, AtConnect, AtSocks, OverRelay, PdTypes, Dials,
              PdPlaces, Tunnels, PdEnds, NewPdAssoc
<1>6. AtEnd' /\ StageOfLast'
  BY <1>2 DEF PdInv, AtConnect, OverRelay, AtEnd, StageOfLast, PdTypes, Dials, ProxyConns,
              PdPlaces, Tunnels, PdEnds
<1>. QED BY <1>3, <1>4, <1>5, <1>6 DEF PdInv

LEMMA RefusedInv == PdInv /\ ProxyRefused => PdInv'
<1>. SUFFICES ASSUME PdInv, ProxyRefused PROVE PdInv'
  OBVIOUS
<1>1. pdSocks # <<>> /\ SocksInOrder /\ SockIs("closed") /\ "closed" \in SockStates
  BY DEF PdInv, AtConnect, ProxyRefused, PdEnds, SockIs, SockStates
<1>2. /\ pdSocks' \in Seq(SockStates) /\ Len(pdSocks') = Len(pdSocks) /\ EarlierShut(pdSocks')
      /\ pdSocks' # <<>> /\ NoneOpen(pdSocks')
  BY <1>1, SockIsLast
<1>. DEFINE stage == Stage(pdDial.verdict)
<1>3. /\ stage \in {"auth", "connect"}
      /\ (stage = "auth") <=> (pdDial.verdict \in {"need", "needNew", "rejected"})
  BY DEF Stage
<1>4. /\ pdDial' = [pdDial EXCEPT !.pc = "over", !.outcome = stage] /\ pdDial \in Dials
      /\ pdDial.pc = "judge"
      /\ UNCHANGED <<pdAssoc, pdShut>>
  BY DEF ProxyRefused, PdEnds, PdInv, PdTypes
<1>. HIDE DEF stage
<1>5. PdTypes' BY <1>3, <1>4 DEF PdInv, PdTypes, Dials, ProxyConns, PdPlaces, Outcomes, ProxyRefused
<1>6. SocksInOrder' BY <1>2, <1>4 DEF PdInv, SocksInOrder, Dials
<1>7. AtStart' /\ AtConnect' /\ AtSocks' /\ OverRelay'
  BY <1>2, <1>4 DEF PdInv, AtStart, AtConnect, AtSocks, OverRelay, Dials, PdPlaces, NewPdAssoc
<1>8. AtEnd' /\ StageOfLast'
  BY <1>2, <1>3, <1>4 DEF PdInv, AtConnect, AtEnd, StageOfLast, Dials
<1>. QED BY <1>5, <1>6, <1>7, <1>8 DEF PdInv

-----------------------------------------------------------------------------
(* SOCKS                                                                   *)

(* How the negotiation ends without a tunnel: the connection closed, the    *)
(* target named or not, credentials asked for or not.                       *)
LEMMA GivesUp ==
  ASSUME PdInv, pdSocks # <<>>, SockIs("closed"), UNCHANGED <<pdConn, pdShut>>,
         pdAssoc' \in Assocs, pdAssoc'.udp # "none" \/ pdAssoc' = NewPdAssoc,
         pdDial' \in Dials, pdDial'.pc = "over", pdDial'.named <= Len(pdSocks),
         pdDial'.outcome \notin {"tunnel", "association"},
         (pdDial'.outcome = "auth") <=> pdDial'.wants,
         pdDial'.named < Len(pdSocks) => (pdDial'.named # 0 => pdDial'.told),
         pdDial'.outcome = "dial" => pdDial'.named < Len(pdSocks),
         pdDial'.outcome = "connect" => pdDial'.named = Len(pdSocks)
  PROVE  PdInv'
<1>1. SocksInOrder /\ "closed" \in SockStates BY DEF PdInv, SockStates
<1>2. /\ pdSocks' \in Seq(SockStates) /\ Len(pdSocks') = Len(pdSocks) /\ EarlierShut(pdSocks')
      /\ pdSocks' # <<>> /\ NoneOpen(pdSocks') /\ Len(pdSocks) \in Nat
  BY <1>1, SockIsLast
<1>3. PdTypes' BY DEF PdInv, PdTypes
<1>4. SocksInOrder' BY <1>2 DEF SocksInOrder
<1>5. AtStart' /\ AtConnect' /\ AtSocks' /\ OverRelay'
  BY <1>2 DEF AtStart, AtConnect, AtSocks, OverRelay, NewPdAssoc
<1>6. pdDial'.named \in Nat BY DEF Dials
<1>7. AtEnd' /\ StageOfLast' BY <1>2, <1>6 DEF AtEnd, StageOfLast
<1>. QED BY <1>3, <1>4, <1>5, <1>7 DEF PdInv

LEMMA GreetsInv == PdInv /\ (Greets \/ LogsIn) => PdInv'
<1>. SUFFICES ASSUME PdInv, Greets \/ LogsIn PROVE PdInv'
  OBVIOUS
<1>1. /\ pdDial.pc \in {"greet", "login"} /\ pdSocks # <<>> /\ ~pdDial.wants
      /\ pdDial.named < Len(pdSocks) /\ pdDial \in Dials /\ pdAssoc = NewPdAssoc
      /\ UNCHANGED <<pdConn, pdAssoc, pdShut>> /\ Len(pdSocks) \in Nat
      /\ pdAssoc \in Assocs /\ (pdDial.named # 0 => pdDial.told)
  BY LenProperties DEF Greets, LogsIn, PdInv, PdTypes, AtSocks, OverRelay, PdPlaces, SocksInOrder
<1>2. CASE \E o \in {"dial", "configuration"} : PdEnds(o, "closed")
  <2>1. PICK o \in {"dial", "configuration"} : PdEnds(o, "closed") BY <1>2
  <2>2. SockIs("closed") BY <1>1, <2>1 DEF PdEnds, SockIs
  <2>3. pdDial' = [pdDial EXCEPT !.pc = "over", !.outcome = o] BY <2>1 DEF PdEnds
  <2>4. /\ pdDial' \in Dials /\ pdDial'.pc = "over" /\ pdDial'.outcome = o
        /\ pdDial'.named = pdDial.named /\ pdDial'.wants = pdDial.wants
        /\ pdDial.named \in Nat /\ pdDial'.told = pdDial.told
    BY <1>1, <2>3 DEF Dials, PdPlaces, Outcomes
  <2>. QED BY <1>1, <2>1, <2>2, <2>4, GivesUp
<1>3. CASE /\ pdDial' = [pdDial EXCEPT !.pc = "over", !.outcome = "auth", !.wants = TRUE]
           /\ SockIs("closed")
  <2>1. /\ pdDial' \in Dials /\ pdDial'.pc = "over" /\ pdDial'.outcome = "auth"
        /\ pdDial'.named = pdDial.named /\ pdDial'.wants = TRUE
        /\ pdDial.named \in Nat /\ pdDial'.told = pdDial.told
    BY <1>1, <1>3 DEF Dials, PdPlaces, Outcomes
  <2>. QED BY <1>1, <1>3, <2>1, GivesUp
<1>4. CASE /\ \E p \in {"command", "login"} : pdDial' = [pdDial EXCEPT !.pc = p]
           /\ UNCHANGED pdSocks
  <2>1. PICK p \in {"command", "login"} : pdDial' = [pdDial EXCEPT !.pc = p] BY <1>4
  <2>2. PdTypes' BY <1>1, <2>1 DEF PdInv, PdTypes, Dials, PdPlaces
  <2>3. SocksInOrder' BY <1>1, <1>4, <2>1 DEF PdInv, SocksInOrder, Dials
  <2>4. AtStart' /\ AtConnect' /\ AtSocks' /\ OverRelay' /\ AtEnd' /\ StageOfLast'
    BY <1>1, <1>4, <2>1 DEF PdInv, AtStart, AtConnect, AtSocks, OverRelay, AtEnd, StageOfLast,
                            Dials, PdPlaces
  <2>. QED BY <2>2, <2>3, <2>4 DEF PdInv
<1>. QED BY <1>2, <1>3, <1>4 DEF Greets, LogsIn

LEMMA CommandsInv == PdInv /\ Commands => PdInv'
<1>. SUFFICES ASSUME PdInv, Commands PROVE PdInv'
  OBVIOUS
<1>1. /\ pdDial.pc = "command" /\ pdSocks # <<>> /\ ~pdDial.wants
      /\ pdDial.named < Len(pdSocks) /\ pdDial \in Dials /\ pdAssoc = NewPdAssoc
      /\ UNCHANGED <<pdAssoc, pdShut>> /\ Len(pdSocks) \in Nat
      /\ pdAssoc \in Assocs /\ Last(pdSocks) = "open" /\ ~pdConn.unread /\ ~pdConn.gone
      /\ pdDial.named # 0 => pdDial.told
  BY LenProperties DEF Commands, PdInv, PdTypes, AtSocks, OverRelay, PdPlaces, SocksInOrder
<1>2. CASE PdEnds("configuration", "closed") /\ UNCHANGED pdConn
  <2>2. SockIs("closed") BY <1>1, <1>2 DEF PdEnds, SockIs
  <2>3. pdDial' = [pdDial EXCEPT !.pc = "over", !.outcome = "configuration"] BY <1>2 DEF PdEnds
  <2>4. /\ pdDial' \in Dials /\ pdDial'.pc = "over" /\ pdDial'.outcome = "configuration"
        /\ pdDial'.named = pdDial.named /\ pdDial'.wants = pdDial.wants
        /\ pdDial.named \in Nat /\ pdDial'.told = pdDial.told
    BY <1>1, <2>3 DEF Dials, PdPlaces, Outcomes
  <2>. QED BY <1>1, <1>2, <2>2, <2>4, GivesUp
<1>3. CASE /\ pdDial' = [pdDial EXCEPT !.pc = "over", !.outcome = "connect",
                                       !.named = Len(pdSocks), !.wants = FALSE]
           /\ SockIs("closed") /\ UNCHANGED pdConn
  <2>1. PICK n \in Nat : n = Len(pdSocks) BY <1>1
  <2>2. /\ pdDial' \in Dials /\ pdDial'.pc = "over" /\ pdDial'.outcome = "connect"
        /\ pdDial'.named = Len(pdSocks) /\ pdDial'.wants = FALSE
    BY <1>1, <1>3, <2>1 DEF Dials, PdPlaces, Outcomes
  <2>. QED BY <1>1, <1>3, <2>2, GivesUp
<1>4. CASE /\ pdDial' = [pdDial EXCEPT !.pc = IF pdDial.scheme = "udp" THEN "relay" ELSE "over",
                            !.outcome = IF pdDial.scheme = "udp" THEN "none" ELSE "tunnel",
                            !.named = Len(pdSocks), !.wants = FALSE]
           /\ pdConn' = [pdConn EXCEPT !.limit = FALSE] /\ UNCHANGED pdSocks
  <2>1. PICK n \in Nat : n = Len(pdSocks) BY <1>1
  <2>2. pdDial' \in Dials BY <1>1, <1>4, <2>1 DEF Dials, PdPlaces, Outcomes
  <2>3. /\ pdDial'.named = Len(pdSocks) /\ pdDial'.wants = FALSE
        /\ \/ pdDial'.pc = "relay" /\ pdDial'.outcome = "none"
           \/ pdDial'.pc = "over" /\ pdDial'.outcome = "tunnel"
    BY <1>1, <1>4 DEF Dials
  <2>4. /\ pdConn \in ProxyConns /\ pdConn' \in ProxyConns /\ pdConn'.limit = FALSE
        /\ pdConn'.unread = pdConn.unread /\ pdConn'.gone = pdConn.gone
    BY <1>4 DEF PdInv, PdTypes, ProxyConns
  <2>5. PdTypes' BY <1>1, <2>2, <2>4 DEF PdInv, PdTypes
  <2>6. SocksInOrder' BY <1>1, <1>4, <2>3 DEF PdInv, SocksInOrder
  <2>7. AtStart' /\ AtConnect' /\ AtSocks' /\ OverRelay'
    BY <1>1, <1>4, <2>3 DEF AtStart, AtConnect, AtSocks, OverRelay
  <2>8. AtEnd' /\ StageOfLast' BY <1>1, <1>4, <2>3, <2>4 DEF AtEnd, StageOfLast
  <2>. QED BY <2>5, <2>6, <2>7, <2>8 DEF PdInv
<1>. QED BY <1>2, <1>3, <1>4 DEF Commands

-----------------------------------------------------------------------------
(* The association                                                         *)
LEMMA AssociatesInv == PdInv /\ Associates => PdInv'
<1>. SUFFICES ASSUME PdInv, Associates PROVE PdInv'
  OBVIOUS
<1>1. /\ pdDial.pc = "relay" /\ pdSocks # <<>> /\ ~pdDial.wants
      /\ pdDial.named = Len(pdSocks) /\ pdDial \in Dials /\ pdAssoc = NewPdAssoc
      /\ UNCHANGED <<pdConn, pdShut>> /\ Len(pdSocks) \in Nat /\ pdAssoc \in Assocs
  BY LenProperties DEF Associates, PdInv, PdTypes, AtSocks, OverRelay, PdPlaces, SocksInOrder
<1>2. CASE \E o \in {"connect", "configuration"} : PdEnds(o, "closed") /\ UNCHANGED pdAssoc
  <2>1. PICK o \in {"connect", "configuration"} : PdEnds(o, "closed") /\ UNCHANGED pdAssoc
    BY <1>2
  <2>2. SockIs("closed") BY <1>1, <2>1 DEF PdEnds, SockIs
  <2>3. pdDial' = [pdDial EXCEPT !.pc = "over", !.outcome = o] BY <2>1 DEF PdEnds
  <2>4. /\ pdDial' \in Dials /\ pdDial'.pc = "over" /\ pdDial'.outcome = o
        /\ pdDial'.named = pdDial.named /\ pdDial'.wants = pdDial.wants
    BY <1>1, <2>3 DEF Dials, PdPlaces, Outcomes
  <2>. QED BY <1>1, <2>1, <2>2, <2>4, GivesUp
<1>3. CASE /\ pdDial' = [pdDial EXCEPT !.pc = "quic"] /\ UNCHANGED pdSocks
           /\ pdAssoc' = [pdAssoc EXCEPT !.udp = "open", !.watched = TRUE]
  <2>1. /\ pdDial' \in Dials /\ pdDial'.pc = "quic" /\ pdDial'.named = pdDial.named
        /\ pdDial'.wants = pdDial.wants
    BY <1>1, <1>3 DEF Dials, PdPlaces
  <2>2. pdAssoc' \in Assocs /\ pdAssoc'.udp = "open" BY <1>1, <1>3 DEF Assocs
  <2>3. PdTypes' BY <1>1, <2>1, <2>2 DEF PdInv, PdTypes
  <2>4. SocksInOrder' BY <1>1, <1>3, <2>1 DEF PdInv, SocksInOrder
  <2>5. AtStart' /\ AtConnect' /\ AtSocks' /\ OverRelay' /\ AtEnd' /\ StageOfLast'
    BY <1>1, <1>3, <2>1, <2>2 DEF AtStart, AtConnect, AtSocks, OverRelay, AtEnd, StageOfLast,
                                  PdPlaces
  <2>. QED BY <2>3, <2>4, <2>5 DEF PdInv
<1>. QED BY <1>2, <1>3 DEF Associates

LEMMA CloseAssocIs ==
  ASSUME PdTypes, CloseAssoc
  PROVE  /\ pdAssoc' \in Assocs /\ pdAssoc'.udp = "closed" /\ SockIs("closed")
         /\ pdAssoc'.entered = pdAssoc.entered
BY DEF PdTypes, CloseAssoc, Assocs

LEMMA RelayedInv == PdInv /\ (RelayedQuicFails \/ RelayedQuicUp \/ EntersSession) => PdInv'
<1>. SUFFICES ASSUME PdInv, RelayedQuicFails \/ RelayedQuicUp \/ EntersSession PROVE PdInv'
  OBVIOUS
<1>1. /\ pdDial.pc \in {"quic", "enter"} /\ pdSocks # <<>> /\ ~pdDial.wants
      /\ pdDial.named = Len(pdSocks) /\ pdDial \in Dials /\ pdAssoc.udp # "none"
      /\ UNCHANGED <<pdConn, pdShut>> /\ Len(pdSocks) \in Nat /\ pdAssoc \in Assocs
      /\ PdTypes
  BY LenProperties DEF RelayedQuicFails, RelayedQuicUp, EntersSession, PdInv, PdTypes, AtSocks,
                       OverRelay, SocksInOrder
<1>2. CASE \E o \in {"connect", "closed"} :
             pdDial' = [pdDial EXCEPT !.pc = "over", !.outcome = o] /\ CloseAssoc
  <2>1. PICK o \in {"connect", "closed"} :
               pdDial' = [pdDial EXCEPT !.pc = "over", !.outcome = o] /\ CloseAssoc
    BY <1>2
  <2>2. /\ pdDial' \in Dials /\ pdDial'.pc = "over" /\ pdDial'.outcome = o
        /\ pdDial'.named = pdDial.named /\ pdDial'.wants = pdDial.wants
    BY <1>1, <2>1 DEF Dials, PdPlaces, Outcomes
  <2>3. pdAssoc' \in Assocs /\ pdAssoc'.udp = "closed" /\ SockIs("closed")
    BY <1>1, <2>1, CloseAssocIs
  <2>. QED BY <1>1, <2>2, <2>3, GivesUp
<1>3. CASE \E p \in {"enter", "over"} :
             /\ pdDial' = [pdDial EXCEPT !.pc = p,
                              !.outcome = IF p = "over" THEN "association" ELSE @]
             /\ UNCHANGED pdSocks
             /\ p = "over" => /\ pdShut = "no"
                              /\ pdAssoc' = [pdAssoc EXCEPT !.entered = TRUE]
             /\ p = "enter" => pdAssoc' = [pdAssoc EXCEPT !.quic = "up"]
  <2>1. PICK p \in {"enter", "over"} :
               /\ pdDial' = [pdDial EXCEPT !.pc = p,
                                !.outcome = IF p = "over" THEN "association" ELSE @]
               /\ UNCHANGED pdSocks
               /\ p = "over" => /\ pdShut = "no"
                                /\ pdAssoc' = [pdAssoc EXCEPT !.entered = TRUE]
               /\ p = "enter" => pdAssoc' = [pdAssoc EXCEPT !.quic = "up"]
    BY <1>3
  <2>2. /\ pdDial' \in Dials /\ pdDial'.pc = p /\ pdDial'.named = pdDial.named
        /\ pdDial'.wants = pdDial.wants
        /\ p = "over" => pdDial'.outcome = "association"
    BY <1>1, <2>1 DEF Dials, PdPlaces, Outcomes
  <2>3. /\ pdAssoc' \in Assocs /\ pdAssoc'.udp = pdAssoc.udp
        /\ p = "over" => pdAssoc'.entered
    BY <1>1, <2>1 DEF Assocs
  <2>4. PdTypes' BY <1>1, <2>2, <2>3 DEF PdInv, PdTypes
  <2>5. SocksInOrder' BY <2>1, <2>2 DEF PdInv, SocksInOrder
  <2>6. AtStart' /\ AtConnect' /\ AtSocks' /\ OverRelay' /\ AtEnd' /\ StageOfLast'
    BY <1>1, <2>1, <2>2, <2>3 DEF AtStart, AtConnect, AtSocks, OverRelay, AtEnd, StageOfLast
  <2>. QED BY <2>4, <2>5, <2>6 DEF PdInv
<1>4. CASE RelayedQuicFails BY <1>2, <1>4 DEF RelayedQuicFails
<1>5. CASE RelayedQuicUp
  <2>1. pdDial' = [pdDial EXCEPT !.pc = "enter", !.outcome = @]
    BY <1>1, <1>5 DEF RelayedQuicUp, Dials
  <2>. QED BY <1>3, <1>5, <2>1 DEF RelayedQuicUp
<1>6. CASE EntersSession BY <1>2, <1>3, <1>6 DEF EntersSession
<1>. QED BY <1>4, <1>5, <1>6

(* What ends an association from either side: both its sockets are closed.  *)
LEMMA AssocEnds ==
  ASSUME PdInv, pdAssoc.udp # "none", pdSocks # <<>>, SockIs("closed"),
         pdAssoc' \in Assocs, pdAssoc'.udp = "closed", pdShut' \in {"no", "taken", "done"},
         UNCHANGED <<pdDial, pdConn>>
  PROVE  PdInv'
<1>1. SocksInOrder /\ "closed" \in SockStates BY DEF PdInv, SockStates
<1>2. /\ pdSocks' \in Seq(SockStates) /\ Len(pdSocks') = Len(pdSocks) /\ EarlierShut(pdSocks')
      /\ pdSocks' # <<>> /\ NoneOpen(pdSocks') /\ Last(pdSocks') = "closed"
  BY <1>1, SockIsLast
<1>3. PdTypes' BY DEF PdInv, PdTypes
<1>4. SocksInOrder' BY <1>2 DEF PdInv, SocksInOrder
<1>5. pdAssoc # NewPdAssoc BY DEF NewPdAssoc
<1>6. pdDial.pc \in {"quic", "enter", "over"} BY <1>5 DEF PdInv, PdTypes, Dials, OverRelay
<1>7. AtStart' /\ AtConnect' /\ AtSocks' /\ OverRelay'
  BY <1>2, <1>6 DEF PdInv, AtStart, AtConnect, AtSocks, OverRelay
<1>8. AtEnd' BY <1>2, <1>5 DEF PdInv, AtEnd
<1>9. StageOfLast' BY <1>2 DEF PdInv, StageOfLast
<1>. QED BY <1>3, <1>4, <1>7, <1>8, <1>9 DEF PdInv

LEMMA EndsInv == PdInv /\ (ControlEnds \/ AfterQuic \/ ShutCloses) => PdInv'
<1>. SUFFICES ASSUME PdInv, ControlEnds \/ AfterQuic \/ ShutCloses PROVE PdInv'
  OBVIOUS
<1>0. /\ pdAssoc \in Assocs /\ PdTypes /\ pdShut \in {"no", "taken", "done"}
      /\ pdAssoc.watched \/ pdAssoc.entered => pdAssoc.udp # "none" /\ pdSocks # <<>>
  BY DEF PdInv, PdTypes, OverRelay, NewPdAssoc
<1>1. CASE ControlEnds
  <2>1. pdAssoc' \in Assocs /\ pdAssoc'.udp = "closed" BY <1>0, <1>1 DEF ControlEnds, Assocs
  <2>2. SockIs("closed") /\ pdAssoc.watched /\ UNCHANGED <<pdDial, pdConn, pdShut>>
    BY <1>1 DEF ControlEnds
  <2>. QED BY <1>0, <2>1, <2>2, AssocEnds
<1>2. CASE AfterQuic
  <2>1. pdAssoc' \in Assocs /\ pdAssoc'.udp = "closed" BY <1>0, <1>2 DEF AfterQuic, Assocs
  <2>2. SockIs("closed") /\ pdAssoc.entered /\ UNCHANGED <<pdDial, pdConn, pdShut>>
    BY <1>2 DEF AfterQuic
  <2>. QED BY <1>0, <2>1, <2>2, AssocEnds
<1>3. CASE ShutCloses /\ pdAssoc.entered
  <2>1. CloseAssoc /\ pdShut' = "done" /\ UNCHANGED <<pdDial, pdConn>> BY <1>3 DEF ShutCloses
  <2>2. pdAssoc' \in Assocs /\ pdAssoc'.udp = "closed" /\ SockIs("closed")
    BY <1>0, <2>1, CloseAssocIs
  <2>. QED BY <1>0, <1>3, <2>1, <2>2, AssocEnds
<1>4. CASE ShutCloses /\ ~pdAssoc.entered
  <2>1. pdShut' = "done" /\ UNCHANGED <<pdDial, pdConn, pdSocks, pdAssoc>>
    BY <1>4 DEF ShutCloses
  <2>2. PdTypes' /\ SocksInOrder' /\ AtStart' /\ AtConnect' /\ AtSocks' /\ OverRelay'
    BY <2>1 DEF PdInv, PdTypes, SocksInOrder, AtStart, AtConnect, AtSocks, OverRelay, NewPdAssoc
  <2>3. AtEnd' BY <1>4, <2>1 DEF PdInv, AtEnd, NewPdAssoc
  <2>4. StageOfLast' BY <2>1 DEF PdInv, StageOfLast
  <2>. QED BY <2>2, <2>3, <2>4 DEF PdInv
<1>. QED BY <1>1, <1>2, <1>3, <1>4

LEMMA LossInv == PdInv /\ (ControlLost \/ QuicDies \/ ShutBegins) => PdInv'
<1>. SUFFICES ASSUME PdInv, ControlLost \/ QuicDies \/ ShutBegins PROVE PdInv'
  OBVIOUS
<1>0. pdAssoc \in Assocs /\ pdConn \in ProxyConns BY DEF PdInv, PdTypes
<1>1. CASE ControlLost
  <2>1. pdAssoc.watched /\ UNCHANGED <<pdDial, pdSocks, pdAssoc, pdShut>> BY <1>1 DEF ControlLost
  <2>2. /\ pdConn' \in ProxyConns /\ pdConn'.unread = pdConn.unread
        /\ pdConn'.limit = pdConn.limit
    BY <1>0, <1>1 DEF ControlLost, ProxyConns
  <2>3. pdAssoc # NewPdAssoc BY <2>1 DEF NewPdAssoc
  <2>4. pdDial.pc \in {"quic", "enter", "over"} BY <2>3 DEF PdInv, PdTypes, Dials, OverRelay
  <2>5. PdTypes' /\ SocksInOrder' BY <2>1, <2>2 DEF PdInv, PdTypes, SocksInOrder
  <2>6. AtStart' /\ AtConnect' /\ AtSocks' /\ OverRelay' /\ StageOfLast'
    BY <2>1, <2>2, <2>4 DEF PdInv, AtStart, AtConnect, AtSocks, OverRelay, StageOfLast, NewPdAssoc
  <2>7. AtEnd' BY <2>1, <2>2, <2>3 DEF PdInv, AtEnd
  <2>. QED BY <2>5, <2>6, <2>7 DEF PdInv
<1>2. CASE QuicDies
  <2>1. pdAssoc.quic = "up" /\ UNCHANGED <<pdDial, pdSocks, pdConn, pdShut>> BY <1>2 DEF QuicDies
  <2>2. /\ pdAssoc' \in Assocs /\ pdAssoc'.udp = pdAssoc.udp /\ pdAssoc'.entered = pdAssoc.entered
    BY <1>0, <1>2 DEF QuicDies, Assocs
  <2>3. pdAssoc # NewPdAssoc BY <2>1 DEF NewPdAssoc
  <2>4. pdDial.pc \in {"quic", "enter", "over"} BY <2>3 DEF PdInv, PdTypes, Dials, OverRelay
  <2>5. PdTypes' /\ SocksInOrder' BY <2>1, <2>2 DEF PdInv, PdTypes, SocksInOrder
  <2>6. AtStart' /\ AtConnect' /\ AtSocks' /\ OverRelay' /\ StageOfLast'
    BY <2>1, <2>2, <2>3, <2>4 DEF PdInv, AtStart, AtConnect, AtSocks, OverRelay, StageOfLast
  <2>7. AtEnd' BY <2>1, <2>2, <2>3 DEF PdInv, AtEnd
  <2>. QED BY <2>5, <2>6, <2>7 DEF PdInv
<1>3. CASE ShutBegins
  <2>1. /\ pdShut = "no" /\ pdShut' = "taken"
        /\ UNCHANGED <<pdDial, pdSocks, pdConn, pdAssoc>>
    BY <1>3 DEF ShutBegins
  <2>2. PdTypes' /\ SocksInOrder' /\ AtStart' /\ AtConnect' /\ AtSocks' /\ OverRelay'
    BY <2>1 DEF PdInv, PdTypes, SocksInOrder, AtStart, AtConnect, AtSocks, OverRelay, NewPdAssoc
  <2>3. AtEnd' /\ StageOfLast' BY <2>1 DEF PdInv, AtEnd, StageOfLast, NewPdAssoc
  <2>. QED BY <2>2, <2>3 DEF PdInv
<1>. QED BY <1>1, <1>2, <1>3

-----------------------------------------------------------------------------
LEMMA PdInvInit == PdInit => PdInv
<1>. SUFFICES ASSUME PdInit PROVE PdInv
  OBVIOUS
<1>1. PICK s \in PdSchemes, c \in BOOLEAN : pdDial = [NewPdDial EXCEPT !.scheme = s, !.creds = c]
  BY DEF PdInit
<1>2. s \in {"http", "https", "socks", "udp"} BY PdAssumption
<1>3. /\ pdDial \in Dials /\ pdDial.pc = "idle" /\ ~pdDial.again /\ ~pdDial.wants
      /\ pdDial.named = 0
  BY <1>1, <1>2 DEF NewPdDial, Dials, PdPlaces, PdVerdicts, Outcomes
<1>4. /\ pdSocks = <<>> /\ pdConn = NewPdConn /\ pdAssoc = NewPdAssoc /\ pdShut = "no"
  BY DEF PdInit
<1>5. PdTypes BY <1>3, <1>4 DEF PdTypes, ProxyConns, Assocs, NewPdConn, NewPdAssoc
<1>6. /\ pdSocks \in Seq(SockStates) /\ Len(pdSocks) = 0 /\ NoneOpen(pdSocks)
      /\ EarlierShut(pdSocks)
  BY <1>4, EmptySeq DEF NoneOpen, EarlierShut
<1>7. SocksInOrder BY <1>3, <1>6 DEF SocksInOrder
<1>8. AtStart /\ AtConnect /\ AtSocks /\ OverRelay /\ AtEnd /\ StageOfLast
  BY <1>3, <1>4, <1>6 DEF AtStart, AtConnect, AtSocks, OverRelay, AtEnd, StageOfLast, PdPlaces
<1>. QED BY <1>5, <1>7, <1>8 DEF PdInv

LEMMA PdInvNext == PdInv /\ [PdNext]_pdVars => PdInv'
<1>. SUFFICES ASSUME PdInv, [PdNext]_pdVars PROVE PdInv'
  OBVIOUS
<1>1. CASE PdNext
  BY <1>1, BeginsInv, AsksInv, UnreachedInv, ReachesH2Inv, ReachesInv, ConnectsInv, RetriesInv,
     TunnelsInv, RefusedInv, GreetsInv, CommandsInv, AssociatesInv, RelayedInv, EndsInv, LossInv
  DEF PdNext
<1>2. CASE UNCHANGED pdVars
  <2>1. PdTypes' /\ SocksInOrder' BY <1>2 DEF PdInv, PdTypes, SocksInOrder, pdVars
  <2>2. AtStart' /\ AtConnect' /\ AtSocks' BY <1>2 DEF PdInv, AtStart, AtConnect, AtSocks, pdVars
  <2>3. OverRelay' /\ AtEnd' /\ StageOfLast'
    BY <1>2 DEF PdInv, OverRelay, AtEnd, StageOfLast, NewPdAssoc, pdVars
  <2>. QED BY <2>1, <2>2, <2>3 DEF PdInv
<1>. QED BY <1>1, <1>2

LEMMA InvMeansEnds == PdInv => DialEndsRight
<1>. SUFFICES ASSUME PdInv PROVE DialEndsRight
  OBVIOUS
<1>1. \A i \in DOMAIN pdSocks : i < Len(pdSocks) => pdSocks[i] # "open"
  BY DEF PdInv, SocksInOrder, EarlierShut
<1>2. ASSUME pdDial.pc = "over", pdDial.outcome \notin {"tunnel", "association"}
      PROVE  "open" \notin ToSet(pdSocks)
  BY <1>2 DEF PdInv, AtEnd, NoneOpen, ToSet
<1>3. ASSUME pdDial.pc = "over"
      PROVE  /\ pdDial.outcome = "tunnel" =>
                  Last(pdSocks) = "open" /\ ~pdConn.unread /\ ~pdConn.limit /\ ~pdConn.gone
             /\ pdDial.outcome = "association"
                  /\ (pdAssoc.udp = "open" \/ Last(pdSocks) = "open") =>
                    pdAssoc.entered /\ pdShut # "done"
  BY <1>3 DEF PdInv, AtEnd
<1>4. DialLeavesNothing BY <1>1, <1>2, <1>3 DEF DialLeavesNothing
<1>5. StageIsTrue
  <2>1. /\ pdDial.named \in Nat /\ Len(pdSocks) \in Nat /\ pdDial.named <= Len(pdSocks)
        /\ pdDial.named < Len(pdSocks) => (pdDial.named # 0 => pdDial.told)
    BY LenProperties DEF PdInv, PdTypes, Dials, SocksInOrder
  <2>. QED BY <2>1 DEF PdInv, StageOfLast, StageIsTrue
<1>. QED BY <1>4, <1>5 DEF DialEndsRight

(* However a dial through a proxy goes - repeated, relayed, the session     *)
(* closed under it - what it leaves and what it says are right (proxy.go,   *)
(* socks5udp.go), for every set of schemes and any number of connections.   *)
THEOREM DialsEndRight == PdSpec => []DialEndsRight
<1>1. PdInit => PdInv BY PdInvInit
<1>2. PdInv /\ [PdNext]_pdVars => PdInv' BY PdInvNext
<1>3. PdInv => DialEndsRight BY InvMeansEnds
<1>. QED BY <1>1, <1>2, <1>3, PTL DEF PdSpec

-----------------------------------------------------------------------------
(* Reading bodies                                                          *)

(* BodiesReadRight for any responses, decoders and limit.  What makes it    *)
(* inductive: where a body's reader stands says what it has - the decoder,  *)
(* lazyDecoder's lock, a byte not counted yet - and decoders are handed on  *)
(* only by a body that no reader is in.                                     *)
BrReaders == {"idle", "lock", "open", "fetch", "back", "gone"}
BrResults == {"none", "bytes", "end", "error", "closed", "idle"}
BrFailures == {"no", "end", "error", "closed"}
BrClocks == {"off", "runs", "late"}
BrAnswers == {"none", "body", "too_large", "error"}
BrEnds == {"clean", "cut", "stalls"}
Bodies ==
  [size : Nat, ends : BrEnds, source : {"open", "closed"}, sent : Nat, lock : {"free", "read"},
   holds : BrDecoders \cup {NoDecoder}, works : BrDecoders \cup {NoDecoder}, failed : BrFailures,
   reader : BrReaders, result : BrResults, got : Nat, clock : BrClocks, fired : BOOLEAN,
   closer : {"no", "lock", "done"}, answer : BrAnswers]

LEMMA BrNames ==
  /\ "back" \in BrReaders /\ "gone" \in BrReaders /\ "lock" \in BrReaders
  /\ "open" \in BrReaders /\ "fetch" \in BrReaders /\ "idle" \in BrReaders
  /\ "idle" \in BrResults /\ "none" \in BrResults /\ BrFailures \ {"no"} \subseteq BrResults
  /\ "off" \in BrClocks /\ "runs" \in BrClocks /\ "late" \in BrClocks
  /\ "none" \in BrAnswers /\ "no" \in BrFailures /\ "clean" \in BrEnds
BY DEF BrReaders, BrResults, BrFailures, BrClocks, BrAnswers, BrEnds

(* The decoder goes with the reader, and the lock with it.                  *)
DecoderInPlace(y) ==
  /\ (y.lock = "read") <=> (y.reader \in {"open", "fetch"})
  /\ y.reader \notin {"open", "fetch"} => y.works = NoDecoder
  /\ y.reader = "open" => y.holds = NoDecoder /\ y.works # NoDecoder
  /\ y.reader = "fetch" => y.works = y.holds /\ y.works # NoDecoder
  /\ y.failed # "no" => y.holds = NoDecoder /\ y.reader \notin {"open", "fetch"}

(* What a failure that stays with the decoder says is so.                   *)
FailureIsSo(y) ==
  /\ y.failed = "end" => y.sent = y.size /\ y.ends = "clean"
  /\ y.failed \in {"error", "closed"} => y.ends # "clean" \/ y.fired \/ y.closer # "no"
  /\ y.source # "open" => y.closer # "no"
  /\ y.sent <= y.size

(* The count of a body Do reads, and what it may make of it.                *)
Counted(y) ==
  /\ y.closer # "no" => y.answer # "none"
  /\ y.answer # "none" => y.reader = "gone"
  /\ y.got <= y.sent
  /\ y.reader \in {"idle", "lock", "open", "fetch"} => y.got = y.sent
  /\ y.reader = "back" =>
       /\ y.sent = y.got + (IF y.result = "bytes" THEN 1 ELSE 0)
       /\ y.result # "none"
       /\ y.result = "end" => y.sent = y.size /\ y.ends = "clean"
       /\ y.result \in {"error", "closed", "idle"} => y.ends # "clean" \/ y.fired

AnswerIsSo(y) ==
  /\ y.answer = "body" => y.got = y.size /\ y.ends = "clean" /\ y.got <= BrLimit
  /\ y.answer = "too_large" => y.size > BrLimit
  /\ y.answer = "error" => y.ends # "clean" \/ y.fired

BodyFits(b, y) ==
  /\ y \in Bodies /\ DecoderInPlace(y) /\ FailureIsSo(y) /\ AnswerIsSo(y)
  /\ IF b \in BrWhole THEN Counted(y) ELSE y.answer = "none"

(* The decoders a body has, and whose they are.                             *)
Uses(y) == {y.holds, y.works} \ {NoDecoder}

DecodersApart ==
  /\ brPool \subseteq brMade /\ brMade \subseteq BrDecoders
  /\ \A b \in BrBodies : Uses(brBody[b]) \subseteq brMade \ brPool
  /\ \A b, c \in BrBodies : b # c => Uses(brBody[b]) \cap Uses(brBody[c]) = {}
  /\ \A d \in brMade : d \in brPool \/ \E b \in BrBodies : d \in Uses(brBody[b])

BrInv ==
  /\ brBody \in [BrBodies -> Bodies]
  /\ \A b \in BrBodies : BodyFits(b, brBody[b])
  /\ DecodersApart

-----------------------------------------------------------------------------
(* A step of one body: it goes on with the decoders it has, takes one, or   *)
(* hands them on.                                                           *)
LEMMA BodiesAfter ==
  ASSUME BrInv, NEW b \in BrBodies, NEW y, BrTo(b, y), BodyFits(b, y)
  PROVE  /\ brBody' \in [BrBodies -> Bodies]
         /\ \A c \in BrBodies : BodyFits(c, brBody[c])'
         /\ brBody'[b] = y
         /\ \A c \in BrBodies : c # b => brBody'[c] = brBody[c]
<1>1. y \in Bodies BY DEF BodyFits
<1>2. /\ brBody' = [brBody EXCEPT ![b] = y] /\ brBody \in [BrBodies -> Bodies]
      /\ \A c \in BrBodies : BodyFits(c, brBody[c])
  BY DEF BrTo, BrInv
<1>3. brBody' \in [BrBodies -> Bodies] BY <1>1, <1>2
<1>4. brBody'[b] = y /\ \A c \in BrBodies : c # b => brBody'[c] = brBody[c] BY <1>2
<1>5. ASSUME NEW c \in BrBodies PROVE BodyFits(c, brBody'[c])
  <2>1. CASE c = b BY <1>4, <2>1
  <2>2. CASE c # b BY <1>2, <1>4, <2>2
  <2>. QED BY <2>1, <2>2
<1>6. ASSUME NEW c \in BrBodies PROVE BodyFits(c, brBody[c])'
  BY <1>5, <1>6 DEF BodyFits, DecoderInPlace, FailureIsSo, AnswerIsSo, Counted
<1>. QED BY <1>3, <1>4, <1>6

LEMMA KeepsDecoder ==
  ASSUME BrInv, NEW b \in BrBodies, NEW y, BrTo(b, y), BodyFits(b, y),
         Uses(y) = Uses(brBody[b]), UNCHANGED <<brPool, brMade>>
  PROVE  BrInv'
<1>1. /\ brBody' \in [BrBodies -> Bodies]
      /\ \A c \in BrBodies : BodyFits(c, brBody[c])'
      /\ brBody'[b] = y
      /\ \A c \in BrBodies : c # b => brBody'[c] = brBody[c]
  BY BodiesAfter
<1>2. \A c \in BrBodies : Uses(brBody'[c]) = Uses(brBody[c]) BY <1>1
<1>3. DecodersApart' BY <1>2 DEF BrInv, DecodersApart
<1>. QED BY <1>1, <1>3 DEF BrInv

LEMMA TakesDecoder ==
  ASSUME BrInv, NEW b \in BrBodies, NEW y, BrTo(b, y), BodyFits(b, y),
         NEW d \in BrDecoders, d \in brPool \/ d \notin brMade,
         Uses(brBody[b]) = {}, Uses(y) = {d},
         brPool' = brPool \ {d}, brMade' = brMade \cup {d}
  PROVE  BrInv'
<1>1. /\ brBody' \in [BrBodies -> Bodies]
      /\ \A c \in BrBodies : BodyFits(c, brBody[c])'
      /\ brBody'[b] = y
      /\ \A c \in BrBodies : c # b => brBody'[c] = brBody[c]
  BY BodiesAfter
<1>2. Uses(brBody'[b]) = {d} /\ \A c \in BrBodies : c # b => Uses(brBody'[c]) = Uses(brBody[c])
  BY <1>1
<1>3. \A c \in BrBodies : d \notin Uses(brBody[c]) BY DEF BrInv, DecodersApart
<1>4. brPool' \subseteq brMade' /\ brMade' \subseteq BrDecoders BY DEF BrInv, DecodersApart
<1>5. \A c \in BrBodies : Uses(brBody'[c]) \subseteq brMade' \ brPool'
  BY <1>2 DEF BrInv, DecodersApart
<1>6. \A c, e \in BrBodies : c # e => Uses(brBody'[c]) \cap Uses(brBody'[e]) = {}
  BY <1>2, <1>3 DEF BrInv, DecodersApart
<1>7. ASSUME NEW g \in brMade'
      PROVE  g \in brPool' \/ \E c \in BrBodies : g \in Uses(brBody'[c])
  <2>1. CASE g = d BY <1>2, <2>1
  <2>2. CASE g # d
    <3>1. g \in brPool \/ \E c \in BrBodies : g \in Uses(brBody[c])
      BY <2>2 DEF BrInv, DecodersApart
    <3>. QED BY <1>2, <2>2, <3>1
  <2>. QED BY <2>1, <2>2
<1>8. DecodersApart' BY <1>4, <1>5, <1>6, <1>7 DEF DecodersApart
<1>. QED BY <1>1, <1>8 DEF BrInv

LEMMA GivesDecoder ==
  ASSUME BrInv, NEW b \in BrBodies, NEW y, BrTo(b, y), BodyFits(b, y),
         Uses(y) = {}, brPool' = brPool \cup Uses(brBody[b]), UNCHANGED brMade
  PROVE  BrInv'
<1>1. /\ brBody' \in [BrBodies -> Bodies]
      /\ \A c \in BrBodies : BodyFits(c, brBody[c])'
      /\ brBody'[b] = y
      /\ \A c \in BrBodies : c # b => brBody'[c] = brBody[c]
  BY BodiesAfter
<1>2. Uses(brBody'[b]) = {} /\ \A c \in BrBodies : c # b => Uses(brBody'[c]) = Uses(brBody[c])
  BY <1>1
<1>4. brPool' \subseteq brMade' /\ brMade' \subseteq BrDecoders BY DEF BrInv, DecodersApart
<1>5. \A c \in BrBodies : Uses(brBody'[c]) \subseteq brMade' \ brPool'
  BY <1>2 DEF BrInv, DecodersApart
<1>6. \A c, e \in BrBodies : c # e => Uses(brBody'[c]) \cap Uses(brBody'[e]) = {}
  BY <1>2 DEF BrInv, DecodersApart
<1>7. ASSUME NEW g \in brMade'
      PROVE  g \in brPool' \/ \E c \in BrBodies : g \in Uses(brBody'[c])
  <2>1. g \in brPool \/ \E c \in BrBodies : g \in Uses(brBody[c]) BY DEF BrInv, DecodersApart
  <2>. QED BY <1>2, <2>1
<1>8. DecodersApart' BY <1>4, <1>5, <1>6, <1>7 DEF DecodersApart
<1>. QED BY <1>1, <1>8 DEF BrInv

LEMMA BodyIs ==
  ASSUME BrInv, NEW b \in BrBodies
  PROVE  BodyFits(b, brBody[b]) /\ brBody[b] \in Bodies /\ NoDecoder \notin BrDecoders
BY BrAssumption DEF BrInv, BodyFits, NoDecoder

-----------------------------------------------------------------------------
LEMMA BeginsReadInv ==
  ASSUME BrInv, NEW b \in BrBodies, BeginsRead(b)
  PROVE  BrInv'
<1>0. BodyFits(b, brBody[b]) /\ brBody[b] \in Bodies BY BodyIs
<1>1. PICK y : BrTo(b, y) /\ y = IF brBody[b].closer # "no" THEN [brBody[b] EXCEPT !.reader = "gone"]
             ELSE IF brBody[b].fired THEN [brBody[b] EXCEPT !.reader = "back", !.result = "idle"]
             ELSE [brBody[b] EXCEPT !.reader = "lock",
                     !.clock = IF @ = "off" /\ b \in BrIdle THEN "runs" ELSE @]
  BY DEF BeginsRead
<1>2. /\ y \in Bodies /\ Uses(y) = Uses(brBody[b])
      /\ brBody[b].reader = "idle" /\ brBody[b].answer = "none"
      /\ UNCHANGED <<brPool, brMade>>
  <2>1. y \in Bodies
    <3>1. CASE brBody[b].closer # "no"
      <4>1. y = [brBody[b] EXCEPT !.reader = "gone"] BY <1>1, <3>1
      <4>. QED BY <1>0, <4>1, BrNames DEF Bodies
    <3>2. CASE brBody[b].closer = "no" /\ brBody[b].fired
      <4>1. y = [brBody[b] EXCEPT !.reader = "back", !.result = "idle"] BY <1>1, <3>2
      <4>. QED BY <1>0, <4>1, BrNames DEF Bodies
    <3>3. CASE brBody[b].closer = "no" /\ ~brBody[b].fired
      <4>1. PICK c \in BrClocks : y = [brBody[b] EXCEPT !.reader = "lock", !.clock = c]
        BY <1>0, <1>1, <3>3, BrNames DEF Bodies
      <4>. QED BY <1>0, <4>1, BrNames DEF Bodies
    <3>. QED BY <3>1, <3>2, <3>3
  <2>2. y.holds = brBody[b].holds /\ y.works = brBody[b].works BY <1>0, <1>1 DEF Bodies
  <2>. QED BY <2>1, <2>2 DEF BeginsRead, Uses
<1>3. DecoderInPlace(y) /\ FailureIsSo(y) /\ AnswerIsSo(y)
  BY <1>0, <1>1, <1>2 DEF BodyFits, DecoderInPlace, FailureIsSo, AnswerIsSo, Bodies
<1>4. IF b \in BrWhole THEN Counted(y) ELSE y.answer = "none"
  BY <1>0, <1>1, <1>2 DEF BodyFits, Counted, Bodies
<1>. QED BY <1>1, <1>2, <1>3, <1>4, KeepsDecoder DEF BodyFits

LEMMA ReadLocksInv ==
  ASSUME BrInv, NEW b \in BrBodies, ReadLocks(b)
  PROVE  BrInv'
<1>0. /\ BodyFits(b, brBody[b]) /\ brBody[b] \in Bodies /\ NoDecoder \notin BrDecoders
      /\ brBody[b].reader = "lock"
  BY BodyIs DEF ReadLocks
<1>1. CASE /\ brBody[b].failed # "no"
           /\ BrTo(b, [brBody[b] EXCEPT !.reader = "back", !.result = brBody[b].failed])
           /\ UNCHANGED <<brPool, brMade>>
  <2>1. PICK y : y = [brBody[b] EXCEPT !.reader = "back", !.result = brBody[b].failed] OBVIOUS
  <2>a. brBody[b].failed \in BrResults BY <1>0, <1>1, BrNames DEF Bodies
  <2>b. y \in Bodies BY <1>0, <2>1, <2>a, BrNames DEF Bodies
  <2>2. y \in Bodies /\ Uses(y) = Uses(brBody[b]) BY <1>0, <2>1, <2>b DEF Bodies, Uses
  <2>3. DecoderInPlace(y) /\ FailureIsSo(y) /\ AnswerIsSo(y)
    BY <1>0, <1>1, <2>1 DEF BodyFits, DecoderInPlace, FailureIsSo, AnswerIsSo, Bodies
  <2>4. IF b \in BrWhole THEN Counted(y) ELSE y.answer = "none"
    BY <1>0, <1>1, <2>1 DEF BodyFits, Counted, FailureIsSo, Bodies, BrFailures
  <2>. QED BY <1>1, <2>1, <2>2, <2>3, <2>4, KeepsDecoder DEF BodyFits
<1>2. CASE /\ brBody[b].failed = "no" /\ brBody[b].holds # NoDecoder
           /\ BrTo(b, [brBody[b] EXCEPT !.reader = "fetch", !.lock = "read",
                                       !.works = brBody[b].holds])
           /\ UNCHANGED <<brPool, brMade>>
  <2>1. PICK y : y = [brBody[b] EXCEPT !.reader = "fetch", !.lock = "read",
                                       !.works = brBody[b].holds]
    OBVIOUS
  <2>2. y \in Bodies BY <1>0, <2>1, BrNames DEF Bodies
  <2>3. Uses(y) = Uses(brBody[b])
    BY <1>0, <2>1 DEF Bodies, Uses, BodyFits, DecoderInPlace
  <2>4. DecoderInPlace(y) /\ FailureIsSo(y) /\ AnswerIsSo(y)
    BY <1>0, <1>2, <2>1 DEF BodyFits, DecoderInPlace, FailureIsSo, AnswerIsSo, Bodies
  <2>5. IF b \in BrWhole THEN Counted(y) ELSE y.answer = "none"
    BY <1>0, <1>2, <2>1 DEF BodyFits, Counted, Bodies
  <2>. QED BY <1>2, <2>1, <2>2, <2>3, <2>4, <2>5, KeepsDecoder DEF BodyFits
<1>3. CASE /\ brBody[b].failed = "no" /\ brBody[b].holds = NoDecoder
           /\ \E d \in BrDecoders :
                /\ IF brPool # {} THEN d \in brPool ELSE d \notin brMade
                /\ brPool' = brPool \ {d} /\ brMade' = brMade \cup {d}
                /\ BrTo(b, [brBody[b] EXCEPT !.reader = "open", !.lock = "read", !.works = d])
  <2>1. PICK d \in BrDecoders :
                /\ IF brPool # {} THEN d \in brPool ELSE d \notin brMade
                /\ brPool' = brPool \ {d} /\ brMade' = brMade \cup {d}
                /\ BrTo(b, [brBody[b] EXCEPT !.reader = "open", !.lock = "read", !.works = d])
    BY <1>3
  <2>2. PICK y : y = [brBody[b] EXCEPT !.reader = "open", !.lock = "read", !.works = d] OBVIOUS
  <2>3. y \in Bodies BY <1>0, <2>2, BrNames DEF Bodies
  <2>4. d # NoDecoder BY <1>0
  <2>5. y.holds = brBody[b].holds /\ y.works = d BY <1>0, <2>2 DEF Bodies
  <2>6. Uses(y) = {d} /\ Uses(brBody[b]) = {}
    BY <1>0, <1>3, <2>4, <2>5 DEF Uses, BodyFits, DecoderInPlace
  <2>7. DecoderInPlace(y) /\ FailureIsSo(y) /\ AnswerIsSo(y)
    BY <1>0, <1>3, <2>2, <2>4 DEF BodyFits, DecoderInPlace, FailureIsSo, AnswerIsSo, Bodies
  <2>8. IF b \in BrWhole THEN Counted(y) ELSE y.answer = "none"
    BY <1>0, <1>3, <2>2 DEF BodyFits, Counted, Bodies
  <2>9. d \in brPool \/ d \notin brMade BY <2>1
  <2>. QED BY <2>1, <2>2, <2>3, <2>6, <2>7, <2>8, <2>9, TakesDecoder DEF BodyFits
<1>. QED BY <1>1, <1>2, <1>3 DEF ReadLocks

(* What the source can give says how the body stands.                       *)
LEMMA GivesWhatIsSo ==
  ASSUME NEW b \in BrBodies, brBody[b] \in Bodies, NEW gives \in SourceGives(b)
  PROVE  /\ gives \in {"bytes", "end", "error"}
         /\ gives = "bytes" => brBody[b].sent < brBody[b].size
         /\ gives = "end" => brBody[b].ends = "clean" /\ ~(brBody[b].sent < brBody[b].size)
         /\ gives = "error" => \/ brBody[b].source # "open" \/ brBody[b].fired
                               \/ brBody[b].ends # "clean"
BY DEF SourceGives, Bodies

LEMMA OpensDecoderInv ==
  ASSUME BrInv, NEW b \in BrBodies, OpensDecoder(b)
  PROVE  BrInv'
<1>0. /\ BodyFits(b, brBody[b]) /\ brBody[b] \in Bodies /\ NoDecoder \notin BrDecoders
      /\ brBody[b].reader = "open" /\ UNCHANGED brMade
      /\ brBody[b].holds = NoDecoder /\ brBody[b].works # NoDecoder
      /\ brBody[b].works \in BrDecoders /\ brBody[b].failed = "no"
  BY BodyIs DEF OpensDecoder, BodyFits, DecoderInPlace, Bodies
<1>1. PICK gives \in SourceGives(b) :
       IF gives = "bytes"
       THEN /\ BrTo(b, [brBody[b] EXCEPT !.reader = "fetch", !.holds = brBody[b].works])
            /\ UNCHANGED brPool
       ELSE /\ BrTo(b, [brBody[b] EXCEPT !.reader = "back", !.lock = "free", !.works = NoDecoder,
                                        !.failed = gives, !.result = gives])
            /\ brPool' = brPool \cup {brBody[b].works}
  BY DEF OpensDecoder
<1>2. /\ gives \in {"bytes", "end", "error"}
      /\ gives = "bytes" => brBody[b].sent < brBody[b].size
      /\ gives = "end" => brBody[b].ends = "clean" /\ ~(brBody[b].sent < brBody[b].size)
      /\ gives = "error" => \/ brBody[b].source # "open" \/ brBody[b].fired
                            \/ brBody[b].ends # "clean"
  BY <1>0, <1>1, GivesWhatIsSo
<1>3. CASE gives = "bytes"
  <2>1. PICK y : y = [brBody[b] EXCEPT !.reader = "fetch", !.holds = brBody[b].works] OBVIOUS
  <2>2. BrTo(b, y) /\ UNCHANGED <<brPool, brMade>> BY <1>0, <1>1, <1>3, <2>1
  <2>3. y \in Bodies BY <1>0, <2>1, BrNames DEF Bodies
  <2>4. y.holds = brBody[b].works /\ y.works = brBody[b].works BY <1>0, <2>1 DEF Bodies
  <2>5. Uses(y) = Uses(brBody[b]) BY <1>0, <2>4 DEF Uses
  <2>6. DecoderInPlace(y) /\ FailureIsSo(y) /\ AnswerIsSo(y)
    BY <1>0, <2>1 DEF BodyFits, DecoderInPlace, FailureIsSo, AnswerIsSo, Bodies
  <2>7. IF b \in BrWhole THEN Counted(y) ELSE y.answer = "none"
    BY <1>0, <2>1 DEF BodyFits, Counted, Bodies
  <2>. QED BY <2>2, <2>3, <2>5, <2>6, <2>7, KeepsDecoder DEF BodyFits
<1>4. CASE gives # "bytes"
  <2>1. PICK y : y = [brBody[b] EXCEPT !.reader = "back", !.lock = "free", !.works = NoDecoder,
                                      !.failed = gives, !.result = gives]
    OBVIOUS
  <2>2. BrTo(b, y) /\ brPool' = brPool \cup {brBody[b].works} BY <1>0, <1>1, <1>4, <2>1
  <2>a. gives \in BrFailures /\ gives \in BrResults BY <1>2, <1>4 DEF BrFailures, BrResults
  <2>3. y \in Bodies BY <1>0, <2>a, <2>1, BrNames DEF Bodies
  <2>4. y.holds = brBody[b].holds /\ y.works = NoDecoder BY <1>0, <2>1 DEF Bodies
  <2>5. Uses(y) = {} /\ Uses(brBody[b]) = {brBody[b].works} BY <1>0, <2>4 DEF Uses
  <2>6. DecoderInPlace(y) /\ FailureIsSo(y) /\ AnswerIsSo(y)
    BY <1>0, <1>2, <1>4, <2>1 DEF BodyFits, DecoderInPlace, FailureIsSo, AnswerIsSo, Bodies
  <2>7. IF b \in BrWhole THEN Counted(y) ELSE y.answer = "none"
    BY <1>0, <1>2, <1>4, <2>1 DEF BodyFits, Counted, FailureIsSo, Bodies
  <2>. QED BY <1>0, <2>2, <2>3, <2>5, <2>6, <2>7, GivesDecoder DEF BodyFits
<1>. QED BY <1>3, <1>4

LEMMA DecodesInv ==
  ASSUME BrInv, NEW b \in BrBodies, Decodes(b)
  PROVE  BrInv'
<1>0. /\ BodyFits(b, brBody[b]) /\ brBody[b] \in Bodies /\ brBody[b].reader = "fetch"
      /\ brBody[b].holds = brBody[b].works /\ UNCHANGED <<brPool, brMade>>
      /\ brBody[b].failed = "no"
  BY BodyIs DEF Decodes, BodyFits, DecoderInPlace, Bodies
<1>1. PICK gives \in SourceGives(b) :
       BrTo(b, [brBody[b] EXCEPT !.reader = "back", !.lock = "free", !.works = NoDecoder,
                  !.result = gives, !.sent = IF gives = "bytes" THEN @ + 1 ELSE @])
  BY DEF Decodes
<1>2. /\ gives \in {"bytes", "end", "error"}
      /\ gives = "bytes" => brBody[b].sent < brBody[b].size
      /\ gives = "end" => brBody[b].ends = "clean" /\ ~(brBody[b].sent < brBody[b].size)
      /\ gives = "error" => \/ brBody[b].source # "open" \/ brBody[b].fired
                            \/ brBody[b].ends # "clean"
  BY <1>0, <1>1, GivesWhatIsSo
<1>3. PICK y : y = [brBody[b] EXCEPT !.reader = "back", !.lock = "free", !.works = NoDecoder,
                       !.result = gives, !.sent = IF gives = "bytes" THEN @ + 1 ELSE @]
  OBVIOUS
<1>4. y \in Bodies
  <2>1. PICK n \in Nat : n = IF gives = "bytes" THEN brBody[b].sent + 1 ELSE brBody[b].sent
    BY <1>0 DEF Bodies
  <2>2. y = [brBody[b] EXCEPT !.reader = "back", !.lock = "free", !.works = NoDecoder,
                              !.result = gives, !.sent = n]
    BY <1>0, <1>3, <2>1 DEF Bodies
  <2>3. gives \in BrResults BY <1>2 DEF BrResults
  <2>. QED BY <1>0, <2>2, <2>3, BrNames DEF Bodies
<1>5. y.holds = brBody[b].holds /\ y.works = NoDecoder BY <1>0, <1>3 DEF Bodies
<1>6. Uses(y) = Uses(brBody[b]) BY <1>0, <1>5 DEF Uses
<1>7. DecoderInPlace(y) BY <1>0, <1>3 DEF BodyFits, DecoderInPlace, Bodies
<1>8. FailureIsSo(y) /\ AnswerIsSo(y)
  BY <1>0, <1>2, <1>3 DEF BodyFits, FailureIsSo, AnswerIsSo, Bodies
<1>9. IF b \in BrWhole THEN Counted(y) ELSE y.answer = "none"
  BY <1>0, <1>2, <1>3 DEF BodyFits, Counted, FailureIsSo, Bodies
<1>. QED BY <1>0, <1>1, <1>3, <1>4, <1>6, <1>7, <1>8, <1>9, KeepsDecoder DEF BodyFits

LEMMA EndsReadInv ==
  ASSUME BrInv, NEW b \in BrBodies, EndsRead(b)
  PROVE  BrInv'
<1>. DEFINE body == brBody[b]
            result == IF body.result = "error" /\ body.fired THEN "idle" ELSE body.result
            got == IF b \in BrWhole /\ result = "bytes" THEN body.got + 1 ELSE body.got
            over == b \in BrWhole /\ (result # "bytes" \/ Enough(got))
            reader == IF result = "bytes" /\ ~over THEN "idle" ELSE "gone"
            answer == IF ~over THEN "none" ELSE IF got > BrLimit THEN "too_large"
                      ELSE IF result \in {"bytes", "end"} THEN "body" ELSE "error"
            y == [body EXCEPT !.reader = reader, !.result = result, !.got = got,
                              !.clock = IF @ = "late" THEN "late" ELSE "off",
                              !.answer = answer]
<1>0. /\ BodyFits(b, body) /\ body \in Bodies /\ body.reader = "back"
      /\ UNCHANGED <<brPool, brMade>> /\ BrTo(b, y)
  BY BodyIs DEF EndsRead
<1>. HIDE DEF body
<1>1. /\ result \in {"none", "bytes", "end", "error", "closed", "idle"}
      /\ got \in Nat /\ reader \in {"idle", "gone"}
      /\ answer \in {"none", "body", "too_large", "error"}
      /\ over \in BOOLEAN
  BY <1>0 DEF Bodies, BrResults
<1>2. /\ b \notin BrWhole => answer = "none"
      /\ answer # "none" => reader = "gone"
      /\ reader = "idle" => result = "bytes"
      /\ result = "bytes" => body.result = "bytes"
      /\ result = "end" => body.result = "end"
      /\ result \in {"error", "closed", "idle"} => body.result \in {"error", "closed", "idle"}
      /\ result = "none" => body.result = "none"
  BY DEF Enough
<1>3. /\ answer = "too_large" => b \in BrWhole /\ got > BrLimit
      /\ answer = "body" => b \in BrWhole /\ ~(got > BrLimit) /\ result = "end"
      /\ answer = "error" => b \in BrWhole /\ result \in {"none", "error", "closed", "idle"}
  BY <1>1 DEF Enough
<1>4. b \in BrWhole => /\ got = body.sent
                       /\ result = "end" => body.sent = body.size /\ body.ends = "clean"
                       /\ result # "none"
                       /\ result \in {"error", "closed", "idle"} => body.ends # "clean" \/ body.fired
                       /\ body.closer = "no"
  <2>. SUFFICES ASSUME b \in BrWhole
                PROVE  /\ got = body.sent
                       /\ result = "end" => body.sent = body.size /\ body.ends = "clean"
                       /\ result # "none"
                       /\ result \in {"error", "closed", "idle"} => body.ends # "clean" \/ body.fired
                       /\ body.closer = "no"
    OBVIOUS
  <2>1. Counted(body) BY <1>0 DEF BodyFits
  <2>2. got = body.sent BY <1>0, <2>1 DEF Counted, Bodies
  <2>3. body.closer = "no" BY <1>0, <2>1 DEF Counted
  <2>4. result # "none" /\ (result = "end" => body.sent = body.size /\ body.ends = "clean")
    BY <1>0, <1>2, <2>1 DEF Counted
  <2>5. result \in {"error", "closed", "idle"} => body.ends # "clean" \/ body.fired
    BY <1>0, <1>2, <2>1 DEF Counted
  <2>. QED BY <2>2, <2>3, <2>4, <2>5
<1>. HIDE DEF result, got, over, reader, answer
<1>5. y \in Bodies
  <2>1. PICK c \in {"off", "late"} : c = IF body.clock = "late" THEN "late" ELSE "off" OBVIOUS
  <2>2. y = [body EXCEPT !.reader = reader, !.result = result, !.got = got, !.clock = c,
                         !.answer = answer]
    BY <1>0, <2>1 DEF Bodies
  <2>. HIDE DEF y
  <2>3. result \in BrResults /\ reader \in BrReaders /\ answer \in BrAnswers /\ c \in BrClocks
    BY <1>1, <2>1 DEF BrResults, BrReaders, BrAnswers, BrClocks
  <2>. QED BY <1>0, <1>1, <2>2, <2>3 DEF Bodies
<1>6. /\ y.reader = reader /\ y.result = result /\ y.got = got /\ y.answer = answer
      /\ y.holds = body.holds /\ y.works = body.works /\ y.lock = body.lock
      /\ y.failed = body.failed /\ y.sent = body.sent /\ y.size = body.size
      /\ y.ends = body.ends /\ y.fired = body.fired /\ y.closer = body.closer
      /\ y.source = body.source
  BY <1>0 DEF Bodies
<1>. HIDE DEF y
<1>7. Uses(y) = Uses(body) BY <1>6 DEF Uses
<1>8. DecoderInPlace(y) BY <1>0, <1>1, <1>6 DEF BodyFits, DecoderInPlace
<1>9. FailureIsSo(y) BY <1>0, <1>6 DEF BodyFits, FailureIsSo
<1>10. body.sent \in Nat /\ body.size \in Nat /\ body.sent <= body.size /\ BrLimit \in Nat
  BY <1>0, BrAssumption DEF BodyFits, FailureIsSo, Bodies
<1>11. AnswerIsSo(y) BY <1>1, <1>2, <1>3, <1>4, <1>6, <1>10 DEF AnswerIsSo
<1>12. ASSUME b \in BrWhole PROVE Counted(y)
  BY <1>1, <1>2, <1>4, <1>6, <1>10, <1>12 DEF Counted
<1>13. b \notin BrWhole => y.answer = "none" BY <1>2, <1>6
<1>. QED BY <1>0, <1>5, <1>7, <1>8, <1>9, <1>11, <1>12, <1>13, KeepsDecoder DEF BodyFits, body

(* The clock and the closer leave the reader where it is.                   *)
LEMMA ClocksInv ==
  ASSUME BrInv, NEW b \in BrBodies, ClockExpires(b) \/ ClockFires(b)
  PROVE  BrInv'
<1>0. /\ BodyFits(b, brBody[b]) /\ brBody[b] \in Bodies
      /\ UNCHANGED <<brPool, brMade>>
  BY BodyIs DEF ClockExpires, ClockFires
<1>1. PICK c \in {"off", "late"}, f \in BOOLEAN :
        /\ BrTo(b, [brBody[b] EXCEPT !.clock = c, !.fired = f])
        /\ brBody[b].fired => f
  <2>1. CASE ClockExpires(b)
    <3>1. PICK f \in BOOLEAN : f = brBody[b].fired BY <1>0 DEF Bodies
    <3>2. [brBody[b] EXCEPT !.clock = "late"] = [brBody[b] EXCEPT !.clock = "late", !.fired = f]
      BY <1>0, <3>1 DEF Bodies
    <3>. QED BY <2>1, <3>1, <3>2 DEF ClockExpires
  <2>2. CASE ClockFires(b) BY <2>2 DEF ClockFires
  <2>. QED BY <2>1, <2>2
<1>2. PICK y : y = [brBody[b] EXCEPT !.clock = c, !.fired = f] OBVIOUS
<1>3. y \in Bodies BY <1>0, <1>2, BrNames DEF Bodies
<1>4. y.holds = brBody[b].holds /\ y.works = brBody[b].works BY <1>0, <1>2 DEF Bodies
<1>5. Uses(y) = Uses(brBody[b]) BY <1>4 DEF Uses
<1>6. DecoderInPlace(y) /\ FailureIsSo(y) /\ AnswerIsSo(y)
  BY <1>0, <1>1, <1>2 DEF BodyFits, DecoderInPlace, FailureIsSo, AnswerIsSo, Bodies
<1>7. IF b \in BrWhole THEN Counted(y) ELSE y.answer = "none"
  BY <1>0, <1>1, <1>2 DEF BodyFits, Counted, Bodies
<1>. QED BY <1>0, <1>1, <1>2, <1>3, <1>5, <1>6, <1>7, KeepsDecoder DEF BodyFits

LEMMA ClosesSourceInv ==
  ASSUME BrInv, NEW b \in BrBodies, ClosesSource(b)
  PROVE  BrInv'
<1>0. /\ BodyFits(b, brBody[b]) /\ brBody[b] \in Bodies
      /\ UNCHANGED <<brPool, brMade>>
      /\ b \in BrWhole => brBody[b].answer # "none"
  BY BodyIs DEF ClosesSource
<1>1. PICK c \in {"off", "late"} : c = IF brBody[b].clock = "late" THEN "late" ELSE "off" OBVIOUS
<1>2. PICK y : y = [brBody[b] EXCEPT !.closer = "lock", !.source = "closed", !.clock = c] OBVIOUS
<1>3. BrTo(b, y)
  <2>1. y = [brBody[b] EXCEPT !.closer = "lock", !.source = "closed",
                              !.clock = IF @ = "late" THEN "late" ELSE "off"]
    BY <1>0, <1>1, <1>2 DEF Bodies
  <2>. QED BY <2>1 DEF ClosesSource
<1>4. y \in Bodies BY <1>0, <1>2, BrNames DEF Bodies
<1>5. y.holds = brBody[b].holds /\ y.works = brBody[b].works BY <1>0, <1>2 DEF Bodies
<1>6. Uses(y) = Uses(brBody[b]) BY <1>5 DEF Uses
<1>7. DecoderInPlace(y) /\ FailureIsSo(y) /\ AnswerIsSo(y)
  BY <1>0, <1>2 DEF BodyFits, DecoderInPlace, FailureIsSo, AnswerIsSo, Bodies
<1>8. IF b \in BrWhole THEN Counted(y) ELSE y.answer = "none"
  BY <1>0, <1>2 DEF BodyFits, Counted, Bodies
<1>. QED BY <1>0, <1>3, <1>4, <1>6, <1>7, <1>8, KeepsDecoder DEF BodyFits

LEMMA ClosesDecoderInv ==
  ASSUME BrInv, NEW b \in BrBodies, ClosesDecoder(b)
  PROVE  BrInv'
<1>0. /\ BodyFits(b, brBody[b]) /\ brBody[b] \in Bodies /\ UNCHANGED brMade
      /\ brBody[b].closer = "lock" /\ brBody[b].lock = "free"
      /\ brPool' = brPool \cup ({brBody[b].holds} \ {NoDecoder})
  BY BodyIs DEF ClosesDecoder
<1>1. PICK f \in {"end", "error", "closed"} :
        f = IF brBody[b].failed = "no" THEN "closed" ELSE brBody[b].failed
  BY <1>0 DEF Bodies, BrFailures
<1>2. PICK y : y = [brBody[b] EXCEPT !.closer = "done", !.holds = NoDecoder, !.failed = f] OBVIOUS
<1>3. BrTo(b, y)
  <2>1. y = [brBody[b] EXCEPT !.closer = "done", !.holds = NoDecoder,
                              !.failed = IF @ = "no" THEN "closed" ELSE @]
    BY <1>0, <1>1, <1>2 DEF Bodies
  <2>. QED BY <2>1 DEF ClosesDecoder
<1>a. f \in BrFailures BY <1>1 DEF BrFailures
<1>4. y \in Bodies BY <1>0, <1>2, <1>a DEF Bodies
<1>5. y.holds = NoDecoder /\ y.works = brBody[b].works BY <1>0, <1>2 DEF Bodies
<1>6. brBody[b].works = NoDecoder /\ brBody[b].reader \notin {"open", "fetch"}
  BY <1>0 DEF BodyFits, DecoderInPlace
<1>7. Uses(y) = {} /\ Uses(brBody[b]) = {brBody[b].holds} \ {NoDecoder}
  BY <1>5, <1>6 DEF Uses
<1>8. DecoderInPlace(y) BY <1>0, <1>2, <1>6 DEF BodyFits, DecoderInPlace, Bodies
<1>9. FailureIsSo(y) /\ AnswerIsSo(y)
  BY <1>0, <1>1, <1>2 DEF BodyFits, FailureIsSo, AnswerIsSo, Bodies
<1>10. IF b \in BrWhole THEN Counted(y) ELSE y.answer = "none"
  BY <1>0, <1>2 DEF BodyFits, Counted, Bodies
<1>. QED BY <1>0, <1>3, <1>4, <1>7, <1>8, <1>9, <1>10, GivesDecoder DEF BodyFits

-----------------------------------------------------------------------------
LEMMA BrInvInit == BrInit => BrInv
<1>. SUFFICES ASSUME BrInit PROVE BrInv
  OBVIOUS
<1>1. PICK served \in [BrBodies -> UNION {BrServed[b] : b \in BrBodies}] :
       /\ \A b \in BrBodies : served[b] \in BrServed[b]
       /\ brBody = [b \in BrBodies |-> [NewBody EXCEPT !.size = served[b].size,
                                                      !.ends = served[b].ends]]
  BY DEF BrInit
<1>2. ASSUME NEW b \in BrBodies PROVE BodyFits(b, brBody[b]) /\ Uses(brBody[b]) = {}
  <2>1. served[b] \in [size : Nat, ends : {"clean", "cut", "stalls"}] BY <1>1, BrAssumption
  <2>2. PICK n \in Nat, e \in BrEnds :
          brBody[b] = [NewBody EXCEPT !.size = n, !.ends = e]
    BY <1>1, <2>1 DEF BrEnds
  <2>a. brBody[b] =
          [size |-> n, ends |-> e, source |-> "open", sent |-> 0,
           lock |-> "free", holds |-> NoDecoder, works |-> NoDecoder, failed |-> "no",
           reader |-> "idle", result |-> "none", got |-> 0,
           clock |-> "off", fired |-> FALSE, closer |-> "no", answer |-> "none"]
    BY <2>2 DEF NewBody
  <2>3. brBody[b] \in Bodies BY <2>a, BrNames DEF Bodies
  <2>4. DecoderInPlace(brBody[b]) /\ FailureIsSo(brBody[b]) /\ AnswerIsSo(brBody[b])
    BY <2>2 DEF NewBody, DecoderInPlace, FailureIsSo, AnswerIsSo
  <2>5. Counted(brBody[b]) /\ brBody[b].answer = "none" BY <2>2 DEF NewBody, Counted
  <2>6. Uses(brBody[b]) = {} BY <2>2 DEF NewBody, Uses
  <2>. QED BY <2>3, <2>4, <2>5, <2>6 DEF BodyFits
<1>3. brBody \in [BrBodies -> Bodies] BY <1>1, <1>2 DEF BodyFits
<1>4. DecodersApart BY <1>2 DEF BrInit, DecodersApart
<1>. QED BY <1>2, <1>3, <1>4 DEF BrInv

LEMMA BrInvNext == BrInv /\ [BrNext]_brVars => BrInv'
<1>. SUFFICES ASSUME BrInv, [BrNext]_brVars PROVE BrInv'
  OBVIOUS
<1>1. CASE BrNext
  <2>1. PICK b \in BrBodies :
          \/ BeginsRead(b) \/ ReadLocks(b) \/ OpensDecoder(b) \/ Decodes(b) \/ EndsRead(b)
          \/ ClockExpires(b) \/ ClockFires(b) \/ ClosesSource(b) \/ ClosesDecoder(b)
    BY <1>1 DEF BrNext
  <2>. QED BY <2>1, BeginsReadInv, ReadLocksInv, OpensDecoderInv, DecodesInv, EndsReadInv, ClocksInv,
              ClosesSourceInv, ClosesDecoderInv
<1>2. CASE UNCHANGED brVars
  <2>1. brBody' = brBody /\ brPool' = brPool /\ brMade' = brMade BY <1>2 DEF brVars
  <2>2. DecodersApart' BY <2>1 DEF BrInv, DecodersApart
  <2>3. \A b \in BrBodies : BodyFits(b, brBody[b])'
    BY <2>1 DEF BrInv, BodyFits, DecoderInPlace, FailureIsSo, AnswerIsSo, Counted
  <2>. QED BY <2>1, <2>2, <2>3 DEF BrInv
<1>. QED BY <1>1, <1>2

LEMMA InvMeansReadRight == BrInv => BodiesReadRight
<1>. SUFFICES ASSUME BrInv PROVE BodiesReadRight
  OBVIOUS
<1>1. \A b \in BrBodies : BodyFits(b, brBody[b]) /\ NoDecoder \notin BrDecoders
  BY BrAssumption DEF BrInv, NoDecoder
<1>2. BodyIsWhole
  BY <1>1 DEF BodyIsWhole, BodyFits, AnswerIsSo
<1>3. ASSUME NEW d \in BrDecoders
      PROVE  LET with == {b \in BrBodies : d \in {brBody[b].holds, brBody[b].works}} IN
             /\ Cardinality(with) <= 1
             /\ d \in brPool => with = {}
             /\ d \in brMade => d \in brPool \/ with # {}
  <2>. DEFINE with == {b \in BrBodies : d \in {brBody[b].holds, brBody[b].works}}
  <2>1. \A b \in BrBodies : b \in with <=> d \in Uses(brBody[b]) BY <1>1 DEF Uses
  <2>2. \A b, c \in with : b = c BY <2>1 DEF BrInv, DecodersApart
  <2>3. d \in brPool => with = {} BY <2>1 DEF BrInv, DecodersApart
  <2>4. d \in brMade => d \in brPool \/ with # {} BY <2>1 DEF BrInv, DecodersApart
  <2>. HIDE DEF with
  <2>5. Cardinality(with) <= 1
    <3>1. CASE with = {} BY <3>1, FS_EmptySet
    <3>2. CASE with # {}
      <4>1. PICK b \in with : TRUE BY <3>2
      <4>2. with = {b} BY <2>2, <4>1
      <4>. QED BY <4>2, FS_Singleton
    <3>. QED BY <3>1, <3>2
  <2>. QED BY <2>3, <2>4, <2>5 DEF with
<1>4. OneBodyPerDecoder BY <1>3 DEF OneBodyPerDecoder
<1>. QED BY <1>2, <1>4 DEF BodiesReadRight

(* However reads, closes, silences and failures interleave, no decoder is   *)
(* with two bodies or with one and in the pool, and what Do tells of a body *)
(* is so (stream.go, idle.go, decompress.go), for any number of responses   *)
(* and decoders and any limit.                                              *)
THEOREM BodiesAreRead == BrSpec => []BodiesReadRight
<1>1. BrInit => BrInv BY BrInvInit
<1>2. BrInv /\ [BrNext]_brVars => BrInv' BY BrInvNext
<1>3. BrInv => BodiesReadRight BY InvMeansReadRight
<1>. QED BY <1>1, <1>2, <1>3, PTL DEF BrSpec
=============================================================================
