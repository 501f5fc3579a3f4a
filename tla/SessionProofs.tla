---------------------------- MODULE SessionProofs ----------------------------
(***************************************************************************)
(* What a session keeps between its calls, for any number of them: the      *)
(* handles the C ABI gives out, the HTTP cache, the client hints, the HTTPS *)
(* record that dials to one name share, what a chain of redirects carries,  *)
(* the cookies, and the solves of challenges.  Each invariant says what a   *)
(* call has where it stands; the property follows from it, and is not       *)
(* inductive by itself.                                                     *)
(***************************************************************************)
EXTENDS Handles, HttpCache, ClientHints, EchDial, FetchChain, CookieJar, ChallengeSolve,
        Inductions, FiniteSetTheorems, SequenceTheorems, TLAPS

-----------------------------------------------------------------------------
(* Handles of the C ABI (Handles)                                          *)

Opening  == {"new", "found", "checked"}
Waiting  == {"listed", "ready", "discard"}
HdReturned == Waiting \cup {"given", "over"}

(* The types that the updates of the two functions need.                   *)
HdFunctions ==
  /\ hdCall \in [HdCalls -> [kind : HdKinds, async : BOOLEAN, dropped : BOOLEAN,
                             pc : Opening \cup {"dialed", "open", "failed"} \cup HdReturned]]
  /\ hdConn \in [HdCalls -> {"none", "open", "closed"}]

(* Where a call stands, and what it has by then.                           *)
Before(c) ==
  /\ hdCall[c].pc \in Opening => hdConn[c] = "none"
  /\ hdCall[c].pc \in {"dialed", "open"} => hdConn[c] = "open"
  /\ hdCall[c].pc = "failed" => hdConn[c] # "open"
  /\ hdCall[c].pc \notin HdReturned => c \notin hdTable /\ c \notin hdTaken /\ c \notin hdFailed

Kept(c) ==
  /\ hdCall[c].pc \in Waiting => c \in hdTable
  /\ hdCall[c].pc = "over" => c \notin hdTable
  /\ c \in hdTable => hdConn[c] = "open" /\ c \notin hdTaken
  /\ c \in hdTaken => hdConn[c] = "open"
  /\ hdCall[c].pc \in HdReturned /\ hdConn[c] = "open" => c \in hdTable \/ c \in hdTaken

Explained(c) ==
  /\ c \in hdBodies => hdCall[c].pc \in Working \/ c \in hdTable \/ c \in hdTaken
  /\ c \in hdFailed => c \in hdErr
  /\ c \in hdFailed /\ hdConn[c] = "closed" /\ hdCall[c].kind \in {"stream", "upload"}
       => c \in hdTold

HdInv == HdFunctions /\ \A c \in HdCalls : Before(c) /\ Kept(c) /\ Explained(c)

-----------------------------------------------------------------------------
(* Nothing is opened yet.                                                  *)
LEMMA HdInvInit == HdInit => HdInv
  BY DEF HdInit, HdInv, HdFunctions, HdKinds, Opening, Waiting, HdReturned, Working,
         Before, Kept, Explained

(* One step per action.                                                    *)
LEMMA HdInvNext == HdInv /\ [HdNext]_hdVars => HdInv'
<1> SUFFICES ASSUME HdInv, [HdNext]_hdVars PROVE HdInv'
  OBVIOUS
<1> USE DEF HdInv, HdFunctions, HdKinds, Opening, Waiting, HdReturned, Working, HdAt, ListsHandle, DropsBody,
           ClosesConn, SetsErr, ReadersRest
<1>1. ASSUME NEW c \in HdCalls, FindsSession(c) PROVE HdInv'
  BY <1>1 DEF FindsSession, Before, Kept, Explained
<1>2. ASSUME NEW c \in HdCalls, EnsureOpen(c) PROVE HdInv'
  BY <1>2 DEF EnsureOpen, Before, Kept, Explained
<1>3. ASSUME NEW c \in HdCalls, DialsConn(c) PROVE HdInv'
  BY <1>3 DEF DialsConn, Before, Kept, Explained
<1>4. ASSUME NEW c \in HdCalls, Opened(c) PROVE HdInv'
  BY <1>4 DEF Opened, Before, Kept, Explained
<1>5. ASSUME NEW c \in HdCalls, Refused(c) PROVE HdInv'
  BY <1>5 DEF Refused, Before, Kept, Explained
<1>6. ASSUME NEW c \in HdCalls, OpenFails(c) PROVE HdInv'
  BY <1>6 DEF OpenFails, Before, Kept, Explained
<1>7. ASSUME NEW c \in HdCalls, RegistersHandle(c) PROVE HdInv'
  BY <1>7 DEF RegistersHandle, Before, Kept, Explained
<1>8. ASSUME NEW c \in HdCalls, OpenReturns(c) PROVE HdInv'
  BY <1>8 DEF OpenReturns, Before, Kept, Explained
<1>9. ASSUME NEW c \in HdCalls, TakesResult(c) PROVE HdInv'
  BY <1>9 DEF TakesResult, Before, Kept, Explained
<1>10. ASSUME NEW c \in HdCalls, CancelsOpen(c) PROVE HdInv'
  <2>1. CASE hdCall' = [hdCall EXCEPT ![c].dropped = TRUE]
    <3>1. \A b \in HdCalls : hdCall'[b].pc = hdCall[b].pc /\ hdCall'[b].kind = hdCall[b].kind
      BY <2>1
    <3>2. HdFunctions'
      <4>1. [hdCall[c] EXCEPT !.dropped = TRUE] \in
              [kind : HdKinds, async : BOOLEAN, dropped : BOOLEAN,
               pc : Opening \cup {"dialed", "open", "failed"} \cup HdReturned]
        OBVIOUS
      <4>2. hdCall' = [hdCall EXCEPT ![c] = [hdCall[c] EXCEPT !.dropped = TRUE]]
        BY <2>1
      <4> QED
        BY <1>10, <4>1, <4>2 DEF CancelsOpen
    <3> QED
      BY <1>10, <3>1, <3>2 DEF CancelsOpen, Before, Kept, Explained
  <2>2. CASE hdCall[c].pc = "ready" /\ HdAt(c, "discard")
    BY <1>10, <2>2 DEF CancelsOpen, Before, Kept, Explained
  <2> QED
    BY <1>10, <2>1, <2>2 DEF CancelsOpen
<1>11. ASSUME NEW c \in HdCalls, TakesOut(c) PROVE HdInv'
  BY <1>11 DEF TakesOut, Before, Kept, Explained
<1>12. ASSUME NEW c \in HdCalls, ClosesHandle(c) PROVE HdInv'
  BY <1>12 DEF ClosesHandle, Before, Kept, Explained
<1>13. ASSUME NEW c \in HdCalls, ReadStarts(c) PROVE HdInv'
  BY <1>13 DEF ReadStarts, Before, Kept, Explained
<1>14. CASE ReadReturns
  BY <1>14 DEF ReadReturns, Before, Kept, Explained
<1>15. CASE AsksWhy
  BY <1>15 DEF AsksWhy, Before, Kept, Explained
<1>16. CASE SessionUnlisted \/ SessionCloses \/ UNCHANGED hdVars
  BY <1>16 DEF SessionUnlisted, SessionCloses, hdVars, Before, Kept, Explained
<1> QED
  BY <1>1, <1>2, <1>3, <1>4, <1>5, <1>6, <1>7, <1>8, <1>9, <1>10, <1>11, <1>12, <1>13,
     <1>14, <1>15, <1>16 DEF HdNext

(* Whatever an open has taken has somebody who will give it back: the      *)
(* cleanup of an abandoned open, the close of a handle, in any order with  *)
(* reads, cancels and the session's end (lib/async.go, lib/stream.go).     *)
THEOREM HandlesAreReturned == HdSpec => []NothingLeftOpen
<1>1. HdInv => NothingLeftOpen
  BY DEF HdInv, HdFunctions, HdKinds, Opening, Waiting, HdReturned, Working, Before, Kept,
         Explained, NothingLeftOpen
<1> QED
  BY <1>1, HdInvInit, HdInvNext, PTL DEF HdSpec

-----------------------------------------------------------------------------
(* The HTTP cache (HttpCache)                                              *)

HcStoreRecord == [file: HcMaybe, known: BOOLEAN]

(* What a request has where it stands: an answer when it is over, an entry  *)
(* it validates, an entry to be put.                                        *)
HcKept(rec) ==
  /\ rec.got # HcNone =>
       /\ rec.pc = "idle" /\ rec.got.whole /\ rec.got.lang = rec.lang
       /\ rec.confirmed # 0 => rec.got.version = rec.confirmed
  /\ rec.held # HcNone => rec.held.whole /\ rec.held.lang = rec.lang
  /\ rec.pc \in {"get", "sent", "body"} => rec.confirmed = 0
  /\ rec.pc \in {"body", "put", "register"} => rec.new # HcNone /\ rec.new.lang = rec.lang
  /\ rec.pc \in {"put", "register"} =>
       rec.new.whole /\ (rec.confirmed # 0 => rec.new.version = rec.confirmed)

(* Nothing broken off is in the store.                                      *)
StoreIsWhole == hcStore.file # HcNone => hcStore.file.whole

HcInv == HcTypeOK /\ StoreIsWhole /\ \A q \in HcRequests : HcKept(hcReq[q])

LEMMA EntryOrNone ==
  /\ HcNone \in HcMaybe /\ HcNone \notin HcEntry
  /\ \A e \in HcMaybe : e # HcNone =>
       e \in HcEntry /\ e.version \in 1..HcVersions /\ e.lang \in HcLanguages /\ e.whole \in BOOLEAN
<1>1. HcNone.version = 0 /\ \A e \in HcEntry : e.version # 0 BY DEF HcNone, HcEntry
<1>. QED BY <1>1 DEF HcMaybe, HcEntry

LEMMA IdleIsKept == HcIdle \in HcRequest /\ HcKept(HcIdle)
<1>1. (CHOOSE l \in HcLanguages : TRUE) \in HcLanguages BY HcAssumption
<1>2. 0 \in 0..HcVersions BY HcAssumption
<1>3. HcIdle \in HcRequest BY <1>1, <1>2, EntryOrNone DEF HcIdle, HcRequest
<1>. QED BY <1>3 DEF HcIdle, HcKept

LEMMA HcInvInit == HcInit => HcInv
<1>. SUFFICES ASSUME HcInit PROVE HcInv OBVIOUS
<1>1. hcOrigin \in 1..HcVersions BY HcAssumption DEF HcInit
<1>2. HcTypeOK BY <1>1, IdleIsKept, EntryOrNone DEF HcInit, HcTypeOK
<1>. QED BY <1>2, IdleIsKept DEF HcInit, HcInv, StoreIsWhole

(* One request moves, and perhaps the store.                                *)
LEMMA HcMoves ==
  ASSUME HcInv, NEW q \in HcRequests, NEW rec \in HcRequest, HcKept(rec),
         hcReq' = [hcReq EXCEPT ![q] = rec],
         UNCHANGED <<hcDisk, hcOrigin>>, hcStore' \in HcStoreRecord, StoreIsWhole'
  PROVE  HcInv'
<1>1. hcReq' \in [HcRequests -> HcRequest] BY DEF HcInv, HcTypeOK
<1>2. \A p \in HcRequests : HcKept(hcReq'[p]) BY DEF HcInv, HcTypeOK
<1>3. HcTypeOK' BY <1>1 DEF HcInv, HcTypeOK, HcStoreRecord
<1>. QED BY <1>2, <1>3 DEF HcInv

(* A request is over, with nothing or with an entry that suits it.          *)
LEMMA HcEnds ==
  ASSUME HcInv, NEW q \in HcRequests,
         UNCHANGED <<hcDisk, hcOrigin>>, hcStore' \in HcStoreRecord, StoreIsWhole',
         \/ HcOver(q)
         \/ \E e \in HcEntry :
              /\ HcServes(q, e) /\ e.whole /\ e.lang = hcReq[q].lang
              /\ hcReq[q].confirmed # 0 => e.version = hcReq[q].confirmed
  PROVE  HcInv'
<1>1. CASE HcOver(q) BY <1>1, IdleIsKept, HcMoves DEF HcOver
<1>2. ASSUME NEW e \in HcEntry, HcServes(q, e), e.whole, e.lang = hcReq[q].lang,
             hcReq[q].confirmed # 0 => e.version = hcReq[q].confirmed
      PROVE  HcInv'
  <2>. DEFINE rec == [HcIdle EXCEPT !.lang = hcReq[q].lang, !.got = e,
                                    !.confirmed = hcReq[q].confirmed]
  <2>1. hcReq[q] \in HcRequest BY DEF HcInv, HcTypeOK
  <2>2. e \in HcMaybe BY DEF HcMaybe
  <2>3. rec \in HcRequest BY <2>1, <2>2, IdleIsKept DEF HcRequest
  <2>4. HcKept(rec) BY <1>2, IdleIsKept DEF HcKept, HcIdle
  <2>5. hcReq' = [hcReq EXCEPT ![q] = rec] BY <1>2 DEF HcServes
  <2>. HIDE DEF rec
  <2>. QED BY <2>3, <2>4, <2>5, HcMoves
<1>. QED BY <1>1, <1>2

LEMMA LookupKeeps == ASSUME HcInv, NEW q \in HcRequests, HcAsk(q) \/ HcGet(q) PROVE HcInv'
<1>1. /\ hcReq[q] \in HcRequest /\ HcKept(hcReq[q]) /\ hcStore' = hcStore
      /\ UNCHANGED <<hcDisk, hcOrigin>> /\ hcStore' \in HcStoreRecord /\ StoreIsWhole'
  BY DEF HcInv, HcTypeOK, HcAsk, HcGet, HcStoreRecord, StoreIsWhole
<1>2. CASE HcAsk(q)
  <2>1. PICK mode \in {"default", "no-cache", "force-cache", "only-if-cached"},
             lang \in HcLanguages :
          hcReq' = [hcReq EXCEPT ![q] = [HcIdle EXCEPT !.pc = "get", !.mode = mode,
                                           !.lang = lang, !.known = hcStore.known]]
    BY <1>2 DEF HcAsk
  <2>. DEFINE rec == [HcIdle EXCEPT !.pc = "get", !.mode = mode, !.lang = lang,
                                    !.known = hcStore.known]
  <2>2. hcStore.known \in BOOLEAN BY DEF HcInv, HcTypeOK
  <2>3. rec \in HcRequest BY <2>2, IdleIsKept DEF HcRequest
  <2>4. HcKept(rec) BY IdleIsKept DEF HcKept, HcIdle
  <2>5. hcReq' = [hcReq EXCEPT ![q] = rec] BY <2>1
  <2>. HIDE DEF rec
  <2>. QED BY <1>1, <2>3, <2>4, <2>5, HcMoves
<1>3. CASE HcGet(q)
  <2>1. /\ HcFound(q) \in HcMaybe
        /\ HcFound(q) # HcNone =>
             /\ HcFound(q) \in HcEntry /\ HcFound(q).whole
             /\ HcFound(q).lang = hcReq[q].lang
    BY EntryOrNone DEF HcFound, HcInv, HcTypeOK, StoreIsWhole
  <2>2. hcReq[q].pc = "get" /\ hcReq[q].confirmed = 0 BY <1>1, <1>3 DEF HcGet, HcKept
  <2>3. CASE HcHit(q)
    BY <1>1, <2>1, <2>2, <2>3, HcEnds DEF HcHit
  <2>4. CASE HcNotCached(q) BY <1>1, <2>4, HcEnds DEF HcNotCached
  <2>5. CASE HcSend(q)
    <3>. DEFINE rec == [HcIdle EXCEPT !.pc = "sent", !.held = HcFound(q),
                                      !.lang = hcReq[q].lang]
    <3>1. rec \in HcRequest BY <1>1, <2>1, IdleIsKept DEF HcRequest
    <3>2. HcKept(rec) BY <2>1, IdleIsKept DEF HcKept, HcIdle
    <3>3. hcReq' = [hcReq EXCEPT ![q] = rec] BY <2>5 DEF HcSend
    <3>. HIDE DEF rec
    <3>. QED BY <1>1, <3>1, <3>2, <3>3, HcMoves
  <2>. QED BY <1>3, <2>3, <2>4, <2>5 DEF HcGet
<1>. QED BY <1>2, <1>3

(* A request goes on as it was but for some fields.                         *)
LEMMA HcGoesOn ==
  ASSUME HcInv, NEW q \in HcRequests, UNCHANGED <<hcDisk, hcOrigin>>,
         hcStore' \in HcStoreRecord, StoreIsWhole',
         hcReq' \in [HcRequests -> HcRequest], HcKept(hcReq'[q]),
         \A p \in HcRequests : p # q => hcReq'[p] = hcReq[p]
  PROVE  HcInv'
<1>1. \A p \in HcRequests : HcKept(hcReq'[p]) BY DEF HcInv
<1>2. HcTypeOK' BY DEF HcInv, HcTypeOK, HcStoreRecord
<1>. QED BY <1>1, <1>2 DEF HcInv

LEMMA AnsweringKeeps == ASSUME HcInv, NEW q \in HcRequests, HcAnswer(q) \/ HcBody(q) PROVE HcInv'
<1>1. /\ hcReq[q] \in HcRequest /\ HcKept(hcReq[q]) /\ hcReq \in [HcRequests -> HcRequest]
      /\ UNCHANGED <<hcDisk, hcOrigin>> /\ hcStore' \in HcStoreRecord /\ StoreIsWhole'
      /\ hcOrigin \in 1..HcVersions
  BY DEF HcInv, HcTypeOK, HcAnswer, HcBody, HcStoreRecord, StoreIsWhole
<1>2. CASE HcOver(q) BY <1>1, <1>2, HcEnds
<1>3. CASE hcReq[q].pc = "sent" /\ HcNotModified(q)
  <2>1. /\ hcReq[q].held # HcNone /\ hcReq[q].held.version = hcOrigin
        /\ hcReq' = [hcReq EXCEPT ![q].pc = "put", ![q].held = HcNone,
                       ![q].new = hcReq[q].held, ![q].confirmed = hcOrigin]
    BY <1>3 DEF HcNotModified, HcConfirmed
  <2>2. hcReq[q].held \in HcMaybe /\ hcOrigin \in 0..HcVersions BY <1>1 DEF HcRequest
  <2>3. hcReq' \in [HcRequests -> HcRequest]
    BY <1>1, <2>1, <2>2, EntryOrNone DEF HcRequest
  <2>4. /\ hcReq'[q].pc = "put" /\ hcReq'[q].held = HcNone /\ hcReq'[q].confirmed = hcOrigin
        /\ hcReq'[q].new = hcReq[q].held /\ hcReq'[q].got = hcReq[q].got
        /\ hcReq'[q].lang = hcReq[q].lang
    BY <1>1, <2>1 DEF HcRequest
  <2>5. HcKept(hcReq'[q]) BY <1>1, <1>3, <2>1, <2>4 DEF HcKept
  <2>. QED BY <1>1, <2>1, <2>3, <2>5, HcGoesOn
<1>4. CASE /\ hcReq[q].pc = "sent"
           /\ hcReq' = [hcReq EXCEPT ![q].pc = "body", ![q].held = HcNone,
                ![q].new = [version |-> hcOrigin, lang |-> hcReq[q].lang, whole |-> FALSE]]
  <2>. DEFINE new == [version |-> hcOrigin, lang |-> hcReq[q].lang, whole |-> FALSE]
  <2>1. new \in HcEntry /\ new.lang = hcReq[q].lang BY <1>1 DEF HcEntry, HcRequest
  <2>2. hcReq' = [hcReq EXCEPT ![q].pc = "body", ![q].held = HcNone, ![q].new = new]
    BY <1>4
  <2>. HIDE DEF new
  <2>3. new \in HcMaybe /\ new # HcNone BY <2>1, EntryOrNone DEF HcMaybe
  <2>4. hcReq' \in [HcRequests -> HcRequest]
    BY <1>1, <2>2, <2>3, EntryOrNone DEF HcRequest
  <2>5. /\ hcReq'[q].pc = "body" /\ hcReq'[q].held = HcNone /\ hcReq'[q].new = new
        /\ hcReq'[q].confirmed = hcReq[q].confirmed /\ hcReq'[q].got = hcReq[q].got
        /\ hcReq'[q].lang = hcReq[q].lang
    BY <1>1, <2>2 DEF HcRequest
  <2>6. HcKept(hcReq'[q]) BY <1>1, <1>4, <2>1, <2>3, <2>5 DEF HcKept
  <2>. QED BY <1>1, <2>2, <2>4, <2>6, HcGoesOn
<1>5. CASE hcReq[q].pc = "sent" /\ hcReq' = [hcReq EXCEPT ![q].pc = "remove", ![q].held = HcNone]
  <2>1. hcReq' \in [HcRequests -> HcRequest] BY <1>1, <1>5, EntryOrNone DEF HcRequest
  <2>2. /\ hcReq'[q].pc = "remove" /\ hcReq'[q].held = HcNone /\ hcReq'[q].got = hcReq[q].got
    BY <1>1, <1>5 DEF HcRequest
  <2>3. HcKept(hcReq'[q]) BY <1>1, <1>5, <2>2 DEF HcKept
  <2>. QED BY <1>1, <1>5, <2>1, <2>3, HcGoesOn
<1>6. CASE hcReq[q].pc = "body" /\ hcReq' = [hcReq EXCEPT ![q].pc = "put", ![q].new.whole = TRUE]
  <2>. DEFINE new == [hcReq[q].new EXCEPT !.whole = TRUE]
  <2>1. hcReq[q].new \in HcEntry /\ hcReq[q].new.lang = hcReq[q].lang /\ hcReq[q].confirmed = 0
    BY <1>1, <1>6, EntryOrNone DEF HcKept, HcRequest
  <2>2. new \in HcEntry /\ new.lang = hcReq[q].lang /\ new.whole BY <2>1 DEF HcEntry
  <2>3. hcReq' = [hcReq EXCEPT ![q].pc = "put", ![q].new = new] BY <1>1, <1>6 DEF HcRequest
  <2>. HIDE DEF new
  <2>4. new \in HcMaybe /\ new # HcNone BY <2>2, EntryOrNone DEF HcMaybe
  <2>5. hcReq' \in [HcRequests -> HcRequest] BY <1>1, <2>3, <2>4 DEF HcRequest
  <2>6. /\ hcReq'[q].pc = "put" /\ hcReq'[q].held = hcReq[q].held /\ hcReq'[q].new = new
        /\ hcReq'[q].confirmed = 0 /\ hcReq'[q].got = hcReq[q].got
        /\ hcReq'[q].lang = hcReq[q].lang
    BY <1>1, <2>1, <2>3 DEF HcRequest
  <2>7. HcKept(hcReq'[q]) BY <1>1, <1>6, <2>2, <2>4, <2>6 DEF HcKept
  <2>. QED BY <1>1, <2>3, <2>5, <2>7, HcGoesOn
<1>. QED BY <1>2, <1>3, <1>4, <1>5, <1>6 DEF HcAnswer, HcModified, HcBody

(* The store is changed to hold one file or none, and the table to know it. *)
LEMMA HcStores ==
  ASSUME NEW file \in HcMaybe, NEW known \in BOOLEAN, file # HcNone => file.whole,
         hcStore' = [file |-> file, known |-> known]
  PROVE  hcStore' \in HcStoreRecord /\ StoreIsWhole'
  BY DEF HcStoreRecord, StoreIsWhole

LEMMA StoringKeeps ==
  ASSUME HcInv, NEW q \in HcRequests, HcPut(q) \/ HcRegister(q) \/ HcRemove(q) \/ HcUnlink(q)
  PROVE  HcInv'
<1>1. /\ hcReq[q] \in HcRequest /\ HcKept(hcReq[q]) /\ hcReq \in [HcRequests -> HcRequest]
      /\ UNCHANGED <<hcDisk, hcOrigin>> /\ hcStore \in HcStoreRecord /\ StoreIsWhole
  BY DEF HcInv, HcTypeOK, HcPut, HcRegister, HcRemove, HcUnlink, HcStoreRecord
<1>2. hcReq[q].pc \in {"put", "register"} =>
        /\ hcReq[q].new \in HcEntry /\ hcReq[q].new \in HcMaybe /\ hcReq[q].new.whole
        /\ hcReq[q].new.lang = hcReq[q].lang
        /\ hcReq[q].confirmed # 0 => hcReq[q].new.version = hcReq[q].confirmed
  BY <1>1, EntryOrNone DEF HcKept, HcRequest
<1>3. hcStore' \in HcStoreRecord /\ StoreIsWhole'
  <2>1. /\ hcStore.file \in HcMaybe /\ hcStore.known \in BOOLEAN
        /\ hcStore = [file |-> hcStore.file, known |-> hcStore.known]
        /\ hcStore.file # HcNone => hcStore.file.whole
        /\ HcNone \in HcMaybe
    BY <1>1, EntryOrNone DEF HcStoreRecord, StoreIsWhole
  <2>2. CASE hcStore' = hcStore BY <1>1, <2>2 DEF StoreIsWhole
  <2>3. CASE /\ hcReq[q].pc = "put"
             /\ \/ hcStore' = [file |-> hcReq[q].new, known |-> TRUE]
                \/ hcStore' = [hcStore EXCEPT !.file = hcReq[q].new]
    <3>1. \/ hcStore' = [file |-> hcReq[q].new, known |-> TRUE]
          \/ hcStore' = [file |-> hcReq[q].new, known |-> hcStore.known]
      BY <2>1, <2>3
    <3>. QED BY <1>2, <2>1, <2>3, <3>1, HcStores
  <2>4. CASE hcStore' = [hcStore EXCEPT !.known = TRUE]
    <3>1. hcStore' = [file |-> hcStore.file, known |-> TRUE] BY <2>1, <2>4
    <3>. QED BY <2>1, <3>1, HcStores
  <2>5. CASE hcStore' = [hcStore EXCEPT !.known = FALSE]
    <3>1. hcStore' = [file |-> hcStore.file, known |-> FALSE] BY <2>1, <2>5
    <3>. QED BY <2>1, <3>1, HcStores
  <2>6. CASE \/ hcStore' = [file |-> HcNone, known |-> FALSE]
             \/ hcStore' = [hcStore EXCEPT !.file = HcNone]
    <3>1. \/ hcStore' = [file |-> HcNone, known |-> FALSE]
          \/ hcStore' = [file |-> HcNone, known |-> hcStore.known]
      BY <2>1, <2>6
    <3>. QED BY <2>1, <3>1, HcStores
  <2>. QED BY <2>2, <2>3, <2>4, <2>5, <2>6
       DEF HcPut, HcRegister, HcRemove, HcUnlink, HcPutInMemory, HcRemoveFromMemory
<1>4. CASE hcReq[q].pc \in {"put", "register"} /\ HcDone(q)
  BY <1>1, <1>2, <1>3, <1>4, HcEnds DEF HcDone
<1>5. CASE HcOver(q) BY <1>1, <1>3, <1>5, HcEnds
<1>6. CASE hcReq[q].pc = "put" /\ hcReq' = [hcReq EXCEPT ![q].pc = "register"]
  <2>1. hcReq' \in [HcRequests -> HcRequest] BY <1>1, <1>6 DEF HcRequest
  <2>2. hcReq'[q] = [hcReq[q] EXCEPT !.pc = "register"] BY <1>1, <1>6
  <2>3. HcKept(hcReq'[q]) BY <1>1, <1>6, <2>2 DEF HcKept, HcRequest
  <2>. QED BY <1>1, <1>3, <1>6, <2>1, <2>3, HcGoesOn
<1>7. CASE hcReq[q].pc = "remove" /\ hcReq' = [hcReq EXCEPT ![q].pc = "unlink"]
  <2>1. hcReq' \in [HcRequests -> HcRequest] BY <1>1, <1>7 DEF HcRequest
  <2>2. hcReq'[q] = [hcReq[q] EXCEPT !.pc = "unlink"] BY <1>1, <1>7
  <2>3. HcKept(hcReq'[q]) BY <1>1, <1>7, <2>2 DEF HcKept, HcRequest
  <2>. QED BY <1>1, <1>3, <1>7, <2>1, <2>3, HcGoesOn
<1>. QED BY <1>4, <1>5, <1>6, <1>7 DEF HcPut, HcRegister, HcRemove, HcUnlink, HcPutInMemory,
         HcRemoveFromMemory

LEMMA HcInvNext == HcInv /\ [HcNext]_hcVars => HcInv'
<1>. SUFFICES ASSUME HcInv, [HcNext]_hcVars PROVE HcInv' OBVIOUS
<1>1. CASE \/ HcEmpties \/ HcChanges \/ UNCHANGED hcVars
  <2>1. hcReq' = hcReq /\ hcDisk' = hcDisk
    BY <1>1 DEF HcEmpties, HcChanges, hcVars
  <2>2. hcOrigin' \in 1..HcVersions
    BY <1>1, HcAssumption DEF HcInv, HcTypeOK, HcEmpties, HcChanges, hcVars
  <2>3. hcStore' \in HcStoreRecord /\ StoreIsWhole'
    <3>1. CASE hcStore' = hcStore
      BY <3>1 DEF HcInv, HcTypeOK, HcStoreRecord, StoreIsWhole
    <3>2. CASE hcStore' = [file |-> HcNone, known |-> FALSE]
      BY <3>2, EntryOrNone, HcStores
    <3>. QED BY <1>1, <3>1, <3>2 DEF HcEmpties, HcChanges, hcVars
  <2>. QED BY <2>1, <2>2, <2>3 DEF HcInv, HcTypeOK, HcStoreRecord
<1>. QED BY <1>1, LookupKeeps, AnsweringKeeps, StoringKeeps DEF HcNext

(* Whatever requests side by side put into the store, take out of it and    *)
(* overwrite between a lookup and its answer, the cache answers with a      *)
(* whole body of the variant asked for, and behind a 304 with the version   *)
(* that was confirmed (cache.go, sendCached, teeBody).                      *)
THEOREM CacheIsRight == HcSpec => []CacheAnswersRight
<1>1. HcInv => CacheAnswersRight BY DEF HcInv, HcKept, CacheAnswersRight
<1>. QED BY HcInvInit, HcInvNext, <1>1, PTL DEF HcSpec

-----------------------------------------------------------------------------
(* Client hints (ClientHints)                                              *)

ChRecord == [pc: {"idle", "build", "policy", "sent"}, nav: BOOLEAN, top: ChOrigins,
             to: ChOrigins, want: SUBSET ChHints, hints: SUBSET ChHints,
             critical: SUBSET ChHints, again: BOOLEAN]

ChTypes ==
  /\ acceptCH \in [ChOrigins -> SUBSET ChHints]
  /\ chPolicy \in [ChOrigins -> ParsedPolicy]
  /\ chReq \in [ChRequests -> ChRecord] /\ chCould \in [ChRequests -> SUBSET ChHints]

(* What a request took down and what was critical for it has been asked for *)
(* and still is, since asking is for good; what the rule allows it at this  *)
(* moment is among what it was allowed at some moment.                      *)
LeaveKept(q) ==
  LET rec == chReq[q] IN
  /\ rec.nav => rec.top = rec.to
  /\ ~rec.nav => rec.critical = {}
  /\ rec.critical \subseteq acceptCH[rec.top]
  /\ rec.pc = "policy" => ~rec.nav /\ rec.want \subseteq acceptCH[rec.top]
  /\ rec.pc # "idle" => Allowed(rec, acceptCH, chPolicy) \subseteq chCould[q]
  /\ rec.pc = "sent" => rec.hints \subseteq chCould[q] /\ rec.critical \subseteq rec.hints

ChInv == ChTypes /\ \A q \in ChRequests : LeaveKept(q)

LEMMA NewChIsTyped == NewChRequest \in ChRecord /\ NoPolicy \in ParsedPolicy
  BY ChAssumption DEF NewChRequest, ChRecord, ParsedPolicy

LEMMA ChInvInit == ChInit => ChInv
<1>. SUFFICES ASSUME ChInit PROVE ChInv OBVIOUS
<1>1. ChTypes BY NewChIsTyped DEF ChInit, ChTypes
<1>2. \A q \in ChRequests : LeaveKept(q) BY DEF ChInit, LeaveKept, NewChRequest
<1>. QED BY <1>1, <1>2 DEF ChInv

LEMMA AllowedIsHints ==
  ASSUME ChTypes, NEW rec \in ChRecord
  PROVE  Allowed(rec, acceptCH, chPolicy) \subseteq ChHints
  BY DEF Allowed, ChTypes, ChRecord

LEMMA SameLeave ==
  ASSUME NEW r, NEW s, r.top = s.top, r.to = s.to, UNCHANGED <<acceptCH, chPolicy>>
  PROVE  Allowed(r, acceptCH', chPolicy') = Allowed(s, acceptCH, chPolicy)
  BY DEF Allowed

(* The headers of one request, what is known staying as it is.              *)
LEMMA HeadersKeep ==
  ASSUME ChInv, NEW q \in ChRequests,
         BeginsHeaders(q) \/ HintsFor(q) \/ TakesPolicy(q) \/ FetchAnswered(q)
  PROVE  ChInv'
<1>1. /\ UNCHANGED <<acceptCH, chPolicy>> /\ chReq[q] \in ChRecord /\ ChTypes
      /\ LeaveKept(q) /\ chReq \in [ChRequests -> ChRecord]
      /\ acceptCH \in [ChOrigins -> SUBSET ChHints]
      /\ chCould \in [ChRequests -> SUBSET ChHints]
  BY DEF ChInv, ChTypes, BeginsHeaders, HintsFor, TakesPolicy, FetchAnswered
<1>2. ASSUME NEW rec \in ChRecord, NEW could \in SUBSET ChHints,
             chReq' = [chReq EXCEPT ![q] = rec], chCould' = [chCould EXCEPT ![q] = could],
             LeaveKept(q)'
      PROVE  ChInv'
  <2>1. ChTypes' BY <1>1, <1>2 DEF ChInv, ChTypes
  <2>2. ASSUME NEW p \in ChRequests PROVE LeaveKept(p)'
    <3>1. CASE p = q BY <1>2, <3>1
    <3>2. CASE p # q
      <4>1. chReq'[p] = chReq[p] /\ chCould'[p] = chCould[p] BY <1>1, <1>2, <3>2
      <4>2. LeaveKept(p) BY DEF ChInv
      <4>. QED BY <1>1, <4>1, <4>2 DEF LeaveKept, Allowed
    <3>. QED BY <3>1, <3>2
  <2>. QED BY <2>1, <2>2 DEF ChInv
<1>3. chCould = [chCould EXCEPT ![q] = chCould[q]] /\ chCould[q] \in SUBSET ChHints BY <1>1
<1>4. CASE BeginsHeaders(q)
  <2>1. PICK nav \in BOOLEAN, to \in ChOrigins :
          LET rec == [NewChRequest EXCEPT !.pc = "build", !.nav = nav, !.to = to,
                                          !.top = IF nav THEN to ELSE ChPage]
          IN /\ chReq' = [chReq EXCEPT ![q] = rec]
             /\ chCould' = [chCould EXCEPT ![q] = Allowed(rec, acceptCH, chPolicy)]
    BY <1>4 DEF BeginsHeaders
  <2>. DEFINE rec == [NewChRequest EXCEPT !.pc = "build", !.nav = nav, !.to = to,
                                          !.top = IF nav THEN to ELSE ChPage]
              could == Allowed(rec, acceptCH, chPolicy)
  <2>2. rec \in ChRecord BY NewChIsTyped, ChAssumption DEF ChRecord
  <2>3. /\ rec.pc = "build" /\ rec.nav = nav /\ rec.to = to /\ rec.critical = {}
        /\ rec.top = IF nav THEN to ELSE ChPage
    BY DEF NewChRequest
  <2>4. could \in SUBSET ChHints BY <1>1, <2>2, AllowedIsHints
  <2>5. chReq' = [chReq EXCEPT ![q] = rec] /\ chCould' = [chCould EXCEPT ![q] = could]
    BY <2>1
  <2>6. chReq'[q] = rec /\ chCould'[q] = could BY <1>1, <2>5
  <2>7. Allowed(rec, acceptCH, chPolicy)' = could BY <1>1 DEF Allowed
  <2>. HIDE DEF rec, could
  <2>8. LeaveKept(q)' BY <1>1, <2>3, <2>6, <2>7 DEF LeaveKept
  <2>. QED BY <1>2, <2>2, <2>4, <2>5, <2>8
<1>5. CASE HintsFor(q)
  <2>. DEFINE want == acceptCH[chReq[q].top]
              all == want = {} \/ chReq[q].to = chReq[q].top
              rec == [chReq[q] EXCEPT !.want = want, !.pc = IF all THEN "sent" ELSE "policy",
                                      !.hints = IF all THEN want ELSE {}]
  <2>1. chReq[q].pc = "build" /\ chReq' = [chReq EXCEPT ![q] = rec] /\ chCould' = chCould
    BY <1>1, <1>5 DEF HintsFor
  <2>2. want \in SUBSET ChHints BY <1>1 DEF ChRecord
  <2>3. rec \in ChRecord BY <1>1, <2>2 DEF ChRecord
  <2>4. /\ rec.pc = (IF all THEN "sent" ELSE "policy") /\ rec.want = want
        /\ rec.hints = (IF all THEN want ELSE {}) /\ rec.nav = chReq[q].nav
        /\ rec.top = chReq[q].top /\ rec.to = chReq[q].to
        /\ rec.critical = chReq[q].critical
    BY <1>1 DEF ChRecord
  <2>5. chReq'[q] = rec /\ chCould'[q] = chCould[q] BY <1>1, <2>1
  <2>. HIDE DEF rec
  <2>6. Allowed(chReq[q], acceptCH, chPolicy) \subseteq chCould[q] BY <1>1, <2>1 DEF LeaveKept
  <2>7. Allowed(chReq'[q], acceptCH', chPolicy') = Allowed(chReq[q], acceptCH, chPolicy)
    BY <1>1, <2>4, <2>5, SameLeave
  <2>8. all => want \subseteq chCould[q] BY <2>6 DEF Allowed
  <2>9. ~all => ~chReq[q].nav BY <1>1 DEF LeaveKept
  <2>10. /\ chReq[q].critical \subseteq want
         /\ chReq[q].nav => chReq[q].top = chReq[q].to
         /\ ~chReq[q].nav => chReq[q].critical = {}
    BY <1>1 DEF LeaveKept
  <2>. HIDE DEF all
  <2>11. acceptCH'[chReq'[q].top] = want BY <1>1, <2>4, <2>5
  <2>. HIDE DEF want
  <2>12. chReq'[q].pc = "sent" =>
           chReq'[q].hints \subseteq chCould'[q] /\ chReq'[q].critical \subseteq chReq'[q].hints
    BY <2>4, <2>5, <2>8, <2>10
  <2>13. chReq'[q].pc = "policy" => ~chReq'[q].nav /\ chReq'[q].want = want
    BY <2>4, <2>5, <2>9, <2>10
  <2>14. LeaveKept(q)' BY <2>4, <2>5, <2>6, <2>7, <2>10, <2>11, <2>12, <2>13 DEF LeaveKept
  <2>. QED BY <1>2, <1>3, <2>1, <2>3, <2>14
<1>6. CASE TakesPolicy(q)
  <2>. DEFINE hints == Delegated(chReq[q])
              rec == [chReq[q] EXCEPT !.pc = "sent", !.hints = hints]
  <2>1. chReq[q].pc = "policy" /\ chReq' = [chReq EXCEPT ![q] = rec] /\ chCould' = chCould
    BY <1>1, <1>6 DEF TakesPolicy
  <2>2. hints \subseteq Allowed(chReq[q], acceptCH, chPolicy)
    BY <1>1, <2>1 DEF Delegated, Allowed, LeaveKept
  <2>3. Allowed(chReq[q], acceptCH, chPolicy) \subseteq chCould[q] BY <1>1, <2>1 DEF LeaveKept
  <2>4. hints \in SUBSET ChHints BY <1>3, <2>2, <2>3
  <2>. HIDE DEF hints
  <2>5. rec \in ChRecord BY <1>1, <2>4 DEF ChRecord
  <2>6. /\ rec.pc = "sent" /\ rec.hints = hints /\ rec.nav = chReq[q].nav
        /\ rec.top = chReq[q].top /\ rec.to = chReq[q].to
        /\ rec.critical = chReq[q].critical
    BY <1>1 DEF ChRecord
  <2>. HIDE DEF rec
  <2>7. chReq'[q] = rec /\ chCould'[q] = chCould[q] BY <1>1, <2>1
  <2>8. Allowed(chReq'[q], acceptCH', chPolicy') = Allowed(chReq[q], acceptCH, chPolicy)
    BY <1>1, <2>6, <2>7, SameLeave
  <2>9. ~chReq[q].nav /\ chReq[q].critical = {} BY <1>1, <2>1 DEF LeaveKept
  <2>10. /\ chReq'[q].pc = "sent" /\ chReq'[q].hints \subseteq chCould'[q]
         /\ ~chReq'[q].nav /\ chReq'[q].critical = {}
         /\ Allowed(chReq'[q], acceptCH', chPolicy') \subseteq chCould'[q]
    BY <2>2, <2>3, <2>6, <2>7, <2>8, <2>9
  <2>11. LeaveKept(q)' BY <2>10 DEF LeaveKept
  <2>. QED BY <1>2, <1>3, <2>1, <2>5, <2>11
<1>7. CASE FetchAnswered(q)
  <2>1. /\ chReq' = [chReq EXCEPT ![q] = NewChRequest]
        /\ chCould' = [chCould EXCEPT ![q] = {}]
    BY <1>7 DEF FetchAnswered
  <2>2. chReq'[q] = NewChRequest BY <1>1, <2>1
  <2>3. LeaveKept(q)' BY <2>2 DEF LeaveKept, NewChRequest
  <2>. QED BY <1>2, <2>1, <2>3, NewChIsTyped, {} \in SUBSET ChHints
<1>. QED BY <1>4, <1>5, <1>6, <1>7

(* A navigation's answer: what was asked grows, the policy is another, and  *)
(* every other request is allowed what the two then allow.                  *)
LEMMA AnswerKeeps == ASSUME ChInv, NEW q \in ChRequests, NavigationAnswered(q) PROVE ChInv'
<1>1. /\ chReq[q] \in ChRecord /\ ChTypes /\ LeaveKept(q) /\ chReq[q].nav
      /\ chReq \in [ChRequests -> ChRecord] /\ acceptCH \in [ChOrigins -> SUBSET ChHints]
      /\ chCould \in [ChRequests -> SUBSET ChHints] /\ chPolicy \in [ChOrigins -> ParsedPolicy]
  BY DEF ChInv, ChTypes, NavigationAnswered
<1>. DEFINE o == chReq[q].to
            again(critical) == SentAgain(chReq[q], critical)
<1>2. PICK known \in {acceptCH[o] \cup accept : accept \in SUBSET ChHints} :
      \E critical \in SUBSET known, policy \in ParsedPolicy :
        LET restarts == ~chReq[q].again /\ known # acceptCH[o] /\ critical # {}
        IN /\ acceptCH' = [acceptCH EXCEPT ![o] = known]
           /\ chPolicy' = [chPolicy EXCEPT ![o] = policy]
           /\ chReq' = [chReq EXCEPT ![q] = IF restarts THEN again(critical) ELSE NewChRequest]
           /\ chCould' = [p \in ChRequests |->
                IF p # q THEN chCould[p] \cup Allowed(chReq[p], acceptCH', chPolicy')
                ELSE IF restarts THEN Allowed(again(critical), acceptCH', chPolicy') ELSE {}]
  BY DEF NavigationAnswered
<1>3. PICK critical \in SUBSET known, policy \in ParsedPolicy :
        LET restarts == ~chReq[q].again /\ known # acceptCH[o] /\ critical # {}
        IN /\ acceptCH' = [acceptCH EXCEPT ![o] = known]
           /\ chPolicy' = [chPolicy EXCEPT ![o] = policy]
           /\ chReq' = [chReq EXCEPT ![q] = IF restarts THEN again(critical) ELSE NewChRequest]
           /\ chCould' = [p \in ChRequests |->
                IF p # q THEN chCould[p] \cup Allowed(chReq[p], acceptCH', chPolicy')
                ELSE IF restarts THEN Allowed(again(critical), acceptCH', chPolicy') ELSE {}]
  BY <1>2
<1>. DEFINE restarts == ~chReq[q].again /\ known # acceptCH[o] /\ critical # {}
            rec == IF restarts THEN again(critical) ELSE NewChRequest
<1>4. o \in ChOrigins /\ known \in SUBSET ChHints /\ acceptCH[o] \subseteq known
  BY <1>1 DEF ChRecord
<1>5. /\ acceptCH' \in [ChOrigins -> SUBSET ChHints] /\ chPolicy' \in [ChOrigins -> ParsedPolicy]
      /\ \A u \in ChOrigins : acceptCH[u] \subseteq acceptCH'[u]
      /\ acceptCH'[o] = known
  BY <1>1, <1>3, <1>4
<1>6. again(critical) \in ChRecord
  BY <1>1, <1>3, <1>4 DEF SentAgain, ChRecord
<1>7. rec \in ChRecord BY <1>6, NewChIsTyped
<1>8. chReq' \in [ChRequests -> ChRecord] BY <1>1, <1>3, <1>7
<1>9. \A r \in ChRecord : Allowed(r, acceptCH', chPolicy') \subseteq ChHints
  BY <1>5 DEF Allowed, ChRecord
<1>10. chCould' \in [ChRequests -> SUBSET ChHints] BY <1>1, <1>3, <1>6, <1>9
<1>11. LeaveKept(q)'
  <2>1. CASE restarts
    <3>1. chReq'[q] = again(critical) /\ chCould'[q] = Allowed(again(critical), acceptCH', chPolicy')
      BY <1>1, <1>3, <2>1
    <3>2. /\ again(critical).pc = "build" /\ again(critical).nav /\ again(critical).to = o
          /\ again(critical).top = chReq[q].top /\ again(critical).critical = critical
      BY <1>1 DEF SentAgain, ChRecord
    <3>3. chReq[q].top = o BY <1>1 DEF LeaveKept
    <3>. QED BY <1>3, <1>5, <3>1, <3>2, <3>3 DEF LeaveKept
  <2>2. CASE ~restarts
    <3>1. chReq'[q] = NewChRequest BY <1>1, <1>3, <2>2
    <3>. QED BY <3>1 DEF LeaveKept, NewChRequest
  <2>. QED BY <2>1, <2>2
<1>12. ASSUME NEW p \in ChRequests, p # q PROVE LeaveKept(p)'
  <2>1. /\ chReq'[p] = chReq[p] /\ chReq[p] \in ChRecord
        /\ chCould'[p] = chCould[p] \cup Allowed(chReq[p], acceptCH', chPolicy')
    BY <1>1, <1>3, <1>12
  <2>2. LeaveKept(p) /\ chReq[p].top \in ChOrigins BY <2>1 DEF ChInv, ChRecord
  <2>. QED BY <1>5, <2>1, <2>2 DEF LeaveKept
<1>. QED BY <1>5, <1>8, <1>10, <1>11, <1>12 DEF ChInv, ChTypes

LEMMA ChInvNext == ChInv /\ [ChNext]_chVars => ChInv'
<1>. SUFFICES ASSUME ChInv, [ChNext]_chVars PROVE ChInv' OBVIOUS
<1>1. CASE UNCHANGED chVars
  BY <1>1 DEF chVars, ChInv, ChTypes, LeaveKept, Allowed
<1>. QED BY <1>1, HeadersKeep, AnswerKeeps DEF ChNext

(* A hint goes only where one moment allowed it, though what was asked and  *)
(* the policy are read at two, and a navigation sent again has all that was *)
(* critical (hints.go, DoStream).                                           *)
THEOREM HintsHaveLeave == ChSpec => []HintsWithLeave
<1>1. ChInv => HintsWithLeave BY DEF ChInv, LeaveKept, HintsWithLeave
<1>. QED BY ChInvInit, ChInvNext, <1>1, PTL DEF ChSpec

-----------------------------------------------------------------------------
(* HTTPS records and ECH (EchDial)                                         *)

EdRecord == [pc : {"new", "wait", "usable", "shake", "up", "failed"},
             path : {"tcp", "quic"},
             lookup : {"none", "starts", "asks", "waits", "told"},
             answer : Answers \cup {"none"},
             list : {"none", "record", "retry"},
             attempt : 0..2, late : BOOLEAN, gone : BOOLEAN]

EdTypes ==
  /\ edNet \in Worlds
  /\ edRecord \in Entry /\ edDial \in [EdDials -> EdRecord]
  /\ edMarked \in BOOLEAN /\ edDropped \in BOOLEAN

(* Of a world that lets ECH through and a server that lives.                *)
Through == edNet.lives /\ ~edNet.drops

(* The query in flight is some dial's and nobody else's.                    *)
AskedByOne ==
  /\ \A d, e \in EdDials : edDial[d].lookup = "asks" /\ edDial[e].lookup = "asks" => d = e
  /\ edRecord.st = "asked" <=> \E d \in EdDials : edDial[d].lookup = "asks"
  /\ \A d \in EdDials : edDial[d].lookup = "waits" => edRecord.st = "asked"

(* A dial that went on with its record is told no other; it has a list if   *)
(* the record had one and the world takes it; and a hello in the clear      *)
(* after others has a dropped one before it.                                *)
ListKept(rec) ==
  /\ rec.pc = "new" => rec.lookup = "none"
  /\ rec.pc \in {"usable", "shake", "up"} /\ ~rec.late => rec.lookup \in {"none", "told"}
  /\ rec.pc \in {"shake", "up"} /\ Through /\ edNet.ech # "refuses" =>
       rec.list # "none" \/ rec.answer # "ech" \/ rec.late
  /\ rec.attempt = 2 => edDropped

EdInv ==
  /\ EdTypes /\ AskedByOne
  /\ edMarked => edDropped
  /\ edDropped => ~Through
  /\ \A d \in EdDials : ListKept(edDial[d])

LEMMA EdInvInit == EdInit => EdInv
<1>. SUFFICES ASSUME EdInit PROVE EdInv OBVIOUS
<1>1. NewDial \in EdRecord BY DEF NewDial, EdRecord
<1>2. EdTypes BY <1>1 DEF EdInit, EdTypes, Entry, Answers
<1>3. \A d \in EdDials : ListKept(edDial[d]) BY DEF EdInit, ListKept, NewDial
<1>. QED BY <1>2, <1>3 DEF EdInit, EdInv, AskedByOne, NewDial

(* Two fields of a dial change at a time.                                   *)
LEMMA DialChanged ==
  ASSUME NEW rec \in EdRecord
  PROVE  /\ \A k \in {"none", "starts", "asks", "waits", "told"}, a \in Answers \cup {"none"} :
              [rec EXCEPT !.lookup = k, !.answer = a] \in EdRecord
         /\ \A list \in {"none", "record", "retry"}, n \in 0..2 :
              [rec EXCEPT !.list = list, !.attempt = n] \in EdRecord
<1>1. ASSUME NEW r \in EdRecord
      PROVE  /\ \A k \in {"none", "starts", "asks", "waits", "told"} :
                  [r EXCEPT !.lookup = k] \in EdRecord
             /\ \A a \in Answers \cup {"none"} : [r EXCEPT !.answer = a] \in EdRecord
             /\ \A list \in {"none", "record", "retry"} : [r EXCEPT !.list = list] \in EdRecord
             /\ \A n \in 0..2 : [r EXCEPT !.attempt = n] \in EdRecord
  BY DEF EdRecord
<1>2. ASSUME NEW k \in {"none", "starts", "asks", "waits", "told"}, NEW a \in Answers \cup {"none"}
      PROVE  [rec EXCEPT !.lookup = k, !.answer = a] \in EdRecord
  <2>1. [rec EXCEPT !.lookup = k, !.answer = a] = [[rec EXCEPT !.lookup = k] EXCEPT !.answer = a]
    BY DEF EdRecord
  <2>. QED BY <1>1, <2>1
<1>3. ASSUME NEW list \in {"none", "record", "retry"}, NEW n \in 0..2
      PROVE  [rec EXCEPT !.list = list, !.attempt = n] \in EdRecord
  <2>1. [rec EXCEPT !.list = list, !.attempt = n] = [[rec EXCEPT !.list = list] EXCEPT !.attempt = n]
    BY DEF EdRecord
  <2>. QED BY <1>1, <2>1
<1>. QED BY <1>2, <1>3

(* One dial goes on, its part in lookups unchanged or over.                 *)
LEMMA DialGoesOn ==
  ASSUME EdInv, NEW d \in EdDials, NEW rec \in EdRecord,
         edDial' = [edDial EXCEPT ![d] = rec], edRecord' = edRecord, edNet' = edNet,
         \/ rec.lookup = edDial[d].lookup
         \/ edDial[d].lookup \notin {"asks", "waits"} /\ rec.lookup \notin {"asks", "waits"},
         ListKept(rec)', edMarked' \in BOOLEAN, edDropped' \in BOOLEAN,
         edMarked' => edDropped', edDropped' => ~Through, edDropped => edDropped'
  PROVE  EdInv'
<1>1. edDial \in [EdDials -> EdRecord] BY DEF EdInv, EdTypes
<1>2. edDial'[d] = rec /\ \A e \in EdDials : e # d => edDial'[e] = edDial[e] BY <1>1
<1>3. EdTypes' BY <1>1 DEF EdInv, EdTypes
<1>4. AskedByOne' BY <1>2 DEF EdInv, AskedByOne
<1>5. Through' = Through BY DEF Through
<1>6. ASSUME NEW e \in EdDials PROVE ListKept(edDial[e])'
  <2>1. CASE e = d BY <1>2, <2>1 DEF ListKept
  <2>2. CASE e # d BY <1>2, <1>5, <2>2 DEF EdInv, ListKept
  <2>. QED BY <2>1, <2>2
<1>. QED BY <1>3, <1>4, <1>5, <1>6 DEF EdInv

(* Up to the handshake.                                                     *)
LEMMA RecordKeeps ==
  ASSUME EdInv, NEW d \in EdDials,
         Begins(d) \/ RecordComes(d) \/ RecordIsLate(d) \/ EchUsable(d) \/ CallerGoes(d)
  PROVE  EdInv'
<1>1. /\ UNCHANGED <<edNet, edRecord, edMarked, edDropped>> /\ edDial[d] \in EdRecord
      /\ ListKept(edDial[d]) /\ edRecord.answer \in Answers
      /\ edMarked \in BOOLEAN /\ edDropped \in BOOLEAN
      /\ (edMarked => edDropped) /\ (edDropped => ~Through)
  BY DEF EdInv, EdTypes, Entry, Begins, RecordComes, RecordIsLate, EchUsable, CallerGoes
<1>2. edDropped => ~Through BY DEF EdInv
<1>3. ASSUME NEW rec \in EdRecord, edDial' = [edDial EXCEPT ![d] = rec],
             \/ rec.lookup = edDial[d].lookup
             \/ edDial[d].lookup = "none" /\ rec.lookup = "starts",
             ListKept(rec)
      PROVE  EdInv'
  <2>1. ListKept(rec)' BY <1>1, <1>3 DEF ListKept, Through
  <2>2. edMarked' => edDropped' BY <1>1 DEF EdInv
  <2>. QED BY <1>1, <1>2, <1>3, <2>1, <2>2, DialGoesOn
<1>4. CASE Begins(d)
  <2>1. PICK path \in {"tcp", "quic"} :
          edDial' = [edDial EXCEPT ![d] =
            IF Cached
            THEN [edDial[d] EXCEPT !.pc = "usable", !.path = path, !.answer = edRecord.answer]
            ELSE [edDial[d] EXCEPT !.pc = "wait", !.path = path, !.lookup = "starts"]]
    BY <1>4 DEF Begins
  <2>. DEFINE had == [edDial[d] EXCEPT !.pc = "usable", !.path = path,
                                       !.answer = edRecord.answer]
              asks == [edDial[d] EXCEPT !.pc = "wait", !.path = path, !.lookup = "starts"]
  <2>2. edDial[d].pc = "new" /\ edDial[d].lookup = "none" BY <1>1, <1>4 DEF Begins, ListKept
  <2>3. had \in EdRecord /\ had.pc = "usable" /\ had.lookup = "none"
        /\ had.attempt = edDial[d].attempt
    BY <1>1, <2>2 DEF EdRecord
  <2>4. asks \in EdRecord /\ asks.pc = "wait" /\ asks.lookup = "starts"
        /\ asks.attempt = edDial[d].attempt
    BY <1>1 DEF EdRecord
  <2>5. edDial' = [edDial EXCEPT ![d] = IF Cached THEN had ELSE asks] BY <2>1
  <2>. HIDE DEF had, asks
  <2>6. ListKept(had) /\ ListKept(asks) BY <1>1, <2>3, <2>4 DEF ListKept
  <2>7. CASE Cached BY <1>3, <2>2, <2>3, <2>5, <2>6, <2>7
  <2>8. CASE ~Cached BY <1>3, <2>2, <2>4, <2>5, <2>6, <2>8
  <2>. QED BY <2>7, <2>8
<1>5. CASE RecordComes(d)
  <2>. DEFINE rec == [edDial[d] EXCEPT !.pc = "usable"]
  <2>1. rec \in EdRecord /\ rec.pc = "usable" /\ rec.lookup = edDial[d].lookup
        /\ rec.attempt = edDial[d].attempt
    BY <1>1 DEF EdRecord
  <2>2. edDial' = [edDial EXCEPT ![d] = rec] /\ edDial[d].lookup = "told"
    BY <1>5 DEF RecordComes
  <2>. HIDE DEF rec
  <2>3. ListKept(rec) BY <1>1, <2>1, <2>2 DEF ListKept
  <2>. QED BY <1>3, <2>1, <2>2, <2>3
<1>6. CASE RecordIsLate(d)
  <2>. DEFINE rec == [edDial[d] EXCEPT !.pc = "shake", !.late = TRUE]
  <2>1. rec \in EdRecord /\ rec.pc = "shake" /\ rec.lookup = edDial[d].lookup
        /\ rec.attempt = edDial[d].attempt /\ rec.late
    BY <1>1 DEF EdRecord
  <2>2. edDial' = [edDial EXCEPT ![d] = rec] BY <1>1, <1>6 DEF RecordIsLate, EdRecord
  <2>. HIDE DEF rec
  <2>3. ListKept(rec) BY <1>1, <2>1 DEF ListKept
  <2>. QED BY <1>3, <2>1, <2>2, <2>3
<1>7. CASE EchUsable(d)
  <2>. DEFINE list == IF edDial[d].answer = "ech" /\ ~edMarked THEN "record" ELSE "none"
              rec == [edDial[d] EXCEPT !.pc = "shake", !.list = list]
  <2>1. rec \in EdRecord /\ rec.pc = "shake" /\ rec.lookup = edDial[d].lookup
        /\ rec.attempt = edDial[d].attempt /\ rec.late = edDial[d].late
        /\ rec.list = list /\ rec.answer = edDial[d].answer
    BY <1>1 DEF EdRecord
  <2>2. edDial' = [edDial EXCEPT ![d] = rec] /\ edDial[d].pc = "usable"
    BY <1>1, <1>7 DEF EchUsable, EdRecord
  <2>. HIDE DEF rec
  <2>3. Through => ~edMarked BY DEF EdInv
  <2>4. ListKept(rec) BY <1>1, <2>1, <2>2, <2>3 DEF ListKept
  <2>. QED BY <1>3, <2>1, <2>2, <2>4
<1>8. CASE CallerGoes(d)
  <2>. DEFINE rec == [edDial[d] EXCEPT !.gone = TRUE]
  <2>1. rec \in EdRecord /\ rec.pc = edDial[d].pc /\ rec.lookup = edDial[d].lookup
        /\ rec.attempt = edDial[d].attempt /\ rec.late = edDial[d].late
        /\ rec.list = edDial[d].list /\ rec.answer = edDial[d].answer
    BY <1>1 DEF EdRecord
  <2>2. edDial' = [edDial EXCEPT ![d] = rec] BY <1>1, <1>8 DEF CallerGoes, EdRecord
  <2>. HIDE DEF rec
  <2>3. ListKept(rec) BY <1>1, <2>1 DEF ListKept
  <2>. QED BY <1>3, <2>1, <2>2, <2>3
<1>. QED BY <1>4, <1>5, <1>6, <1>7, <1>8

(* The lookups: the answer that is there, the query in flight, or one.      *)
LEMMA LookingUpKeeps ==
  ASSUME EdInv, NEW d \in EdDials, LookupStarts(d) \/ QueryEnds(d)
  PROVE  EdInv'
<1>1. /\ UNCHANGED <<edNet, edMarked, edDropped>> /\ edDial \in [EdDials -> EdRecord]
      /\ edRecord \in Entry /\ edRecord.answer \in Answers
      /\ edMarked \in BOOLEAN /\ edDropped \in BOOLEAN
  BY DEF EdInv, EdTypes, Entry, LookupStarts, QueryEnds
<1>2. \A e \in EdDials :
        /\ edDial'[e].pc = edDial[e].pc /\ edDial'[e].late = edDial[e].late
        /\ edDial'[e].list = edDial[e].list /\ edDial'[e].attempt = edDial[e].attempt
        /\ edDial'[e] \in EdRecord
        /\ \/ edDial'[e] = edDial[e]
           \/ edDial[e].lookup \in {"starts", "asks", "waits"} /\ edDial[e].lookup # "none"
  <2>1. \A e \in EdDials : edDial[e] \in EdRecord BY <1>1
  <2>2. CASE LookupStarts(d)
    <3>1. edDial[d].lookup = "starts" BY <2>2 DEF LookupStarts
    <3>2. CASE edDial' = [edDial EXCEPT ![d].lookup = "told", ![d].answer = edRecord.answer]
      <4>. DEFINE rec == [edDial[d] EXCEPT !.lookup = "told", !.answer = edRecord.answer]
      <4>1. rec \in EdRecord BY <1>1, <2>1, DialChanged
      <4>2. /\ rec.pc = edDial[d].pc /\ rec.late = edDial[d].late
            /\ rec.list = edDial[d].list /\ rec.attempt = edDial[d].attempt
        BY <2>1 DEF EdRecord
      <4>3. edDial' = [edDial EXCEPT ![d] = rec] BY <1>1, <3>2
      <4>. HIDE DEF rec
      <4>. QED BY <1>1, <2>1, <3>1, <4>1, <4>2, <4>3
    <3>3. CASE edDial' = [edDial EXCEPT ![d].lookup = "waits"]
      BY <1>1, <2>1, <3>1, <3>3 DEF EdRecord
    <3>4. CASE edDial' = [edDial EXCEPT ![d].lookup = "asks"]
      BY <1>1, <2>1, <3>1, <3>4 DEF EdRecord
    <3>. QED BY <2>2, <3>2, <3>3, <3>4 DEF LookupStarts
  <2>3. CASE QueryEnds(d)
    <3>1. PICK answer \in Answers :
            edDial' = [p \in EdDials |->
              IF p = d \/ edDial[p].lookup = "waits"
              THEN [edDial[p] EXCEPT !.lookup = "told", !.answer = answer] ELSE edDial[p]]
      BY <2>3 DEF QueryEnds
    <3>2. edDial[d].lookup = "asks" BY <2>3 DEF QueryEnds
    <3>3. ASSUME NEW e \in EdDials, e = d \/ edDial[e].lookup = "waits"
          PROVE  LET rec == [edDial[e] EXCEPT !.lookup = "told", !.answer = answer]
                 IN /\ rec \in EdRecord /\ rec.pc = edDial[e].pc /\ rec.late = edDial[e].late
                    /\ rec.list = edDial[e].list /\ rec.attempt = edDial[e].attempt
      <4>1. [edDial[e] EXCEPT !.lookup = "told", !.answer = answer] \in EdRecord
        BY <2>1, DialChanged
      <4>. QED BY <2>1, <4>1 DEF EdRecord
    <3>4. \A e \in EdDials :
            edDial'[e] = IF e = d \/ edDial[e].lookup = "waits"
                         THEN [edDial[e] EXCEPT !.lookup = "told", !.answer = answer]
                         ELSE edDial[e]
      BY <3>1
    <3>5. ASSUME NEW e \in EdDials, e = d \/ edDial[e].lookup = "waits"
          PROVE  /\ edDial'[e].pc = edDial[e].pc /\ edDial'[e].late = edDial[e].late
                 /\ edDial'[e].list = edDial[e].list /\ edDial'[e].attempt = edDial[e].attempt
                 /\ edDial'[e] \in EdRecord /\ edDial[e].lookup \in {"asks", "waits"}
      BY <3>2, <3>3, <3>4, <3>5
    <3>6. ASSUME NEW e \in EdDials, ~(e = d \/ edDial[e].lookup = "waits")
          PROVE  edDial'[e] = edDial[e]
      BY <3>4, <3>6
    <3>. QED BY <2>1, <3>5, <3>6
  <2>. QED BY <2>2, <2>3
<1>3. edDial' \in [EdDials -> EdRecord] /\ edRecord' \in Entry
  <2>1. edDial' \in [EdDials -> EdRecord]
    <3>1. CASE LookupStarts(d)
      <4>1. edDial' = [e \in EdDials |-> edDial'[e]] BY <1>1, <3>1 DEF LookupStarts
      <4>. QED BY <1>2, <4>1
    <3>2. CASE QueryEnds(d)
      <4>1. PICK answer \in Answers :
              edDial' = [p \in EdDials |->
                IF p = d \/ edDial[p].lookup = "waits"
                THEN [edDial[p] EXCEPT !.lookup = "told", !.answer = answer] ELSE edDial[p]]
        BY <3>2 DEF QueryEnds
      <4>2. edDial' = [e \in EdDials |-> edDial'[e]] BY <4>1
      <4>. QED BY <1>2, <4>2
    <3>. QED BY <3>1, <3>2
  <2>2. CASE LookupStarts(d)
    <3>1. edRecord' = edRecord \/ edRecord' = [edRecord EXCEPT !.st = "asked"]
      BY <2>2 DEF LookupStarts
    <3>2. [edRecord EXCEPT !.st = "asked"] \in Entry BY <1>1 DEF Entry
    <3>. QED BY <1>1, <2>1, <3>1, <3>2
  <2>3. CASE QueryEnds(d)
    <3>1. PICK answer \in Answers : edRecord' = [st |-> "done", answer |-> answer, fresh |-> TRUE]
      BY <2>3 DEF QueryEnds
    <3>. QED BY <2>1, <3>1 DEF Entry
  <2>. QED BY <2>1, <2>2, <2>3
<1>4. \A e \in EdDials : ListKept(edDial[e])'
  BY <1>1, <1>2 DEF EdInv, ListKept, Through
<1>5. AskedByOne'
  <2>1. CASE LookupStarts(d)
    <3>1. \A e \in EdDials : e # d => edDial'[e] = edDial[e]
      BY <1>1, <2>1 DEF LookupStarts
    <3>2. \/ edDial'[d].lookup = "told" /\ edRecord' = edRecord
          \/ edDial'[d].lookup = "waits" /\ edRecord' = edRecord /\ edRecord.st = "asked"
          \/ edDial'[d].lookup = "asks" /\ edRecord'.st = "asked" /\ edRecord.st # "asked"
      BY <1>1, <2>1 DEF LookupStarts, Entry, EdRecord
    <3>3. edDial[d].lookup = "starts" BY <2>1 DEF LookupStarts
    <3>. QED BY <3>1, <3>2, <3>3 DEF EdInv, AskedByOne
  <2>2. CASE QueryEnds(d)
    <3>1. PICK answer \in Answers :
            /\ edRecord' = [st |-> "done", answer |-> answer, fresh |-> TRUE]
            /\ edDial' = [p \in EdDials |->
                 IF p = d \/ edDial[p].lookup = "waits"
                 THEN [edDial[p] EXCEPT !.lookup = "told", !.answer = answer] ELSE edDial[p]]
      BY <2>2 DEF QueryEnds
    <3>2. edRecord'.st = "done" /\ edDial[d].lookup = "asks" BY <2>2, <3>1 DEF QueryEnds
    <3>3. \A e \in EdDials :
            IF e = d \/ edDial[e].lookup = "waits" THEN edDial'[e].lookup = "told"
                                                   ELSE edDial'[e] = edDial[e]
      BY <1>1, <3>1 DEF EdRecord
    <3>. QED BY <3>2, <3>3 DEF EdInv, AskedByOne
  <2>. QED BY <2>1, <2>2
<1>6. Through' = Through BY <1>1 DEF Through
<1>. QED BY <1>1, <1>3, <1>4, <1>5, <1>6 DEF EdInv, EdTypes

(* A handshake ends, and perhaps another begins.                            *)
LEMMA ShakingKeeps ==
  ASSUME EdInv, NEW d \in EdDials, TcpShakes(d) \/ QuicShakes(d)
  PROVE  EdInv'
<1>. DEFINE rec == edDial[d]
            unanswered == rec.gone \/ HelloOutcome(rec.list) = "silence"
            dropped == EchDropped(rec, unanswered)
            rejected == ~unanswered /\ HelloOutcome(rec.list) = "rejection" /\ rec.attempt = 0
            retry == IF rejected /\ edNet.ech = "rekeys" THEN "retry" ELSE "none"
<1>1. /\ UNCHANGED <<edNet, edRecord>> /\ edDial \in [EdDials -> EdRecord] /\ rec \in EdRecord
      /\ ListKept(rec) /\ rec.pc = "shake"
      /\ edMarked \in BOOLEAN /\ edDropped \in BOOLEAN
      /\ edDropped' = (edDropped \/ (~rec.gone /\ rec.list # "none" /\ unanswered))
  BY DEF EdInv, EdTypes, TcpShakes, QuicShakes
<1>2. dropped => edDropped' /\ ~Through
  BY <1>1 DEF EchDropped, HelloOutcome, Through
<1>3. edDropped' \in BOOLEAN /\ (edDropped => edDropped') BY <1>1
<1>4. edDropped' => ~Through BY <1>1 DEF EdInv, HelloOutcome, Through
<1>5. /\ edMarked' \in BOOLEAN /\ (edMarked' => edDropped')
  <2>1. edMarked => edDropped' BY <1>3 DEF EdInv
  <2>2. rec.attempt = 2 => edDropped' BY <1>1, <1>3 DEF ListKept
  <2>3. CASE TcpShakes(d)
    <3>1. edMarked' = (edMarked \/ (dropped /\ rec.attempt = 0))
      BY <2>3 DEF TcpShakes, MarkECHBroken
    <3>. QED BY <1>2, <2>1, <3>1
  <2>4. CASE QuicShakes(d)
    <3>1. \E up \in BOOLEAN : edMarked' = (edMarked \/ (up /\ rec.attempt = 2))
      BY <2>4 DEF QuicShakes, MarkECHBroken
    <3>. QED BY <2>1, <2>2, <3>1
  <2>. QED BY <2>3, <2>4
<1>6. rejected /\ Through /\ edNet.ech # "refuses" => retry = "retry"
  <2>1. edNet.ech \in {"takes", "rekeys", "refuses"} BY DEF EdInv, EdTypes, Worlds
  <2>2. rejected /\ Through => edNet.ech # "takes" BY DEF HelloOutcome, Through
  <2>. QED BY <2>1, <2>2
<1>7. ASSUME NEW new \in EdRecord, edDial' = [edDial EXCEPT ![d] = new],
             new.lookup = rec.lookup, new.late = rec.late, new.answer = rec.answer,
             new.pc \in {"shake", "up", "failed"},
             \/ new.list = rec.list /\ new.attempt = rec.attempt
             \/ new.list = retry /\ rejected /\ new.attempt = 1
             \/ dropped /\ new.list = "none" /\ new.attempt \in {1, 2}
      PROVE  EdInv'
  <2>1. rec.lookup \in {"none", "told"} \/ rec.late BY <1>1 DEF ListKept
  <2>2. new.attempt = 2 => edDropped' BY <1>1, <1>2, <1>3, <1>7 DEF ListKept
  <2>3. Through /\ edNet.ech # "refuses" /\ new.pc \in {"shake", "up"} =>
          new.list # "none" \/ new.answer # "ech" \/ new.late
    <3>1. Through /\ edNet.ech # "refuses" => rec.list # "none" \/ rec.answer # "ech" \/ rec.late
      BY <1>1 DEF ListKept
    <3>. QED BY <1>2, <1>6, <1>7, <3>1
  <2>4. Through' = Through /\ edNet' = edNet BY <1>1 DEF Through
  <2>5. ListKept(new)' BY <1>7, <2>1, <2>2, <2>3, <2>4 DEF ListKept
  <2>. QED BY <1>1, <1>3, <1>4, <1>5, <1>7, <2>5, DialGoesOn
<1>8. CASE rejected /\ edDial' = [edDial EXCEPT ![d] = [rec EXCEPT !.list = retry, !.attempt = 1]]
  <2>. DEFINE new == [rec EXCEPT !.list = retry, !.attempt = 1]
  <2>1. new \in EdRecord
    <3>1. retry \in {"none", "record", "retry"} /\ 1 \in 0..2 OBVIOUS
    <3>. HIDE DEF retry
    <3>. QED BY <1>1, <3>1, DialChanged
  <2>2. /\ new.lookup = rec.lookup /\ new.late = rec.late /\ new.answer = rec.answer
        /\ new.pc = "shake" /\ new.list = retry /\ new.attempt = 1
    BY <1>1 DEF EdRecord
  <2>3. edDial' = [edDial EXCEPT ![d] = new] BY <1>8
  <2>. HIDE DEF new, retry, rejected
  <2>. QED BY <1>7, <1>8, <2>1, <2>2, <2>3
<1>9. ASSUME dropped, NEW n \in {1, 2},
              edDial' = [edDial EXCEPT ![d] = [rec EXCEPT !.list = "none", !.attempt = n]]
       PROVE  EdInv'
  <2>. DEFINE new == [rec EXCEPT !.list = "none", !.attempt = n]
  <2>1. new \in EdRecord
    <3>1. "none" \in {"none", "record", "retry"} /\ n \in 0..2 OBVIOUS
    <3>. QED BY <1>1, <3>1, DialChanged
  <2>2. /\ new.lookup = rec.lookup /\ new.late = rec.late /\ new.answer = rec.answer
        /\ new.pc = "shake" /\ new.list = "none" /\ new.attempt = n
    BY <1>1 DEF EdRecord
  <2>3. edDial' = [edDial EXCEPT ![d] = new] BY <1>9
  <2>. HIDE DEF new, retry, rejected, dropped
  <2>. QED BY <1>7, <1>9, <2>1, <2>2, <2>3
<1>10. ASSUME NEW pc \in {"up", "failed"}, edDial' = [edDial EXCEPT ![d] = [rec EXCEPT !.pc = pc]]
       PROVE  EdInv'
  <2>. DEFINE new == [rec EXCEPT !.pc = pc]
  <2>1. new \in EdRecord BY <1>1 DEF EdRecord
  <2>2. /\ new.lookup = rec.lookup /\ new.late = rec.late /\ new.answer = rec.answer
        /\ new.pc = pc /\ new.list = rec.list /\ new.attempt = rec.attempt
    BY <1>1 DEF EdRecord
  <2>3. edDial' = [edDial EXCEPT ![d] = new] BY <1>10
  <2>. HIDE DEF new, retry, rejected, dropped
  <2>. QED BY <1>7, <2>1, <2>2, <2>3
<1>11. ~(rejected /\ dropped) BY DEF EchDropped
<1>12. CASE TcpShakes(d)
  <2>1. edDial' = [edDial EXCEPT ![d] =
          IF rejected \/ (dropped /\ rec.attempt = 0) THEN [rec EXCEPT !.list = retry, !.attempt = 1]
          ELSE [rec EXCEPT !.pc = IF ~rec.gone /\ HelloOutcome(rec.list) = "up"
                                  THEN "up" ELSE "failed"]]
    BY <1>12 DEF TcpShakes
  <2>2. ~rejected => retry = "none" OBVIOUS
  <2>. HIDE DEF retry, rejected, dropped
  <2>3. CASE rejected BY <1>8, <2>1, <2>3
  <2>4. CASE ~rejected /\ dropped /\ rec.attempt = 0 BY <1>9, <2>1, <2>2, <2>4
  <2>5. CASE ~rejected /\ ~(dropped /\ rec.attempt = 0) BY <1>10, <2>1, <2>5
  <2>. QED BY <2>3, <2>4, <2>5
<1>13. CASE QuicShakes(d)
  <2>1. edDial' = [edDial EXCEPT ![d] =
          IF rejected THEN [rec EXCEPT !.list = retry, !.attempt = 1]
          ELSE IF dropped THEN [rec EXCEPT !.list = "none", !.attempt = 2]
          ELSE [rec EXCEPT !.pc = IF ~rec.gone /\ HelloOutcome(rec.list) = "up"
                                  THEN "up" ELSE "failed"]]
    BY <1>13 DEF QuicShakes
  <2>. HIDE DEF retry, rejected, dropped
  <2>3. CASE rejected BY <1>8, <2>1, <2>3
  <2>4. CASE ~rejected /\ dropped BY <1>9, <2>1, <2>4
  <2>5. CASE ~rejected /\ ~dropped BY <1>10, <2>1, <2>5
  <2>. QED BY <2>3, <2>4, <2>5
<1>. QED BY <1>12, <1>13

LEMMA EdInvNext == EdInv /\ [EdNext]_edVars => EdInv'
<1>. SUFFICES ASSUME EdInv, [EdNext]_edVars PROVE EdInv' OBVIOUS
<1>1. CASE Lapses
  <2>1. /\ UNCHANGED <<edNet, edDial, edDropped>> /\ edRecord' \in Entry /\ edMarked' \in BOOLEAN
        /\ edMarked' => edMarked
    BY <1>1 DEF Lapses, EdInv, EdTypes, Entry
  <2>2. edRecord'.st = edRecord.st BY <1>1 DEF Lapses, EdInv, EdTypes, Entry
  <2>3. EdTypes' BY <2>1 DEF EdInv, EdTypes
  <2>4. AskedByOne' BY <2>1, <2>2 DEF EdInv, AskedByOne
  <2>5. \A d \in EdDials : ListKept(edDial[d])' BY <2>1 DEF EdInv, ListKept, Through
  <2>. QED BY <2>1, <2>3, <2>4, <2>5 DEF EdInv, Through
<1>2. CASE UNCHANGED edVars
  <2>1. EdTypes' BY <1>2 DEF EdInv, EdTypes, edVars
  <2>2. AskedByOne' BY <1>2 DEF EdInv, AskedByOne, edVars
  <2>3. \A d \in EdDials : ListKept(edDial[d])' BY <1>2 DEF EdInv, ListKept, Through, edVars
  <2>. QED BY <1>2, <2>1, <2>2, <2>3 DEF EdInv, Through, edVars
<1>. QED BY <1>1, <1>2, RecordKeeps, LookingUpKeeps, ShakingKeeps DEF EdNext

(* However dials, late records, lapses and callers that go away fall        *)
(* together: one query for the name is in flight and whoever waits waits    *)
(* for it, the name is marked only for a hello that got no answer with time *)
(* left, and a dial that had a list in time is not up in the clear where    *)
(* ECH is taken (dnsrr.go, dns.go, dialWith, http3.go).                     *)
THEOREM EchIsInOrder == EdSpec => []EchInOrder
<1>1. EdInv => OneQuery
  <2>. SUFFICES ASSUME EdInv PROVE OneQuery OBVIOUS
  <2>. DEFINE asking == {d \in EdDials : edDial[d].lookup = "asks"}
  <2>1. asking = {} \/ \E d \in EdDials : asking = {d} BY DEF EdInv, AskedByOne
  <2>2. Cardinality(asking) <= 1
    <3>1. CASE asking = {} BY <3>1, FS_EmptySet
    <3>2. CASE \E d \in EdDials : asking = {d} BY <3>2, FS_Singleton
    <3>. QED BY <2>1, <3>1, <3>2
  <2>3. (\E d \in EdDials : edDial[d].lookup = "waits") => asking # {}
    BY DEF EdInv, AskedByOne
  <2>. QED BY <2>2, <2>3 DEF OneQuery
<1>2. EdInv => GivenUpForCause BY DEF EdInv, GivenUpForCause, ListKept, Through
<1>. QED BY EdInvInit, EdInvNext, <1>1, <1>2, PTL DEF EdSpec, EchInOrder

-----------------------------------------------------------------------------
(* Redirect chains and preflights (FetchChain)                             *)

FcSites == {"none", "same_origin", "same_site", "cross_site"}

FcHop == [pc: {"idle", "start", "go", "gone"}, mode: {"auto", "navigate", "fetch"},
          method: {"GET", "POST", "PUT"}, page: {"none", FcPage}, headers: SUBSET FcHeaders,
          include: BOOLEAN, url: FcOrigins, chain: FcOrigins \cup {"none"}, tainted: BOOLEAN,
          site: FcSites, path: Seq(FcOrigins), by: FcAnswers \cup {NoAnswer}]

FcEntries == [answer: FcAnswers, include: BOOLEAN]

(* Where the request comes from, and what its chain has been through.       *)
FirstOfHop(h) == IF h.page # "none" THEN h.page ELSE h.path[1]
Stayed(h) == \A i \in 1..Len(h.path) : h.path[i] = h.path[1]
LeftOther(h) ==
  \E i \in 1..(Len(h.path) - 1) : h.path[i] # FirstOfHop(h) /\ h.path[i] # h.path[i + 1]
RankTo(h, i) == Rank[SiteRelation(FirstOfHop(h), h.path[i])]
WorstSoFar(h, site) ==
  /\ \E i \in 1..Len(h.path) : RankTo(h, i) = Rank[site]
  /\ \A i \in 1..Len(h.path) : RankTo(h, i) <= Rank[site]

(* What a hop carries is true of its chain: the first origin is remembered  *)
(* once the chain has left it, a secret only goes while it has not.         *)
HopIsTrue(h) ==
  /\ h.path # <<>> /\ h.path[Len(h.path)] = h.url
  /\ "authorization" \in h.headers => Stayed(h)
  /\ h.page = "none" /\ h.chain = "none" => Stayed(h)
  /\ h.page = "none" /\ h.chain # "none" => h.chain = h.path[1]
  /\ h.mode = "fetch" => (h.tainted <=> LeftOther(h))
  /\ SentSite(h) # "none" => WorstSoFar(h, SentSite(h))

(* An answer the check has passed, with or without credentials.             *)
Passed(a, include) ==
  /\ a.origin = "own" \/ (a.origin = "*" /\ ~include)
  /\ include => a.credentials

(* The answer a hop goes by covers it.                                      *)
Covered(h) ==
  /\ Passed(h.by, h.include) /\ Passed(h.by, FALSE)
  /\ Simple(h.method) \/ h.method \in h.by.methods \/ "*" \in h.by.methods
  /\ \A n \in h.headers : n \in h.by.headers \/ ("*" \in h.by.headers /\ n # "authorization")

FcInv ==
  /\ fcNow \in FcHop /\ fcTaints \in BOOLEAN
  /\ fcCache \in [Opaque \X FcOrigins -> FcEntries \cup {NoAnswer}]
  /\ \A k \in Opaque \X FcOrigins :
       fcCache[k] # NoAnswer => Passed(fcCache[k].answer, fcCache[k].include)
  /\ fcNow.pc # "idle" => HopIsTrue(fcNow)
  /\ fcNow.pc = "gone" /\ PreflightNeeded(fcNow) => Covered(fcNow)

LEMMA RankIs ==
  /\ Rank["none"] = 0 /\ Rank["same_origin"] = 1
  /\ Rank["same_site"] = 2 /\ Rank["cross_site"] = 3
  BY DEF Rank

LEMMA RelationIs ==
  ASSUME NEW a, NEW b
  PROVE  /\ SiteRelation(a, b) \in FcSites \ {"none"}
         /\ Rank[SiteRelation(a, b)] \in 1..3
         /\ SiteRelation(a, a) = "same_origin"
  BY RankIs DEF SiteRelation, FcSites

LEMMA WorseSiteIs ==
  ASSUME NEW a \in FcSites, NEW b \in FcSites \ {"none"}
  PROVE  /\ WorseSite(a, b) \in FcSites \ {"none"}
         /\ WorseSite(a, b) \in {a, b}
         /\ Rank[a] <= Rank[WorseSite(a, b)] /\ Rank[b] <= Rank[WorseSite(a, b)]
         /\ Rank[WorseSite(a, b)] \in Nat
  BY RankIs DEF WorseSite, FcSites

LEMMA SentSiteIs == ASSUME NEW h \in FcHop PROVE SentSite(h) \in FcSites
  BY RelationIs DEF SentSite, FcHop, FcSites

LEMMA AnyHopIs == AnyHop \in FcHop /\ AnyHop.pc = "idle"
  BY FcAssumption DEF AnyHop, FcHop, FcSites

LEMMA FcInvInit == FcInit => FcInv
<1>. SUFFICES ASSUME FcInit PROVE FcInv OBVIOUS
<1>1. fcCache \in [Opaque \X FcOrigins -> FcEntries \cup {NoAnswer}] BY DEF FcInit
<1>2. \A k \in Opaque \X FcOrigins : fcCache[k] = NoAnswer BY DEF FcInit
<1>. QED BY <1>1, <1>2, AnyHopIs DEF FcInit, FcInv

(* A request begins where it goes.                                          *)
Begun(h) ==
  \E mode \in FcModes, method \in FcMethods, page \in {"none", FcPage},
     headers \in SUBSET FcHeaders, include \in BOOLEAN, url \in FcOrigins :
    h = [AnyHop EXCEPT !.pc = "start", !.mode = mode, !.method = method, !.page = page,
           !.headers = headers, !.include = include, !.url = url, !.path = <<url>>]

LEMMA BegunIs ==
  ASSUME NEW h, Begun(h)
  PROVE  /\ h \in FcHop /\ h.pc = "start" /\ h.path = <<h.url>>
         /\ h.chain = "none" /\ h.tainted = FALSE /\ h.site = "none"
<1>1. /\ AnyHop \in FcHop /\ AnyHop.chain = "none" /\ AnyHop.tainted = FALSE
      /\ AnyHop.site = "none"
  BY AnyHopIs DEF AnyHop
<1>2. PICK mode \in FcModes, method \in FcMethods, page \in {"none", FcPage},
           headers \in SUBSET FcHeaders, include \in BOOLEAN, url \in FcOrigins :
        h = [AnyHop EXCEPT !.pc = "start", !.mode = mode, !.method = method, !.page = page,
               !.headers = headers, !.include = include, !.url = url, !.path = <<url>>]
  BY DEF Begun
<1>3. mode \in {"auto", "navigate", "fetch"} /\ method \in {"GET", "POST", "PUT"}
  BY FcAssumption
<1>4. PICK path : path = <<url>> OBVIOUS
<1>5. path \in Seq(FcOrigins) BY <1>4
<1>6. h = [AnyHop EXCEPT !.pc = "start", !.mode = mode, !.method = method, !.page = page,
             !.headers = headers, !.include = include, !.url = url, !.path = path]
  BY <1>2, <1>4
<1>7. h \in FcHop BY <1>1, <1>3, <1>5, <1>6 DEF FcHop
<1>8. /\ h.pc = "start" /\ h.path = path /\ h.url = url
      /\ h.chain = AnyHop.chain /\ h.tainted = AnyHop.tainted /\ h.site = AnyHop.site
  BY <1>1, <1>6 DEF FcHop
<1>. QED BY <1>1, <1>4, <1>7, <1>8

LEMMA BeginsTrue ==
  ASSUME NEW h, Begun(h)
  PROVE  h \in FcHop /\ h.pc = "start" /\ HopIsTrue(h)
<1>1. /\ h \in FcHop /\ h.pc = "start" /\ h.path = <<h.url>>
      /\ h.chain = "none" /\ h.tainted = FALSE /\ h.site = "none"
  BY BegunIs
<1>2. Len(h.path) = 1 /\ h.path[1] = h.url /\ h.path # <<>> BY <1>1
<1>3. Stayed(h) /\ ~LeftOther(h) BY <1>2 DEF Stayed, LeftOther
<1>4. SentSite(h) # "none" => WorstSoFar(h, SentSite(h))
  <2>1. 1..Len(h.path) = {1} BY <1>2
  <2>2. SentSite(h) # "none" => Rank[SentSite(h)] = RankTo(h, 1) /\ RankTo(h, 1) \in 1..3
    <3>1. CASE h.page # "none" BY <1>1, <1>2, <3>1, RelationIs DEF SentSite, RankTo, FirstOfHop
    <3>2. CASE h.page = "none" BY <1>1, <1>2, <3>2, RelationIs DEF SentSite, RankTo, FirstOfHop
    <3>. QED BY <3>1, <3>2
  <2>. QED BY <2>1, <2>2 DEF WorstSoFar
<1>. QED BY <1>1, <1>2, <1>3, <1>4 DEF HopIsTrue

(* A redirect takes the chain one URL further.                              *)
LEMMA HopsOn ==
  ASSUME NEW h \in FcHop, HopIsTrue(h), NEW url \in FcOrigins, NEW keeps \in BOOLEAN,
         NEW new, new = NextRequest(h, url, keeps)
  PROVE  new \in FcHop /\ new.pc = "start" /\ HopIsTrue(new)
<1>. DEFINE n == Len(h.path)
            first == FirstOfHop(h)
            crosses == url # h.url
            chain == IF crosses /\ h.chain = "none" THEN first ELSE h.chain
            own == IF h.page # "none" THEN h.page ELSE chain
            method == IF keeps THEN h.method ELSE "GET"
            headers == h.headers \ ((IF keeps THEN {} ELSE {"content-type"})
                                    \cup (IF crosses THEN {"authorization"} ELSE {}))
            tainted == h.tainted \/ (crosses /\ (own # h.url
                                                   \/ (fcTaints /\ ModeFor(h) = "navigate")))
            site == IF SentSite(h) = "none" THEN h.site
                    ELSE WorseSite(SentSite(h), SiteRelation(first, url))
            path == Append(h.path, url)
<1>1. /\ h.path \in Seq(FcOrigins) /\ n \in Nat /\ n >= 1 /\ h.path # <<>> /\ h.path[n] = h.url
      /\ h.path[1] \in FcOrigins /\ h.url \in FcOrigins /\ n \in 1..n /\ 1 \in 1..n
  BY DEF FcHop, HopIsTrue
<1>2. /\ h.mode \in {"auto", "navigate", "fetch"} /\ h.method \in {"GET", "POST", "PUT"}
      /\ h.page \in {"none", FcPage} /\ h.headers \in SUBSET FcHeaders
      /\ h.chain \in FcOrigins \cup {"none"} /\ h.tainted \in BOOLEAN /\ h.site \in FcSites
  BY DEF FcHop
<1>3. first \in FcOrigins /\ "none" \notin FcOrigins BY <1>1, <1>2, FcAssumption DEF FirstOfHop
<1>4. Head(h.path) = h.path[1] BY <1>1
<1>5. new = [h EXCEPT !.pc = "start", !.url = url, !.path = path, !.by = NoAnswer,
                      !.method = method, !.headers = headers, !.chain = chain,
                      !.tainted = tainted, !.site = site]
  BY <1>4 DEF NextRequest, FirstOfHop
<1>6. /\ path \in Seq(FcOrigins) /\ Len(path) = n + 1 /\ path[n + 1] = url /\ path # <<>>
      /\ \A i \in 1..n : path[i] = h.path[i]
  BY <1>1
<1>7. site \in FcSites BY <1>2, SentSiteIs, RelationIs, WorseSiteIs
<1>8. method \in {"GET", "POST", "PUT"} /\ headers \in SUBSET FcHeaders BY <1>2
<1>9. chain \in FcOrigins \cup {"none"} /\ tainted \in BOOLEAN BY <1>2, <1>3
<1>. HIDE DEF n, first, chain, own, method, headers, tainted, site, path, crosses
<1>10. /\ new.pc = "start" /\ new.url = url /\ new.path = path /\ new.method = method
       /\ new.headers = headers /\ new.chain = chain /\ new.tainted = tainted
       /\ new.site = site /\ new.mode = h.mode /\ new.page = h.page
       /\ new.include = h.include /\ new.by = NoAnswer
  BY <1>5 DEF FcHop
<1>11. new \in FcHop
  <2>1. DOMAIN new = DOMAIN h /\ new = [f \in DOMAIN h |-> new[f]] BY <1>5
  <2>. QED BY <1>2, <1>5, <1>6, <1>7, <1>8, <1>9 DEF FcHop
<1>12. FirstOfHop(new) = first
  <2>1. path[1] = h.path[1] BY <1>1, <1>6
  <2>. QED BY <1>10, <2>1 DEF FirstOfHop, first
<1>13. Len(new.path) = n + 1 /\ new.path # <<>> /\ new.path[Len(new.path)] = new.url
  BY <1>6, <1>10
<1>14. Stayed(h) /\ ~crosses => Stayed(new)
  <2>1. SUFFICES ASSUME Stayed(h), ~crosses, NEW i \in 1..(n + 1) PROVE path[i] = path[1]
    BY <1>10, <1>13 DEF Stayed
  <2>2. path[1] = h.path[1] BY <1>1, <1>6
  <2>3. CASE i \in 1..n BY <1>6, <2>1, <2>2, <2>3 DEF Stayed, n
  <2>4. CASE i = n + 1
    <3>1. url = h.path[n] BY <1>1, <2>1 DEF crosses
    <3>2. h.path[n] = h.path[1] BY <1>1, <2>1 DEF Stayed, n
    <3>. QED BY <1>6, <2>2, <2>4, <3>1, <3>2
  <2>. QED BY <1>1, <2>3, <2>4
<1>15. "authorization" \in new.headers => Stayed(new)
  <2>1. "authorization" \in headers => "authorization" \in h.headers /\ ~crosses
    BY DEF headers
  <2>. QED BY <1>10, <1>14, <2>1 DEF HopIsTrue
<1>16. h.page = "none" => first = h.path[1] BY DEF first, FirstOfHop
<1>17. new.page = "none" /\ new.chain = "none" => Stayed(new)
  <2>1. chain = "none" => h.chain = "none" /\ ~crosses BY <1>3 DEF chain
  <2>. QED BY <1>10, <1>14, <2>1 DEF HopIsTrue
<1>18. new.page = "none" /\ new.chain # "none" => new.chain = new.path[1]
  <2>1. path[1] = h.path[1] BY <1>1, <1>6
  <2>2. h.page = "none" /\ chain # "none" => chain = h.path[1]
    BY <1>16 DEF chain, HopIsTrue
  <2>. QED BY <1>10, <2>1, <2>2
<1>19. LeftOther(new) <=> LeftOther(h) \/ (h.url # first /\ crosses)
  <2>1. LeftOther(new) <=> \E i \in 1..n : path[i] # first /\ path[i] # path[i + 1]
    <3>1. Len(new.path) - 1 = n BY <1>1, <1>13
    <3>. QED BY <1>10, <1>12, <3>1 DEF LeftOther
  <2>2. LeftOther(h) <=> \E i \in 1..(n - 1) : h.path[i] # first /\ h.path[i] # h.path[i + 1]
    BY DEF LeftOther, first, n
  <2>3. \A i \in 1..(n - 1) : i \in 1..n /\ i + 1 \in 1..n BY <1>1
  <2>4. \A i \in 1..(n - 1) : path[i] = h.path[i] /\ path[i + 1] = h.path[i + 1]
    BY <1>6, <2>3
  <2>5. path[n] = h.url /\ path[n + 1] = url BY <1>1, <1>6
  <2>6. \A i \in 1..n : i = n \/ i \in 1..(n - 1) BY <1>1
  <2>. QED BY <1>1, <2>1, <2>2, <2>3, <2>4, <2>5, <2>6 DEF crosses
<1>20. new.mode = "fetch" => (new.tainted <=> LeftOther(new))
  <2>1. crosses => own = first
    BY <1>3, <1>16 DEF own, chain, first, FirstOfHop, HopIsTrue
  <2>2. h.mode = "fetch" => ModeFor(h) = "fetch" BY DEF ModeFor
  <2>3. h.mode = "fetch" => (tainted <=> h.tainted \/ (crosses /\ h.url # first))
    BY <1>2, <2>1, <2>2 DEF tainted
  <2>. QED BY <1>10, <1>19, <2>3 DEF HopIsTrue
<1>21. SentSite(new) # "none" => WorstSoFar(new, SentSite(new))
  <2>1. CASE SentSite(h) = "none"
    <3>1. h.site = "none" /\ h.page = "none" /\ ModeFor(h) # "fetch"
      BY <2>1, RelationIs DEF SentSite, FcSites
    <3>2. ModeFor(new) # "fetch"
      BY <1>2, <1>10, <3>1 DEF ModeFor, Simple, method, headers
    <3>. QED BY <1>10, <2>1, <3>1, <3>2 DEF SentSite, site
  <2>2. CASE SentSite(h) # "none"
    <3>. DEFINE rel == SiteRelation(first, url)
                old == SentSite(h)
    <3>1. old \in FcSites /\ rel \in FcSites \ {"none"} /\ Rank[rel] \in 1..3
      BY SentSiteIs, RelationIs
    <3>2. /\ site # "none" /\ site \in {old, rel} /\ Rank[site] \in Nat
          /\ Rank[old] <= Rank[site] /\ Rank[rel] <= Rank[site]
      BY <2>2, <3>1, WorseSiteIs DEF site
    <3>3. SentSite(new) = site BY <1>10, <3>2 DEF SentSite
    <3>4. \A i \in 1..n : RankTo(new, i) = RankTo(h, i)
      BY <1>6, <1>10, <1>12 DEF RankTo, first
    <3>5. RankTo(new, n + 1) = Rank[rel] BY <1>6, <1>10, <1>12 DEF RankTo
    <3>6. WorstSoFar(h, old) BY <2>2 DEF HopIsTrue
    <3>7. /\ \E i \in 1..n : RankTo(h, i) = Rank[old]
          /\ \A i \in 1..n : RankTo(h, i) <= Rank[old]
      BY <3>6 DEF WorstSoFar, n
    <3>8. \A i \in 1..n : RankTo(h, i) \in Nat BY RelationIs DEF RankTo
    <3>9. Rank[old] \in Nat BY <3>7, <3>8
    <3>. HIDE DEF rel, old
    <3>10. \E i \in 1..(n + 1) : RankTo(new, i) = Rank[site]
      <4>1. CASE site = old BY <1>1, <3>4, <3>7, <4>1
      <4>2. CASE site = rel BY <1>1, <3>5, <4>2
      <4>. QED BY <3>2, <4>1, <4>2
    <3>11. ASSUME NEW i \in 1..(n + 1) PROVE RankTo(new, i) <= Rank[site]
      <4>1. CASE i \in 1..n
        <5>1. RankTo(new, i) <= Rank[old] /\ RankTo(new, i) \in Nat BY <3>4, <3>7, <3>8, <4>1
        <5>. QED BY <3>2, <3>9, <5>1
      <4>2. CASE i = n + 1 BY <3>2, <3>5, <4>2
      <4>. QED BY <1>1, <4>1, <4>2
    <3>. QED BY <1>13, <3>3, <3>10, <3>11 DEF WorstSoFar
  <2>. QED BY <2>1, <2>2
<1>. QED BY <1>10, <1>11, <1>13, <1>15, <1>17, <1>18, <1>20, <1>21 DEF HopIsTrue

(* Going changes nothing about the chain.                                   *)
Gone(h, by) == [h EXCEPT !.pc = "gone", !.by = by]

LEMMA HopGoes ==
  ASSUME NEW h \in FcHop, HopIsTrue(h), NEW by \in FcAnswers \cup {NoAnswer},
         NEW new, new = Gone(h, by)
  PROVE  /\ new \in FcHop /\ HopIsTrue(new) /\ new.by = by /\ new.include = h.include
         /\ new.method = h.method /\ new.headers = h.headers
         /\ PreflightNeeded(new) <=> PreflightNeeded(h)
<1>1. new \in FcHop BY DEF FcHop, Gone
<1>2. /\ new.by = by /\ new.mode = h.mode /\ new.method = h.method /\ new.page = h.page
      /\ new.headers = h.headers /\ new.include = h.include /\ new.url = h.url
      /\ new.chain = h.chain /\ new.tainted = h.tainted /\ new.site = h.site
      /\ new.path = h.path
  BY DEF FcHop, Gone
<1>3. ModeFor(new) = ModeFor(h) BY <1>2 DEF ModeFor
<1>4. SentSite(new) = SentSite(h) BY <1>2, <1>3 DEF SentSite
<1>5. /\ FirstOfHop(new) = FirstOfHop(h)
      /\ Stayed(new) <=> Stayed(h)
  BY <1>2 DEF FirstOfHop, Stayed
<1>6. LeftOther(new) <=> LeftOther(h) BY <1>2, <1>5 DEF LeftOther
<1>7. WorstSoFar(new, SentSite(new)) <=> WorstSoFar(h, SentSite(h))
  BY <1>2, <1>4, <1>5 DEF WorstSoFar, RankTo
<1>8. HopIsTrue(new) BY <1>2, <1>4, <1>5, <1>6, <1>7 DEF HopIsTrue
<1>9. PreflightNeeded(new) <=> PreflightNeeded(h) BY <1>2, <1>3 DEF PreflightNeeded
<1>. QED BY <1>1, <1>2, <1>8, <1>9

(* What a hop goes by covers it, kept or just answered.                     *)
LEMMA AnswersCover ==
  ASSUME NEW h \in FcHop, NEW new, new.include = h.include, new.method = h.method,
         new.headers = h.headers
  PROVE  /\ CorsCheck(new.by, h.include, h.method, h.headers) =>
              Covered(new) /\ Passed(new.by, h.include)
         /\ \A e : e # NoAnswer /\ PreflightHit(e, h.include, h.method, h.headers)
                     /\ Passed(e.answer, e.include) /\ new.by = e.answer => Covered(new)
<1>1. h.include \in BOOLEAN BY DEF FcHop
<1>2. CorsCheck(new.by, h.include, h.method, h.headers) =>
        Covered(new) /\ Passed(new.by, h.include)
  BY <1>1 DEF CorsCheck, Covered, Passed
<1>3. ASSUME NEW e, PreflightHit(e, h.include, h.method, h.headers),
             Passed(e.answer, e.include), new.by = e.answer
      PROVE  Covered(new)
  <2>1. Passed(new.by, h.include) /\ Passed(new.by, FALSE)
    BY <1>1, <1>3 DEF Passed, PreflightHit
  <2>2. \A n \in new.headers : n \in new.by.headers \/ ("*" \in new.by.headers /\ n # "authorization")
    BY <1>3 DEF PreflightHit
  <2>3. Simple(new.method) \/ new.method \in new.by.methods \/ "*" \in new.by.methods
    BY <1>3 DEF PreflightHit
  <2>. QED BY <2>1, <2>2, <2>3 DEF Covered
<1>. QED BY <1>2, <1>3

LEMMA FcInvNext == FcInv /\ [FcNext]_fcVars => FcInv'
<1>. SUFFICES ASSUME FcInv, [FcNext]_fcVars PROVE FcInv' OBVIOUS
<1>1. /\ fcNow \in FcHop /\ fcTaints \in BOOLEAN
      /\ fcCache \in [Opaque \X FcOrigins -> FcEntries \cup {NoAnswer}]
  BY DEF FcInv
<1>2. ASSUME UNCHANGED <<fcTaints, fcCache>>, fcNow' \in FcHop,
             fcNow'.pc # "idle" => HopIsTrue(fcNow'),
             fcNow'.pc = "gone" /\ PreflightNeeded(fcNow') => Covered(fcNow')
      PROVE  FcInv'
  BY <1>2 DEF FcInv
<1>3. CASE Fetches
  <2>1. Begun(fcNow')
    <3>1. PICK mode \in FcModes, method \in FcMethods, page \in {"none", FcPage},
               headers \in SUBSET FcHeaders, include \in BOOLEAN, url \in FcOrigins :
            /\ "content-type" \in headers => method # "GET"
            /\ include => page # "none"
            /\ fcNow' = [AnyHop EXCEPT !.pc = "start", !.mode = mode, !.method = method,
                           !.page = page, !.headers = headers, !.include = include,
                           !.url = url, !.path = <<url>>]
      BY <1>3 DEF Fetches
    <3>2. PICK h : h = fcNow' OBVIOUS
    <3>3. Begun(h)
      <4>1. h = [AnyHop EXCEPT !.pc = "start", !.mode = mode, !.method = method, !.page = page,
                   !.headers = headers, !.include = include, !.url = url, !.path = <<url>>]
        BY <3>1, <3>2
      <4>. QED BY <4>1 DEF Begun
    <3>. QED BY <3>2, <3>3
  <2>2. fcNow' \in FcHop /\ fcNow'.pc = "start" /\ HopIsTrue(fcNow') BY <2>1, BeginsTrue
  <2>3. UNCHANGED <<fcTaints, fcCache>> BY <1>3 DEF Fetches
  <2>. QED BY <1>2, <2>2, <2>3
<1>4. CASE NeedsNone
  <2>1. /\ fcNow' = Gone(fcNow, NoAnswer) /\ ~PreflightNeeded(fcNow)
        /\ UNCHANGED <<fcTaints, fcCache>> /\ HopIsTrue(fcNow)
    BY <1>4 DEF NeedsNone, Goes, Gone, FcInv
  <2>2. fcNow' \in FcHop /\ HopIsTrue(fcNow') /\ ~PreflightNeeded(fcNow')
    BY <1>1, <2>1, HopGoes
  <2>. QED BY <1>2, <2>1, <2>2
<1>5. CASE GoesByCache
  <2>1. PICK k : k = <<OriginOfHop(fcNow), fcNow.url>> OBVIOUS
  <2>2. /\ fcNow' = Gone(fcNow, fcCache[k].answer)
        /\ PreflightHit(fcCache[k], fcNow.include, fcNow.method, fcNow.headers)
        /\ UNCHANGED <<fcTaints, fcCache>> /\ HopIsTrue(fcNow) /\ PreflightNeeded(fcNow)
    BY <1>5, <2>1 DEF GoesByCache, Goes, Gone, Hits, FcInv
  <2>3. k \in Opaque \X FcOrigins
    BY <1>1, <2>1, <2>2, FcAssumption DEF Opaque, OriginOfHop, PreflightNeeded, FcHop
  <2>4. fcCache[k] # NoAnswer BY <2>2 DEF PreflightHit
  <2>5. fcCache[k].answer \in FcAnswers /\ Passed(fcCache[k].answer, fcCache[k].include)
    BY <1>1, <2>3, <2>4 DEF FcInv, FcEntries
  <2>6. /\ fcNow' \in FcHop /\ HopIsTrue(fcNow') /\ fcNow'.by = fcCache[k].answer
        /\ fcNow'.include = fcNow.include /\ fcNow'.method = fcNow.method
        /\ fcNow'.headers = fcNow.headers
    BY <1>1, <2>2, <2>5, HopGoes
  <2>7. Covered(fcNow') BY <1>1, <2>2, <2>4, <2>5, <2>6, AnswersCover
  <2>. QED BY <1>2, <2>2, <2>6, <2>7
<1>6. CASE Preflights
  <2>1. PICK live \in BOOLEAN, answer \in FcAnswers, kept \in BOOLEAN :
          LET k == <<OriginOfHop(fcNow), fcNow.url>>
              found == IF live THEN fcCache[k] ELSE NoAnswer
          IN IF CorsCheck(answer, fcNow.include, fcNow.method, fcNow.headers)
             THEN /\ Goes(answer)
                  /\ fcCache' = [fcCache EXCEPT ![k] =
                       PreflightStore(found, answer, fcNow.include, kept)]
             ELSE /\ fcNow' = AnyHop
                  /\ fcCache' = [fcCache EXCEPT ![k] = found]
    BY <1>6 DEF Preflights
  <2>2. PICK k : k = <<OriginOfHop(fcNow), fcNow.url>> OBVIOUS
  <2>3. fcTaints' = fcTaints /\ HopIsTrue(fcNow) /\ PreflightNeeded(fcNow)
    BY <1>6 DEF Preflights, FcInv
  <2>4. k \in Opaque \X FcOrigins
    BY <1>1, <2>2, <2>3, FcAssumption DEF Opaque, OriginOfHop, PreflightNeeded, FcHop
  <2>5. PICK found : found = IF live THEN fcCache[k] ELSE NoAnswer OBVIOUS
  <2>6. /\ found \in FcEntries \cup {NoAnswer}
        /\ found # NoAnswer => Passed(found.answer, found.include)
    BY <1>1, <2>4, <2>5 DEF FcInv
  <2>7. ASSUME NEW entry \in FcEntries \cup {NoAnswer},
               entry # NoAnswer => Passed(entry.answer, entry.include),
               fcCache' = [fcCache EXCEPT ![k] = entry]
        PROVE  /\ fcCache' \in [Opaque \X FcOrigins -> FcEntries \cup {NoAnswer}]
               /\ \A j \in Opaque \X FcOrigins :
                    fcCache'[j] # NoAnswer => Passed(fcCache'[j].answer, fcCache'[j].include)
    <3>1. fcCache' \in [Opaque \X FcOrigins -> FcEntries \cup {NoAnswer}] BY <1>1, <2>7
    <3>2. ASSUME NEW j \in Opaque \X FcOrigins, fcCache'[j] # NoAnswer
          PROVE  Passed(fcCache'[j].answer, fcCache'[j].include)
      <4>1. fcCache'[j] = IF j = k THEN entry ELSE fcCache[j] BY <1>1, <2>7
      <4>. QED BY <2>7, <3>2, <4>1 DEF FcInv
    <3>. QED BY <3>1, <3>2
  <2>8. CASE CorsCheck(answer, fcNow.include, fcNow.method, fcNow.headers)
    <3>1. /\ fcNow' = Gone(fcNow, answer)
          /\ fcCache' = [fcCache EXCEPT ![k] = PreflightStore(found, answer, fcNow.include, kept)]
      BY <2>1, <2>2, <2>5, <2>8 DEF Goes, Gone
    <3>2. /\ fcNow' \in FcHop /\ HopIsTrue(fcNow') /\ fcNow'.by = answer
          /\ fcNow'.include = fcNow.include /\ fcNow'.method = fcNow.method
          /\ fcNow'.headers = fcNow.headers
      BY <1>1, <2>3, <3>1, HopGoes
    <3>3. Covered(fcNow') /\ Passed(answer, fcNow.include)
      BY <1>1, <2>8, <3>2, AnswersCover
    <3>4. PICK entry : entry = PreflightStore(found, answer, fcNow.include, kept) OBVIOUS
    <3>5. /\ entry \in FcEntries \cup {NoAnswer}
          /\ entry # NoAnswer => Passed(entry.answer, entry.include)
      <4>1. CASE kept
        <5>1. entry = [answer |-> answer, include |-> fcNow.include]
          BY <3>4, <4>1 DEF PreflightStore
        <5>. QED BY <1>1, <3>3, <5>1 DEF FcEntries, FcHop
      <4>2. CASE ~kept BY <2>6, <3>4, <4>2 DEF PreflightStore
      <4>. QED BY <4>1, <4>2
    <3>6. /\ fcCache' \in [Opaque \X FcOrigins -> FcEntries \cup {NoAnswer}]
          /\ \A j \in Opaque \X FcOrigins :
               fcCache'[j] # NoAnswer => Passed(fcCache'[j].answer, fcCache'[j].include)
      BY <2>7, <3>1, <3>4, <3>5
    <3>. QED BY <1>1, <2>3, <3>2, <3>3, <3>6 DEF FcInv
  <2>9. CASE ~CorsCheck(answer, fcNow.include, fcNow.method, fcNow.headers)
    <3>1. fcNow' = AnyHop /\ fcCache' = [fcCache EXCEPT ![k] = found]
      BY <2>1, <2>2, <2>5, <2>9
    <3>2. /\ fcCache' \in [Opaque \X FcOrigins -> FcEntries \cup {NoAnswer}]
          /\ \A j \in Opaque \X FcOrigins :
               fcCache'[j] # NoAnswer => Passed(fcCache'[j].answer, fcCache'[j].include)
      BY <2>6, <2>7, <3>1
    <3>. QED BY <1>1, <2>3, <3>1, <3>2, AnyHopIs DEF FcInv
  <2>. QED BY <2>8, <2>9
<1>7. CASE Answered BY <1>2, <1>7, AnyHopIs DEF Answered
<1>8. CASE Redirected
  <2>1. PICK url \in FcOrigins, keeps \in BOOLEAN : fcNow' = NextRequest(fcNow, url, keeps)
    BY <1>8 DEF Redirected
  <2>2. UNCHANGED <<fcTaints, fcCache>> /\ HopIsTrue(fcNow) BY <1>8 DEF Redirected, FcInv
  <2>3. fcNow' \in FcHop /\ fcNow'.pc = "start" /\ HopIsTrue(fcNow')
    BY <1>1, <2>1, <2>2, HopsOn
  <2>. QED BY <1>2, <2>2, <2>3
<1>9. CASE UNCHANGED fcVars
  <2>1. fcNow' = fcNow /\ fcTaints' = fcTaints /\ fcCache' = fcCache BY <1>9 DEF fcVars
  <2>. QED BY <1>2, <2>1 DEF FcInv
<1>. QED BY <1>3, <1>4, <1>5, <1>6, <1>7, <1>8, <1>9 DEF FcNext

(* However often a chain is redirected, to whatever origins, and whichever  *)
(* answers were kept from other requests: what a hop says of its origin and *)
(* of its site is true of the whole chain, its secrets stay with their      *)
(* origin, and it goes only by a preflight answer that lets it              *)
(* (redirect.go, preflight.go, headers.go).                                 *)
THEOREM ChainsAreTrue == FcSpec => []ChainIsTrue
<1>1. FcInv => ChainIsTrue
  <2>. SUFFICES ASSUME FcInv, fcNow.pc = "gone" PROVE ChainIsTrue
    BY DEF ChainIsTrue, HopsTellTheTruth, CoveredByAnswer, HopSent
  <2>1. HopIsTrue(fcNow) /\ fcNow \in FcHop BY DEF FcInv
  <2>2. /\ fcNow.path \in Seq(FcOrigins) /\ Len(fcNow.path) \in Nat
        /\ DOMAIN fcNow.path = 1..Len(fcNow.path) /\ Len(fcNow.path) >= 1
        /\ Head(fcNow.path) = fcNow.path[1]
    BY <2>1 DEF FcHop, HopIsTrue
  <2>3. FirstOf = FirstOfHop(fcNow) BY <2>2 DEF FirstOf, FirstOfHop
  <2>4. SecretsStayHome BY <2>1, <2>2 DEF SecretsStayHome, HopIsTrue, Stayed
  <2>5. SiteIsWorst
    <3>. DEFINE ranks == {Rank[SiteRelation(FirstOf, fcNow.path[i])] : i \in DOMAIN fcNow.path}
                sent == Rank[SentSite(fcNow)]
    <3>1. SUFFICES ASSUME SentSite(fcNow) # "none" PROVE sent = Max(ranks) BY DEF SiteIsWorst
    <3>2. WorstSoFar(fcNow, SentSite(fcNow)) BY <2>1, <3>1 DEF HopIsTrue
    <3>3. sent \in ranks /\ \A r \in ranks : r <= sent
      BY <2>2, <2>3, <3>2 DEF WorstSoFar, RankTo
    <3>4. \A r \in ranks : r \in 1..3 BY RelationIs
    <3>. HIDE DEF sent, ranks
    <3>5. Max(ranks) \in ranks /\ \A r \in ranks : Max(ranks) >= r
      <4>1. \E x \in ranks : \A y \in ranks : x >= y BY <3>3, <3>4
      <4>. QED BY <4>1 DEF Max
    <3>6. Max(ranks) <= sent /\ Max(ranks) >= sent /\ Max(ranks) \in 1..3 /\ sent \in 1..3
      BY <3>3, <3>4, <3>5
    <3>. QED BY <3>6
  <2>6. OriginIsTrue
    <3>1. (\E i \in Steps : fcNow.path[i] \notin {FirstOf, fcNow.path[i + 1]}) <=> LeftOther(fcNow)
      BY <2>3 DEF Steps, LeftOther
    <3>2. fcNow.mode = "fetch" => (fcNow.tainted <=> LeftOther(fcNow)) BY <2>1 DEF HopIsTrue
    <3>3. IF fcNow.page # "none" THEN FirstOf = fcNow.page
          ELSE IF fcNow.chain # "none" THEN FirstOf = fcNow.chain ELSE FirstOf = fcNow.url
      BY <2>1, <2>2, <2>3 DEF FirstOfHop, HopIsTrue, Stayed
    <3>. QED BY <3>1, <3>2, <3>3 DEF OriginIsTrue, SentOrigin
  <2>7. CoveredByAnswer
    BY DEF FcInv, Covered, Passed, CoveredByAnswer, CorsCheck, Simple
  <2>. QED BY <2>4, <2>5, <2>6, <2>7 DEF ChainIsTrue, HopsTellTheTruth
<1>. QED BY FcInvInit, FcInvNext, <1>1, PTL DEF FcSpec

-----------------------------------------------------------------------------
(* The cookies of a session (CookieJar)                                    *)

CkMaybe == Cookie \cup {NoCookie}
CkChange == [into: Partitions, before: CkMaybe]
CkRecord ==
  [pc: {"idle", "ask", "choose", "answer", "store", "record", "read", "undo", "forget",
        "undone", "over"},
   from: CkSites, kind: {"nav", "include", "same-origin", "omit"}, matched: Jars,
   sent: SUBSET CkMaybe, into: Partitions, gets: CkMaybe, life: {"kept", "gone", "both"},
   log: Seq(CkChange), alone: BOOLEAN, first: [jar: Jars, kept: Jars]]

Going(r) == r.pc \notin {"idle", "over"}
TopOf(r) == IF r.kind = "nav" THEN Home ELSE r.from

(* Where a cookie may lie, and under which top-level site it may go: what   *)
(* is sent is right because what lies in the jars, in the record and in the *)
(* logs of changes to undo is.                                              *)
MayLie(policy, p, c) ==
  c # NoCookie =>
    /\ (policy.parts # "none" /\ c.parted) => p = c.top
    /\ ~policy.third => (p = c.top \/ (p = "ordinary" /\ c.top = Home))
MayGo(policy, top, c) ==
  c # NoCookie =>
    /\ (policy.parts # "none" /\ c.parted) => c.top = top
    /\ ~policy.third => c.top = top

InPlace(policy, r) ==
  /\ MayLie(policy, r.into, r.gets)
  /\ \A i \in 1..Len(r.log) : MayLie(policy, r.log[i].into, r.log[i].before)
  /\ \A p \in Partitions : MayGo(policy, TopOf(r), r.matched[p])
  /\ \A c \in r.sent : c # NoCookie /\ MayGo(policy, TopOf(r), c)

(* What the log of one that is alone leads back to: a partition it has not  *)
(* changed is as it was, and the first change of each remembers how it was. *)
Touched(log, p) == \E i \in 1..Len(log) : log[i].into = p
Earliest(log, i) == \A j \in 1..(i - 1) : log[j].into # log[i].into
LeadsBack(log, was) == \A i \in 1..Len(log) : Earliest(log, i) => log[i].before = was[log[i].into]
Untouched(r, was, jar, kept) ==
  \A p \in Partitions : ~Touched(r.log, p) =>
    /\ kept[p] = was[p]
    /\ jar[p] = was[p] \/ (r.pc = "record" /\ p = r.into)
Retraces(r, jar, kept) ==
  (Going(r) /\ r.alone /\ r.first.jar = r.first.kept) =>
    /\ LeadsBack(r.log, r.first.kept)
    /\ Untouched(r, r.first.kept, jar, kept)
    /\ r.pc = "forget" => jar[r.log[Len(r.log)].into] = r.log[Len(r.log)].before

Logged(r) == (r.pc = "forget" => r.log # <<>>) /\ (r.pc = "undone" => r.log = <<>>)

CkInv ==
  /\ ckFamily \in CkFamilies /\ ckJar \in Jars /\ ckKept \in Jars
  /\ ckReq \in [CkRequests -> CkRecord]
  /\ \A p \in Partitions :
       MayLie(CookiePolicy, p, ckJar[p]) /\ MayLie(CookiePolicy, p, ckKept[p])
  /\ \A q \in CkRequests :
       /\ InPlace(CookiePolicy, ckReq[q]) /\ Logged(ckReq[q])
       /\ Retraces(ckReq[q], ckJar, ckKept)
  /\ \A q, o \in CkRequests : (q # o /\ Going(ckReq[q]) /\ ckReq[q].alone) => ~Going(ckReq[o])

LEMMA PolicyIs ==
  ASSUME CkInv
  PROVE  /\ CookiePolicy.third \in BOOLEAN /\ CookiePolicy.judges \in BOOLEAN
         /\ CookiePolicy.parts \in {"partitioned", "third-party", "none"}
         /\ ~CookiePolicy.judges => (CookiePolicy.third /\ CookiePolicy.parts = "none")
<1>1. ckFamily \in {"chrome", "firefox", "safari", "okhttp"} BY CkAssumption DEF CkInv
<1>2. CASE ckFamily = "chrome" BY <1>2 DEF CookiePolicy
<1>3. CASE ckFamily = "firefox" BY <1>3 DEF CookiePolicy
<1>4. CASE ckFamily = "safari" BY <1>4 DEF CookiePolicy
<1>5. CASE ckFamily = "okhttp" BY <1>5 DEF CookiePolicy
<1>. QED BY <1>1, <1>2, <1>3, <1>4, <1>5

LEMMA NothingLies ==
  /\ NoCookies \in Jars /\ NoCookie \in CkMaybe
  /\ \A p \in Partitions : NoCookies[p] = NoCookie
  /\ \A policy, p : MayLie(policy, p, NoCookie) /\ MayGo(policy, p, NoCookie)
<1>1. \A p \in Partitions : NoCookies[p] = NoCookie BY DEF NoCookies
<1>2. NoCookies \in Jars BY DEF NoCookies, Jars
<1>. QED BY <1>1, <1>2 DEF CkMaybe, MayLie, MayGo

LEMMA JarsAre ==
  /\ \A jar \in Jars, p \in Partitions : jar[p] \in CkMaybe
  /\ \A jar, other \in Jars : (\A p \in Partitions : jar[p] = other[p]) => jar = other
  BY DEF Jars, CkMaybe

(* A request that has not begun, or is over, has nothing.                   *)
LEMMA NewIsPlaced ==
  ASSUME NEW policy, NEW r, r = NewCkRequest \/ r = [NewCkRequest EXCEPT !.pc = "over"]
  PROVE  r \in CkRecord /\ InPlace(policy, r) /\ Logged(r) /\ ~Going(r)
<1>1. NoCookies \in Jars /\ NoCookie \in CkMaybe BY NothingLies
<1>2. Home \in CkSites /\ "ordinary" \in Partitions BY CkAssumption DEF Partitions
<1>3. PICK none : none = NoCookies OBVIOUS
<1>4. PICK first : first = [jar |-> none, kept |-> none] OBVIOUS
<1>5. PICK nobody : nobody = NoCookie OBVIOUS
<1>6. PICK log : log = <<>> OBVIOUS
<1>7. first \in [jar: Jars, kept: Jars] /\ none \in Jars /\ nobody \in CkMaybe
  BY <1>1, <1>3, <1>4, <1>5
<1>8. log \in Seq(CkChange) /\ Len(log) = 0 BY <1>6
<1>9. PICK pc \in {"idle", "over"} :
        r = [pc |-> pc, from |-> Home, kind |-> "nav", matched |-> none, sent |-> {},
             into |-> "ordinary", gets |-> nobody, life |-> "kept", log |-> log,
             alone |-> TRUE, first |-> first]
  BY <1>3, <1>4, <1>5, <1>6 DEF NewCkRequest
<1>10. r \in CkRecord BY <1>2, <1>7, <1>8, <1>9 DEF CkRecord
<1>11. /\ r.pc = pc /\ r.matched = none /\ r.sent = {} /\ r.into = "ordinary"
       /\ r.gets = nobody /\ r.log = log
  BY <1>9
<1>12. InPlace(policy, r) BY <1>3, <1>5, <1>8, <1>11, NothingLies DEF InPlace
<1>. QED BY <1>9, <1>10, <1>11, <1>12 DEF Logged, Going

LEMMA CkInvInit == CkInit => CkInv
<1>. SUFFICES ASSUME CkInit PROVE CkInv OBVIOUS
<1>1. PICK r : r = NewCkRequest OBVIOUS
<1>2. r \in CkRecord /\ InPlace(CookiePolicy, r) /\ Logged(r) /\ ~Going(r)
  BY <1>1, NewIsPlaced
<1>3. ckReq = [q \in CkRequests |-> r] BY <1>1 DEF CkInit
<1>4. \A q \in CkRequests : Retraces(ckReq[q], ckJar, ckKept) BY <1>2, <1>3 DEF Retraces
<1>. QED BY <1>2, <1>3, <1>4, NothingLies DEF CkInit, CkInv

(* One request moves, and perhaps the jars: the others were not alone.      *)
LEMMA CkMoves ==
  ASSUME CkInv, NEW q \in CkRequests, Going(ckReq[q]), ckFamily' = ckFamily,
         ckReq' \in [CkRequests -> CkRecord],
         \A o \in CkRequests : o # q => ckReq'[o] = ckReq[o],
         ckJar' \in Jars, ckKept' \in Jars,
         \A p \in Partitions :
           MayLie(CookiePolicy, p, ckJar'[p]) /\ MayLie(CookiePolicy, p, ckKept'[p]),
         InPlace(CookiePolicy, ckReq'[q]), Logged(ckReq'[q]),
         Retraces(ckReq'[q], ckJar', ckKept'),
         Going(ckReq'[q]) => (ckReq'[q].alone => ckReq[q].alone)
  PROVE  CkInv'
<1>1. CookiePolicy' = CookiePolicy BY DEF CookiePolicy
<1>2. ASSUME NEW o \in CkRequests
      PROVE  /\ InPlace(CookiePolicy, ckReq'[o]) /\ Logged(ckReq'[o])
             /\ Retraces(ckReq'[o], ckJar', ckKept')
  <2>1. CASE o = q BY <2>1
  <2>2. CASE o # q
    <3>1. ckReq'[o] = ckReq[o] BY <2>2
    <3>2. ~(Going(ckReq[o]) /\ ckReq[o].alone) BY <2>2 DEF CkInv
    <3>3. Retraces(ckReq'[o], ckJar', ckKept') BY <3>1, <3>2 DEF Retraces
    <3>. QED BY <3>1, <3>3 DEF CkInv
  <2>. QED BY <2>1, <2>2
<1>3. ASSUME NEW s \in CkRequests, NEW o \in CkRequests,
             s # o, Going(ckReq'[s]), ckReq'[s].alone
      PROVE  ~Going(ckReq'[o])
  <2>1. CASE s = q
    <3>1. ckReq[q].alone /\ ckReq'[o] = ckReq[o] BY <1>3, <2>1
    <3>. QED BY <1>3, <2>1, <3>1 DEF CkInv
  <2>2. CASE s # q
    <3>1. Going(ckReq[s]) /\ ckReq[s].alone BY <1>3, <2>2
    <3>. QED BY <2>2, <3>1 DEF CkInv
  <2>. QED BY <2>1, <2>2
<1>4. /\ ckFamily' \in CkFamilies /\ ckJar' \in Jars /\ ckKept' \in Jars
      /\ ckReq' \in [CkRequests -> CkRecord]
  BY DEF CkInv
<1>5. \A p \in Partitions :
        MayLie(CookiePolicy', p, ckJar'[p]) /\ MayLie(CookiePolicy', p, ckKept'[p])
  BY <1>1
<1>6. \A o \in CkRequests :
        /\ InPlace(CookiePolicy', ckReq'[o]) /\ Logged(ckReq'[o])
        /\ Retraces(ckReq'[o], ckJar', ckKept')
  BY <1>1, <1>2
<1>. QED BY <1>3, <1>4, <1>5, <1>6 DEF CkInv

(* What a request does before it reads its answer leaves its log alone.     *)
LEMMA KeepsTrail ==
  ASSUME NEW r, NEW s, NEW jar, NEW kept, Going(r), Retraces(r, jar, kept),
         s.log = r.log, s.first = r.first, s.alone = r.alone,
         r.pc # "record", s.pc # "forget"
  PROVE  Retraces(s, jar, kept)
<1>. SUFFICES ASSUME Going(s), s.alone, s.first.jar = s.first.kept
              PROVE  /\ LeadsBack(s.log, s.first.kept)
                     /\ Untouched(s, s.first.kept, jar, kept)
  BY DEF Retraces
<1>1. LeadsBack(r.log, r.first.kept) /\ Untouched(r, r.first.kept, jar, kept) BY DEF Retraces
<1>2. Untouched(s, s.first.kept, jar, kept) BY <1>1 DEF Untouched
<1>. QED BY <1>1, <1>2

LEMMA OneIs ==
  ASSUME CkInv, NEW q \in CkRequests
  PROVE  /\ ckReq[q] \in CkRecord /\ ckReq \in [CkRequests -> CkRecord]
         /\ InPlace(CookiePolicy, ckReq[q]) /\ Logged(ckReq[q])
         /\ Retraces(ckReq[q], ckJar, ckKept) /\ ckJar \in Jars /\ ckKept \in Jars
         /\ TopLevel(q) = TopOf(ckReq[q]) /\ TopLevel(q) \in CkSites /\ TopLevel(q) \in Partitions
         /\ TopLevel(q) # "ordinary"
<1>1. ckReq[q] \in CkRecord BY DEF CkInv
<1>2. TopLevel(q) = TopOf(ckReq[q]) BY DEF TopLevel, TopOf, Navigates
<1>3. TopLevel(q) \in CkSites BY <1>1, CkAssumption DEF TopLevel, CkRecord
<1>4. TopLevel(q) \in Partitions /\ TopLevel(q) # "ordinary"
  BY <1>3, CkAssumption DEF Partitions
<1>. QED BY <1>1, <1>2, <1>3, <1>4 DEF CkInv

(* One request moves and leaves the jars, and its log, alone.               *)
LEMMA CkStays ==
  ASSUME CkInv, NEW q \in CkRequests, Going(ckReq[q]), UNCHANGED <<ckFamily, ckJar, ckKept>>,
         ckReq' \in [CkRequests -> CkRecord],
         \A o \in CkRequests : o # q => ckReq'[o] = ckReq[o],
         ckReq'[q].log = ckReq[q].log, ckReq'[q].first = ckReq[q].first,
         ckReq'[q].alone = ckReq[q].alone,
         ckReq[q].pc # "record", ckReq'[q].pc \notin {"forget", "undone"},
         InPlace(CookiePolicy, ckReq'[q])
  PROVE  CkInv'
<1>1. Retraces(ckReq'[q], ckJar, ckKept)
  <2>1. Retraces(ckReq[q], ckJar, ckKept) BY OneIs
  <2>. QED BY <2>1, KeepsTrail
<1>2. Logged(ckReq'[q]) BY DEF Logged
<1>3. /\ ckJar' \in Jars /\ ckKept' \in Jars
      /\ \A p \in Partitions :
           MayLie(CookiePolicy, p, ckJar'[p]) /\ MayLie(CookiePolicy, p, ckKept'[p])
      /\ Retraces(ckReq'[q], ckJar', ckKept')
  BY <1>1 DEF CkInv
<1>. QED BY <1>2, <1>3, CkMoves

LEMMA MatchKeeps == ASSUME CkInv, NEW q \in CkRequests, JarsMatch(q) PROVE CkInv'
<1>. DEFINE open == {"ordinary"} \ (IF ThirdParty(q) /\ ~CookiePolicy.third THEN {"ordinary"} ELSE {})
            own == IF CookiePolicy.parts = "none" THEN {} ELSE {TopLevel(q)}
<1>1. PICK m : m = [p \in Partitions |-> IF Credentialed(q) /\ p \in open \cup own THEN ckJar[p]
                                         ELSE NoCookie]
  OBVIOUS
<1>2. /\ ckReq[q].pc = "ask" /\ UNCHANGED <<ckFamily, ckJar, ckKept>>
      /\ ckReq' = [ckReq EXCEPT ![q].pc = "choose", ![q].matched = m]
  BY <1>1 DEF JarsMatch
<1>3. /\ ckReq[q] \in CkRecord /\ ckReq \in [CkRequests -> CkRecord]
      /\ InPlace(CookiePolicy, ckReq[q]) /\ ckJar \in Jars
      /\ TopLevel(q) = TopOf(ckReq[q]) /\ TopLevel(q) \in CkSites /\ TopLevel(q) # "ordinary"
  BY OneIs
<1>4. m \in Jars
  <2>1. \A p \in Partitions : ckJar[p] \in CkMaybe /\ NoCookie \in CkMaybe
    BY <1>3, JarsAre, NothingLies
  <2>. QED BY <1>1, <2>1 DEF Jars, CkMaybe
<1>5. ckReq' \in [CkRequests -> CkRecord] BY <1>2, <1>3, <1>4 DEF CkRecord
<1>6. /\ ckReq'[q].pc = "choose" /\ ckReq'[q].matched = m /\ ckReq'[q].log = ckReq[q].log
      /\ ckReq'[q].first = ckReq[q].first /\ ckReq'[q].alone = ckReq[q].alone
      /\ ckReq'[q].into = ckReq[q].into /\ ckReq'[q].gets = ckReq[q].gets
      /\ ckReq'[q].sent = ckReq[q].sent /\ ckReq'[q].from = ckReq[q].from
      /\ ckReq'[q].kind = ckReq[q].kind
  BY <1>2, <1>3 DEF CkRecord
<1>7. \A o \in CkRequests : o # q => ckReq'[o] = ckReq[o] BY <1>2, <1>3
<1>8. TopOf(ckReq'[q]) = TopOf(ckReq[q]) BY <1>6 DEF TopOf
<1>9. ASSUME NEW p \in Partitions PROVE MayGo(CookiePolicy, TopOf(ckReq[q]), m[p])
  <2>1. CASE m[p] = NoCookie BY <2>1 DEF MayGo
  <2>2. CASE m[p] # NoCookie
    <3>1. m[p] = ckJar[p] /\ p \in open \cup own BY <1>1, <2>2
    <3>2. MayLie(CookiePolicy, p, m[p]) BY <3>1 DEF CkInv
    <3>3. CASE p = TopLevel(q) BY <1>3, <2>2, <3>2, <3>3 DEF MayLie, MayGo
    <3>4. CASE p # TopLevel(q)
      <4>1. p = "ordinary" /\ ~(ThirdParty(q) /\ ~CookiePolicy.third) BY <3>1, <3>4
      <4>2. m[p] \in Cookie
        BY <1>3, <2>2, <3>1, JarsAre DEF CkMaybe
      <4>3. m[p].top # "ordinary" BY <4>2, CkAssumption DEF Cookie
      <4>4. ~CookiePolicy.third => TopLevel(q) = Home BY <4>1 DEF ThirdParty
      <4>. QED BY <1>3, <2>2, <3>2, <4>1, <4>3, <4>4 DEF MayLie, MayGo
    <3>. QED BY <3>3, <3>4
  <2>. QED BY <2>1, <2>2
<1>10. InPlace(CookiePolicy, ckReq'[q]) BY <1>3, <1>6, <1>8, <1>9 DEF InPlace
<1>. QED
  <2>1. Going(ckReq[q]) BY <1>2 DEF Going
  <2>. QED BY <1>2, <1>5, <1>6, <1>7, <1>10, <2>1, CkStays

LEMMA ChoiceKeeps == ASSUME CkInv, NEW q \in CkRequests, ChoosesCookies(q) PROVE CkInv'
<1>1. PICK goes \in SUBSET ({ckReq[q].matched[p] : p \in Partitions} \ {NoCookie}) :
        ckReq' = [ckReq EXCEPT ![q].pc = "answer", ![q].matched = NoCookies, ![q].sent = goes]
  BY DEF ChoosesCookies
<1>2. ckReq[q].pc = "choose" /\ UNCHANGED <<ckFamily, ckJar, ckKept>> BY DEF ChoosesCookies
<1>3. /\ ckReq[q] \in CkRecord /\ ckReq \in [CkRequests -> CkRecord]
      /\ InPlace(CookiePolicy, ckReq[q])
  BY OneIs
<1>4. PICK none \in Jars : none = NoCookies BY NothingLies
<1>5. goes \in SUBSET CkMaybe
  <2>1. ckReq[q].matched \in Jars BY <1>3 DEF CkRecord
  <2>2. \A p \in Partitions : ckReq[q].matched[p] \in CkMaybe BY <2>1, JarsAre
  <2>. QED BY <2>2
<1>6. ckReq' = [ckReq EXCEPT ![q].pc = "answer", ![q].matched = none, ![q].sent = goes]
  BY <1>1, <1>4
<1>7. ckReq' \in [CkRequests -> CkRecord] BY <1>3, <1>5, <1>6 DEF CkRecord
<1>8. /\ ckReq'[q].pc = "answer" /\ ckReq'[q].matched = none /\ ckReq'[q].log = ckReq[q].log
      /\ ckReq'[q].first = ckReq[q].first /\ ckReq'[q].alone = ckReq[q].alone
      /\ ckReq'[q].into = ckReq[q].into /\ ckReq'[q].gets = ckReq[q].gets
      /\ ckReq'[q].sent = goes /\ ckReq'[q].from = ckReq[q].from
      /\ ckReq'[q].kind = ckReq[q].kind
  BY <1>3, <1>6 DEF CkRecord
<1>9. \A o \in CkRequests : o # q => ckReq'[o] = ckReq[o] BY <1>3, <1>6
<1>10. TopOf(ckReq'[q]) = TopOf(ckReq[q]) BY <1>8 DEF TopOf
<1>11. \A p \in Partitions : MayGo(CookiePolicy, TopOf(ckReq[q]), none[p])
  BY <1>4, NothingLies
<1>12. \A c \in goes : c # NoCookie /\ MayGo(CookiePolicy, TopOf(ckReq[q]), c)
  BY <1>3 DEF InPlace
<1>13. InPlace(CookiePolicy, ckReq'[q]) BY <1>3, <1>8, <1>10, <1>11, <1>12 DEF InPlace
<1>. QED
  <2>1. Going(ckReq[q]) BY <1>2 DEF Going
  <2>. QED BY <1>2, <1>7, <1>8, <1>9, <1>13, <2>1, CkStays

LEMMA PlainKeeps == ASSUME CkInv, NEW q \in CkRequests, AnswersPlainly(q) PROVE CkInv'
<1>1. /\ ckReq[q].pc = "answer" /\ UNCHANGED <<ckFamily, ckJar, ckKept>>
      /\ ckReq' = [ckReq EXCEPT ![q].pc = "read", ![q].sent = {}]
  BY DEF AnswersPlainly
<1>2. /\ ckReq[q] \in CkRecord /\ ckReq \in [CkRequests -> CkRecord]
      /\ InPlace(CookiePolicy, ckReq[q])
  BY OneIs
<1>3. ckReq' \in [CkRequests -> CkRecord] BY <1>1, <1>2 DEF CkRecord
<1>4. /\ ckReq'[q].pc = "read" /\ ckReq'[q].sent = {} /\ ckReq'[q].log = ckReq[q].log
      /\ ckReq'[q].first = ckReq[q].first /\ ckReq'[q].alone = ckReq[q].alone
      /\ ckReq'[q].into = ckReq[q].into /\ ckReq'[q].gets = ckReq[q].gets
      /\ ckReq'[q].matched = ckReq[q].matched /\ ckReq'[q].from = ckReq[q].from
      /\ ckReq'[q].kind = ckReq[q].kind
  BY <1>1, <1>2 DEF CkRecord
<1>5. \A o \in CkRequests : o # q => ckReq'[o] = ckReq[o] BY <1>1, <1>2
<1>6. InPlace(CookiePolicy, ckReq'[q]) BY <1>2, <1>4 DEF InPlace, TopOf
<1>. QED
  <2>1. Going(ckReq[q]) BY <1>1 DEF Going
  <2>. QED BY <1>1, <1>3, <1>4, <1>5, <1>6, <2>1, CkStays

(* Where a cookie of the response is kept is where it may lie.              *)
LEMMA PartitionIsRight ==
  ASSUME CkInv, NEW q \in CkRequests, NEW parted \in BOOLEAN, PartitionOf(q, parted) # "nowhere",
         NEW c, c = [by |-> q, parted |-> parted, top |-> TopLevel(q)]
  PROVE  /\ c \in CkMaybe /\ PartitionOf(q, parted) \in Partitions
         /\ MayLie(CookiePolicy, PartitionOf(q, parted), c)
<1>1. TopLevel(q) \in CkSites /\ TopLevel(q) \in Partitions BY OneIs
<1>2. "ordinary" \in Partitions BY DEF Partitions
<1>3. c \in CkMaybe BY <1>1 DEF CkMaybe, Cookie
<1>4. c.parted = parted /\ c.top = TopLevel(q) OBVIOUS
<1>5. PICK policy : policy = CookiePolicy OBVIOUS
<1>6. /\ policy.third \in BOOLEAN /\ policy.judges \in BOOLEAN
      /\ policy.parts \in {"partitioned", "third-party", "none"}
      /\ ~policy.judges => (policy.third /\ policy.parts = "none")
  BY <1>5, PolicyIs
<1>7. CASE ~policy.judges \/ (policy.third /\ policy.parts = "none")
  <2>1. PartitionOf(q, parted) = "ordinary"
    <3>1. ~CookiePolicy.judges \/ (CookiePolicy.third /\ CookiePolicy.parts = "none")
      BY <1>5, <1>7
    <3>. QED BY <3>1 DEF PartitionOf
  <2>2. policy.third /\ policy.parts = "none" BY <1>6, <1>7
  <2>. QED BY <1>2, <1>3, <1>5, <2>1, <2>2 DEF MayLie
<1>8. CASE /\ ~(~policy.judges \/ (policy.third /\ policy.parts = "none"))
           /\ \/ policy.parts # "none" /\ parted
              \/ ThirdParty(q) /\ policy.parts = "third-party"
  <2>1. PartitionOf(q, parted) = TopLevel(q) BY <1>5, <1>8 DEF PartitionOf
  <2>. QED BY <1>1, <1>3, <1>4, <2>1 DEF MayLie
<1>9. CASE /\ ~(~policy.judges \/ (policy.third /\ policy.parts = "none"))
           /\ ~(\/ policy.parts # "none" /\ parted
                \/ ThirdParty(q) /\ policy.parts = "third-party")
  <2>1. /\ PartitionOf(q, parted) = "ordinary"
        /\ ~(ThirdParty(q) /\ ~policy.third)
    BY <1>5, <1>9 DEF PartitionOf
  <2>2. ~policy.third => TopLevel(q) = Home BY <2>1 DEF ThirdParty
  <2>. QED BY <1>2, <1>3, <1>4, <1>5, <1>9, <2>1, <2>2 DEF MayLie
<1>. QED BY <1>7, <1>8, <1>9

LEMMA AnswerKeepsCookies == ASSUME CkInv, NEW q \in CkRequests, AnswersCookie(q) PROVE CkInv'
<1>1. PICK parted \in BOOLEAN, life \in {"kept", "gone", "both"} :
        /\ PartitionOf(q, parted) # "nowhere"
        /\ ckReq' = [ckReq EXCEPT ![q].pc = "store", ![q].sent = {}, ![q].life = life,
                       ![q].into = PartitionOf(q, parted),
                       ![q].gets = [by |-> q, parted |-> parted, top |-> TopLevel(q)]]
  BY DEF AnswersCookie
<1>2. ckReq[q].pc = "answer" /\ UNCHANGED <<ckFamily, ckJar, ckKept>> BY DEF AnswersCookie
<1>3. /\ ckReq[q] \in CkRecord /\ ckReq \in [CkRequests -> CkRecord]
      /\ InPlace(CookiePolicy, ckReq[q])
  BY OneIs
<1>4. PICK c : c = [by |-> q, parted |-> parted, top |-> TopLevel(q)] OBVIOUS
<1>5. PICK into : into = PartitionOf(q, parted) OBVIOUS
<1>6. c \in CkMaybe /\ into \in Partitions /\ MayLie(CookiePolicy, into, c)
  BY <1>1, <1>4, <1>5, PartitionIsRight
<1>7. ckReq' = [ckReq EXCEPT ![q].pc = "store", ![q].sent = {}, ![q].life = life,
                  ![q].into = into, ![q].gets = c]
  BY <1>1, <1>4, <1>5
<1>8. ckReq' \in [CkRequests -> CkRecord] BY <1>3, <1>6, <1>7 DEF CkRecord
<1>9. /\ ckReq'[q].pc = "store" /\ ckReq'[q].sent = {} /\ ckReq'[q].log = ckReq[q].log
      /\ ckReq'[q].first = ckReq[q].first /\ ckReq'[q].alone = ckReq[q].alone
      /\ ckReq'[q].into = into /\ ckReq'[q].gets = c
      /\ ckReq'[q].matched = ckReq[q].matched /\ ckReq'[q].from = ckReq[q].from
      /\ ckReq'[q].kind = ckReq[q].kind
  BY <1>3, <1>7 DEF CkRecord
<1>10. \A o \in CkRequests : o # q => ckReq'[o] = ckReq[o] BY <1>3, <1>7
<1>11. InPlace(CookiePolicy, ckReq'[q]) BY <1>3, <1>6, <1>9 DEF InPlace, TopOf
<1>. QED
  <2>1. Going(ckReq[q]) BY <1>2 DEF Going
  <2>. QED BY <1>2, <1>8, <1>9, <1>10, <1>11, <2>1, CkStays

LEMMA StoreKeepsCookies == ASSUME CkInv, NEW q \in CkRequests, StoresInJar(q) PROVE CkInv'
<1>1. PICK c : c = IF ckReq[q].life = "gone" THEN NoCookie ELSE ckReq[q].gets OBVIOUS
<1>2. PICK p : p = ckReq[q].into OBVIOUS
<1>3. /\ ckReq[q].pc = "store" /\ ckFamily' = ckFamily /\ ckKept' = ckKept
      /\ ckJar' = [ckJar EXCEPT ![p] = c] /\ ckReq' = [ckReq EXCEPT ![q].pc = "record"]
  BY <1>1, <1>2 DEF StoresInJar
<1>4. /\ ckReq[q] \in CkRecord /\ ckReq \in [CkRequests -> CkRecord]
      /\ InPlace(CookiePolicy, ckReq[q]) /\ Retraces(ckReq[q], ckJar, ckKept)
      /\ ckJar \in Jars /\ ckKept \in Jars
  BY OneIs
<1>5. c \in CkMaybe /\ p \in Partitions BY <1>1, <1>2, <1>4, NothingLies DEF CkRecord
<1>6. MayLie(CookiePolicy, p, c) BY <1>1, <1>2, <1>4, NothingLies DEF InPlace
<1>7. /\ ckJar' \in Jars
      /\ \A o \in Partitions : ckJar'[o] = IF o = p THEN c ELSE ckJar[o]
  <2>1. ckJar \in Jars /\ ckJar' = [ckJar EXCEPT ![p] = c] BY <1>3, <1>4
  <2>2. p \in Partitions /\ c \in CkMaybe BY <1>5
  <2>. QED BY <2>1, <2>2 DEF Jars, CkMaybe
<1>8. \A o \in Partitions : MayLie(CookiePolicy, o, ckJar'[o]) /\ MayLie(CookiePolicy, o, ckKept'[o])
  BY <1>3, <1>6, <1>7 DEF CkInv
<1>9. ckReq' \in [CkRequests -> CkRecord] BY <1>3, <1>4 DEF CkRecord
<1>10. /\ ckReq'[q].pc = "record" /\ ckReq'[q].sent = ckReq[q].sent
       /\ ckReq'[q].log = ckReq[q].log
       /\ ckReq'[q].first = ckReq[q].first /\ ckReq'[q].alone = ckReq[q].alone
       /\ ckReq'[q].into = p /\ ckReq'[q].gets = ckReq[q].gets
       /\ ckReq'[q].matched = ckReq[q].matched /\ ckReq'[q].from = ckReq[q].from
       /\ ckReq'[q].kind = ckReq[q].kind
  BY <1>2, <1>3, <1>4 DEF CkRecord
<1>11. \A o \in CkRequests : o # q => ckReq'[o] = ckReq[o] BY <1>3, <1>4
<1>12. InPlace(CookiePolicy, ckReq'[q]) BY <1>2, <1>4, <1>10 DEF InPlace, TopOf
<1>13. Logged(ckReq'[q]) BY <1>10 DEF Logged
<1>14. Going(ckReq[q]) BY <1>3 DEF Going
<1>15. Retraces(ckReq'[q], ckJar', ckKept')
  <2>1. SUFFICES ASSUME ckReq[q].alone, ckReq[q].first.jar = ckReq[q].first.kept
                 PROVE  /\ LeadsBack(ckReq[q].log, ckReq[q].first.kept)
                        /\ Untouched(ckReq'[q], ckReq[q].first.kept, ckJar', ckKept')
    BY <1>10 DEF Retraces
  <2>2. /\ LeadsBack(ckReq[q].log, ckReq[q].first.kept)
        /\ Untouched(ckReq[q], ckReq[q].first.kept, ckJar, ckKept)
    BY <1>4, <1>14, <2>1 DEF Retraces
  <2>3. Untouched(ckReq'[q], ckReq[q].first.kept, ckJar', ckKept')
    BY <1>3, <1>7, <1>10, <2>2 DEF Untouched
  <2>. QED BY <2>2, <2>3
<1>. QED BY <1>3, <1>4, <1>7, <1>8, <1>9, <1>10, <1>11, <1>12, <1>13, <1>14, <1>15, CkMoves

(* A change is logged with what was there before it.                        *)
LEMMA LogsOn ==
  ASSUME NEW log \in Seq(CkChange), NEW e \in CkChange, NEW more, more = Append(log, e)
  PROVE  /\ more \in Seq(CkChange) /\ more # <<>> /\ Len(more) = Len(log) + 1
         /\ \A i \in 1..Len(log) : more[i] = log[i] /\ i \in 1..Len(more)
         /\ more[Len(more)] = e /\ Len(log) \in Nat
         /\ \A i \in 1..Len(more) : i = Len(more) \/ i \in 1..Len(log)
         /\ \A i \in 1..Len(more) : more[i] = e \/ (i \in 1..Len(log) /\ more[i] = log[i])
<1>1. /\ more \in Seq(CkChange) /\ more # <<>> /\ Len(more) = Len(log) + 1 /\ Len(log) \in Nat
      /\ \A i \in 1..Len(log) : more[i] = log[i]
      /\ more[Len(log) + 1] = e
  OBVIOUS
<1>2. \A i \in 1..Len(log) : i \in 1..Len(more) BY <1>1
<1>3. \A i \in 1..Len(more) : i = Len(more) \/ i \in 1..Len(log) BY <1>1
<1>4. Len(more) \in 1..Len(more) /\ more[Len(more)] = e BY <1>1
<1>5. \A i \in 1..Len(more) : more[i] = e \/ (i \in 1..Len(log) /\ more[i] = log[i])
  BY <1>1, <1>3, <1>4
<1>. QED BY <1>1, <1>2, <1>3, <1>4, <1>5

LEMMA TouchedOn ==
  ASSUME NEW log \in Seq(CkChange), NEW e \in CkChange, NEW more, more = Append(log, e), NEW p
  PROVE  Touched(more, p) <=> (Touched(log, p) \/ e.into = p)
<1>1. /\ \A i \in 1..Len(log) : more[i] = log[i] /\ i \in 1..Len(more)
      /\ \A i \in 1..Len(more) : more[i] = e \/ (i \in 1..Len(log) /\ more[i] = log[i])
  BY LogsOn
<1>2. Len(more) \in 1..Len(more) /\ more[Len(more)] = e OBVIOUS
<1>. QED BY <1>1, <1>2 DEF Touched

LEMMA LeadsOn ==
  ASSUME NEW log \in Seq(CkChange), NEW e \in CkChange, NEW was, LeadsBack(log, was),
         Touched(log, e.into) \/ e.before = was[e.into]
  PROVE  LeadsBack(Append(log, e), was)
<1>1. PICK more : more = Append(log, e) OBVIOUS
<1>2. SUFFICES ASSUME NEW i \in 1..Len(more), Earliest(more, i)
               PROVE  more[i].before = was[more[i].into]
  BY <1>1 DEF LeadsBack
<1>3. CASE i \in 1..Len(log)
  <2>1. more[i] = log[i] /\ \A j \in 1..(i - 1) : more[j] = log[j]
    <3>1. \A j \in 1..(i - 1) : j \in 1..Len(log) BY <1>1, <1>3, LogsOn
    <3>. QED BY <1>1, <1>3, <3>1, LogsOn
  <2>2. Earliest(log, i) BY <1>2, <2>1 DEF Earliest
  <2>. QED BY <1>3, <2>1, <2>2 DEF LeadsBack
<1>4. CASE i = Len(more)
  <2>1. more[i] = e /\ i - 1 = Len(log) BY <1>1, <1>4, LogsOn
  <2>2. ~Touched(log, e.into)
    <3>1. \A j \in 1..Len(log) : more[j] = log[j] BY <1>1, LogsOn
    <3>. QED BY <1>2, <2>1, <3>1 DEF Earliest, Touched
  <2>. QED BY <2>1, <2>2
<1>. QED BY <1>1, <1>3, <1>4, LogsOn

LEMMA RecordKeepsCookies == ASSUME CkInv, NEW q \in CkRequests, RecordsCookie(q) PROVE CkInv'
<1>1. PICK c : c = IF ckReq[q].life = "kept" THEN ckReq[q].gets ELSE NoCookie OBVIOUS
<1>2. PICK p : p = ckReq[q].into OBVIOUS
<1>3. PICK e : e = [into |-> p, before |-> ckKept[p]] OBVIOUS
<1>4. PICK more : more = Append(ckReq[q].log, e) OBVIOUS
<1>5. PICK nobody : nobody = NoCookie OBVIOUS
<1>6. /\ ckReq[q].pc = "record" /\ ckFamily' = ckFamily /\ ckJar' = ckJar
      /\ ckKept' = [ckKept EXCEPT ![p] = c]
  BY <1>1, <1>2 DEF RecordsCookie
<1>7. PICK next \in {"ask", "read"} :
        ckReq' = [ckReq EXCEPT ![q].pc = next, ![q].gets = nobody, ![q].log = more]
  BY <1>2, <1>3, <1>4, <1>5 DEF RecordsCookie
<1>8. /\ ckReq[q] \in CkRecord /\ ckReq \in [CkRequests -> CkRecord]
      /\ InPlace(CookiePolicy, ckReq[q]) /\ Retraces(ckReq[q], ckJar, ckKept)
      /\ ckJar \in Jars /\ ckKept \in Jars
  BY OneIs
<1>9. c \in CkMaybe /\ p \in Partitions /\ ckReq[q].log \in Seq(CkChange) /\ nobody \in CkMaybe
  BY <1>1, <1>2, <1>5, <1>8, NothingLies DEF CkRecord
<1>10. ckKept[p] \in CkMaybe BY <1>8, <1>9, JarsAre
<1>11. e \in CkChange /\ e.into = p /\ e.before = ckKept[p] BY <1>3, <1>9, <1>10 DEF CkChange
<1>12. MayLie(CookiePolicy, p, c) BY <1>1, <1>2, <1>8, NothingLies DEF InPlace
<1>13. MayLie(CookiePolicy, p, ckKept[p]) BY <1>9 DEF CkInv
<1>14. /\ ckKept' \in Jars
       /\ \A o \in Partitions : ckKept'[o] = IF o = p THEN c ELSE ckKept[o]
  <2>1. ckKept \in Jars /\ ckKept' = [ckKept EXCEPT ![p] = c] BY <1>6, <1>8
  <2>2. p \in Partitions /\ c \in CkMaybe BY <1>9
  <2>. QED BY <2>1, <2>2 DEF Jars, CkMaybe
<1>15. \A o \in Partitions : MayLie(CookiePolicy, o, ckJar'[o]) /\ MayLie(CookiePolicy, o, ckKept'[o])
  BY <1>6, <1>12, <1>14 DEF CkInv
<1>16. more \in Seq(CkChange) BY <1>4, <1>9, <1>11, LogsOn
<1>17. ckReq' \in [CkRequests -> CkRecord] BY <1>7, <1>8, <1>9, <1>16 DEF CkRecord
<1>18. /\ ckReq'[q].pc = next /\ ckReq'[q].sent = ckReq[q].sent /\ ckReq'[q].log = more
       /\ ckReq'[q].first = ckReq[q].first /\ ckReq'[q].alone = ckReq[q].alone
       /\ ckReq'[q].into = p /\ ckReq'[q].gets = nobody
       /\ ckReq'[q].matched = ckReq[q].matched /\ ckReq'[q].from = ckReq[q].from
       /\ ckReq'[q].kind = ckReq[q].kind
  BY <1>2, <1>7, <1>8 DEF CkRecord
<1>19. \A o \in CkRequests : o # q => ckReq'[o] = ckReq[o] BY <1>7, <1>8
<1>20. InPlace(CookiePolicy, ckReq'[q])
  <2>1. \A i \in 1..Len(more) : MayLie(CookiePolicy, more[i].into, more[i].before)
    <3>1. \A i \in 1..Len(ckReq[q].log) :
            MayLie(CookiePolicy, ckReq[q].log[i].into, ckReq[q].log[i].before)
      BY <1>8 DEF InPlace
    <3>2. PICK log \in Seq(CkChange) : log = ckReq[q].log BY <1>9
    <3>3. more = Append(log, e) BY <1>4, <3>2
    <3>4. \A i \in 1..Len(more) : more[i] = e \/ (i \in 1..Len(log) /\ more[i] = log[i])
      BY <1>11, <3>3, LogsOn
    <3>. QED BY <1>11, <1>13, <3>1, <3>2, <3>4
  <2>. QED BY <1>5, <1>8, <1>18, <2>1, NothingLies DEF InPlace, TopOf
<1>21. Logged(ckReq'[q]) BY <1>7, <1>18 DEF Logged
<1>22. Going(ckReq[q]) BY <1>6 DEF Going
<1>23. Retraces(ckReq'[q], ckJar', ckKept')
  <2>. DEFINE was == ckReq[q].first.kept
  <2>1. SUFFICES ASSUME ckReq[q].alone, ckReq[q].first.jar = was
                 PROVE  LeadsBack(more, was) /\ Untouched(ckReq'[q], was, ckJar', ckKept')
    BY <1>7, <1>18 DEF Retraces
  <2>2. LeadsBack(ckReq[q].log, was) /\ Untouched(ckReq[q], was, ckJar, ckKept)
    BY <1>8, <1>22, <2>1 DEF Retraces
  <2>. HIDE DEF was
  <2>3. Touched(ckReq[q].log, p) \/ e.before = was[p] BY <1>9, <1>11, <2>2 DEF Untouched
  <2>4. LeadsBack(more, was) BY <1>4, <1>9, <1>11, <2>2, <2>3, LeadsOn
  <2>5. \A o : Touched(more, o) <=> (Touched(ckReq[q].log, o) \/ o = p)
    <3>1. PICK log \in Seq(CkChange) : log = ckReq[q].log BY <1>9
    <3>2. more = Append(log, e) BY <1>4, <3>1
    <3>3. ASSUME NEW o PROVE Touched(more, o) <=> (Touched(log, o) \/ e.into = o)
      BY <1>11, <3>2, TouchedOn
    <3>. QED BY <1>11, <3>1, <3>3
  <2>6. Untouched(ckReq'[q], was, ckJar', ckKept')
    BY <1>2, <1>6, <1>14, <1>18, <2>2, <2>5 DEF Untouched
  <2>. QED BY <2>4, <2>6
<1>. QED BY <1>6, <1>14, <1>15, <1>8, <1>17, <1>18, <1>19, <1>20, <1>21, <1>22, <1>23, CkMoves

(* A request is over and forgets everything.                                *)
LEMMA LeavesCookies ==
  ASSUME CkInv, NEW q \in CkRequests, Going(ckReq[q]), UNCHANGED <<ckFamily, ckJar, ckKept>>,
         ckReq' = [ckReq EXCEPT ![q] = [NewCkRequest EXCEPT !.pc = "over"]]
  PROVE  CkInv'
<1>1. PICK r : r = [NewCkRequest EXCEPT !.pc = "over"] OBVIOUS
<1>2. r \in CkRecord /\ InPlace(CookiePolicy, r) /\ Logged(r) /\ ~Going(r) BY <1>1, NewIsPlaced
<1>3. ckReq' = [ckReq EXCEPT ![q] = r] /\ ckReq \in [CkRequests -> CkRecord] BY <1>1, OneIs
<1>4. /\ ckReq' \in [CkRequests -> CkRecord] /\ ckReq'[q] = r
      /\ \A o \in CkRequests : o # q => ckReq'[o] = ckReq[o]
  BY <1>2, <1>3
<1>5. Retraces(ckReq'[q], ckJar', ckKept') BY <1>2, <1>4 DEF Retraces
<1>6. /\ ckJar' \in Jars /\ ckKept' \in Jars
      /\ \A p \in Partitions :
           MayLie(CookiePolicy, p, ckJar'[p]) /\ MayLie(CookiePolicy, p, ckKept'[p])
  BY DEF CkInv
<1>. QED BY <1>2, <1>4, <1>5, <1>6, CkMoves

(* A request whose place alone changes.                                     *)
LEMMA CkSteps ==
  ASSUME CkInv, NEW q \in CkRequests, Going(ckReq[q]), UNCHANGED <<ckFamily, ckJar, ckKept>>,
         NEW pc \in {"undo", "undone"}, ckReq' = [ckReq EXCEPT ![q].pc = pc],
         ckReq[q].pc # "record", pc = "undone" => ckReq[q].log = <<>>
  PROVE  CkInv'
<1>1. /\ ckReq[q] \in CkRecord /\ ckReq \in [CkRequests -> CkRecord]
      /\ InPlace(CookiePolicy, ckReq[q]) /\ Retraces(ckReq[q], ckJar, ckKept)
  BY OneIs
<1>2. ckReq' \in [CkRequests -> CkRecord] BY <1>1 DEF CkRecord
<1>3. /\ ckReq'[q].pc = pc /\ ckReq'[q].sent = ckReq[q].sent /\ ckReq'[q].log = ckReq[q].log
      /\ ckReq'[q].first = ckReq[q].first /\ ckReq'[q].alone = ckReq[q].alone
      /\ ckReq'[q].into = ckReq[q].into /\ ckReq'[q].gets = ckReq[q].gets
      /\ ckReq'[q].matched = ckReq[q].matched /\ ckReq'[q].from = ckReq[q].from
      /\ ckReq'[q].kind = ckReq[q].kind
  BY <1>1 DEF CkRecord
<1>4. \A o \in CkRequests : o # q => ckReq'[o] = ckReq[o] BY <1>1
<1>5. InPlace(CookiePolicy, ckReq'[q]) BY <1>1, <1>3 DEF InPlace, TopOf
<1>6. Logged(ckReq'[q]) BY <1>3 DEF Logged
<1>7. Retraces(ckReq'[q], ckJar, ckKept) BY <1>1, <1>3, KeepsTrail
<1>8. /\ ckJar' \in Jars /\ ckKept' \in Jars
      /\ \A p \in Partitions :
           MayLie(CookiePolicy, p, ckJar'[p]) /\ MayLie(CookiePolicy, p, ckKept'[p])
      /\ Retraces(ckReq'[q], ckJar', ckKept')
  BY <1>7 DEF CkInv
<1>. QED BY <1>2, <1>3, <1>4, <1>5, <1>6, <1>8, CkMoves

LEMMA OutcomeKeeps == ASSUME CkInv, NEW q \in CkRequests, Outcome(q) PROVE CkInv'
<1>1. /\ ckReq[q].pc = "read" /\ Going(ckReq[q]) /\ ckReq[q].pc # "record"
      /\ UNCHANGED <<ckFamily, ckJar, ckKept>>
  BY DEF Outcome, Going
<1>2. CASE ckReq' = [ckReq EXCEPT ![q].pc = "undo"] BY <1>1, <1>2, CkSteps
<1>3. CASE ckReq' = [ckReq EXCEPT ![q] = [NewCkRequest EXCEPT !.pc = "over"]]
  BY <1>1, <1>3, LeavesCookies
<1>. QED BY <1>2, <1>3 DEF Outcome

LEMMA UndoneKeeps == ASSUME CkInv, NEW q \in CkRequests, Undone(q) \/ Leaves(q) PROVE CkInv'
<1>1. CASE Undone(q)
  <2>1. /\ ckReq[q].pc = "undo" /\ Going(ckReq[q]) /\ ckReq[q].pc # "record"
        /\ UNCHANGED <<ckFamily, ckJar, ckKept>> /\ ckReq[q].log = <<>>
        /\ ckReq' = [ckReq EXCEPT ![q].pc = "undone"]
    BY <1>1 DEF Undone, Going
  <2>. QED BY <2>1, CkSteps
<1>2. CASE Leaves(q)
  <2>1. /\ Going(ckReq[q]) /\ UNCHANGED <<ckFamily, ckJar, ckKept>>
        /\ ckReq' = [ckReq EXCEPT ![q] = [NewCkRequest EXCEPT !.pc = "over"]]
    BY <1>2 DEF Leaves, Going
  <2>. QED BY <2>1, LeavesCookies
<1>. QED BY <1>1, <1>2

(* The last change goes first.                                              *)
LEMMA FrontIs ==
  ASSUME NEW log \in Seq(CkChange), log # <<>>, NEW rest, rest = Front(log),
         NEW e, e = Last(log)
  PROVE  /\ rest \in Seq(CkChange) /\ Len(log) \in 1..Len(log) /\ Len(rest) = Len(log) - 1
         /\ e = log[Len(log)] /\ e \in CkChange
         /\ \A i \in 1..Len(rest) : rest[i] = log[i] /\ i \in 1..Len(log)
         /\ \A i \in 1..Len(log) : i = Len(log) \/ i \in 1..Len(rest)
<1>1. Len(log) \in Nat /\ Len(log) >= 1 /\ Len(log) \in 1..Len(log) OBVIOUS
<1>2. e = log[Len(log)] BY DEF Last
<1>3. e \in CkChange BY <1>1, <1>2
<1>4. \A i \in 1..(Len(log) - 1) : i \in 1..Len(log) BY <1>1
<1>5. /\ rest \in Seq(CkChange) /\ Len(rest) = Len(log) - 1
      /\ \A i \in 1..Len(rest) : rest[i] = log[i]
  <2>1. rest = SubSeq(log, 1, Len(log) - 1) BY DEF Front
  <2>2. PICK n \in Int : n = Len(log) - 1 BY <1>1
  <2>3. \A i \in 1..n : log[i] \in CkChange BY <1>1, <2>2
  <2>4. /\ SubSeq(log, 1, n) \in Seq(CkChange)
        /\ Len(SubSeq(log, 1, n)) = IF 1 <= n THEN n - 1 + 1 ELSE 0
        /\ \A i \in 1..(n - 1 + 1) : SubSeq(log, 1, n)[i] = log[1 + i - 1]
    BY <2>3, SubSeqProperties
  <2>5. rest = SubSeq(log, 1, n) BY <2>1, <2>2
  <2>6. Len(rest) = n BY <1>1, <2>2, <2>4, <2>5
  <2>7. ASSUME NEW i \in 1..n PROVE rest[i] = log[i]
    <3>1. i \in 1..(n - 1 + 1) /\ 1 + i - 1 = i OBVIOUS
    <3>. QED BY <2>4, <2>5, <3>1
  <2>. QED BY <2>2, <2>4, <2>5, <2>6, <2>7
<1>6. \A i \in 1..Len(log) : i = Len(log) \/ i \in 1..Len(rest) BY <1>1, <1>5
<1>. QED BY <1>1, <1>2, <1>3, <1>4, <1>5, <1>6

LEMMA FrontLeads ==
  ASSUME NEW log \in Seq(CkChange), log # <<>>, NEW rest, rest = Front(log),
         NEW e, e = Last(log), NEW was, LeadsBack(log, was)
  PROVE  /\ LeadsBack(rest, was)
         /\ \A p : Touched(log, p) => (Touched(rest, p) \/ p = e.into)
         /\ Touched(rest, e.into) \/ e.before = was[e.into]
<1>1. /\ Len(log) \in 1..Len(log) /\ Len(rest) = Len(log) - 1 /\ e = log[Len(log)]
      /\ \A i \in 1..Len(rest) : rest[i] = log[i] /\ i \in 1..Len(log)
      /\ \A i \in 1..Len(log) : i = Len(log) \/ i \in 1..Len(rest)
  BY FrontIs
<1>2. ASSUME NEW i \in 1..Len(rest), Earliest(rest, i)
      PROVE  rest[i].before = was[rest[i].into]
  <2>1. \A j \in 1..(i - 1) : j \in 1..Len(rest) BY <1>1
  <2>2. Earliest(log, i) BY <1>1, <1>2, <2>1 DEF Earliest
  <2>. QED BY <1>1, <1>2, <2>2 DEF LeadsBack
<1>3. ASSUME NEW p, Touched(log, p) PROVE Touched(rest, p) \/ p = e.into
  BY <1>1, <1>3 DEF Touched
<1>4. ASSUME ~Touched(rest, e.into) PROVE e.before = was[e.into]
  <2>1. \A j \in 1..(Len(log) - 1) : log[j].into # e.into BY <1>1, <1>4 DEF Touched
  <2>2. Earliest(log, Len(log)) BY <1>1, <2>1 DEF Earliest
  <2>. QED BY <1>1, <2>2 DEF LeadsBack
<1>. QED BY <1>2, <1>3, <1>4 DEF LeadsBack

LEMMA UndoJarKeeps == ASSUME CkInv, NEW q \in CkRequests, UndoesInJar(q) PROVE CkInv'
<1>1. PICK e : e = Last(ckReq[q].log) OBVIOUS
<1>2. PICK p : p = e.into OBVIOUS
<1>3. PICK c : c = e.before OBVIOUS
<1>4. /\ ckReq[q].pc = "undo" /\ ckReq[q].log # <<>> /\ ckFamily' = ckFamily
      /\ ckKept' = ckKept /\ ckJar' = [ckJar EXCEPT ![p] = c]
      /\ ckReq' = [ckReq EXCEPT ![q].pc = "forget"]
  BY <1>1, <1>2, <1>3 DEF UndoesInJar, NextUndone
<1>5. /\ ckReq[q] \in CkRecord /\ ckReq \in [CkRequests -> CkRecord]
      /\ InPlace(CookiePolicy, ckReq[q]) /\ Retraces(ckReq[q], ckJar, ckKept)
      /\ ckJar \in Jars /\ ckKept \in Jars
  BY OneIs
<1>6. ckReq[q].log \in Seq(CkChange) BY <1>5 DEF CkRecord
<1>7. /\ e = ckReq[q].log[Len(ckReq[q].log)] /\ e \in CkChange
      /\ Len(ckReq[q].log) \in 1..Len(ckReq[q].log)
  <2>1. PICK rest : rest = Front(ckReq[q].log) OBVIOUS
  <2>. QED BY <1>1, <1>4, <1>6, <2>1, FrontIs
<1>8. p \in Partitions /\ c \in CkMaybe BY <1>2, <1>3, <1>7 DEF CkChange
<1>9. MayLie(CookiePolicy, p, c) BY <1>2, <1>3, <1>5, <1>7 DEF InPlace
<1>10. /\ ckJar' \in Jars
       /\ \A o \in Partitions : ckJar'[o] = IF o = p THEN c ELSE ckJar[o]
  <2>1. ckJar \in Jars /\ ckJar' = [ckJar EXCEPT ![p] = c] BY <1>4, <1>5
  <2>. QED BY <1>8, <2>1 DEF Jars, CkMaybe
<1>11. \A o \in Partitions : MayLie(CookiePolicy, o, ckJar'[o]) /\ MayLie(CookiePolicy, o, ckKept'[o])
  BY <1>4, <1>9, <1>10 DEF CkInv
<1>12. ckReq' \in [CkRequests -> CkRecord] BY <1>4, <1>5 DEF CkRecord
<1>13. /\ ckReq'[q].pc = "forget" /\ ckReq'[q].sent = ckReq[q].sent
       /\ ckReq'[q].log = ckReq[q].log
       /\ ckReq'[q].first = ckReq[q].first /\ ckReq'[q].alone = ckReq[q].alone
       /\ ckReq'[q].into = ckReq[q].into /\ ckReq'[q].gets = ckReq[q].gets
       /\ ckReq'[q].matched = ckReq[q].matched /\ ckReq'[q].from = ckReq[q].from
       /\ ckReq'[q].kind = ckReq[q].kind
  BY <1>4, <1>5 DEF CkRecord
<1>14. \A o \in CkRequests : o # q => ckReq'[o] = ckReq[o] BY <1>4, <1>5
<1>15. InPlace(CookiePolicy, ckReq'[q]) BY <1>5, <1>13 DEF InPlace, TopOf
<1>16. Logged(ckReq'[q]) BY <1>4, <1>13 DEF Logged
<1>17. Going(ckReq[q]) BY <1>4 DEF Going
<1>18. Retraces(ckReq'[q], ckJar', ckKept')
  <2>1. ckJar'[ckReq'[q].log[Len(ckReq'[q].log)].into] = ckReq'[q].log[Len(ckReq'[q].log)].before
    BY <1>2, <1>3, <1>7, <1>8, <1>10, <1>13
  <2>2. SUFFICES ASSUME ckReq[q].alone, ckReq[q].first.jar = ckReq[q].first.kept
                 PROVE  /\ LeadsBack(ckReq[q].log, ckReq[q].first.kept)
                        /\ Untouched(ckReq'[q], ckReq[q].first.kept, ckJar', ckKept')
    BY <1>13, <2>1 DEF Retraces
  <2>3. /\ LeadsBack(ckReq[q].log, ckReq[q].first.kept)
        /\ Untouched(ckReq[q], ckReq[q].first.kept, ckJar, ckKept)
    BY <1>5, <1>17, <2>2 DEF Retraces
  <2>4. \A o : ~Touched(ckReq[q].log, o) => o # p BY <1>2, <1>7 DEF Touched
  <2>5. Untouched(ckReq'[q], ckReq[q].first.kept, ckJar', ckKept')
    BY <1>4, <1>10, <1>13, <2>3, <2>4 DEF Untouched
  <2>. QED BY <2>3, <2>5
<1>. QED BY <1>4, <1>5, <1>10, <1>11, <1>12, <1>13, <1>14, <1>15, <1>16, <1>17, <1>18, CkMoves

LEMMA UndoRecordKeeps == ASSUME CkInv, NEW q \in CkRequests, UndoesRecord(q) PROVE CkInv'
<1>1. PICK e : e = Last(ckReq[q].log) OBVIOUS
<1>2. PICK rest : rest = Front(ckReq[q].log) OBVIOUS
<1>3. PICK p : p = e.into OBVIOUS
<1>4. PICK c : c = e.before OBVIOUS
<1>5. /\ ckReq[q].pc = "forget" /\ ckFamily' = ckFamily
      /\ ckJar' = ckJar /\ ckKept' = [ckKept EXCEPT ![p] = c]
      /\ ckReq' = [ckReq EXCEPT ![q].pc = "undo", ![q].log = rest]
  BY <1>1, <1>2, <1>3, <1>4 DEF UndoesRecord, NextUndone
<1>6. /\ ckReq[q] \in CkRecord /\ ckReq \in [CkRequests -> CkRecord]
      /\ InPlace(CookiePolicy, ckReq[q]) /\ Retraces(ckReq[q], ckJar, ckKept)
      /\ ckJar \in Jars /\ ckKept \in Jars /\ ckReq[q].log # <<>>
  BY <1>5, OneIs DEF Logged
<1>7. ckReq[q].log \in Seq(CkChange) BY <1>6 DEF CkRecord
<1>8. /\ e = ckReq[q].log[Len(ckReq[q].log)] /\ e \in CkChange
      /\ Len(ckReq[q].log) \in 1..Len(ckReq[q].log) /\ rest \in Seq(CkChange)
      /\ \A i \in 1..Len(rest) : rest[i] = ckReq[q].log[i] /\ i \in 1..Len(ckReq[q].log)
  BY <1>1, <1>2, <1>6, <1>7, FrontIs
<1>9. p \in Partitions /\ c \in CkMaybe BY <1>3, <1>4, <1>8 DEF CkChange
<1>10. MayLie(CookiePolicy, p, c) BY <1>3, <1>4, <1>6, <1>8 DEF InPlace
<1>11. /\ ckKept' \in Jars
       /\ \A o \in Partitions : ckKept'[o] = IF o = p THEN c ELSE ckKept[o]
  <2>1. ckKept \in Jars /\ ckKept' = [ckKept EXCEPT ![p] = c] BY <1>5, <1>6
  <2>. QED BY <1>9, <2>1 DEF Jars, CkMaybe
<1>12. \A o \in Partitions : MayLie(CookiePolicy, o, ckJar'[o]) /\ MayLie(CookiePolicy, o, ckKept'[o])
  BY <1>5, <1>10, <1>11 DEF CkInv
<1>13. ckReq' \in [CkRequests -> CkRecord] BY <1>5, <1>6, <1>8 DEF CkRecord
<1>14. /\ ckReq'[q].pc = "undo" /\ ckReq'[q].sent = ckReq[q].sent /\ ckReq'[q].log = rest
       /\ ckReq'[q].first = ckReq[q].first /\ ckReq'[q].alone = ckReq[q].alone
       /\ ckReq'[q].into = ckReq[q].into /\ ckReq'[q].gets = ckReq[q].gets
       /\ ckReq'[q].matched = ckReq[q].matched /\ ckReq'[q].from = ckReq[q].from
       /\ ckReq'[q].kind = ckReq[q].kind
  BY <1>5, <1>6 DEF CkRecord
<1>15. \A o \in CkRequests : o # q => ckReq'[o] = ckReq[o] BY <1>5, <1>6
<1>16. InPlace(CookiePolicy, ckReq'[q])
  <2>1. \A i \in 1..Len(rest) : MayLie(CookiePolicy, rest[i].into, rest[i].before)
    BY <1>6, <1>8 DEF InPlace
  <2>. QED BY <1>6, <1>14, <2>1 DEF InPlace, TopOf
<1>17. Logged(ckReq'[q]) BY <1>14 DEF Logged
<1>18. Going(ckReq[q]) BY <1>5 DEF Going
<1>19. Retraces(ckReq'[q], ckJar', ckKept')
  <2>. DEFINE was == ckReq[q].first.kept
  <2>1. SUFFICES ASSUME ckReq[q].alone, ckReq[q].first.jar = was
                 PROVE  LeadsBack(rest, was) /\ Untouched(ckReq'[q], was, ckJar', ckKept')
    BY <1>14 DEF Retraces
  <2>2. /\ LeadsBack(ckReq[q].log, was) /\ Untouched(ckReq[q], was, ckJar, ckKept)
        /\ ckJar[p] = c
    BY <1>3, <1>4, <1>5, <1>6, <1>8, <1>18, <2>1 DEF Retraces
  <2>. HIDE DEF was
  <2>3. /\ LeadsBack(rest, was)
        /\ \A o : Touched(ckReq[q].log, o) => (Touched(rest, o) \/ o = p)
        /\ Touched(rest, p) \/ c = was[p]
    BY <1>1, <1>2, <1>3, <1>4, <1>6, <1>7, <2>2, FrontLeads
  <2>4. ASSUME NEW o \in Partitions, ~Touched(rest, o)
        PROVE  ckKept'[o] = was[o] /\ ckJar'[o] = was[o]
    <3>1. CASE o = p BY <1>5, <1>9, <1>11, <2>2, <2>3, <2>4, <3>1
    <3>2. CASE o # p
      <4>1. ~Touched(ckReq[q].log, o) BY <2>3, <2>4, <3>2
      <4>2. ckKept[o] = was[o] /\ ckJar[o] = was[o] BY <1>5, <2>2, <4>1 DEF Untouched
      <4>. QED BY <1>5, <1>11, <3>2, <4>2
    <3>. QED BY <3>1, <3>2
  <2>5. Untouched(ckReq'[q], was, ckJar', ckKept') BY <1>14, <2>4 DEF Untouched
  <2>. QED BY <2>3, <2>5
<1>. QED BY <1>5, <1>6, <1>11, <1>12, <1>13, <1>14, <1>15, <1>16, <1>17, <1>18, <1>19, CkMoves

(* Who comes to the jars disturbs all that are under way.                   *)
LEMMA DisturbedIs ==
  ASSUME CkInv, NEW o \in CkRequests, NEW jar, NEW kept, NEW reqs, reqs = Disturbed(ckReq)
  PROVE  /\ reqs[o] \in CkRecord /\ InPlace(CookiePolicy, reqs[o]) /\ Logged(reqs[o])
         /\ Retraces(reqs[o], jar, kept)
         /\ Going(reqs[o]) <=> Going(ckReq[o])
         /\ Going(reqs[o]) => ~reqs[o].alone
<1>1. /\ ckReq[o] \in CkRecord /\ InPlace(CookiePolicy, ckReq[o]) /\ Logged(ckReq[o])
  BY OneIs
<1>2. CASE ~Going(ckReq[o])
  <2>1. reqs[o] = ckReq[o] BY <1>2 DEF Disturbed, CkBusy, Going
  <2>. QED BY <1>1, <1>2, <2>1 DEF Retraces
<1>3. CASE Going(ckReq[o])
  <2>1. PICK first : first = NewCkRequest.first OBVIOUS
  <2>2. reqs[o] = [ckReq[o] EXCEPT !.alone = FALSE, !.first = first]
    BY <1>3, <2>1 DEF Disturbed, CkBusy, Going
  <2>3. first \in [jar: Jars, kept: Jars]
    <3>1. first = [jar |-> NoCookies, kept |-> NoCookies] BY <2>1 DEF NewCkRequest
    <3>. QED BY <3>1, NothingLies
  <2>4. reqs[o] \in CkRecord BY <1>1, <2>2, <2>3 DEF CkRecord
  <2>5. /\ reqs[o].pc = ckReq[o].pc /\ reqs[o].sent = ckReq[o].sent /\ reqs[o].log = ckReq[o].log
        /\ reqs[o].alone = FALSE /\ reqs[o].into = ckReq[o].into
        /\ reqs[o].gets = ckReq[o].gets /\ reqs[o].matched = ckReq[o].matched
        /\ reqs[o].from = ckReq[o].from /\ reqs[o].kind = ckReq[o].kind
    BY <1>1, <2>2 DEF CkRecord
  <2>6. InPlace(CookiePolicy, reqs[o]) BY <1>1, <2>5 DEF InPlace, TopOf
  <2>7. Logged(reqs[o]) BY <1>1, <2>5 DEF Logged
  <2>8. Retraces(reqs[o], jar, kept) BY <2>5 DEF Retraces
  <2>9. Going(reqs[o]) <=> Going(ckReq[o]) BY <2>5 DEF Going
  <2>. QED BY <2>4, <2>5, <2>6, <2>7, <2>8, <2>9
<1>. QED BY <1>2, <1>3

LEMMA AskKeepsCookies == ASSUME CkInv, NEW q \in CkRequests, Asks(q) PROVE CkInv'
<1>1. PICK reqs : reqs = Disturbed(ckReq) OBVIOUS
<1>2. PICK quiet : quiet = \A other \in CkRequests : ~CkBusy(other) OBVIOUS
<1>3. PICK first : first = IF quiet THEN [jar |-> ckJar, kept |-> ckKept] ELSE NewCkRequest.first
  OBVIOUS
<1>4. PICK begun :
        /\ \E from \in CkSites, kind \in CkKinds :
             begun = [NewCkRequest EXCEPT !.pc = "ask", !.from = from, !.kind = kind,
                        !.alone = quiet, !.first = first]
        /\ ckReq' = [reqs EXCEPT ![q] = begun]
  <2>1. PICK from \in CkSites, kind \in CkKinds :
          ckReq' = [Disturbed(ckReq) EXCEPT ![q] =
                      [NewCkRequest EXCEPT !.pc = "ask", !.from = from, !.kind = kind,
                         !.alone = \A other \in CkRequests : ~CkBusy(other),
                         !.first = IF \A other \in CkRequests : ~CkBusy(other)
                                   THEN [jar |-> ckJar, kept |-> ckKept] ELSE @]]
    BY DEF Asks
  <2>2. PICK begun : begun = [NewCkRequest EXCEPT !.pc = "ask", !.from = from, !.kind = kind,
                                !.alone = quiet, !.first = first]
    OBVIOUS
  <2>3. begun = [NewCkRequest EXCEPT !.pc = "ask", !.from = from, !.kind = kind,
                   !.alone = \A other \in CkRequests : ~CkBusy(other),
                   !.first = IF \A other \in CkRequests : ~CkBusy(other)
                             THEN [jar |-> ckJar, kept |-> ckKept] ELSE @]
    BY <1>2, <1>3, <2>2 DEF NewCkRequest
  <2>4. ckReq' = [reqs EXCEPT ![q] = begun] BY <1>1, <2>1, <2>3
  <2>. QED BY <2>2, <2>4
<1>5. ckReq[q].pc = "idle" /\ UNCHANGED <<ckFamily, ckJar, ckKept>> BY DEF Asks
<1>6. /\ ckReq \in [CkRequests -> CkRecord] /\ ckJar \in Jars /\ ckKept \in Jars BY OneIs
<1>7. quiet \in BOOLEAN BY <1>2
<1>8. first \in [jar: Jars, kept: Jars]
  <2>1. NewCkRequest.first = [jar |-> NoCookies, kept |-> NoCookies] BY DEF NewCkRequest
  <2>. QED BY <1>3, <1>6, <2>1, NothingLies
<1>9. PICK new : new = NewCkRequest OBVIOUS
<1>10. new \in CkRecord /\ InPlace(CookiePolicy, new) BY <1>9, NewIsPlaced
<1>11. /\ new.log = <<>> /\ new.sent = {} /\ new.gets = NoCookie /\ new.matched = NoCookies
       /\ new.into = "ordinary"
  BY <1>9 DEF NewCkRequest
<1>12. PICK from \in CkSites, kind \in CkKinds :
         begun = [new EXCEPT !.pc = "ask", !.from = from, !.kind = kind, !.alone = quiet,
                    !.first = first]
  BY <1>4, <1>9
<1>13. kind \in {"nav", "include", "same-origin", "omit"} BY CkAssumption
<1>14. begun \in CkRecord BY <1>7, <1>8, <1>10, <1>12, <1>13 DEF CkRecord
<1>15. /\ begun.pc = "ask" /\ begun.from = from /\ begun.kind = kind /\ begun.alone = quiet
       /\ begun.first = first /\ begun.log = new.log /\ begun.sent = new.sent
       /\ begun.gets = new.gets /\ begun.matched = new.matched /\ begun.into = new.into
  BY <1>10, <1>12 DEF CkRecord
<1>16. Len(begun.log) = 0 BY <1>11, <1>15
<1>17. InPlace(CookiePolicy, begun) BY <1>11, <1>15, <1>16, NothingLies DEF InPlace
<1>18. Logged(begun) BY <1>15 DEF Logged
<1>19. Retraces(begun, ckJar, ckKept)
  <2>1. SUFFICES ASSUME quiet, first.jar = first.kept
                 PROVE  LeadsBack(begun.log, first.kept) /\ Untouched(begun, first.kept, ckJar, ckKept)
    BY <1>15 DEF Retraces
  <2>2. first.jar = ckJar /\ first.kept = ckKept BY <1>3, <2>1
  <2>3. LeadsBack(begun.log, first.kept) BY <1>16 DEF LeadsBack
  <2>4. Untouched(begun, first.kept, ckJar, ckKept) BY <2>1, <2>2 DEF Untouched
  <2>. QED BY <2>3, <2>4
<1>20. \A o \in CkRequests :
         /\ reqs[o] \in CkRecord /\ InPlace(CookiePolicy, reqs[o]) /\ Logged(reqs[o])
         /\ Retraces(reqs[o], ckJar, ckKept)
         /\ Going(reqs[o]) <=> Going(ckReq[o])
         /\ Going(reqs[o]) => ~reqs[o].alone
  BY <1>1, DisturbedIs
<1>21. \A o \in CkRequests : ckReq'[o] = IF o = q THEN begun ELSE reqs[o]
  <2>1. DOMAIN reqs = CkRequests BY <1>1 DEF Disturbed
  <2>. QED BY <1>4, <2>1
<1>22. ckReq' \in [CkRequests -> CkRecord]
  <2>1. reqs = [o \in CkRequests |-> reqs[o]] BY <1>1 DEF Disturbed
  <2>2. reqs \in [CkRequests -> CkRecord] BY <1>20, <2>1
  <2>. QED BY <1>4, <1>14, <2>2
<1>23. \A o \in CkRequests :
         /\ InPlace(CookiePolicy, ckReq'[o]) /\ Logged(ckReq'[o])
         /\ Retraces(ckReq'[o], ckJar, ckKept)
  <2>1. ASSUME NEW o \in CkRequests
        PROVE  /\ InPlace(CookiePolicy, ckReq'[o]) /\ Logged(ckReq'[o])
               /\ Retraces(ckReq'[o], ckJar, ckKept)
    <3>1. CASE o = q
      <4>1. ckReq'[o] = begun BY <1>21, <3>1
      <4>. QED BY <1>17, <1>18, <1>19, <4>1
    <3>2. CASE o # q
      <4>1. ckReq'[o] = reqs[o] BY <1>21, <3>2
      <4>. QED BY <1>20, <4>1
    <3>. QED BY <3>1, <3>2
  <2>. QED BY <2>1
<1>24. ASSUME NEW s \in CkRequests, NEW o \in CkRequests, s # o,
              Going(ckReq'[s]), ckReq'[s].alone
       PROVE  ~Going(ckReq'[o])
  <2>1. s = q
    <3>1. s # q => ckReq'[s] = reqs[s] BY <1>21
    <3>. QED BY <1>20, <1>24, <3>1
  <2>2. quiet BY <1>15, <1>21, <1>24, <2>1
  <2>3. ~Going(ckReq[o]) BY <1>2, <2>2 DEF CkBusy, Going
  <2>4. ckReq'[o] = reqs[o] BY <1>21, <1>24, <2>1
  <2>. QED BY <1>20, <2>3, <2>4
<1>25. CookiePolicy' = CookiePolicy BY <1>5 DEF CookiePolicy
<1>26. /\ ckFamily' \in CkFamilies /\ ckJar' \in Jars /\ ckKept' \in Jars
       /\ \A p \in Partitions :
            MayLie(CookiePolicy', p, ckJar'[p]) /\ MayLie(CookiePolicy', p, ckKept'[p])
  BY <1>5, <1>25 DEF CkInv
<1>27. \A o \in CkRequests :
         /\ InPlace(CookiePolicy', ckReq'[o]) /\ Logged(ckReq'[o])
         /\ Retraces(ckReq'[o], ckJar', ckKept')
  BY <1>5, <1>23, <1>25
<1>. QED BY <1>22, <1>24, <1>26, <1>27 DEF CkInv

LEMMA ClearKeepsCookies == ASSUME CkInv, ClearCookies PROVE CkInv'
<1>1. /\ ckReq' = Disturbed(ckReq) /\ ckFamily' = ckFamily
      /\ ckJar' = NoCookies /\ ckKept' = NoCookies
  BY DEF ClearCookies
<1>2. CookiePolicy' = CookiePolicy BY <1>1 DEF CookiePolicy
<1>3. \A o \in CkRequests :
        /\ ckReq'[o] \in CkRecord /\ InPlace(CookiePolicy, ckReq'[o]) /\ Logged(ckReq'[o])
        /\ Retraces(ckReq'[o], ckJar', ckKept')
        /\ Going(ckReq'[o]) => ~ckReq'[o].alone
  BY <1>1, DisturbedIs
<1>4. ckReq' \in [CkRequests -> CkRecord]
  <2>1. ckReq' = [o \in CkRequests |-> ckReq'[o]] BY <1>1 DEF Disturbed
  <2>. QED BY <1>3, <2>1
<1>5. ASSUME NEW o \in CkRequests
      PROVE  /\ InPlace(CookiePolicy', ckReq'[o]) /\ Logged(ckReq'[o])
             /\ Retraces(ckReq'[o], ckJar', ckKept')
  <2>1. /\ InPlace(CookiePolicy, ckReq'[o]) /\ Logged(ckReq'[o])
        /\ Retraces(ckReq'[o], ckJar', ckKept')
    BY <1>3
  <2>. QED BY <1>2, <2>1
<1>6. /\ ckFamily' \in CkFamilies /\ ckJar' \in Jars /\ ckKept' \in Jars
      /\ \A p \in Partitions :
           MayLie(CookiePolicy', p, ckJar'[p]) /\ MayLie(CookiePolicy', p, ckKept'[p])
  BY <1>1, NothingLies DEF CkInv
<1>. QED BY <1>3, <1>4, <1>5, <1>6 DEF CkInv

LEMMA CkInvNext == CkInv /\ [CkNext]_ckVars => CkInv'
<1>. SUFFICES ASSUME CkInv, [CkNext]_ckVars PROVE CkInv' OBVIOUS
<1>1. ASSUME NEW q \in CkRequests,
             \/ Asks(q) \/ JarsMatch(q) \/ ChoosesCookies(q)
             \/ AnswersPlainly(q) \/ AnswersCookie(q) \/ StoresInJar(q) \/ RecordsCookie(q)
             \/ Outcome(q) \/ UndoesInJar(q) \/ UndoesRecord(q) \/ Undone(q) \/ Leaves(q)
      PROVE  CkInv'
  BY <1>1, AskKeepsCookies, MatchKeeps, ChoiceKeeps, PlainKeeps, AnswerKeepsCookies,
     StoreKeepsCookies, RecordKeepsCookies, OutcomeKeeps, UndoJarKeeps, UndoRecordKeeps,
     UndoneKeeps
<1>2. CASE ClearCookies BY <1>2, ClearKeepsCookies
<1>3. CASE UNCHANGED ckVars
  <2>1. /\ ckFamily' = ckFamily /\ ckJar' = ckJar /\ ckKept' = ckKept /\ ckReq' = ckReq
    BY <1>3 DEF ckVars
  <2>2. CookiePolicy' = CookiePolicy BY <2>1 DEF CookiePolicy
  <2>. QED BY <2>1, <2>2 DEF CkInv
<1>. QED BY <1>1, <1>2, <1>3 DEF CkNext

(* Whatever requests share a session's jars, with whichever failures and    *)
(* clearings between: a cookie goes only where the family's partitioning    *)
(* lets it, though an undo may have put it where it is; and the undoing of  *)
(* a request that was alone gives back the jars and the record that it      *)
(* found (cookies.go, partition.go).                                        *)
THEOREM CookiesKeepTheirPlace == CkSpec => []CookiesInPlace
<1>1. CkInv => CookiesInPlace
  <2>. SUFFICES ASSUME CkInv PROVE CookiesInPlace OBVIOUS
  <2>1. SentWhereSet
    <3>. SUFFICES ASSUME NEW q \in CkRequests, NEW c \in ckReq[q].sent
                  PROVE  /\ (CookiePolicy.parts # "none" /\ c.parted) => c.top = TopLevel(q)
                         /\ ~CookiePolicy.third => c.top = TopLevel(q)
      BY DEF SentWhereSet
    <3>1. c # NoCookie /\ MayGo(CookiePolicy, TopLevel(q), c) BY OneIs DEF InPlace
    <3>. QED BY <3>1 DEF MayGo
  <2>2. UndoPutsBack
    <3>. SUFFICES ASSUME NEW q \in CkRequests, ckReq[q].pc = "undone", ckReq[q].alone,
                         ckReq[q].first.jar = ckReq[q].first.kept
                  PROVE  ckJar = ckReq[q].first.jar /\ ckKept = ckReq[q].first.kept
      BY DEF UndoPutsBack
    <3>. DEFINE was == ckReq[q].first.kept
    <3>1. /\ ckReq[q] \in CkRecord /\ Logged(ckReq[q]) /\ Retraces(ckReq[q], ckJar, ckKept)
          /\ ckJar \in Jars /\ ckKept \in Jars
      BY OneIs
    <3>2. was \in Jars BY <3>1 DEF CkRecord
    <3>3. ckReq[q].log = <<>> /\ Going(ckReq[q]) BY <3>1 DEF Logged, Going
    <3>4. \A p : ~Touched(ckReq[q].log, p) BY <3>3 DEF Touched
    <3>5. Untouched(ckReq[q], was, ckJar, ckKept) BY <3>1, <3>3 DEF Retraces
    <3>. HIDE DEF was
    <3>6. \A p \in Partitions : ckKept[p] = was[p] /\ ckJar[p] = was[p]
      BY <3>4, <3>5 DEF Untouched
    <3>7. ckKept = was /\ ckJar = was BY <3>1, <3>2, <3>6, JarsAre
    <3>. QED BY <3>7 DEF was
  <2>. QED BY <2>1, <2>2 DEF CookiesInPlace
<1>. QED BY CkInvInit, CkInvNext, <1>1, PTL DEF CkSpec

-----------------------------------------------------------------------------
(* Solving challenges                                                      *)

(* SolvesRight for any requests, routes and bounds.  The argument is in     *)
(* numbers: clearances are numbered as they are earned, under the lock of   *)
(* their site, so what the jar has for a site never goes back; and a        *)
(* request that was challenged with less than the site's last success was   *)
(* overtaken by it, which the clock tells once the lock is free.            *)
CsPlaces == {"new", "asks", "asked", "challenged", "tries", "tried", "opens", "clears", "waits",
             "verifies", "past", "done", "failed"}
WithBrowser == {"clears", "waits", "verifies"}
Holding == {"tries", "tried", "opens", "past"} \cup WithBrowser

CsRecords == [at : CsPlaces, site : CsSites, proxy : CsProxies, started : Nat, shown : Clearances,
              browser : Nat, tried : SUBSET SUBSET Clearances]
SiteRecords == [lock : CsRequests \cup {0}, at : Nat, won : Clearances]
ChromeRecords == [up : BOOLEAN, proxy : CsProxies, cookies : SUBSET Clearances]

CsTypes ==
  /\ csReq \in [CsRequests -> CsRecords]
  /\ csSite \in [CsSites -> SiteRecords]
  /\ csChromes \in Seq(ChromeRecords)
  /\ csJar \in [CsSites -> Clearances]
  /\ csGood \subseteq Clearances
  /\ csClock \in Nat /\ csShared \in 0..Len(csChromes) /\ csSolving \in CsRequests \cup {0}

(* From the challenge to the end of its solve a request has its site's lock.*)
LocksHeld == \A i \in CsRequests : csReq[i].at \in Holding => csSite[csReq[i].site].lock = i

ClockAhead ==
  /\ \A i \in CsRequests : csReq[i].started <= csClock
  /\ \A s \in CsSites : csSite[s].at <= csClock

(* Who is in a browser is in one of its request's proxy, and alone there:   *)
(* it is its own, or it has the solver's lock.                              *)
BrowserOwned ==
  /\ \A i \in CsRequests : csReq[i].at \in WithBrowser =>
       /\ csReq[i].browser \in DOMAIN csChromes
       /\ csChromes[csReq[i].browser].proxy = csReq[i].proxy
       /\ csKeeps => csSolving = i
  /\ \A i, j \in CsRequests :
       csReq[i].at \in WithBrowser /\ csReq[j].at \in WithBrowser /\ i # j =>
         csReq[i].browser # csReq[j].browser

(* What is in that browser was earned in this solve: later than the jar's,  *)
(* until the jar's is of it too.                                            *)
CookiesOwn ==
  \A i \in CsRequests :
    /\ csReq[i].at \in {"waits", "verifies"} =>
         /\ \A c \in csChromes[csReq[i].browser].cookies :
              c.by = i /\ c.site = csReq[i].site /\ c.proxy = csReq[i].proxy
         /\ \/ csJar[csReq[i].site] \in csChromes[csReq[i].browser].cookies
            \/ \A c \in csChromes[csReq[i].browser].cookies : c.no > csJar[csReq[i].site].no
    /\ csReq[i].at = "verifies" =>
         /\ csReq[i].shown = csJar[csReq[i].site]
         /\ csReq[i].shown \in csChromes[csReq[i].browser].cookies

JarAhead == \A s \in CsSites : csJar[s].no >= csSite[s].won.no

ShownFresh ==
  \A i \in CsRequests :
    /\ csReq[i].at \in {"asked", "challenged"} =>
         \/ csReq[i].shown.no >= csSite[csReq[i].site].won.no
         \/ csSite[csReq[i].site].at > csReq[i].started
         \/ \E j \in CsRequests : csReq[j].at = "past" /\ csReq[j].site = csReq[i].site
    /\ csReq[i].at \in {"tried", "opens", "clears"} =>
         csReq[i].shown.no >= csSite[csReq[i].site].won.no

CsInv == /\ CsTypes /\ LocksHeld /\ ClockAhead /\ BrowserOwned /\ CookiesOwn
         /\ JarAhead /\ ShownFresh

-----------------------------------------------------------------------------
(* The clearance a set of cookies of one site leaves in the jar.            *)
LEMMA LatestIsLast ==
  ASSUME NEW s, NEW cookies \in SUBSET Clearances, cookies # {},
         \A c \in cookies : c.site = s
  PROVE  Latest(s, cookies) \in cookies /\ \A d \in cookies : d.no <= Latest(s, cookies).no
<1>. DEFINE T == {c.no : c \in cookies}
<1>1. T \subseteq 0..CsMaxEarned /\ T # {} /\ CsMaxEarned \in Nat
  BY CsAssumption DEF Clearances
<1>2. PICK n \in T : \A m \in T : m <= n BY <1>1, LastNumber
<1>3. PICK c \in cookies : c.no = n BY <1>2
<1>4. c.site = s /\ \A d \in cookies : d.site = s => d.no <= c.no BY <1>2, <1>3
<1>5. \E x \in cookies : x.site = s /\ \A d \in cookies : d.site = s => d.no <= x.no BY <1>4
<1>6. /\ Latest(s, cookies) \in cookies
      /\ \A d \in cookies : d.site = s => d.no <= Latest(s, cookies).no
  BY <1>5 DEF Latest
<1>. QED BY <1>6

-----------------------------------------------------------------------------
(* One request changes.                                                     *)
LEMMA CsToIs ==
  ASSUME CsTypes, NEW i \in CsRequests, NEW y \in CsRecords, CsTo(i, y)
  PROVE  /\ csReq' \in [CsRequests -> CsRecords] /\ csReq'[i] = y
         /\ \A j \in CsRequests : j # i => csReq'[j] = csReq[j]
BY DEF CsTypes, CsTo

LEMMA CsTyped ==
  ASSUME CsInv, NEW i \in CsRequests
  PROVE  /\ CsTypes /\ csReq[i] \in CsRecords /\ csReq[i].site \in CsSites
         /\ csReq[i].proxy \in CsProxies /\ csReq[i].started \in Nat
         /\ csReq[i].shown \in Clearances /\ csReq[i].shown.no \in Nat
         /\ csSite[csReq[i].site] \in SiteRecords
         /\ csJar[csReq[i].site] \in Clearances /\ csJar[csReq[i].site].no \in Nat
<1>1. CsTypes BY DEF CsInv
<1>2. csReq[i] \in CsRecords BY <1>1 DEF CsTypes
<1>3. PICK x \in CsRecords : x = csReq[i] BY <1>2
<1>4. x.site \in CsSites /\ x.proxy \in CsProxies /\ x.started \in Nat /\ x.shown \in Clearances
  BY DEF CsRecords
<1>5. csSite[x.site] \in SiteRecords /\ csJar[x.site] \in Clearances
  BY <1>1, <1>4 DEF CsTypes
<1>6. \A k \in Clearances : k.no \in Nat BY CsAssumption DEF Clearances
<1>. QED BY <1>1, <1>2, <1>3, <1>4, <1>5, <1>6

(* What the browsers are does not change when one is stopped.               *)
SameBrowsers(old, new) ==
  /\ new \in Seq(ChromeRecords) /\ Len(new) = Len(old) /\ DOMAIN new = DOMAIN old
  /\ \A b \in DOMAIN old : new[b].proxy = old[b].proxy /\ new[b].cookies = old[b].cookies

LEMMA StoppingIsSame ==
  ASSUME NEW chromes \in Seq(ChromeRecords), NEW b
  PROVE  SameBrowsers(chromes, [chromes EXCEPT ![b].up = FALSE])
<1>. DEFINE new == [chromes EXCEPT ![b].up = FALSE]
<1>1. CASE b \in DOMAIN chromes
  <2>1. chromes[b] \in ChromeRecords BY <1>1, ElementOfSeq, LenProperties
  <2>2. [chromes[b] EXCEPT !.up = FALSE] \in ChromeRecords BY <2>1 DEF ChromeRecords
  <2>3. new = [chromes EXCEPT ![b] = [chromes[b] EXCEPT !.up = FALSE]] OBVIOUS
  <2>4. new \in Seq(ChromeRecords) /\ Len(new) = Len(chromes)
    BY <1>1, <2>2, <2>3, ExceptSeq, LenProperties
  <2>5. DOMAIN new = DOMAIN chromes OBVIOUS
  <2>6. \A d \in DOMAIN chromes : /\ new[d].proxy = chromes[d].proxy
                                 /\ new[d].cookies = chromes[d].cookies
    <3>. TAKE d \in DOMAIN chromes
    <3>1. CASE d = b
      <4>1. new[d] = [chromes[b] EXCEPT !.up = FALSE] BY <1>1, <2>3, <3>1
      <4>. HIDE DEF new
      <4>. QED BY <2>1, <3>1, <4>1 DEF ChromeRecords
    <3>2. CASE d # b BY <3>2
    <3>. QED BY <3>1, <3>2
  <2>. HIDE DEF new
  <2>. QED BY <2>4, <2>5, <2>6 DEF SameBrowsers, new
<1>2. CASE b \notin DOMAIN chromes
  <2>1. new = chromes
    <3>1. /\ new = [d \in DOMAIN chromes |->
                      IF d = b THEN [chromes[b] EXCEPT !.up = FALSE] ELSE chromes[d]]
      OBVIOUS
    <3>2. chromes = [d \in DOMAIN chromes |-> chromes[d]] BY LenProperties, IsASeq
    <3>. QED BY <1>2, <3>1, <3>2
  <2>. HIDE DEF new
  <2>. QED BY <2>1 DEF SameBrowsers, new
<1>. QED BY <1>1, <1>2

LEMMA SameIsSame ==
  ASSUME NEW chromes \in Seq(ChromeRecords)
  PROVE  SameBrowsers(chromes, chromes)
BY DEF SameBrowsers

(* Letting go of a browser leaves the others where they are.                *)
LEMMA LetsGoIs ==
  ASSUME CsInv, NEW i \in CsRequests, LetsGo(i)
  PROVE  /\ SameBrowsers(csChromes, csChromes')
         /\ csSolving' \in CsRequests \cup {0}
         /\ \A j \in CsRequests : j # i /\ csSolving = j => csSolving' = j
<1>1. csChromes \in Seq(ChromeRecords) /\ csSolving \in CsRequests \cup {0} BY DEF CsInv, CsTypes
<1>2. SameBrowsers(csChromes, csChromes')
  BY <1>1, StoppingIsSame, SameIsSame DEF LetsGo
<1>. QED BY <1>1, <1>2 DEF LetsGo

LEMMA StoppedIs ==
  ASSUME CsInv
  PROVE  SameBrowsers(csChromes, Stopped)
BY StoppingIsSame, SameIsSame DEF CsInv, CsTypes, Stopped

(* Who is in a browser stays, whoever else stops one, leaves one or was     *)
(* never in one.                                                            *)
LEMMA OwnersStay ==
  ASSUME CsInv, SameBrowsers(csChromes, csChromes'), UNCHANGED <<csKeeps, csJar>>,
         \A j \in CsRequests : csReq'[j].at \in WithBrowser =>
           /\ csReq'[j] = csReq[j]
           /\ csSolving = j => csSolving' = j
  PROVE  BrowserOwned' /\ CookiesOwn'
<1>1. BrowserOwned'
  BY DEF CsInv, BrowserOwned, SameBrowsers
<1>2. CookiesOwn'
  BY DEF CsInv, BrowserOwned, CookiesOwn, SameBrowsers, WithBrowser
<1>. QED BY <1>1, <1>2

-----------------------------------------------------------------------------
(* The session's steps                                                      *)

(* A step of a request outside the browser: it has its lock, or needs none, *)
(* and what it was shown is as fresh as where it stands asks for.           *)
Outside(i, y) ==
  /\ CsTo(i, y) /\ y \in CsRecords /\ y.site = csReq[i].site
  /\ csReq[i].at # "past" /\ y.at \notin WithBrowser \cup {"past"}
  /\ csClock' \in Nat /\ csClock <= csClock' /\ y.started <= csClock'
  /\ UNCHANGED <<csKeeps, csJar, csSolving, csChromes, csShared, csGood>>
  /\ csSite' \in [CsSites -> SiteRecords]
  /\ \A s \in CsSites : csSite'[s].at = csSite[s].at /\ csSite'[s].won = csSite[s].won
  /\ \A s \in CsSites : s # y.site => csSite'[s] = csSite[s]
  /\ \A j \in CsRequests :
       (j # i /\ csReq[j].at \in Holding /\ csReq[j].site = y.site) => csSite'[y.site].lock = j
  /\ y.at \in Holding => csSite'[y.site].lock = i
  /\ y.at \in {"asked", "challenged"} =>
       \/ y.shown.no >= csSite[y.site].won.no
       \/ csSite[y.site].at > y.started
       \/ \E j \in CsRequests : csReq[j].at = "past" /\ csReq[j].site = y.site
  /\ y.at \in {"tried", "opens"} => y.shown.no >= csSite[y.site].won.no

LEMMA OutsideStep == ASSUME CsInv, NEW i \in CsRequests, NEW y, Outside(i, y) PROVE CsInv'
<1>1. /\ csReq' \in [CsRequests -> CsRecords] /\ csReq'[i] = y
      /\ \A j \in CsRequests : j # i => csReq'[j] = csReq[j]
  BY CsToIs DEF CsInv, Outside
<1>2. \A j \in CsRequests : csReq'[j] \in CsRecords /\ csReq'[j].site \in CsSites
                            /\ csReq[j].site \in CsSites /\ csReq'[j].site = csReq[j].site
  BY <1>1 DEF CsInv, CsTypes, CsRecords, Outside
<1>3. CsTypes' BY <1>1 DEF CsInv, CsTypes, Outside
<1>4. LocksHeld'
  <2>. SUFFICES ASSUME NEW j \in CsRequests, csReq'[j].at \in Holding
                PROVE  csSite'[csReq'[j].site].lock = j
    BY DEF LocksHeld
  <2>1. CASE j = i BY <1>1, <2>1 DEF Outside
  <2>2. CASE j # i
    <3>1. csReq'[j] = csReq[j] /\ csSite[csReq[j].site].lock = j
      BY <1>1, <2>2 DEF CsInv, LocksHeld
    <3>2. CASE csReq[j].site = y.site BY <2>2, <3>1, <3>2 DEF Outside
    <3>3. CASE csReq[j].site # y.site BY <1>2, <3>1, <3>3 DEF Outside
    <3>. QED BY <3>2, <3>3
  <2>. QED BY <2>1, <2>2
<1>5. ClockAhead'
  <2>1. \A j \in CsRequests : csReq'[j].started <= csClock'
    <3>. TAKE j \in CsRequests
    <3>1. /\ csReq[j].started <= csClock /\ csReq[j].started \in Nat /\ csClock \in Nat
          /\ csClock' \in Nat /\ csClock <= csClock' /\ y.started <= csClock'
      BY DEF CsInv, ClockAhead, CsTypes, CsRecords, Outside
    <3>2. csReq'[j] = y \/ csReq'[j] = csReq[j] BY <1>1
    <3>. QED BY <3>1, <3>2
  <2>2. \A s \in CsSites : csSite'[s].at <= csClock'
    BY DEF CsInv, ClockAhead, CsTypes, SiteRecords, Outside
  <2>. QED BY <2>1, <2>2 DEF ClockAhead
<1>6. BrowserOwned' /\ CookiesOwn'
  <2>1. SameBrowsers(csChromes, csChromes') BY SameIsSame DEF CsInv, CsTypes, Outside
  <2>2. \A j \in CsRequests : csReq'[j].at \in WithBrowser => csReq'[j] = csReq[j]
    BY <1>1 DEF Outside
  <2>. QED BY <2>1, <2>2, OwnersStay DEF Outside
<1>7. JarAhead' BY DEF CsInv, JarAhead, Outside
<1>8. ShownFresh'
  <2>. SUFFICES ASSUME NEW j \in CsRequests
                PROVE  /\ csReq'[j].at \in {"asked", "challenged"} =>
                            \/ csReq'[j].shown.no >= csSite'[csReq'[j].site].won.no
                            \/ csSite'[csReq'[j].site].at > csReq'[j].started
                            \/ \E k \in CsRequests :
                                 csReq'[k].at = "past" /\ csReq'[k].site = csReq'[j].site
                       /\ csReq'[j].at \in {"tried", "opens", "clears"} =>
                            csReq'[j].shown.no >= csSite'[csReq'[j].site].won.no
    BY DEF ShownFresh
  <2>1. \A k \in CsRequests : csReq[k].at = "past" => csReq'[k] = csReq[k] BY <1>1 DEF Outside
  <2>2. CASE j = i BY <1>1, <1>2, <2>1, <2>2 DEF WithBrowser, Outside
  <2>3. CASE j # i
    <3>1. csReq'[j] = csReq[j] BY <1>1, <2>3
    <3>2. /\ csSite'[csReq[j].site].won = csSite[csReq[j].site].won
          /\ csSite'[csReq[j].site].at = csSite[csReq[j].site].at
      BY <1>2 DEF Outside
    <3>. QED BY <2>1, <3>1, <3>2 DEF CsInv, ShownFresh
  <2>. QED BY <2>2, <2>3
<1>. QED BY <1>3, <1>4, <1>5, <1>6, <1>7, <1>8 DEF CsInv

LEMMA SetsOutInv == ASSUME CsInv, NEW i \in CsRequests, SetsOut(i) PROVE CsInv'
<1>0. csReq[i] \in CsRecords /\ csReq[i].site \in CsSites /\ CsTypes BY CsTyped
<1>1. PICK n \in Nat : n = csClock + 1 /\ csClock' = n BY <1>0 DEF SetsOut, CsTypes
<1>2. PICK y : y = [csReq[i] EXCEPT !.at = "asks", !.started = n] OBVIOUS
<1>3. CsTo(i, y) BY <1>1, <1>2 DEF SetsOut
<1>4. y \in CsRecords BY <1>0, <1>2 DEF CsRecords, CsPlaces
<1>5. y.at = "asks" /\ y.site = csReq[i].site /\ y.started = n BY <1>0, <1>2 DEF CsRecords
<1>6. \A j \in CsRequests : csReq[j].at \in Holding => csSite[csReq[j].site].lock = j
  BY DEF CsInv, LocksHeld
<1>. QED
  <2>1. Outside(i, y)
    BY <1>0, <1>1, <1>3, <1>4, <1>5, <1>6 DEF Outside, SetsOut, CsTypes, WithBrowser, Holding
  <2>. QED BY <2>1, OutsideStep

LEMMA AsksJarInv == ASSUME CsInv, NEW i \in CsRequests, CsAsks(i) PROVE CsInv'
<1>0. /\ csReq[i] \in CsRecords /\ csReq[i].site \in CsSites /\ CsTypes
      /\ csJar[csReq[i].site] \in Clearances
  BY CsTyped
<1>1. PICK c \in Clearances : c = csJar[csReq[i].site] BY <1>0
<1>2. PICK p \in {"asked", "tried"} : p = IF csReq[i].at = "asks" THEN "asked" ELSE "tried" OBVIOUS
<1>3. PICK y : y = [csReq[i] EXCEPT !.at = p, !.shown = c] OBVIOUS
<1>4. CsTo(i, y)
  <2>1. y = [csReq[i] EXCEPT !.at = IF @ = "asks" THEN "asked" ELSE "tried",
                             !.shown = csJar[csReq[i].site]]
    BY <1>0, <1>1, <1>2, <1>3
  <2>. QED BY <2>1 DEF CsAsks
<1>5. y \in CsRecords BY <1>0, <1>3 DEF CsRecords, CsPlaces
<1>6. /\ y.at = p /\ y.site = csReq[i].site /\ y.started = csReq[i].started /\ y.shown = c
  BY <1>0, <1>3 DEF CsRecords
<1>7. \A j \in CsRequests : csReq[j].at \in Holding => csSite[csReq[j].site].lock = j
  BY DEF CsInv, LocksHeld
<1>8. p = "tried" => csReq[i].at \in Holding BY <1>2 DEF CsAsks, Holding
<1>9. c.no >= csSite[y.site].won.no BY <1>0, <1>1, <1>6 DEF CsInv, JarAhead
<1>10. csReq[i].started <= csClock /\ csReq[i].at # "past" BY DEF CsInv, ClockAhead, CsAsks
<1>11. UNCHANGED <<csKeeps, csJar, csSite, csSolving, csChromes, csShared, csGood, csClock>>
       /\ csClock \in Nat /\ csSite \in [CsSites -> SiteRecords]
  BY <1>0 DEF CsAsks, CsTypes
<1>12. p \notin WithBrowser \cup {"past"} /\ (p = "asked" => p \notin Holding)
  BY DEF WithBrowser, Holding
<1>. QED
  <2>1. Outside(i, y)
    BY <1>0, <1>4, <1>5, <1>6, <1>7, <1>8, <1>9, <1>10, <1>11, <1>12 DEF Outside
  <2>. QED BY <2>1, OutsideStep

LEMMA AnsweredInv == ASSUME CsInv, NEW i \in CsRequests, CsAnswered(i) PROVE CsInv'
<1>0. csReq[i] \in CsRecords /\ csReq[i].site \in CsSites /\ CsTypes BY CsTyped
<1>1. PICK p \in {"done", "challenged"} : CsTo(i, [csReq[i] EXCEPT !.at = p]) BY DEF CsAnswered
<1>2. PICK y : y = [csReq[i] EXCEPT !.at = p] OBVIOUS
<1>3. CsTo(i, y) BY <1>1, <1>2
<1>4. y \in CsRecords BY <1>0, <1>2 DEF CsRecords, CsPlaces
<1>5. /\ y.at = p /\ y.site = csReq[i].site /\ y.started = csReq[i].started
      /\ y.shown = csReq[i].shown
  BY <1>0, <1>2 DEF CsRecords
<1>6. \A j \in CsRequests : csReq[j].at \in Holding => csSite[csReq[j].site].lock = j
  BY DEF CsInv, LocksHeld
<1>7. /\ csReq[i].started <= csClock /\ csReq[i].at = "asked"
      /\ UNCHANGED <<csKeeps, csJar, csSite, csSolving, csChromes, csShared, csGood, csClock>>
      /\ csClock \in Nat /\ csSite \in [CsSites -> SiteRecords]
  BY <1>0 DEF CsInv, ClockAhead, CsAnswered, CsTypes
<1>8. \/ y.shown.no >= csSite[y.site].won.no
      \/ csSite[y.site].at > y.started
      \/ \E j \in CsRequests : csReq[j].at = "past" /\ csReq[j].site = y.site
  BY <1>5, <1>7 DEF CsInv, ShownFresh
<1>9. p \notin WithBrowser \cup {"past"} /\ p \notin Holding BY DEF WithBrowser, Holding
<1>. QED
  <2>1. Outside(i, y)
    BY <1>0, <1>3, <1>4, <1>5, <1>6, <1>7, <1>8, <1>9 DEF Outside
  <2>. QED BY <2>1, OutsideStep

(* The site's lock, taken or let go.                                        *)
LEMMA LockIs ==
  ASSUME CsInv, NEW s \in CsSites, NEW l \in CsRequests \cup {0},
         csSite' = [csSite EXCEPT ![s].lock = l]
  PROVE  /\ csSite' \in [CsSites -> SiteRecords] /\ csSite'[s].lock = l
         /\ \A t \in CsSites : csSite'[t].at = csSite[t].at /\ csSite'[t].won = csSite[t].won
         /\ \A t \in CsSites : t # s => csSite'[t] = csSite[t]
<1>1. csSite \in [CsSites -> SiteRecords] BY DEF CsInv, CsTypes
<1>2. PICK z : z = [csSite[s] EXCEPT !.lock = l] OBVIOUS
<1>3. z \in SiteRecords /\ z.lock = l /\ z.at = csSite[s].at /\ z.won = csSite[s].won
  <2>1. csSite[s] \in SiteRecords BY <1>1
  <2>. QED BY <1>2, <2>1 DEF SiteRecords
<1>4. csSite' = [csSite EXCEPT ![s] = z] BY <1>2
<1>. QED BY <1>1, <1>3, <1>4

LEMMA MeetsInv == ASSUME CsInv, NEW i \in CsRequests, MeetsChallenge(i) PROVE CsInv'
<1>0. /\ csReq[i] \in CsRecords /\ csReq[i].site \in CsSites /\ CsTypes
      /\ csReq[i].started \in Nat
  BY CsTyped
<1>1. PICK p \in {"tries", "opens"} : /\ CsTo(i, [csReq[i] EXCEPT !.at = p])
                                      /\ p = "opens" => ~SolvedMeanwhile(i)
  BY DEF MeetsChallenge
<1>2. PICK y : y = [csReq[i] EXCEPT !.at = p] OBVIOUS
<1>3. CsTo(i, y) BY <1>1, <1>2
<1>4. y \in CsRecords BY <1>0, <1>2 DEF CsRecords, CsPlaces
<1>5. /\ y.at = p /\ y.site = csReq[i].site /\ y.started = csReq[i].started
      /\ y.shown = csReq[i].shown
  BY <1>0, <1>2 DEF CsRecords
<1>6. /\ csSite[y.site].lock = 0 /\ csReq[i].at = "challenged"
      /\ csSite' = [csSite EXCEPT ![y.site].lock = i]
      /\ UNCHANGED <<csKeeps, csJar, csSolving, csChromes, csShared, csGood, csClock>>
      /\ csReq[i].started <= csClock /\ csClock \in Nat
  BY <1>0, <1>5 DEF MeetsChallenge, CsInv, ClockAhead, CsTypes
<1>7. /\ csSite' \in [CsSites -> SiteRecords] /\ csSite'[y.site].lock = i
      /\ \A t \in CsSites : csSite'[t].at = csSite[t].at /\ csSite'[t].won = csSite[t].won
      /\ \A t \in CsSites : t # y.site => csSite'[t] = csSite[t]
  BY <1>0, <1>5, <1>6, LockIs
<1>8. \A j \in CsRequests : csReq[j].at \in Holding => csReq[j].site # y.site
  BY <1>6, CsAssumption DEF CsInv, LocksHeld
<1>9. p = "opens" => y.shown.no >= csSite[y.site].won.no
  <2>. HAVE p = "opens"
  <2>1. ~(csSite[y.site].at > y.started) BY <1>1, <1>5 DEF SolvedMeanwhile
  <2>2. ~\E j \in CsRequests : csReq[j].at = "past" /\ csReq[j].site = y.site
    BY <1>8 DEF Holding
  <2>. QED BY <1>5, <1>6, <2>1, <2>2 DEF CsInv, ShownFresh
<1>10. p \notin WithBrowser \cup {"past"} /\ p \notin {"asked", "challenged", "tried"}
  BY DEF WithBrowser
<1>. QED
  <2>1. Outside(i, y)
    BY <1>0, <1>3, <1>4, <1>5, <1>6, <1>7, <1>8, <1>9, <1>10 DEF Outside
  <2>. QED BY <2>1, OutsideStep

LEMMA TriedInv == ASSUME CsInv, NEW i \in CsRequests, TriedAgain(i) PROVE CsInv'
<1>0. csReq[i] \in CsRecords /\ csReq[i].site \in CsSites /\ CsTypes BY CsTyped
<1>1. PICK p \in {"done", "opens"} :
        /\ CsTo(i, [csReq[i] EXCEPT !.at = p])
        /\ p = "done" => Unlocked(i)
        /\ p = "opens" => UNCHANGED csSite
  BY DEF TriedAgain
<1>2. PICK y : y = [csReq[i] EXCEPT !.at = p] OBVIOUS
<1>3. CsTo(i, y) BY <1>1, <1>2
<1>4. y \in CsRecords BY <1>0, <1>2 DEF CsRecords, CsPlaces
<1>5. /\ y.at = p /\ y.site = csReq[i].site /\ y.started = csReq[i].started
      /\ y.shown = csReq[i].shown
  BY <1>0, <1>2 DEF CsRecords
<1>6. /\ csReq[i].at = "tried"
      /\ UNCHANGED <<csKeeps, csJar, csSolving, csChromes, csShared, csGood, csClock>>
      /\ csReq[i].started <= csClock /\ csClock \in Nat
      /\ csSite[y.site].lock = i /\ csReq[i].shown.no >= csSite[y.site].won.no
  BY <1>0, <1>5 DEF TriedAgain, CsInv, ClockAhead, CsTypes, LocksHeld, ShownFresh, Holding
<1>7. /\ csSite' \in [CsSites -> SiteRecords]
      /\ p = "opens" => csSite'[y.site].lock = i
      /\ \A t \in CsSites : csSite'[t].at = csSite[t].at /\ csSite'[t].won = csSite[t].won
      /\ \A t \in CsSites : t # y.site => csSite'[t] = csSite[t]
  <2>1. CASE p = "done"
    <3>1. csSite' = [csSite EXCEPT ![y.site].lock = 0] BY <1>1, <1>5, <2>1 DEF Unlocked
    <3>. QED BY <1>0, <1>5, <2>1, <3>1, LockIs
  <2>2. CASE p = "opens" BY <1>0, <1>1, <1>6, <2>2 DEF CsTypes
  <2>. QED BY <2>1, <2>2
<1>8. \A j \in CsRequests : j # i /\ csReq[j].at \in Holding => csReq[j].site # y.site
  BY <1>6 DEF CsInv, LocksHeld
<1>9. p \notin WithBrowser \cup {"past"} /\ "done" \notin Holding BY DEF WithBrowser, Holding
<1>. QED
  <2>1. Outside(i, y)
    BY <1>0, <1>3, <1>4, <1>5, <1>6, <1>7, <1>8, <1>9 DEF Outside
  <2>. QED BY <2>1, OutsideStep

-----------------------------------------------------------------------------
(* In the browser                                                           *)

(* A step of who has the site's lock leaves the sites as they are: locks,   *)
(* the clock, and what others were shown.                                   *)
Inside(i, y) ==
  /\ CsTo(i, y) /\ y \in CsRecords /\ y.site = csReq[i].site /\ y.proxy = csReq[i].proxy
  /\ csReq[i].at \in Holding \ {"past"} /\ y.at \in WithBrowser
  /\ y.started = csReq[i].started
  /\ UNCHANGED <<csKeeps, csSite, csClock>>
  /\ csReq[i].at = "opens" => y.shown = csReq[i].shown

LEMMA InsideStep ==
  ASSUME CsInv, NEW i \in CsRequests, NEW y, Inside(i, y),
         y.at = "clears" => csReq[i].at = "opens"
  PROVE  /\ csReq' \in [CsRequests -> CsRecords] /\ csReq'[i] = y
         /\ \A j \in CsRequests : j # i => csReq'[j] = csReq[j]
         /\ LocksHeld' /\ ClockAhead' /\ ShownFresh'
<1>1. /\ csReq' \in [CsRequests -> CsRecords] /\ csReq'[i] = y
      /\ \A j \in CsRequests : j # i => csReq'[j] = csReq[j]
  BY CsToIs DEF CsInv, Inside
<1>2. LocksHeld'
  <2>. SUFFICES ASSUME NEW j \in CsRequests, csReq'[j].at \in Holding
                PROVE  csSite'[csReq'[j].site].lock = j
    BY DEF LocksHeld
  <2>1. csReq[j].at \in Holding /\ csReq'[j].site = csReq[j].site
    BY <1>1 DEF Inside
  <2>. QED BY <2>1 DEF CsInv, LocksHeld, Inside
<1>3. ClockAhead'
  <2>1. \A j \in CsRequests : csReq'[j].started = csReq[j].started BY <1>1 DEF Inside
  <2>. QED BY <2>1 DEF CsInv, ClockAhead, Inside
<1>4. ShownFresh'
  <2>. SUFFICES ASSUME NEW j \in CsRequests
                PROVE  /\ csReq'[j].at \in {"asked", "challenged"} =>
                            \/ csReq'[j].shown.no >= csSite[csReq'[j].site].won.no
                            \/ csSite[csReq'[j].site].at > csReq'[j].started
                            \/ \E k \in CsRequests :
                                 csReq'[k].at = "past" /\ csReq'[k].site = csReq'[j].site
                       /\ csReq'[j].at \in {"tried", "opens", "clears"} =>
                            csReq'[j].shown.no >= csSite[csReq'[j].site].won.no
    BY DEF ShownFresh, Inside
  <2>1. \A k \in CsRequests : csReq[k].at = "past" => csReq'[k] = csReq[k] BY <1>1 DEF Inside
  <2>2. CASE j = i BY <1>1, <2>2 DEF WithBrowser, Inside, CsInv, ShownFresh
  <2>3. CASE j # i
    <3>1. csReq'[j] = csReq[j] BY <1>1, <2>3
    <3>. QED BY <2>1, <3>1 DEF CsInv, ShownFresh
  <2>. QED BY <2>2, <2>3
<1>. QED BY <1>1, <1>2, <1>3, <1>4

(* A browser more; the ones there were may have been stopped.               *)
LEMMA ChromeMore ==
  ASSUME NEW old \in Seq(ChromeRecords), NEW chromes, SameBrowsers(old, chromes),
         NEW c \in ChromeRecords
  PROVE  LET new == Append(chromes, c) IN
         /\ new \in Seq(ChromeRecords) /\ Len(new) = Len(old) + 1 /\ new[Len(old) + 1] = c
         /\ Len(old) + 1 \in DOMAIN new /\ Len(old) + 1 \notin DOMAIN old /\ Len(old) \in Nat
         /\ \A b \in DOMAIN old : /\ b \in DOMAIN new
                                  /\ new[b].proxy = old[b].proxy /\ new[b].cookies = old[b].cookies
<1>. DEFINE new == Append(chromes, c)
<1>1. /\ chromes \in Seq(ChromeRecords) /\ Len(chromes) = Len(old) /\ DOMAIN chromes = DOMAIN old
      /\ \A b \in DOMAIN old : /\ chromes[b].proxy = old[b].proxy
                               /\ chromes[b].cookies = old[b].cookies
  BY DEF SameBrowsers
<1>2. /\ new \in Seq(ChromeRecords) /\ Len(new) = Len(chromes) + 1
      /\ \A b \in 1..Len(chromes) : new[b] = chromes[b]
      /\ new[Len(chromes) + 1] = c
  BY <1>1, AppendProperties
<1>3. DOMAIN chromes = 1..Len(chromes) /\ DOMAIN new = 1..Len(new) /\ Len(chromes) \in Nat
  BY <1>1, <1>2, LenProperties
<1>. HIDE DEF new
<1>. QED BY <1>1, <1>2, <1>3 DEF new

LEMMA NewChromeIs ==
  ASSUME CsInv, NEW i \in CsRequests
  PROVE  /\ NewChrome(i) \in ChromeRecords /\ NewChrome(i).proxy = csReq[i].proxy
         /\ NewChrome(i).cookies = {}
<1>1. csReq[i].proxy \in CsProxies BY CsTyped
<1>. QED BY <1>1 DEF NewChrome, ChromeRecords

(* Whoever starts a browser is alone in it.                                 *)
LEMMA StartsBrowser ==
  ASSUME CsInv, NEW i \in CsRequests, NEW y, Inside(i, y), y.at \in {"waits", "clears"},
         csReq[i].at = "opens",
         NEW chromes, SameBrowsers(csChromes, chromes),
         csChromes' = Append(chromes, NewChrome(i)),
         y.browser = Len(csChromes) + 1,
         csKeeps => csSolving = 0 /\ csSolving' = i,
         ~csKeeps => csSolving' = csSolving,
         csShared' = csShared \/ csShared' = Len(csChromes) + 1,
         UNCHANGED <<csJar, csGood>>
  PROVE  CsInv'
<1>0. csChromes \in Seq(ChromeRecords) /\ CsTypes BY DEF CsInv, CsTypes
<1>1. /\ NewChrome(i) \in ChromeRecords /\ NewChrome(i).proxy = csReq[i].proxy
      /\ NewChrome(i).cookies = {}
  BY NewChromeIs
<1>2. /\ csChromes' \in Seq(ChromeRecords) /\ Len(csChromes') = Len(csChromes) + 1
      /\ csChromes'[Len(csChromes) + 1] = NewChrome(i)
      /\ Len(csChromes) + 1 \in DOMAIN csChromes' /\ Len(csChromes) + 1 \notin DOMAIN csChromes
      /\ Len(csChromes) \in Nat
      /\ \A b \in DOMAIN csChromes : /\ b \in DOMAIN csChromes'
                                     /\ csChromes'[b].proxy = csChromes[b].proxy
                                     /\ csChromes'[b].cookies = csChromes[b].cookies
  BY <1>0, <1>1, ChromeMore
<1>3. /\ csReq' \in [CsRequests -> CsRecords] /\ csReq'[i] = y
      /\ \A j \in CsRequests : j # i => csReq'[j] = csReq[j]
      /\ LocksHeld' /\ ClockAhead' /\ ShownFresh'
  BY InsideStep
<1>4. CsTypes' BY <1>0, <1>2, <1>3 DEF CsTypes, Inside
<1>5. BrowserOwned'
  <2>1. \A j \in CsRequests : j # i /\ csReq[j].at \in WithBrowser =>
          /\ csReq[j].browser \in DOMAIN csChromes
          /\ csChromes[csReq[j].browser].proxy = csReq[j].proxy
          /\ ~csKeeps
    BY CsAssumption DEF CsInv, BrowserOwned
  <2>2. csKeeps' = csKeeps /\ y.proxy = csReq[i].proxy BY DEF Inside
  <2>3. ASSUME NEW j \in CsRequests, csReq'[j].at \in WithBrowser
        PROVE  /\ csReq'[j].browser \in DOMAIN csChromes'
               /\ csChromes'[csReq'[j].browser].proxy = csReq'[j].proxy
               /\ csKeeps' => csSolving' = j
    <3>1. CASE j = i BY <1>1, <1>2, <1>3, <2>2, <3>1
    <3>2. CASE j # i BY <1>2, <1>3, <2>1, <2>2, <2>3, <3>2
    <3>. QED BY <3>1, <3>2
  <2>4. \A j, k \in CsRequests :
          csReq'[j].at \in WithBrowser /\ csReq'[k].at \in WithBrowser /\ j # k =>
            csReq'[j].browser # csReq'[k].browser
    BY <1>2, <1>3, <2>1 DEF CsInv, BrowserOwned
  <2>. QED BY <2>3, <2>4 DEF BrowserOwned
<1>6. CookiesOwn'
  <2>. SUFFICES ASSUME NEW j \in CsRequests
                PROVE  /\ csReq'[j].at \in {"waits", "verifies"} =>
                            /\ \A c \in csChromes'[csReq'[j].browser].cookies :
                                 c.by = j /\ c.site = csReq'[j].site /\ c.proxy = csReq'[j].proxy
                            /\ \/ csJar'[csReq'[j].site] \in csChromes'[csReq'[j].browser].cookies
                               \/ \A c \in csChromes'[csReq'[j].browser].cookies :
                                    c.no > csJar'[csReq'[j].site].no
                       /\ csReq'[j].at = "verifies" =>
                            /\ csReq'[j].shown = csJar'[csReq'[j].site]
                            /\ csReq'[j].shown \in csChromes'[csReq'[j].browser].cookies
    BY DEF CookiesOwn
  <2>1. CASE j = i
    <3>1. csChromes'[csReq'[j].browser].cookies = {} BY <1>1, <1>2, <1>3, <2>1
    <3>. QED BY <1>3, <2>1, <3>1
  <2>2. CASE j # i
    <3>1. csReq'[j] = csReq[j] BY <1>3, <2>2
    <3>2. csReq[j].at \in {"waits", "verifies"} =>
            csChromes'[csReq[j].browser].cookies = csChromes[csReq[j].browser].cookies
      BY <1>2 DEF CsInv, BrowserOwned, WithBrowser
    <3>3. csJar' = csJar OBVIOUS
    <3>4. CASE csReq[j].at \in {"waits", "verifies"}
      <4>1. PICK set : /\ set = csChromes[csReq[j].browser].cookies
                       /\ set = csChromes'[csReq[j].browser].cookies
        BY <3>2, <3>4
      <4>2. /\ \A c \in set : c.by = j /\ c.site = csReq[j].site /\ c.proxy = csReq[j].proxy
            /\ csJar[csReq[j].site] \in set \/ \A c \in set : c.no > csJar[csReq[j].site].no
            /\ csReq[j].at = "verifies" =>
                 csReq[j].shown = csJar[csReq[j].site] /\ csReq[j].shown \in set
        BY <3>4, <4>1 DEF CsInv, CookiesOwn
      <4>. QED BY <3>1, <3>3, <4>1, <4>2
    <3>. QED BY <3>1, <3>4
  <2>. QED BY <2>1, <2>2
<1>7. JarAhead' BY DEF CsInv, JarAhead, Inside
<1>. QED BY <1>3, <1>4, <1>5, <1>6, <1>7 DEF CsInv

LEMMA OpensOwnInv == ASSUME CsInv, NEW i \in CsRequests, OpensOwn(i) PROVE CsInv'
<1>0. /\ csReq[i] \in CsRecords /\ csReq[i].site \in CsSites /\ CsTypes
      /\ csChromes \in Seq(ChromeRecords)
  BY CsTyped DEF CsTypes
<1>1. PICK n \in Nat : n = Len(csChromes) + 1 BY <1>0, LenProperties
<1>2. PICK y : y = [csReq[i] EXCEPT !.at = "waits", !.browser = n] OBVIOUS
<1>3. CsTo(i, y) BY <1>1, <1>2 DEF OpensOwn
<1>4. y \in CsRecords BY <1>0, <1>2 DEF CsRecords, CsPlaces
<1>5. /\ y.at = "waits" /\ y.site = csReq[i].site /\ y.proxy = csReq[i].proxy
      /\ y.started = csReq[i].started /\ y.shown = csReq[i].shown /\ y.browser = n
  BY <1>0, <1>2 DEF CsRecords
<1>6. Inside(i, y) BY <1>3, <1>4, <1>5 DEF Inside, OpensOwn, Holding, WithBrowser
<1>7. SameBrowsers(csChromes, csChromes) BY <1>0, SameIsSame
<1>. QED BY <1>1, <1>5, <1>6, <1>7, StartsBrowser DEF OpensOwn

LEMMA TakesSharedInv == ASSUME CsInv, NEW i \in CsRequests, TakesShared(i) PROVE CsInv'
<1>0. /\ csReq[i] \in CsRecords /\ csReq[i].site \in CsSites /\ CsTypes
      /\ csChromes \in Seq(ChromeRecords) /\ csShared \in 0..Len(csChromes)
      /\ Len(csChromes) \in Nat /\ DOMAIN csChromes = 1..Len(csChromes)
  BY CsTyped, LenProperties DEF CsTypes
<1>1. PICK n \in Nat :
        /\ CsTo(i, [csReq[i] EXCEPT !.at = "clears", !.browser = n])
        /\ \/ Suits(i) /\ n = csShared /\ UNCHANGED <<csChromes, csShared>>
           \/ /\ ~Suits(i) /\ csChromes' = Append(Stopped, NewChrome(i))
              /\ n = Len(csChromes) + 1 /\ csShared' = n
  <2>1. CASE Suits(i)
    <3>1. PICK n \in Nat : n = csShared BY <1>0
    <3>. QED BY <2>1, <3>1 DEF TakesShared
  <2>2. CASE ~Suits(i)
    <3>1. PICK n \in Nat : n = Len(csChromes) + 1 BY <1>0
    <3>. QED BY <2>2, <3>1 DEF TakesShared
  <2>. QED BY <2>1, <2>2
<1>2. PICK y : y = [csReq[i] EXCEPT !.at = "clears", !.browser = n] OBVIOUS
<1>3. CsTo(i, y) BY <1>1, <1>2
<1>4. y \in CsRecords BY <1>0, <1>2 DEF CsRecords, CsPlaces
<1>5. /\ y.at = "clears" /\ y.site = csReq[i].site /\ y.proxy = csReq[i].proxy
      /\ y.started = csReq[i].started /\ y.shown = csReq[i].shown /\ y.browser = n
  BY <1>0, <1>2 DEF CsRecords
<1>6. Inside(i, y) BY <1>3, <1>4, <1>5 DEF Inside, TakesShared, Holding, WithBrowser
<1>7. CASE ~Suits(i)
  <2>1. SameBrowsers(csChromes, Stopped) BY StoppedIs
  <2>. QED BY <1>1, <1>5, <1>6, <1>7, <2>1, StartsBrowser DEF TakesShared
<1>8. CASE Suits(i)
  <2>1. /\ csShared \in DOMAIN csChromes /\ csChromes[csShared].proxy = csReq[i].proxy
        /\ UNCHANGED <<csChromes, csShared, csJar, csGood, csKeeps>> /\ n = csShared
        /\ csKeeps /\ csSolving = 0 /\ csSolving' = i
    BY <1>0, <1>1, <1>8 DEF Suits, TakesShared
  <2>2. /\ csReq' \in [CsRequests -> CsRecords] /\ csReq'[i] = y
        /\ \A j \in CsRequests : j # i => csReq'[j] = csReq[j]
        /\ LocksHeld' /\ ClockAhead' /\ ShownFresh'
    BY <1>6, InsideStep DEF TakesShared
  <2>3. CsTypes' BY <1>0, <1>6, <2>1, <2>2 DEF CsTypes, Inside
  <2>4. \A j \in CsRequests : csReq[j].at \notin WithBrowser
    BY <2>1, CsAssumption DEF CsInv, BrowserOwned
  <2>5. BrowserOwned' BY <1>5, <2>1, <2>2, <2>4 DEF BrowserOwned
  <2>6. CookiesOwn' BY <1>5, <2>2, <2>4 DEF CookiesOwn, WithBrowser
  <2>7. JarAhead' BY <1>6, <2>1 DEF CsInv, JarAhead, Inside
  <2>. QED BY <2>2, <2>3, <2>5, <2>6, <2>7 DEF CsInv
<1>. QED BY <1>7, <1>8

(* The cookies of one browser change, the one its request is in.            *)
LEMMA CookiesIs ==
  ASSUME CsInv, NEW i \in CsRequests, csReq[i].at \in WithBrowser,
         NEW set \in SUBSET Clearances,
         csChromes' = [csChromes EXCEPT ![csReq[i].browser].cookies = set]
  PROVE  /\ csChromes' \in Seq(ChromeRecords) /\ Len(csChromes') = Len(csChromes)
         /\ DOMAIN csChromes' = DOMAIN csChromes
         /\ csReq[i].browser \in DOMAIN csChromes
         /\ csChromes'[csReq[i].browser].cookies = set
         /\ \A b \in DOMAIN csChromes : csChromes'[b].proxy = csChromes[b].proxy
         /\ \A b \in DOMAIN csChromes :
              b # csReq[i].browser => csChromes'[b].cookies = csChromes[b].cookies
<1>. DEFINE b == csReq[i].browser
<1>0. csChromes \in Seq(ChromeRecords) /\ b \in DOMAIN csChromes
  BY DEF CsInv, CsTypes, BrowserOwned
<1>1. csChromes[b] \in ChromeRecords BY <1>0, ElementOfSeq, LenProperties
<1>2. PICK z : z = [csChromes[b] EXCEPT !.cookies = set] OBVIOUS
<1>3. z \in ChromeRecords /\ z.proxy = csChromes[b].proxy /\ z.cookies = set
  BY <1>1, <1>2 DEF ChromeRecords
<1>4. csChromes' = [csChromes EXCEPT ![b] = z]
  <2>1. csChromes' = [csChromes EXCEPT ![b].cookies = set] OBVIOUS
  <2>. QED BY <1>2, <2>1
<1>. HIDE DEF b
<1>5. csChromes' \in Seq(ChromeRecords) /\ Len(csChromes') = Len(csChromes)
  <2>1. b \in 1..Len(csChromes) BY <1>0, LenProperties
  <2>2. [csChromes EXCEPT ![b] = z] \in Seq(ChromeRecords) BY <1>0, <1>3, <2>1, ExceptSeq
  <2>3. Len([csChromes EXCEPT ![b] = z]) = Len(csChromes) BY <1>0, <1>3, <2>1, ExceptSeq
  <2>. QED BY <1>4, <2>2, <2>3
<1>6. /\ DOMAIN csChromes' = DOMAIN csChromes /\ csChromes'[b] = z
      /\ \A d \in DOMAIN csChromes : d # b => csChromes'[d] = csChromes[d]
  BY <1>0, <1>4
<1>. QED BY <1>0, <1>3, <1>5, <1>6 DEF b

(* What the others have in their browsers is theirs.                        *)
OthersCookies(i) ==
  \A j \in CsRequests \ {i} : csReq[j].at \in WithBrowser =>
    csChromes'[csReq[j].browser].cookies = csChromes[csReq[j].browser].cookies

(* And the jar's clearance of their site stays.                             *)
LEMMA OthersOwn ==
  ASSUME CsInv, NEW i \in CsRequests, OthersCookies(i),
         NEW j \in CsRequests, j # i, csReq'[j] = csReq[j],
         csReq[j].at \in WithBrowser => csJar'[csReq[j].site] = csJar[csReq[j].site]
  PROVE  /\ csReq'[j].at \in {"waits", "verifies"} =>
              /\ \A c \in csChromes'[csReq'[j].browser].cookies :
                   c.by = j /\ c.site = csReq'[j].site /\ c.proxy = csReq'[j].proxy
              /\ \/ csJar'[csReq'[j].site] \in csChromes'[csReq'[j].browser].cookies
                 \/ \A c \in csChromes'[csReq'[j].browser].cookies :
                      c.no > csJar'[csReq'[j].site].no
         /\ csReq'[j].at = "verifies" =>
              /\ csReq'[j].shown = csJar'[csReq'[j].site]
              /\ csReq'[j].shown \in csChromes'[csReq'[j].browser].cookies
<1>1. CASE csReq[j].at \in {"waits", "verifies"}
  <2>1. PICK set : /\ set = csChromes[csReq[j].browser].cookies
                   /\ set = csChromes'[csReq[j].browser].cookies
    BY <1>1 DEF OthersCookies, WithBrowser
  <2>2. /\ \A c \in set : c.by = j /\ c.site = csReq[j].site /\ c.proxy = csReq[j].proxy
        /\ csJar[csReq[j].site] \in set \/ \A c \in set : c.no > csJar[csReq[j].site].no
        /\ csReq[j].at = "verifies" =>
             csReq[j].shown = csJar[csReq[j].site] /\ csReq[j].shown \in set
    BY <1>1, <2>1 DEF CsInv, CookiesOwn
  <2>3. csJar'[csReq[j].site] = csJar[csReq[j].site] BY <1>1 DEF WithBrowser
  <2>. QED BY <2>1, <2>2, <2>3
<1>2. CASE csReq[j].at \notin {"waits", "verifies"} BY <1>2
<1>. QED BY <1>1, <1>2

(* A step in the browser that neither starts nor leaves it.                 *)
LEMMA StaysInBrowser ==
  ASSUME CsInv, NEW i \in CsRequests, csReq'[i] \in CsRecords, csReq[i].at \in WithBrowser,
         csReq'[i].browser = csReq[i].browser, csReq'[i].proxy = csReq[i].proxy,
         \A j \in CsRequests : j # i => csReq'[j] = csReq[j],
         DOMAIN csChromes' = DOMAIN csChromes,
         \A b \in DOMAIN csChromes : csChromes'[b].proxy = csChromes[b].proxy,
         UNCHANGED <<csKeeps, csSolving>>
  PROVE  BrowserOwned'
<1>1. ASSUME NEW j \in CsRequests, csReq'[j].at \in WithBrowser
      PROVE  /\ csReq'[j].browser \in DOMAIN csChromes'
             /\ csChromes'[csReq'[j].browser].proxy = csReq'[j].proxy
             /\ csKeeps' => csSolving' = j
  <2>1. /\ csReq[j].at \in WithBrowser /\ csReq'[j].browser = csReq[j].browser
        /\ csReq'[j].proxy = csReq[j].proxy
    BY <1>1
  <2>. QED BY <2>1 DEF CsInv, BrowserOwned
<1>2. ASSUME NEW j \in CsRequests, NEW k \in CsRequests, csReq'[j].at \in WithBrowser,
             csReq'[k].at \in WithBrowser, j # k
      PROVE  csReq'[j].browser # csReq'[k].browser
  <2>1. /\ csReq[j].at \in WithBrowser /\ csReq'[j].browser = csReq[j].browser
        /\ csReq[k].at \in WithBrowser /\ csReq'[k].browser = csReq[k].browser
    BY <1>2
  <2>. QED BY <1>2, <2>1 DEF CsInv, BrowserOwned
<1>. QED BY <1>1, <1>2 DEF BrowserOwned

LEMMA ClearsInv == ASSUME CsInv, NEW i \in CsRequests, ClearsCookies(i) PROVE CsInv'
<1>0. csReq[i] \in CsRecords /\ csReq[i].site \in CsSites /\ CsTypes /\ csReq[i].at = "clears"
  BY CsTyped DEF ClearsCookies
<1>1. PICK y : y = [csReq[i] EXCEPT !.at = "waits"] OBVIOUS
<1>2. CsTo(i, y) /\ y \in CsRecords BY <1>0, <1>1 DEF ClearsCookies, CsRecords, CsPlaces
<1>3. /\ y.at = "waits" /\ y.site = csReq[i].site /\ y.proxy = csReq[i].proxy
      /\ y.started = csReq[i].started /\ y.shown = csReq[i].shown
      /\ y.browser = csReq[i].browser
  BY <1>0, <1>1 DEF CsRecords
<1>4. Inside(i, y) BY <1>0, <1>2, <1>3 DEF Inside, ClearsCookies, Holding, WithBrowser
<1>5. /\ csReq' \in [CsRequests -> CsRecords] /\ csReq'[i] = y
      /\ \A j \in CsRequests : j # i => csReq'[j] = csReq[j]
      /\ LocksHeld' /\ ClockAhead' /\ ShownFresh'
  BY <1>3, <1>4, InsideStep
<1>6. csChromes' = [csChromes EXCEPT ![csReq[i].browser].cookies = {}]
      /\ UNCHANGED <<csKeeps, csJar, csSite, csSolving, csShared, csGood, csClock>>
  BY DEF ClearsCookies
<1>7. /\ csChromes' \in Seq(ChromeRecords) /\ Len(csChromes') = Len(csChromes)
      /\ DOMAIN csChromes' = DOMAIN csChromes
      /\ csReq[i].browser \in DOMAIN csChromes
      /\ csChromes'[csReq[i].browser].cookies = {}
      /\ \A b \in DOMAIN csChromes : csChromes'[b].proxy = csChromes[b].proxy
      /\ \A b \in DOMAIN csChromes :
           b # csReq[i].browser => csChromes'[b].cookies = csChromes[b].cookies
  <2>1. PICK set : set = {} OBVIOUS
  <2>2. csReq[i].at \in WithBrowser /\ set \in SUBSET Clearances BY <1>0, <2>1 DEF WithBrowser
  <2>3. csChromes' = [csChromes EXCEPT ![csReq[i].browser].cookies = set] BY <1>6, <2>1
  <2>4. csChromes'[csReq[i].browser].cookies = set BY <2>2, <2>3, CookiesIs
  <2>. QED BY <2>1, <2>2, <2>3, <2>4, CookiesIs
<1>8. CsTypes' BY <1>0, <1>5, <1>6, <1>7 DEF CsTypes
<1>9. BrowserOwned' BY <1>0, <1>2, <1>3, <1>5, <1>6, <1>7, StaysInBrowser DEF WithBrowser
<1>10. OthersCookies(i) BY <1>0, <1>7 DEF OthersCookies, CsInv, BrowserOwned, WithBrowser
<1>11. \A j \in CsRequests : j # i => csReq'[j] = csReq[j] /\ csJar' = csJar BY <1>5, <1>6
<1>12. CookiesOwn'
  <2>. SUFFICES ASSUME NEW j \in CsRequests
                PROVE  /\ csReq'[j].at \in {"waits", "verifies"} =>
                            /\ \A c \in csChromes'[csReq'[j].browser].cookies :
                                 c.by = j /\ c.site = csReq'[j].site /\ c.proxy = csReq'[j].proxy
                            /\ \/ csJar'[csReq'[j].site] \in csChromes'[csReq'[j].browser].cookies
                               \/ \A c \in csChromes'[csReq'[j].browser].cookies :
                                    c.no > csJar'[csReq'[j].site].no
                       /\ csReq'[j].at = "verifies" =>
                            /\ csReq'[j].shown = csJar'[csReq'[j].site]
                            /\ csReq'[j].shown \in csChromes'[csReq'[j].browser].cookies
    BY DEF CookiesOwn
  <2>1. CASE j = i BY <1>3, <1>5, <1>7, <2>1
  <2>2. CASE j # i BY <1>10, <1>11, <2>2, OthersOwn
  <2>. QED BY <2>1, <2>2
<1>13. JarAhead' BY <1>6 DEF CsInv, JarAhead
<1>. QED BY <1>5, <1>8, <1>9, <1>12, <1>13 DEF CsInv

(* A clearance is numbered after all there are.                             *)
LEMMA PassesInv == ASSUME CsInv, NEW i \in CsRequests, CheckPasses(i) PROVE CsInv'
<1>. DEFINE earned == UNION {csChromes[b].cookies : b \in DOMAIN csChromes}
            all == earned \cup csGood \cup {csJar[s] : s \in CsSites} \cup {NoClearance}
            numbers == {c.no : c \in all}
            no == Max(numbers) + 1
            c == [no |-> no, site |-> csReq[i].site,
                  proxy |-> csChromes[csReq[i].browser].proxy, by |-> i]
<1>0. /\ csReq[i] \in CsRecords /\ csReq[i].site \in CsSites /\ CsTypes
      /\ csReq[i].proxy \in CsProxies
      /\ csReq[i].at \in {"waits", "verifies"} /\ csReq[i].at \in WithBrowser
      /\ csReq[i].browser \in DOMAIN csChromes
      /\ csChromes[csReq[i].browser].proxy = csReq[i].proxy
  BY CsTyped DEF CheckPasses, CsInv, BrowserOwned, WithBrowser
<1>1. /\ no <= CsMaxEarned
      /\ csChromes' = [csChromes EXCEPT ![csReq[i].browser].cookies = @ \cup {c}]
      /\ csGood' = csGood \cup {c}
      /\ UNCHANGED <<csReq, csKeeps, csJar, csSite, csSolving, csShared, csClock>>
  BY DEF CheckPasses
<1>2. \A b \in DOMAIN csChromes : csChromes[b].cookies \subseteq Clearances
  <2>. TAKE b \in DOMAIN csChromes
  <2>1. csChromes[b] \in ChromeRecords BY <1>0, ElementOfSeq, LenProperties DEF CsTypes
  <2>. QED BY <2>1 DEF ChromeRecords
<1>3. all \subseteq Clearances /\ NoClearance \in all
  <2>1. NoClearance \in Clearances BY CsAssumption DEF NoClearance, Clearances
  <2>. QED BY <1>0, <1>2, <2>1 DEF CsTypes
<1>4. numbers \subseteq 0..CsMaxEarned /\ numbers # {} /\ CsMaxEarned \in Nat
  <2>. HIDE DEF all
  <2>. QED BY <1>3, CsAssumption DEF Clearances
<1>5. Max(numbers) \in numbers /\ \A n \in numbers : n <= Max(numbers)
  <2>. HIDE DEF numbers
  <2>. QED BY <1>4, MaxIsLast
<1>6. \A d \in all : d.no \in numbers OBVIOUS
<1>7. csJar[csReq[i].site] \in all BY <1>0
<1>. HIDE DEF all, numbers
<1>8. /\ no \in 0..CsMaxEarned /\ no > csJar[csReq[i].site].no
  BY <1>1, <1>4, <1>5, <1>6, <1>7
<1>. HIDE DEF no
<1>9. c \in Clearances BY <1>0, <1>8 DEF Clearances
<1>10. c.by = i /\ c.site = csReq[i].site /\ c.proxy = csReq[i].proxy /\ c.no = no BY <1>0
<1>. HIDE DEF c
<1>11. PICK set : set = csChromes[csReq[i].browser].cookies \cup {c} OBVIOUS
<1>12. set \in SUBSET Clearances BY <1>0, <1>2, <1>9, <1>11
<1>13. csChromes' = [csChromes EXCEPT ![csReq[i].browser].cookies = set] BY <1>1, <1>11
<1>14. /\ csChromes' \in Seq(ChromeRecords) /\ Len(csChromes') = Len(csChromes)
       /\ DOMAIN csChromes' = DOMAIN csChromes
       /\ csChromes'[csReq[i].browser].cookies = set
       /\ \A b \in DOMAIN csChromes : csChromes'[b].proxy = csChromes[b].proxy
       /\ \A b \in DOMAIN csChromes :
            b # csReq[i].browser => csChromes'[b].cookies = csChromes[b].cookies
  BY <1>0, <1>12, <1>13, CookiesIs
<1>15. CsTypes' BY <1>0, <1>1, <1>9, <1>14 DEF CsTypes
<1>16. csReq' = csReq /\ csJar' = csJar BY <1>1
<1>17. BrowserOwned' BY <1>0, <1>1, <1>14, <1>16, StaysInBrowser
<1>18. OthersCookies(i) BY <1>0, <1>14 DEF OthersCookies, CsInv, BrowserOwned
<1>19. CookiesOwn'
  <2>. SUFFICES ASSUME NEW j \in CsRequests
                PROVE  /\ csReq'[j].at \in {"waits", "verifies"} =>
                            /\ \A d \in csChromes'[csReq'[j].browser].cookies :
                                 d.by = j /\ d.site = csReq'[j].site /\ d.proxy = csReq'[j].proxy
                            /\ \/ csJar'[csReq'[j].site] \in csChromes'[csReq'[j].browser].cookies
                               \/ \A d \in csChromes'[csReq'[j].browser].cookies :
                                    d.no > csJar'[csReq'[j].site].no
                       /\ csReq'[j].at = "verifies" =>
                            /\ csReq'[j].shown = csJar'[csReq'[j].site]
                            /\ csReq'[j].shown \in csChromes'[csReq'[j].browser].cookies
    BY DEF CookiesOwn
  <2>1. CASE j = i
    <3>1. PICK old : old = csChromes[csReq[i].browser].cookies OBVIOUS
    <3>2. /\ \A d \in old : d.by = i /\ d.site = csReq[i].site /\ d.proxy = csReq[i].proxy
          /\ csJar[csReq[i].site] \in old \/ \A d \in old : d.no > csJar[csReq[i].site].no
          /\ csReq[i].at = "verifies" =>
               csReq[i].shown = csJar[csReq[i].site] /\ csReq[i].shown \in old
      BY <1>0, <3>1 DEF CsInv, CookiesOwn
    <3>3. set = old \cup {c} BY <1>11, <3>1
    <3>. QED BY <1>8, <1>10, <1>14, <1>16, <2>1, <3>2, <3>3
  <2>2. CASE j # i BY <1>16, <1>18, <2>2, OthersOwn
  <2>. QED BY <2>1, <2>2
<1>20. LocksHeld' /\ ClockAhead' /\ JarAhead' /\ ShownFresh'
  BY <1>1 DEF CsInv, LocksHeld, ClockAhead, JarAhead, ShownFresh
<1>. QED BY <1>15, <1>17, <1>19, <1>20 DEF CsInv

(* What the browser has goes into the jar, and is what is sent.             *)
LEMMA VerifiesInv == ASSUME CsInv, NEW i \in CsRequests, Verifies(i) PROVE CsInv'
<1>. DEFINE b == csReq[i].browser
            s == csReq[i].site
<1>0. /\ csReq[i] \in CsRecords /\ s \in CsSites /\ CsTypes
      /\ csReq[i].at = "waits" /\ csReq[i].at \in WithBrowser
      /\ b \in DOMAIN csChromes /\ csChromes \in Seq(ChromeRecords)
      /\ csChromes[b].proxy = csReq[i].proxy
      /\ csJar \in [CsSites -> Clearances]
  BY CsTyped DEF Verifies, CsInv, CsTypes, BrowserOwned, WithBrowser
<1>1. PICK cookies : cookies = csChromes[b].cookies OBVIOUS
<1>2. cookies \in SUBSET Clearances
  <2>1. csChromes[b] \in ChromeRecords BY <1>0, ElementOfSeq, LenProperties
  <2>. QED BY <1>1, <2>1 DEF ChromeRecords
<1>3. /\ cookies # {} /\ csJar' = WithCookies(cookies)
      /\ CsTo(i, [csReq[i] EXCEPT !.at = "verifies", !.tried = @ \cup {cookies},
                                  !.shown = WithCookies(cookies)[s]])
      /\ UNCHANGED <<csKeeps, csSite, csSolving, csChromes, csShared, csGood, csClock>>
  BY <1>1 DEF Verifies
<1>4. /\ \A c \in cookies : c.by = i /\ c.site = s /\ c.proxy = csReq[i].proxy
      /\ csJar[s] \in cookies \/ \A c \in cookies : c.no > csJar[s].no
  BY <1>0, <1>1 DEF CsInv, CookiesOwn
<1>5. PICK c : c = Latest(s, cookies) OBVIOUS
<1>6. c \in cookies /\ \A d \in cookies : d.no <= c.no
  BY <1>2, <1>3, <1>4, <1>5, LatestIsLast
<1>7. /\ csJar' \in [CsSites -> Clearances] /\ csJar'[s] = c
      /\ \A t \in CsSites : t # s => csJar'[t] = csJar[t]
  <2>1. csJar' = [t \in CsSites |-> IF \E d \in cookies : d.site = t THEN Latest(t, cookies)
                                    ELSE csJar[t]]
    BY <1>3 DEF WithCookies
  <2>2. \A t \in CsSites : t # s => csJar'[t] = csJar[t] BY <1>4, <2>1
  <2>3. csJar'[s] = c BY <1>0, <1>4, <1>5, <1>6, <2>1
  <2>. QED BY <1>0, <1>2, <1>6, <2>1, <2>2, <2>3
<1>8. c.no >= csJar[s].no /\ c.no \in Nat /\ csJar[s].no \in Nat
  <2>1. \A d \in Clearances : d.no \in Nat BY CsAssumption DEF Clearances
  <2>2. c \in Clearances /\ csJar[s] \in Clearances BY <1>0, <1>2, <1>6
  <2>3. c.no \in Nat /\ csJar[s].no \in Nat BY <2>1, <2>2
  <2>. QED BY <1>4, <1>6, <2>3
<1>9. PICK y : y = [csReq[i] EXCEPT !.at = "verifies", !.tried = @ \cup {cookies}, !.shown = c]
  OBVIOUS
<1>10. CsTo(i, y)
  <2>1. WithCookies(cookies)[s] = c BY <1>3, <1>7
  <2>. QED BY <1>3, <1>9, <2>1
<1>11. y \in CsRecords
  <2>1. csReq[i].tried \cup {cookies} \in SUBSET SUBSET Clearances
    BY <1>0, <1>2 DEF CsRecords
  <2>2. "verifies" \in CsPlaces BY DEF CsPlaces
  <2>3. c \in Clearances BY <1>2, <1>6
  <2>. QED BY <1>0, <1>9, <2>1, <2>2, <2>3 DEF CsRecords
<1>12. /\ y.at = "verifies" /\ y.site = s /\ y.proxy = csReq[i].proxy
       /\ y.started = csReq[i].started /\ y.shown = c /\ y.browser = b
  BY <1>0, <1>9 DEF CsRecords
<1>13. Inside(i, y) BY <1>0, <1>3, <1>10, <1>11, <1>12 DEF Inside, Holding, WithBrowser
<1>14. /\ csReq' \in [CsRequests -> CsRecords] /\ csReq'[i] = y
       /\ \A j \in CsRequests : j # i => csReq'[j] = csReq[j]
       /\ LocksHeld' /\ ClockAhead' /\ ShownFresh'
  BY <1>12, <1>13, InsideStep
<1>15. CsTypes' BY <1>0, <1>3, <1>7, <1>14 DEF CsTypes
<1>16. BrowserOwned' BY <1>0, <1>3, <1>11, <1>12, <1>14, StaysInBrowser
<1>17. OthersCookies(i) BY <1>3 DEF OthersCookies
<1>18. \A j \in CsRequests :
         (j # i /\ csReq[j].at \in WithBrowser) => csJar'[csReq[j].site] = csJar[csReq[j].site]
  <2>. TAKE j \in CsRequests
  <2>. HAVE j # i /\ csReq[j].at \in WithBrowser
  <2>1. csSite[csReq[j].site].lock = j /\ csSite[s].lock = i
    BY <1>0 DEF CsInv, LocksHeld, Holding
  <2>2. csReq[j].site \in CsSites BY CsTyped
  <2>. QED BY <1>7, <2>1, <2>2
<1>19. CookiesOwn'
  <2>. SUFFICES ASSUME NEW j \in CsRequests
                PROVE  /\ csReq'[j].at \in {"waits", "verifies"} =>
                            /\ \A d \in csChromes'[csReq'[j].browser].cookies :
                                 d.by = j /\ d.site = csReq'[j].site /\ d.proxy = csReq'[j].proxy
                            /\ \/ csJar'[csReq'[j].site] \in csChromes'[csReq'[j].browser].cookies
                               \/ \A d \in csChromes'[csReq'[j].browser].cookies :
                                    d.no > csJar'[csReq'[j].site].no
                       /\ csReq'[j].at = "verifies" =>
                            /\ csReq'[j].shown = csJar'[csReq'[j].site]
                            /\ csReq'[j].shown \in csChromes'[csReq'[j].browser].cookies
    BY DEF CookiesOwn
  <2>1. CASE j = i
    <3>1. csChromes'[csReq'[i].browser].cookies = cookies BY <1>1, <1>3, <1>12, <1>14
    <3>. QED BY <1>4, <1>6, <1>7, <1>12, <1>14, <2>1, <3>1
  <2>2. CASE j # i BY <1>14, <1>17, <1>18, <2>2, OthersOwn
  <2>. QED BY <2>1, <2>2
<1>20. JarAhead'
  <2>1. ASSUME NEW t \in CsSites PROVE csJar'[t].no >= csSite'[t].won.no
    <3>1. csJar[t].no >= csSite[t].won.no /\ csSite' = csSite BY <1>3 DEF CsInv, JarAhead
    <3>2. csSite[t].won.no \in Nat
      BY <1>0, CsAssumption DEF CsTypes, SiteRecords, Clearances
    <3>3. CASE t = s BY <1>7, <1>8, <3>1, <3>2, <3>3
    <3>4. CASE t # s BY <1>7, <3>1, <3>4
    <3>. QED BY <3>3, <3>4
  <2>. QED BY <2>1 DEF JarAhead
<1>. QED BY <1>14, <1>15, <1>16, <1>19, <1>20 DEF CsInv

-----------------------------------------------------------------------------
(* Out of the browser                                                       *)

(* A step that ends a solve, or a request: what was shown to the others is  *)
(* as fresh as before, for the site's record changes only in ways they can  *)
(* tell.                                                                    *)
EndsSolve(i, y) ==
  /\ CsTo(i, y) /\ y \in CsRecords /\ y.site = csReq[i].site /\ y.started = csReq[i].started
  /\ y.at \in {"past", "done", "failed"}
  /\ UNCHANGED <<csKeeps, csJar, csShared, csGood>>
  /\ csClock' \in Nat /\ csClock <= csClock'
  /\ SameBrowsers(csChromes, csChromes')
  /\ csSolving' \in CsRequests \cup {0}
  /\ \A j \in CsRequests : j # i /\ csSolving = j => csSolving' = j
  /\ csSite' \in [CsSites -> SiteRecords]
  /\ \A s \in CsSites : s # y.site => csSite'[s] = csSite[s]
  /\ csSite'[y.site].at <= csClock'
  /\ csSite'[y.site].lock \in {csSite[y.site].lock, 0}
  /\ csSite'[y.site].lock # csSite[y.site].lock => csSite[y.site].lock = i
  /\ y.at = "past" => csSite'[y.site].lock = i
  /\ csJar[y.site].no >= csSite'[y.site].won.no
  /\ csSite'[y.site].won # csSite[y.site].won => y.at = "past" /\ csSite[y.site].lock = i
  /\ csSite'[y.site].at # csSite[y.site].at => csSite'[y.site].at = csClock + 1
  /\ csReq[i].at = "past" => csSite'[y.site].at # csSite[y.site].at

LEMMA EndsSolveStep == ASSUME CsInv, NEW i \in CsRequests, NEW y, EndsSolve(i, y) PROVE CsInv'
<1>1. /\ csReq' \in [CsRequests -> CsRecords] /\ csReq'[i] = y
      /\ \A j \in CsRequests : j # i => csReq'[j] = csReq[j]
  BY CsToIs DEF CsInv, EndsSolve
<1>2. \A j \in CsRequests : /\ csReq[j].site \in CsSites /\ csReq'[j].site = csReq[j].site
                            /\ csReq[j].started \in Nat /\ csReq'[j].started = csReq[j].started
  BY <1>1 DEF CsInv, CsTypes, CsRecords, EndsSolve
<1>3. CsTypes'
  <2>1. Len(csChromes') = Len(csChromes) /\ csChromes' \in Seq(ChromeRecords)
    BY DEF EndsSolve, SameBrowsers
  <2>. QED BY <1>1, <2>1 DEF CsInv, CsTypes, EndsSolve
<1>4. LocksHeld'
  <2>. SUFFICES ASSUME NEW j \in CsRequests, csReq'[j].at \in Holding
                PROVE  csSite'[csReq'[j].site].lock = j
    BY DEF LocksHeld
  <2>1. CASE j = i BY <1>1, <2>1 DEF EndsSolve, Holding, WithBrowser
  <2>2. CASE j # i
    <3>1. csReq'[j] = csReq[j] /\ csSite[csReq[j].site].lock = j
      BY <1>1, <2>2 DEF CsInv, LocksHeld
    <3>2. CASE csReq[j].site = y.site BY <2>2, <3>1, <3>2 DEF EndsSolve
    <3>3. CASE csReq[j].site # y.site BY <1>2, <3>1, <3>3 DEF EndsSolve
    <3>. QED BY <3>2, <3>3
  <2>. QED BY <2>1, <2>2
<1>5. ClockAhead'
  <2>1. csClock \in Nat /\ csClock' \in Nat /\ csClock <= csClock' BY DEF CsInv, CsTypes, EndsSolve
  <2>2. \A j \in CsRequests : csReq'[j].started <= csClock'
    BY <1>2, <2>1 DEF CsInv, ClockAhead
  <2>3. ASSUME NEW s \in CsSites PROVE csSite'[s].at <= csClock'
    <3>1. CASE s = y.site BY <3>1 DEF EndsSolve
    <3>2. CASE s # y.site
      <4>1. csSite'[s] = csSite[s] /\ csSite[s].at <= csClock /\ csSite[s].at \in Nat
        BY <3>2 DEF EndsSolve, CsInv, ClockAhead, CsTypes, SiteRecords
      <4>. QED BY <2>1, <4>1
    <3>. QED BY <3>1, <3>2
  <2>. QED BY <2>2, <2>3 DEF ClockAhead
<1>6. BrowserOwned' /\ CookiesOwn'
  <2>1. \A j \in CsRequests : csReq'[j].at \in WithBrowser => j # i
    BY <1>1 DEF EndsSolve, WithBrowser
  <2>2. \A j \in CsRequests : csReq'[j].at \in WithBrowser =>
          /\ csReq'[j] = csReq[j]
          /\ csSolving = j => csSolving' = j
    BY <1>1, <2>1 DEF EndsSolve
  <2>3. SameBrowsers(csChromes, csChromes') /\ UNCHANGED <<csKeeps, csJar>> BY DEF EndsSolve
  <2>. QED BY <2>2, <2>3, OwnersStay
<1>7. JarAhead'
  <2>1. ASSUME NEW s \in CsSites PROVE csJar'[s].no >= csSite'[s].won.no
    <3>1. CASE s = y.site BY <3>1 DEF EndsSolve
    <3>2. CASE s # y.site BY <3>2 DEF EndsSolve, CsInv, JarAhead
    <3>. QED BY <3>1, <3>2
  <2>. QED BY <2>1 DEF JarAhead
<1>8. ShownFresh'
  <2>. SUFFICES ASSUME NEW j \in CsRequests
                PROVE  /\ csReq'[j].at \in {"asked", "challenged"} =>
                            \/ csReq'[j].shown.no >= csSite'[csReq'[j].site].won.no
                            \/ csSite'[csReq'[j].site].at > csReq'[j].started
                            \/ \E k \in CsRequests :
                                 csReq'[k].at = "past" /\ csReq'[k].site = csReq'[j].site
                       /\ csReq'[j].at \in {"tried", "opens", "clears"} =>
                            csReq'[j].shown.no >= csSite'[csReq'[j].site].won.no
    BY DEF ShownFresh
  <2>1. CASE j = i BY <1>1, <2>1 DEF EndsSolve
  <2>2. CASE j # i
    <3>1. csReq'[j] = csReq[j] BY <1>1, <2>2
    <3>2. CASE csReq[j].site # y.site
      <4>1. csSite'[csReq[j].site] = csSite[csReq[j].site] BY <1>2, <3>2 DEF EndsSolve
      <4>2. \A k \in CsRequests :
              csReq[k].at = "past" /\ csReq[k].site = csReq[j].site => csReq'[k] = csReq[k]
        BY <1>1, <3>2 DEF EndsSolve
      <4>. QED BY <3>1, <4>1, <4>2 DEF CsInv, ShownFresh
    <3>3. CASE csReq[j].site = y.site
      <4>1. csReq[j].at \in {"tried", "opens", "clears"} =>
              csSite'[y.site].won = csSite[y.site].won
        <5>. HAVE csReq[j].at \in {"tried", "opens", "clears"}
        <5>1. csSite[y.site].lock = j BY <3>3 DEF CsInv, LocksHeld, Holding, WithBrowser
        <5>. QED BY <2>2, <5>1 DEF EndsSolve
      <4>2. ASSUME csReq[j].at \in {"asked", "challenged"}
            PROVE  \/ csReq[j].shown.no >= csSite'[y.site].won.no
                   \/ csSite'[y.site].at > csReq[j].started
                   \/ \E k \in CsRequests : csReq'[k].at = "past" /\ csReq'[k].site = y.site
        <5>1. CASE csSite'[y.site].at # csSite[y.site].at
          <6>1. csSite'[y.site].at = csClock + 1 BY <5>1 DEF EndsSolve
          <6>2. csReq[j].started <= csClock /\ csReq[j].started \in Nat /\ csClock \in Nat
            BY <1>2 DEF CsInv, ClockAhead, CsTypes
          <6>. QED BY <6>1, <6>2
        <5>2. CASE y.at = "past" BY <1>1, <5>2
        <5>3. CASE csSite'[y.site].at = csSite[y.site].at /\ y.at # "past"
          <6>1. csSite'[y.site].won = csSite[y.site].won /\ csReq[i].at # "past"
            BY <5>3 DEF EndsSolve
          <6>2. \A k \in CsRequests : csReq[k].at = "past" => csReq'[k] = csReq[k]
            BY <1>1, <6>1
          <6>. QED BY <3>3, <4>2, <5>3, <6>1, <6>2 DEF CsInv, ShownFresh
        <5>. QED BY <5>1, <5>2, <5>3
      <4>. QED BY <3>1, <3>3, <4>1, <4>2 DEF CsInv, ShownFresh
    <3>. QED BY <3>2, <3>3
  <2>. QED BY <2>1, <2>2
<1>. QED BY <1>3, <1>4, <1>5, <1>6, <1>7, <1>8 DEF CsInv

LEMMA VerifiedInv == ASSUME CsInv, NEW i \in CsRequests, Verified(i) PROVE CsInv'
<1>. DEFINE s == csReq[i].site
<1>0. /\ csReq[i] \in CsRecords /\ s \in CsSites /\ CsTypes /\ csReq[i].shown \in Clearances
      /\ csReq[i].at = "verifies" /\ csReq[i].at \in WithBrowser
      /\ csSite[s].lock = i
      /\ csReq[i].shown = csJar[s] /\ csReq[i].shown.no \in Nat
      /\ UNCHANGED <<csKeeps, csJar, csShared, csGood, csClock>>
  BY CsTyped DEF Verified, CsInv, LocksHeld, CookiesOwn, Holding, WithBrowser
<1>1. CASE Honoured(i)
  <2>1. /\ CsTo(i, [csReq[i] EXCEPT !.at = "past"]) /\ LetsGo(i)
        /\ csSite' = [csSite EXCEPT ![s].won = csReq[i].shown]
    BY <1>1 DEF Verified
  <2>2. PICK y : y = [csReq[i] EXCEPT !.at = "past"] OBVIOUS
  <2>3. y \in CsRecords BY <1>0, <2>2 DEF CsRecords, CsPlaces
  <2>4. y.at = "past" /\ y.site = s /\ y.started = csReq[i].started
    BY <1>0, <2>2 DEF CsRecords
  <2>5. /\ SameBrowsers(csChromes, csChromes')
        /\ csSolving' \in CsRequests \cup {0}
        /\ \A j \in CsRequests : j # i /\ csSolving = j => csSolving' = j
    BY <2>1, LetsGoIs
  <2>6. csSite \in [CsSites -> SiteRecords] BY <1>0 DEF CsTypes
  <2>7. PICK z : z = [csSite[s] EXCEPT !.won = csReq[i].shown] OBVIOUS
  <2>8. /\ z \in SiteRecords /\ z.lock = i /\ z.at = csSite[s].at
        /\ z.won = csReq[i].shown
    <3>1. csSite[s] \in SiteRecords BY <1>0, <2>6
    <3>. QED BY <1>0, <2>7, <3>1 DEF SiteRecords
  <2>9. csSite' = [csSite EXCEPT ![s] = z] BY <2>1, <2>7
  <2>10. /\ csSite' \in [CsSites -> SiteRecords] /\ csSite'[s] = z
         /\ \A t \in CsSites : t # s => csSite'[t] = csSite[t]
    BY <1>0, <2>6, <2>8, <2>9
  <2>11. csSite[s].at <= csClock /\ csClock \in Nat /\ csClock' = csClock /\ csClock <= csClock'
    BY <1>0 DEF CsInv, ClockAhead, CsTypes
  <2>12. CsTo(i, y) BY <2>1, <2>2
  <2>13. csJar[s].no >= z.won.no BY <1>0, <2>8
  <2>14. EndsSolve(i, y)
    BY <1>0, <2>3, <2>4, <2>5, <2>8, <2>10, <2>11, <2>12, <2>13 DEF EndsSolve
  <2>. QED BY <2>14, EndsSolveStep
<1>2. CASE ~Honoured(i)
  <2>1. /\ CsTo(i, [csReq[i] EXCEPT !.at = "waits"])
        /\ UNCHANGED <<csSite, csSolving, csChromes>>
    BY <1>2 DEF Verified
  <2>2. PICK y : y = [csReq[i] EXCEPT !.at = "waits"] OBVIOUS
  <2>3. y \in CsRecords BY <1>0, <2>2 DEF CsRecords, CsPlaces
  <2>4. /\ y.at = "waits" /\ y.site = s /\ y.proxy = csReq[i].proxy
        /\ y.started = csReq[i].started /\ y.shown = csReq[i].shown
        /\ y.browser = csReq[i].browser
    BY <1>0, <2>2 DEF CsRecords
  <2>5. CsTo(i, y) BY <2>1, <2>2
  <2>6. Inside(i, y) BY <1>0, <2>1, <2>3, <2>4, <2>5 DEF Inside, Holding, WithBrowser
  <2>7. /\ csReq' \in [CsRequests -> CsRecords] /\ csReq'[i] = y
        /\ \A j \in CsRequests : j # i => csReq'[j] = csReq[j]
        /\ LocksHeld' /\ ClockAhead' /\ ShownFresh'
    BY <2>4, <2>6, InsideStep
  <2>8. CsTypes' BY <1>0, <2>1, <2>7 DEF CsTypes
  <2>9. BrowserOwned' BY <1>0, <2>1, <2>3, <2>4, <2>7, StaysInBrowser
  <2>10. OthersCookies(i) BY <2>1 DEF OthersCookies
  <2>11. \A j \in CsRequests : j # i => csReq'[j] = csReq[j] /\ csJar' = csJar BY <1>0, <2>7
  <2>12. CookiesOwn'
    <3>. SUFFICES ASSUME NEW j \in CsRequests
                  PROVE  /\ csReq'[j].at \in {"waits", "verifies"} =>
                              /\ \A d \in csChromes'[csReq'[j].browser].cookies :
                                   d.by = j /\ d.site = csReq'[j].site /\ d.proxy = csReq'[j].proxy
                              /\ \/ csJar'[csReq'[j].site] \in csChromes'[csReq'[j].browser].cookies
                                 \/ \A d \in csChromes'[csReq'[j].browser].cookies :
                                      d.no > csJar'[csReq'[j].site].no
                         /\ csReq'[j].at = "verifies" =>
                              /\ csReq'[j].shown = csJar'[csReq'[j].site]
                              /\ csReq'[j].shown \in csChromes'[csReq'[j].browser].cookies
      BY DEF CookiesOwn
    <3>1. CASE j = i
      <4>1. PICK set : set = csChromes[csReq[i].browser].cookies OBVIOUS
      <4>2. /\ \A d \in set : d.by = i /\ d.site = s /\ d.proxy = csReq[i].proxy
            /\ csJar[s] \in set \/ \A d \in set : d.no > csJar[s].no
        BY <1>0, <4>1 DEF CsInv, CookiesOwn
      <4>3. csChromes'[csReq'[i].browser].cookies = set /\ csJar' = csJar
        BY <1>0, <2>1, <2>4, <2>7, <4>1
      <4>. QED BY <2>4, <2>7, <3>1, <4>2, <4>3
    <3>2. CASE j # i BY <2>10, <2>11, <3>2, OthersOwn
    <3>. QED BY <3>1, <3>2
  <2>13. JarAhead' BY <1>0, <2>1 DEF CsInv, JarAhead
  <2>. QED BY <2>7, <2>8, <2>9, <2>12, <2>13 DEF CsInv
<1>. QED BY <1>1, <1>2

LEMMA NotesInv == ASSUME CsInv, NEW i \in CsRequests, NotesSolved(i) PROVE CsInv'
<1>. DEFINE s == csReq[i].site
<1>0. /\ csReq[i] \in CsRecords /\ s \in CsSites /\ CsTypes
      /\ csReq[i].at = "past" /\ csSite[s].lock = i
      /\ csSite \in [CsSites -> SiteRecords] /\ csChromes \in Seq(ChromeRecords)
      /\ csSolving \in CsRequests \cup {0}
      /\ UNCHANGED <<csKeeps, csJar, csSolving, csChromes, csShared, csGood>>
  BY CsTyped DEF NotesSolved, CsInv, CsTypes, LocksHeld, Holding
<1>1. PICK n \in Nat : n = csClock + 1 /\ csClock' = n BY <1>0 DEF NotesSolved, CsTypes
<1>2. PICK y : y = [csReq[i] EXCEPT !.at = "done"] OBVIOUS
<1>3. CsTo(i, y) /\ y \in CsRecords
  BY <1>0, <1>2 DEF NotesSolved, CsRecords, CsPlaces
<1>4. y.at = "done" /\ y.site = s /\ y.started = csReq[i].started
  BY <1>0, <1>2 DEF CsRecords
<1>5. PICK z : z = [csSite[s] EXCEPT !.at = n, !.lock = 0] OBVIOUS
<1>6. /\ z \in SiteRecords /\ z.lock = 0 /\ z.at = n /\ z.won = csSite[s].won
  <2>1. csSite[s] \in SiteRecords BY <1>0
  <2>. QED BY <1>5, <2>1 DEF SiteRecords
<1>7. csSite' = [csSite EXCEPT ![s] = z]
  <2>1. csSite' = [csSite EXCEPT ![s].at = n, ![s].lock = 0]
    BY <1>1 DEF NotesSolved, SolvedAt
  <2>. QED BY <1>0, <1>5, <2>1
<1>8. /\ csSite' \in [CsSites -> SiteRecords] /\ csSite'[s] = z
      /\ \A t \in CsSites : t # s => csSite'[t] = csSite[t]
  BY <1>0, <1>6, <1>7
<1>9. /\ csSite[s].at <= csClock /\ csClock \in Nat /\ csSite[s].at \in Nat
      /\ csJar[s].no >= csSite[s].won.no
  BY <1>0 DEF CsInv, ClockAhead, CsTypes, SiteRecords, JarAhead
<1>10. n # csSite[s].at /\ csClock <= n BY <1>1, <1>9
<1>11. SameBrowsers(csChromes, csChromes') BY <1>0, SameIsSame
<1>12. EndsSolve(i, y)
  BY <1>0, <1>1, <1>3, <1>4, <1>6, <1>8, <1>9, <1>10, <1>11 DEF EndsSolve
<1>. QED BY <1>12, EndsSolveStep

LEMMA FailsInv == ASSUME CsInv, NEW i \in CsRequests, CsFails(i) PROVE CsInv'
<1>. DEFINE s == csReq[i].site
<1>0. /\ csReq[i] \in CsRecords /\ s \in CsSites /\ CsTypes /\ csReq[i].at # "past"
      /\ csSite \in [CsSites -> SiteRecords] /\ csClock \in Nat
      /\ UNCHANGED <<csKeeps, csJar, csShared, csGood, csClock>>
      /\ csSite[s].at <= csClock /\ csJar[s].no >= csSite[s].won.no
  BY CsTyped DEF CsFails, CsInv, CsTypes, ClockAhead, JarAhead
<1>1. PICK y : y = [csReq[i] EXCEPT !.at = "failed"] OBVIOUS
<1>2. CsTo(i, y) /\ y \in CsRecords BY <1>0, <1>1 DEF CsFails, CsRecords, CsPlaces
<1>3. y.at = "failed" /\ y.site = s /\ y.started = csReq[i].started
  BY <1>0, <1>1 DEF CsRecords
<1>4. /\ SameBrowsers(csChromes, csChromes')
      /\ csSolving' \in CsRequests \cup {0}
      /\ \A j \in CsRequests : j # i /\ csSolving = j => csSolving' = j
  <2>1. LetsGo(i) BY DEF CsFails
  <2>. QED BY <2>1, LetsGoIs
<1>5. /\ csSite' \in [CsSites -> SiteRecords]
      /\ \A t \in CsSites : csSite'[t].at = csSite[t].at /\ csSite'[t].won = csSite[t].won
      /\ \A t \in CsSites : t # s => csSite'[t] = csSite[t]
      /\ csSite'[s].lock \in {csSite[s].lock, 0}
      /\ csSite'[s].lock # csSite[s].lock => csSite[s].lock = i
  <2>1. CASE csSite[s].lock = i
    <3>1. csSite' = [csSite EXCEPT ![s].lock = 0] BY <2>1 DEF CsFails, Unlocked
    <3>. QED BY <1>0, <2>1, <3>1, LockIs
  <2>2. CASE csSite[s].lock # i
    <3>1. csSite' = csSite BY <2>2 DEF CsFails
    <3>. QED BY <1>0, <3>1
  <2>. QED BY <2>1, <2>2
<1>6. EndsSolve(i, y) BY <1>0, <1>2, <1>3, <1>4, <1>5 DEF EndsSolve
<1>. QED BY <1>6, EndsSolveStep

(* Browsers are closed and die, and sites forget, whatever the requests do. *)
LEMMA AsideInv ==
  ASSUME CsInv, SameBrowsers(csChromes, csChromes'), csGood' \subseteq Clearances,
         csShared' \in {csShared, 0},
         UNCHANGED <<csReq, csKeeps, csJar, csSite, csSolving, csClock>>
  PROVE  CsInv'
<1>1. /\ csChromes' \in Seq(ChromeRecords) /\ Len(csChromes') = Len(csChromes)
      /\ csShared \in 0..Len(csChromes) /\ csChromes \in Seq(ChromeRecords)
      /\ Len(csChromes) \in Nat
  BY LenProperties DEF SameBrowsers, CsInv, CsTypes
<1>2. CsTypes' BY <1>1 DEF CsInv, CsTypes
<1>3. BrowserOwned' /\ CookiesOwn'
  <2>1. \A j \in CsRequests : csReq'[j].at \in WithBrowser =>
          /\ csReq'[j] = csReq[j]
          /\ csSolving = j => csSolving' = j
    OBVIOUS
  <2>. QED BY <2>1, OwnersStay
<1>4. LocksHeld' /\ ClockAhead' /\ JarAhead' /\ ShownFresh'
  BY DEF CsInv, LocksHeld, ClockAhead, JarAhead, ShownFresh
<1>. QED BY <1>2, <1>3, <1>4 DEF CsInv

LEMMA CsInvInit == CsInit => CsInv
<1>. SUFFICES ASSUME CsInit PROVE CsInv
  OBVIOUS
<1>1. PICK routes \in CsRoutes : csReq = [i \in CsRequests |-> NewCsRequest(routes[i])]
  BY DEF CsInit
<1>2. \A i \in CsRequests : routes[i].site \in CsSites /\ routes[i].proxy \in CsProxies
  BY DEF CsSites, CsProxies
<1>3. NoClearance \in Clearances /\ NoClearance.no = 0
  BY CsAssumption DEF NoClearance, Clearances
<1>4. \A i \in CsRequests : csReq[i] \in CsRecords /\ csReq[i].at = "new" /\ csReq[i].started = 0
  <2>. TAKE i \in CsRequests
  <2>1. csReq[i] = NewCsRequest(routes[i]) BY <1>1
  <2>. QED BY <1>2, <1>3, <2>1 DEF NewCsRequest, CsRecords, CsPlaces
<1>5. NeverSolved \in SiteRecords /\ NeverSolved.at = 0 /\ NeverSolved.won = NoClearance
  BY <1>3 DEF NeverSolved, SiteRecords
<1>6. /\ csJar = [s \in CsSites |-> NoClearance] /\ csSite = [s \in CsSites |-> NeverSolved]
      /\ csSolving = 0 /\ csChromes = <<>> /\ csShared = 0 /\ csGood = {} /\ csClock = 0
  BY DEF CsInit
<1>7. csReq \in [CsRequests -> CsRecords] BY <1>1, <1>4
<1>8. CsTypes
  <2>1. csChromes \in Seq(ChromeRecords) /\ Len(csChromes) = 0 BY <1>6, EmptySeq
  <2>. QED BY <1>3, <1>5, <1>6, <1>7, <2>1 DEF CsTypes
<1>9. LocksHeld /\ BrowserOwned /\ CookiesOwn /\ ShownFresh
  BY <1>4 DEF LocksHeld, BrowserOwned, CookiesOwn, ShownFresh, Holding, WithBrowser
<1>10. ClockAhead BY <1>4, <1>5, <1>6 DEF ClockAhead
<1>11. JarAhead BY <1>3, <1>5, <1>6 DEF JarAhead
<1>. QED BY <1>8, <1>9, <1>10, <1>11 DEF CsInv

LEMMA CsInvNext == CsInv /\ [CsNext]_csVars => CsInv'
<1>. SUFFICES ASSUME CsInv, [CsNext]_csVars PROVE CsInv'
  OBVIOUS
<1>0. csChromes \in Seq(ChromeRecords) /\ csGood \subseteq Clearances BY DEF CsInv, CsTypes
<1>1. CASE \E i \in CsRequests :
             \/ SetsOut(i) \/ CsAsks(i) \/ CsAnswered(i) \/ MeetsChallenge(i) \/ TriedAgain(i)
             \/ OpensOwn(i) \/ TakesShared(i) \/ ClearsCookies(i)
             \/ CheckPasses(i) \/ Verifies(i) \/ Verified(i) \/ NotesSolved(i) \/ CsFails(i)
  BY <1>1, SetsOutInv, AsksJarInv, AnsweredInv, MeetsInv, TriedInv, OpensOwnInv,
     TakesSharedInv, ClearsInv, PassesInv, VerifiesInv, VerifiedInv, NotesInv, FailsInv
<1>2. CASE ClosesSolver
  <2>1. SameBrowsers(csChromes, csChromes') BY <1>2, StoppedIs DEF ClosesSolver
  <2>. QED BY <1>0, <1>2, <2>1, AsideInv DEF ClosesSolver
<1>3. CASE \E b \in DOMAIN csChromes : BrowserDies(b)
  <2>1. PICK b : BrowserDies(b) BY <1>3
  <2>2. SameBrowsers(csChromes, csChromes') BY <1>0, <2>1, StoppingIsSame DEF BrowserDies
  <2>. QED BY <1>0, <2>1, <2>2, AsideInv DEF BrowserDies
<1>4. CASE ClearanceLapses
  <2>1. /\ UNCHANGED <<csReq, csKeeps, csJar, csSite, csSolving, csChromes, csShared, csClock>>
        /\ csGood' \subseteq csGood
    BY <1>4 DEF ClearanceLapses
  <2>2. SameBrowsers(csChromes, csChromes') BY <1>0, <2>1, SameIsSame
  <2>. QED BY <1>0, <2>1, <2>2, AsideInv
<1>5. CASE UNCHANGED csVars
  <2>1. UNCHANGED <<csReq, csKeeps, csJar, csSite, csSolving, csChromes, csShared, csGood, csClock>>
    BY <1>5 DEF csVars
  <2>2. SameBrowsers(csChromes, csChromes') BY <1>0, <2>1, SameIsSame
  <2>. QED BY <1>0, <2>1, <2>2, AsideInv
<1>. QED BY <1>1, <1>2, <1>3, <1>4, <1>5 DEF CsNext

LEMMA CsInvSolves == CsInv => SolvesRight
<1>. SUFFICES ASSUME CsInv PROVE SolvesRight
  OBVIOUS
<1>1. NoWastedSolve BY DEF NoWastedSolve, CsInv, ShownFresh
<1>2. OwnClearance
  <2>. SUFFICES ASSUME NEW i \in CsRequests, csReq[i].at = "verifies"
                PROVE  /\ csReq[i].shown.by = i /\ csReq[i].shown.site = csReq[i].site
                       /\ csReq[i].shown.proxy = csReq[i].proxy
    BY DEF OwnClearance
  <2>. QED BY DEF CsInv, CookiesOwn
<1>. QED BY <1>1, <1>2 DEF SolvesRight

(* No browser is opened for a site that was solved meanwhile, and what a    *)
(* solve sends was earned in it and through its request's proxy             *)
(* (_through_challenge, solve), however many threads ask, whichever site    *)
(* and proxy each asks, and whenever the solver is closed or its browser    *)
(* dies.                                                                    *)
THEOREM SolvesAreRight == CsSpec => []SolvesRight
<1>1. CsSpec => []CsInv BY CsInvInit, CsInvNext, PTL DEF CsSpec
<1>. QED BY <1>1, CsInvSolves, PTL
=============================================================================
