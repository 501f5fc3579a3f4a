------------------------------ MODULE HttpCache -----------------------------
(***************************************************************************)
(* A session's HTTP cache (internal/client/cache.go) at one key: requests  *)
(* side by side, each in sendCached; the store, in memory or a file of a   *)
(* directory; the origin, whose answer to the URL changes and varies on    *)
(* the language a request asks for.  Bodies are reduced to the version     *)
(* they are of; whether an entry is fresh at a lookup is left to the       *)
(* clock, and one without a validator is one the origin never confirms.    *)
(***************************************************************************)
EXTENDS Integers

CONSTANTS HcRequests, (* goroutines in sendCached                            *)
          HcLanguages,(* what the requests' accept-language may be           *)
          HcVersions  (* bound: versions of what the origin serves           *)

ASSUME HcAssumption == HcVersions \in Nat \ {0} /\ HcLanguages # {}

VARIABLES hcDisk,     (* the store is a directory                            *)
          hcStore,    (* the store, at this key                              *)
          hcOrigin,   (* the version the origin serves now                   *)
          hcReq       (* the requests                                        *)

hcVars == <<hcDisk, hcStore, hcOrigin, hcReq>>

(* Ghost whole: its body was read to the end.                               *)
HcEntry == [version: 1..HcVersions, lang: HcLanguages, whole: BOOLEAN]
HcNone == [version |-> 0]
HcMaybe == HcEntry \cup {HcNone}

(* held: the entry found, for a conditional request.  new: the entry to be  *)
(* put.  Ghosts: got, what the cache answered with; confirmed, the version  *)
(* the origin had when it said 304.                                         *)
HcRequest ==
  [pc: {"idle", "get", "sent", "body", "put", "register", "remove", "unlink"},
   mode: {"default", "no-cache", "force-cache", "only-if-cached"}, lang: HcLanguages,
   known: BOOLEAN, held: HcMaybe, new: HcMaybe, got: HcMaybe, confirmed: 0..HcVersions]

HcTypeOK ==
  /\ hcDisk \in BOOLEAN /\ hcOrigin \in 1..HcVersions
  /\ hcStore \in [file: HcMaybe, known: BOOLEAN] /\ hcReq \in [HcRequests -> HcRequest]

HcIdle == [pc |-> "idle", mode |-> "default", lang |-> CHOOSE l \in HcLanguages : TRUE,
           known |-> FALSE, held |-> HcNone, new |-> HcNone, got |-> HcNone, confirmed |-> 0]

HcInit ==
  /\ hcDisk \in BOOLEAN /\ hcOrigin = 1
  /\ hcStore = [file |-> HcNone, known |-> FALSE] /\ hcReq = [q \in HcRequests |-> HcIdle]

-----------------------------------------------------------------------------
HcOver(q) == hcReq' = [hcReq EXCEPT ![q] = HcIdle]
HcServes(q, e) == hcReq' = [hcReq EXCEPT ![q] = [HcIdle EXCEPT !.lang = hcReq[q].lang, !.got = e,
                                                              !.confirmed = hcReq[q].confirmed]]

(* A request that may use the cache (cacheable); the disk store looks at    *)
(* its table first, and opens the file after letting go of the lock.        *)
HcAsk(q) ==
  /\ hcReq[q].pc = "idle"
  /\ \E mode \in {"default", "no-cache", "force-cache", "only-if-cached"},
        lang \in HcLanguages :
       hcReq' = [hcReq EXCEPT ![q] = [HcIdle EXCEPT !.pc = "get", !.mode = mode, !.lang = lang,
                                                    !.known = hcStore.known]]
  /\ UNCHANGED <<hcDisk, hcStore, hcOrigin>>

(* What its table had, memory's now and the directory's when it looked.     *)
HcThere(q) == IF hcDisk THEN hcReq[q].known ELSE hcStore.known

(* get, and the entry's variant against the request's (sameVary).           *)
HcFound(q) ==
  IF HcThere(q) /\ hcStore.file # HcNone /\ hcStore.file.lang = hcReq[q].lang
  THEN hcStore.file ELSE HcNone

(* Modes an entry may answer in: two take a stale one, and in the default   *)
(* it is lifetime against age that decides, as the clock has it.            *)
HcAnswerModes == {"force-cache", "only-if-cached", "default"}

HcHit(q) ==
  LET e == HcFound(q) IN
  e # HcNone /\ hcReq[q].mode \in HcAnswerModes /\ HcServes(q, e)

HcNotCached(q) ==
  /\ HcFound(q) = HcNone /\ hcReq[q].mode = "only-if-cached" /\ HcOver(q)

HcSend(q) ==
  LET e == HcFound(q) IN
  /\ \/ hcReq[q].mode \in {"default", "no-cache"}
     \/ e = HcNone /\ hcReq[q].mode = "force-cache"
  /\ hcReq' = [hcReq EXCEPT ![q] = [HcIdle EXCEPT !.pc = "sent", !.held = e,
                                                  !.lang = hcReq[q].lang]]

HcGet(q) ==
  /\ hcReq[q].pc = "get" /\ (HcHit(q) \/ HcNotCached(q) \/ HcSend(q))
  /\ UNCHANGED <<hcDisk, hcStore, hcOrigin>>

(* Mutant of HcConfirmed: the entry is looked up again when the 304 comes.  *)
HcConfirmedNow(q) ==
  IF hcStore.file # HcNone /\ hcStore.file.lang = hcReq[q].lang THEN hcStore.file
                                                               ELSE hcReq[q].held

-----------------------------------------------------------------------------
(* The entry a 304 answers from, which is stored again: the one the         *)
(* request's validators came from.                                          *)
HcConfirmed(q) == hcReq[q].held

HcNotModified(q) ==
  /\ hcReq[q].held # HcNone /\ hcReq[q].held.version = hcOrigin
  /\ hcReq' = [hcReq EXCEPT ![q].pc = "put", ![q].held = HcNone, ![q].new = HcConfirmed(q),
                            ![q].confirmed = hcOrigin]

(* A response of the origin's: stored as its body is read, or not for the   *)
(* store; one that says no-store takes out what is there, if the request    *)
(* had found something.                                                     *)
HcModified(q) ==
  \/ hcReq' = [hcReq EXCEPT ![q].pc = "body", ![q].held = HcNone,
                   ![q].new = [version |-> hcOrigin, lang |-> hcReq[q].lang, whole |-> FALSE]]
  \/ HcOver(q)
  \/ /\ hcReq[q].held # HcNone
     /\ hcReq' = [hcReq EXCEPT ![q].pc = "remove", ![q].held = HcNone]

(* The origin answers; or the request fails, as in HcOver.                  *)
HcAnswer(q) ==
  /\ hcReq[q].pc = "sent" /\ (HcNotModified(q) \/ HcModified(q))
  /\ UNCHANGED <<hcDisk, hcStore, hcOrigin>>

(* teeBody: a body read to its end is stored; one that breaks off, is       *)
(* closed, or grows too large is not.                                       *)
HcBody(q) ==
  /\ hcReq[q].pc = "body"
  /\ \/ hcReq' = [hcReq EXCEPT ![q].pc = "put", ![q].new.whole = TRUE]
     \/ HcOver(q)
  /\ UNCHANGED <<hcDisk, hcStore, hcOrigin>>

(* After put a confirmed request answers from the entry it has put.         *)
HcDone(q) == IF hcReq[q].confirmed # 0 THEN HcServes(q, hcReq[q].new) ELSE HcOver(q)

HcPutInMemory(q) ==
  /\ ~hcDisk /\ hcStore' = [file |-> hcReq[q].new, known |-> TRUE] /\ HcDone(q)

HcRemoveFromMemory(q) ==
  /\ ~hcDisk /\ hcStore' = [file |-> HcNone, known |-> FALSE] /\ HcOver(q)

(* put: in memory at once; on disk the file takes the place of the old one, *)
(* and then the table is told.  A file that cannot be written is let go.    *)
HcPut(q) ==
  /\ hcReq[q].pc = "put"
  /\ \/ HcPutInMemory(q)
     \/ /\ hcDisk /\ hcStore' = [hcStore EXCEPT !.file = hcReq[q].new]
        /\ hcReq' = [hcReq EXCEPT ![q].pc = "register"]
     \/ hcDisk /\ HcDone(q) /\ UNCHANGED hcStore
  /\ UNCHANGED <<hcDisk, hcOrigin>>

HcRegister(q) ==
  /\ hcReq[q].pc = "register"
  /\ hcStore' = [hcStore EXCEPT !.known = TRUE] /\ HcDone(q)
  /\ UNCHANGED <<hcDisk, hcOrigin>>

(* remove: on disk the table first, and the file without the lock.          *)
HcRemove(q) ==
  /\ hcReq[q].pc = "remove"
  /\ \/ HcRemoveFromMemory(q)
     \/ /\ hcDisk /\ hcStore' = [hcStore EXCEPT !.known = FALSE]
        /\ hcReq' = [hcReq EXCEPT ![q].pc = "unlink"]
  /\ UNCHANGED <<hcDisk, hcOrigin>>

HcUnlink(q) ==
  /\ hcReq[q].pc = "unlink"
  /\ hcStore' = [hcStore EXCEPT !.file = HcNone] /\ HcOver(q)
  /\ UNCHANGED <<hcDisk, hcOrigin>>

-----------------------------------------------------------------------------
(* clear, or the eviction of this entry for others: both go by the table.   *)
HcEmpties ==
  /\ hcStore.known /\ hcStore' = [file |-> HcNone, known |-> FALSE]
  /\ UNCHANGED <<hcDisk, hcOrigin, hcReq>>

HcChanges ==
  /\ hcOrigin < HcVersions /\ hcOrigin' = hcOrigin + 1
  /\ UNCHANGED <<hcDisk, hcStore, hcReq>>

HcNext ==
  \/ \E q \in HcRequests :
       \/ HcAsk(q) \/ HcGet(q) \/ HcAnswer(q) \/ HcBody(q) \/ HcPut(q) \/ HcRegister(q)
       \/ HcRemove(q) \/ HcUnlink(q)
  \/ HcEmpties \/ HcChanges

HcSpec == HcInit /\ [][HcNext]_hcVars

-----------------------------------------------------------------------------
(* What the cache answers with was read to its end, is the variant the      *)
(* request asks for, and, when a 304 stood behind it, is of the version     *)
(* that the 304 was about: whatever the other requests put in the store,    *)
(* took out of it or overwrote between the lookup and the answer            *)
(* (sendCached, teeBody, diskStore).                                        *)
CacheAnswersRight ==
  \A q \in HcRequests :
    LET e == hcReq[q].got IN
    e # HcNone =>
      /\ e.whole /\ e.lang = hcReq[q].lang
      /\ hcReq[q].confirmed # 0 => e.version = hcReq[q].confirmed
=============================================================================
