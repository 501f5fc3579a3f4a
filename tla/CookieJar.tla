------------------------------ MODULE CookieJar ------------------------------
(***************************************************************************)
(* The cookies of a session (internal/client/cookies.go, samesite.go and    *)
(* partition.go): the jars, which decide what is sent and know nothing of   *)
(* SameSite, the record kept beside them, which does, the choice a browser  *)
(* makes among what the jars match, and the undoing of what a request       *)
(* changed.  One cookie name of one site, Home, asked for by pages of any   *)
(* site; the response's URL, Domain and Path are the cookie's own.          *)
(***************************************************************************)
EXTENDS Integers, Sequences, SequencesExt

CONSTANTS CkRequests,   (* requests, one name each                           *)
          Home,         (* the site they go to                               *)
          CkSites,      (* sites of the pages they come from                 *)
          CkKinds,      (* "nav", or a fetch by its credentials mode         *)
          CkFamilies,   (* browser families                                  *)
          CkMaxChanges  (* bound: responses that set or delete the cookie    *)
                        (* and calls of ClearCookies                         *)

ASSUME CkAssumption ==
  /\ Home \in CkSites /\ "ordinary" \notin CkSites
  /\ CkKinds \subseteq {"nav", "include", "same-origin", "omit"}
  /\ CkFamilies \subseteq {"chrome", "firefox", "safari", "okhttp"}
  /\ CkMaxChanges \in Nat

VARIABLES ckFamily,   (* the profile's                                       *)
          ckJar,      (* Session.jar and Session.parts, by partition         *)
          ckKept,     (* Session.cookies, by partition                       *)
          ckReq,      (* the requests                                        *)
          ckDone      (* how often a cookie was stored, the jars cleared     *)

ckVars == <<ckFamily, ckJar, ckKept, ckReq, ckDone>>

(* A cookie: what the response said of it, who asked, and under which site. *)
Partitions == {"ordinary"} \cup CkSites
Cookie == [by: CkRequests, parted: BOOLEAN, top: CkSites]
NoCookie == [by |-> "nobody"]
Jars == [Partitions -> Cookie \cup {NoCookie}]
NoCookies == [p \in Partitions |-> NoCookie]

(* alone and first: nobody else was at the jars since it began, and what    *)
(* they held then.                                                          *)
NewCkRequest == [pc |-> "idle", from |-> Home, kind |-> "nav",
                 matched |-> NoCookies, sent |-> {}, into |-> "ordinary", gets |-> NoCookie,
                 life |-> "kept", log |-> <<>>, alone |-> TRUE,
                 first |-> [jar |-> NoCookies, kept |-> NoCookies]]

CkTypeOK ==
  /\ ckFamily \in CkFamilies /\ ckJar \in Jars /\ ckKept \in Jars
  /\ \A q \in CkRequests :
       /\ ckReq[q].pc \in {"idle", "ask", "choose", "answer", "store", "record", "read",
                           "undo", "forget", "undone", "over"}
       /\ ckReq[q].log \in Seq([into: Partitions, before: Cookie \cup {NoCookie}])
       /\ ckReq[q].matched \in Jars /\ ckReq[q].gets \in Cookie \cup {NoCookie}
  /\ ckDone \in 0..CkMaxChanges

CkInit ==
  /\ ckFamily \in CkFamilies /\ ckJar = NoCookies /\ ckKept = NoCookies
  /\ ckReq = [q \in CkRequests |-> NewCkRequest] /\ ckDone = 0

-----------------------------------------------------------------------------
(* CookiePolicyFor: whether the family judges cookies at all, lets a third  *)
(* party at the ordinary jar, and which cookies it partitions.              *)
CookiePolicy ==
  CASE ckFamily = "chrome" -> [judges |-> TRUE, third |-> TRUE, parts |-> "partitioned"]
    [] ckFamily = "firefox" -> [judges |-> TRUE, third |-> FALSE, parts |-> "third-party"]
    [] ckFamily = "safari" -> [judges |-> TRUE, third |-> FALSE, parts |-> "none"]
    [] ckFamily = "okhttp" -> [judges |-> FALSE, third |-> TRUE, parts |-> "none"]

(* topLevel and thirdParty, for a page that is the top level itself; and    *)
(* includesCredentials.                                                     *)
Navigates(q) == ckReq[q].kind = "nav"
TopLevel(q) == IF Navigates(q) THEN Home ELSE ckReq[q].from
ThirdParty(q) == TopLevel(q) # Home
CrossSite(q) == ThirdParty(q) \/ ckReq[q].from # Home
Credentialed(q) ==
  CASE ckReq[q].kind = "omit" -> FALSE
    [] ckReq[q].kind = "same-origin" -> ckReq[q].from = Home
    [] OTHER -> TRUE

-----------------------------------------------------------------------------
CkBusy(q) == ckReq[q].pc \notin {"idle", "over"}
Disturbed(reqs) ==
  [q \in CkRequests |-> IF CkBusy(q) THEN [reqs[q] EXCEPT !.alone = FALSE, !.first = NewCkRequest.first]
                        ELSE reqs[q]]

Asks(q) ==
  /\ ckReq[q].pc = "idle"
  /\ \E from \in CkSites, kind \in CkKinds :
       LET quiet == \A other \in CkRequests : ~CkBusy(other)
           begun == [NewCkRequest EXCEPT !.pc = "ask", !.from = from, !.kind = kind,
                                       !.alone = quiet,
                                       !.first = IF quiet THEN [jar |-> ckJar, kept |-> ckKept] ELSE @]
       IN ckReq' = [Disturbed(ckReq) EXCEPT ![q] = begun]
  /\ UNCHANGED <<ckFamily, ckJar, ckKept, ckDone>>

(* cookiesFor, up to what the jars match: the ordinary one unless a third   *)
(* party is kept out of it, and the partition of the top-level site.        *)
JarsMatch(q) ==
  LET open == {"ordinary"} \ (IF ThirdParty(q) /\ ~CookiePolicy.third THEN {"ordinary"} ELSE {})
      own == IF CookiePolicy.parts = "none" THEN {} ELSE {TopLevel(q)}
  IN /\ ckReq[q].pc = "ask"
     /\ ckReq' = [ckReq EXCEPT ![q].pc = "choose", ![q].matched =
          [p \in Partitions |-> IF Credentialed(q) /\ p \in open \cup own THEN ckJar[p]
                                ELSE NoCookie]]
     /\ UNCHANGED <<ckFamily, ckJar, ckKept, ckDone>>

(* The rest of it: on a cross-site request each match by the attribute and  *)
(* the age in its record, which is looked up under Session.mu a moment       *)
(* later and may by then be another cookie's or gone: any of them may go.    *)
ChoosesCookies(q) ==
  LET matches == {ckReq[q].matched[p] : p \in Partitions} \ {NoCookie} IN
  /\ ckReq[q].pc = "choose"
  /\ \E goes \in IF CookiePolicy.judges /\ CrossSite(q) THEN SUBSET matches ELSE {matches} :
       ckReq' = [ckReq EXCEPT ![q].pc = "answer", ![q].matched = NoCookies, ![q].sent = goes]
  /\ UNCHANGED <<ckFamily, ckJar, ckKept, ckDone>>

(* Mutant of PartitionOf: the partition of the request's own site.          *)
PartitionOfUrl(q, parted) ==
  IF ~CookiePolicy.judges \/ (CookiePolicy.third /\ CookiePolicy.parts = "none") THEN "ordinary"
  ELSE IF \/ CookiePolicy.parts # "none" /\ parted
          \/ ThirdParty(q) /\ CookiePolicy.parts = "third-party" THEN Home
  ELSE IF ThirdParty(q) /\ ~CookiePolicy.third THEN "nowhere"
  ELSE "ordinary"

(* storeCookies: where a cookie of the response is kept, if anywhere.       *)
PartitionOf(q, parted) ==
  IF ~CookiePolicy.judges \/ (CookiePolicy.third /\ CookiePolicy.parts = "none") THEN "ordinary"
  ELSE IF \/ CookiePolicy.parts # "none" /\ parted
          \/ ThirdParty(q) /\ CookiePolicy.parts = "third-party" THEN TopLevel(q)
  ELSE IF ThirdParty(q) /\ ~CookiePolicy.third THEN "nowhere"
  ELSE "ordinary"

(* A response that sets nothing it may keep, or the cookie: for good,       *)
(* deleted, or with a Max-Age to come and an Expires long past.             *)
AnswersPlainly(q) ==
  /\ ckReq[q].pc = "answer" /\ ckReq' = [ckReq EXCEPT ![q].pc = "read", ![q].sent = {}]
  /\ UNCHANGED <<ckFamily, ckJar, ckKept, ckDone>>

AnswersCookie(q) ==
  /\ ckReq[q].pc = "answer" /\ Credentialed(q) /\ ckDone < CkMaxChanges
  /\ \E parted \in BOOLEAN, life \in {"kept", "gone", "both"} :
       /\ PartitionOf(q, parted) # "nowhere"
       /\ ckReq' = [ckReq EXCEPT ![q].pc = "store", ![q].sent = {}, ![q].life = life,
                      ![q].into = PartitionOf(q, parted),
                      ![q].gets = [by |-> q, parted |-> parted, top |-> TopLevel(q)]]
  /\ ckDone' = ckDone + 1
  /\ UNCHANGED <<ckFamily, ckJar, ckKept>>

(* The jar first, which goes by Max-Age (jar.SetCookies) ...                *)
StoresInJar(q) ==
  /\ ckReq[q].pc = "store"
  /\ ckJar' = [ckJar EXCEPT ![ckReq[q].into] =
                 IF ckReq[q].life = "gone" THEN NoCookie ELSE ckReq[q].gets]
  /\ ckReq' = [ckReq EXCEPT ![q].pc = "record"]
  /\ UNCHANGED <<ckFamily, ckKept, ckDone>>

(* ... then the record, which goes by either (recordCookies), and the log.  *)
(* A redirect, a retry or a preflight has cookies of its own to send.       *)
RecordsCookie(q) ==
  LET p == ckReq[q].into IN
  /\ ckReq[q].pc = "record"
  /\ ckKept' = [ckKept EXCEPT ![p] = IF ckReq[q].life = "kept" THEN ckReq[q].gets ELSE NoCookie]
  /\ \E next \in {"ask", "read"} :
       ckReq' = [ckReq EXCEPT ![q].pc = next, ![q].gets = NoCookie,
                   ![q].log = Append(@, [into |-> p, before |-> ckKept[p]])]
  /\ UNCHANGED <<ckFamily, ckJar, ckDone>>

-----------------------------------------------------------------------------
(* The request fails, here (DoStream) or in its caller's eyes (_failed), or *)
(* is over.                                                                 *)
Outcome(q) ==
  /\ ckReq[q].pc = "read"
  /\ \/ ckReq' = [ckReq EXCEPT ![q].pc = "undo"]
     \/ ckReq' = [ckReq EXCEPT ![q] = [NewCkRequest EXCEPT !.pc = "over"]]
  /\ UNCHANGED <<ckFamily, ckJar, ckKept, ckDone>>

(* UndoCookies, last change first: the jar of the change's partition takes  *)
(* the old cookie or loses the new one, and then the record does.           *)
NextUndone(log) == [change |-> Last(log), rest |-> Front(log)]

UndoesInJar(q) ==
  /\ ckReq[q].pc = "undo" /\ ckReq[q].log # <<>>
  /\ LET change == NextUndone(ckReq[q].log).change IN
       ckJar' = [ckJar EXCEPT ![change.into] = change.before]
  /\ ckReq' = [ckReq EXCEPT ![q].pc = "forget"]
  /\ UNCHANGED <<ckFamily, ckKept, ckDone>>

UndoesRecord(q) ==
  /\ ckReq[q].pc = "forget"
  /\ LET next == NextUndone(ckReq[q].log) IN
       /\ ckKept' = [ckKept EXCEPT ![next.change.into] = next.change.before]
       /\ ckReq' = [ckReq EXCEPT ![q].pc = "undo", ![q].log = next.rest]
  /\ UNCHANGED <<ckFamily, ckJar, ckDone>>

Undone(q) ==
  /\ ckReq[q].pc = "undo" /\ ckReq[q].log = <<>>
  /\ ckReq' = [ckReq EXCEPT ![q].pc = "undone"]
  /\ UNCHANGED <<ckFamily, ckJar, ckKept, ckDone>>

Leaves(q) ==
  /\ ckReq[q].pc = "undone" /\ ckReq' = [ckReq EXCEPT ![q] = [NewCkRequest EXCEPT !.pc = "over"]]
  /\ UNCHANGED <<ckFamily, ckJar, ckKept, ckDone>>

ClearCookies ==
  /\ ckDone < CkMaxChanges /\ ckDone' = ckDone + 1
  /\ ckJar' = NoCookies /\ ckKept' = NoCookies /\ ckReq' = Disturbed(ckReq)
  /\ UNCHANGED ckFamily

CkNext ==
  \/ \E q \in CkRequests :
       \/ Asks(q) \/ JarsMatch(q) \/ ChoosesCookies(q)
       \/ AnswersPlainly(q) \/ AnswersCookie(q) \/ StoresInJar(q) \/ RecordsCookie(q)
       \/ Outcome(q) \/ UndoesInJar(q) \/ UndoesRecord(q) \/ Undone(q) \/ Leaves(q)
  \/ ClearCookies

CkSpec == CkInit /\ [][CkNext]_ckVars

-----------------------------------------------------------------------------
(* A cookie goes only where the browser's partitioning lets it: one set     *)
(* under a top-level site, as Partitioned or by a third party where third   *)
(* parties are kept apart, under no other; and one set at the top level to  *)
(* no third party there - whichever calls put it where it is, an undo       *)
(* included (storeCookies, cookiesFor, UndoCookies).                        *)
SentWhereSet ==
  \A q \in CkRequests : \A c \in ckReq[q].sent :
    /\ CookiePolicy.parts # "none" /\ c.parted => c.top = TopLevel(q)
    /\ ~CookiePolicy.third => c.top = TopLevel(q)

(* A request whose changes are undone leaves the jars and the record as it  *)
(* found them, over any number of hops, if nobody else was at them          *)
(* meanwhile and the two agreed (CookieChange: "put the jar back exactly"). *)
UndoPutsBack ==
  \A q \in CkRequests :
    LET first == ckReq[q].first IN
    ckReq[q].pc = "undone" /\ ckReq[q].alone /\ first.jar = first.kept
      => ckJar = first.jar /\ ckKept = first.kept

(* The jars keep apart what the browser keeps apart, and an undo undoes.    *)
CookiesInPlace == SentWhereSet /\ UndoPutsBack
=============================================================================
