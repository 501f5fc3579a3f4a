----------------------------- MODULE ClientHints -----------------------------
(***************************************************************************)
(* The memory of client hints (internal/client/hints.go, stream.go): what   *)
(* each origin's pages asked for with Accept-CH and whom their last         *)
(* Permissions-Policy lets have it, the hints a request goes with, and the  *)
(* navigation that is sent again for Critical-CH.  Session.mu is taken once *)
(* for what was asked and once more for the policy, and other answers come  *)
(* in between.                                                              *)
(***************************************************************************)
EXTENDS Naturals

CONSTANTS ChRequests,  (* requests at a time                                  *)
          ChOrigins,   (* origins                                             *)
          ChPage,      (* the one whose pages fetch                           *)
          ChHints,     (* high-entropy hints                                  *)
          ChPolicies   (* policies: the origins each hint is given to         *)

ASSUME ChAssumption ==
  ChPage \in ChOrigins /\ ChPolicies \subseteq [ChHints -> SUBSET ChOrigins]

VARIABLES acceptCH,  (* Session.acceptCH                                      *)
          chPolicy,  (* Session.chPolicy                                      *)
          chReq,     (* the requests                                          *)
          chCould    (* history: the hints that each was allowed, at some     *)
                     (* moment since its headers were begun                   *)

chVars == <<acceptCH, chPolicy, chReq, chCould>>

NoPolicy == [h \in ChHints |-> {}]
(* What parsePermissionsPolicy makes of a header, none among them.          *)
ParsedPolicy == ChPolicies \cup {NoPolicy}

NewChRequest == [pc |-> "idle", nav |-> FALSE, top |-> ChPage, to |-> ChPage, want |-> {},
                 hints |-> {}, critical |-> {}, again |-> FALSE]

ChTypeOK ==
  /\ acceptCH \in [ChOrigins -> SUBSET ChHints]
  /\ chPolicy \in [ChOrigins -> ParsedPolicy]
  /\ \A q \in ChRequests : /\ chReq[q].pc \in {"idle", "build", "policy", "sent"}
                           /\ chReq[q].hints \subseteq ChHints
  /\ chCould \in [ChRequests -> SUBSET ChHints]

ChInit ==
  /\ acceptCH = [o \in ChOrigins |-> {}] /\ chPolicy = [o \in ChOrigins |-> NoPolicy]
  /\ chReq = [q \in ChRequests |-> NewChRequest] /\ chCould = [q \in ChRequests |-> {}]

-----------------------------------------------------------------------------
(* What the rule gives a request: everything its own page's origin asked    *)
(* for at home, and elsewhere what the page's policy delegates.             *)
Allowed(r, asked, policy) ==
  {h \in asked[r.top] : r.to = r.top \/ r.to \in policy[r.top][h]}

(* A navigation, or a fetch of a page; its headers are begun (templateAt).  *)
BeginsHeaders(q) ==
  /\ chReq[q].pc = "idle"
  /\ \E nav \in BOOLEAN, to \in ChOrigins :
       LET r == [NewChRequest EXCEPT !.pc = "build", !.nav = nav, !.to = to,
                                     !.top = IF nav THEN to ELSE ChPage]
       IN /\ chReq' = [chReq EXCEPT ![q] = r]
          /\ chCould' = [chCould EXCEPT ![q] = Allowed(r, acceptCH, chPolicy)]
  /\ UNCHANGED <<acceptCH, chPolicy>>

(* hintsFor, under the lock: for a request to the page's own origin, or     *)
(* when nothing was asked, that is all (hintsForRequest).                   *)
HintsFor(q) ==
  LET r == chReq[q]
      want == acceptCH[r.top]
      all == want = {} \/ r.to = r.top
  IN /\ r.pc = "build"
     /\ chReq' = [chReq EXCEPT ![q].want = want, ![q].pc = IF all THEN "sent" ELSE "policy",
                               ![q].hints = IF all THEN want ELSE {}]
     /\ UNCHANGED <<acceptCH, chPolicy, chCould>>

(* Mutant of Delegated: a page without a policy lets everybody have them.   *)
DelegatedUnlessSaid(r) ==
  {h \in r.want : chPolicy[r.top] = NoPolicy \/ r.to \in chPolicy[r.top][h]}

Delegated(r) == {h \in r.want : r.to \in chPolicy[r.top][h]}

(* The lock again, for the policy.                                          *)
TakesPolicy(q) ==
  /\ chReq[q].pc = "policy"
  /\ chReq' = [chReq EXCEPT ![q].pc = "sent", ![q].hints = Delegated(chReq[q])]
  /\ UNCHANGED <<acceptCH, chPolicy, chCould>>

(* The answer to a fetch changes nothing.                                   *)
FetchAnswered(q) ==
  /\ chReq[q].pc = "sent" /\ ~chReq[q].nav
  /\ chReq' = [chReq EXCEPT ![q] = NewChRequest] /\ chCould' = [chCould EXCEPT ![q] = {}]
  /\ UNCHANGED <<acceptCH, chPolicy>>

(* The navigation goes again, without a third time (DoStream).              *)
SentAgain(r, critical) ==
  [r EXCEPT !.pc = "build", !.again = TRUE, !.want = {}, !.hints = {}, !.critical = critical]

(* noteAcceptCH, for a navigation's answer: the policy replaces the last    *)
(* one, what was asked stays.  The navigation is sent again, once, when the *)
(* answer added a hint and calls one that is known critical.                *)
NavigationAnswered(q) ==
  /\ chReq[q].pc = "sent" /\ chReq[q].nav
  /\ \E known \in {acceptCH[chReq[q].to] \cup accept : accept \in SUBSET ChHints} :
     \E critical \in SUBSET known, policy \in ParsedPolicy :
       LET o == chReq[q].to
           restarts == ~chReq[q].again /\ known # acceptCH[o] /\ critical # {}
           again == SentAgain(chReq[q], critical)
       IN /\ acceptCH' = [acceptCH EXCEPT ![o] = known]
          /\ chPolicy' = [chPolicy EXCEPT ![o] = policy]
          /\ chReq' = [chReq EXCEPT ![q] = IF restarts THEN again ELSE NewChRequest]
          /\ chCould' = [p \in ChRequests |->
                          IF p # q THEN chCould[p] \cup Allowed(chReq[p], acceptCH', chPolicy')
                          ELSE IF restarts THEN Allowed(again, acceptCH', chPolicy') ELSE {}]

ChNext ==
  \E q \in ChRequests : \/ BeginsHeaders(q) \/ HintsFor(q) \/ TakesPolicy(q)
                        \/ FetchAnswered(q) \/ NavigationAnswered(q)

ChSpec == ChInit /\ [][ChNext]_chVars

-----------------------------------------------------------------------------
(* A hint goes where some one moment allowed it: its page's origin had      *)
(* asked, and the policy in force delegated it to the other origin - though *)
(* the two are read at two moments, with answers in between - and a         *)
(* navigation sent again carries all that was critical.                     *)
HintsWithLeave ==
  \A q \in ChRequests :
    chReq[q].pc = "sent" =>
      /\ chReq[q].hints \subseteq chCould[q]
      /\ chReq[q].critical \subseteq chReq[q].hints
=============================================================================
