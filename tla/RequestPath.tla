----------------------------- MODULE RequestPath ----------------------------
(***************************************************************************)
(* A request from Session.DoStream to the stream handed out: attempts,     *)
(* redirect hops, the guess of HTTP/3 and its race against TCP, the resend *)
(* on a kept-alive connection that died, the held response of a retried    *)
(* status (internal/client/stream.go, client.go, race.go, altsvc.go,       *)
(* retry.go, redirect.go).  The pool is reduced to what a request sees of  *)
(* it: a connection kept alive, a new one, or none (ConnPool has the rest).*)
(***************************************************************************)
EXTENDS Integers, FiniteSets

CONSTANTS Requests,     (* callers of DoStream, each with one call at a time  *)
          Kinds,        (* of "get", "post", "upload" (a streamed body), and  *)
                        (* "h2", "h3" (a POST that demands that protocol)     *)
          Attempts,     (* RetryPolicy.Attempts                               *)
          Listed,       (* RetryPolicy.Methods names POST                     *)
          MaxHops,      (* maxRedirects                                       *)
          Records,      (* whether an HTTPS record naming h3 may be found     *)
          Critical,     (* whether a response may have a new Critical-CH      *)
          MaxKept,      (* bound: kept-alive connections                      *)
          MaxLate,      (* bound: losers of races still about                 *)
          Troubles      (* bound: of "cancel", "deadline" and "late"          *)

ASSUME RequestPathAssumption ==
  /\ IsFiniteSet(Requests) /\ Kinds \subseteq {"get", "post", "upload", "h2", "h3"}
  /\ Attempts \in Nat /\ MaxHops \in Nat /\ MaxKept \in Nat /\ MaxLate \in Nat
  /\ Listed \in BOOLEAN /\ Critical \in BOOLEAN /\ Records \in SUBSET BOOLEAN \ {{}}
  /\ Troubles \subseteq {"cancel", "deadline", "late"}

VARIABLES r,         (* the requests, each in its goroutine                  *)
          kept,      (* idle TCP connections to the origin                   *)
          lent,      (* TCP connections whose busy count a request raised    *)
          late,      (* goroutines a decided race left behind                *)
          adv,       (* Alt-Svc: an advertisement that has not run out       *)
          broken,    (* Alt-Svc: marked broken, and the time is not over     *)
          quicWorks  (* Session.quicWorks                                    *)

rpVars == <<r, kept, lent, late, adv, broken, quicWorks>>

(* conn: of the hop under way.  held: a response kept while another attempt *)
(* is decided, and what it came over.  Ghosts: acted, what may have come of *)
(* the POST so far ("again": a new attempt repeats one that a kept          *)
(* connection or a guess left in doubt); sends, exchanges begun on this     *)
(* hop; bodies, of an upload.                                               *)
RequestRecord ==
  [pc: {"new", "hop", "send", "race", "h3", "dial", "trip", "answer", "failed",
        "backoff", "final", "handed", "over"},
   kind: Kinds \cup {"none"}, attempt: 0..Attempts, hop: 0..MaxHops, turned: BOOLEAN,
   quic: {"off", "dialing", "up", "down", "seen"},
   tcp: {"off", "dialing", "up", "down", "seen"}, wait: BOOLEAN,
   conn: {"none", "kept", "new"}, fresh: BOOLEAN, stop: {"no", "late", "deadline", "cancel"},
   held: {"none", "h3", "tcp"}, retryable: BOOLEAN, unprocessed: BOOLEAN, asked: BOOLEAN,
   acted: {"no", "kept", "guess", "net", "status", "redirect", "again"}, sends: Nat, bodies: Nat]

NewRequest ==
  [pc |-> "new", kind |-> "none", attempt |-> 0, hop |-> 0, turned |-> FALSE,
   quic |-> "off", tcp |-> "off", wait |-> FALSE, conn |-> "none", fresh |-> FALSE,
   stop |-> "no", held |-> "none", retryable |-> FALSE, unprocessed |-> FALSE,
   asked |-> FALSE, acted |-> "no", sends |-> 0, bodies |-> 0]

Late == {"quic", "tcpDialing", "tcpUp"}
Losers == late["quic"] + late["tcpDialing"] + late["tcpUp"]

(* A call that returned: with a stream over this connection, or an error.   *)
Handed(rec) == [NewRequest EXCEPT !.pc = "handed", !.kind = rec.kind, !.conn = rec.conn]
Over(rec) == [NewRequest EXCEPT !.pc = "over", !.kind = rec.kind]

RPTypes ==
  /\ r \in [Requests -> RequestRecord]
  /\ kept \in 0..MaxKept /\ lent \in Nat /\ late \in [Late -> Nat]
  /\ adv \in BOOLEAN /\ broken \in BOOLEAN /\ quicWorks \in BOOLEAN

RPInit ==
  /\ r = [i \in Requests |-> NewRequest]
  /\ kept = 0 /\ lent = 0
  /\ late = [l \in Late |-> 0]
  /\ adv = FALSE /\ broken = FALSE /\ quicWorks = FALSE

-----------------------------------------------------------------------------
(* What the steps are made of                                              *)

At(i, pc) == r[i].pc = pc
Set(i, rec) == r' = [r EXCEPT ![i] = rec]
To(i, pc) == [r[i] EXCEPT !.pc = pc]

(* The method and the body of the hop under way: a 301, 302 or 303 made it  *)
(* a GET without one (nextRequest).                                         *)
Posting(i) == r[i].kind # "get" /\ ~r[i].turned
Streaming(i) == r[i].kind = "upload" /\ ~r[i].turned
Gone(i) == r[i].stop # "no"

(* A connection given back: kept for the next request, or closed.           *)
GivenBack(n) ==
  /\ lent' = lent - n
  /\ kept' \in {k \in kept..(kept + n) : k <= MaxKept}
Evicted == lent' = lent - 1 /\ UNCHANGED kept

(* The request's own failure.  unprocessed: it was certainly not sent.      *)
Fails(rec, retryable, unprocessed) ==
  [rec EXCEPT !.pc = "failed", !.conn = "none", !.quic = "off", !.tcp = "off",
              !.wait = FALSE, !.retryable = retryable, !.unprocessed = unprocessed]

(* An exchange begun on this hop.                                           *)
Sent(i) == [r[i] EXCEPT !.sends = @ + 1,
                        !.bodies = IF Streaming(i) THEN @ + 1 ELSE @]
(* ... which ended without an answer.                                       *)
Doubt(i, rec, why) == [rec EXCEPT !.acted = IF Posting(i) THEN why ELSE @]

-----------------------------------------------------------------------------
(* DoStream, doStream, attempt                                             *)

Begin(i) ==
  /\ r[i].pc \in {"new", "over"}
  /\ \E k \in Kinds : Set(i, [NewRequest EXCEPT !.pc = "hop", !.kind = k])
  /\ UNCHANGED <<kept, lent, late, adv, broken, quicWorks>>

(* The head of attempt's loop.                                              *)
Hop(i) ==
  /\ At(i, "hop")
  /\ Set(i, IF r[i].stop = "deadline" THEN Fails(r[i], FALSE, FALSE)
            ELSE [To(i, "send") EXCEPT !.sends = 0, !.fresh = FALSE])
  /\ UNCHANGED <<kept, lent, late, adv, broken, quicWorks>>

(* send, before it looks for a connection: an URL or a body it cannot use,  *)
(* or, for good, a demand that the URL, the profile or the proxy rules out. *)
SendRefused(i) ==
  /\ At(i, "send")
  /\ \E retryable \in BOOLEAN : Set(i, Fails(r[i], retryable, FALSE))
  /\ UNCHANGED <<kept, lent, late, adv, broken, quicWorks>>

(* HTTP/3 demanded: there is nothing to race against and to fall back to.   *)
Demands(i) == r[i].kind \in {"h2", "h3"}

SendDemanded(i) ==
  /\ At(i, "send") /\ r[i].kind = "h3"
  /\ Set(i, To(i, "h3"))
  /\ UNCHANGED <<kept, lent, late, adv, broken, quicWorks>>

(* send: over TCP at once.  A streamed body takes no guess.                 *)
ByAltSvc == adv /\ ~broken

SendDirect(i) ==
  /\ At(i, "send") /\ r[i].kind # "h3"
  /\ Streaming(i) \/ Demands(i) \/ (~ByAltSvc /\ (broken \/ FALSE \in Records))
  /\ Set(i, To(i, "dial"))
  /\ UNCHANGED <<kept, lent, late, adv, broken, quicWorks>>

(* send: a guess, raced.  TCP waits when QUIC is known to work and the      *)
(* guess is Alt-Svc's (tcpDelay).                                           *)
SendRace(i) ==
  /\ At(i, "send") /\ ~Streaming(i) /\ ~Demands(i) /\ Losers < MaxLate
  /\ ByAltSvc \/ (~broken /\ TRUE \in Records)
  /\ LET holdBack == ByAltSvc /\ quicWorks
     IN Set(i, [To(i, "race") EXCEPT !.quic = "dialing", !.wait = holdBack,
                                     !.tcp = IF holdBack THEN "off" ELSE "dialing"])
  /\ UNCHANGED <<kept, lent, late, adv, broken, quicWorks>>

-----------------------------------------------------------------------------
(* The race                                                                *)

Racing(i) == At(i, "race")

QuicUp(i) ==
  /\ Racing(i) /\ r[i].quic = "dialing"
  /\ Set(i, [r[i] EXCEPT !.quic = "up"])
  /\ quicWorks' = TRUE
  /\ UNCHANGED <<kept, lent, late, adv, broken>>

QuicDown(i) ==
  /\ Racing(i) /\ r[i].quic = "dialing"
  /\ Set(i, [r[i] EXCEPT !.quic = "down"])
  /\ UNCHANGED <<kept, lent, late, adv, broken, quicWorks>>

(* The TCP job: s.conn gives a kept connection or makes one.                *)
TcpUp(i) ==
  /\ Racing(i) /\ r[i].tcp = "dialing" /\ ~Gone(i)
  /\ Set(i, [r[i] EXCEPT !.tcp = "up"])
  /\ lent' = lent + 1
  /\ \/ kept' = kept
     \/ kept > 0 /\ ~r[i].fresh /\ kept' = kept - 1
  /\ UNCHANGED <<late, adv, broken, quicWorks>>

TcpDown(i) ==
  /\ Racing(i) /\ r[i].tcp = "dialing"
  /\ Set(i, [r[i] EXCEPT !.tcp = "down"])
  /\ UNCHANGED <<kept, lent, late, adv, broken, quicWorks>>

(* The delay is over.                                                       *)
RaceWaits(i) ==
  /\ Racing(i) /\ r[i].wait
  /\ Set(i, [r[i] EXCEPT !.wait = FALSE, !.tcp = IF @ = "off" THEN "dialing" ELSE @])
  /\ UNCHANGED <<kept, lent, late, adv, broken, quicWorks>>

(* QUIC won: TCP is called off, and what it brought up goes back later.     *)
RaceQuicWins(i) ==
  /\ Racing(i) /\ r[i].quic = "up"
  /\ Set(i, [To(i, "h3") EXCEPT !.quic = "off", !.tcp = "off", !.wait = FALSE])
  /\ late' = CASE r[i].tcp = "dialing" -> [late EXCEPT !["tcpDialing"] = @ + 1]
               [] r[i].tcp = "up" -> [late EXCEPT !["tcpUp"] = @ + 1]
               [] OTHER -> late
  /\ UNCHANGED <<kept, lent, adv, broken, quicWorks>>

(* Mutant of RaceQuicLoses: the request goes on waiting for a TCP job that  *)
(* has failed already.                                                      *)
RaceQuicLosesLast(i) ==
  /\ Racing(i) /\ r[i].quic = "down"
  /\ broken' = TRUE
  /\ Set(i, [r[i] EXCEPT !.quic = "seen", !.tcp = IF @ = "off" THEN "dialing" ELSE @])
  /\ UNCHANGED <<kept, lent, late, adv, quicWorks>>

(* QUIC failed: the guess is marked broken, and TCP is started if it was    *)
(* held back; if TCP has failed too, so has the request.                    *)
RaceQuicLoses(i) ==
  /\ Racing(i) /\ r[i].quic = "down"
  /\ broken' = TRUE
  /\ Set(i, IF r[i].tcp = "seen" THEN Fails(r[i], TRUE, TRUE)
            ELSE [r[i] EXCEPT !.quic = "seen", !.tcp = IF @ = "off" THEN "dialing" ELSE @])
  /\ UNCHANGED <<kept, lent, late, adv, quicWorks>>

(* TCP won.  That its connection may be a kept one is forgotten; the QUIC   *)
(* dial goes on, and its failure marks the guess broken (settle).           *)
RaceTcpWins(i) ==
  /\ Racing(i) /\ r[i].tcp = "up"
  /\ Set(i, [To(i, "trip") EXCEPT !.conn = "new", !.quic = "off", !.tcp = "off", !.wait = FALSE])
  /\ late' = IF r[i].quic = "dialing" THEN [late EXCEPT !["quic"] = @ + 1] ELSE late
  /\ broken' = (broken \/ r[i].quic = "down")
  /\ UNCHANGED <<kept, lent, adv, quicWorks>>

RaceTcpLoses(i) ==
  /\ Racing(i) /\ r[i].tcp = "down"
  /\ Set(i, IF r[i].quic = "seen" THEN Fails(r[i], TRUE, TRUE)
            ELSE [r[i] EXCEPT !.tcp = "seen"])
  /\ UNCHANGED <<kept, lent, late, adv, broken, quicWorks>>

(* What a decided race left behind comes to its end.                        *)
LateQuic ==
  /\ late["quic"] > 0
  /\ late' = [late EXCEPT !["quic"] = @ - 1]
  /\ \/ quicWorks' = TRUE /\ UNCHANGED broken
     \/ broken' = TRUE /\ UNCHANGED quicWorks
  /\ UNCHANGED <<r, kept, lent, adv>>

LateTcp ==
  /\ late["tcpDialing"] > 0
  /\ \/ /\ late' = [late EXCEPT !["tcpDialing"] = @ - 1, !["tcpUp"] = @ + 1]
        /\ lent' = lent + 1
     \/ /\ late' = [late EXCEPT !["tcpDialing"] = @ - 1]
        /\ UNCHANGED lent
  /\ UNCHANGED <<r, kept, adv, broken, quicWorks>>

LateRelease ==
  /\ late["tcpUp"] > 0
  /\ late' = [late EXCEPT !["tcpUp"] = @ - 1]
  /\ GivenBack(1)
  /\ UNCHANGED <<r, adv, broken, quicWorks>>

-----------------------------------------------------------------------------
(* The exchange                                                            *)

H3Answered(i) ==
  /\ At(i, "h3") /\ ~Gone(i)
  /\ Set(i, [Sent(i) EXCEPT !.pc = "answer"])
  /\ UNCHANGED <<kept, lent, late, adv, broken, quicWorks>>

(* Whatever ended a guess, a caller's cancellation too: it is marked broken *)
(* and the request goes on over TCP.                                        *)
H3Fails(i) ==
  /\ At(i, "h3") /\ ~Demands(i)
  /\ \E rec \in {Sent(i), Doubt(i, Sent(i), "guess")} : Set(i, [rec EXCEPT !.pc = "dial"])
  /\ broken' = TRUE
  /\ UNCHANGED <<kept, lent, late, adv, quicWorks>>

(* sendH3 for a demand: the dial, the exchange or the decoding failed.      *)
H3Ends(i) ==
  /\ At(i, "h3") /\ Demands(i)
  /\ \E rec \in {Sent(i), Doubt(i, Sent(i), "net")} : Set(i, Fails(rec, TRUE, FALSE))
  /\ UNCHANGED <<kept, lent, late, adv, broken, quicWorks>>

Dial(i) ==
  /\ At(i, "dial") /\ ~Gone(i)
  /\ lent' = lent + 1
  /\ \/ Set(i, [To(i, "trip") EXCEPT !.conn = "new"]) /\ kept' = kept
     \/ /\ kept > 0 /\ ~r[i].fresh
        /\ Set(i, [To(i, "trip") EXCEPT !.conn = "kept"]) /\ kept' = kept - 1
  /\ UNCHANGED <<late, adv, broken, quicWorks>>

DialFails(i) ==
  /\ At(i, "dial")
  /\ Set(i, Fails(r[i], TRUE, TRUE))
  /\ UNCHANGED <<kept, lent, late, adv, broken, quicWorks>>

(* HTTP/2 was demanded and the server negotiated something else: the        *)
(* connection goes back and a retry would end the same.                     *)
WrongProtocol(i) ==
  /\ At(i, "trip") /\ r[i].kind = "h2"
  /\ Set(i, Fails(r[i], FALSE, FALSE))
  /\ GivenBack(1)
  /\ UNCHANGED <<late, adv, broken, quicWorks>>

TripAnswered(i) ==
  /\ At(i, "trip") /\ ~Gone(i)
  /\ Set(i, [Sent(i) EXCEPT !.pc = "answer"])
  /\ UNCHANGED <<kept, lent, late, adv, broken, quicWorks>>

(* Once more on a new connection: only after a kept one.                    *)
MayResend(i) == r[i].conn = "kept" /\ ~Streaming(i) /\ ~Gone(i)

Resent(rec) == [rec EXCEPT !.pc = "send", !.conn = "none", !.fresh = TRUE]

(* The connection died under the request before a response header, or       *)
(* HTTP/2 refused the stream.                                               *)
TripDropped(i) ==
  /\ At(i, "trip")
  /\ \E refused \in BOOLEAN :
       Set(i, IF MayResend(i)
              THEN Resent(IF refused THEN Sent(i) ELSE Doubt(i, Sent(i), "kept"))
              ELSE IF refused THEN Fails(Sent(i), TRUE, TRUE)
                   ELSE Fails(Doubt(i, Sent(i), "net"), TRUE, FALSE))
  /\ Evicted
  /\ UNCHANGED <<late, adv, broken, quicWorks>>

(* Any other end: a reset stream, a response cut off, a limit that ran out. *)
TripFails(i) ==
  /\ At(i, "trip")
  /\ Set(i, Fails(Doubt(i, Sent(i), "net"), TRUE, FALSE))
  /\ GivenBack(1)
  /\ UNCHANGED <<late, adv, broken, quicWorks>>

-----------------------------------------------------------------------------
(* The answer                                                              *)

(* Mutant of Returned: both the body's Close and the stream's release it.   *)
ReturnedTwice(i) == IF r[i].conn = "none" THEN UNCHANGED <<kept, lent>> ELSE GivenBack(2)

Returned(i) == IF r[i].conn = "none" THEN UNCHANGED <<kept, lent>> ELSE GivenBack(1)

(* A status the server invites a retry with: the response is held.          *)
AnswerHeld(i) ==
  /\ At(i, "answer") /\ Attempts > 0 /\ r[i].kind # "upload"
  /\ LET rec == Fails(r[i], TRUE, FALSE)
     IN Set(i, [rec EXCEPT !.held = IF r[i].conn = "none" THEN "h3" ELSE "tcp",
                           !.acted = IF r[i].kind = "get" THEN @ ELSE "status"])
  /\ UNCHANGED <<kept, lent, late, adv, broken, quicWorks>>

(* A redirect that is followed (nextRequest): 301 to 303 turn it to a GET.  *)
(* A 307 or 308 would repeat a streamed body, and is not followed then.     *)
AnswerRedirect(i) ==
  /\ At(i, "answer")
  /\ \E turns \in (IF r[i].kind = "upload" THEN {TRUE} ELSE BOOLEAN) :
       Set(i, IF r[i].hop >= MaxHops THEN Fails(r[i], FALSE, FALSE)
              ELSE [To(i, "hop") EXCEPT !.hop = @ + 1, !.conn = "none", !.turned = @ \/ turns,
                                        !.acted = IF ~Posting(i) THEN @
                                                  ELSE IF turns THEN "redirect" ELSE "no"])
  /\ Returned(i)
  /\ UNCHANGED <<late, adv, broken, quicWorks>>

AnswerFinal(i) ==
  /\ At(i, "answer")
  /\ Set(i, [To(i, "final") EXCEPT !.acted = "no"])
  /\ UNCHANGED <<kept, lent, late, adv, broken, quicWorks>>

(* Mutant of Forbidden: Methods lifts the ban for network failures too.     *)
ForbiddenMethod(i) == r[i].kind # "get" /\ ~Listed

(* doStream: what is not to be repeated.                                    *)
Forbidden(i) ==
  /\ r[i].kind # "get"
  /\ ~Listed \/ (r[i].held = "none" /\ ~r[i].unprocessed)

MayRetry(i) ==
  r[i].retryable /\ r[i].attempt < Attempts /\ r[i].kind # "upload" /\ ~Forbidden(i)

(* The response held, if there is one, or the error.                        *)
HeldOr(i) ==
  IF r[i].held = "none" THEN Over(r[i])
  ELSE [To(i, "final") EXCEPT !.conn = IF r[i].held = "tcp" THEN "new" ELSE "none",
                              !.held = "none"]

(* No retry, or no time for its wait.                                       *)
GiveUp(i) ==
  /\ At(i, "failed")
  /\ ~MayRetry(i) \/ "deadline" \in Troubles
  /\ Set(i, HeldOr(i))
  /\ UNCHANGED <<kept, lent, late, adv, broken, quicWorks>>

Backoff(i) ==
  /\ At(i, "failed") /\ MayRetry(i)
  /\ Set(i, To(i, "backoff"))
  /\ UNCHANGED <<kept, lent, late, adv, broken, quicWorks>>

BackoffRunsOut(i) ==
  /\ At(i, "backoff") /\ r[i].stop = "deadline"
  /\ Set(i, HeldOr(i))
  /\ UNCHANGED <<kept, lent, late, adv, broken, quicWorks>>

Again(i) == [To(i, "hop") EXCEPT !.attempt = @ + 1, !.hop = 0, !.turned = FALSE,
                                 !.held = "none", !.stop = IF @ = "late" THEN "no" ELSE @,
                                 !.acted = IF @ \in {"kept", "guess"} THEN "again" ELSE @]

(* Mutant of BackoffEnds: the held response is simply forgotten.            *)
BackoffEndsForgets(i) ==
  /\ At(i, "backoff")
  /\ Set(i, Again(i))
  /\ UNCHANGED <<kept, lent, late, adv, broken, quicWorks>>

(* The next attempt; what was held is discarded, its connection released.   *)
BackoffEnds(i) ==
  /\ At(i, "backoff")
  /\ Set(i, Again(i))
  /\ IF r[i].held = "tcp" THEN GivenBack(1) ELSE UNCHANGED <<kept, lent>>
  /\ UNCHANGED <<late, adv, broken, quicWorks>>

(* noteAltSvc, for the response DoStream is about to hand out: an           *)
(* advertisement, none, or "clear", which forgets the failures too.         *)
NoteAltSvc ==
  \/ UNCHANGED <<adv, broken>>
  \/ adv' = TRUE /\ UNCHANGED broken
  \/ adv' = FALSE /\ broken' = FALSE

HandOver(i) ==
  /\ At(i, "final")
  /\ Set(i, Handed(r[i]))
  /\ IF r[i].asked THEN UNCHANGED <<adv, broken>> ELSE NoteAltSvc
  /\ UNCHANGED <<kept, lent, late, quicWorks>>

(* Critical-CH: the navigation starts over, once, with a budget of its own. *)
AskAgain(i) ==
  /\ At(i, "final") /\ Critical /\ r[i].kind = "get" /\ ~r[i].asked
  /\ Set(i, [NewRequest EXCEPT !.pc = "hop", !.kind = "get", !.asked = TRUE,
                               !.stop = IF r[i].stop = "cancel" THEN "cancel" ELSE "no"])
  /\ NoteAltSvc
  /\ Returned(i)
  /\ UNCHANGED <<late, quicWorks>>

CloseStream(i) ==
  /\ At(i, "handed")
  /\ Set(i, Over(r[i]))
  /\ Returned(i)
  /\ UNCHANGED <<late, adv, broken, quicWorks>>

-----------------------------------------------------------------------------
(* Outside: limits and cancellations, the clock, and the other requests of  *)
(* the session, which leave connections and advertisements behind           *)

Stop(i, why) ==
  /\ r[i].pc \notin {"new", "handed", "over"} /\ r[i].stop = "no"
  /\ why = "late" => r[i].pc \in {"h3", "trip"}
  /\ Set(i, [r[i] EXCEPT !.stop = why])
  /\ UNCHANGED <<kept, lent, late, adv, broken, quicWorks>>

Elsewhere ==
  /\ \/ adv' = ~adv /\ UNCHANGED <<broken, kept>>
     \/ broken' = ~broken /\ UNCHANGED <<adv, kept>>
     \/ kept' \in (0..MaxKept) \ {kept} /\ UNCHANGED <<adv, broken>>
  /\ UNCHANGED <<r, lent, late, quicWorks>>

-----------------------------------------------------------------------------
Race(i) == \/ QuicUp(i) \/ QuicDown(i) \/ TcpUp(i) \/ TcpDown(i) \/ RaceWaits(i)
           \/ RaceQuicWins(i) \/ RaceQuicLoses(i) \/ RaceTcpWins(i) \/ RaceTcpLoses(i)

Exchange(i) == \/ H3Answered(i) \/ H3Fails(i) \/ H3Ends(i) \/ Dial(i) \/ DialFails(i)
               \/ WrongProtocol(i) \/ TripAnswered(i) \/ TripDropped(i) \/ TripFails(i)

Decide(i) == \/ Hop(i) \/ SendRefused(i) \/ SendDemanded(i) \/ SendDirect(i) \/ SendRace(i)
             \/ AnswerHeld(i) \/ AnswerRedirect(i) \/ AnswerFinal(i) \/ GiveUp(i)
             \/ Backoff(i) \/ BackoffRunsOut(i) \/ BackoffEnds(i) \/ HandOver(i) \/ AskAgain(i)

Progress(i) == Race(i) \/ Exchange(i) \/ Decide(i)
Leftover == LateQuic \/ LateTcp \/ LateRelease

RPNext ==
  \/ \E i \in Requests : \/ Begin(i) \/ Progress(i) \/ CloseStream(i)
                         \/ \E why \in Troubles : Stop(i, why)
  \/ Leftover \/ Elsewhere

RPSpec == RPInit /\ [][RPNext]_rpVars

-----------------------------------------------------------------------------
(* Properties                                                              *)

(* The connection an exchange is over, one a held response came over, one   *)
(* that a race brought up.                                                  *)
OnHop == {i \in Requests : r[i].conn # "none"}
OfHeld == {i \in Requests : r[i].held = "tcp"}
OfRace == {i \in Requests : r[i].tcp = "up"}

(* Every TCP connection whose busy count was raised has exactly one owner   *)
(* that will release it - a hop, a held response, a stream handed out, or   *)
(* the goroutine a decided race left with it - and none has two (a          *)
(* connection that stays busy is lost to the pool for good, stream.go:242). *)
EveryConnectionOwned ==
  lent = late["tcpUp"] + Cardinality(OnHop) + Cardinality(OfHeld) + Cardinality(OfRace)

(* What doStream and send keep from being sent twice.  A retry never        *)
(* repeats a POST that the attempt's last exchange left in doubt, listed in *)
(* Methods or not (doStream, forbidden).  One that died on a kept           *)
(* connection goes again once per hop, and on a new connection (freshConn). *)
(* A streamed body goes out at most once over all attempts, hops, races and *)
(* resends: there is nothing to send again.  A doubt from earlier in the    *)
(* attempt, which a resend or a fallback that cannot dial makes doStream    *)
(* forget, is not in here: it breaks RetryOnlyUnprocessed.                  *)
NoBlindRepeat ==
  \A i \in Requests :
    /\ r[i].pc \in {"h3", "trip"} /\ Posting(i) =>
         /\ r[i].acted # "net"
         /\ r[i].acted = "kept" => r[i].fresh
    /\ r[i].fresh => r[i].conn # "kept"
    /\ r[i].bodies <= 1

(* A retry of a POST after a network failure comes only when the POST was   *)
(* certainly never processed (stream.go:189-193): not after one that was    *)
(* answered with a redirect, nor after one in doubt whose resend off a kept *)
(* connection or fallback from a guess failed to dial.  That resend and     *)
(* that fallback themselves are no retries.                                 *)
RetryOnlyUnprocessed ==
  \A i \in Requests : r[i].pc \in {"h3", "trip"} /\ Posting(i) =>
    r[i].acted \in {"no", "status", "guess", "kept"}

(* Every request that began is answered or fails, however its race, its     *)
(* limits and those it shares the advertisement with fall out.              *)
EveryRequestEnds ==
  \A i \in Requests : []<>(r[i].pc \in {"new", "handed", "over"})
=============================================================================
