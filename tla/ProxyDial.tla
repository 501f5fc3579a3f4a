------------------------------ MODULE ProxyDial -----------------------------
(***************************************************************************)
(* A connection through a proxy (internal/client: dialRaw, dialHTTPProxy,   *)
(* connectProxy in proxy.go; socks5udp.go): CONNECT with its repeats, SOCKS5 *)
(* with its negotiation, and the UDP association that carries HTTP/3, to    *)
(* the end of the session.  Tunnels over an h2 proxy connection are         *)
(* H2Proxy's, those over QUIC MasqueProxy's.                                *)
(***************************************************************************)
EXTENDS Integers, Sequences, SequencesExt, FiniteSets

CONSTANT PdSchemes  (* of the proxies: "http", "https", "socks", and "udp",   *)
                    (* a SOCKS5 proxy that HTTP/3 goes through                *)

ASSUME PdAssumption == PdSchemes \subseteq {"http", "https", "socks", "udp"}

VARIABLES pdDial,   (* the dial                                               *)
          pdSocks,  (* the TCP connections it made, the last in use           *)
          pdConn,   (* how the last stands                                    *)
          pdAssoc,  (* the association: our UDP socket and QUIC over it       *)
          pdShut    (* closeMASQUE: before, the map taken, done               *)

pdVars == <<pdDial, pdSocks, pdConn, pdAssoc, pdShut>>

(* with: the CONNECT carries credentials; again: a connection came before;  *)
(* kept: the CONNECT repeats on the one that had the 407.  Last what the    *)
(* proxy knows: the connection on which the target was named, whether it    *)
(* was named on an earlier one of this dial, and whether its last word on   *)
(* the last one was about credentials.                                      *)
NewPdDial == [pc |-> "idle", scheme |-> "http", creds |-> FALSE, with |-> FALSE, again |-> FALSE,
              kept |-> FALSE, verdict |-> "none", outcome |-> "none", named |-> 0,
              told |-> FALSE, wants |-> FALSE]
NewPdConn == [gone |-> FALSE, unread |-> FALSE, limit |-> FALSE]
NewPdAssoc == [udp |-> "none", quic |-> "none", entered |-> FALSE, watched |-> FALSE]

Outcomes == {"none", "tunnel", "shared", "association", "dial", "auth", "connect", "configuration",
             "closed"}

PdTypeOK ==
  /\ pdDial.pc \in {"idle", "shared", "reach", "connect", "judge", "greet", "login", "command", "relay",
                    "quic", "enter", "over"}
  /\ pdDial.verdict \in {"none", "tunnel", "stray", "need", "needNew", "rejected", "refused", "closed",
                         "dead", "timeout"}
  /\ pdDial.outcome \in Outcomes
  /\ pdSocks \in Seq({"open", "closed", "unmade", "given"}) /\ Len(pdSocks) <= 3
  /\ pdConn \in [gone : BOOLEAN, unread : BOOLEAN, limit : BOOLEAN]
  /\ pdAssoc \in [udp : {"none", "open", "closed"}, quic : {"none", "up", "dead"},
                  entered : BOOLEAN, watched : BOOLEAN]
  /\ pdShut \in {"no", "taken", "done"}

PdInit ==
  /\ \E s \in PdSchemes, c \in BOOLEAN : pdDial = [NewPdDial EXCEPT !.scheme = s, !.creds = c]
  /\ pdSocks = <<>> /\ pdConn = NewPdConn /\ pdAssoc = NewPdAssoc /\ pdShut = "no"

-----------------------------------------------------------------------------
SockIs(state) == pdSocks' = [pdSocks EXCEPT ![Len(pdSocks)] = state]

(* The dial returns, its connection closed unless it is handed on.          *)
PdEnds(outcome, state) ==
  /\ pdDial' = [pdDial EXCEPT !.pc = "over", !.outcome = outcome]
  /\ pdSocks' = IF pdSocks = <<>> THEN <<>> ELSE [pdSocks EXCEPT ![Len(pdSocks)] = state]

-----------------------------------------------------------------------------
(* dialRaw: an https proxy may have an h2 connection, SOCKS never.          *)
BeginsDial ==
  /\ pdDial.pc = "idle"
  /\ pdDial' = [pdDial EXCEPT !.pc = IF pdDial.scheme = "https" THEN "shared" ELSE "reach"]
  /\ UNCHANGED <<pdSocks, pdConn, pdAssoc, pdShut>>

(* takeH2Proxy: there is none, or one that fails under the tunnel, before   *)
(* the CONNECT went out or after; or what comes of it is the dial's.        *)
AsksShared ==
  /\ pdDial.pc = "shared"
  /\ \/ \E told \in BOOLEAN : pdDial' = [pdDial EXCEPT !.pc = "reach", !.told = told]
     \/ pdDial' = [pdDial EXCEPT !.pc = "over", !.outcome = "shared"]
     \/ pdDial' = [pdDial EXCEPT !.pc = "over", !.outcome = "connect", !.named = Len(pdSocks)]
     \/ pdDial' = [pdDial EXCEPT !.pc = "over", !.outcome = "auth", !.wants = TRUE]
  /\ UNCHANGED <<pdSocks, pdConn, pdAssoc, pdShut>>

(* dialProxyConn, and what follows it: no connection, or no TLS over it ...  *)
Unreached ==
  /\ pdDial.pc = "reach"
  /\ \E state \in IF pdDial.scheme = "https" THEN {"unmade", "closed"} ELSE {"unmade"} :
       pdSocks' = Append(pdSocks, state)
  /\ pdDial' = [pdDial EXCEPT !.pc = "over", !.outcome = "dial", !.wants = FALSE]
  /\ UNCHANGED <<pdConn, pdAssoc, pdShut>>

(* ... h2 by ALPN, and the connection is the pool's or, the session closed, *)
(* nobody's (addH2Proxy); a proxy that chose HTTP/1.1 does so again ...     *)
ReachesH2 ==
  /\ pdDial.pc = "reach" /\ pdDial.scheme = "https" /\ ~pdDial.again
  /\ \/ /\ pdShut = "no" /\ pdSocks' = Append(pdSocks, "given")
        /\ \/ pdDial' = [pdDial EXCEPT !.pc = "over", !.outcome = "shared"]
           \/ pdDial' = [pdDial EXCEPT !.pc = "over", !.outcome = "connect",
                                       !.named = Len(pdSocks) + 1]
           \/ pdDial' = [pdDial EXCEPT !.pc = "over", !.outcome = "auth", !.wants = TRUE]
     \/ /\ pdShut # "no" /\ pdSocks' = Append(pdSocks, "closed")
        /\ pdDial' = [pdDial EXCEPT !.pc = "over", !.outcome = "closed"]
  /\ UNCHANGED <<pdConn, pdAssoc, pdShut>>

(* ... or a connection, the deadline on its socket.                         *)
Reaches ==
  /\ pdDial.pc = "reach"
  /\ pdSocks' = Append(pdSocks, "open") /\ pdConn' = [NewPdConn EXCEPT !.limit = TRUE]
  /\ pdDial' = [pdDial EXCEPT !.pc =
                   IF pdDial.scheme \in {"http", "https"} THEN "connect" ELSE "greet"]
  /\ UNCHANGED <<pdAssoc, pdShut>>

-----------------------------------------------------------------------------
(* What a CONNECT meets.  A 407 may come with a body too long to drain or   *)
(* with bytes after it, announce the close, or close without a word.        *)
ConnectAnswers ==
  {[said |-> s, extra |-> FALSE, drains |-> TRUE, closes |-> "no"] :
     s \in {"2xx", "refusal", "hangup", "cut", "silence"}}
  \cup {[said |-> s, extra |-> TRUE, drains |-> TRUE, closes |-> "no"] : s \in {"2xx", "407"}}
  \cup {[said |-> "407", extra |-> FALSE, drains |-> d, closes |-> c] :
          d \in BOOLEAN, c \in {"no", "announced", "quietly"}}

(* connectProxy: what it makes of the answer.                               *)
Verdict(a, with) ==
  CASE a.said = "2xx" -> IF a.extra THEN "stray" ELSE "tunnel"
    [] a.said = "407" ->
         IF with THEN "rejected"
         ELSE IF a.drains /\ ~a.extra /\ a.closes # "announced" THEN "need" ELSE "needNew"
    [] a.said = "refusal" -> "refused"
    [] a.said = "hangup" -> "closed"
    [] a.said = "cut" -> "dead"
    [] OTHER -> "timeout"

(* A connection the proxy has closed answers nothing.                       *)
Connects ==
  /\ pdDial.pc = "connect"
  /\ \E a \in ConnectAnswers :
       /\ pdConn.gone => a.said \in {"hangup", "cut"}
       /\ pdDial' = [pdDial EXCEPT !.pc = "judge", !.verdict = Verdict(a, pdDial.with),
                        !.named = Len(pdSocks), !.wants = (a.said = "407")]
       /\ pdConn' = [pdConn EXCEPT !.unread = @ \/ a.extra \/ ~a.drains,
                       !.gone = @ \/ a.said \in {"hangup", "cut"} \/ a.closes # "no"]
  /\ UNCHANGED <<pdSocks, pdAssoc, pdShut>>

(* Closed, and another dialed for a CONNECT with credentials.               *)
DialsAgain ==
  /\ SockIs("closed") /\ pdConn' = [pdConn EXCEPT !.limit = FALSE]
  /\ pdDial' = [pdDial EXCEPT !.pc = "reach", !.with = TRUE, !.again = TRUE, !.kept = FALSE,
                              !.told = TRUE]
  /\ UNCHANGED <<pdAssoc, pdShut>>

(* A hang-up before any byte stands for the challenge that was not sent.    *)
HangUpRetry ==
  /\ pdDial.pc = "judge" /\ pdDial.verdict = "closed" /\ ~pdDial.with /\ pdDial.creds
  /\ DialsAgain

(* A 407: on the same connection if nothing is left on it.                  *)
ChallengeRetry ==
  /\ pdDial.pc = "judge" /\ pdDial.verdict \in {"need", "needNew"} /\ pdDial.creds
  /\ \/ pdDial.verdict = "needNew" /\ DialsAgain
     \/ /\ pdDial.verdict = "need"
        /\ pdDial' = [pdDial EXCEPT !.pc = "connect", !.with = TRUE, !.kept = TRUE]
        /\ UNCHANGED <<pdSocks, pdConn, pdAssoc, pdShut>>

(* And the connection that was kept had died meanwhile (deadSocket).        *)
DiedMeanwhile == pdDial.verdict \in {"closed", "dead"} /\ pdDial.kept

DeadRetry == pdDial.pc = "judge" /\ DiedMeanwhile /\ DialsAgain

Tunnels ==
  /\ pdDial.pc = "judge" /\ pdDial.verdict = "tunnel"
  /\ PdEnds("tunnel", "open") /\ pdConn' = [pdConn EXCEPT !.limit = FALSE]
  /\ UNCHANGED <<pdAssoc, pdShut>>

(* classifyConnect                                                          *)
Stage(verdict) ==
  IF verdict \in {"need", "needNew", "rejected"} THEN "auth" ELSE "connect"

ProxyRefused ==
  /\ pdDial.pc = "judge" /\ ~DiedMeanwhile
  /\ pdDial.verdict # "tunnel" /\ ~(pdDial.verdict \in {"need", "needNew"} /\ pdDial.creds)
  /\ ~(pdDial.verdict = "closed" /\ ~pdDial.with /\ pdDial.creds)
  /\ PdEnds(Stage(pdDial.verdict), "closed") /\ pdConn' = [pdConn EXCEPT !.limit = FALSE]
  /\ UNCHANGED <<pdAssoc, pdShut>>

-----------------------------------------------------------------------------
(* socks5Auth: the greeting fails or is answered in another language; no    *)
(* method will do; none is needed; or the name and password are, offered or *)
(* not.                                                                     *)
Greets ==
  /\ pdDial.pc = "greet"
  /\ \/ PdEnds("dial", "closed")
     \/ /\ pdDial' = [pdDial EXCEPT !.pc = "over", !.outcome = "auth", !.wants = TRUE]
        /\ SockIs("closed")
     \/ pdDial' = [pdDial EXCEPT !.pc = "command"] /\ UNCHANGED pdSocks
     \/ pdDial' = [pdDial EXCEPT !.pc = "login"] /\ UNCHANGED pdSocks
  /\ UNCHANGED <<pdConn, pdAssoc, pdShut>>

(* Too long, lost on the way, rejected, or taken.                           *)
LogsIn ==
  /\ pdDial.pc = "login"
  /\ \/ PdEnds("configuration", "closed")
     \/ PdEnds("dial", "closed")
     \/ /\ pdDial' = [pdDial EXCEPT !.pc = "over", !.outcome = "auth", !.wants = TRUE]
        /\ SockIs("closed")
     \/ pdDial' = [pdDial EXCEPT !.pc = "command"] /\ UNCHANGED pdSocks
  /\ UNCHANGED <<pdConn, pdAssoc, pdShut>>

(* socks5Command: an address SOCKS cannot say; no reply, or one that        *)
(* refuses; or the tunnel, the reply read to its end, or the relay.         *)
Commands ==
  /\ pdDial.pc = "command"
  /\ \/ PdEnds("configuration", "closed") /\ UNCHANGED pdConn
     \/ /\ pdDial' = [pdDial EXCEPT !.pc = "over", !.outcome = "connect",
                                    !.named = Len(pdSocks), !.wants = FALSE]
        /\ SockIs("closed") /\ UNCHANGED pdConn
     \/ /\ pdDial' = [pdDial EXCEPT !.pc = IF pdDial.scheme = "udp" THEN "relay" ELSE "over",
                        !.outcome = IF pdDial.scheme = "udp" THEN "none" ELSE "tunnel",
                        !.named = Len(pdSocks), !.wants = FALSE]
        /\ pdConn' = [pdConn EXCEPT !.limit = FALSE] /\ UNCHANGED pdSocks
  /\ UNCHANGED <<pdAssoc, pdShut>>

-----------------------------------------------------------------------------
(* socks5Associate from there: the relay's address does not resolve, or the *)
(* target's is one SOCKS cannot say; or the association stands, and somebody*)
(* watches the TCP connection it lives on.                                  *)
Associates ==
  /\ pdDial.pc = "relay"
  /\ \/ PdEnds("connect", "closed") /\ UNCHANGED pdAssoc
     \/ PdEnds("configuration", "closed") /\ UNCHANGED pdAssoc
     \/ /\ pdDial' = [pdDial EXCEPT !.pc = "quic"] /\ UNCHANGED pdSocks
        /\ pdAssoc' = [pdAssoc EXCEPT !.udp = "open", !.watched = TRUE]
  /\ UNCHANGED <<pdConn, pdShut>>

(* Mutant of CloseAssoc: our side of the relay alone.                       *)
CloseUDPAlone ==
  /\ pdAssoc' = [pdAssoc EXCEPT !.udp = "closed", !.quic = IF @ = "up" THEN "dead" ELSE @]
  /\ UNCHANGED pdSocks

(* socksUDP.Close, once: both sockets; QUIC loses its path.                 *)
CloseAssoc ==
  /\ pdAssoc' = [pdAssoc EXCEPT !.udp = "closed", !.quic = IF @ = "up" THEN "dead" ELSE @]
  /\ SockIs("closed")

(* DialEarly over the relay.                                                *)
RelayedQuicFails ==
  /\ pdDial.pc = "quic" /\ CloseAssoc
  /\ pdDial' = [pdDial EXCEPT !.pc = "over", !.outcome = "connect"]
  /\ UNCHANGED <<pdConn, pdShut>>

RelayedQuicUp ==
  /\ pdDial.pc = "quic" /\ pdAssoc.udp = "open"
  /\ pdAssoc' = [pdAssoc EXCEPT !.quic = "up"] /\ pdDial' = [pdDial EXCEPT !.pc = "enter"]
  /\ UNCHANGED <<pdSocks, pdConn, pdShut>>

(* Among the session's, or too late for it; AfterFunc is set at once.       *)
EntersSession ==
  /\ pdDial.pc = "enter"
  /\ \/ /\ pdShut = "no" /\ pdDial' = [pdDial EXCEPT !.pc = "over", !.outcome = "association"]
        /\ pdAssoc' = [pdAssoc EXCEPT !.entered = TRUE] /\ UNCHANGED pdSocks
     \/ /\ pdShut # "no" /\ pdDial' = [pdDial EXCEPT !.pc = "over", !.outcome = "closed"]
        /\ CloseAssoc
  /\ UNCHANGED <<pdConn, pdShut>>

(* The proxy ends the TCP connection, at any time.                          *)
ControlLost ==
  /\ pdAssoc.watched /\ ~pdConn.gone /\ pdConn' = [pdConn EXCEPT !.gone = TRUE]
  /\ UNCHANGED <<pdDial, pdSocks, pdAssoc, pdShut>>

(* The goroutine that watches it, by whichever end it was closed.           *)
ControlEnds ==
  /\ pdAssoc.watched /\ (pdConn.gone \/ Last(pdSocks) = "closed")
  /\ pdAssoc' = [pdAssoc EXCEPT !.watched = FALSE, !.udp = "closed",
                                !.quic = IF @ = "up" THEN "dead" ELSE @]
  /\ SockIs("closed") /\ UNCHANGED <<pdDial, pdConn, pdShut>>

QuicDies ==
  /\ pdAssoc.quic = "up" /\ pdAssoc' = [pdAssoc EXCEPT !.quic = "dead"]
  /\ UNCHANGED <<pdDial, pdSocks, pdConn, pdShut>>

(* context.AfterFunc of the QUIC connection.                                *)
AfterQuic ==
  /\ pdAssoc.quic = "dead" /\ pdDial.outcome = "association" /\ pdAssoc.entered
  /\ pdAssoc' = [pdAssoc EXCEPT !.entered = FALSE, !.udp = "closed"]
  /\ SockIs("closed") /\ UNCHANGED <<pdDial, pdConn, pdShut>>

(* closeMASQUE: the map is taken under the lock, what it held closed after. *)
ShutBegins ==
  /\ pdShut = "no" /\ pdShut' = "taken"
  /\ UNCHANGED <<pdDial, pdSocks, pdConn, pdAssoc>>

ShutCloses ==
  /\ pdShut = "taken" /\ pdShut' = "done"
  /\ IF pdAssoc.entered THEN CloseAssoc ELSE UNCHANGED <<pdSocks, pdAssoc>>
  /\ UNCHANGED <<pdDial, pdConn>>

PdNext ==
  \/ BeginsDial \/ AsksShared \/ Unreached \/ ReachesH2 \/ Reaches \/ Connects
  \/ HangUpRetry \/ ChallengeRetry \/ DeadRetry \/ Tunnels \/ ProxyRefused
  \/ Greets \/ LogsIn \/ Commands \/ Associates \/ RelayedQuicFails \/ RelayedQuicUp \/ EntersSession
  \/ ControlLost \/ ControlEnds \/ QuicDies \/ AfterQuic \/ ShutBegins \/ ShutCloses

PdSpec == PdInit /\ [][PdNext]_pdVars

-----------------------------------------------------------------------------
(* Properties                                                               *)

(* Whatever way a dial ends, it leaves nothing behind: the connections it   *)
(* gave up are closed, the one it hands on is read to where the target's    *)
(* bytes begin and has no limit left on it; and an association has, as long *)
(* as a socket of it is open, somebody who will close it - the dial, the    *)
(* end of its QUIC connection, the session - on both its sockets            *)
(* (dialHTTPProxy; socksUDP.Close, dialH3ViaSOCKS5, closeMASQUE).           *)
DialLeavesNothing ==
  /\ \A i \in DOMAIN pdSocks : i < Len(pdSocks) => pdSocks[i] # "open"
  /\ pdDial.pc = "over" =>
       /\ "open" \in ToSet(pdSocks) => pdDial.outcome \in {"tunnel", "association"}
       /\ pdDial.outcome = "tunnel" =>
            Last(pdSocks) = "open" /\ ~pdConn.unread /\ ~pdConn.limit /\ ~pdConn.gone
       /\ pdDial.outcome = "association" /\ (pdAssoc.udp = "open" \/ Last(pdSocks) = "open") =>
            pdAssoc.entered /\ pdShut # "done"

(* The stage is true, for a pool that drops, rests or keeps the proxy by it *)
(* (errors.go, ProxyError), over the repeats on this and on other           *)
(* connections: "auth" exactly if the proxy's last word on the last one was *)
(* that it wants credentials, given or not; "connect" only if the target    *)
(* was named on the last one; "dial" only if it was never asked for - but   *)
(* for the dial that repeats a CONNECT, after a 407, a hang-up or a shared  *)
(* connection that failed under it, and reaches no proxy: its target was    *)
(* asked for before, whatever errors.go:103-104 says.                       *)
StageIsTrue ==
  pdDial.pc = "over" =>
    /\ pdDial.outcome = "auth" <=> pdDial.wants
    /\ pdDial.outcome = "dial" =>
         /\ pdDial.named # Len(pdSocks)
         /\ pdDial.named # 0 => pdDial.told
    /\ pdDial.outcome = "connect" => pdDial.named = Len(pdSocks)

(* A dial through a proxy ends right: in what it leaves and what it says.   *)
DialEndsRight == DialLeavesNothing /\ StageIsTrue
=============================================================================
