----------------------------- MODULE H3Transport ----------------------------
(***************************************************************************)
(* The HTTP/3 transport of a session, for one host (internal/h3:           *)
(* transport.go, client.go, conn.go; internal/client/http3.go): one QUIC   *)
(* connection in the map at a time, dialled by the first request and       *)
(* shared by the next; the streams of the connection; GOAWAY; Close.       *)
(* QUIC itself is external: a connection comes up, or dies, when it will.  *)
(***************************************************************************)
EXTENDS Integers, FiniteSets

CONSTANTS H3Requests,  (* goroutines in RoundTrip or Connect, one call each  *)
          H3MaxConns,  (* bound: QUIC connections dialled                    *)
          H3MaxStreams (* bound: streams opened on one connection            *)

ASSUME H3Assumption ==
  IsFiniteSet(H3Requests) /\ H3MaxConns \in Nat \ {0} /\ H3MaxStreams \in Nat

VARIABLES h3client,  (* Transport.clients[hostname], 0 for none              *)
          h3conn,    (* the connections, whether or not they are in the map  *)
          h3req,     (* the requests                                         *)
          h3state    (* Transport.closed; "closing": Close holds the mutex   *)

h3Vars == <<h3client, h3conn, h3req, h3state>>

H3Conns == 1..H3MaxConns
StreamIDs == 1..H3MaxStreams
NoLimit == H3MaxStreams + 1       (* maxStreamID = invalidStreamID           *)

(* last: lastStreamID.  goaway: the control stream's handler has written    *)
(* maxStreamID and has not yet looked at the streams.  Ghost failed: a      *)
(* request has failed on the connection because it was dead or going away. *)
H3ConnRecord ==
  [dial: {"none", "dialing", "up", "failed"}, owner: H3Requests \cup {0}, cancelled: BOOLEAN,
   alive: BOOLEAN, next: 1..NoLimit, last: 0..H3MaxStreams, max: 1..NoLimit,
   streams: SUBSET StreamIDs, goaway: BOOLEAN, failed: BOOLEAN]

NewH3Conn == [dial |-> "none", owner |-> 0, cancelled |-> FALSE, alive |-> FALSE, next |-> 1,
              last |-> 0, max |-> NoLimit, streams |-> {}, goaway |-> FALSE, failed |-> FALSE]

H3Request ==
  [pc: {"idle", "dial", "drop", "open", "opening", "opened", "track", "trip"},
   conn: 0..H3MaxConns, stream: 0..H3MaxStreams, connect: BOOLEAN]

H3Idle == [pc |-> "idle", conn |-> 0, stream |-> 0, connect |-> FALSE]

H3TypeOK ==
  /\ h3client \in 0..H3MaxConns /\ h3state \in {"open", "closing", "closed"}
  /\ h3conn \in [H3Conns -> H3ConnRecord] /\ h3req \in [H3Requests -> H3Request]

H3Init ==
  /\ h3client = 0 /\ h3state = "open"
  /\ h3conn = [c \in H3Conns |-> NewH3Conn] /\ h3req = [q \in H3Requests |-> H3Idle]

-----------------------------------------------------------------------------
H3Step(q, pc) == h3req' = [h3req EXCEPT ![q].pc = pc]
H3Over(q) == h3req' = [h3req EXCEPT ![q] = H3Idle]
Unlocked == h3state # "closing"           (* Transport.mutex                 *)
OnConn(q) == h3conn[h3req[q].conn]

(* getClient: the connection of the map whatever has become of it, a dial   *)
(* of its own under the request's context, or the error of a dial that has  *)
(* failed and was not yet taken out.                                        *)
Joins(q, connect) ==
  /\ h3client # 0 /\ h3conn[h3client].dial # "failed"
  /\ h3req' = [h3req EXCEPT ![q] = [H3Idle EXCEPT !.pc = "dial", !.conn = h3client,
                                                  !.connect = connect]]
  /\ UNCHANGED <<h3client, h3conn>>

Dials(q, connect) ==
  /\ h3client = 0
  /\ \E c \in H3Conns :
       /\ h3conn[c].dial = "none" /\ \A d \in 1..(c - 1) : h3conn[d].dial # "none"
       /\ h3client' = c
       /\ h3conn' = [h3conn EXCEPT ![c].dial = "dialing", ![c].owner = q]
       /\ h3req' = [h3req EXCEPT ![q] = [H3Idle EXCEPT !.pc = "dial", !.conn = c,
                                                       !.connect = connect]]

FindsDialFailed ==
  /\ h3client # 0 /\ h3conn[h3client].dial = "failed"
  /\ h3client' = 0 /\ UNCHANGED <<h3conn, h3req>>

GetClient(q) ==
  /\ h3req[q].pc = "idle" /\ h3state = "open"
  /\ \E connect \in BOOLEAN : Joins(q, connect) \/ Dials(q, connect) \/ FindsDialFailed
  /\ UNCHANGED h3state

(* The dial's goroutine.  Its context is the first request's: a cancelled   *)
(* one can only fail, for everyone who waits.                               *)
H3DialUp(c) ==
  /\ h3conn[c].dial = "dialing" /\ ~h3conn[c].cancelled
  /\ h3conn' = [h3conn EXCEPT ![c].dial = "up", ![c].alive = TRUE]
  /\ UNCHANGED <<h3client, h3req, h3state>>

H3DialFails(c) ==
  /\ h3conn[c].dial = "dialing"
  /\ h3conn' = [h3conn EXCEPT ![c].dial = "failed"]
  /\ UNCHANGED <<h3client, h3req, h3state>>

(* The select on cl.dialing and the request's context.                      *)
WaitCancelled(q) ==
  /\ h3req[q].pc = "dial"
  /\ h3conn' = [h3conn EXCEPT ![h3req[q].conn].cancelled = @ \/ OnConn(q).owner = q]
  /\ H3Over(q) /\ UNCHANGED <<h3client, h3state>>

WaitFailed(q) ==
  /\ h3req[q].pc = "dial" /\ OnConn(q).dial = "failed"
  /\ H3Step(q, "drop") /\ UNCHANGED <<h3client, h3conn, h3state>>

(* removeClient: by the name, whatever connection the map holds by then.    *)
RemoveClient(q) ==
  /\ h3req[q].pc = "drop" /\ Unlocked
  /\ h3client' = 0 /\ H3Over(q) /\ UNCHANGED <<h3conn, h3state>>

WaitOver(q) ==
  /\ h3req[q].pc = "dial" /\ OnConn(q).dial = "up" /\ ~h3req[q].connect
  /\ H3Step(q, "open") /\ UNCHANGED <<h3client, h3conn, h3state>>

(* Connect: the handshake is done, and a connection that has died since may *)
(* be seen as either.                                                       *)
ConnectOver(q) ==
  /\ h3req[q].pc = "dial" /\ OnConn(q).dial = "up" /\ h3req[q].connect
  /\ \/ H3Over(q)
     \/ ~OnConn(q).alive /\ H3Step(q, "drop")
  /\ UNCHANGED <<h3client, h3conn, h3state>>

-----------------------------------------------------------------------------
(* openRequestStream.  A refusal reaches doRoundTripOpt as an error of the  *)
(* round trip, which is returned: DisableInternalRetry leaves the           *)
(* connection in the map.                                                   *)
TripFailsOnConn(q) ==
  /\ h3conn' = [h3conn EXCEPT ![h3req[q].conn].failed = TRUE]
  /\ H3Over(q) /\ UNCHANGED <<h3client, h3state>>

MayOpen(c) ==
  \/ h3conn[c].max = NoLimit
  \/ h3conn[c].last + 1 < h3conn[c].max

OpenChecks(q) ==
  /\ h3req[q].pc = "open" /\ MayOpen(h3req[q].conn)
  /\ H3Step(q, "opening") /\ UNCHANGED <<h3client, h3conn, h3state>>

OpenRefused(q) ==
  /\ h3req[q].pc = "open" /\ ~MayOpen(h3req[q].conn)
  /\ TripFailsOnConn(q)

OpenStream(q) ==
  /\ h3req[q].pc = "opening" /\ OnConn(q).alive /\ OnConn(q).next \in StreamIDs
  /\ h3req' = [h3req EXCEPT ![q].pc = "opened", ![q].stream = OnConn(q).next]
  /\ h3conn' = [h3conn EXCEPT ![h3req[q].conn].next = @ + 1]
  /\ UNCHANGED <<h3client, h3state>>

OpenDead(q) ==
  /\ h3req[q].pc = "opening" /\ ~OnConn(q).alive
  /\ TripFailsOnConn(q)

Larger(i, j) == IF i < j THEN j ELSE i

(* The second look at maxStreamID: a GOAWAY may have come meanwhile.        *)
OpenAgain(q) ==
  /\ h3req[q].pc = "opened"
  /\ LET s == h3req[q].stream
         noted == [h3conn EXCEPT ![h3req[q].conn].last = Larger(@, s)]
     IN \/ s < OnConn(q).max /\ H3Step(q, "track") /\ h3conn' = noted
        \/ /\ s >= OnConn(q).max /\ H3Over(q)
           /\ h3conn' = [noted EXCEPT ![h3req[q].conn].failed = TRUE]
  /\ UNCHANGED <<h3client, h3state>>

TrackStream(q) ==
  /\ h3req[q].pc = "track"
  /\ h3conn' = [h3conn EXCEPT ![h3req[q].conn].streams = @ \cup {h3req[q].stream}]
  /\ H3Step(q, "trip") /\ UNCHANGED <<h3client, h3state>>

(* Mutant of ClearStream: the streams are looked at before the one that is  *)
(* over is taken out.                                                       *)
ClearStreamLate(q) ==
  /\ h3req[q].pc = "trip"
  /\ LET c == h3req[q].conn
     IN h3conn' = [h3conn EXCEPT ![c].streams = @ \ {h3req[q].stream},
                                 ![c].failed = @ \/ ~h3conn[c].alive]
  /\ H3Over(q) /\ UNCHANGED <<h3client, h3state>>

(* The second of the stream's two halves is over, and clearStream takes it  *)
(* off the connection; onStreamsEmpty closes one that is going away.  With  *)
(* the connection dead the round trip, or its body, fails.                  *)
ClearStream(q) ==
  /\ h3req[q].pc = "trip"
  /\ LET c == h3req[q].conn
         left == h3conn[c].streams \ {h3req[q].stream}
     IN h3conn' = [h3conn EXCEPT ![c].streams = left,
                                 ![c].failed = @ \/ ~h3conn[c].alive,
                                 ![c].alive = @ /\ ~(left = {} /\ h3conn[c].max # NoLimit)]
  /\ H3Over(q) /\ UNCHANGED <<h3client, h3state>>

(* The control stream.  A GOAWAY that raises the limit is an error that     *)
(* closes the connection; any other is noted, and the streams are looked at *)
(* under a lock of their own.                                               *)
GoAway(c) ==
  /\ h3conn[c].alive /\ ~h3conn[c].goaway
  /\ \E limit \in 1..H3MaxStreams :
       \/ /\ limit <= h3conn[c].max
          /\ h3conn' = [h3conn EXCEPT ![c].max = limit, ![c].goaway = TRUE]
       \/ /\ limit > h3conn[c].max
          /\ h3conn' = [h3conn EXCEPT ![c].alive = FALSE]
  /\ UNCHANGED <<h3client, h3req, h3state>>

GoAwayLooks(c) ==
  /\ h3conn[c].goaway
  /\ h3conn' = [h3conn EXCEPT ![c].goaway = FALSE,
                              ![c].alive = @ /\ h3conn[c].streams # {}]
  /\ UNCHANGED <<h3client, h3req, h3state>>

(* An idle timeout, a reset, an error of the peer's.                        *)
ConnDies(c) ==
  /\ h3conn[c].alive
  /\ h3conn' = [h3conn EXCEPT ![c].alive = FALSE]
  /\ UNCHANGED <<h3client, h3req, h3state>>

-----------------------------------------------------------------------------
(* Close, under the mutex from the cancelled dial to its end; closeH3 then  *)
(* closes the UDP transports, and with them whatever the map had lost.      *)
H3CloseBegins ==
  /\ h3state = "open" /\ h3state' = "closing"
  /\ h3conn' = [c \in H3Conns |-> [h3conn[c] EXCEPT !.cancelled = @ \/ c = h3client]]
  /\ UNCHANGED <<h3client, h3req>>

H3CloseEnds ==
  /\ h3state = "closing"
  /\ h3client # 0 => h3conn[h3client].dial # "dialing"
  /\ h3state' = "closed" /\ h3client' = 0
  /\ h3conn' = [c \in H3Conns |-> [h3conn[c] EXCEPT !.alive = FALSE]]
  /\ UNCHANGED h3req

H3Moves(q) ==
  \/ WaitFailed(q) \/ RemoveClient(q) \/ WaitOver(q) \/ ConnectOver(q) \/ OpenChecks(q)
  \/ OpenRefused(q) \/ OpenStream(q) \/ OpenDead(q) \/ OpenAgain(q) \/ TrackStream(q)
  \/ ClearStream(q)

H3Next ==
  \/ \E q \in H3Requests : GetClient(q) \/ WaitCancelled(q) \/ H3Moves(q)
  \/ \E c \in H3Conns :
       H3DialUp(c) \/ H3DialFails(c) \/ GoAway(c) \/ GoAwayLooks(c) \/ ConnDies(c)
  \/ H3CloseBegins \/ H3CloseEnds

-----------------------------------------------------------------------------
(* A connection the server has said GOAWAY on is closed once its streams    *)
(* are over, however the GOAWAY falls among a request's two looks at the    *)
(* limit, the tracking of its stream and the end of the others (client.go,  *)
(* handleControlStream and onStreamsEmpty).                                 *)
GoneAwayCloses ==
  \A c \in H3Conns : []<>(h3conn[c].max # NoLimit => ~h3conn[c].alive)

(* A request that failed because the connection was dead is not given that  *)
(* connection again: "send() has already thrown the connection out of the   *)
(* pool, so the retry will raise TLS anew" (stream.go, attempt).            *)
RetryDialsAnew ==
  [][\A q \in H3Requests :
       h3req[q].pc = "idle" /\ h3req'[q].pc = "dial" => ~h3conn[h3req'[q].conn].failed]_h3Vars
=============================================================================
