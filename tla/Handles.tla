------------------------------- MODULE Handles -------------------------------
(***************************************************************************)
(* The handles of the C ABI (lib/curlpro.go, stream.go, websocket.go,       *)
(* rawconn.go) and what they stand for (client/upgrade.go, h2tunnel.go,     *)
(* DialWebSocket): a call finds its session, opens something, registers it  *)
(* and hands its number over; reads and closes of other threads find it by  *)
(* that number; an asynchronous open may be cancelled at any moment; the    *)
(* session may be closed at any moment.                                     *)
(***************************************************************************)
EXTENDS FiniteSets

CONSTANT HdCalls  (* the opens, each with the handle it makes                *)

VARIABLES hdSession,  (* listed in the registry; Session.closed              *)
          hdCall,     (* the opens, until the number is given or given up    *)
          hdConn,     (* the connection, or the share of one, each has taken *)
          hdTable,    (* streams, sockets, conns: the registered handles     *)
          hdTaken,    (* handles a close has taken out and not yet closed    *)
          hdBodies,   (* bodies: the streamed request bodies registered      *)
          hdErr,      (* openStream.err, rawEntry.err                        *)
          hdRead,     (* the thread that reads                               *)
          hdFailed,   (* history: a read of the handle failed while it was   *)
                      (* registered                                          *)
          hdTold      (* history: somebody was told why                      *)

hdVars == <<hdSession, hdCall, hdConn, hdTable, hdTaken, hdBodies, hdErr, hdRead, hdFailed, hdTold>>

(* stream: a response; upload: one whose request body is streamed; own: a   *)
(* WebSocket or a raw connection, not of the pool; tunnel: a stream of a    *)
(* pooled HTTP/2 connection as a raw connection.                            *)
HdKinds == {"stream", "upload", "own", "tunnel"}
Pooled(c) == hdCall[c].kind # "own"

HdTypeOK ==
  /\ hdSession \in [listed : BOOLEAN, closed : BOOLEAN]
  /\ hdCall \in [HdCalls -> [kind : HdKinds, async : BOOLEAN, dropped : BOOLEAN,
                             pc : {"new", "found", "checked", "dialed", "open", "failed", "listed",
                                   "ready", "discard", "given", "over"}]]
  /\ hdConn \in [HdCalls -> {"none", "open", "closed"}]
  /\ hdTable \subseteq HdCalls /\ hdTaken \subseteq HdCalls /\ hdBodies \subseteq HdCalls
  /\ hdErr \subseteq HdCalls /\ hdFailed \subseteq HdCalls /\ hdTold \subseteq HdCalls
  /\ hdRead \in [pc : {"idle", "found", "failed"}, of : HdCalls]

HdInit ==
  /\ hdSession = [listed |-> TRUE, closed |-> FALSE]
  /\ hdCall = [c \in HdCalls |-> [kind |-> "own", async |-> FALSE, dropped |-> FALSE, pc |-> "new"]]
  /\ hdConn = [c \in HdCalls |-> "none"]
  /\ hdTable = {} /\ hdTaken = {} /\ hdBodies = {} /\ hdErr = {}
  /\ hdRead = [pc |-> "idle", of |-> CHOOSE c \in HdCalls : TRUE]
  /\ hdFailed = {} /\ hdTold = {}

-----------------------------------------------------------------------------
HdAt(c, pc) == hdCall' = [hdCall EXCEPT ![c].pc = pc]
(* A handle under its number; a body out of the register, aborted if it     *)
(* goes on; a connection closed, or a stream of one, whose share goes back; *)
(* what a read ended with.                                                  *)
ListsHandle(c) == hdTable' = hdTable \cup {c}
DropsBody(c) == hdBodies' = hdBodies \ {c}
ClosesConn(c) == hdConn' = [hdConn EXCEPT ![c] = "closed"]
SetsErr(c) == hdErr' = hdErr \cup {c}

ReadersRest == UNCHANGED <<hdErr, hdRead, hdFailed, hdTold>>

(* The session by its number; a streamed body is registered before the      *)
(* start returns, and only a start may have one.                            *)
FindsSession(c) ==
  /\ hdCall[c].pc = "new"
  /\ \E kind \in HdKinds, async \in BOOLEAN :
       /\ kind = "upload" => async
       /\ hdCall' = [hdCall EXCEPT ![c] = [kind |-> kind, async |-> async, dropped |-> FALSE,
                       pc |-> IF hdSession.listed THEN "found" ELSE "over"]]
       /\ hdBodies' = hdBodies \cup {b \in {c} : kind = "upload" /\ hdSession.listed}
  /\ UNCHANGED <<hdSession, hdConn, hdTable, hdTaken>> /\ ReadersRest

(* ensureOpen, of the Session the lookup gave.                              *)
EnsureOpen(c) ==
  /\ hdCall[c].pc = "found" /\ HdAt(c, IF hdSession.closed THEN "failed" ELSE "checked")
  /\ UNCHANGED <<hdSession, hdConn, hdTable, hdTaken, hdBodies>> /\ ReadersRest

(* A pooled connection is not to be had of a closed session; one of one's   *)
(* own is, if the session was open a moment ago (dialHTTP1, dialRaw).       *)
DialsConn(c) ==
  /\ hdCall[c].pc = "checked"
  /\ \/ /\ Pooled(c) => ~hdSession.closed
        /\ hdConn' = [hdConn EXCEPT ![c] = "open"] /\ HdAt(c, "dialed")
     \/ HdAt(c, "failed") /\ UNCHANGED hdConn
  /\ UNCHANGED <<hdSession, hdTable, hdTaken, hdBodies>> /\ ReadersRest

(* The answer: 101, or 2xx where that is asked for.                         *)
Opened(c) ==
  /\ hdCall[c].pc = "dialed" /\ HdAt(c, "open")
  /\ UNCHANGED <<hdSession, hdConn, hdTable, hdTaken, hdBodies>> /\ ReadersRest

(* A refusal, an error or the end of the context: what was dialed is        *)
(* closed, or its share given back.                                         *)
Refused(c) ==
  /\ hdCall[c].pc = "dialed" /\ HdAt(c, "failed") /\ ClosesConn(c)
  /\ UNCHANGED <<hdSession, hdTable, hdTaken, hdBodies>> /\ ReadersRest

(* An open that failed drops its body; nobody has its number.               *)
OpenFails(c) ==
  /\ hdCall[c].pc = "failed" /\ HdAt(c, "over") /\ DropsBody(c)
  /\ UNCHANGED <<hdSession, hdConn, hdTable, hdTaken>> /\ ReadersRest

(* registerStream, registerSocket, registerConn; the goroutine notes the    *)
(* number for whoever abandons the result.                                  *)
RegistersHandle(c) ==
  /\ hdCall[c].pc = "open" /\ HdAt(c, "listed") /\ ListsHandle(c)
  /\ UNCHANGED <<hdSession, hdConn, hdTaken, hdBodies>> /\ ReadersRest

(* The call returns its number, or its result waits; one that was cancelled *)
(* meanwhile is discarded here.                                             *)
OpenReturns(c) ==
  /\ hdCall[c].pc = "listed"
  /\ HdAt(c, IF ~hdCall[c].async THEN "given" ELSE IF hdCall[c].dropped THEN "discard" ELSE "ready")
  /\ UNCHANGED <<hdSession, hdConn, hdTable, hdTaken, hdBodies>> /\ ReadersRest

TakesResult(c) ==
  /\ hdCall[c].pc = "ready" /\ HdAt(c, "given")
  /\ UNCHANGED <<hdSession, hdConn, hdTable, hdTaken, hdBodies>> /\ ReadersRest

Working == {"found", "checked", "dialed", "open", "failed", "listed"}

(* Mutant of CancelsOpen: the result is given up at once, ready or not.     *)
CancelsOpenAtOnce(c) ==
  /\ hdCall[c].async
  /\ \/ hdCall[c].pc = "listed" /\ HdAt(c, "over")
     \/ hdCall[c].pc = "ready" /\ HdAt(c, "discard")
  /\ UNCHANGED <<hdSession, hdConn, hdTable, hdTaken, hdBodies>> /\ ReadersRest

(* curlpro_request_cancel: a result that is there is discarded; work in     *)
(* progress is told, and discards its own.                                  *)
CancelsOpen(c) ==
  /\ hdCall[c].async
  /\ \/ /\ hdCall[c].pc \in Working /\ ~hdCall[c].dropped
        /\ hdCall' = [hdCall EXCEPT ![c].dropped = TRUE]
     \/ hdCall[c].pc = "ready" /\ HdAt(c, "discard")
  /\ UNCHANGED <<hdSession, hdConn, hdTable, hdTaken, hdBodies>> /\ ReadersRest

-----------------------------------------------------------------------------
(* closeStream, closeSocket, closeConn take the handle out under the lock,  *)
(* so that one close of it goes on; for the caller, or for an abandoned     *)
(* result.                                                                  *)
TakesOut(c) ==
  /\ \/ hdCall[c].pc = "given" /\ UNCHANGED hdCall
     \/ hdCall[c].pc = "discard" /\ HdAt(c, "over")
  /\ c \in hdTable /\ hdTable' = hdTable \ {c} /\ hdTaken' = hdTaken \cup {c}
  /\ UNCHANGED <<hdSession, hdConn, hdBodies>> /\ ReadersRest

(* Outside the lock: the body dropped, the request cancelled, the           *)
(* connection closed or its share given back; for a stream, the error a     *)
(* read has stored.                                                         *)
ClosesHandle(c) ==
  /\ c \in hdTaken /\ hdTaken' = hdTaken \ {c}
  /\ DropsBody(c) /\ ClosesConn(c)
  /\ hdTold' = hdTold \cup {b \in {c} \cap hdErr : hdCall[b].kind \in {"stream", "upload"}}
  /\ UNCHANGED <<hdSession, hdCall, hdTable, hdErr, hdRead, hdFailed>>

(* A read finds the handle and goes on without the lock.                    *)
ReadStarts(c) ==
  /\ hdRead.pc = "idle" /\ hdCall[c].pc = "given" /\ c \in hdTable
  /\ hdRead' = [pc |-> "found", of |-> c]
  /\ UNCHANGED <<hdSession, hdCall, hdConn, hdTable, hdTaken, hdBodies, hdErr, hdFailed, hdTold>>

(* Bytes or the end; or an error -- of the peer, of the session's end, of   *)
(* the close itself -- stored in the handle.                                *)
ReadReturns ==
  LET c == hdRead.of IN
  /\ hdRead.pc = "found"
  /\ \/ /\ hdConn[c] = "open" /\ (Pooled(c) => ~hdSession.closed)
        /\ hdRead' = [hdRead EXCEPT !.pc = "idle"] /\ UNCHANGED <<hdErr, hdFailed>>
     \/ /\ hdRead' = [hdRead EXCEPT !.pc = "failed"] /\ SetsErr(c)
        /\ hdFailed' = hdFailed \cup ({c} \cap hdTable)
  /\ UNCHANGED <<hdSession, hdCall, hdConn, hdTable, hdTaken, hdBodies, hdTold>>

(* curlpro_stream_error, curlpro_conn_error: the handle again, which may be *)
(* gone.                                                                    *)
AsksWhy ==
  /\ hdRead.pc = "failed" /\ hdRead' = [hdRead EXCEPT !.pc = "idle"]
  /\ hdTold' = hdTold \cup ({hdRead.of} \cap hdTable \cap hdErr)
  /\ UNCHANGED <<hdSession, hdCall, hdConn, hdTable, hdTaken, hdBodies, hdErr, hdFailed>>

-----------------------------------------------------------------------------
(* curlpro_session_close: out of the registry; then Session.Close, which    *)
(* knows the pooled connections and no handle.                              *)
SessionUnlisted ==
  /\ hdSession.listed /\ hdSession' = [hdSession EXCEPT !.listed = FALSE]
  /\ UNCHANGED <<hdCall, hdConn, hdTable, hdTaken, hdBodies>> /\ ReadersRest

SessionCloses ==
  /\ ~hdSession.listed /\ ~hdSession.closed /\ hdSession' = [hdSession EXCEPT !.closed = TRUE]
  /\ UNCHANGED <<hdCall, hdConn, hdTable, hdTaken, hdBodies>> /\ ReadersRest

HdNext ==
  \/ \E c \in HdCalls :
       \/ FindsSession(c) \/ EnsureOpen(c) \/ DialsConn(c) \/ Opened(c) \/ Refused(c)
       \/ OpenFails(c) \/ RegistersHandle(c) \/ OpenReturns(c) \/ TakesResult(c) \/ CancelsOpen(c)
       \/ TakesOut(c) \/ ClosesHandle(c) \/ ReadStarts(c)
  \/ ReadReturns \/ AsksWhy \/ SessionUnlisted \/ SessionCloses

HdSpec == HdInit /\ [][HdNext]_hdVars

-----------------------------------------------------------------------------
(* Whatever an open has taken belongs to somebody who can still give it     *)
(* back: the call under way, the handle of a number that is given or will   *)
(* be, the abandoned result's cleanup, a close in progress.  So for the     *)
(* streamed bodies, and no read's failure is forgotten by a stream's end    *)
(* (the discard functions of the *_start exports, closeStream).             *)
NothingLeftOpen ==
  \A c \in HdCalls :
    LET pc == hdCall[c].pc
        owned == c \in hdTaken \/ (c \in hdTable /\ pc \in {"listed", "ready", "discard", "given"})
    IN /\ hdConn[c] = "open" => owned \/ pc \in {"dialed", "open"}
       /\ c \in hdTable => owned
       /\ c \in hdBodies => owned \/ pc \in Working
       /\ c \in hdFailed /\ hdConn[c] = "closed" /\ hdCall[c].kind \in {"stream", "upload"}
            => c \in hdTold
=============================================================================
