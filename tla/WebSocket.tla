------------------------------ MODULE WebSocket ------------------------------
(***************************************************************************)
(* A WebSocket (internal/client/websocket.go): what its handshake agreed   *)
(* on, senders, each in a goroutine (lib/websocket.go), the receiver that  *)
(* joins fragments, answers pings and the server's Close, and whoever      *)
(* closes.  The masks, lengths and the compressed bytes are abstracted;    *)
(* what is compressed when, and what goes on the wire when, is not.  The   *)
(* connection of a handshake that fails is in Handles.                     *)
(***************************************************************************)
EXTENDS Integers, Sequences

CONSTANTS WsSenders,  (* goroutines in Send or Ping                          *)
          WsClosers,  (* goroutines in Close                                 *)
          WsMaxOut,   (* bound: frames the client puts on the wire           *)
          WsMaxFrames (* bound: frames the server sends                      *)

Receiver == "recv"
Nobody == "nobody"
WsThreads == WsSenders \cup WsClosers \cup {Receiver}

ASSUME WsAssumption ==
  Nobody \notin WsThreads /\ WsMaxOut \in Nat /\ WsMaxFrames \in Nat

VARIABLES wsFlags,  (* closed and connClosed, under closeMx                  *)
          wsWriter, (* who holds writeMx, or Nobody                           *)
          wsOut,    (* the frames on the wire, ours                          *)
          wsPc,     (* where each goroutine is                               *)
          wsRecv,   (* the message the receiver is joining; frames received  *)
          wsDeflate (* WebSocket.deflate: not nil                            *)

wsVars == <<wsFlags, wsWriter, wsOut, wsPc, wsRecv, wsDeflate>>

WsTypeOK ==
  /\ wsFlags \in [closed: BOOLEAN, conn: BOOLEAN]
  /\ wsWriter \in WsThreads \cup {Nobody}
  /\ wsOut \in Seq({"data", "control", "torn", "close"})
  /\ wsPc \in [WsThreads -> {"idle", "compress", "frame", "check", "write", "read", "pong",
                             "closing", "closeFrame", "shut", "over"}]
  /\ wsRecv \in [message: {"none", "plain", "deflated"}, frames: 0..WsMaxFrames]
  /\ wsDeflate \in BOOLEAN

(* DialWebSocket came to its end: the server switched protocols and         *)
(* confirmed the key, and what it wrote of extensions was none, or          *)
(* permessage-deflate with parameters that parseDeflate knows.              *)
WsInit ==
  /\ wsFlags = [closed |-> FALSE, conn |-> TRUE] /\ wsWriter = Nobody /\ wsOut = <<>>
  /\ wsPc = [t \in WsThreads |-> "idle"]
  /\ wsRecv = [message |-> "none", frames |-> 0]
  /\ wsDeflate \in BOOLEAN

-----------------------------------------------------------------------------
WsAt(t, pc) == wsPc' = [wsPc EXCEPT ![t] = pc]
Room == Len(wsOut) < WsMaxOut

(* Send: compressed under writeMx, which is let go and taken again for the  *)
(* frame; Ping, and a Send without the extension, go straight to the frame. *)
SendBegins(t) ==
  /\ t \in WsSenders /\ wsPc[t] = "idle" /\ Room
  /\ (wsDeflate /\ WsAt(t, "compress")) \/ WsAt(t, "frame")
  /\ UNCHANGED <<wsFlags, wsWriter, wsOut, wsRecv, wsDeflate>>

Compresses(t) ==
  /\ wsPc[t] = "compress" /\ wsWriter = Nobody
  /\ WsAt(t, "frame")
  /\ UNCHANGED <<wsFlags, wsWriter, wsOut, wsRecv, wsDeflate>>

Resumes(t) == IF t = Receiver THEN "read" ELSE "idle"

(* writeFrame: the lock, then closed, then the write.                       *)
FrameLocks(t) ==
  /\ wsPc[t] \in {"frame", "pong"} /\ wsWriter = Nobody
  /\ wsWriter' = t /\ WsAt(t, "check")
  /\ UNCHANGED <<wsFlags, wsOut, wsRecv, wsDeflate>>

(* Mutant of FrameChecks: a frame under way is written whatever happens     *)
(* while it waits for the lock.                                             *)
FrameTrusts(t) ==
  /\ wsPc[t] = "check" /\ WsAt(t, "write")
  /\ UNCHANGED <<wsFlags, wsWriter, wsOut, wsRecv, wsDeflate>>

FrameChecks(t) ==
  /\ wsPc[t] = "check"
  /\ \/ ~wsFlags.closed /\ WsAt(t, "write") /\ UNCHANGED wsWriter
     \/ wsFlags.closed /\ wsWriter' = Nobody /\ WsAt(t, "idle")
  /\ UNCHANGED <<wsFlags, wsOut, wsRecv, wsDeflate>>

(* The whole frame; or a deadline, or the connection closed under it, after *)
(* part of it or none.                                                      *)
FrameWrites(t) ==
  /\ wsPc[t] = "write" /\ wsWriter' = Nobody
  /\ \/ /\ wsFlags.conn /\ WsAt(t, Resumes(t))
        /\ wsOut' = Append(wsOut, IF t = Receiver THEN "control" ELSE "data")
     \/ wsFlags.conn /\ wsOut' = Append(wsOut, "torn") /\ WsAt(t, "idle")
     \/ UNCHANGED wsOut /\ WsAt(t, "idle")
  /\ UNCHANGED <<wsFlags, wsRecv, wsDeflate>>

-----------------------------------------------------------------------------
(* Recv: the joined message is the call's own; it is lost with an error.    *)
RecvBegins ==
  /\ wsPc[Receiver] = "idle" /\ ~wsFlags.closed
  /\ wsRecv' = [wsRecv EXCEPT !.message = "none"] /\ WsAt(Receiver, "read")
  /\ UNCHANGED <<wsFlags, wsWriter, wsOut, wsDeflate>>

(* A frame off the connection, or off the buffer it was read into.         *)
Received(frame) ==
  /\ wsPc[Receiver] = "read" /\ wsRecv.frames < WsMaxFrames
  /\ wsRecv' = [message |-> frame, frames |-> wsRecv.frames + 1]

(* The message is whole: a compressed one inflates within the limit, or     *)
(* else the connection is closed over it.                                   *)
Whole(kind) ==
  /\ Received("none")
  /\ WsAt(Receiver, "idle") \/ (kind = "deflated" /\ WsAt(Receiver, "closing"))

(* A data frame, whole or the first of a message, compressed if that was    *)
(* agreed; a continuation, the last or not.                                 *)
RecvData ==
  /\ wsRecv.message = "none"
  /\ \E kind \in {"plain"} \cup {k \in {"deflated"} : wsDeflate} :
       (Received(kind) /\ UNCHANGED wsPc) \/ Whole(kind)
  /\ UNCHANGED <<wsFlags, wsWriter, wsOut, wsDeflate>>

RecvMore ==
  /\ wsRecv.message # "none"
  /\ (Received(wsRecv.message) /\ UNCHANGED wsPc) \/ Whole(wsRecv.message)
  /\ UNCHANGED <<wsFlags, wsWriter, wsOut, wsDeflate>>

RecvPing ==
  /\ Received(wsRecv.message) /\ Room /\ WsAt(Receiver, "pong")
  /\ UNCHANGED <<wsFlags, wsWriter, wsOut, wsDeflate>>

(* The server's Close, which is answered; a frame that breaks the protocol, *)
(* a compressed one that was not agreed on among them; a message too large. *)
RecvCloses ==
  /\ Received("none") /\ WsAt(Receiver, "closing")
  /\ UNCHANGED <<wsFlags, wsWriter, wsOut, wsDeflate>>

(* The read deadline, the end of the connection.                            *)
RecvFails ==
  /\ wsPc[Receiver] = "read" /\ WsAt(Receiver, "idle")
  /\ UNCHANGED <<wsFlags, wsWriter, wsOut, wsRecv, wsDeflate>>

-----------------------------------------------------------------------------
CloseBegins(t) ==
  /\ t \in WsClosers /\ wsPc[t] = "idle" /\ WsAt(t, "closing")
  /\ UNCHANGED <<wsFlags, wsWriter, wsOut, wsRecv, wsDeflate>>

(* closeWith: the first to raise closed writes the Close frame; every one   *)
(* goes on to close the socket, also before the first has written.          *)
CloseMarks(t) ==
  /\ wsPc[t] = "closing"
  /\ wsFlags' = [wsFlags EXCEPT !.closed = TRUE]
  /\ WsAt(t, IF wsFlags.closed THEN "shut" ELSE "closeFrame")
  /\ UNCHANGED <<wsWriter, wsOut, wsRecv, wsDeflate>>

(* writeCloseFrame, under writeMx and past the look at closed; it gives up  *)
(* after five seconds.                                                      *)
CloseFrame(t) ==
  /\ wsPc[t] = "closeFrame" /\ wsWriter = Nobody /\ WsAt(t, "shut")
  /\ \/ wsFlags.conn /\ wsOut' = Append(wsOut, "close")
     \/ UNCHANGED wsOut
  /\ UNCHANGED <<wsFlags, wsWriter, wsRecv, wsDeflate>>

CloseShuts(t) ==
  /\ wsPc[t] = "shut" /\ WsAt(t, IF t = Receiver THEN "idle" ELSE "over")
  /\ wsFlags' = [wsFlags EXCEPT !.conn = FALSE]
  /\ UNCHANGED <<wsWriter, wsOut, wsRecv, wsDeflate>>

WsNext ==
  \/ \E t \in WsThreads :
       \/ SendBegins(t) \/ Compresses(t) \/ FrameLocks(t) \/ FrameChecks(t) \/ FrameWrites(t)
       \/ CloseBegins(t) \/ CloseMarks(t) \/ CloseFrame(t) \/ CloseShuts(t)
  \/ RecvBegins \/ RecvData \/ RecvMore \/ RecvPing \/ RecvCloses \/ RecvFails

WsSpec == WsInit /\ [][WsNext]_wsVars

-----------------------------------------------------------------------------
(* The Close frame is the last the client sends, and it is sent once, by    *)
(* whichever of the server's Close, a protocol error and the caller's       *)
(* closes came first: a frame that waited for the write lock meanwhile, a   *)
(* pong among them, does not follow it (websocket.go, writeFrame,           *)
(* closeWith, writeCloseFrame).                                             *)
CloseFrameLast ==
  \A i \in 1..Len(wsOut) : wsOut[i] = "close" => i = Len(wsOut)
=============================================================================
