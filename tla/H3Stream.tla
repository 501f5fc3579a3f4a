------------------------------- MODULE H3Stream -----------------------------
(***************************************************************************)
(* One request on one HTTP/3 stream (internal/h3/client.go, stream.go,      *)
(* body.go, frames.go, headers.go, request_writer.go): the caller's         *)
(* goroutine sends the head and reads the answer, a second one sends the    *)
(* request's body, a third cancels the stream with the request's context.   *)
(* What the server sends is chosen as it is parsed.                         *)
(***************************************************************************)
EXTENDS Integers, Sequences, SequencesExt

CONSTANTS H3sMaxEarly,   (* max1xxResponses                                 *)
          H3sMaxFrames,  (* bound: frames a server sends                    *)
          H3sMaxLength,  (* bound: units in a DATA frame and a body         *)
          H3sBodies      (* the request's body: its length, -1 for unknown; *)
                         (* 0 for none                                      *)

ASSUME H3sAssumption ==
  /\ {H3sMaxEarly, H3sMaxFrames, H3sMaxLength} \subseteq Nat
  /\ H3sBodies \subseteq -1..H3sMaxLength

VARIABLES h3sCall,   (* the caller's goroutine and what it was given        *)
          h3sStr,    (* the two directions of the stream                    *)
          h3sUp,     (* the goroutine that sends the body                   *)
          h3sWatch,  (* the request's context and the one that watches it   *)
          h3sWire    (* the frames parsed, with what they declare           *)

h3sVars == <<h3sCall, h3sStr, h3sUp, h3sWatch, h3sWire>>

(* room is remainingContentLength; -1 when nothing declared it.             *)
CallRec == [pc: {"shake", "send", "head", "body", "over"}, early: Nat, room: Int,
            frame: Nat, trailers: BOOLEAN, got: Nat, end: {"", "eof", "error"}]

StreamRec == [read: {"open", "fin", "reset", "cancelled"},
              write: {"open", "fin", "stopped", "cancelled"}, connUp: BOOLEAN]

H3sTypeOK ==
  /\ h3sCall \in CallRec
  /\ h3sStr \in StreamRec
  /\ h3sUp \in [pc: {"none", "copy", "extra", "over"}, length: H3sBodies, sent: Nat,
                source: {"open", "eof", "error"}]
  /\ h3sWatch \in [ctx: BOOLEAN, on: BOOLEAN, reqDone: BOOLEAN]
  /\ h3sWire \in Seq([is: STRING, n: Int])

H3sInit ==
  /\ h3sCall = [pc |-> "shake", early |-> 0, room |-> -1, frame |-> 0, trailers |-> FALSE,
                got |-> 0, end |-> ""]
  /\ h3sStr = [read |-> "open", write |-> "open", connUp |-> TRUE]
  /\ \E n \in H3sBodies : h3sUp = [pc |-> "none", length |-> n, sent |-> 0, source |-> "open"]
  /\ h3sWatch = [ctx |-> FALSE, on |-> FALSE, reqDone |-> FALSE]
  /\ h3sWire = <<>>

-----------------------------------------------------------------------------
(* CancelRead and CancelWrite do nothing to a direction that is over.       *)
(* write keeps what ended the stream first: a CancelWrite after Close may   *)
(* still abandon what is not delivered.                                     *)
CancelRead(str) == [str EXCEPT !.read = IF @ = "open" THEN "cancelled" ELSE @]
CancelWrite(str) == [str EXCEPT !.write = IF @ \in {"open", "stopped"} THEN "cancelled" ELSE @]
CancelBoth(str) == CancelRead(CancelWrite(str))
Writable == h3sStr.write = "open" /\ h3sStr.connUp
Readable == h3sStr.read = "open" /\ h3sStr.connUp

(* roundTrip's and the body's errors: the watcher is let go.                *)
ExchangeFails ==
  /\ h3sCall' = [h3sCall EXCEPT !.pc = "over", !.end = "error"]
  /\ h3sWatch' = [h3sWatch EXCEPT !.reqDone = TRUE]

(* roundTrip: the handshake, unless the method allows 0-RTT, and the stream.*)
Opens ==
  /\ h3sCall.pc = "shake"
  /\ h3sCall' = [h3sCall EXCEPT !.pc = "send"]
  /\ h3sWatch' = [h3sWatch EXCEPT !.on = TRUE]
  /\ UNCHANGED <<h3sStr, h3sUp, h3sWire>>

NotOpened ==
  /\ h3sCall.pc = "shake" /\ (h3sWatch.ctx \/ ~h3sStr.connUp)
  /\ h3sCall' = [h3sCall EXCEPT !.pc = "over", !.end = "error"]
  /\ UNCHANGED <<h3sStr, h3sUp, h3sWatch, h3sWire>>

(* sendRequestHeader, and the body's goroutine or the end of the stream.    *)
SendsHead ==
  /\ h3sCall.pc = "send" /\ Writable
  /\ h3sCall' = [h3sCall EXCEPT !.pc = "head"]
  /\ IF h3sUp.length = 0
     THEN h3sStr' = [h3sStr EXCEPT !.write = "fin"] /\ h3sUp' = [h3sUp EXCEPT !.pc = "over"]
     ELSE h3sUp' = [h3sUp EXCEPT !.pc = "copy"] /\ UNCHANGED h3sStr
  /\ UNCHANGED <<h3sWatch, h3sWire>>

(* A head that cannot be written: the answer is read all the same.          *)
HeadNotSent ==
  /\ h3sCall.pc = "send" /\ ~Writable
  /\ h3sCall' = [h3sCall EXCEPT !.pc = "head"]
  /\ UNCHANGED <<h3sStr, h3sUp, h3sWatch, h3sWire>>

-----------------------------------------------------------------------------
(* ParseNext: one frame, past those it skips.  A reserved frame type ends   *)
(* the connection.                                                          *)
Parses(what, n) ==
  /\ Readable /\ Len(h3sWire) < H3sMaxFrames
  /\ h3sWire' = Append(h3sWire, [is |-> what, n |-> n])

(* ReadResponse: the frame cannot be read.                                  *)
HeadUnreadable ==
  /\ h3sCall.pc = "head" /\ ~Readable
  /\ h3sStr' = CancelBoth(h3sStr) /\ ExchangeFails
  /\ UNCHANGED <<h3sUp, h3sWire>>

(* It is no HEADERS frame.                                                  *)
HeadIsNot(what) ==
  /\ h3sCall.pc = "head" /\ Parses(what, 1)
  /\ h3sStr' = LET str == [h3sStr EXCEPT !.connUp = FALSE]
               IN IF what = "reserved" THEN CancelBoth(str) ELSE str
  /\ ExchangeFails
  /\ UNCHANGED h3sUp

(* It is too long, is cut short, does not decode, or its fields are wrong:  *)
(* parseHeaders, updateResponseFromHeaders.                                 *)
HeadIsInvalid ==
  /\ h3sCall.pc = "head" /\ Parses("invalid", 0)
  /\ h3sStr' = CancelBoth(h3sStr) /\ ExchangeFails
  /\ UNCHANGED h3sUp

(* doRequest: a 1xx that is no 101, and too many of them.                   *)
EarlyHead ==
  /\ h3sCall.pc = "head" /\ Parses("early", 0)
  /\ IF h3sCall.early = H3sMaxEarly
     THEN h3sStr' = CancelBoth(h3sStr) /\ ExchangeFails
     ELSE h3sCall' = [h3sCall EXCEPT !.early = @ + 1] /\ UNCHANGED <<h3sStr, h3sWatch>>
  /\ UNCHANGED h3sUp

FinalHead(length) ==
  /\ h3sCall.pc = "head" /\ Parses("final", length)
  /\ h3sCall' = [h3sCall EXCEPT !.pc = "body", !.room = length]
  /\ UNCHANGED <<h3sStr, h3sUp, h3sWatch>>

-----------------------------------------------------------------------------
(* hijackableBody.Read and body.Read above Stream.Read.                     *)
Bounded == h3sCall.room >= 0

(* Mutant of TooMuch: only what has been read counts.                       *)
TooMuchRead(room, frame) == Bounded /\ room < 0

(* checkContentLengthViolation.                                             *)
TooMuch(room, frame) == Bounded /\ (room < 0 \/ (room = 0 /\ frame > 0))

(* The end of a read that leaves call: both checks of body.Read.            *)
Settles(call) ==
  IF TooMuch(call.room, call.frame)
  THEN /\ h3sCall' = [call EXCEPT !.pc = "over", !.end = "error"]
       /\ h3sStr' = CancelBoth(h3sStr)
       /\ h3sWatch' = [h3sWatch EXCEPT !.reqDone = TRUE]
  ELSE h3sCall' = call /\ UNCHANGED <<h3sStr, h3sWatch>>

(* n units of the frame, into a buffer cut down to what the answer has left.*)
ReadsOn ==
  /\ h3sCall.pc = "body" /\ Readable
  /\ \E n \in 1..h3sCall.frame :
       /\ Bounded => n <= h3sCall.room
       /\ Settles([h3sCall EXCEPT !.got = @ + n, !.frame = @ - n,
                                  !.room = IF Bounded THEN @ - n ELSE @])
  /\ UNCHANGED <<h3sUp, h3sWire>>

NextIsData(length) ==
  /\ h3sCall.pc = "body" /\ h3sCall.frame = 0 /\ Parses("data", length)
  /\ IF h3sCall.trailers THEN ExchangeFails /\ UNCHANGED h3sStr
     ELSE Settles([h3sCall EXCEPT !.frame = length])
  /\ UNCHANGED h3sUp

NextIsTrailers ==
  /\ h3sCall.pc = "body" /\ h3sCall.frame = 0 /\ Parses("trailers", 0)
  /\ IF h3sCall.trailers THEN ExchangeFails
     ELSE h3sCall' = [h3sCall EXCEPT !.trailers = TRUE] /\ UNCHANGED h3sWatch
  /\ UNCHANGED <<h3sStr, h3sUp>>

(* decodeTrailers, parseTrailers.                                           *)
NextIsBadTrailers ==
  /\ h3sCall.pc = "body" /\ h3sCall.frame = 0 /\ Parses("invalid", 0)
  /\ ExchangeFails /\ UNCHANGED <<h3sStr, h3sUp>>

NextIsNoFrame(what) ==
  /\ h3sCall.pc = "body" /\ h3sCall.frame = 0 /\ Parses(what, 0)
  /\ h3sStr' = [h3sStr EXCEPT !.connUp = FALSE] /\ ExchangeFails
  /\ UNCHANGED h3sUp

(* The stream's end is the body's, in the middle of a frame too.            *)
AnswerEnds ==
  /\ h3sCall.pc = "body" /\ h3sStr.connUp /\ h3sStr.read = "fin"
  /\ h3sCall' = [h3sCall EXCEPT !.pc = "over", !.end = "eof"]
  /\ h3sWatch' = [h3sWatch EXCEPT !.reqDone = TRUE]
  /\ UNCHANGED <<h3sStr, h3sUp, h3sWire>>

AnswerFails ==
  /\ h3sCall.pc = "body" /\ (~h3sStr.connUp \/ h3sStr.read \in {"reset", "cancelled"})
  /\ ExchangeFails /\ UNCHANGED <<h3sStr, h3sUp, h3sWire>>

(* hijackableBody.Close.                                                    *)
ClosesBody ==
  /\ h3sCall.pc = "body"
  /\ h3sCall' = [h3sCall EXCEPT !.pc = "over"]
  /\ h3sStr' = CancelRead(h3sStr)
  /\ h3sWatch' = [h3sWatch EXCEPT !.reqDone = TRUE]
  /\ UNCHANGED <<h3sUp, h3sWire>>

-----------------------------------------------------------------------------
(* sendRequestBody.  A write that fails is the stream's doing; a read that  *)
(* fails cancels the stream (cancelingReader) before it is closed.          *)
Limit == h3sUp.length

UploadEnds(source) ==
  /\ h3sUp' = [h3sUp EXCEPT !.pc = "over", !.source = source]
  /\ UNCHANGED <<h3sCall, h3sWatch, h3sWire>>

CopiesOne ==
  /\ h3sUp.pc = "copy" /\ h3sUp.source = "open" /\ h3sUp.sent < H3sMaxLength
  /\ IF Writable
     THEN LET sent == h3sUp.sent + 1
          IN h3sUp' = [h3sUp EXCEPT !.sent = sent,
                                    !.pc = IF sent = Limit THEN "extra" ELSE "copy"]
     ELSE h3sUp' = [h3sUp EXCEPT !.pc = "over"]
  /\ UNCHANGED <<h3sCall, h3sStr, h3sWatch, h3sWire>>

(* The source is at its end: trailers, if there are any, and the stream's.  *)
SourceEnds ==
  /\ h3sUp.pc \in {"copy", "extra"}
  /\ h3sStr' = [h3sStr EXCEPT !.write = IF @ = "open" THEN "fin" ELSE @]
  /\ UploadEnds("eof")

SourceFails ==
  /\ h3sUp.pc \in {"copy", "extra"}
  /\ h3sStr' = CancelWrite(h3sStr)
  /\ UploadEnds("error")

(* Past the declared length.                                                *)
SourceGoesOn ==
  /\ h3sUp.pc = "extra"
  /\ h3sStr' = CancelWrite(h3sStr)
  /\ UploadEnds("open")

-----------------------------------------------------------------------------
(* The request's context, and the goroutine that waits for it or for the    *)
(* reader to be done; ended later, nobody looks at it.                      *)
ContextEnds ==
  /\ ~h3sWatch.ctx /\ (h3sWatch.on \/ h3sCall.pc = "shake")
  /\ h3sWatch' = [h3sWatch EXCEPT !.ctx = TRUE]
  /\ UNCHANGED <<h3sCall, h3sStr, h3sUp, h3sWire>>

WatchCancels ==
  /\ h3sWatch.on /\ h3sWatch.ctx
  /\ h3sWatch' = [h3sWatch EXCEPT !.on = FALSE]
  /\ h3sStr' = CancelBoth(h3sStr)
  /\ UNCHANGED <<h3sCall, h3sUp, h3sWire>>

WatchEnds ==
  /\ h3sWatch.on /\ h3sWatch.reqDone
  /\ h3sWatch' = [h3sWatch EXCEPT !.on = FALSE]
  /\ UNCHANGED <<h3sCall, h3sStr, h3sUp, h3sWire>>

(* The server's end of the stream, and the connection's.                    *)
ServerTurns(str) ==
  /\ h3sCall.pc \in {"head", "body"} /\ h3sStr.connUp /\ h3sStr' = str
  /\ UNCHANGED <<h3sCall, h3sUp, h3sWatch, h3sWire>>

ServerEnds == h3sStr.read = "open" /\ ServerTurns([h3sStr EXCEPT !.read = "fin"])
ServerResets == h3sStr.read = "open" /\ ServerTurns([h3sStr EXCEPT !.read = "reset"])
ServerStops == h3sStr.write = "open" /\ ServerTurns([h3sStr EXCEPT !.write = "stopped"])

ConnEnded ==
  /\ h3sCall.pc # "over" /\ h3sStr.connUp
  /\ h3sStr' = [h3sStr EXCEPT !.connUp = FALSE]
  /\ UNCHANGED <<h3sCall, h3sUp, h3sWatch, h3sWire>>

H3sNext ==
  \/ Opens \/ NotOpened \/ SendsHead \/ HeadNotSent
  \/ HeadUnreadable \/ HeadIsInvalid \/ EarlyHead
  \/ \E what \in {"data", "settings", "reserved"} : HeadIsNot(what)
  \/ \E length \in -1..H3sMaxLength : FinalHead(length)
  \/ ReadsOn \/ NextIsTrailers \/ NextIsBadTrailers \/ AnswerEnds \/ AnswerFails \/ ClosesBody
  \/ \E length \in 0..H3sMaxLength : NextIsData(length)
  \/ \E what \in {"settings", "reserved"} : NextIsNoFrame(what)
  \/ CopiesOne \/ SourceEnds \/ SourceFails \/ SourceGoesOn
  \/ ContextEnds \/ WatchCancels \/ WatchEnds
  \/ ServerEnds \/ ServerResets \/ ServerStops \/ ConnEnded

H3sSpec == H3sInit /\ [][H3sNext]_h3sVars

-----------------------------------------------------------------------------
(* Properties                                                               *)

Carried(wire) == FoldLeft(LAMBDA n, f : IF f.is = "data" THEN n + f.n ELSE n, 0, wire)

(* Neither side is told of an end that is none.  An answer's body ends      *)
(* cleanly only over frames that may make up an answer, in their order, and *)
(* one that has all it declared hides nothing beyond it; it may still be    *)
(* short of that (README).  And the server sees a request's end only when   *)
(* its source was at an end, with no more than declared sent: a source that *)
(* fails, a context that ends and a body that is too long reset the stream. *)
EndsAreTrue ==
  /\ h3sCall.end = "eof" =>
       /\ \E length \in -1..H3sMaxLength, i \in DOMAIN h3sWire :
            /\ h3sWire[i] = [is |-> "final", n |-> length]
            /\ length = h3sCall.got => Carried(h3sWire) = length
            /\ \A j \in DOMAIN h3sWire :
                 h3sWire[j].is \in (IF j < i THEN {"early"} ELSE {"final", "data", "trailers"})
       /\ \A j \in DOMAIN h3sWire : h3sWire[j].is = "trailers" => j = Len(h3sWire)
  /\ h3sStr.write = "fin" =>
       \/ h3sUp.length = 0
       \/ h3sUp.source = "eof" /\ (h3sUp.length > 0 => h3sUp.sent <= h3sUp.length)
=============================================================================
