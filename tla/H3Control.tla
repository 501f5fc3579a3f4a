------------------------------ MODULE H3Control -----------------------------
(***************************************************************************)
(* What a server sends beside the answers on one HTTP/3 connection          *)
(* (internal/h3/conn.go, client.go, frames.go, state_tracking_stream.go):   *)
(* unidirectional streams, each read by a goroutine of its own, and         *)
(* datagrams, which one goroutine puts into the queue of the stream they    *)
(* are for and that stream's one reader takes out.  GOAWAY is H3Transport's *)
(* and the encoder stream's instructions are QpackDecoder's.                *)
(***************************************************************************)
EXTENDS Naturals

CONSTANT H3cQueueLen  (* streamDatagramQueueLen *)

ASSUME H3cAssumption == H3cQueueLen \in Nat \ {0}

VARIABLES h3cUni,   (* the server's unidirectional streams: what has come    *)
          h3cPeer,  (* its settings, and how the connection was closed       *)
          h3cDg     (* a request stream's datagrams                          *)

h3cVars == <<h3cUni, h3cPeer, h3cDg>>

Codes == {"", "StreamCreation", "ID", "ClosedCritical", "Frame", "MissingSettings",
          "FrameUnexpected", "Settings", "QPACKEncoder", "Datagram", "gone"}

(* token: hasData holds one.                                                *)
DatagramQueue ==
  [tracked: BOOLEAN, queue: 0..H3cQueueLen, token: BOOLEAN, sendErr: BOOLEAN, recvErr: BOOLEAN,
   reader: {"idle", "look", "wait", "got", "failed"}]

H3cTypeOK ==
  /\ h3cUni \subseteq {"control", "encoder", "decoder"}
  /\ h3cPeer \in [settings: {"none", "plain", "datagrams"}, closed: Codes]
  /\ h3cDg \in DatagramQueue

H3cInit ==
  /\ h3cUni = {}
  /\ h3cPeer = [settings |-> "none", closed |-> ""]
  /\ h3cDg = [tracked |-> FALSE, queue |-> 0, token |-> FALSE, sendErr |-> FALSE,
              recvErr |-> FALSE, reader |-> "idle"]

-----------------------------------------------------------------------------
Up == h3cPeer.closed = ""

(* conn.CloseWithError: the first one counts.                               *)
CloseWith(code) ==
  /\ h3cPeer' = [h3cPeer EXCEPT !.closed = IF Up THEN code ELSE @]
  /\ UNCHANGED h3cDg

(* handleUnidirectionalStream: a second one of a kind, and any push stream, *)
(* ends the connection; a stream of a kind unknown is refused on its own.   *)
ServerOpens(kind) ==
  /\ Up /\ kind \notin h3cUni
  /\ h3cUni' = h3cUni \cup {kind}
  /\ UNCHANGED <<h3cPeer, h3cDg>>

ServerOpensAgain ==
  /\ Up /\ h3cUni # {}
  /\ CloseWith("StreamCreation") /\ UNCHANGED h3cUni

ServerPushes == Up /\ CloseWith("ID") /\ UNCHANGED h3cUni

EncoderFails ==
  /\ Up /\ "encoder" \in h3cUni
  /\ CloseWith("QPACKEncoder") /\ UNCHANGED h3cUni

(* handleControlStream: the first frame is SETTINGS or the connection ends. *)
(* Unknown frames are skipped over (ParseNext).                             *)
FirstIsSettings(kind) ==
  /\ Up /\ "control" \in h3cUni /\ h3cPeer.settings = "none"
  /\ \E negotiated \in BOOLEAN :
       h3cPeer' = [settings |-> kind,
                   closed |-> IF kind = "datagrams" /\ ~negotiated THEN "Settings" ELSE ""]
  /\ UNCHANGED <<h3cUni, h3cDg>>

(* Another frame; the stream's end; a frame that is no frame, a reserved    *)
(* one, or SETTINGS with a setting twice or of a forbidden value.           *)
FirstIsNot(code) ==
  /\ Up /\ "control" \in h3cUni /\ h3cPeer.settings = "none"
  /\ CloseWith(code) /\ UNCHANGED h3cUni

(* And after it nothing but GOAWAY.                                         *)
NextIsNot(code) ==
  /\ Up /\ h3cPeer.settings # "none"
  /\ CloseWith(code) /\ UNCHANGED h3cUni

ConnGone == Up /\ CloseWith("gone") /\ UNCHANGED h3cUni

-----------------------------------------------------------------------------
DgOnly == UNCHANGED <<h3cUni, h3cPeer>>

Tracks ==
  /\ Up /\ ~h3cDg.tracked /\ ~h3cDg.recvErr
  /\ h3cDg' = [h3cDg EXCEPT !.tracked = TRUE] /\ DgOnly

(* receiveDatagrams runs once the settings allow them.  One for a stream    *)
(* nobody tracks is dropped.                                                *)
BadDatagram ==
  /\ Up /\ h3cPeer.settings = "datagrams"
  /\ CloseWith("Datagram") /\ UNCHANGED h3cUni

(* enqueueDatagram, under mx: nothing is queued for a reader that is gone   *)
(* or behind by streamDatagramQueueLen.                                     *)
EnqueueDatagram ==
  /\ Up /\ h3cPeer.settings = "datagrams" /\ h3cDg.tracked
  /\ ~h3cDg.recvErr /\ h3cDg.queue < H3cQueueLen
  /\ h3cDg' = [h3cDg EXCEPT !.queue = @ + 1, !.token = TRUE] /\ DgOnly

(* Mutant of CloseReceive: who waits is not told.                           *)
CloseReceiveQuietly ==
  /\ h3cDg.tracked /\ ~h3cDg.recvErr
  /\ h3cDg' = [h3cDg EXCEPT !.recvErr = TRUE, !.tracked = ~h3cDg.sendErr] /\ DgOnly

(* closeReceive: a read that ended or failed, or CancelRead; the stream is  *)
(* cleared when both directions are over.                                   *)
CloseReceive ==
  /\ h3cDg.tracked /\ ~h3cDg.recvErr
  /\ h3cDg' = [h3cDg EXCEPT !.recvErr = TRUE, !.token = TRUE, !.tracked = ~h3cDg.sendErr]
  /\ DgOnly

CloseSend ==
  /\ h3cDg.tracked /\ ~h3cDg.sendErr
  /\ h3cDg' = [h3cDg EXCEPT !.sendErr = TRUE, !.tracked = ~h3cDg.recvErr] /\ DgOnly

(* ReceiveDatagram: a look under mx, then the signal or the caller's        *)
(* context; and from the top.                                               *)
ReceiveDatagram ==
  /\ h3cDg.reader \in {"idle", "got"}
  /\ h3cDg' = [h3cDg EXCEPT !.reader = "look"] /\ DgOnly

TakesOne ==
  /\ h3cDg.reader = "look" /\ h3cDg.queue > 0
  /\ h3cDg' = [h3cDg EXCEPT !.reader = "got", !.queue = @ - 1] /\ DgOnly

FindsNone ==
  /\ h3cDg.reader = "look" /\ h3cDg.queue = 0
  /\ h3cDg' = [h3cDg EXCEPT !.reader = IF h3cDg.recvErr THEN "failed" ELSE "wait"] /\ DgOnly

HasData ==
  /\ h3cDg.reader = "wait" /\ h3cDg.token
  /\ h3cDg' = [h3cDg EXCEPT !.reader = "look", !.token = FALSE] /\ DgOnly

GivesUpWaiting ==
  /\ h3cDg.reader = "wait"
  /\ h3cDg' = [h3cDg EXCEPT !.reader = "failed"] /\ DgOnly

H3cNext ==
  \/ \E kind \in {"control", "encoder", "decoder"} : ServerOpens(kind)
  \/ \E kind \in {"plain", "datagrams"} : FirstIsSettings(kind)
  \/ \E code \in {"MissingSettings", "ClosedCritical", "Frame", "FrameUnexpected"} : FirstIsNot(code)
  \/ \E code \in {"ClosedCritical", "Frame", "FrameUnexpected", "ID"} : NextIsNot(code)
  \/ ServerOpensAgain \/ ServerPushes \/ EncoderFails \/ ConnGone
  \/ Tracks \/ BadDatagram \/ EnqueueDatagram \/ CloseReceive \/ CloseSend
  \/ ReceiveDatagram \/ TakesOne \/ FindsNone \/ HasData \/ GivesUpWaiting

H3cSpec == H3cInit /\ [][H3cNext]_h3cVars

-----------------------------------------------------------------------------
(* Properties                                                               *)

(* A reader that waits for a datagram waits for one that has not come: with *)
(* one in the queue, or the stream over, the signal is there for it to find *)
(* (ReceiveDatagram takes no lock while it waits, and hasData holds one).   *)
NoDatagramSleepsOver ==
  h3cDg.reader = "wait" /\ (h3cDg.queue > 0 \/ h3cDg.recvErr) => h3cDg.token
=============================================================================
