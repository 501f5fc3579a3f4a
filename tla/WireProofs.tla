----------------------------- MODULE WireProofs -----------------------------
(***************************************************************************)
(* What goes over one connection, for any number of those who use it: a    *)
(* WebSocket's frames, the datagrams of an HTTP/3 stream and the frames of *)
(* a request on one, the tunnels through an HTTP/2 proxy and a MASQUE      *)
(* proxy, the field sections QPACK decodes and the requests an HTTP/1.1    *)
(* connection serves one by one.                                           *)
(***************************************************************************)
EXTENDS H1Exchange, QpackDecoder, H3Control, H3Stream, WebSocket, MasqueProxy, H2Proxy,
        Inductions, FiniteSetTheorems, SequenceTheorems, TLAPS

-----------------------------------------------------------------------------
(* The datagrams of an HTTP/3 stream (H3Control)                           *)

(* The fields the reader and those who wake it agree by.                    *)
DgInv ==
  /\ H3cTypeOK
  /\ NoDatagramSleepsOver

(* Nothing has come and nobody waits.                                       *)
LEMMA DgInvInit == H3cInit => DgInv
<1>. SUFFICES ASSUME H3cInit PROVE DgInv OBVIOUS
<1>1. 0 \in 0..H3cQueueLen BY H3cAssumption
<1>2. ~(h3cDg.reader = "wait") BY DEF H3cInit
<1>. QED
  BY <1>1, <1>2 DEF H3cInit, DgInv, H3cTypeOK, DatagramQueue, NoDatagramSleepsOver, Codes

(* What the server sends on its own streams leaves the datagrams alone.     *)
LEMMA StreamsLeaveDatagrams ==
  ASSUME DgInv,
         \/ \E kind \in {"control", "encoder", "decoder"} : ServerOpens(kind)
         \/ \E kind \in {"plain", "datagrams"} : FirstIsSettings(kind)
         \/ \E code \in {"MissingSettings", "ClosedCritical", "Frame", "FrameUnexpected"} :
               FirstIsNot(code)
         \/ \E code \in {"ClosedCritical", "Frame", "FrameUnexpected", "ID"} : NextIsNot(code)
         \/ ServerOpensAgain \/ ServerPushes \/ EncoderFails \/ ConnGone \/ BadDatagram
  PROVE  DgInv'
<1>1. h3cDg' = h3cDg
  BY DEF ServerOpens, FirstIsSettings, FirstIsNot, NextIsNot, ServerOpensAgain, ServerPushes,
         EncoderFails, ConnGone, BadDatagram, CloseWith
<1>2. h3cUni' \subseteq {"control", "encoder", "decoder"}
  BY DEF DgInv, H3cTypeOK, DatagramQueue, ServerOpens, FirstIsSettings, FirstIsNot, NextIsNot,
         ServerOpensAgain, ServerPushes, EncoderFails, ConnGone, BadDatagram
<1>3. h3cPeer' \in [settings: {"none", "plain", "datagrams"}, closed: Codes]
  <2>. h3cPeer \in [settings: {"none", "plain", "datagrams"}, closed: Codes]
    BY DEF DgInv, H3cTypeOK, DatagramQueue
  <2>1. ASSUME NEW code \in Codes, CloseWith(code)
        PROVE  h3cPeer' \in [settings: {"none", "plain", "datagrams"}, closed: Codes]
    BY <2>1 DEF CloseWith
  <2>2. ASSUME NEW kind \in {"plain", "datagrams"}, FirstIsSettings(kind)
        PROVE  h3cPeer' \in [settings: {"none", "plain", "datagrams"}, closed: Codes]
    <3>1. PICK negotiated \in BOOLEAN :
            h3cPeer' = [settings |-> kind,
                        closed |-> IF kind = "datagrams" /\ ~negotiated THEN "Settings" ELSE ""]
      BY <2>2 DEF FirstIsSettings
    <3>2. (IF kind = "datagrams" /\ ~negotiated THEN "Settings" ELSE "") \in Codes
      BY DEF Codes
    <3>. QED BY <3>1, <3>2
  <2>3. ASSUME NEW kind, ServerOpens(kind) PROVE h3cPeer' = h3cPeer
    BY <2>3 DEF ServerOpens
  <2>. QED
    BY <2>1, <2>2, <2>3 DEF Codes, FirstIsNot, NextIsNot, ServerOpensAgain, ServerPushes,
       EncoderFails, ConnGone, BadDatagram
<1>. QED
  BY <1>1, <1>2, <1>3 DEF DgInv, H3cTypeOK, DatagramQueue, NoDatagramSleepsOver

(* And what happens to the datagrams keeps the signal with what it is for:  *)
(* a reader comes to wait only when there is nothing, and what comes then   *)
(* brings it.                                                               *)
LEMMA DatagramsKeepSignal ==
  ASSUME DgInv,
         \/ Tracks \/ EnqueueDatagram \/ CloseReceive \/ CloseSend
         \/ ReceiveDatagram \/ TakesOne \/ FindsNone \/ HasData \/ GivesUpWaiting
  PROVE  DgInv'
<1>. USE DEF DgInv, H3cTypeOK, DatagramQueue, NoDatagramSleepsOver, DgOnly
<1>1. CASE Tracks BY <1>1 DEF Tracks
<1>2. CASE EnqueueDatagram
  <2>1. h3cDg.queue + 1 \in 0..H3cQueueLen
    BY <1>2, H3cAssumption DEF EnqueueDatagram
  <2>. QED BY <1>2, <2>1 DEF EnqueueDatagram
<1>3. CASE CloseReceive BY <1>3 DEF CloseReceive
<1>4. CASE CloseSend BY <1>4 DEF CloseSend
<1>5. CASE ReceiveDatagram BY <1>5 DEF ReceiveDatagram
<1>6. CASE TakesOne
  <2>1. h3cDg.queue - 1 \in 0..H3cQueueLen
    BY <1>6, H3cAssumption DEF TakesOne
  <2>. QED BY <1>6, <2>1 DEF TakesOne
<1>7. CASE FindsNone
  <2>1. ~(h3cDg.queue > 0) BY <1>7 DEF FindsNone
  <2>. QED BY <1>7, <2>1 DEF FindsNone
<1>8. CASE HasData BY <1>8 DEF HasData
<1>9. CASE GivesUpWaiting BY <1>9 DEF GivesUpWaiting
<1>. QED BY <1>1, <1>2, <1>3, <1>4, <1>5, <1>6, <1>7, <1>8, <1>9

(* Every step keeps it.                                                     *)
LEMMA DgInvNext == DgInv /\ [H3cNext]_h3cVars => DgInv'
<1>. SUFFICES ASSUME DgInv, [H3cNext]_h3cVars PROVE DgInv' OBVIOUS
<1>1. CASE UNCHANGED h3cVars
  BY <1>1 DEF h3cVars, DgInv, H3cTypeOK, DatagramQueue, NoDatagramSleepsOver
<1>2. CASE H3cNext
  BY <1>2, StreamsLeaveDatagrams, DatagramsKeepSignal DEF H3cNext
<1>. QED BY <1>1, <1>2

(* A reader of datagrams never sleeps over one, nor over the stream's end   *)
(* (stateTrackingStream.ReceiveDatagram).                                   *)
THEOREM DatagramsAreHeard == H3cSpec => []NoDatagramSleepsOver
<1>1. DgInv => NoDatagramSleepsOver BY DEF DgInv
<1>. QED BY DgInvInit, DgInvNext, <1>1, PTL DEF H3cSpec

-----------------------------------------------------------------------------
(* The frames of a WebSocket                                               *)

Closed == \E i \in 1..Len(wsOut) : wsOut[i] = "close"

(* Who is in a write holds the lock, so that a Close frame, which takes it, *)
(* finds nobody past the look at closed; one goroutine at most is on the    *)
(* way to write that frame, and none once it is out.                        *)
WsInv ==
  /\ WsTypeOK
  /\ \A t \in WsThreads : /\ wsPc[t] \in {"check", "write"} => wsWriter = t
                          /\ wsPc[t] = "closeFrame" => wsFlags.closed
  /\ \A t, u \in WsThreads : wsPc[t] = "closeFrame" /\ wsPc[u] = "closeFrame" => t = u
  /\ Closed => /\ wsFlags.closed
               /\ \A t \in WsThreads : wsPc[t] \notin {"write", "closeFrame"}
  /\ CloseFrameLast

LEMMA WsInvInit == WsInit => WsInv
  BY WsAssumption DEF WsInit, WsInv, WsTypeOK, Closed, CloseFrameLast

(* Steps that write nothing and come no nearer to it.                       *)
LEMMA WsOthers ==
  ASSUME WsInv, NEW t \in WsThreads, UNCHANGED <<wsFlags, wsOut, wsDeflate>>,
         NEW pc \in {"idle", "compress", "frame", "read", "pong", "closing", "over"}, WsAt(t, pc),
         wsRecv' \in [message: {"none", "plain", "deflated"}, frames: 0..WsMaxFrames],
         \/ wsWriter' = wsWriter /\ wsPc[t] \notin {"check", "write"}
         \/ wsWriter' = Nobody /\ wsWriter = t
  PROVE  WsInv'
<1>1. wsPc' \in [WsThreads -> {"idle", "compress", "frame", "check", "write", "read", "pong",
                             "closing", "closeFrame", "shut", "over"}]
  BY DEF WsInv, WsTypeOK, WsAt
<1>2. \A u \in WsThreads : wsPc'[u] = IF u = t THEN pc ELSE wsPc[u]
  BY DEF WsInv, WsTypeOK, WsAt
<1>3. WsTypeOK' BY <1>1 DEF WsInv, WsTypeOK
<1>4. Closed' <=> Closed BY DEF Closed
<1>5. CloseFrameLast' BY DEF WsInv, CloseFrameLast
<1>6. \A u \in WsThreads : wsPc'[u] \in {"check", "write"} => wsWriter' = u
  BY <1>2 DEF WsInv
<1>. QED BY <1>2, <1>3, <1>4, <1>5, <1>6 DEF WsInv

(* A frame is put on the wire, whole or torn, by the goroutine that may.    *)
LEMMA FramesKeep ==
  ASSUME WsInv, NEW t \in WsThreads, FrameLocks(t) \/ FrameChecks(t) \/ FrameWrites(t)
  PROVE  WsInv'
<1>1. ASSUME NEW pc \in {"idle", "check", "write", "read"}, WsAt(t, pc)
      PROVE  /\ wsPc' \in [WsThreads -> {"idle", "compress", "frame", "check", "write", "read",
                                         "pong", "closing", "closeFrame", "shut", "over"}]
             /\ \A u \in WsThreads : wsPc'[u] = IF u = t THEN pc ELSE wsPc[u]
  BY <1>1 DEF WsInv, WsTypeOK, WsAt
<1>2. t # Nobody BY WsAssumption
<1>3. CASE FrameLocks(t)
  <2>1. WsAt(t, "check") /\ wsWriter = Nobody /\ wsWriter' = t
        /\ UNCHANGED <<wsFlags, wsOut, wsRecv, wsDeflate>>
    BY <1>3 DEF FrameLocks
  <2>2. Closed' <=> Closed BY <2>1 DEF Closed
  <2>3. CloseFrameLast' BY <2>1 DEF WsInv, CloseFrameLast
  <2>4. WsTypeOK' BY <1>1, <2>1 DEF WsInv, WsTypeOK
  <2>5. \A u \in WsThreads : u # t => wsPc'[u] \notin {"check", "write"}
    BY <1>1, <2>1, WsAssumption DEF WsInv
  <2>. QED BY <1>1, <2>1, <2>2, <2>3, <2>4, <2>5 DEF WsInv
<1>4. CASE FrameChecks(t)
  <2>1. UNCHANGED <<wsFlags, wsOut, wsRecv, wsDeflate>> /\ wsPc[t] = "check" /\ wsWriter = t
    BY <1>4 DEF FrameChecks, WsInv
  <2>2. CASE ~wsFlags.closed /\ WsAt(t, "write") /\ UNCHANGED wsWriter
    <3>1. ~Closed' BY <2>1, <2>2 DEF Closed, WsInv
    <3>2. CloseFrameLast' BY <2>1 DEF WsInv, CloseFrameLast
    <3>3. WsTypeOK' BY <1>1, <2>1, <2>2 DEF WsInv, WsTypeOK
    <3>. QED BY <1>1, <2>1, <2>2, <3>1, <3>2, <3>3 DEF WsInv
  <2>3. CASE wsWriter' = Nobody /\ WsAt(t, "idle")
    BY <2>1, <2>3, WsOthers DEF WsInv, WsTypeOK
  <2>. QED BY <1>4, <2>2, <2>3 DEF FrameChecks
<1>5. CASE FrameWrites(t)
  <2>1. /\ UNCHANGED <<wsFlags, wsRecv, wsDeflate>> /\ wsPc[t] = "write" /\ wsWriter = t
        /\ wsWriter' = Nobody
    BY <1>5 DEF FrameWrites, WsInv
  <2>2. PICK pc \in {"idle", "read"} : WsAt(t, pc)
    BY <1>5 DEF FrameWrites, Resumes
  <2>3. CASE wsOut' = wsOut
    BY <2>1, <2>2, <2>3, WsOthers DEF WsInv, WsTypeOK
  <2>4. CASE \E frame \in {"data", "control", "torn"} : wsOut' = Append(wsOut, frame)
    <3>1. PICK frame \in {"data", "control", "torn"} : wsOut' = Append(wsOut, frame)
      BY <2>4
    <3>2. ~Closed BY <2>1 DEF WsInv
    <3>3. wsOut \in Seq({"data", "control", "torn", "close"}) BY DEF WsInv, WsTypeOK
    <3>4. wsOut' \in Seq({"data", "control", "torn", "close"}) BY <3>1, <3>3
    <3>5. \A i \in 1..Len(wsOut') : wsOut'[i] # "close" BY <3>1, <3>2, <3>3 DEF Closed
    <3>6. ~Closed' /\ CloseFrameLast' BY <3>5 DEF Closed, CloseFrameLast
    <3>7. WsTypeOK' BY <1>1, <2>1, <2>2, <3>4 DEF WsInv, WsTypeOK
    <3>8. \A u \in WsThreads : wsPc'[u] \notin {"check", "write"}
      BY <1>1, <2>1, <2>2 DEF WsInv
    <3>. QED BY <1>1, <2>1, <2>2, <3>6, <3>7, <3>8 DEF WsInv
  <2>. QED BY <1>5, <2>3, <2>4 DEF FrameWrites
<1>. QED BY <1>3, <1>4, <1>5

(* closeWith: the flag, the frame, the socket.                              *)
LEMMA ClosesKeep ==
  ASSUME WsInv, NEW t \in WsThreads, CloseMarks(t) \/ CloseFrame(t) \/ CloseShuts(t)
  PROVE  WsInv'
<1>1. ASSUME NEW pc \in {"idle", "closeFrame", "shut", "over"}, WsAt(t, pc)
      PROVE  /\ wsPc' \in [WsThreads -> {"idle", "compress", "frame", "check", "write", "read",
                                         "pong", "closing", "closeFrame", "shut", "over"}]
             /\ \A u \in WsThreads : wsPc'[u] = IF u = t THEN pc ELSE wsPc[u]
  BY <1>1 DEF WsInv, WsTypeOK, WsAt
<1>2. wsFlags \in [closed: BOOLEAN, conn: BOOLEAN] BY DEF WsInv, WsTypeOK
<1>3. CASE CloseMarks(t)
  <2>1. /\ UNCHANGED <<wsWriter, wsOut, wsRecv, wsDeflate>> /\ wsPc[t] = "closing"
        /\ wsFlags' = [wsFlags EXCEPT !.closed = TRUE]
    BY <1>3 DEF CloseMarks
  <2>2. PICK pc \in {"closeFrame", "shut"} :
          WsAt(t, pc) /\ (pc = "closeFrame" => ~wsFlags.closed)
    BY <1>3 DEF CloseMarks
  <2>3. wsFlags' \in [closed: BOOLEAN, conn: BOOLEAN] /\ wsFlags'.closed BY <1>2, <2>1
  <2>4. WsTypeOK' BY <1>1, <2>1, <2>2, <2>3 DEF WsInv, WsTypeOK
  <2>5. (Closed' <=> Closed) /\ CloseFrameLast' BY <2>1 DEF Closed, WsInv, CloseFrameLast
  <2>6. \A u \in WsThreads : wsPc[u] = "closeFrame" => wsFlags.closed BY DEF WsInv
  <2>7. \A u \in WsThreads : wsPc'[u] = IF u = t THEN pc ELSE wsPc[u] BY <1>1, <2>2
  <2>8. Closed => pc # "closeFrame" BY <2>2 DEF WsInv
  <2>. QED BY <2>1, <2>2, <2>3, <2>4, <2>5, <2>6, <2>7, <2>8 DEF WsInv
<1>4. CASE CloseFrame(t)
  <2>1. /\ UNCHANGED <<wsFlags, wsWriter, wsRecv, wsDeflate>> /\ wsPc[t] = "closeFrame"
        /\ wsWriter = Nobody /\ WsAt(t, "shut") /\ wsFlags.closed /\ ~Closed
    BY <1>4 DEF CloseFrame, WsInv
  <2>2. \A u \in WsThreads : wsPc'[u] = IF u = t THEN "shut" ELSE wsPc[u]
    BY <1>1, <2>1
  <2>3. \A u \in WsThreads : wsPc'[u] \notin {"check", "write", "closeFrame"}
    BY <2>1, <2>2, WsAssumption DEF WsInv
  <2>4. wsOut \in Seq({"data", "control", "torn", "close"}) BY DEF WsInv, WsTypeOK
  <2>5. wsOut' = wsOut \/ wsOut' = Append(wsOut, "close") BY <1>4 DEF CloseFrame
  <2>6. wsOut' \in Seq({"data", "control", "torn", "close"}) BY <2>4, <2>5
  <2>7. CloseFrameLast' BY <2>1, <2>4, <2>5 DEF Closed, CloseFrameLast
  <2>8. WsTypeOK' BY <1>1, <2>1, <2>6 DEF WsInv, WsTypeOK
  <2>. QED BY <2>1, <2>3, <2>7, <2>8 DEF WsInv
<1>5. CASE CloseShuts(t)
  <2>1. /\ UNCHANGED <<wsWriter, wsOut, wsRecv, wsDeflate>> /\ wsPc[t] = "shut"
        /\ wsFlags' = [wsFlags EXCEPT !.conn = FALSE]
    BY <1>5 DEF CloseShuts
  <2>2. PICK pc \in {"idle", "over"} : WsAt(t, pc) BY <1>5 DEF CloseShuts
  <2>3. /\ wsFlags' \in [closed: BOOLEAN, conn: BOOLEAN]
        /\ wsFlags'.closed = wsFlags.closed
    BY <1>2, <2>1
  <2>4. WsTypeOK' BY <1>1, <2>1, <2>2, <2>3 DEF WsInv, WsTypeOK
  <2>5. (Closed' <=> Closed) /\ CloseFrameLast' BY <2>1 DEF Closed, WsInv, CloseFrameLast
  <2>6. \A u \in WsThreads : wsPc'[u] = IF u = t THEN pc ELSE wsPc[u] BY <1>1, <2>2
  <2>. QED BY <2>1, <2>2, <2>3, <2>4, <2>5, <2>6 DEF WsInv
<1>. QED BY <1>3, <1>4, <1>5

LEMMA WsInvNext == WsInv /\ [WsNext]_wsVars => WsInv'
<1>. SUFFICES ASSUME WsInv, [WsNext]_wsVars PROVE WsInv' OBVIOUS
<1>1. Receiver \in WsThreads BY DEF WsThreads
<1>2. wsRecv \in [message: {"none", "plain", "deflated"}, frames: 0..WsMaxFrames]
  BY DEF WsInv, WsTypeOK
<1>3. \A frame \in {"none", "plain", "deflated"} : Received(frame) =>
         /\ wsRecv' \in [message: {"none", "plain", "deflated"}, frames: 0..WsMaxFrames]
         /\ wsPc[Receiver] = "read"
  BY <1>2, WsAssumption DEF Received
<1>4. ASSUME NEW t \in WsThreads, SendBegins(t) \/ Compresses(t) \/ CloseBegins(t) PROVE WsInv'
  BY <1>2, <1>4, WsOthers DEF SendBegins, Compresses, CloseBegins
<1>5. CASE RecvBegins
  <2>1. wsRecv' \in [message: {"none", "plain", "deflated"}, frames: 0..WsMaxFrames]
    BY <1>2, <1>5 DEF RecvBegins
  <2>. QED BY <1>1, <1>5, <2>1, WsOthers DEF RecvBegins
<1>6. CASE RecvPing \/ RecvCloses \/ RecvFails
  <2>1. wsRecv.message \in {"none", "plain", "deflated"} BY <1>2
  <2>. QED BY <1>1, <1>2, <1>3, <1>6, <2>1, WsOthers DEF RecvPing, RecvCloses, RecvFails
<1>7. CASE RecvData \/ RecvMore
  <2>1. wsRecv.message \in {"none", "plain", "deflated"} BY <1>2
  <2>2. PICK kind \in {"none", "plain", "deflated"} :
          (Received(kind) /\ UNCHANGED wsPc) \/ Whole(kind)
    BY <1>7, <2>1 DEF RecvData, RecvMore
  <2>3. UNCHANGED <<wsFlags, wsWriter, wsOut, wsDeflate>> BY <1>7 DEF RecvData, RecvMore
  <2>4. CASE Received(kind) /\ UNCHANGED wsPc
    <3>1. WsAt(Receiver, "read") /\ wsPc[Receiver] = "read"
          /\ wsRecv' \in [message: {"none", "plain", "deflated"}, frames: 0..WsMaxFrames]
      BY <1>1, <1>3, <2>4 DEF WsAt, WsInv, WsTypeOK
    <3>. QED BY <1>1, <2>3, <3>1, WsOthers
  <2>5. CASE Whole(kind)
    BY <1>1, <1>3, <2>3, <2>5, WsOthers DEF Whole
  <2>. QED BY <2>2, <2>4, <2>5
<1>8. CASE UNCHANGED wsVars
  BY <1>8 DEF wsVars, WsInv, WsTypeOK, Closed, CloseFrameLast
<1>. QED BY <1>4, <1>5, <1>6, <1>7, <1>8, FramesKeep, ClosesKeep DEF WsNext

(* The Close frame is the last the client sends, and it is sent once        *)
(* (writeFrame, closeWith, writeCloseFrame).                                *)
THEOREM NothingFollowsClose == WsSpec => []CloseFrameLast
<1>1. WsInv => CloseFrameLast BY DEF WsInv
<1>. QED BY WsInvInit, WsInvNext, <1>1, PTL DEF WsSpec

-----------------------------------------------------------------------------
(* The links and flows to a MASQUE proxy                                   *)

(* Who closes a link that is alive: the session, which has it or is at      *)
(* closing it, or the goroutine that opened it and has not handed it on.    *)
LinkOwned(l) ==
  \/ l = mqLink \/ l = mqClosed.link
  \/ \E d \in MqDials : mqDial[d].pc \in {"store", "lost"} /\ mqDial[d].link = l

(* And who closes a flow.                                                   *)
FlowOwned(d) ==
  mqDial[d].pc \in {"inner", "keep"} \/ d \in mqKept \/ d \in mqClosed.inner

MqInv ==
  /\ MqTypeOK
  /\ mqClosed.closed => mqLink = 0 /\ mqKept = {}
  /\ ~mqClosed.closed => mqClosed.link = 0 /\ mqClosed.inner = {}
  /\ \A l \in MqLinks : mqLinks[l] = "alive" => LinkOwned(l)
  /\ \A d \in MqDials : mqInner[d].flow = "open" => FlowOwned(d)

LEMMA MqInvInit == MqInit => MqInv
<1>. SUFFICES ASSUME MqInit PROVE MqInv OBVIOUS
<1>1. MqTypeOK
  BY MqAssumption DEF MqInit, MqTypeOK, NoInner
<1>. QED BY <1>1 DEF MqInit, MqInv, NoInner

(* Steps of a goroutine at the link.                                        *)
LEMMA LinkKeeps ==
  ASSUME MqInv, NEW d \in MqDials,
         \/ LinkLooks(d) \/ DeadCloses(d) \/ LinkUp(d) \/ MqDialFails(d) \/ LinkStored(d)
         \/ LoserCloses(d)
  PROVE  MqInv'
<1>. DEFINE Pcs == {"idle", "dead", "dial", "store", "lost", "exchange", "inner", "keep", "watch"}
            Dial == [pc: Pcs, link: 0..MqMaxLinks, won: 0..MqMaxLinks]
<1>1. /\ mqDial \in [MqDials -> Dial] /\ mqDial[d] \in Dial
      /\ mqLinks \in [MqLinks -> {"none", "alive", "dead", "closed"}]
      /\ mqLink \in 0..MqMaxLinks /\ 0 \in 0..MqMaxLinks /\ 0 \notin MqLinks
      /\ mqDial[d].link \in 0..MqMaxLinks /\ mqDial[d].won \in 0..MqMaxLinks
  BY MqAssumption DEF MqInv, MqTypeOK, MqLinks
<1>2. UNCHANGED <<mqInner, mqKept, mqClosed>>
  BY DEF LinkLooks, DeadCloses, LinkUp, MqDialFails, LinkStored, LoserCloses
<1>3. ASSUME NEW pc \in Pcs, NEW l \in 0..MqMaxLinks, MqAt(d, pc, l)
      PROVE  /\ mqDial' \in [MqDials -> Dial]
             /\ \A e \in MqDials : mqDial'[e] = IF e = d THEN [pc |-> pc, link |-> l, won |-> 0]
                                                ELSE mqDial[e]
  BY <1>1, <1>3 DEF MqAt
<1>4. mqDial[d].pc \notin {"inner", "keep"}
  BY DEF LinkLooks, DeadCloses, LinkUp, MqDialFails, LinkStored, LoserCloses
(* Flows are as they were.                                                  *)
<1>5. ASSUME \A e \in MqDials : e # d => mqDial'[e] = mqDial[e]
      PROVE  \A e \in MqDials : mqInner'[e].flow = "open" => FlowOwned(e)'
  BY <1>2, <1>4, <1>5 DEF MqInv, FlowOwned
<1>6. CASE LinkLooks(d)
  <2>1. PICK pc \in {"dial", "exchange", "dead"}, l \in 0..MqMaxLinks :
          /\ MqAt(d, pc, l) /\ mqLinks' = mqLinks /\ ~mqClosed.closed /\ mqDial[d].pc = "idle"
          /\ \/ mqLink' = mqLink
             \/ mqLink # 0 /\ mqLinks[mqLink] # "alive" /\ mqLink' = 0
    BY <1>1, <1>6 DEF LinkLooks
  <2>2. \A e \in MqDials : mqDial'[e] = IF e = d THEN [pc |-> pc, link |-> l, won |-> 0]
                                        ELSE mqDial[e]
    BY <1>3, <2>1
  <2>3. \A k \in MqLinks : mqLinks'[k] = "alive" => LinkOwned(k)'
    BY <1>2, <2>1, <2>2 DEF MqInv, LinkOwned
  <2>4. MqTypeOK'
    <3>1. mqDial' \in [MqDials -> Dial] BY <1>3, <2>1
    <3>2. mqLink' \in 0..MqMaxLinks BY <1>1, <2>1
    <3>. QED BY <1>2, <2>1, <3>1, <3>2 DEF MqInv, MqTypeOK
  <2>. QED BY <1>2, <1>5, <2>1, <2>2, <2>3, <2>4 DEF MqInv
<1>7. CASE DeadCloses(d) \/ LoserCloses(d)
  <2>1. PICK pc \in {"dial", "idle", "exchange"}, l \in 0..MqMaxLinks : MqAt(d, pc, l)
    BY <1>1, <1>7 DEF DeadCloses, LoserCloses
  <2>2. mqLinks' = [mqLinks EXCEPT ![mqDial[d].link] = "closed"] /\ mqLink' = mqLink
    BY <1>7 DEF DeadCloses, LoserCloses
  <2>3. \A e \in MqDials : mqDial'[e] = IF e = d THEN [pc |-> pc, link |-> l, won |-> 0]
                                        ELSE mqDial[e]
    BY <1>3, <2>1
  <2>4. mqLinks' \in [MqLinks -> {"none", "alive", "dead", "closed"}] BY <1>1, <2>2
  <2>5. ASSUME NEW k \in MqLinks, mqLinks'[k] = "alive" PROVE LinkOwned(k)'
    <3>1. k # mqDial[d].link /\ mqLinks[k] = "alive" BY <1>1, <2>2, <2>5
    <3>2. LinkOwned(k) BY <3>1 DEF MqInv
    <3>. QED BY <1>2, <2>2, <2>3, <3>1, <3>2 DEF LinkOwned
  <2>6. MqTypeOK'
    <3>1. mqDial' \in [MqDials -> Dial] BY <1>3, <2>1
    <3>. QED BY <1>2, <2>2, <2>4, <3>1 DEF MqInv, MqTypeOK
  <2>. QED BY <1>2, <1>5, <2>2, <2>3, <2>5, <2>6 DEF MqInv
<1>8. CASE LinkUp(d)
  <2>1. PICK l \in MqLinks : /\ mqLinks' = [mqLinks EXCEPT ![l] = "alive"]
                             /\ MqAt(d, "store", l) /\ mqLink' = mqLink
    BY <1>8 DEF LinkUp
  <2>2. l \in 0..MqMaxLinks BY MqAssumption DEF MqLinks
  <2>3. \A e \in MqDials : mqDial'[e] = IF e = d THEN [pc |-> "store", link |-> l, won |-> 0]
                                        ELSE mqDial[e]
    BY <1>3, <2>1, <2>2
  <2>4. mqDial[d].pc = "dial" BY <1>8 DEF LinkUp
  <2>5. ASSUME NEW k \in MqLinks, mqLinks'[k] = "alive" PROVE LinkOwned(k)'
    <3>1. CASE k = l BY <2>3, <3>1 DEF LinkOwned
    <3>2. CASE k # l
      <4>1. LinkOwned(k) BY <1>1, <2>1, <2>5, <3>2 DEF MqInv
      <4>. QED BY <1>2, <2>1, <2>3, <2>4, <4>1 DEF LinkOwned
    <3>. QED BY <3>1, <3>2
  <2>6. MqTypeOK' BY <1>1, <1>2, <1>3, <2>1, <2>2 DEF MqInv, MqTypeOK
  <2>. QED BY <1>2, <1>5, <2>1, <2>3, <2>5, <2>6 DEF MqInv
<1>9. CASE MqDialFails(d)
  <2>1. MqAt(d, "idle", 0) /\ mqDial[d].pc = "dial" /\ UNCHANGED <<mqLink, mqLinks>>
    BY <1>9 DEF MqDialFails
  <2>2. \A e \in MqDials : mqDial'[e] = IF e = d THEN [pc |-> "idle", link |-> 0, won |-> 0]
                                        ELSE mqDial[e]
    BY <1>1, <1>3, <2>1
  <2>3. \A k \in MqLinks : mqLinks'[k] = "alive" => LinkOwned(k)'
    BY <1>2, <2>1, <2>2 DEF MqInv, LinkOwned
  <2>4. MqTypeOK' BY <1>1, <1>2, <1>3, <2>1 DEF MqInv, MqTypeOK
  <2>. QED BY <1>2, <1>5, <2>1, <2>2, <2>3, <2>4 DEF MqInv
<1>10. CASE LinkStored(d)
  <2>1. mqLinks' = mqLinks /\ mqDial[d].pc = "store" BY <1>10 DEF LinkStored
  <2>. DEFINE l == mqDial[d].link
              won == mqLink # 0 /\ mqLinks[mqLink] = "alive"
  <2>2. CASE mqClosed.closed /\ MqAt(d, "lost", l) /\ UNCHANGED mqLink
    <3>1. \A e \in MqDials : mqDial'[e] = IF e = d THEN [pc |-> "lost", link |-> l, won |-> 0]
                                          ELSE mqDial[e]
      BY <1>1, <1>3, <2>2
    <3>2. \A k \in MqLinks : mqLinks'[k] = "alive" => LinkOwned(k)'
      BY <1>2, <2>1, <2>2, <3>1 DEF MqInv, LinkOwned
    <3>3. MqTypeOK' BY <1>1, <1>2, <1>3, <2>1, <2>2 DEF MqInv, MqTypeOK
    <3>. QED BY <1>2, <1>5, <2>1, <2>2, <3>1, <3>2, <3>3 DEF MqInv
  <2>3. CASE /\ ~mqClosed.closed /\ won /\ UNCHANGED mqLink
             /\ mqDial' = [mqDial EXCEPT ![d].pc = "lost", ![d].won = mqLink]
    <3>1. \A e \in MqDials :
            /\ e # d => mqDial'[e] = mqDial[e]
            /\ e = d => mqDial'[e].pc = "lost" /\ mqDial'[e].link = l
      BY <1>1, <2>3
    <3>2. mqDial' \in [MqDials -> Dial] BY <1>1, <2>3
    <3>3. ASSUME NEW k \in MqLinks, mqLinks'[k] = "alive" PROVE LinkOwned(k)'
      <4>1. LinkOwned(k) BY <2>1, <3>3 DEF MqInv
      <4>2. CASE k = mqLink \/ k = mqClosed.link BY <1>2, <2>3, <4>2 DEF LinkOwned
      <4>3. CASE \E e \in MqDials : mqDial[e].pc \in {"store", "lost"} /\ mqDial[e].link = k
        <5>1. PICK e \in MqDials : mqDial[e].pc \in {"store", "lost"} /\ mqDial[e].link = k
          BY <4>3
        <5>2. mqDial'[e].pc \in {"store", "lost"} /\ mqDial'[e].link = k BY <3>1, <5>1
        <5>. QED BY <5>2 DEF LinkOwned
      <4>. QED BY <4>1, <4>2, <4>3 DEF LinkOwned
    <3>4. MqTypeOK' BY <1>1, <1>2, <2>1, <2>3, <3>2 DEF MqInv, MqTypeOK
    <3>. QED BY <1>2, <1>5, <2>1, <2>3, <3>1, <3>3, <3>4 DEF MqInv
  <2>4. CASE ~mqClosed.closed /\ ~won /\ mqLink' = l /\ MqAt(d, "exchange", l)
    <3>1. \A e \in MqDials : mqDial'[e] = IF e = d THEN [pc |-> "exchange", link |-> l, won |-> 0]
                                          ELSE mqDial[e]
      BY <1>1, <1>3, <2>4
    <3>2. ASSUME NEW k \in MqLinks, mqLinks'[k] = "alive" PROVE LinkOwned(k)'
      <4>1. k # mqLink BY <1>1, <2>1, <2>4, <3>2
      <4>2. LinkOwned(k) BY <2>1, <3>2 DEF MqInv
      <4>. QED BY <1>2, <2>4, <3>1, <4>1, <4>2 DEF LinkOwned
    <3>3. MqTypeOK' BY <1>1, <1>2, <1>3, <2>1, <2>4 DEF MqInv, MqTypeOK
    <3>. QED BY <1>2, <1>5, <2>1, <2>4, <3>1, <3>2, <3>3 DEF MqInv
  <2>. QED BY <1>10, <2>2, <2>3, <2>4 DEF LinkStored
<1>. QED BY <1>6, <1>7, <1>8, <1>9, <1>10

(* Steps of a goroutine at its flow, and what ends the flow.                *)
LEMMA FlowKeeps ==
  ASSUME MqInv, NEW d \in MqDials,
         \/ ExchangeEnds(d) \/ FlowOpens(d) \/ InnerFails(d) \/ InnerUp(d) \/ InnerKept(d)
         \/ InnerWatched(d) \/ InnerForgotten(d) \/ InnerEnds(d) \/ CloseInner(d)
  PROVE  MqInv'
<1>. DEFINE Pcs == {"idle", "dead", "dial", "store", "lost", "exchange", "inner", "keep", "watch"}
            Dial == [pc: Pcs, link: 0..MqMaxLinks, won: 0..MqMaxLinks]
            Inner == [flow: {"none", "open", "closed"}, conn: {"none", "up", "ended"}]
<1>1. /\ mqDial \in [MqDials -> Dial] /\ mqInner \in [MqDials -> Inner]
      /\ mqDial[d] \in Dial /\ mqInner[d] \in Inner
      /\ 0 \in 0..MqMaxLinks /\ mqDial[d].link \in 0..MqMaxLinks
      /\ mqKept \subseteq MqDials
      /\ mqClosed \in [closed: BOOLEAN, tr: BOOLEAN, link: 0..MqMaxLinks, inner: SUBSET MqDials]
  BY MqAssumption DEF MqInv, MqTypeOK
<1>2. UNCHANGED <<mqLink, mqLinks>>
  BY DEF ExchangeEnds, FlowOpens, InnerFails, InnerUp, InnerKept, InnerWatched, InnerForgotten,
         InnerEnds, CloseInner
<1>3. ASSUME NEW pc \in {"idle", "inner", "keep", "watch"}, NEW l \in 0..MqMaxLinks,
             MqAt(d, pc, l)
      PROVE  /\ mqDial' \in [MqDials -> Dial]
             /\ \A e \in MqDials : mqDial'[e] = IF e = d THEN [pc |-> pc, link |-> l, won |-> 0]
                                                ELSE mqDial[e]
  BY <1>1, <1>3 DEF MqAt
(* No link changes hands.                                                   *)
<1>4. ASSUME mqClosed'.link = mqClosed.link,
             \/ UNCHANGED mqDial
             \/ /\ mqDial[d].pc \notin {"store", "lost"}
                /\ \A e \in MqDials : e # d => mqDial'[e] = mqDial[e]
      PROVE  \A l \in MqLinks : mqLinks'[l] = "alive" => LinkOwned(l)'
  <2>. SUFFICES ASSUME NEW l \in MqLinks, mqLinks'[l] = "alive" PROVE LinkOwned(l)' OBVIOUS
  <2>1. LinkOwned(l) BY <1>2 DEF MqInv
  <2>. QED BY <1>2, <1>4, <2>1 DEF LinkOwned
<1>5. CASE ExchangeEnds(d) \/ InnerWatched(d)
  <2>1. /\ MqAt(d, "idle", 0) /\ mqDial[d].pc \in {"exchange", "watch"}
        /\ UNCHANGED <<mqInner, mqKept, mqClosed>>
    BY <1>5 DEF ExchangeEnds, InnerWatched
  <2>2. MqTypeOK' BY <1>1, <1>2, <1>3, <2>1 DEF MqInv, MqTypeOK
  <2>3. \A e \in MqDials : e # d => mqDial'[e] = mqDial[e] BY <1>1, <1>3, <2>1
  <2>4. \A l \in MqLinks : mqLinks'[l] = "alive" => LinkOwned(l)' BY <1>4, <2>1, <2>3
  <2>5. \A e \in MqDials : mqInner'[e].flow = "open" => FlowOwned(e)'
    BY <2>1, <2>3 DEF MqInv, FlowOwned
  <2>. QED BY <1>2, <2>1, <2>2, <2>4, <2>5 DEF MqInv
<1>6. CASE FlowOpens(d) \/ InnerUp(d)
  <2>1. PICK pc \in {"inner", "keep"} :
          /\ MqAt(d, pc, mqDial[d].link) /\ mqDial[d].pc \in {"exchange", "inner"}
          /\ UNCHANGED <<mqKept, mqClosed>>
    BY <1>6 DEF FlowOpens, InnerUp
  <2>2. PICK inner \in Inner : mqInner' = [mqInner EXCEPT ![d] = inner]
    BY <1>1, <1>6 DEF FlowOpens, InnerUp
  <2>3. mqInner' \in [MqDials -> Inner] BY <1>1, <2>2
  <2>4. \A e \in MqDials : mqDial'[e] = IF e = d THEN [pc |-> pc, link |-> mqDial[d].link, won |-> 0]
                                        ELSE mqDial[e]
    BY <1>1, <1>3, <2>1
  <2>5. MqTypeOK'
    <3>1. pc \in {"idle", "inner", "keep", "watch"} /\ mqDial[d].link \in 0..MqMaxLinks
      BY <1>1
    <3>. HIDE DEF Dial
    <3>2. mqDial' \in [MqDials -> Dial] BY <1>3, <2>1, <3>1
    <3>. USE DEF Dial
    <3>. QED BY <1>2, <2>1, <2>3, <3>2 DEF MqInv, MqTypeOK
  <2>6. \A l \in MqLinks : mqLinks'[l] = "alive" => LinkOwned(l)' BY <1>4, <2>1, <2>4
  <2>7. \A e \in MqDials : mqInner'[e].flow = "open" => FlowOwned(e)'
    BY <1>1, <2>1, <2>2, <2>4 DEF MqInv, FlowOwned
  <2>. QED BY <1>2, <2>1, <2>5, <2>6, <2>7 DEF MqInv
<1>7. CASE InnerFails(d)
  <2>1. /\ MqAt(d, "idle", 0) /\ mqDial[d].pc = "inner" /\ UNCHANGED <<mqKept, mqClosed>>
        /\ mqInner' = [mqInner EXCEPT ![d].flow = "closed"]
    BY <1>7 DEF InnerFails
  <2>2. /\ mqInner' \in [MqDials -> Inner] /\ mqInner'[d].flow = "closed"
        /\ \A e \in MqDials : e # d => mqInner'[e] = mqInner[e]
    BY <1>1, <2>1
  <2>3. \A e \in MqDials : e # d => mqDial'[e] = mqDial[e] BY <1>1, <1>3, <2>1
  <2>4. MqTypeOK' BY <1>1, <1>2, <1>3, <2>1, <2>2 DEF MqInv, MqTypeOK
  <2>5. \A l \in MqLinks : mqLinks'[l] = "alive" => LinkOwned(l)' BY <1>4, <2>1, <2>3
  <2>6. \A e \in MqDials : mqInner'[e].flow = "open" => FlowOwned(e)'
    BY <2>1, <2>2, <2>3 DEF MqInv, FlowOwned
  <2>. QED BY <1>2, <2>1, <2>4, <2>5, <2>6 DEF MqInv
<1>8. CASE InnerKept(d)
  <2>1. mqDial[d].pc = "keep" /\ mqClosed' = mqClosed BY <1>8 DEF InnerKept
  <2>2. CASE mqClosed.closed
    <3>1. /\ mqInner' = [mqInner EXCEPT ![d] = [flow |-> "closed", conn |-> "ended"]]
          /\ MqAt(d, "idle", 0) /\ mqKept' = mqKept
      BY <1>8, <2>2 DEF InnerKept
    <3>2. mqInner' \in [MqDials -> Inner] BY <1>1, <3>1
    <3>3. \A e \in MqDials : e # d => mqDial'[e] = mqDial[e] BY <1>1, <1>3, <3>1
    <3>4. MqTypeOK' BY <1>1, <1>2, <1>3, <2>1, <3>1, <3>2 DEF MqInv, MqTypeOK
    <3>5. \A l \in MqLinks : mqLinks'[l] = "alive" => LinkOwned(l)' BY <1>4, <2>1, <3>3
    <3>6. \A e \in MqDials : mqInner'[e].flow = "open" => FlowOwned(e)'
      BY <1>1, <2>1, <3>1, <3>3 DEF MqInv, FlowOwned
    <3>. QED BY <1>2, <2>1, <3>1, <3>4, <3>5, <3>6 DEF MqInv
  <2>3. CASE ~mqClosed.closed
    <3>1. mqKept' = mqKept \cup {d} /\ MqAt(d, "watch", 0) /\ mqInner' = mqInner
      BY <1>8, <2>3 DEF InnerKept
    <3>2. \A e \in MqDials : e # d => mqDial'[e] = mqDial[e] BY <1>1, <1>3, <3>1
    <3>3. MqTypeOK' BY <1>1, <1>2, <1>3, <2>1, <3>1 DEF MqInv, MqTypeOK
    <3>4. \A l \in MqLinks : mqLinks'[l] = "alive" => LinkOwned(l)' BY <1>4, <2>1, <3>2
    <3>5. \A e \in MqDials : mqInner'[e].flow = "open" => FlowOwned(e)'
      BY <2>1, <3>1, <3>2 DEF MqInv, FlowOwned
    <3>. QED BY <1>2, <2>1, <2>3, <3>3, <3>4, <3>5 DEF MqInv
  <2>. QED BY <2>2, <2>3
<1>9. CASE InnerForgotten(d)
  <2>1. /\ mqDial' = mqDial /\ mqClosed' = mqClosed
        /\ mqKept' \subseteq mqKept /\ mqKept \subseteq mqKept' \cup {d}
        /\ mqInner' = [mqInner EXCEPT ![d].flow = "closed"]
    BY <1>9 DEF InnerForgotten
  <2>2. /\ mqInner' \in [MqDials -> Inner] /\ mqInner'[d].flow = "closed"
        /\ \A e \in MqDials : e # d => mqInner'[e] = mqInner[e]
    BY <1>1, <2>1
  <2>3. MqTypeOK' BY <1>1, <1>2, <2>1, <2>2 DEF MqInv, MqTypeOK
  <2>4. \A l \in MqLinks : mqLinks'[l] = "alive" => LinkOwned(l)' BY <1>4, <2>1
  <2>5. \A e \in MqDials : mqInner'[e].flow = "open" => FlowOwned(e)'
    BY <2>1, <2>2 DEF MqInv, FlowOwned
  <2>. QED BY <1>2, <2>1, <2>3, <2>4, <2>5 DEF MqInv
<1>10. CASE InnerEnds(d)
  <2>1. /\ UNCHANGED <<mqDial, mqClosed, mqKept>>
        /\ mqInner' = [mqInner EXCEPT ![d].conn = "ended"]
    BY <1>10 DEF InnerEnds
  <2>2. /\ mqInner' \in [MqDials -> Inner]
        /\ \A e \in MqDials : mqInner'[e].flow = mqInner[e].flow
    BY <1>1, <2>1
  <2>3. MqTypeOK' BY <1>1, <1>2, <2>1, <2>2 DEF MqInv, MqTypeOK
  <2>4. \A l \in MqLinks : mqLinks'[l] = "alive" => LinkOwned(l)' BY <1>4, <2>1
  <2>5. \A e \in MqDials : mqInner'[e].flow = "open" => FlowOwned(e)'
    BY <2>1, <2>2 DEF MqInv, FlowOwned
  <2>. QED BY <1>2, <2>1, <2>3, <2>4, <2>5 DEF MqInv
<1>11. CASE CloseInner(d)
  <2>1. /\ mqClosed' = [mqClosed EXCEPT !.inner = mqClosed.inner \ {d}]
        /\ mqInner' = [mqInner EXCEPT ![d] = [flow |-> "closed", conn |-> "ended"]]
        /\ UNCHANGED <<mqDial, mqKept>>
    BY <1>1, <1>11 DEF CloseInner
  <2>2. /\ mqInner' \in [MqDials -> Inner] /\ mqInner'[d].flow = "closed"
        /\ \A e \in MqDials : e # d => mqInner'[e] = mqInner[e]
    BY <1>1, <2>1
  <2>3. /\ mqClosed'.link = mqClosed.link /\ mqClosed'.closed = mqClosed.closed
        /\ mqClosed'.inner = mqClosed.inner \ {d}
        /\ mqClosed' \in [closed: BOOLEAN, tr: BOOLEAN, link: 0..MqMaxLinks,
                          inner: SUBSET MqDials]
    <3>1. mqClosed.inner \ {d} \in SUBSET MqDials BY <1>1
    <3>. QED BY <1>1, <2>1, <3>1
  <2>4. MqTypeOK' BY <1>2, <2>1, <2>2, <2>3 DEF MqInv, MqTypeOK
  <2>5. \A l \in MqLinks : mqLinks'[l] = "alive" => LinkOwned(l)' BY <1>4, <2>1, <2>3
  <2>6. \A e \in MqDials : mqInner'[e].flow = "open" => FlowOwned(e)'
    BY <2>1, <2>2, <2>3 DEF MqInv, FlowOwned
  <2>. QED BY <1>2, <2>1, <2>3, <2>4, <2>5, <2>6 DEF MqInv
<1>. QED BY <1>5, <1>6, <1>7, <1>8, <1>9, <1>10, <1>11

(* A link that dies, and closeMASQUE.                                       *)
LEMMA MasqueKeeps ==
  ASSUME MqInv, (\E l \in MqLinks : LinkDies(l)) \/ CloseMasque \/ CloseTransport \/ CloseLink
  PROVE  MqInv'
<1>. DEFINE Inner == [flow: {"none", "open", "closed"}, conn: {"none", "up", "ended"}]
            Rest == [closed: BOOLEAN, tr: BOOLEAN, link: 0..MqMaxLinks, inner: SUBSET MqDials]
<1>1. /\ mqInner \in [MqDials -> Inner] /\ mqClosed \in Rest
      /\ mqLinks \in [MqLinks -> {"none", "alive", "dead", "closed"}]
      /\ mqLink \in 0..MqMaxLinks /\ 0 \in 0..MqMaxLinks /\ mqKept \in SUBSET MqDials
  BY MqAssumption DEF MqInv, MqTypeOK
<1>2. mqDial' = mqDial BY DEF LinkDies, CloseMasque, CloseTransport, CloseLink
<1>3. ASSUME NEW l \in MqLinks, LinkDies(l) PROVE MqInv'
  <2>1. mqLinks' = [mqLinks EXCEPT ![l] = "dead"] /\ UNCHANGED <<mqLink, mqInner, mqKept, mqClosed>>
    BY <1>3 DEF LinkDies
  <2>2. MqTypeOK' BY <1>1, <1>2, <2>1 DEF MqInv, MqTypeOK
  <2>3. \A k \in MqLinks : mqLinks'[k] = "alive" => LinkOwned(k)'
    BY <1>1, <1>2, <2>1 DEF MqInv, LinkOwned
  <2>4. \A e \in MqDials : mqInner'[e].flow = "open" => FlowOwned(e)'
    BY <1>2, <2>1 DEF MqInv, FlowOwned
  <2>. QED BY <2>1, <2>2, <2>3, <2>4 DEF MqInv
<1>4. CASE CloseMasque
  <2>1. /\ mqClosed' = [closed |-> TRUE, tr |-> TRUE, link |-> mqLink, inner |-> mqKept]
        /\ mqLink' = 0 /\ mqKept' = {} /\ UNCHANGED <<mqLinks, mqInner>>
        /\ mqClosed.link = 0 /\ mqClosed.inner = {}
    BY <1>4 DEF CloseMasque, MqInv
  <2>2. mqClosed' \in Rest BY <1>1, <2>1
  <2>3. MqTypeOK' BY <1>1, <1>2, <2>1, <2>2 DEF MqInv, MqTypeOK
  <2>4. \A k \in MqLinks : mqLinks'[k] = "alive" => LinkOwned(k)'
    BY <1>2, <2>1, MqAssumption DEF MqInv, LinkOwned, MqLinks
  <2>5. \A e \in MqDials : mqInner'[e].flow = "open" => FlowOwned(e)'
    BY <1>2, <2>1 DEF MqInv, FlowOwned
  <2>. QED BY <2>1, <2>3, <2>4, <2>5 DEF MqInv
<1>5. CASE CloseTransport
  <2>1. /\ mqClosed' = [mqClosed EXCEPT !.tr = FALSE] /\ UNCHANGED <<mqLink, mqLinks, mqKept>>
        /\ mqInner' = [d \in MqDials |-> IF mqInner[d].conn = "up"
                                         THEN [mqInner[d] EXCEPT !.conn = "ended"]
                                         ELSE mqInner[d]]
    BY <1>5 DEF CloseTransport
  <2>2. /\ mqClosed' \in Rest /\ mqClosed'.link = mqClosed.link
        /\ mqClosed'.closed = mqClosed.closed /\ mqClosed'.inner = mqClosed.inner
    BY <1>1, <2>1
  <2>3. /\ mqInner' \in [MqDials -> Inner]
        /\ \A e \in MqDials : mqInner'[e].flow = mqInner[e].flow
    BY <1>1, <2>1
  <2>4. MqTypeOK' BY <1>2, <2>1, <2>2, <2>3 DEF MqInv, MqTypeOK
  <2>5. \A k \in MqLinks : mqLinks'[k] = "alive" => LinkOwned(k)'
    BY <1>2, <2>1, <2>2 DEF MqInv, LinkOwned
  <2>6. \A e \in MqDials : mqInner'[e].flow = "open" => FlowOwned(e)'
    BY <1>2, <2>1, <2>2, <2>3 DEF MqInv, FlowOwned
  <2>. QED BY <2>1, <2>2, <2>4, <2>5, <2>6 DEF MqInv
<1>6. CASE CloseLink
  <2>1. /\ mqClosed' = [mqClosed EXCEPT !.link = 0] /\ UNCHANGED <<mqLink, mqInner, mqKept>>
        /\ mqLinks' = [mqLinks EXCEPT ![mqClosed.link] = "closed"]
    BY <1>6 DEF CloseLink
  <2>2. /\ mqClosed' \in Rest /\ mqClosed'.link = 0
        /\ mqClosed'.closed = mqClosed.closed /\ mqClosed'.inner = mqClosed.inner
    BY <1>1, <2>1
  <2>3. mqLinks' \in [MqLinks -> {"none", "alive", "dead", "closed"}] BY <1>1, <2>1
  <2>4. MqTypeOK' BY <1>2, <2>1, <2>2, <2>3 DEF MqInv, MqTypeOK
  <2>5. ASSUME NEW k \in MqLinks, mqLinks'[k] = "alive" PROVE LinkOwned(k)'
    <3>1. k # mqClosed.link /\ LinkOwned(k) BY <1>1, <2>1, <2>5 DEF MqInv
    <3>. QED BY <1>2, <2>1, <3>1 DEF LinkOwned
  <2>6. \A e \in MqDials : mqInner'[e].flow = "open" => FlowOwned(e)'
    BY <1>2, <2>1, <2>2 DEF MqInv, FlowOwned
  <2>. QED BY <2>1, <2>2, <2>4, <2>5, <2>6 DEF MqInv
<1>. QED BY <1>3, <1>4, <1>5, <1>6

LEMMA MqInvNext == MqInv /\ [MqNext]_mqVars => MqInv'
<1>. SUFFICES ASSUME MqInv, [MqNext]_mqVars PROVE MqInv' OBVIOUS
<1>1. CASE UNCHANGED mqVars
  BY <1>1 DEF mqVars, MqInv, MqTypeOK, LinkOwned, FlowOwned
<1>2. CASE MqNext
  BY <1>2, LinkKeeps, FlowKeeps, MasqueKeeps DEF MqNext, MqSteps
<1>. QED BY <1>1, <1>2

(* When the session has closed its proxies and the dials under way have     *)
(* come back, no link is alive and no flow open (masqueLinkFor,             *)
(* dialH3ViaMasque, closeMASQUE).                                           *)
THEOREM MasqueIsClosed == MqSpec => []MasqueClosed
<1>1. MqInv => MasqueClosed
  BY MqAssumption DEF MqInv, MasqueClosed, LinkOwned, FlowOwned, MqLinks
<1>. QED BY MqInvInit, MqInvNext, <1>1, PTL DEF MqSpec

-----------------------------------------------------------------------------
(* Tunnels through an HTTP/2 proxy (H2Proxy)                               *)

(* A connection that is not there yet is untouched, and while the session   *)
(* is open only a connection nobody uses, and nobody will, is on its way    *)
(* out: the idle clock has retired it, or the sweep found it broken.        *)
ConnKept(c) ==
  /\ h2pConn[c].users = Cardinality(OnProxy(c))
  /\ h2pConn[c].under = "none" => h2pConn[c] = H2pNone
  /\ ~h2pClosed =>
       /\ h2pConn[c].retired => h2pConn[c].users = 0
       /\ "timer" \in h2pConn[c].leaving => h2pConn[c].retired
       /\ "shut" \in h2pConn[c].leaving =>
            h2pConn[c].users = 0 /\ (h2pConn[c].retired \/ h2pConn[c].broken)
       /\ h2pConn[c].under = "closed" => h2pConn[c].retired

(* Who goes through the pool holds its mutex, and which step of a goroutine *)
(* has a connection.                                                        *)
TunnelKept(t) ==
  /\ h2pTunnel[t].pc \in {"sweep", "claim"} => h2pLock = t
  /\ h2pTunnel[t].pc = "claim" => h2pPool.rest # <<>>
  /\ h2pTunnel[t].pc \in {"idle", "dial", "claim"} => h2pTunnel[t].conn = 0
  /\ h2pTunnel[t].pc \in {"connect", "up"} => h2pTunnel[t].conn # 0

Dialled == {c \in H2pConns : h2pConn[c].under # "none"}

H2pInv ==
  /\ H2pTypeOK
  /\ h2pPool.pooled \in Seq(Dialled) /\ h2pPool.rest \in Seq(Dialled)
  /\ \A c \in H2pConns : ConnKept(c)
  /\ \A t \in H2pTunnels : TunnelKept(t)

H2pPcs == {"idle", "sweep", "claim", "dial", "connect", "up"}

LEMMA H2pInvInit == H2pInit => H2pInv
<1>. SUFFICES ASSUME H2pInit PROVE H2pInv OBVIOUS
<1>1. <<>> \in Seq(H2pConns) /\ <<>> \in Seq(Dialled) BY EmptySeq
<1>2. /\ h2pPool \in [pooled: Seq(H2pConns), rest: Seq(H2pConns)]
      /\ h2pPool.pooled \in Seq(Dialled) /\ h2pPool.rest \in Seq(Dialled)
  BY <1>1 DEF H2pInit
<1>3. H2pNone \in H2pConnRecord BY DEF H2pNone, H2pConnRecord
<1>4. h2pConn \in [H2pConns -> H2pConnRecord] BY <1>3 DEF H2pInit
<1>5. 0 \in 0..H2pMaxConns BY H2pAssumption
<1>6. H2pTypeOK BY <1>2, <1>4, <1>5 DEF H2pInit, H2pTypeOK
<1>7. ASSUME NEW c \in H2pConns PROVE ConnKept(c)
  <2>1. OnProxy(c) = {} BY <1>7 DEF OnProxy, H2pInit
  <2>2. Cardinality(OnProxy(c)) = 0 BY <2>1, FS_EmptySet
  <2>3. h2pConn[c] = H2pNone BY <1>7 DEF H2pInit
  <2>. QED BY <2>2, <2>3 DEF ConnKept, H2pNone
<1>8. \A t \in H2pTunnels : TunnelKept(t) BY DEF TunnelKept, H2pInit
<1>. QED BY <1>2, <1>6, <1>7, <1>8 DEF H2pInv

(* A step of one goroutine: the type, and what the others keep.             *)
LEMMA TunnelMoves ==
  ASSUME H2pInv, NEW t \in H2pTunnels, NEW pc \in H2pPcs, NEW k \in 0..H2pMaxConns,
         TunnelAt(t, pc, k)
  PROVE  /\ h2pTunnel' \in [H2pTunnels -> [pc: H2pPcs, conn: 0..H2pMaxConns]]
         /\ h2pTunnel'[t].pc = pc /\ h2pTunnel'[t].conn = k
         /\ \A u \in H2pTunnels : u # t => h2pTunnel'[u] = h2pTunnel[u]
<1>1. h2pTunnel \in [H2pTunnels -> [pc: H2pPcs, conn: 0..H2pMaxConns]]
  BY DEF H2pInv, H2pTypeOK, H2pPcs
<1>. DEFINE new == [pc |-> pc, conn |-> k]
<1>2. new \in [pc: H2pPcs, conn: 0..H2pMaxConns] /\ new.pc = pc /\ new.conn = k OBVIOUS
<1>3. h2pTunnel' = [h2pTunnel EXCEPT ![t] = new] BY DEF TunnelAt
<1>. HIDE DEF new
<1>. QED BY <1>1, <1>2, <1>3

(* The tunnels on a connection are finitely many, none less or one less     *)
(* or more after a step of a goroutine.                                     *)
LEMMA OnProxyMoves ==
  ASSUME H2pInv, NEW t \in H2pTunnels, NEW c \in H2pConns,
         h2pTunnel' \in [H2pTunnels -> [pc: H2pPcs, conn: 0..H2pMaxConns]],
         \A u \in H2pTunnels : u # t => h2pTunnel'[u] = h2pTunnel[u]
  PROVE  LET was == t \in OnProxy(c)
             is == h2pTunnel'[t].conn = c /\ h2pTunnel'[t].pc \in {"sweep", "connect", "up"}
         IN  /\ (is <=> was) => Cardinality(OnProxy(c))' = Cardinality(OnProxy(c))
             /\ is /\ ~was => Cardinality(OnProxy(c))' = Cardinality(OnProxy(c)) + 1
             /\ was /\ ~is => Cardinality(OnProxy(c))' = Cardinality(OnProxy(c)) - 1
<1>. DEFINE is == h2pTunnel'[t].conn = c /\ h2pTunnel'[t].pc \in {"sweep", "connect", "up"}
<1>1. IsFiniteSet(OnProxy(c))
  BY FS_Subset, H2pAssumption DEF OnProxy
<1>2. OnProxy(c)' = IF is THEN OnProxy(c) \cup {t} ELSE OnProxy(c) \ {t}
  BY DEF OnProxy
<1>. HIDE DEF is
<1>3. CASE is
  BY <1>1, <1>2, <1>3, FS_AddElement, FS_CardinalityType DEF is
<1>4. CASE ~is
  BY <1>1, <1>2, <1>4, FS_RemoveElement, FS_CardinalityType DEF is
<1>. QED BY <1>3, <1>4

(* One tunnel on a connection is one user at least.                         *)
LEMMA UsersCounted ==
  ASSUME H2pInv, NEW c \in H2pConns
  PROVE  /\ h2pConn[c].users \in Nat
         /\ OnProxy(c) # {} => h2pConn[c].users > 0
<1>1. IsFiniteSet(OnProxy(c))
  BY FS_Subset, H2pAssumption DEF OnProxy
<1>. QED BY <1>1, FS_CardinalityType, FS_EmptySet DEF H2pInv, ConnKept

(* No connection that has been dialled is forgotten, so the pool stays one  *)
(* of dialled connections.                                                  *)
LEMMA DialledStay ==
  ASSUME NEW s \in Seq(Dialled),
         \A c \in H2pConns : h2pConn[c].under # "none" => h2pConn'[c].under # "none"
  PROVE  s \in Seq(Dialled')
<1>1. Dialled \subseteq Dialled' BY DEF Dialled
<1>. QED BY <1>1, SeqMonotonic

(* A goroutine's step from where no connection counts it to where none      *)
(* does, or from one to the same.                                           *)
LEMMA UsersStay ==
  ASSUME H2pInv, NEW t \in H2pTunnels, NEW pc \in H2pPcs, NEW k \in 0..H2pMaxConns,
         TunnelAt(t, pc, k),
         \A c \in H2pConns :
           (k = c /\ pc \in {"sweep", "connect", "up"}) <=> t \in OnProxy(c)
  PROVE  \A c \in H2pConns : Cardinality(OnProxy(c))' = Cardinality(OnProxy(c))
<1>1. /\ h2pTunnel' \in [H2pTunnels -> [pc: H2pPcs, conn: 0..H2pMaxConns]]
      /\ h2pTunnel'[t].pc = pc /\ h2pTunnel'[t].conn = k
      /\ \A u \in H2pTunnels : u # t => h2pTunnel'[u] = h2pTunnel[u]
  BY TunnelMoves
<1>. QED BY <1>1, OnProxyMoves

(* A step that changes no connection and no tunnel's connection.            *)
LEMMA ConnsStay ==
  ASSUME H2pInv, h2pConn' = h2pConn, h2pClosed' = h2pClosed,
         \A c \in H2pConns : Cardinality(OnProxy(c))' = Cardinality(OnProxy(c))
  PROVE  /\ \A c \in H2pConns : ConnKept(c)'
         /\ Dialled' = Dialled
BY DEF H2pInv, ConnKept, Dialled

(* Steps of a goroutine that find no connection and use none.               *)
LEMMA NobodyClaims ==
  ASSUME H2pInv, NEW t \in H2pTunnels,
         TakeBegins(t) \/ TakeEnds(t) \/ H2pDialFails(t) \/ TunnelUp(t)
  PROVE  H2pInv'
<1>1. /\ h2pConn' = h2pConn /\ h2pClosed' = h2pClosed
      /\ h2pTunnel[t] \in [pc: H2pPcs, conn: 0..H2pMaxConns]
      /\ 0 \in 0..H2pMaxConns /\ 0 \notin H2pConns /\ 0 \notin H2pTunnels
      /\ h2pPool \in [pooled: Seq(H2pConns), rest: Seq(H2pConns)]
  BY H2pAssumption
     DEF TakeBegins, TakeEnds, H2pDialFails, TunnelUp, H2pInv, H2pTypeOK, H2pPcs, H2pConns
<1>2. PICK pc \in H2pPcs, k \in 0..H2pMaxConns :
        /\ TunnelAt(t, pc, k)
        /\ k = h2pTunnel[t].conn
        /\ \/ /\ h2pTunnel[t].pc = "idle" /\ pc \in {"dial", "sweep"} /\ h2pLock = 0
              /\ pc = "sweep" => h2pLock' = t
              /\ pc # "sweep" => h2pLock' = 0
           \/ /\ h2pTunnel[t].pc = "sweep" /\ h2pLock' = 0
              /\ pc = IF h2pTunnel[t].conn = 0 THEN "dial" ELSE "connect"
           \/ h2pTunnel[t].pc = "dial" /\ pc = "idle" /\ h2pLock' = h2pLock
           \/ h2pTunnel[t].pc = "connect" /\ pc = "up" /\ h2pLock' = h2pLock
  <2>1. TunnelKept(t) BY DEF H2pInv
  <2>2. CASE TakeBegins(t)
    BY <1>1, <2>1, <2>2 DEF TakeBegins, TunnelKept, H2pPcs
  <2>3. CASE TakeEnds(t)
    BY <1>1, <2>3 DEF TakeEnds, H2pPcs
  <2>4. CASE H2pDialFails(t)
    BY <1>1, <2>1, <2>4 DEF H2pDialFails, TunnelKept, H2pPcs
  <2>5. CASE TunnelUp(t)
    BY <1>1, <2>5 DEF TunnelUp, H2pPcs
  <2>. QED BY <2>2, <2>3, <2>4, <2>5
<1>3. /\ h2pTunnel' \in [H2pTunnels -> [pc: H2pPcs, conn: 0..H2pMaxConns]]
      /\ h2pTunnel'[t].pc = pc /\ h2pTunnel'[t].conn = k
      /\ \A u \in H2pTunnels : u # t => h2pTunnel'[u] = h2pTunnel[u]
  BY <1>2, TunnelMoves
<1>4. \A c \in H2pConns : Cardinality(OnProxy(c))' = Cardinality(OnProxy(c))
  <2>1. \A c \in H2pConns :
          (k = c /\ pc \in {"sweep", "connect", "up"}) <=> t \in OnProxy(c)
    BY <1>1, <1>2 DEF OnProxy, H2pInv, TunnelKept
  <2>. QED BY <1>2, <2>1, UsersStay
<1>5. (\A c \in H2pConns : ConnKept(c)') /\ Dialled' = Dialled
  BY <1>1, <1>4, ConnsStay
(* The pool is taken in hand or left alone.                                 *)
<1>6. \/ h2pPool' = h2pPool
      \/ /\ h2pPool' = [pooled |-> <<>>, rest |-> h2pPool.pooled]
         /\ h2pLock = 0
  BY DEF TakeBegins, TakeEnds, H2pDialFails, TunnelUp
<1>7. /\ h2pPool' \in [pooled: Seq(H2pConns), rest: Seq(H2pConns)]
      /\ h2pPool'.pooled \in Seq(Dialled') /\ h2pPool'.rest \in Seq(Dialled')
  <2>1. CASE h2pPool' = h2pPool BY <1>1, <1>5, <2>1 DEF H2pInv
  <2>2. CASE h2pPool' = [pooled |-> <<>>, rest |-> h2pPool.pooled]
    <3>1. <<>> \in Seq(H2pConns) /\ <<>> \in Seq(Dialled) BY EmptySeq
    <3>. QED BY <1>1, <1>5, <2>2, <3>1 DEF H2pInv
  <2>. QED BY <1>6, <2>1, <2>2
<1>8. h2pLock' \in H2pTunnels \cup {0}
  BY <1>2 DEF H2pInv, H2pTypeOK, H2pPcs
<1>9. H2pTypeOK' BY <1>1, <1>3, <1>7, <1>8 DEF H2pInv, H2pTypeOK, H2pPcs
<1>10. ASSUME NEW u \in H2pTunnels PROVE TunnelKept(u)'
  <2>1. CASE u = t BY <1>1, <1>2, <1>3, <2>1 DEF TunnelKept, H2pInv
  <2>2. CASE u # t
    <3>1. h2pTunnel'[u] = h2pTunnel[u] /\ TunnelKept(u) BY <1>3, <2>2 DEF H2pInv
    <3>2. h2pTunnel[u].pc \in {"sweep", "claim"} => h2pLock' = h2pLock /\ h2pPool' = h2pPool
      <4>1. h2pTunnel[t].pc = "sweep" => h2pLock = t BY DEF H2pInv, TunnelKept
      <4>. QED BY <1>1, <1>2, <1>6, <2>2, <3>1, <4>1 DEF TunnelKept
    <3>. QED BY <3>1, <3>2 DEF TunnelKept
  <2>. QED BY <2>1, <2>2
<1>. QED BY <1>5, <1>7, <1>9, <1>10 DEF H2pInv

(* A connection's record after a step, field by field.                      *)
LEMMA RecordsKeep ==
  ASSUME NEW r \in H2pConnRecord
  PROVE  /\ \A users \in Int, armed \in BOOLEAN :
              [r EXCEPT !.users = users, !.armed = armed] \in H2pConnRecord
         /\ [r EXCEPT !.under = "open", !.users = 1] \in H2pConnRecord
         /\ \A fired \in 0..2 :
              [r EXCEPT !.armed = FALSE, !.fired = fired] \in H2pConnRecord
         /\ \A fired \in 0..2, retired \in BOOLEAN, leaving \in SUBSET {"timer", "shut"} :
              [r EXCEPT !.fired = fired, !.retired = retired, !.leaving = leaving]
                 \in H2pConnRecord
         /\ \A leaving \in SUBSET {"timer", "shut"} :
              /\ [r EXCEPT !.leaving = leaving] \in H2pConnRecord
              /\ [r EXCEPT !.leaving = leaving, !.under = "closed"] \in H2pConnRecord
              /\ [r EXCEPT !.leaving = leaving, !.retired = TRUE, !.armed = FALSE,
                           !.under = "closed"] \in H2pConnRecord
<1>1. \A users \in Int, armed \in BOOLEAN :
        [r EXCEPT !.users = users, !.armed = armed] \in H2pConnRecord
  BY DEF H2pConnRecord
<1>2. [r EXCEPT !.under = "open", !.users = 1] \in H2pConnRecord
  <2>1. 1 \in Int /\ "open" \in {"none", "open", "closed"} OBVIOUS
  <2>. QED BY <2>1 DEF H2pConnRecord
<1>3. \A fired \in 0..2 : [r EXCEPT !.armed = FALSE, !.fired = fired] \in H2pConnRecord
  BY DEF H2pConnRecord
<1>4. \A fired \in 0..2, retired \in BOOLEAN, leaving \in SUBSET {"timer", "shut"} :
        [r EXCEPT !.fired = fired, !.retired = retired, !.leaving = leaving]
           \in H2pConnRecord
  BY DEF H2pConnRecord
<1>5. ASSUME NEW leaving \in SUBSET {"timer", "shut"}
      PROVE  /\ [r EXCEPT !.leaving = leaving] \in H2pConnRecord
             /\ [r EXCEPT !.leaving = leaving, !.under = "closed"] \in H2pConnRecord
             /\ [r EXCEPT !.leaving = leaving, !.retired = TRUE, !.armed = FALSE,
                          !.under = "closed"] \in H2pConnRecord
  BY DEF H2pConnRecord
<1>. QED BY <1>1, <1>2, <1>3, <1>4, <1>5

(* One connection changes, and keeps having been dialled.                   *)
LEMMA OneConnMoves ==
  ASSUME H2pInv, NEW c \in H2pConns, NEW new \in H2pConnRecord,
         h2pConn' = [h2pConn EXCEPT ![c] = new], new.under # "none",
         h2pClosed' = h2pClosed,
         \A d \in H2pConns : d # c => Cardinality(OnProxy(d))' = Cardinality(OnProxy(d)),
         new.users = Cardinality(OnProxy(c))',
         ~h2pClosed =>
            /\ new.retired => new.users = 0
            /\ "timer" \in new.leaving => new.retired
            /\ "shut" \in new.leaving => new.users = 0 /\ (new.retired \/ new.broken)
            /\ new.under = "closed" => new.retired
  PROVE  /\ h2pConn' \in [H2pConns -> H2pConnRecord]
         /\ \A d \in H2pConns : ConnKept(d)'
         /\ \A s \in Seq(Dialled) : s \in Seq(Dialled')
         /\ c \in Dialled'
<1>1. h2pConn \in [H2pConns -> H2pConnRecord] BY DEF H2pInv, H2pTypeOK
<1>2. /\ h2pConn' \in [H2pConns -> H2pConnRecord] /\ h2pConn'[c] = new
      /\ \A d \in H2pConns : d # c => h2pConn'[d] = h2pConn[d]
  BY <1>1
<1>3. ConnKept(c)' BY <1>2 DEF ConnKept
<1>4. ASSUME NEW d \in H2pConns, d # c PROVE ConnKept(d)'
  BY <1>2, <1>4 DEF ConnKept, H2pInv
<1>5. \A d \in H2pConns : h2pConn[d].under # "none" => h2pConn'[d].under # "none"
  BY <1>2
<1>6. \A s \in Seq(Dialled) : s \in Seq(Dialled') BY <1>5, DialledStay
<1>. QED BY <1>2, <1>3, <1>4, <1>6 DEF Dialled

(* Taking the connection at hand out of the pool's rest, and putting it     *)
(* back behind the others.                                                  *)
LEMMA PoolMoves ==
  ASSUME NEW S, NEW p \in Seq(S), NEW rest \in Seq(S), rest # <<>>
  PROVE  /\ Head(rest) \in S /\ Tail(rest) \in Seq(S)
         /\ Append(p, Head(rest)) \in Seq(S)
BY HeadTailProperties, AppendProperties

(* The sweep: a connection nobody uses that is broken or retired goes, the  *)
(* others go back to the pool.                                              *)
LEMMA SweepKeeps ==
  ASSUME H2pInv, NEW t \in H2pTunnels, TakeSweeps(t)
  PROVE  H2pInv'
<1>1. /\ h2pPool \in [pooled: Seq(H2pConns), rest: Seq(H2pConns)]
      /\ h2pPool.pooled \in Seq(Dialled) /\ h2pPool.rest \in Seq(Dialled)
      /\ h2pPool.rest # <<>> /\ h2pTunnel[t].pc = "sweep" /\ h2pLock = t
      /\ h2pLock' = h2pLock /\ h2pClosed' = h2pClosed
      /\ h2pConn \in [H2pConns -> H2pConnRecord]
      /\ h2pTunnel[t] \in [pc: H2pPcs, conn: 0..H2pMaxConns]
      /\ 0 \in 0..H2pMaxConns /\ 0 \notin H2pConns
  BY H2pAssumption DEF H2pInv, TakeSweeps, TunnelKept, H2pTypeOK, H2pPcs, H2pConns
<1>2. PICK c \in H2pConns :
      /\ c = Swept(t)
      /\ c \in Dialled /\ Tail(h2pPool.rest) \in Seq(Dialled)
      /\ Append(h2pPool.pooled, c) \in Seq(Dialled)
      /\ Tail(h2pPool.rest) \in Seq(H2pConns)
      /\ Append(h2pPool.pooled, c) \in Seq(H2pConns)
  <2>1. /\ Swept(t) \in Dialled /\ Tail(h2pPool.rest) \in Seq(Dialled)
        /\ Append(h2pPool.pooled, Swept(t)) \in Seq(Dialled)
    BY <1>1, PoolMoves DEF Swept
  <2>2. /\ Swept(t) \in H2pConns /\ Tail(h2pPool.rest) \in Seq(H2pConns)
        /\ Append(h2pPool.pooled, Swept(t)) \in Seq(H2pConns)
    BY <1>1, PoolMoves DEF Swept
  <2>. QED BY <2>1, <2>2
<1>3. ASSUME NEW u \in H2pTunnels, u # t
      PROVE  h2pTunnel[u].pc \notin {"sweep", "claim"} /\ TunnelKept(u)
  BY <1>1, <1>3 DEF H2pInv, TunnelKept
<1>4. CASE /\ h2pConn[c].retired \/ (h2pConn[c].users = 0 /\ Broken(c))
           /\ h2pConn' = [h2pConn EXCEPT ![c].leaving = @ \cup {"shut"}]
           /\ h2pPool' = [h2pPool EXCEPT !.rest = Tail(@)]
           /\ UNCHANGED h2pTunnel
  <2>. DEFINE new == [h2pConn[c] EXCEPT !.leaving = @ \cup {"shut"}]
  <2>1. h2pConn[c] \in H2pConnRecord BY <1>1, <1>2
  <2>2. h2pConn[c].leaving \cup {"shut"} \in SUBSET {"timer", "shut"}
    BY <2>1 DEF H2pConnRecord
  <2>3. new \in H2pConnRecord BY <2>1, <2>2 DEF H2pConnRecord
  <2>4. /\ new.leaving = h2pConn[c].leaving \cup {"shut"} /\ new.under = h2pConn[c].under
        /\ new.users = h2pConn[c].users /\ new.retired = h2pConn[c].retired
        /\ new.broken = h2pConn[c].broken
    BY <2>1 DEF H2pConnRecord
  <2>5. h2pConn' = [h2pConn EXCEPT ![c] = new] BY <1>1, <1>2, <1>4
  <2>. HIDE DEF new
  <2>6. \A d \in H2pConns : Cardinality(OnProxy(d))' = Cardinality(OnProxy(d))
    BY <1>4 DEF OnProxy
  <2>7. ConnKept(c) BY <1>2 DEF H2pInv
  <2>8. h2pConn[c].users = 0 /\ Broken(c) => h2pConn[c].broken
    BY H2pAssumption DEF Broken
  <2>9. /\ h2pConn' \in [H2pConns -> H2pConnRecord] /\ \A d \in H2pConns : ConnKept(d)'
        /\ \A s \in Seq(Dialled) : s \in Seq(Dialled')
    <3>1. new.under # "none" BY <1>2, <2>4 DEF Dialled
    <3>2. new.users = Cardinality(OnProxy(c))' BY <1>2, <2>4, <2>6, <2>7 DEF ConnKept
    <3>3. ~h2pClosed =>
            /\ new.retired => new.users = 0
            /\ "timer" \in new.leaving => new.retired
            /\ "shut" \in new.leaving => new.users = 0 /\ (new.retired \/ new.broken)
            /\ new.under = "closed" => new.retired
      BY <1>4, <2>4, <2>7, <2>8 DEF ConnKept
    <3>. QED BY <1>1, <1>2, <2>3, <2>5, <2>6, <3>1, <3>2, <3>3, OneConnMoves
  <2>10. /\ h2pPool' \in [pooled: Seq(H2pConns), rest: Seq(H2pConns)]
         /\ h2pPool'.pooled \in Seq(Dialled') /\ h2pPool'.rest \in Seq(Dialled')
    BY <1>1, <1>2, <1>4, <2>9
  <2>11. H2pTypeOK' BY <1>1, <1>4, <2>9, <2>10 DEF H2pInv, H2pTypeOK
  <2>12. \A u \in H2pTunnels : TunnelKept(u)'
    BY <1>1, <1>3, <1>4 DEF TunnelKept, H2pInv
  <2>. QED BY <2>9, <2>10, <2>11, <2>12 DEF H2pInv
<1>5. CASE /\ h2pPool' = [pooled |-> Append(h2pPool.pooled, c),
                          rest |-> IF h2pTunnel[t].conn = 0 THEN h2pPool.rest
                                                           ELSE Tail(h2pPool.rest)]
           /\ IF h2pTunnel[t].conn = 0 THEN TunnelAt(t, "claim", 0) ELSE UNCHANGED h2pTunnel
           /\ h2pConn' = h2pConn
  <2>1. /\ h2pTunnel' \in [H2pTunnels -> [pc: H2pPcs, conn: 0..H2pMaxConns]]
        /\ \A u \in H2pTunnels : u # t => h2pTunnel'[u] = h2pTunnel[u]
        /\ h2pTunnel[t].conn # 0 => h2pTunnel'[t] = h2pTunnel[t]
        /\ h2pTunnel[t].conn = 0 => h2pTunnel'[t].pc = "claim" /\ h2pTunnel'[t].conn = 0
    <3>1. CASE h2pTunnel[t].conn = 0
      <4>1. "claim" \in H2pPcs BY DEF H2pPcs
      <4>2. TunnelAt(t, "claim", 0) BY <1>5, <3>1
      <4>. QED BY <1>1, <3>1, <4>1, <4>2, TunnelMoves
    <3>2. CASE h2pTunnel[t].conn # 0
      BY <1>5, <3>2 DEF H2pInv, H2pTypeOK, H2pPcs
    <3>. QED BY <3>1, <3>2
  <2>2. ASSUME NEW d \in H2pConns
        PROVE  Cardinality(OnProxy(d))' = Cardinality(OnProxy(d))
    <3>1. d # 0 BY DEF H2pConns
    <3>2. (/\ h2pTunnel'[t].conn = d
           /\ h2pTunnel'[t].pc \in {"sweep", "connect", "up"}) <=> t \in OnProxy(d)
      BY <1>1, <2>1, <3>1 DEF OnProxy
    <3>. QED BY <1>1, <2>1, <3>2, OnProxyMoves
  <2>3. (\A d \in H2pConns : ConnKept(d)') /\ Dialled' = Dialled
    BY <1>1, <1>5, <2>2, ConnsStay
  <2>4. /\ h2pPool' \in [pooled: Seq(H2pConns), rest: Seq(H2pConns)]
        /\ h2pPool'.pooled \in Seq(Dialled') /\ h2pPool'.rest \in Seq(Dialled')
    BY <1>1, <1>2, <1>5, <2>3
  <2>5. H2pTypeOK' BY <1>1, <1>5, <2>1, <2>4 DEF H2pInv, H2pTypeOK, H2pPcs
  <2>6. TunnelKept(t)' BY <1>1, <1>5, <2>1 DEF TunnelKept
  <2>7. \A u \in H2pTunnels : u # t => TunnelKept(u)' BY <1>3, <2>1 DEF TunnelKept
  <2>. QED BY <2>3, <2>4, <2>5, <2>6, <2>7 DEF H2pInv
<1>. QED BY <1>2, <1>4, <1>5 DEF TakeSweeps

(* claim: one more tunnel on the connection at hand, if it takes one.       *)
LEMMA ClaimKeeps ==
  ASSUME H2pInv, NEW t \in H2pTunnels, Claims(t)
  PROVE  H2pInv'
<1>1. /\ h2pPool \in [pooled: Seq(H2pConns), rest: Seq(H2pConns)]
      /\ h2pPool.pooled \in Seq(Dialled) /\ h2pPool.rest \in Seq(Dialled)
      /\ h2pPool.rest # <<>> /\ h2pTunnel[t].pc = "claim" /\ h2pTunnel[t].conn = 0
      /\ h2pLock = t /\ h2pLock' = h2pLock /\ h2pClosed' = h2pClosed
      /\ h2pConn \in [H2pConns -> H2pConnRecord]
      /\ 0 \in 0..H2pMaxConns /\ 0 \notin H2pConns /\ H2pConns \subseteq 0..H2pMaxConns
      /\ "sweep" \in H2pPcs
      /\ h2pPool' = [h2pPool EXCEPT !.rest = Tail(@)]
  BY H2pAssumption DEF H2pInv, Claims, TunnelKept, H2pTypeOK, H2pPcs, H2pConns
<1>2. /\ Swept(t) \in Dialled /\ Tail(h2pPool.rest) \in Seq(Dialled)
      /\ Swept(t) \in H2pConns /\ Tail(h2pPool.rest) \in Seq(H2pConns)
  BY <1>1, PoolMoves DEF Swept
<1>3. PICK c \in H2pConns : c = Swept(t) /\ h2pConn[c].under # "none"
  BY <1>2 DEF Dialled
<1>4. ASSUME NEW u \in H2pTunnels, u # t
      PROVE  h2pTunnel[u].pc \notin {"sweep", "claim"} /\ TunnelKept(u)
  BY <1>1, <1>4 DEF H2pInv, TunnelKept
<1>5. \A d \in H2pConns : t \notin OnProxy(d) BY <1>1 DEF OnProxy
<1>6. ASSUME NEW k \in 0..H2pMaxConns, TunnelAt(t, "sweep", k),
             h2pConn' \in [H2pConns -> H2pConnRecord],
             \A d \in H2pConns : ConnKept(d)',
             \A s \in Seq(Dialled) : s \in Seq(Dialled')
      PROVE  H2pInv'
  <2>1. /\ h2pTunnel' \in [H2pTunnels -> [pc: H2pPcs, conn: 0..H2pMaxConns]]
        /\ h2pTunnel'[t].pc = "sweep" /\ h2pTunnel'[t].conn = k
        /\ \A u \in H2pTunnels : u # t => h2pTunnel'[u] = h2pTunnel[u]
    BY <1>1, <1>6, TunnelMoves
  <2>2. /\ h2pPool' \in [pooled: Seq(H2pConns), rest: Seq(H2pConns)]
        /\ h2pPool'.pooled \in Seq(Dialled') /\ h2pPool'.rest \in Seq(Dialled')
    BY <1>1, <1>2, <1>6
  <2>3. H2pTypeOK' BY <1>1, <1>6, <2>1, <2>2 DEF H2pInv, H2pTypeOK, H2pPcs
  <2>4. \A u \in H2pTunnels : TunnelKept(u)' BY <1>1, <1>4, <2>1 DEF TunnelKept
  <2>. QED BY <1>6, <2>2, <2>3, <2>4 DEF H2pInv
<1>7. CASE /\ ~Broken(c) /\ ~h2pConn[c].retired
           /\ h2pConn' = [h2pConn EXCEPT ![c].users = @ + 1, ![c].armed = FALSE]
           /\ TunnelAt(t, "sweep", c)
  <2>. DEFINE new == [h2pConn[c] EXCEPT !.users = h2pConn[c].users + 1, !.armed = FALSE]
  <2>1. h2pConn[c] \in H2pConnRecord BY <1>1, <1>3
  <2>2. new \in H2pConnRecord
    <3>1. h2pConn[c].users + 1 \in Int BY <2>1 DEF H2pConnRecord
    <3>. QED BY <2>1, <3>1, RecordsKeep
  <2>3. /\ new.leaving = h2pConn[c].leaving /\ new.under = h2pConn[c].under
        /\ new.users = h2pConn[c].users + 1 /\ new.retired = h2pConn[c].retired
        /\ new.broken = h2pConn[c].broken
    BY <2>1 DEF H2pConnRecord
  <2>4. h2pConn' = [h2pConn EXCEPT ![c] = new] BY <1>1, <1>3, <1>7
  <2>. HIDE DEF new
  <2>5. ConnKept(c) BY DEF H2pInv
  <2>6. /\ h2pTunnel' \in [H2pTunnels -> [pc: H2pPcs, conn: 0..H2pMaxConns]]
        /\ h2pTunnel'[t].pc = "sweep" /\ h2pTunnel'[t].conn = c
        /\ \A u \in H2pTunnels : u # t => h2pTunnel'[u] = h2pTunnel[u]
    BY <1>1, <1>7, TunnelMoves
  <2>7. /\ Cardinality(OnProxy(c))' = Cardinality(OnProxy(c)) + 1
        /\ \A d \in H2pConns : d # c => Cardinality(OnProxy(d))' = Cardinality(OnProxy(d))
    BY <1>5, <2>6, OnProxyMoves
  <2>8. new.users = Cardinality(OnProxy(c))' BY <2>3, <2>5, <2>7 DEF ConnKept
  <2>9. ~h2pClosed =>
          /\ new.retired => new.users = 0
          /\ "timer" \in new.leaving => new.retired
          /\ "shut" \in new.leaving => new.users = 0 /\ (new.retired \/ new.broken)
          /\ new.under = "closed" => new.retired
    BY <1>7, <2>3, <2>5 DEF ConnKept, Broken
  <2>10. /\ h2pConn' \in [H2pConns -> H2pConnRecord] /\ \A d \in H2pConns : ConnKept(d)'
         /\ \A s \in Seq(Dialled) : s \in Seq(Dialled')
    BY <1>1, <1>3, <2>2, <2>3, <2>4, <2>7, <2>8, <2>9, OneConnMoves
  <2>. QED BY <1>1, <1>6, <1>7, <2>10
<1>8. CASE TunnelAt(t, "sweep", 0) /\ h2pConn' = h2pConn
  <2>1. \A d \in H2pConns : Cardinality(OnProxy(d))' = Cardinality(OnProxy(d))
    <3>1. \A d \in H2pConns : 0 # d /\ t \notin OnProxy(d) BY <1>1, <1>5
    <3>2. /\ h2pTunnel' \in [H2pTunnels -> [pc: H2pPcs, conn: 0..H2pMaxConns]]
          /\ h2pTunnel'[t].conn = 0
          /\ \A u \in H2pTunnels : u # t => h2pTunnel'[u] = h2pTunnel[u]
      BY <1>1, <1>8, TunnelMoves
    <3>. QED BY <3>1, <3>2, OnProxyMoves
  <2>2. (\A d \in H2pConns : ConnKept(d)') /\ Dialled' = Dialled
    BY <1>1, <1>8, <2>1, ConnsStay
  <2>. QED BY <1>1, <1>6, <1>8, <2>2
<1>. QED BY <1>3, <1>7, <1>8 DEF Claims

(* A connection dialled, and one released.                                  *)
LEMMA UseKeeps ==
  ASSUME H2pInv, NEW t \in H2pTunnels, AddConn(t) \/ H2pRelease(t)
  PROVE  H2pInv'
<1>1. /\ h2pPool \in [pooled: Seq(H2pConns), rest: Seq(H2pConns)]
      /\ h2pPool.pooled \in Seq(Dialled) /\ h2pPool.rest \in Seq(Dialled)
      /\ h2pTunnel[t] \in [pc: H2pPcs, conn: 0..H2pMaxConns]
      /\ h2pLock' = h2pLock /\ h2pClosed' = h2pClosed
      /\ h2pConn \in [H2pConns -> H2pConnRecord]
      /\ 0 \in 0..H2pMaxConns /\ 0 \notin H2pConns /\ H2pConns \subseteq 0..H2pMaxConns
      /\ H2pConns = 0..H2pMaxConns \ {0}
      /\ "idle" \in H2pPcs /\ "connect" \in H2pPcs
      /\ TunnelKept(t)
  BY H2pAssumption DEF H2pInv, AddConn, H2pRelease, H2pTypeOK, H2pPcs, H2pConns
<1>2. ASSUME NEW pc \in {"idle", "connect"}, NEW k \in 0..H2pMaxConns, TunnelAt(t, pc, k),
             pc = "idle" <=> k = 0, h2pTunnel[t].pc \notin {"sweep", "claim"},
             h2pConn' \in [H2pConns -> H2pConnRecord],
             \A d \in H2pConns : ConnKept(d)',
             h2pPool' \in [pooled: Seq(H2pConns), rest: Seq(H2pConns)],
             h2pPool'.pooled \in Seq(Dialled') /\ h2pPool'.rest \in Seq(Dialled'),
             h2pPool'.rest = h2pPool.rest
      PROVE  H2pInv'
  <2>1. /\ h2pTunnel' \in [H2pTunnels -> [pc: H2pPcs, conn: 0..H2pMaxConns]]
        /\ h2pTunnel'[t].pc = pc /\ h2pTunnel'[t].conn = k
        /\ \A u \in H2pTunnels : u # t => h2pTunnel'[u] = h2pTunnel[u]
    BY <1>1, <1>2, TunnelMoves
  <2>2. H2pTypeOK' BY <1>1, <1>2, <2>1 DEF H2pInv, H2pTypeOK, H2pPcs
  <2>3. \A u \in H2pTunnels : TunnelKept(u)' BY <1>1, <1>2, <2>1 DEF TunnelKept, H2pInv
  <2>. QED BY <1>2, <2>2, <2>3 DEF H2pInv
<1>3. CASE h2pClosed /\ TunnelAt(t, "idle", 0) /\ UNCHANGED <<h2pPool, h2pConn>> /\ AddConn(t)
  <2>1. h2pTunnel[t].pc = "dial" BY <1>3 DEF AddConn
  <2>2. \A d \in H2pConns : Cardinality(OnProxy(d))' = Cardinality(OnProxy(d))
    BY <1>1, <1>3, <2>1, UsersStay DEF OnProxy
  <2>3. (\A d \in H2pConns : ConnKept(d)') /\ Dialled' = Dialled
    BY <1>1, <1>3, <2>2, ConnsStay
  <2>. QED BY <1>1, <1>2, <1>3, <2>1, <2>3
<1>4. ASSUME NEW c \in H2pConns, h2pTunnel[t].pc = "dial",
             h2pConn[c].under = "none",
             h2pConn' = [h2pConn EXCEPT ![c].under = "open", ![c].users = 1],
             h2pPool' = [h2pPool EXCEPT !.pooled = Append(@, c)],
             TunnelAt(t, "connect", c)
      PROVE  H2pInv'
  <2>. DEFINE new == [h2pConn[c] EXCEPT !.under = "open", !.users = 1]
  <2>1. h2pConn[c] \in H2pConnRecord BY <1>1, <1>4
  <2>2. new \in H2pConnRecord BY <2>1, RecordsKeep
  <2>3. ConnKept(c) /\ h2pConn[c] = H2pNone BY <1>4 DEF H2pInv, ConnKept
  <2>4. /\ new.leaving = {} /\ new.under = "open" /\ new.users = 1 /\ new.retired = FALSE
        /\ h2pConn[c].users = 0
    BY <2>1, <2>3 DEF H2pConnRecord, H2pNone
  <2>5. h2pConn' = [h2pConn EXCEPT ![c] = new] BY <1>1, <1>4
  <2>. HIDE DEF new
  <2>6. /\ h2pTunnel' \in [H2pTunnels -> [pc: H2pPcs, conn: 0..H2pMaxConns]]
        /\ h2pTunnel'[t].pc = "connect" /\ h2pTunnel'[t].conn = c
        /\ \A u \in H2pTunnels : u # t => h2pTunnel'[u] = h2pTunnel[u]
    BY <1>1, <1>4, TunnelMoves
  <2>7. \A d \in H2pConns : t \notin OnProxy(d) BY <1>4 DEF OnProxy
  <2>8. /\ Cardinality(OnProxy(c))' = Cardinality(OnProxy(c)) + 1
        /\ \A d \in H2pConns : d # c => Cardinality(OnProxy(d))' = Cardinality(OnProxy(d))
    BY <2>6, <2>7, OnProxyMoves
  <2>9. new.users = Cardinality(OnProxy(c))' BY <2>3, <2>4, <2>8 DEF ConnKept
  <2>10. /\ h2pConn' \in [H2pConns -> H2pConnRecord] /\ \A d \in H2pConns : ConnKept(d)'
         /\ (\A s \in Seq(Dialled) : s \in Seq(Dialled')) /\ c \in Dialled'
    BY <1>1, <2>2, <2>4, <2>5, <2>8, <2>9, OneConnMoves
  <2>11. /\ Append(h2pPool.pooled, c) \in Seq(H2pConns)
         /\ Append(h2pPool.pooled, c) \in Seq(Dialled')
    BY <1>1, <2>10, AppendProperties
  <2>. QED BY <1>1, <1>2, <1>4, <2>10, <2>11
<1>5. CASE H2pRelease(t)
  <2>1. PICK c \in H2pConns : c = h2pTunnel[t].conn
    BY <1>1, <1>5 DEF H2pRelease, TunnelKept
  <2>. DEFINE armed == h2pConn[c].armed \/ (h2pConn[c].users = 1 /\ ~h2pConn[c].retired)
              new == [h2pConn[c] EXCEPT !.users = h2pConn[c].users - 1, !.armed = armed]
  <2>2. /\ h2pConn' = [h2pConn EXCEPT ![c] = new] /\ h2pPool' = h2pPool
        /\ h2pTunnel[t].pc \in {"connect", "up"} /\ TunnelAt(t, "idle", 0)
    BY <1>1, <1>5, <2>1 DEF H2pRelease
  <2>3. h2pConn[c] \in H2pConnRecord BY <1>1
  <2>4. new \in H2pConnRecord
    <3>1. h2pConn[c].users - 1 \in Int /\ armed \in BOOLEAN BY <2>3 DEF H2pConnRecord
    <3>. QED BY <2>3, <3>1, RecordsKeep
  <2>5. /\ new.leaving = h2pConn[c].leaving /\ new.under = h2pConn[c].under
        /\ new.users = h2pConn[c].users - 1 /\ new.retired = h2pConn[c].retired
        /\ new.broken = h2pConn[c].broken
    BY <2>3 DEF H2pConnRecord
  <2>. HIDE DEF new
  <2>6. t \in OnProxy(c) /\ h2pConn[c].users > 0 /\ ConnKept(c)
    BY <2>1, <2>2, UsersCounted DEF OnProxy, H2pInv
  <2>7. /\ h2pTunnel' \in [H2pTunnels -> [pc: H2pPcs, conn: 0..H2pMaxConns]]
        /\ h2pTunnel'[t].pc = "idle" /\ h2pTunnel'[t].conn = 0
        /\ \A u \in H2pTunnels : u # t => h2pTunnel'[u] = h2pTunnel[u]
    BY <1>1, <2>2, TunnelMoves
  <2>8. /\ Cardinality(OnProxy(c))' = Cardinality(OnProxy(c)) - 1
        /\ \A d \in H2pConns : d # c => Cardinality(OnProxy(d))' = Cardinality(OnProxy(d))
    <3>1. \A d \in H2pConns : d # c => t \notin OnProxy(d) BY <2>1 DEF OnProxy
    <3>. QED BY <1>1, <2>6, <2>7, <3>1, OnProxyMoves
  <2>9. new.users = Cardinality(OnProxy(c))' BY <2>5, <2>6, <2>8 DEF ConnKept
  <2>10. new.under # "none" BY <2>5, <2>6 DEF ConnKept, H2pNone
  <2>11. ~h2pClosed =>
           /\ new.retired => new.users = 0
           /\ "timer" \in new.leaving => new.retired
           /\ "shut" \in new.leaving => new.users = 0 /\ (new.retired \/ new.broken)
           /\ new.under = "closed" => new.retired
    BY <2>5, <2>6 DEF ConnKept
  <2>12. /\ h2pConn' \in [H2pConns -> H2pConnRecord] /\ \A d \in H2pConns : ConnKept(d)'
         /\ \A s \in Seq(Dialled) : s \in Seq(Dialled')
    BY <1>1, <2>2, <2>4, <2>8, <2>9, <2>10, <2>11, OneConnMoves
  <2>. QED BY <1>1, <1>2, <2>2, <2>12
<1>. QED BY <1>3, <1>4, <1>5 DEF AddConn

(* What happens to one connection: its clock, its close, its end.           *)
LEMMA ClockKeeps ==
  ASSUME H2pInv, NEW c \in H2pConns,
         TimerFires(c) \/ TimerRuns(c) \/ TimerDrops(c) \/ Shut(c) \/ ConnBreaks(c)
  PROVE  H2pInv'
<1>1. /\ h2pPool \in [pooled: Seq(H2pConns), rest: Seq(H2pConns)]
      /\ h2pPool.pooled \in Seq(Dialled) /\ h2pPool.rest \in Seq(Dialled)
      /\ h2pTunnel' = h2pTunnel /\ h2pLock' = h2pLock /\ h2pClosed' = h2pClosed
      /\ h2pConn \in [H2pConns -> H2pConnRecord] /\ h2pConn[c] \in H2pConnRecord
      /\ h2pPool'.rest = h2pPool.rest
  BY DEF H2pInv, TimerFires, TimerRuns, TimerDrops, Shut, ConnBreaks, H2pTypeOK
<1>2. \A d \in H2pConns : Cardinality(OnProxy(d))' = Cardinality(OnProxy(d))
  BY <1>1 DEF OnProxy
<1>3. ConnKept(c) BY DEF H2pInv
<1>4. /\ h2pConn[c].fired \in 0..2 /\ h2pConn[c].retired \in BOOLEAN
      /\ h2pConn[c].leaving \in SUBSET {"timer", "shut"}
  BY <1>1 DEF H2pConnRecord
<1>5. PICK new \in H2pConnRecord :
        /\ h2pConn' = [h2pConn EXCEPT ![c] = new]
        /\ new.users = h2pConn[c].users
        /\ new.under # "none"
        /\ ~h2pClosed =>
             /\ new.retired => new.users = 0
             /\ "timer" \in new.leaving => new.retired
             /\ "shut" \in new.leaving => new.users = 0 /\ (new.retired \/ new.broken)
             /\ new.under = "closed" => new.retired
  <2>1. CASE TimerFires(c)
    <3>. DEFINE new == [h2pConn[c] EXCEPT !.armed = FALSE, !.fired = h2pConn[c].fired + 1]
    <3>1. h2pConn[c].fired + 1 \in 0..2 BY <1>4, <2>1 DEF TimerFires
    <3>2. new \in H2pConnRecord BY <1>1, <3>1, RecordsKeep
    <3>3. /\ new.users = h2pConn[c].users /\ new.under = h2pConn[c].under
          /\ new.retired = h2pConn[c].retired /\ new.leaving = h2pConn[c].leaving
          /\ new.broken = h2pConn[c].broken
      BY <1>1 DEF H2pConnRecord
    <3>4. h2pConn' = [h2pConn EXCEPT ![c] = new] BY <1>1, <2>1 DEF TimerFires
    <3>5. h2pConn[c].under # "none" BY <1>3, <2>1 DEF TimerFires, ConnKept, H2pNone
    <3>. HIDE DEF new
    <3>. QED BY <1>3, <3>2, <3>3, <3>4, <3>5 DEF ConnKept
  <2>2. CASE TimerRuns(c)
    <3>. DEFINE idle == h2pConn[c].users = 0 /\ ~h2pConn[c].retired
                retired == h2pConn[c].retired \/ idle
                leaving == IF idle THEN h2pConn[c].leaving \cup {"timer"}
                                   ELSE h2pConn[c].leaving
                new == [h2pConn[c] EXCEPT !.fired = h2pConn[c].fired - 1,
                                          !.retired = retired, !.leaving = leaving]
    <3>1. /\ h2pConn[c].fired - 1 \in 0..2 /\ retired \in BOOLEAN
          /\ leaving \in SUBSET {"timer", "shut"}
      BY <1>4, <2>2 DEF TimerRuns
    <3>2. h2pConn' = [h2pConn EXCEPT ![c] = new] BY <1>1, <2>2 DEF TimerRuns
    <3>3. h2pConn[c].under # "none" BY <1>3, <2>2 DEF TimerRuns, ConnKept, H2pNone
    <3>. HIDE DEF retired, leaving
    <3>4. new \in H2pConnRecord BY <1>1, <3>1, RecordsKeep
    <3>5. /\ new.users = h2pConn[c].users /\ new.under = h2pConn[c].under
          /\ new.retired = retired /\ new.leaving = leaving
          /\ new.broken = h2pConn[c].broken
      BY <1>1 DEF H2pConnRecord
    <3>. HIDE DEF new
    <3>6. ~h2pClosed =>
            /\ new.retired => new.users = 0
            /\ "timer" \in new.leaving => new.retired
            /\ "shut" \in new.leaving => new.users = 0 /\ (new.retired \/ new.broken)
            /\ new.under = "closed" => new.retired
      BY <1>3, <3>5 DEF ConnKept, retired, leaving
    <3>. QED BY <3>2, <3>3, <3>4, <3>5, <3>6
  <2>3. CASE TimerDrops(c)
    <3>. DEFINE leaving == h2pConn[c].leaving \ {"timer"}
                new == [h2pConn[c] EXCEPT !.leaving = leaving, !.under = "closed"]
    <3>1. leaving \in SUBSET {"timer", "shut"} BY <1>4
    <3>2. h2pConn' = [h2pConn EXCEPT ![c] = new] BY <1>1, <2>3 DEF TimerDrops
    <3>. HIDE DEF leaving
    <3>3. new \in H2pConnRecord BY <1>1, <3>1, RecordsKeep
    <3>4. /\ new.users = h2pConn[c].users /\ new.under = "closed"
          /\ new.retired = h2pConn[c].retired /\ new.leaving = leaving
          /\ new.broken = h2pConn[c].broken
      BY <1>1 DEF H2pConnRecord
    <3>. HIDE DEF new
    <3>. QED BY <1>3, <2>3, <3>2, <3>3, <3>4 DEF TimerDrops, ConnKept, leaving
  <2>4. CASE Shut(c)
    <3>. DEFINE leaving == h2pConn[c].leaving \ {"shut"}
                new == [h2pConn[c] EXCEPT !.leaving = leaving, !.retired = TRUE,
                                          !.armed = FALSE, !.under = "closed"]
    <3>1. leaving \in SUBSET {"timer", "shut"} BY <1>4
    <3>2. h2pConn' = [h2pConn EXCEPT ![c] = new] BY <1>1, <2>4 DEF Shut
    <3>. HIDE DEF leaving
    <3>3. new \in H2pConnRecord BY <1>1, <3>1, RecordsKeep
    <3>4. /\ new.users = h2pConn[c].users /\ new.under = "closed"
          /\ new.retired = TRUE /\ new.leaving = leaving
          /\ new.broken = h2pConn[c].broken
      BY <1>1 DEF H2pConnRecord
    <3>. HIDE DEF new
    <3>. QED BY <1>3, <2>4, <3>2, <3>3, <3>4 DEF Shut, ConnKept, leaving
  <2>5. CASE ConnBreaks(c)
    <3>. DEFINE new == [h2pConn[c] EXCEPT !.broken = TRUE]
    <3>1. h2pConn' = [h2pConn EXCEPT ![c] = new] BY <1>1, <2>5 DEF ConnBreaks
    <3>2. new \in H2pConnRecord BY <1>1 DEF H2pConnRecord
    <3>3. /\ new.users = h2pConn[c].users /\ new.under = h2pConn[c].under
          /\ new.retired = h2pConn[c].retired /\ new.leaving = h2pConn[c].leaving
          /\ new.broken = TRUE
      BY <1>1 DEF H2pConnRecord
    <3>. HIDE DEF new
    <3>. QED BY <1>3, <2>5, <3>1, <3>2, <3>3 DEF ConnBreaks, ConnKept
  <2>. QED BY <2>1, <2>2, <2>3, <2>4, <2>5
<1>6. new.users = Cardinality(OnProxy(c))' BY <1>2, <1>3, <1>5 DEF ConnKept
<1>7. /\ h2pConn' \in [H2pConns -> H2pConnRecord] /\ \A d \in H2pConns : ConnKept(d)'
      /\ \A s \in Seq(Dialled) : s \in Seq(Dialled')
  BY <1>1, <1>2, <1>5, <1>6, OneConnMoves
<1>8. ASSUME NEW S, h2pPool.pooled \in Seq(S) PROVE h2pPool'.pooled \in Seq(S)
  <2>1. CASE h2pPool' = h2pPool BY <1>8, <2>1
  <2>2. CASE \E i \in 1..Len(h2pPool.pooled) :
               h2pPool' = [h2pPool EXCEPT !.pooled = RemoveAt(@, i)]
    <3>1. PICK i \in 1..Len(h2pPool.pooled) :
            h2pPool' = [h2pPool EXCEPT !.pooled = RemoveAt(@, i)]
      BY <2>2
    <3>. DEFINE s == h2pPool.pooled
    <3>2. Len(s) \in Nat /\ i \in Nat /\ \A k \in 1..Len(s) : s[k] \in S
      BY <1>8, LenProperties, ElementOfSeq
    <3>. HIDE DEF s
    <3>3. SubSeq(s, 1, i - 1) \in Seq(S) /\ SubSeq(s, i + 1, Len(s)) \in Seq(S)
      BY <3>1, <3>2, SubSeqProperties DEF s
    <3>4. RemoveAt(s, i) \in Seq(S) BY <3>3, ConcatProperties DEF RemoveAt
    <3>. QED BY <1>1, <3>1, <3>4 DEF s
  <2>. QED BY <2>1, <2>2 DEF TimerFires, TimerRuns, TimerDrops, Shut, ConnBreaks
<1>9. /\ h2pPool' \in [pooled: Seq(H2pConns), rest: Seq(H2pConns)]
      /\ h2pPool'.pooled \in Seq(Dialled') /\ h2pPool'.rest \in Seq(Dialled')
  <2>1. h2pPool'.pooled \in Seq(H2pConns) /\ h2pPool'.pooled \in Seq(Dialled) BY <1>1, <1>8
  <2>2. h2pPool' = [h2pPool EXCEPT !.pooled = h2pPool'.pooled]
    BY <1>1 DEF TimerFires, TimerRuns, TimerDrops, Shut, ConnBreaks
  <2>3. h2pPool' \in [pooled: Seq(H2pConns), rest: Seq(H2pConns)] BY <1>1, <2>1, <2>2
  <2>. QED BY <1>1, <1>7, <2>1, <2>3
<1>10. H2pTypeOK' BY <1>1, <1>7, <1>9 DEF H2pInv, H2pTypeOK
<1>11. \A u \in H2pTunnels : TunnelKept(u)' BY <1>1 DEF H2pInv, TunnelKept
<1>. QED BY <1>7, <1>9, <1>10, <1>11 DEF H2pInv

(* closeH2Proxies: every connection of the pool is on its way out.          *)
LEMMA CloseKeeps ==
  ASSUME H2pInv, CloseH2Proxies
  PROVE  H2pInv'
<1>1. /\ h2pPool \in [pooled: Seq(H2pConns), rest: Seq(H2pConns)]
      /\ h2pPool.pooled \in Seq(Dialled) /\ h2pPool.rest \in Seq(Dialled)
      /\ h2pTunnel' = h2pTunnel /\ h2pLock' = h2pLock /\ h2pClosed' = TRUE
      /\ h2pConn \in [H2pConns -> H2pConnRecord]
      /\ h2pPool' = [h2pPool EXCEPT !.pooled = <<>>]
  BY DEF H2pInv, CloseH2Proxies, H2pTypeOK
<1>2. \A d \in H2pConns : Cardinality(OnProxy(d))' = Cardinality(OnProxy(d))
  BY <1>1 DEF OnProxy
<1>3. ASSUME NEW c \in H2pConns
      PROVE  /\ h2pConn'[c] \in H2pConnRecord /\ ConnKept(c)'
             /\ h2pConn'[c].under = h2pConn[c].under
  <2>1. h2pConn[c] \in H2pConnRecord /\ ConnKept(c) BY <1>1 DEF H2pInv
  <2>2. CASE Contains(h2pPool.pooled, c)
    <3>. DEFINE leaving == h2pConn[c].leaving \cup {"shut"}
                new == [h2pConn[c] EXCEPT !.leaving = leaving]
    <3>1. leaving \in SUBSET {"timer", "shut"} BY <2>1 DEF H2pConnRecord
    <3>2. h2pConn'[c] = new BY <2>2 DEF CloseH2Proxies
    <3>3. h2pConn[c].under # "none"
      BY <1>1, <2>2, ElementOfSeq DEF Contains, Dialled
    <3>. HIDE DEF leaving
    <3>4. new \in H2pConnRecord /\ new.users = h2pConn[c].users /\ new.under = h2pConn[c].under
      BY <2>1, <3>1 DEF H2pConnRecord
    <3>. HIDE DEF new
    <3>. QED BY <1>1, <1>2, <2>1, <3>2, <3>3, <3>4 DEF ConnKept
  <2>3. CASE ~Contains(h2pPool.pooled, c)
    <3>1. h2pConn'[c] = h2pConn[c] BY <2>3 DEF CloseH2Proxies
    <3>. QED BY <1>1, <1>2, <2>1, <3>1 DEF ConnKept
  <2>. QED BY <2>2, <2>3
<1>4. h2pConn' \in [H2pConns -> H2pConnRecord]
  BY <1>3 DEF CloseH2Proxies
<1>5. Dialled' = Dialled BY <1>3 DEF Dialled
<1>6. /\ h2pPool' \in [pooled: Seq(H2pConns), rest: Seq(H2pConns)]
      /\ h2pPool'.pooled \in Seq(Dialled') /\ h2pPool'.rest \in Seq(Dialled')
  <2>1. <<>> \in Seq(H2pConns) /\ <<>> \in Seq(Dialled) BY EmptySeq
  <2>. QED BY <1>1, <1>5, <2>1
<1>7. H2pTypeOK' BY <1>1, <1>4, <1>6 DEF H2pInv, H2pTypeOK
<1>8. \A u \in H2pTunnels : TunnelKept(u)' BY <1>1 DEF H2pInv, TunnelKept
<1>9. \A d \in H2pConns : ConnKept(d)' BY <1>3
<1>. QED BY <1>6, <1>7, <1>8, <1>9 DEF H2pInv

LEMMA H2pInvNext == H2pInv /\ [H2pNext]_h2pVars => H2pInv'
<1>. SUFFICES ASSUME H2pInv, [H2pNext]_h2pVars PROVE H2pInv' OBVIOUS
<1>1. CASE UNCHANGED h2pVars
  <2>1. UNCHANGED <<h2pPool, h2pConn, h2pTunnel, h2pLock, h2pClosed>> BY <1>1 DEF h2pVars
  <2>2. Dialled' = Dialled /\ \A c : OnProxy(c)' = OnProxy(c) BY <2>1 DEF Dialled, OnProxy
  <2>3. H2pTypeOK' BY <2>1 DEF H2pInv, H2pTypeOK
  <2>4. \A c \in H2pConns : ConnKept(c)' BY <2>1, <2>2 DEF H2pInv, ConnKept
  <2>5. \A t \in H2pTunnels : TunnelKept(t)' BY <2>1 DEF H2pInv, TunnelKept
  <2>. QED BY <2>1, <2>2, <2>3, <2>4, <2>5 DEF H2pInv
<1>2. CASE H2pNext
  BY <1>2, NobodyClaims, SweepKeeps, ClaimKeeps, UseKeeps, ClockKeeps, CloseKeeps DEF H2pNext
<1>. QED BY <1>1, <1>2

(* The users of a connection to an HTTP/2 proxy are the tunnels on it, and  *)
(* while there is one nothing but the session's close ends it: not the idle *)
(* clock that fired before the claim, not the sweep (proxyh2.go).           *)
THEOREM TunnelsAreSafe == H2pSpec => []NoTunnelCut
<1>1. H2pInv => NoTunnelCut
  BY DEF H2pInv, ConnKept, NoTunnelCut
<1>. QED BY H2pInvInit, H2pInvNext, <1>1, PTL DEF H2pSpec

-----------------------------------------------------------------------------
(* The QPACK decoder (QpackDecoder)                                        *)

(* A multiple of FullRange that is less than FullRange away from zero is    *)
(* zero.                                                                    *)
LEMMA SmallMultiple ==
  ASSUME NEW b \in Nat \ {0}, NEW a \in Int, a * b < b, 0 - b < a * b
  PROVE  a = 0
<1>1. ASSUME a >= 1 PROVE FALSE
  <2>1. a * b = (a - 1) * b + b OBVIOUS
  <2>2. (a - 1) * b >= 0 BY <1>1
  <2>. QED BY <2>1, <2>2
<1>2. ASSUME a <= 0 - 1 PROVE FALSE
  <2>1. a * b = (a + 1) * b - b OBVIOUS
  <2>2. (a + 1) * b <= 0 BY <1>2
  <2>. QED BY <2>1, <2>2
<1>. QED BY <1>1, <1>2

(* Quotient and remainder.                                                  *)
LEMMA DivisionHolds ==
  ASSUME NEW b \in Nat \ {0}, NEW x \in Nat
  PROVE  /\ x = (x \div b) * b + (x % b)
         /\ x % b \in 0..(b - 1) /\ x \div b \in Nat
<1>. DEFINE d == x \div b
<1>1. x = b * d + (x % b) /\ x % b \in 0..(b - 1) /\ d \in Int OBVIOUS
<1>. HIDE DEF d
<1>2. ASSUME d <= 0 - 1 PROVE FALSE
  <2>1. b * d = b * (d + 1) - b BY <1>1
  <2>2. b * (d + 1) <= 0 BY <1>1, <1>2
  <2>3. b * d <= 0 - b /\ b * d \in Int BY <1>1, <2>1, <2>2
  <2>. QED BY <1>1, <2>3
<1>3. d \in Nat /\ b * d = d * b BY <1>1, <1>2
<1>. QED BY <1>1, <1>3 DEF d

(* A count that went over the wire modulo twice the capacity comes back     *)
(* whole when it is within one capacity of the insertions seen: above what  *)
(* may be evicted, and not above what may be on its way                     *)
(* (decodeRequiredInsertCount, RFC 9204, 4.5.1).                            *)
LEMMA CountComesBack ==
  ASSUME NEW ric \in Nat, NEW total \in Nat,
         total - QpCapacity < ric, ric <= total + QpCapacity
  PROVE  Restored(Encoded(ric), total) = ric
<1>. DEFINE F == FullRange
            max == total + QpCapacity
            r == ric % F
            q == ric \div F
            m == max \div F
            count == m * F + (r + 1) - 1
<1>1. F \in Nat \ {0} /\ F = 2 * QpCapacity /\ max \in Nat
  BY QpAssumption DEF FullRange
<1>2. max - F < ric /\ ric <= max
  BY <1>1, QpAssumption
<1>. HIDE DEF F
<1>3. \A x \in Nat : /\ x = (x \div F) * F + (x % F)
                     /\ x % F \in 0..(F - 1) /\ x \div F \in Nat
  BY <1>1, DivisionHolds
<1>. HIDE DEF max
<1>4. ric = q * F + r /\ r \in 0..(F - 1) /\ q \in Nat
  BY <1>3
<1>5. max = m * F + (max % F) /\ max % F \in 0..(F - 1) /\ m \in Nat
  BY <1>1, <1>3
<1>6. Encoded(ric) = r + 1 BY DEF Encoded, F
<1>7. Restored(Encoded(ric), total) = IF count <= max THEN count ELSE count - F
  BY <1>6 DEF Restored, F, max
<1>. HIDE DEF r, q, m
<1>8. PICK x \in Int, y \in Int : x = q * F /\ y = m * F /\ (q - m) * F = x - y
  <2>1. q * F \in Int /\ m * F \in Int /\ (q - m) * F = q * F - m * F BY <1>1, <1>4, <1>5
  <2>. QED BY <2>1
<1>9. /\ ric = x + r /\ count = y + r /\ r \in 0..(F - 1) /\ q - m \in Int
      /\ y <= max /\ max < y + F
  BY <1>1, <1>4, <1>5, <1>8
<1>10. CASE count <= max
  <2>1. x - y < F /\ 0 - F < x - y BY <1>1, <1>2, <1>9, <1>10
  <2>2. q - m = 0 BY <1>1, <1>8, <1>9, <2>1, SmallMultiple
  <2>3. x = y BY <1>4, <1>5, <1>8, <2>2
  <2>. QED BY <1>7, <1>9, <1>10, <2>3
<1>11. CASE ~(count <= max)
  <2>1. ((q - m) + 1) * F = (x - y) + F
    <3>1. \A a \in Int : (a + 1) * F = a * F + F BY <1>1
    <3>. QED BY <1>8, <1>9, <3>1
  <2>2. (x - y) + F < F /\ 0 - F < (x - y) + F BY <1>1, <1>2, <1>9, <1>11
  <2>3. (q - m) + 1 = 0
    <3>1. (q - m) + 1 \in Int BY <1>9
    <3>. QED BY <1>1, <2>1, <2>2, <3>1, SmallMultiple
  <2>4. x = y - F
    <3>1. ((q - m) + 1) * F = 0 BY <1>1, <2>3
    <3>. QED BY <1>1, <1>8, <2>1, <3>1
  <2>. QED BY <1>1, <1>7, <1>9, <1>11, <2>4
<1>. QED BY <1>10, <1>11

(* And whatever came, what is restored is not above what may be on its way. *)
LEMMA CountIsBounded ==
  ASSUME NEW ric \in Nat, NEW total \in Nat
  PROVE  /\ Restored(Encoded(ric), total) \in Int
         /\ Restored(Encoded(ric), total) <= total + QpCapacity
<1>. DEFINE F == FullRange
            max == total + QpCapacity
            r == ric % F
            y == (max \div F) * F
            count == y + (r + 1) - 1
<1>1. F \in Nat \ {0} /\ max \in Nat
  BY QpAssumption DEF FullRange
<1>. HIDE DEF F
<1>2. Restored(Encoded(ric), total) = IF count <= max THEN count ELSE count - F
  BY DEF Restored, Encoded, F
<1>. HIDE DEF max
<1>3. r \in 0..(F - 1) BY <1>1, DivisionHolds
<1>4. y \in Int /\ y <= max
  <2>1. max = y + (max % F) /\ max % F \in 0..(F - 1) /\ max \div F \in Nat
    BY <1>1, DivisionHolds
  <2>2. y \in Int BY <1>1, <2>1
  <2>. HIDE DEF y
  <2>. QED BY <1>1, <2>1, <2>2
<1>. HIDE DEF r, y
<1>. QED BY <1>1, <1>2, <1>3, <1>4 DEF max

(* The two tables: ours is behind the encoder's, neither holds more than    *)
(* the capacity, and the encoder drops what it takes for received - which,  *)
(* unless it was misled, we have.                                           *)
TablesKept ==
  /\ qpTable.acked <= qpTable.inserted
  /\ qpTable.inserted - qpTable.dropped <= QpCapacity
  /\ qpTable.inserted <= qpServer.sent /\ qpTable.dropped <= qpServer.dropped
  /\ qpServer.sent - qpServer.dropped <= QpCapacity
  /\ qpServer.dropped <= qpServer.known
  /\ qpServer.misled \/ qpServer.known <= qpTable.inserted

(* A section the encoder has had no word of refers to entries it has not    *)
(* dropped; what is acknowledged was in the table, and the count waited for *)
(* is the section's.                                                        *)
SectionKept(s) ==
  LET x == qpSection[s] IN
  /\ x.pc \notin {"none", "over"} =>
       qpServer.dropped < x.low /\ x.low <= x.ric /\ x.ric <= qpServer.sent
  /\ x.pc \in {"ack", "write", "written", "over"} => x.ric <= qpTable.inserted
  /\ x.pc \in {"check", "asleep"} => qpServer.misled \/ x.total = x.ric
  /\ x.pc = "failed" => qpServer.misled

(* What is on the wire: increments, and acknowledgements of sections that   *)
(* were decoded.                                                            *)
QpItem == [kind: {"increment", "section"}, of: Counts \cup QpStreams]
Said ==
  {i \in QpItem :
     \/ i.kind = "increment" /\ i.of \in Counts
     \/ /\ i.kind = "section" /\ i.of \in QpStreams
        /\ qpSection[i.of].pc \in {"written", "over"}}

QpInv ==
  /\ QpTypeOK /\ TablesKept /\ qpWire \in Seq(Said)
  /\ \A s \in QpStreams : SectionKept(s)

LEMMA QpInvInit == QpInit => QpInv
<1>. SUFFICES ASSUME QpInit PROVE QpInv OBVIOUS
<1>1. 0 \in Counts /\ 0 \in 0..(QpMaxInserts + QpCapacity) BY QpAssumption DEF Counts
<1>2. NoSection \in QpSectionRecord BY <1>1 DEF NoSection, QpSectionRecord
<1>3. qpWire \in Seq(Said) /\ qpWire \in Seq(QpItem) BY EmptySeq DEF QpInit
<1>4. /\ qpServer \in QpServerRecord /\ qpTable \in QpTableRecord
      /\ qpReader \in [pc: {"read", "batch", "write", "over"}, n: Counts]
  BY <1>1 DEF QpInit, QpServerRecord, QpTableRecord
<1>5. qpSection \in [QpStreams -> QpSectionRecord] BY <1>2 DEF QpInit
<1>6. QpTypeOK BY <1>3, <1>4, <1>5 DEF QpTypeOK, QpItem, QpInit
<1>7. TablesKept BY QpAssumption DEF TablesKept, QpInit
<1>8. \A s \in QpStreams : SectionKept(s) BY DEF SectionKept, QpInit, NoSection
<1>. QED BY <1>3, <1>6, <1>7, <1>8 DEF QpInv

(* The numbers, for the steps below.                                        *)
LEMMA QpNumbers ==
  ASSUME QpInv
  PROVE  /\ qpServer \in QpServerRecord /\ qpTable \in QpTableRecord
         /\ qpReader \in [pc: {"read", "batch", "write", "over"}, n: Counts]
         /\ qpSection \in [QpStreams -> QpSectionRecord]
         /\ qpServer.sent \in Counts /\ qpServer.dropped \in Counts /\ qpServer.known \in Counts
         /\ qpServer.misled \in BOOLEAN
         /\ qpTable.inserted \in Counts /\ qpTable.dropped \in Counts /\ qpTable.acked \in Counts
         /\ \A s \in QpStreams : /\ qpSection[s].low \in Counts /\ qpSection[s].ric \in Counts
                                 /\ qpSection[s].total \in Nat
         /\ QpCapacity \in Nat \ {0} /\ QpMaxInserts \in Nat
         /\ Counts \subseteq Nat /\ \A n \in Nat : n \in Counts <=> n <= QpMaxInserts
<1>1. /\ qpServer \in QpServerRecord /\ qpTable \in QpTableRecord
      /\ qpReader \in [pc: {"read", "batch", "write", "over"}, n: Counts]
      /\ qpSection \in [QpStreams -> QpSectionRecord]
  BY DEF QpInv, QpTypeOK
<1>2. QpCapacity \in Nat \ {0} /\ QpMaxInserts \in Nat BY QpAssumption
<1>3. Counts \subseteq Nat /\ \A n \in Nat : n \in Counts <=> n <= QpMaxInserts
  BY <1>2 DEF Counts
<1>4. /\ qpServer.sent \in Counts /\ qpServer.dropped \in Counts /\ qpServer.known \in Counts
      /\ qpServer.misled \in BOOLEAN
      /\ qpTable.inserted \in Counts /\ qpTable.dropped \in Counts /\ qpTable.acked \in Counts
  BY <1>1 DEF QpServerRecord, QpTableRecord
<1>5. \A s \in QpStreams : /\ qpSection[s].low \in Counts /\ qpSection[s].ric \in Counts
                           /\ qpSection[s].total \in Nat
  BY <1>1, <1>2 DEF QpSectionRecord
<1>. QED BY <1>1, <1>2, <1>3, <1>4, <1>5

(* The wire keeps what was said while no decoded section is taken back.     *)
LEMMA WireStays ==
  ASSUME NEW w \in Seq(Said),
         \A s \in QpStreams : qpSection[s].pc \in {"written", "over"}
                                => qpSection'[s].pc \in {"written", "over"}
  PROVE  w \in Seq(Said') /\ w \in Seq(QpItem)
<1>1. Said \subseteq Said' /\ Said \subseteq QpItem BY DEF Said
<1>. QED BY <1>1, SeqMonotonic

(* A section that goes one step, while the encoder and the tables stay.     *)
LEMMA OneSection ==
  ASSUME QpInv, NEW s \in QpStreams, NEW new \in QpSectionRecord,
         qpSection' = [qpSection EXCEPT ![s] = new],
         qpServer' = qpServer, qpTable' \in QpTableRecord,
         qpTable'.inserted = qpTable.inserted, qpTable'.dropped = qpTable.dropped,
         qpTable'.acked <= qpTable.inserted,
         qpReader' = qpReader, qpConn' = qpConn,
         qpWire' \in Seq(Said'), qpWire' \in Seq(QpItem),
         new.pc \notin {"none", "over"} =>
           qpServer.dropped < new.low /\ new.low <= new.ric /\ new.ric <= qpServer.sent,
         new.pc \in {"ack", "write", "written", "over"} => new.ric <= qpTable.inserted,
         new.pc \in {"check", "asleep"} => qpServer.misled \/ new.total = new.ric,
         new.pc = "failed" => qpServer.misled
  PROVE  QpInv'
<1>1. /\ qpSection' \in [QpStreams -> QpSectionRecord] /\ qpSection'[s] = new
      /\ \A u \in QpStreams : u # s => qpSection'[u] = qpSection[u]
  BY QpNumbers
<1>2. QpTypeOK' BY <1>1 DEF QpInv, QpTypeOK, QpItem
<1>3. TablesKept' BY DEF QpInv, TablesKept
<1>4. ASSUME NEW u \in QpStreams PROVE SectionKept(u)'
  <2>1. CASE u = s BY <1>1, <2>1 DEF SectionKept
  <2>2. CASE u # s BY <1>1, <2>2 DEF SectionKept, QpInv
  <2>. QED BY <2>1, <2>2
<1>. QED BY <1>2, <1>3, <1>4 DEF QpInv

(* Decoding, up to the acknowledgement.                                     *)
LEMMA DecodingKeeps ==
  ASSUME QpInv, NEW s \in QpStreams,
         \/ DecodeBegins(s) \/ DecodeWaits(s) \/ DecodeClosed(s) \/ DecodeParses(s)
         \/ GivesUp(s)
  PROVE  QpInv'
<1>. DEFINE x == qpSection[s]
            inserted == qpTable.inserted
<1>1. /\ UNCHANGED <<qpServer, qpTable, qpReader, qpWire, qpConn>>
      /\ qpSection[s].pc \in {"sent", "check"}
  BY DEF DecodeBegins, DecodeWaits, DecodeClosed, DecodeParses, GivesUp
<1>2. /\ x \in QpSectionRecord /\ qpTable' \in QpTableRecord
      /\ qpTable'.acked <= inserted
      /\ x.low \in Nat /\ x.ric \in Nat /\ x.total \in Nat /\ inserted \in Counts
  BY <1>1, QpNumbers DEF QpInv, TablesKept
<1>3. /\ qpServer.dropped < x.low /\ x.low <= x.ric /\ x.ric <= qpServer.sent
      /\ x.pc = "check" => qpServer.misled \/ x.total = x.ric
  BY <1>1 DEF QpInv, SectionKept
<1>4. ASSUME NEW new \in QpSectionRecord, qpSection' = [qpSection EXCEPT ![s] = new]
      PROVE  qpWire' \in Seq(Said') /\ qpWire' \in Seq(QpItem)
  <2>1. \A u \in QpStreams : qpSection[u].pc \in {"written", "over"}
                                => qpSection'[u].pc \in {"written", "over"}
    BY <1>1, <1>4, QpNumbers
  <2>. QED BY <1>1, <2>1, WireStays DEF QpInv
<1>5. CASE DecodeBegins(s)
  <2>. DEFINE total == Restored(Encoded(x.ric), inserted)
              pc == IF total > 0 THEN "check" ELSE "failed"
              t == IF total > 0 THEN total ELSE 0
              new == [x EXCEPT !.pc = pc, !.total = t]
  <2>1. total \in Int /\ total <= inserted + QpCapacity
    BY <1>2, QpNumbers, CountIsBounded
  <2>2. ~qpServer.misled => total = x.ric
    <3>1. /\ qpServer.sent \in Nat /\ qpServer.dropped \in Nat /\ qpServer.known \in Nat
          /\ qpTable.dropped \in Nat /\ inserted \in Nat /\ QpCapacity \in Nat
      BY QpNumbers
    <3>2. ~qpServer.misled => inserted - QpCapacity < x.ric /\ x.ric <= inserted + QpCapacity
      <4>1. TablesKept BY DEF QpInv
      <4>. QED BY <1>2, <1>3, <3>1, <4>1 DEF TablesKept
    <3>. QED BY <1>2, <3>1, <3>2, CountComesBack
  <2>3. qpSection' = [qpSection EXCEPT ![s] = new]
    BY <1>5, QpNumbers DEF DecodeBegins
  <2>. HIDE DEF total
  <2>4. t \in 0..(QpMaxInserts + QpCapacity)
    BY <1>2, <2>1, QpNumbers
  <2>5. ~qpServer.misled => pc = "check" /\ t = x.ric
    <3>1. x.ric > 0
      <4>1. qpServer.dropped \in Nat BY QpNumbers
      <4>. QED BY <1>2, <1>3, <4>1
    <3>. QED BY <2>2, <3>1
  <2>6. pc \in {"check", "failed"} OBVIOUS
  <2>. HIDE DEF pc, t
  <2>7. /\ new \in QpSectionRecord /\ new.pc = pc /\ new.total = t /\ new.low = x.low
        /\ new.ric = x.ric
    BY <1>2, <2>4, <2>6 DEF QpSectionRecord
  <2>. HIDE DEF new
  <2>8. qpWire' \in Seq(Said') /\ qpWire' \in Seq(QpItem) BY <1>4, <2>3, <2>7
  <2>. QED BY <1>1, <1>2, <1>3, <2>3, <2>5, <2>6, <2>7, <2>8, OneSection
<1>6. CASE DecodeWaits(s) \/ GivesUp(s)
  <2>1. PICK pc \in {"asleep", "abandoned"} :
          QpStep(s, pc) /\ (pc = "asleep" => x.pc = "check")
    BY <1>6 DEF DecodeWaits, GivesUp
  <2>. DEFINE new == [x EXCEPT !.pc = pc]
  <2>2. /\ new \in QpSectionRecord /\ new.pc = pc /\ new.total = x.total /\ new.low = x.low
        /\ new.ric = x.ric
    BY <1>2 DEF QpSectionRecord
  <2>3. qpSection' = [qpSection EXCEPT ![s] = new] BY <2>1, QpNumbers DEF QpStep
  <2>. HIDE DEF new
  <2>4. qpWire' \in Seq(Said') /\ qpWire' \in Seq(QpItem) BY <1>4, <2>2, <2>3
  <2>. QED BY <1>1, <1>2, <1>3, <2>1, <2>2, <2>3, <2>4, OneSection
<1>7. CASE DecodeClosed(s)
  <2>1. qpSection' = [qpSection EXCEPT ![s] = SectionOver] BY <1>7 DEF DecodeClosed
  <2>2. /\ SectionOver \in QpSectionRecord /\ SectionOver.pc = "over" /\ SectionOver.ric = 0
    BY QpNumbers DEF SectionOver, NoSection, QpSectionRecord
  <2>3. qpWire' \in Seq(Said') /\ qpWire' \in Seq(QpItem) BY <1>4, <2>1, <2>2
  <2>4. 0 <= inserted BY <1>2, QpNumbers
  <2>. QED BY <1>1, <1>2, <2>1, <2>2, <2>3, <2>4, OneSection
<1>8. CASE DecodeParses(s)
  <2>. DEFINE pc == IF Refers(s) THEN "ack" ELSE "failed"
              new == [x EXCEPT !.total = 0, !.pc = pc]
  <2>1. qpSection' = [qpSection EXCEPT ![s] = new] BY <1>8, QpNumbers DEF DecodeParses
  <2>2. pc \in {"ack", "failed"} OBVIOUS
  <2>3. pc = "ack" => x.ric <= inserted BY <1>8 DEF DecodeParses, Refers
  <2>4. pc = "failed" => qpServer.misled
    <3>1. qpServer.dropped \in Nat /\ qpTable.dropped \in Nat BY QpNumbers
    <3>2. qpTable.dropped < x.low BY <1>2, <1>3, <3>1 DEF QpInv, TablesKept
    <3>. QED BY <1>2, <1>3, <1>8, <3>1, <3>2 DEF DecodeParses, Refers
  <2>. HIDE DEF pc
  <2>5. /\ new \in QpSectionRecord /\ new.pc = pc /\ new.low = x.low /\ new.ric = x.ric
    <3>1. 0 \in 0..(QpMaxInserts + QpCapacity) BY QpNumbers
    <3>. QED BY <1>2, <2>2, <3>1 DEF QpSectionRecord
  <2>. HIDE DEF new
  <2>6. qpWire' \in Seq(Said') /\ qpWire' \in Seq(QpItem) BY <1>4, <2>1, <2>5
  <2>. QED BY <1>1, <1>2, <1>3, <2>1, <2>2, <2>3, <2>4, <2>5, <2>6, OneSection
<1>. QED BY <1>5, <1>6, <1>7, <1>8

(* The acknowledgement of a section: counted, then written.                 *)
LEMMA AcknowledgingKeeps ==
  ASSUME QpInv, NEW s \in QpStreams, SectionCounts(s) \/ SectionWrites(s)
  PROVE  QpInv'
<1>. DEFINE x == qpSection[s]
            inserted == qpTable.inserted
<1>1. UNCHANGED <<qpServer, qpReader, qpConn>> /\ x.pc \in {"ack", "write"}
  BY DEF SectionCounts, SectionWrites
<1>2. /\ x \in QpSectionRecord /\ x.ric <= inserted
      /\ qpServer.dropped < x.low /\ x.low <= x.ric /\ x.ric <= qpServer.sent
      /\ qpTable.acked <= inserted /\ qpWire \in Seq(Said)
  BY <1>1, QpNumbers DEF QpInv, SectionKept, TablesKept
<1>3. PICK pc \in {"write", "written"} : QpStep(s, pc)
  BY DEF SectionCounts, SectionWrites
<1>. DEFINE new == [x EXCEPT !.pc = pc]
<1>4. /\ new \in QpSectionRecord /\ new.pc = pc /\ new.low = x.low /\ new.ric = x.ric
  BY <1>2 DEF QpSectionRecord
<1>5. qpSection' = [qpSection EXCEPT ![s] = new] BY <1>3, QpNumbers DEF QpStep
<1>. HIDE DEF new
<1>6. \A u \in QpStreams : qpSection[u].pc \in {"written", "over"}
                             => qpSection'[u].pc \in {"written", "over"}
  BY <1>1, <1>4, <1>5, QpNumbers
<1>7. qpWire \in Seq(Said') /\ qpWire \in Seq(QpItem) BY <1>2, <1>6, WireStays
<1>8. CASE SectionCounts(s)
  <2>1. qpTable' = [qpTable EXCEPT !.acked = QpLarger(@, x.ric)] /\ qpWire' = qpWire
    BY <1>8 DEF SectionCounts
  <2>2. QpLarger(qpTable.acked, x.ric) \in Counts /\ QpLarger(qpTable.acked, x.ric) <= inserted
    BY <1>2, QpNumbers DEF QpLarger
  <2>3. /\ qpTable' \in QpTableRecord /\ qpTable'.inserted = inserted
        /\ qpTable'.dropped = qpTable.dropped /\ qpTable'.acked <= inserted
    BY <2>1, <2>2, QpNumbers DEF QpTableRecord
  <2>. QED BY <1>1, <1>2, <1>4, <1>5, <1>7, <2>1, <2>3, OneSection
<1>9. CASE SectionWrites(s)
  <2>. DEFINE item == [kind |-> "section", of |-> s]
  <2>1. qpTable' = qpTable /\ qpWire' = Append(qpWire, item) /\ QpStep(s, "written")
    BY <1>9 DEF SectionWrites
  <2>2. qpSection'[s].pc = "written"
    BY <2>1, QpNumbers, <1>2 DEF QpStep, QpSectionRecord
  <2>3. item \in Said' /\ item \in QpItem BY <2>2 DEF Said, QpItem
  <2>4. qpWire' \in Seq(Said') /\ qpWire' \in Seq(QpItem)
    BY <1>7, <2>1, <2>3, AppendProperties
  <2>5. qpTable' \in QpTableRecord BY <2>1, QpNumbers
  <2>. QED BY <1>1, <1>2, <1>4, <1>5, <2>1, <2>4, <2>5, OneSection
<1>. QED BY <1>8, <1>9

(* The encoder inserts, evicting what it may.                               *)
LEMMA InsertingKeeps == ASSUME QpInv, ServerInserts PROVE QpInv'
<1>. DEFINE full == qpServer.sent - qpServer.dropped = QpCapacity
            dropped == IF full THEN qpServer.dropped + 1 ELSE qpServer.dropped
<1>1. /\ qpServer' = [qpServer EXCEPT !.sent = qpServer.sent + 1, !.dropped = dropped]
      /\ UNCHANGED <<qpTable, qpReader, qpSection, qpWire, qpConn>>
      /\ qpServer.sent < QpMaxInserts
      /\ full => MayEvict(qpServer.dropped + 1)
  BY DEF ServerInserts
<1>2. /\ qpServer.sent \in Nat /\ qpServer.dropped \in Nat /\ qpServer.known \in Nat
      /\ qpTable.inserted \in Nat /\ qpTable.dropped \in Nat /\ QpCapacity \in Nat
      /\ qpServer \in QpServerRecord
  BY QpNumbers
<1>3. TablesKept BY DEF QpInv
<1>4. /\ dropped \in Nat /\ qpServer.dropped <= dropped /\ dropped <= qpServer.known
      /\ qpServer.sent + 1 - dropped <= QpCapacity
      /\ dropped \in Counts /\ qpServer.sent + 1 \in Counts
  <2>1. CASE full
    <3>1. qpServer.dropped + 1 <= qpServer.known BY <1>1, <2>1 DEF MayEvict
    <3>. QED BY <1>1, <1>2, <1>3, <2>1, <3>1, QpNumbers DEF TablesKept
  <2>2. CASE ~full
    BY <1>1, <1>2, <1>3, <2>2, QpNumbers DEF TablesKept
  <2>. QED BY <2>1, <2>2
<1>5. \A s \in QpStreams : s \in Outstanding => dropped < qpSection[s].low
  BY <1>1, <1>2, QpNumbers DEF MayEvict, QpInv, SectionKept, Outstanding
<1>. HIDE DEF dropped, full
<1>6. /\ qpServer' \in QpServerRecord /\ qpServer'.sent = qpServer.sent + 1
      /\ qpServer'.dropped = dropped /\ qpServer'.known = qpServer.known
      /\ qpServer'.misled = qpServer.misled
  BY <1>1, <1>2, <1>4 DEF QpServerRecord
<1>7. QpTypeOK' BY <1>1, <1>6 DEF QpInv, QpTypeOK
<1>8. TablesKept' BY <1>1, <1>2, <1>3, <1>4, <1>6 DEF TablesKept
<1>9. qpWire' \in Seq(Said') BY <1>1, WireStays DEF QpInv
<1>10. ASSUME NEW s \in QpStreams PROVE SectionKept(s)'
  <2>1. SectionKept(s) /\ qpSection' = qpSection /\ qpTable' = qpTable BY <1>1 DEF QpInv
  <2>2. qpSection[s].ric \in Nat /\ qpSection[s].pc \notin {"none", "over"} =>
          dropped < qpSection[s].low
    BY <1>5, QpNumbers DEF Outstanding
  <2>3. qpSection[s].ric <= qpServer.sent => qpSection[s].ric <= qpServer.sent + 1
    BY <1>2, QpNumbers
  <2>. QED BY <1>6, <2>1, <2>2, <2>3, QpNumbers DEF SectionKept
<1>. QED BY <1>7, <1>8, <1>9, <1>10 DEF QpInv

(* It sends a section.                                                      *)
LEMMA SendingKeeps == ASSUME QpInv, NEW s \in QpStreams, ServerSends(s) PROVE QpInv'
<1>1. PICK low \in (qpServer.dropped + 1)..qpServer.sent,
           ric \in (qpServer.dropped + 1)..qpServer.sent :
        /\ low <= ric
        /\ qpSection' = [qpSection EXCEPT ![s] =
                           [NoSection EXCEPT !.pc = "sent", !.low = low, !.ric = ric]]
  BY DEF ServerSends
<1>. DEFINE new == [NoSection EXCEPT !.pc = "sent", !.low = low, !.ric = ric]
<1>2. /\ UNCHANGED <<qpServer, qpTable, qpReader, qpWire, qpConn>> /\ qpSection[s].pc = "none"
  BY DEF ServerSends
<1>3. /\ low \in Counts /\ ric \in Counts
      /\ qpServer.dropped < low /\ ric <= qpServer.sent
      /\ 0 \in 0..(QpMaxInserts + QpCapacity)
  BY QpNumbers
<1>4. /\ new \in QpSectionRecord /\ new.pc = "sent" /\ new.low = low /\ new.ric = ric
  BY <1>3 DEF QpSectionRecord, NoSection
<1>5. qpSection' = [qpSection EXCEPT ![s] = new] BY <1>1
<1>. HIDE DEF new
<1>6. \A u \in QpStreams : qpSection[u].pc \in {"written", "over"}
                             => qpSection'[u].pc \in {"written", "over"}
  BY <1>2, <1>4, <1>5, QpNumbers
<1>7. qpWire' \in Seq(Said') /\ qpWire' \in Seq(QpItem) BY <1>2, <1>6, WireStays DEF QpInv
<1>8. qpTable' \in QpTableRecord /\ qpTable'.acked <= qpTable.inserted
  BY <1>2, QpNumbers DEF QpInv, TablesKept
<1>. QED BY <1>1, <1>2, <1>3, <1>4, <1>5, <1>7, <1>8, OneSection

(* The encoder reads an instruction: an increment may mislead it, an        *)
(* acknowledgement does not, since the section was decoded.                 *)
LEMMA HearingKeeps == ASSUME QpInv, ServerHears PROVE QpInv'
<1>1. /\ qpWire # <<>> /\ qpWire' = Tail(qpWire) /\ UNCHANGED <<qpTable, qpReader>>
      /\ qpWire \in Seq(Said)
  BY DEF ServerHears, QpInv
<1>2. Head(qpWire) \in Said /\ qpWire' \in Seq(Said)
  BY <1>1, HeadTailProperties
<1>3. PICK i \in Said : i = Head(qpWire) BY <1>2
<1>4. /\ qpServer \in QpServerRecord /\ qpServer.known \in Nat /\ qpServer.sent \in Counts
      /\ qpTable.inserted \in Nat /\ TablesKept /\ qpServer.misled \in BOOLEAN
  BY QpNumbers DEF QpInv
<1>5. CASE i.kind = "increment"
  <2>1. i.of \in Nat BY <1>3, <1>5, QpNumbers DEF Said
  <2>2. qpSection' = qpSection BY <1>3, <1>5 DEF ServerHears
  <2>3. qpWire' \in Seq(Said') /\ qpWire' \in Seq(QpItem) BY <1>2, <2>2, WireStays
  <2>4. CASE /\ qpServer.known + i.of <= qpServer.sent /\ qpConn' = qpConn
             /\ qpServer' = [qpServer EXCEPT !.known = qpServer.known + i.of,
                  !.misled = @ \/ qpServer.known + i.of > qpTable.inserted]
    <3>. DEFINE known == qpServer.known + i.of
                misled == qpServer.misled \/ known > qpTable.inserted
    <3>1. known \in Counts /\ qpServer.known <= known /\ misled \in BOOLEAN
      BY <1>4, <2>1, <2>4, QpNumbers
    <3>2. misled \/ known <= qpTable.inserted BY <1>4, <2>1
    <3>3. qpServer.misled => misled OBVIOUS
    <3>4. qpServer' = [qpServer EXCEPT !.known = known, !.misled = misled] BY <2>4
    <3>. HIDE DEF known, misled
    <3>5. /\ qpServer' \in QpServerRecord /\ qpServer'.known = known /\ qpServer'.misled = misled
          /\ qpServer'.sent = qpServer.sent /\ qpServer'.dropped = qpServer.dropped
      BY <1>4, <3>1, <3>4 DEF QpServerRecord
    <3>6. QpTypeOK' BY <1>1, <2>2, <2>3, <2>4, <3>5 DEF QpInv, QpTypeOK, QpItem
    <3>7. TablesKept'
      <4>1. qpServer.dropped <= known BY <1>4, <3>1, QpNumbers DEF TablesKept
      <4>. QED BY <1>1, <1>4, <3>2, <3>5, <4>1 DEF TablesKept
    <3>8. \A s \in QpStreams : SectionKept(s)'
      BY <1>1, <2>2, <3>3, <3>5 DEF SectionKept, QpInv
    <3>. QED BY <2>3, <3>6, <3>7, <3>8 DEF QpInv
  <2>5. CASE qpConn' = "closing" /\ qpServer' = qpServer
    <3>1. QpTypeOK' BY <1>1, <2>2, <2>3, <2>5 DEF QpInv, QpTypeOK, QpItem
    <3>2. TablesKept' /\ \A s \in QpStreams : SectionKept(s)'
      BY <1>1, <2>2, <2>5 DEF TablesKept, SectionKept, QpInv
    <3>. QED BY <2>3, <3>1, <3>2 DEF QpInv
  <2>. QED BY <1>3, <1>5, <2>2, <2>4, <2>5 DEF ServerHears
<1>6. CASE i.kind = "section"
  <2>1. PICK s \in QpStreams : s = i.of /\ qpSection[s].pc \in {"written", "over"}
    BY <1>3, <1>6 DEF Said
  <2>. DEFINE known == QpLarger(qpServer.known, qpSection[s].ric)
  <2>2. /\ qpServer' = [qpServer EXCEPT !.known = known] /\ qpConn' = qpConn
        /\ qpSection' = [qpSection EXCEPT ![s] = SectionOver]
    BY <1>3, <1>6, <2>1 DEF ServerHears
  <2>3. qpSection[s].ric \in Counts /\ qpSection[s].ric <= qpTable.inserted
    BY <2>1, QpNumbers DEF QpInv, SectionKept
  <2>4. /\ known \in Counts /\ qpServer.known <= known
        /\ qpServer.known <= qpTable.inserted => known <= qpTable.inserted
    BY <1>4, <2>3, QpNumbers DEF QpLarger
  <2>. HIDE DEF known
  <2>5. /\ qpServer' \in QpServerRecord /\ qpServer'.known = known
        /\ qpServer'.misled = qpServer.misled
        /\ qpServer'.sent = qpServer.sent /\ qpServer'.dropped = qpServer.dropped
    BY <1>4, <2>2, <2>4 DEF QpServerRecord
  <2>6. /\ SectionOver \in QpSectionRecord /\ SectionOver.pc = "over" /\ SectionOver.ric = 0
    BY QpNumbers DEF SectionOver, NoSection, QpSectionRecord
  <2>7. /\ qpSection' \in [QpStreams -> QpSectionRecord] /\ qpSection'[s] = SectionOver
        /\ \A u \in QpStreams : u # s => qpSection'[u] = qpSection[u]
    BY <2>2, <2>6, QpNumbers
  <2>8. qpWire' \in Seq(Said') /\ qpWire' \in Seq(QpItem)
    <3>1. \A u \in QpStreams : qpSection[u].pc \in {"written", "over"}
                                 => qpSection'[u].pc \in {"written", "over"}
      BY <2>6, <2>7
    <3>. QED BY <1>2, <3>1, WireStays
  <2>9. QpTypeOK' BY <1>1, <2>2, <2>5, <2>7, <2>8 DEF QpInv, QpTypeOK, QpItem
  <2>10. TablesKept'
    <3>1. qpServer.dropped <= known BY <1>4, <2>4, QpNumbers DEF TablesKept
    <3>. QED BY <1>1, <1>4, <2>4, <2>5, <3>1 DEF TablesKept
  <2>11. ASSUME NEW u \in QpStreams PROVE SectionKept(u)'
    <3>1. CASE u = s
      BY <1>1, <1>4, <2>6, <2>7, <3>1 DEF SectionKept
    <3>2. CASE u # s
      BY <1>1, <2>5, <2>7, <3>2 DEF SectionKept, QpInv
    <3>. QED BY <3>1, <3>2
  <2>. QED BY <2>8, <2>9, <2>10, <2>11 DEF QpInv
<1>7. i.kind \in {"increment", "section"} BY DEF Said
<1>. QED BY <1>5, <1>6, <1>7

(* Everyone asleep is woken, and nothing else of a section changes.         *)
LEMMA WakingKeeps ==
  ASSUME QpInv, qpSection' = Woken(qpSection)
  PROVE  /\ qpSection' \in [QpStreams -> QpSectionRecord]
         /\ \A s \in QpStreams :
              /\ qpSection'[s].low = qpSection[s].low /\ qpSection'[s].ric = qpSection[s].ric
              /\ qpSection'[s].total = qpSection[s].total
              /\ qpSection'[s].pc = IF qpSection[s].pc = "asleep" THEN "check"
                                                                  ELSE qpSection[s].pc
         /\ qpWire \in Seq(Said')
<1>1. ASSUME NEW s \in QpStreams
      PROVE  /\ qpSection'[s] \in QpSectionRecord
             /\ qpSection'[s].low = qpSection[s].low /\ qpSection'[s].ric = qpSection[s].ric
             /\ qpSection'[s].total = qpSection[s].total
             /\ qpSection'[s].pc = IF qpSection[s].pc = "asleep" THEN "check"
                                                                 ELSE qpSection[s].pc
  <2>1. qpSection[s] \in QpSectionRecord BY QpNumbers
  <2>2. CASE qpSection[s].pc = "asleep"
    <3>1. qpSection'[s] = [qpSection[s] EXCEPT !.pc = "check"] BY <2>2 DEF Woken
    <3>. QED BY <2>1, <2>2, <3>1 DEF QpSectionRecord
  <2>3. CASE qpSection[s].pc # "asleep"
    <3>1. qpSection'[s] = qpSection[s] BY <2>3 DEF Woken
    <3>. QED BY <2>1, <2>3, <3>1
  <2>. QED BY <2>2, <2>3
<1>2. qpSection' \in [QpStreams -> QpSectionRecord] BY <1>1 DEF Woken
<1>3. \A s \in QpStreams : qpSection[s].pc \in {"written", "over"}
                             => qpSection'[s].pc \in {"written", "over"}
  BY <1>1
<1>4. qpWire \in Seq(Said') BY <1>3, WireStays DEF QpInv
<1>. QED BY <1>1, <1>2, <1>4

(* The goroutine that reads the encoder stream, and the connection's end.   *)
LEMMA ReadingKeeps ==
  ASSUME QpInv, Reads \/ ReaderGoesOn \/ ConnEnds \/ DecoderCloses
  PROVE  QpInv'
<1>1. /\ qpServer' = qpServer /\ TablesKept
      /\ qpTable.inserted \in Nat /\ qpTable.dropped \in Nat /\ qpTable.acked \in Nat
      /\ qpServer.sent \in Nat /\ qpServer.dropped \in Nat /\ qpServer.known \in Nat
      /\ qpTable \in QpTableRecord /\ QpCapacity \in Nat
  BY QpNumbers DEF Reads, ReaderInserts, ReaderCounts, ReaderWrites, ReaderGoesOn, ConnEnds,
     DecoderCloses, QpInv
<1>2. CASE ReaderInserts
  <2>. DEFINE full == qpTable.inserted - qpTable.dropped = QpCapacity
              dropped == IF full THEN qpTable.dropped + 1 ELSE qpTable.dropped
  <2>1. /\ qpTable.inserted < qpServer.sent
        /\ qpTable' = [qpTable EXCEPT !.inserted = qpTable.inserted + 1, !.dropped = dropped]
        /\ qpSection' = Woken(qpSection)
        /\ qpReader' = [qpReader EXCEPT !.pc = "batch"]
        /\ UNCHANGED <<qpWire, qpConn>>
    BY <1>2 DEF ReaderInserts
  <2>2. /\ dropped \in Nat /\ qpTable.inserted + 1 - dropped <= QpCapacity
        /\ dropped <= qpServer.dropped
        /\ dropped \in Counts /\ qpTable.inserted + 1 \in Counts
    <3>1. /\ dropped \in Nat /\ qpTable.inserted + 1 - dropped <= QpCapacity
          /\ dropped <= qpServer.dropped
      BY <1>1, <2>1 DEF TablesKept
    <3>. QED BY <1>1, <2>1, <3>1, QpNumbers
  <2>. HIDE DEF dropped, full
  <2>3. /\ qpTable' \in QpTableRecord /\ qpTable'.inserted = qpTable.inserted + 1
        /\ qpTable'.dropped = dropped /\ qpTable'.acked = qpTable.acked
    BY <1>1, <2>1, <2>2 DEF QpTableRecord
  <2>4. /\ qpSection' \in [QpStreams -> QpSectionRecord] /\ qpWire' \in Seq(Said')
        /\ \A s \in QpStreams :
              /\ qpSection'[s].low = qpSection[s].low /\ qpSection'[s].ric = qpSection[s].ric
              /\ qpSection'[s].total = qpSection[s].total
              /\ qpSection'[s].pc = IF qpSection[s].pc = "asleep" THEN "check"
                                                                  ELSE qpSection[s].pc
    BY <2>1, WakingKeeps
  <2>5. qpReader' \in [pc: {"read", "batch", "write", "over"}, n: Counts]
    BY <2>1, QpNumbers
  <2>6. QpTypeOK' BY <1>1, <2>1, <2>3, <2>4, <2>5 DEF QpInv, QpTypeOK
  <2>7. TablesKept' BY <1>1, <2>1, <2>2, <2>3 DEF TablesKept
  <2>8. ASSUME NEW s \in QpStreams PROVE SectionKept(s)'
    <3>1. SectionKept(s) BY DEF QpInv
    <3>2. qpSection[s].ric \in Nat BY QpNumbers
    <3>. QED BY <1>1, <2>3, <2>4, <3>1, <3>2 DEF SectionKept
  <2>. QED BY <2>4, <2>6, <2>7, <2>8 DEF QpInv
<1>3. CASE DecoderCloses
  <2>1. /\ qpConn' = "closed" /\ qpSection' = Woken(qpSection)
        /\ UNCHANGED <<qpTable, qpReader, qpWire>>
    BY <1>3 DEF DecoderCloses
  <2>2. /\ qpSection' \in [QpStreams -> QpSectionRecord] /\ qpWire' \in Seq(Said')
        /\ \A s \in QpStreams :
              /\ qpSection'[s].low = qpSection[s].low /\ qpSection'[s].ric = qpSection[s].ric
              /\ qpSection'[s].total = qpSection[s].total
              /\ qpSection'[s].pc = IF qpSection[s].pc = "asleep" THEN "check"
                                                                  ELSE qpSection[s].pc
    BY <2>1, WakingKeeps
  <2>3. QpTypeOK' BY <1>1, <2>1, <2>2 DEF QpInv, QpTypeOK
  <2>4. TablesKept' BY <1>1, <2>1 DEF TablesKept
  <2>5. ASSUME NEW s \in QpStreams PROVE SectionKept(s)'
    <3>1. SectionKept(s) BY DEF QpInv
    <3>. QED BY <1>1, <2>1, <2>2, <3>1 DEF SectionKept
  <2>. QED BY <2>2, <2>3, <2>4, <2>5 DEF QpInv
<1>4. CASE ReaderCounts
  <2>. DEFINE n == qpTable.inserted - qpTable.acked
  <2>1. /\ qpReader' = IF n > 0 THEN [pc |-> "write", n |-> n] ELSE [qpReader EXCEPT !.pc = "read"]
        /\ qpTable' = [qpTable EXCEPT !.acked = qpTable.inserted]
        /\ UNCHANGED <<qpSection, qpWire, qpConn>>
    BY <1>4 DEF ReaderCounts
  <2>2. n \in Counts BY <1>1, QpNumbers DEF TablesKept
  <2>. HIDE DEF n
  <2>3. qpReader' \in [pc: {"read", "batch", "write", "over"}, n: Counts]
    BY <2>1, <2>2, QpNumbers
  <2>4. /\ qpTable' \in QpTableRecord /\ qpTable'.inserted = qpTable.inserted
        /\ qpTable'.dropped = qpTable.dropped /\ qpTable'.acked = qpTable.inserted
    BY <1>1, <2>1 DEF QpTableRecord
  <2>5. QpTypeOK' BY <1>1, <2>1, <2>3, <2>4 DEF QpInv, QpTypeOK
  <2>6. TablesKept' /\ \A s \in QpStreams : SectionKept(s)'
    BY <1>1, <2>1, <2>4 DEF TablesKept, SectionKept, QpInv
  <2>7. qpWire' \in Seq(Said') BY <2>1, WireStays DEF QpInv
  <2>. QED BY <2>5, <2>6, <2>7 DEF QpInv
<1>5. CASE ReaderWrites \/ ReaderGoesOn \/ ConnEnds
  <2>1. UNCHANGED <<qpTable, qpSection>>
    BY <1>5 DEF ReaderWrites, ReaderGoesOn, ConnEnds
  <2>. DEFINE item == [kind |-> "increment", of |-> qpReader.n]
  <2>2. qpWire' = qpWire \/ qpWire' = Append(qpWire, item)
    BY <1>5 DEF ReaderWrites, ReaderGoesOn, ConnEnds
  <2>3. item \in Said BY QpNumbers DEF Said, QpItem
  <2>4. qpWire' \in Seq(Said)
    BY <2>2, <2>3, AppendProperties DEF QpInv
  <2>5. qpWire' \in Seq(Said') /\ qpWire' \in Seq(QpItem)
    BY <2>1, <2>4, WireStays
  <2>6. qpReader' \in [pc: {"read", "batch", "write", "over"}, n: Counts]
    <3>1. 0 \in Counts BY QpNumbers
    <3>. QED BY <1>5, <3>1, QpNumbers DEF ReaderWrites, ReaderGoesOn, ConnEnds
  <2>7. qpConn' \in {"open", "closing", "closed"}
    BY <1>5 DEF ReaderWrites, ReaderGoesOn, ConnEnds, QpInv, QpTypeOK
  <2>8. QpTypeOK' BY <1>1, <2>1, <2>5, <2>6, <2>7 DEF QpInv, QpTypeOK, QpItem
  <2>9. TablesKept' /\ \A s \in QpStreams : SectionKept(s)'
    BY <1>1, <2>1 DEF TablesKept, SectionKept, QpInv
  <2>. QED BY <2>5, <2>8, <2>9 DEF QpInv
<1>. QED BY <1>2, <1>3, <1>4, <1>5 DEF Reads

LEMMA QpInvNext == QpInv /\ [QpNext]_qpVars => QpInv'
<1>. SUFFICES ASSUME QpInv, [QpNext]_qpVars PROVE QpInv' OBVIOUS
<1>1. CASE UNCHANGED qpVars
  <2>1. qpWire' \in Seq(Said') BY <1>1, WireStays DEF QpInv, qpVars
  <2>2. QpTypeOK' BY <1>1 DEF QpInv, QpTypeOK, qpVars
  <2>. QED BY <1>1, <2>1, <2>2 DEF QpInv, TablesKept, SectionKept, qpVars
<1>2. CASE QpNext
  BY <1>2, DecodingKeeps, AcknowledgingKeeps, InsertingKeeps, SendingKeeps, HearingKeeps,
     ReadingKeeps
     DEF QpNext, Decodes
<1>. QED BY <1>1, <1>2

(* A section decodes to the entries it means, for any capacity and however  *)
(* far the encoder stream is ahead or behind, unless the encoder was misled *)
(* about what has been received (decoder.go, decodeSection).                *)
THEOREM SectionsDecode == QpSpec => []SectionDecodes
<1>1. QpInv => SectionDecodes BY DEF QpInv, SectionKept, SectionDecodes
<1>. QED BY QpInvInit, QpInvNext, <1>1, PTL DEF QpSpec

-----------------------------------------------------------------------------
(* A pooled HTTP/1.1 connection (H1Exchange)                               *)

H1ConnRecord == [dead: BOOLEAN, open: BOOLEAN, past: BOOLEAN,
                 idle: {"off", "peeking", "reported"}]
H1ReqRecord ==
  [n: 0..H1Last, cancelled: BOOLEAN, complete: BOOLEAN, stray: BOOLEAN,
   pc: {"idle", "write", "await", "reply", "read", "got", "body", "back"}]
H1ServerRecord ==
  [n: 0..H1Last, owes: BOOLEAN, said: SUBSET InterimParts, sent: {"nothing", "head", "all"}]

H1Types ==
  /\ h1Conn \in H1ConnRecord /\ h1Req \in H1ReqRecord /\ h1Server \in H1ServerRecord
  /\ h1In \in Seq(H1Units) /\ h1Out \in Seq(H1Units)
  /\ h1Req.n # 0

GaveUp == Unit(0, "head")

(* What has come in and is not read, in the order a server says it: for the *)
(* request the connection is at, interim ones perhaps, head, body; and the  *)
(* 408 of a server that gave up, after which nothing comes.  The last of    *)
(* them tells how far the server is.                                        *)
InKept ==
  \A i \in 1..Len(h1In) :
    LET n == h1Req.n
        u == h1In[i]
        last == i = Len(h1In)
    IN \/ u = GaveUp /\ last /\ ~h1Conn.open
       \/ /\ u.of = n /\ h1Server.n = n
          /\ \/ u.part \in InterimParts /\ last /\ h1Server.sent = "nothing"
             \/ u.part \in InterimParts /\ ~last /\ h1In[i + 1].part \in InterimParts \cup {"head"}
             \/ u.part = "head" /\ last /\ h1Server.sent = "head"
             \/ u.part = "head" /\ ~last /\ h1In[i + 1] = Unit(n, "body")
             \/ u.part = "body" /\ h1Server.sent = "all" /\ (last \/ h1In[i + 1] = GaveUp)

(* What the server has not read has one request head at most, the present   *)
(* request's, and the server has not come to it.                            *)
Heads == {i \in 1..Len(h1Out) : h1Out[i].part # "body"}
OutKept ==
  /\ \A i \in Heads : h1Out[i].of = h1Req.n /\ h1Server.n < h1Req.n
  /\ \A i, j \in Heads : i = j
  /\ h1Req.pc = "write" => Heads = {}

(* Where the request is in its answer, what comes next is what it expects   *)
(* next; a body read to its end was the last of it, and a connection handed *)
(* back in any other state is dead.                                         *)
ReqKept ==
  /\ h1Server.n <= h1Req.n
  /\ h1Server.n < h1Req.n => h1Server.sent = "all"
  /\ h1Req.pc = "write" => h1Server.n < h1Req.n
  /\ h1Req.pc \in {"write", "await", "reply", "read"} =>
       /\ ~h1Req.complete
       /\ h1In = <<>> => h1Server.n < h1Req.n \/ h1Server.sent = "nothing"
       /\ h1In # <<>> => h1In[1].part # "body"
  /\ h1Req.pc = "got" => ~h1Req.complete
  /\ h1Req.pc \in {"got", "body"} /\ ~h1Req.complete =>
       /\ h1In = <<>> => ~h1Conn.open \/ (h1Server.n = h1Req.n /\ h1Server.sent = "head")
       /\ h1In # <<>> => h1In[1] = Unit(h1Req.n, "body")
  /\ h1Req.complete =>
       /\ h1Server.n = h1Req.n /\ h1Server.sent = "all"
       /\ h1In = <<>> \/ (Len(h1In) = 1 /\ h1In[1] = GaveUp)
  /\ h1Req.pc \in {"back", "idle"} => h1Req.complete \/ h1Conn.dead

H1Inv == H1Types /\ InKept /\ OutKept /\ ReqKept /\ ~h1Req.stray

LEMMA H1InvInit == H1Init => H1Inv
<1>. SUFFICES ASSUME H1Init PROVE H1Inv OBVIOUS
<1>1. 0 \in 0..H1Last /\ 1 \in 0..H1Last BY H1Assumption
<1>2. h1In \in Seq(H1Units) /\ h1Out \in Seq(H1Units) /\ Len(h1In) = 0 /\ Len(h1Out) = 0
  BY EmptySeq DEF H1Init
<1>3. h1Conn \in H1ConnRecord /\ h1Req \in H1ReqRecord /\ h1Server \in H1ServerRecord
  BY <1>1 DEF H1Init, H1ConnRecord, H1ReqRecord, H1ServerRecord
<1>4. H1Types BY <1>2, <1>3 DEF H1Init, H1Types
<1>5. InKept /\ OutKept BY <1>2 DEF InKept, OutKept, Heads, H1Init
<1>6. ReqKept /\ ~h1Req.stray BY DEF ReqKept, H1Init
<1>. QED BY <1>4, <1>5, <1>6 DEF H1Inv

(* Steps that read nothing and send nothing: the watches, a cancellation,   *)
(* what fails, the body's close, the way back to the pool.                  *)
LEMMA NothingMoves ==
  ASSUME H1Inv, UNCHANGED <<h1In, h1Out, h1Server>>,
         h1Req' \in H1ReqRecord, h1Conn' \in H1ConnRecord,
         h1Req'.n = h1Req.n, h1Req'.complete = h1Req.complete, h1Req'.stray = h1Req.stray,
         h1Conn'.open => h1Conn.open, h1Conn.dead => h1Conn'.dead,
         \/ h1Req'.pc = h1Req.pc
         \/ h1Req.pc = "got" /\ h1Req'.pc = "body"
         \/ h1Req.pc = "await" /\ h1Req'.pc = "reply"
         \/ h1Req'.pc = "back" /\ (h1Conn'.dead \/ h1Req.complete)
         \/ h1Req.pc = "back" /\ h1Req'.pc = "idle"
  PROVE  H1Inv'
<1>1. H1Types' BY DEF H1Inv, H1Types
<1>2. InKept' BY DEF H1Inv, InKept
<1>3. OutKept' BY DEF H1Inv, OutKept, Heads
<1>4. ReqKept' BY DEF H1Inv, ReqKept
<1>. QED BY <1>1, <1>2, <1>3, <1>4 DEF H1Inv

LEMMA WatchingKeeps ==
  ASSUME H1Inv,
         \/ AwaitWord \/ AwaitFails \/ ReplyFails \/ LimitEndsReply \/ ReadFails
         \/ HeadersIn \/ BodyEnds \/ HandBack \/ H1Watches
         \/ BodyAbandoned \/ Cancelled \/ ServerCloses
  PROVE  H1Inv'
<1>1. /\ h1Req \in H1ReqRecord /\ h1Conn \in H1ConnRecord
      /\ UNCHANGED <<h1In, h1Out, h1Server>>
  BY DEF H1Inv, H1Types, AwaitWord, AwaitFails, ReplyFails, LimitEndsReply, ReadFails,
     HeadersIn, BodyEnds, HandBack, H1Watches, BodyAbandoned, Cancelled, ServerCloses, CloseBody, CancelsRead, BodyWatchStarts,
     BodyWatchRuns, LateWatchRuns, PeekReturns
<1>2. ASSUME NEW pc \in {"reply", "body", "back", "idle"}, H1At(pc)
      PROVE  /\ h1Req' \in H1ReqRecord /\ h1Req'.n = h1Req.n /\ h1Req'.pc = pc
             /\ h1Req'.complete = h1Req.complete /\ h1Req'.stray = h1Req.stray
  BY <1>1, <1>2 DEF H1At, H1ReqRecord
<1>3. CASE AwaitFails \/ ReplyFails \/ LimitEndsReply \/ ReadFails
  <2>1. h1Conn' = [h1Conn EXCEPT !.dead = TRUE] /\ H1At("back")
    BY <1>3 DEF AwaitFails, ReplyFails, LimitEndsReply, ReadFails, H1Fails, H1Dead
  <2>2. h1Conn' \in H1ConnRecord /\ h1Conn'.dead /\ h1Conn'.open = h1Conn.open
    BY <1>1, <2>1 DEF H1ConnRecord
  <2>. QED BY <1>1, <1>2, <2>1, <2>2, NothingMoves
<1>4. CASE HeadersIn
  <2>1. CASE H1At("back") /\ h1Conn' = [h1Conn EXCEPT !.past = FALSE, !.dead = TRUE]
    <3>1. h1Conn' \in H1ConnRecord /\ h1Conn'.dead /\ h1Conn'.open = h1Conn.open
      BY <1>1, <2>1 DEF H1ConnRecord
    <3>. QED BY <1>1, <1>2, <2>1, <3>1, NothingMoves
  <2>2. CASE /\ H1At("body") /\ h1Req.pc = "got"
             /\ \E close \in BOOLEAN :
                  h1Conn' = [h1Conn EXCEPT !.past = FALSE, !.dead = h1Conn.dead \/ close]
    <3>1. /\ h1Conn' \in H1ConnRecord /\ h1Conn'.open = h1Conn.open
          /\ h1Conn.dead => h1Conn'.dead
      BY <1>1, <2>2 DEF H1ConnRecord
    <3>. QED BY <1>1, <1>2, <2>2, <3>1, NothingMoves
  <2>. QED BY <1>4, <2>1, <2>2 DEF HeadersIn
<1>5. CASE BodyEnds \/ BodyAbandoned
  <2>1. /\ H1At("back")
        /\ h1Conn' = [h1Conn EXCEPT !.dead = h1Conn.dead \/ ~h1Req.complete,
                                    !.open = h1Conn.open /\ h1Req.complete]
    BY <1>5 DEF BodyEnds, BodyAbandoned, CloseBody
  <2>2. /\ h1Conn' \in H1ConnRecord
        /\ h1Conn'.dead \/ h1Req.complete
        /\ h1Conn'.open => h1Conn.open
        /\ h1Conn.dead => h1Conn'.dead
    BY <1>1, <2>1 DEF H1ConnRecord
  <2>. QED BY <1>1, <1>2, <2>1, <2>2, NothingMoves
<1>6. CASE HandBack
  <2>1. h1Req.pc = "back" /\ H1At("idle") BY <1>6 DEF HandBack
  <2>2. /\ h1Conn' \in H1ConnRecord /\ h1Conn'.dead = h1Conn.dead
        /\ h1Conn'.open => h1Conn.open
    BY <1>1, <1>6 DEF HandBack, H1ConnRecord
  <2>. QED BY <1>1, <1>2, <2>1, <2>2, NothingMoves
<1>7. CASE H1Watches \/ ServerCloses
  <2>1. h1Req' = h1Req
    BY <1>7 DEF H1Watches, ServerCloses, CancelsRead, BodyWatchStarts, BodyWatchRuns,
       LateWatchRuns, PeekReturns
  <2>2. /\ h1Conn' \in H1ConnRecord
        /\ h1Conn.dead => h1Conn'.dead
        /\ h1Conn'.open => h1Conn.open
    BY <1>1, <1>7 DEF H1Watches, ServerCloses, CancelsRead, BodyWatchStarts, BodyWatchRuns,
       LateWatchRuns, PeekReturns, H1ConnRecord
  <2>. QED BY <1>1, <2>1, <2>2, NothingMoves
<1>8. CASE Cancelled
  <2>1. /\ h1Req' \in H1ReqRecord /\ h1Req'.n = h1Req.n /\ h1Req'.pc = h1Req.pc
        /\ h1Req'.complete = h1Req.complete /\ h1Req'.stray = h1Req.stray /\ h1Conn' = h1Conn
    BY <1>1, <1>8 DEF Cancelled, H1ReqRecord
  <2>. QED BY <1>1, <2>1, NothingMoves
<1>9. CASE AwaitWord
  <2>1. h1Req.pc = "await" /\ H1At("reply") BY <1>9 DEF AwaitWord
  <2>2. /\ h1Conn' \in H1ConnRecord /\ h1Conn'.dead = h1Conn.dead
        /\ h1Conn'.open = h1Conn.open
    BY <1>1, <1>9 DEF AwaitWord, H1ConnRecord
  <2>. QED BY <1>1, <1>2, <2>1, <2>2, NothingMoves
<1>. QED BY <1>3, <1>4, <1>5, <1>6, <1>7, <1>8, <1>9

(* What a step does to the units on their way: the next one taken, or one   *)
(* more at the end.                                                         *)
LEMMA UnitTaken ==
  ASSUME NEW S, NEW s \in Seq(S), s # <<>>
  PROVE  /\ Head(s) = s[1] /\ s[1] \in S /\ Len(s) \in Nat /\ Len(s) >= 1
         /\ Len(s) = 1 \/ Len(s) > 1
         /\ Tail(s) \in Seq(S) /\ Len(Tail(s)) = Len(s) - 1
         /\ Tail(s) = <<>> <=> Len(s) = 1
         /\ \A i \in 1..Len(Tail(s)) : i + 1 \in 1..Len(s) /\ Tail(s)[i] = s[i + 1]
<1>1. Len(s) \in Nat /\ Len(s) >= 1 /\ Head(s) = s[1] /\ s[1] \in S OBVIOUS
<1>2. \A k \in Nat : k >= 1 => k = 1 \/ k > 1 OBVIOUS
<1>3. Tail(s) \in Seq(S) /\ Len(Tail(s)) = Len(s) - 1 OBVIOUS
<1>4. Tail(s) = <<>> <=> Len(Tail(s)) = 0
  <2>1. \A t \in Seq(S) : t = <<>> <=> Len(t) = 0 OBVIOUS
  <2>. QED BY <1>3, <2>1
<1>5. Tail(s) = <<>> <=> Len(s) = 1
  <2>1. \A k \in Nat : k - 1 = 0 <=> k = 1 OBVIOUS
  <2>. QED BY <1>1, <1>3, <1>4, <2>1, Zenon
<1>6. \A i \in 1..Len(Tail(s)) : i + 1 \in 1..Len(s) /\ Tail(s)[i] = s[i + 1] OBVIOUS
<1>7. Len(s) = 1 \/ Len(s) > 1 BY <1>1, <1>2, Zenon
<1>. QED BY <1>1, <1>3, <1>5, <1>6, <1>7

LEMMA UnitAdded ==
  ASSUME NEW S, NEW s \in Seq(S), NEW u \in S
  PROVE  /\ Append(s, u) \in Seq(S) /\ Len(s) \in Nat /\ Len(Append(s, u)) = Len(s) + 1
         /\ \A i \in 1..Len(s) : Append(s, u)[i] = s[i]
         /\ Append(s, u)[Len(s) + 1] = u
  OBVIOUS

LEMMA OutStays ==
  ASSUME OutKept, h1Out' = h1Out, h1Req'.n = h1Req.n, h1Server'.n = h1Server.n,
         h1Req'.pc = "write" => h1Req.pc = "write"
  PROVE  OutKept'
  BY DEF OutKept, Heads

LEMMA WritingKeeps == ASSUME H1Inv, H1Writes PROVE H1Inv'
<1>1. /\ h1Req \in H1ReqRecord /\ h1Conn \in H1ConnRecord /\ h1Req.pc = "write"
      /\ h1Out \in Seq(H1Units) /\ UNCHANGED <<h1In, h1Server>>
  BY DEF H1Inv, H1Types, H1Writes
<1>2. CASE (h1Conn.dead \/ ~h1Conn.open) /\ H1Fails /\ UNCHANGED h1Out
  <2>1. /\ h1Conn' \in H1ConnRecord /\ h1Conn'.dead /\ h1Conn'.open = h1Conn.open
    BY <1>1, <1>2 DEF H1Fails, H1Dead, H1ConnRecord
  <2>2. /\ h1Req' \in H1ReqRecord /\ h1Req'.n = h1Req.n /\ h1Req'.pc = "back"
        /\ h1Req'.complete = h1Req.complete /\ h1Req'.stray = h1Req.stray
    BY <1>1, <1>2 DEF H1Fails, H1At, H1ReqRecord
  <2>. QED BY <1>1, <1>2, <2>1, <2>2, NothingMoves
<1>3. ASSUME NEW pc \in {"read", "await"}, NEW part \in {"head", "expect"}, H1At(pc),
             h1Out' = Append(h1Out, Unit(h1Req.n, part)),
             h1Conn' \in H1ConnRecord, h1Conn'.open = h1Conn.open
      PROVE  H1Inv'
  <2>1. /\ h1Req' \in H1ReqRecord /\ h1Req'.n = h1Req.n /\ h1Req'.pc = pc
        /\ h1Req'.complete = h1Req.complete /\ h1Req'.stray = h1Req.stray
    BY <1>1, <1>3 DEF H1At, H1ReqRecord
  <2>2. Unit(h1Req.n, part) \in H1Units /\ Unit(h1Req.n, part).of = h1Req.n
    BY <1>1 DEF Unit, H1Units, H1ReqRecord
  <2>3. Heads = {} /\ h1Server.n < h1Req.n BY <1>1 DEF H1Inv, OutKept, ReqKept
  <2>4. /\ h1Out' \in Seq(H1Units) /\ Len(h1Out) \in Nat /\ Len(h1Out') = Len(h1Out) + 1
        /\ \A i \in 1..Len(h1Out) : h1Out'[i] = h1Out[i]
        /\ h1Out'[Len(h1Out) + 1] = Unit(h1Req.n, part)
    BY <1>1, <1>3, <2>2, UnitAdded
  <2>5. ASSUME NEW i \in Heads'
        PROVE  i = Len(h1Out) + 1 /\ h1Out'[i].of = h1Req.n
    <3>1. i \in 1..Len(h1Out') /\ h1Out'[i].part # "body" BY <2>5 DEF Heads
    <3>2. i \notin 1..Len(h1Out) BY <2>3, <2>4, <3>1 DEF Heads
    <3>. QED BY <2>2, <2>4, <3>1, <3>2
  <2>6. OutKept' BY <1>1, <2>1, <2>3, <2>5 DEF OutKept
  <2>7. InKept' BY <1>1, <1>3, <2>1 DEF H1Inv, InKept
  <2>8. H1Types' BY <1>1, <1>3, <2>1, <2>4 DEF H1Inv, H1Types
  <2>9. ReqKept' BY <1>1, <1>3, <2>1 DEF H1Inv, ReqKept
  <2>. QED BY <2>1, <2>6, <2>7, <2>8, <2>9 DEF H1Inv
<1>4. CASE /\ H1At("read") /\ h1Out' = Append(h1Out, Unit(h1Req.n, "head"))
           /\ \E past \in {FALSE, h1Conn.past} : h1Conn' = [h1Conn EXCEPT !.past = past]
  <2>1. h1Conn' \in H1ConnRecord /\ h1Conn'.open = h1Conn.open
    BY <1>1, <1>4 DEF H1ConnRecord
  <2>. QED BY <1>3, <1>4, <2>1
<1>5. CASE /\ H1At("await") /\ h1Out' = Append(h1Out, Unit(h1Req.n, "expect"))
           /\ h1Conn' = [h1Conn EXCEPT !.past = FALSE]
  <2>1. h1Conn' \in H1ConnRecord /\ h1Conn'.open = h1Conn.open
    BY <1>1, <1>5 DEF H1ConnRecord
  <2>. QED BY <1>3, <1>5, <2>1
<1>. QED BY <1>2, <1>4, <1>5 DEF H1Writes

(* What the first unit that has come in can be.                             *)
LEMMA FirstIn ==
  ASSUME H1Types, InKept, h1In # <<>>
  PROVE  \/ h1In[1] = GaveUp /\ Len(h1In) = 1 /\ ~h1Conn.open
         \/ /\ h1In[1].of = h1Req.n /\ h1Server.n = h1Req.n
            /\ \/ h1In[1].part \in InterimParts /\ Len(h1In) = 1 /\ h1Server.sent = "nothing"
               \/ /\ h1In[1].part \in InterimParts /\ Len(h1In) # 1
                  /\ h1In[2].part \in InterimParts \cup {"head"}
               \/ h1In[1].part = "head" /\ Len(h1In) = 1 /\ h1Server.sent = "head"
               \/ h1In[1].part = "head" /\ Len(h1In) # 1 /\ h1In[2] = Unit(h1Req.n, "body")
               \/ h1In[1].part = "body" /\ h1Server.sent = "all" /\ Len(h1In) = 1
               \/ h1In[1].part = "body" /\ h1Server.sent = "all" /\ h1In[2] = GaveUp
<1>1. Len(h1In) \in Nat /\ Len(h1In) >= 1 BY UnitTaken DEF H1Types
<1>2. 1 \in 1..Len(h1In) /\ 1 + 1 = 2 BY <1>1
<1>3. \/ h1In[1] = GaveUp /\ 1 = Len(h1In) /\ ~h1Conn.open
      \/ /\ h1In[1].of = h1Req.n /\ h1Server.n = h1Req.n
         /\ \/ h1In[1].part \in InterimParts /\ 1 = Len(h1In) /\ h1Server.sent = "nothing"
            \/ /\ h1In[1].part \in InterimParts /\ 1 # Len(h1In)
               /\ h1In[1 + 1].part \in InterimParts \cup {"head"}
            \/ h1In[1].part = "head" /\ 1 = Len(h1In) /\ h1Server.sent = "head"
            \/ h1In[1].part = "head" /\ 1 # Len(h1In) /\ h1In[1 + 1] = Unit(h1Req.n, "body")
            \/ /\ h1In[1].part = "body" /\ h1Server.sent = "all"
               /\ 1 = Len(h1In) \/ h1In[1 + 1] = GaveUp
  BY <1>2, Zenon DEF InKept
<1>. QED BY <1>2, <1>3

(* The reader takes the next unit: those after it stay as they were.        *)
LEMMA InTaken ==
  ASSUME H1Types, InKept, h1In # <<>>, h1In' = Tail(h1In), h1Server' = h1Server,
         h1Req'.n = h1Req.n, h1Conn'.open = h1Conn.open
  PROVE  /\ InKept' /\ h1In' \in Seq(H1Units)
         /\ Len(h1In) \in Nat /\ Len(h1In') \in Nat /\ Len(h1In') = Len(h1In) - 1
         /\ h1In' = <<>> <=> Len(h1In) = 1
         /\ h1In' # <<>> => h1In'[1] = h1In[2]
<1>1. /\ Len(h1In) \in Nat /\ Len(h1In) >= 1 /\ h1In' \in Seq(H1Units)
      /\ Len(h1In') \in Nat /\ Len(h1In') = Len(h1In) - 1
      /\ \A i \in 1..Len(h1In') : i + 1 \in 1..Len(h1In) /\ h1In'[i] = h1In[i + 1]
  BY UnitTaken DEF H1Types
<1>2. h1In' = <<>> <=> Len(h1In) = 1 BY UnitTaken DEF H1Types
<1>3. h1In' # <<>> => h1In'[1] = h1In[2]
  <2>1. h1In' # <<>> => 1 \in 1..Len(h1In') BY <1>1, <1>2
  <2>2. 1 + 1 = 2 OBVIOUS
  <2>. QED BY <1>1, <2>1, <2>2
<1>4. InKept'
  <2>1. SUFFICES ASSUME NEW i \in 1..Len(h1In')
        PROVE  LET n == h1Req.n
                   u == h1In'[i]
                   last == i = Len(h1In')
               IN \/ u = GaveUp /\ last /\ ~h1Conn.open
                  \/ /\ u.of = n /\ h1Server.n = n
                     /\ \/ u.part \in InterimParts /\ last /\ h1Server.sent = "nothing"
                        \/ /\ u.part \in InterimParts /\ ~last
                           /\ h1In'[i + 1].part \in InterimParts \cup {"head"}
                        \/ u.part = "head" /\ last /\ h1Server.sent = "head"
                        \/ u.part = "head" /\ ~last /\ h1In'[i + 1] = Unit(n, "body")
                        \/ /\ u.part = "body" /\ h1Server.sent = "all"
                           /\ last \/ h1In'[i + 1] = GaveUp
    BY DEF InKept, GaveUp
  <2>2. i + 1 \in 1..Len(h1In) /\ h1In'[i] = h1In[i + 1] BY <1>1
  <2>3. i = Len(h1In') <=> i + 1 = Len(h1In) BY <1>1
  <2>4. ~(i = Len(h1In')) => h1In'[i + 1] = h1In[(i + 1) + 1]
    <3>1. i \in Nat /\ i >= 1 /\ i <= Len(h1In') /\ Len(h1In') \in Nat BY <1>1
    <3>2. ~(i = Len(h1In')) => i + 1 \in 1..Len(h1In') BY <3>1
    <3>. QED BY <1>1, <3>2
  <2>. QED BY <2>2, <2>3, <2>4 DEF InKept
<1>. QED BY <1>1, <1>2, <1>3, <1>4

(* What has been read is never another request's.                           *)
LEMMA HeadIsOwn ==
  ASSUME H1Types, InKept, h1In # <<>>, ~h1Req.stray
  PROVE  H1Stray(Head(h1In)) = FALSE
<1>1. Head(h1In) = h1In[1] BY UnitTaken DEF H1Types
<1>2. h1In[1].of \in {0, h1Req.n} BY FirstIn DEF GaveUp, Unit
<1>. QED BY <1>1, <1>2 DEF H1Stray

(* The interim unit taken, what comes next is still before the body.        *)
LEMMA InterimTaken ==
  ASSUME H1Types, InKept, ReqKept, h1In # <<>>, Head(h1In).part \in InterimParts,
         h1In' = Tail(h1In), h1Server' = h1Server, h1Req'.n = h1Req.n,
         h1Conn'.open = h1Conn.open
  PROVE  /\ InKept' /\ h1In' \in Seq(H1Units)
         /\ h1In' = <<>> => h1Server.sent = "nothing"
         /\ h1In' # <<>> => h1In'[1].part # "body"
<1>1. Head(h1In) = h1In[1] BY UnitTaken DEF H1Types
<1>2. /\ InKept' /\ h1In' \in Seq(H1Units)
      /\ h1In' = <<>> <=> Len(h1In) = 1
      /\ h1In' # <<>> => h1In'[1] = h1In[2]
  BY InTaken
<1>3. \/ Len(h1In) = 1 /\ h1Server.sent = "nothing"
      \/ Len(h1In) # 1 /\ h1In[2].part \in InterimParts \cup {"head"}
  BY <1>1, FirstIn DEF GaveUp, Unit, InterimParts
<1>4. h1In' = <<>> => h1Server.sent = "nothing" BY <1>2, <1>3, Zenon
<1>5. h1In' # <<>> => h1In'[1].part # "body" BY <1>2, <1>3 DEF InterimParts
<1>. QED BY <1>2, <1>4, <1>5

(* awaitContinue sends the body, with the 100 taken or after the wait.      *)
LEMMA AwaitingKeeps == ASSUME H1Inv, AwaitSilence \/ ReplyContinue PROVE H1Inv'
<1>1. /\ H1Types /\ InKept /\ OutKept /\ ReqKept /\ h1Req.pc \in {"await", "reply"}
      /\ h1Req \in H1ReqRecord /\ h1Conn \in H1ConnRecord /\ h1Server' = h1Server
      /\ h1Out \in Seq(H1Units) /\ h1Out' = Append(h1Out, Unit(h1Req.n, "body"))
  BY DEF H1Inv, H1Types, AwaitSilence, ReplyContinue
<1>2. /\ h1Req' \in H1ReqRecord /\ h1Req'.n = h1Req.n /\ h1Req'.pc = "read"
      /\ h1Req'.complete = h1Req.complete /\ ~h1Req'.stray
  <2>1. CASE AwaitSilence
    BY <1>1, <2>1 DEF H1Inv, AwaitSilence, H1At, H1ReqRecord
  <2>2. CASE ReplyContinue
    <3>1. H1Stray(Head(h1In)) = FALSE BY <1>1, <2>2, HeadIsOwn DEF H1Inv, ReplyContinue
    <3>. QED BY <1>1, <2>2, <3>1 DEF ReplyContinue, H1ReqRecord
  <2>. QED BY <2>1, <2>2
<1>3. h1Conn' \in H1ConnRecord /\ h1Conn'.open = h1Conn.open
  BY <1>1 DEF AwaitSilence, ReplyContinue, H1ConnRecord
<1>4. Unit(h1Req.n, "body") \in H1Units /\ Unit(h1Req.n, "body").part = "body"
  BY <1>1 DEF Unit, H1Units, H1ReqRecord
<1>5. /\ h1Out' \in Seq(H1Units) /\ Len(h1Out) \in Nat /\ Len(h1Out') = Len(h1Out) + 1
      /\ \A i \in 1..Len(h1Out) : h1Out'[i] = h1Out[i]
      /\ h1Out'[Len(h1Out) + 1].part = "body"
  BY <1>1, <1>4, UnitAdded
<1>6. OutKept'
  <2>1. ASSUME NEW i \in Heads' PROVE i \in Heads /\ h1Out'[i] = h1Out[i]
    <3>1. i \in 1..Len(h1Out') /\ h1Out'[i].part # "body" BY <2>1 DEF Heads
    <3>2. i \in 1..Len(h1Out) BY <1>5, <3>1
    <3>. QED BY <1>5, <3>1, <3>2 DEF Heads
  <2>. QED BY <1>1, <1>2, <2>1 DEF OutKept
<1>7. InKept' /\ ReqKept' /\ h1In' \in Seq(H1Units)
  <2>1. CASE h1In' = h1In
    <3>1. InKept' BY <1>1, <1>2, <1>3, <2>1 DEF InKept
    <3>2. ReqKept' BY <1>1, <1>2, <1>3, <2>1 DEF ReqKept
    <3>. QED BY <1>1, <2>1, <3>1, <3>2 DEF H1Types
  <2>2. CASE h1In # <<>> /\ Head(h1In).part = "100" /\ h1In' = Tail(h1In)
    <3>1. Head(h1In).part \in InterimParts BY <2>2 DEF InterimParts
    <3>2. /\ InKept' /\ h1In' \in Seq(H1Units)
          /\ h1In' = <<>> => h1Server.sent = "nothing"
          /\ h1In' # <<>> => h1In'[1].part # "body"
      BY <1>1, <1>2, <1>3, <2>2, <3>1, InterimTaken
    <3>3. ReqKept' BY <1>1, <1>2, <3>2 DEF ReqKept
    <3>. QED BY <3>2, <3>3
  <2>. QED BY <2>1, <2>2 DEF AwaitSilence, ReplyContinue
<1>8. H1Types' BY <1>1, <1>2, <1>3, <1>5, <1>7 DEF H1Types
<1>. QED BY <1>2, <1>6, <1>7, <1>8 DEF H1Inv

LEMMA UnitReadingKeeps ==
  ASSUME H1Inv, ReplyFinal \/ ReadSkips \/ ReadHead \/ BodyRead
  PROVE  H1Inv'
<1>1. /\ H1Types /\ InKept /\ OutKept /\ ReqKept /\ ~h1Req.stray
      /\ h1Req \in H1ReqRecord /\ h1Conn \in H1ConnRecord /\ h1Req.n # 0
      /\ h1Out \in Seq(H1Units) /\ h1In \in Seq(H1Units) /\ h1Server \in H1ServerRecord
  BY DEF H1Inv, H1Types
<1>2. /\ h1In # <<>> /\ h1In' = Tail(h1In) /\ UNCHANGED <<h1Out, h1Server>>
      /\ h1Conn' \in H1ConnRecord /\ h1Conn'.open = h1Conn.open
      /\ h1Conn.dead => h1Conn'.dead
  BY <1>1 DEF ReplyFinal, H1Dead, ReadSkips, ReadHead, BodyRead, H1ConnRecord
<1>3. H1Stray(Head(h1In)) = FALSE BY <1>1, <1>2, HeadIsOwn
<1>4. h1Req' \in H1ReqRecord /\ h1Req'.n = h1Req.n /\ h1Req'.stray = FALSE
  BY <1>1, <1>3 DEF ReplyFinal, ReadSkips, ReadHead, BodyRead, H1ReqRecord
<1>5. Head(h1In) = h1In[1] BY <1>1, <1>2, UnitTaken
<1>6. /\ InKept' /\ h1In' \in Seq(H1Units)
      /\ h1In' = <<>> <=> Len(h1In) = 1
      /\ h1In' # <<>> => h1In'[1] = h1In[2]
      /\ Len(h1In') = Len(h1In) - 1 /\ Len(h1In) \in Nat
  BY <1>1, <1>2, <1>4, InTaken
<1>7. H1Types' BY <1>1, <1>2, <1>4, <1>6 DEF H1Types
<1>8. OutKept' /\ ReqKept'
  <2>1. CASE ReadSkips
    <3>1. /\ h1Req.pc \in {"reply", "read"} /\ h1Req'.pc = h1Req.pc
          /\ h1Req'.complete = h1Req.complete /\ Head(h1In).part \in InterimParts
      BY <1>1, <1>5, <2>1 DEF ReadSkips, H1ReqRecord, InterimParts
    <3>2. /\ h1In' = <<>> => h1Server.sent = "nothing"
          /\ h1In' # <<>> => h1In'[1].part # "body"
      BY <1>1, <1>2, <1>4, <3>1, InterimTaken
    <3>3. ReqKept' BY <1>1, <1>2, <1>4, <3>1, <3>2 DEF ReqKept
    <3>. QED BY <1>1, <1>2, <1>4, <3>1, <3>3, OutStays
  <2>2. CASE ReplyFinal \/ ReadHead
    <3>1. /\ h1Req.pc \in {"reply", "read"} /\ h1Req'.pc \in {"body", "got"}
          /\ h1Req'.complete = h1Req.complete /\ h1In[1].part \notin InterimParts
      BY <1>1, <1>5, <2>2 DEF ReplyFinal, ReadHead, H1ReqRecord
    <3>2. ~h1Req.complete /\ h1In[1].part # "body" BY <1>1, <1>2, <3>1 DEF ReqKept
    <3>3. \/ Len(h1In) = 1 /\ ~h1Conn.open
          \/ Len(h1In) = 1 /\ h1Server.n = h1Req.n /\ h1Server.sent = "head"
          \/ Len(h1In) # 1 /\ h1In[2] = Unit(h1Req.n, "body")
      BY <1>1, <1>2, <3>1, <3>2, FirstIn
    <3>4. h1In' = <<>> => ~h1Conn.open \/ (h1Server.n = h1Req.n /\ h1Server.sent = "head")
      BY <1>6, <3>3, Zenon
    <3>5. h1In' # <<>> => h1In'[1] = Unit(h1Req.n, "body") BY <1>6, <3>3
    <3>6. ReqKept' BY <1>1, <1>2, <1>4, <3>1, <3>2, <3>4, <3>5 DEF ReqKept
    <3>. QED BY <1>1, <1>2, <1>4, <3>1, <3>6, OutStays
  <2>3. CASE BodyRead
    <3>1. /\ h1Req.pc = "body" /\ h1Req'.pc = "body" /\ ~h1Req.complete /\ h1Req'.complete
      BY <1>1, <2>3 DEF BodyRead, H1ReqRecord
    <3>2. h1In[1] = Unit(h1Req.n, "body") BY <1>1, <1>2, <3>1 DEF ReqKept
    <3>3. /\ h1Server.n = h1Req.n /\ h1Server.sent = "all"
          /\ Len(h1In) = 1 \/ h1In[2] = GaveUp
      BY <1>1, <1>2, <3>2, FirstIn DEF GaveUp, Unit, InterimParts
    <3>4. h1In' = <<>> \/ (Len(h1In') = 1 /\ h1In'[1] = GaveUp)
      <4>1. CASE h1In' # <<>>
        <5>1. h1In'[1] = GaveUp BY <1>6, <3>3, <4>1
        <5>2. /\ H1Types' /\ InKept' /\ h1Req'.n # 0
          BY <1>1, <1>4, <1>6, <1>7
        <5>3. Len(h1In') \in Nat /\ 1 \in 1..Len(h1In') BY <1>7, <4>1, UnitTaken DEF H1Types
        <5>4. GaveUp.of = 0 BY DEF GaveUp, Unit
        <5>5. GaveUp' = GaveUp BY DEF GaveUp, Unit
        <5>6. 1 = Len(h1In')
          BY <5>1, <5>2, <5>3, <5>4, <5>5, Zenon DEF InKept
        <5>. QED BY <5>1, <5>6
      <4>. QED BY <4>1
    <3>5. GaveUp' = GaveUp BY DEF GaveUp, Unit
    <3>6. ReqKept' BY <1>1, <1>2, <1>4, <3>1, <3>3, <3>4, <3>5 DEF ReqKept
    <3>. QED BY <1>1, <1>2, <1>4, <3>1, <3>6, OutStays
  <2>. QED BY <2>1, <2>2, <2>3
<1>. QED BY <1>4, <1>6, <1>7, <1>8 DEF H1Inv

(* A live connection is picked again: it owed its last request nothing.     *)
LEMMA PickingKeeps == ASSUME H1Inv, PickedAgain PROVE H1Inv'
<1>1. /\ H1Types /\ InKept /\ OutKept /\ ReqKept
      /\ h1Req \in H1ReqRecord /\ h1Conn \in H1ConnRecord /\ h1Server \in H1ServerRecord
      /\ UNCHANGED <<h1In, h1Out, h1Server>>
  BY DEF H1Inv, H1Types, PickedAgain
<1>2. h1Req.n \in 0..H1Last /\ h1Req.n < H1Last /\ H1Last \in Nat /\ h1Server.n \in 0..H1Last
  BY <1>1, H1Assumption DEF PickedAgain, H1ReqRecord, H1ServerRecord
<1>3. /\ h1Req' \in H1ReqRecord /\ h1Req'.n = h1Req.n + 1 /\ h1Req'.pc = "write"
      /\ ~h1Req'.complete /\ ~h1Req'.stray /\ h1Req'.n # 0
  <2>1. h1Req.n + 1 \in 0..H1Last /\ h1Req.n + 1 # 0 BY <1>2
  <2>. QED BY <2>1 DEF PickedAgain, H1ReqRecord
<1>4. h1Conn' \in H1ConnRecord /\ h1Conn'.open = h1Conn.open
  BY <1>1 DEF PickedAgain, H1ConnRecord
<1>5. h1Req.complete /\ h1Server.n = h1Req.n /\ h1Server.sent = "all"
  BY <1>1 DEF ReqKept, PickedAgain
<1>6. h1In = <<>> \/ (Len(h1In) = 1 /\ h1In[1] = GaveUp) BY <1>1, <1>5 DEF ReqKept
<1>7. h1In # <<>> => ~h1Conn.open
  BY <1>1, <1>2, <1>6, FirstIn DEF GaveUp, Unit, H1Types
<1>8. Heads = {} BY <1>1, <1>2, <1>5 DEF OutKept
<1>9. Heads' = {} BY <1>1, <1>8 DEF Heads
<1>10. OutKept' BY <1>9 DEF OutKept
<1>11. InKept'
  <2>1. GaveUp' = GaveUp BY DEF GaveUp, Unit
  <2>2. \A i \in 1..Len(h1In') : h1In'[i] = GaveUp /\ i = Len(h1In') /\ ~h1Conn'.open
    <3>1. CASE h1In = <<>> BY <1>1, <3>1
    <3>2. CASE h1In # <<>>
      <4>1. Len(h1In') = 1 /\ h1In'[1] = GaveUp /\ ~h1Conn'.open
        BY <1>1, <1>4, <1>6, <1>7, <3>2
      <4>2. \A i \in 1..1 : i = 1 OBVIOUS
      <4>. QED BY <4>1, <4>2
    <3>. QED BY <3>1, <3>2
  <2>. QED BY <2>1, <2>2 DEF InKept
<1>12. ReqKept'
  <2>1. h1Server'.n < h1Req'.n /\ h1Server'.sent = "all" BY <1>1, <1>2, <1>3, <1>5
  <2>2. h1Server'.n <= h1Req'.n BY <1>1, <1>2, <1>3, <1>5
  <2>3. h1In' # <<>> => h1In'[1].part = "head" BY <1>1, <1>6 DEF GaveUp, Unit
  <2>. QED BY <1>3, <2>1, <2>2, <2>3 DEF ReqKept
<1>13. H1Types' BY <1>1, <1>3, <1>4 DEF H1Types
<1>. QED BY <1>3, <1>10, <1>11, <1>12, <1>13 DEF H1Inv

(* The server takes up a request: nothing of an earlier answer is unread.   *)
LEMMA ServingReads == ASSUME H1Inv, ServerReads PROVE H1Inv'
<1>1. /\ H1Types /\ InKept /\ OutKept /\ ReqKept
      /\ h1Req \in H1ReqRecord /\ h1Server \in H1ServerRecord
      /\ h1Out \in Seq(H1Units) /\ h1Out # <<>> /\ h1Out' = Tail(h1Out) /\ h1Conn.open
      /\ UNCHANGED <<h1Conn, h1In, h1Req>>
  BY DEF H1Inv, H1Types, ServerReads
<1>2. /\ Head(h1Out) = h1Out[1] /\ h1Out' \in Seq(H1Units) /\ h1Out[1] \in H1Units
      /\ Len(h1Out) \in Nat /\ Len(h1Out) >= 1
      /\ \A i \in 1..Len(h1Out') : i + 1 \in 1..Len(h1Out) /\ h1Out'[i] = h1Out[i + 1]
  BY <1>1, UnitTaken
<1>3. \A i \in Heads' : i \in Nat \ {0} /\ i + 1 \in Heads /\ h1Out'[i] = h1Out[i + 1]
  BY <1>2 DEF Heads
<1>4. CASE /\ ~h1Server.owes /\ h1Server.sent = "all" /\ Head(h1Out).part # "body"
           /\ h1Server' = [n |-> Head(h1Out).of, owes |-> Head(h1Out).part = "expect",
                           said |-> {}, sent |-> "nothing"]
  <2>1. 1 \in Heads BY <1>2, <1>4 DEF Heads
  <2>2. h1Out[1].of = h1Req.n /\ h1Server.n < h1Req.n /\ h1Req.pc # "write"
    BY <1>1, <2>1 DEF OutKept
  <2>3. /\ h1Server' \in H1ServerRecord /\ h1Server'.n = h1Req.n
        /\ h1Server'.sent = "nothing"
    <3>1. h1Out[1].of \in 0..H1Last BY <1>2 DEF H1Units
    <3>. QED BY <1>2, <1>4, <2>2, <3>1 DEF H1ServerRecord
  <2>4. h1Server.n \in Nat /\ h1Req.n \in Nat
    BY <1>1, H1Assumption DEF H1ServerRecord, H1ReqRecord
  <2>5. h1Server.n # h1Req.n BY <2>2, <2>4
  <2>6. h1In = <<>> BY <1>1, <2>5, FirstIn
  <2>7. InKept' BY <1>1, <2>6 DEF InKept
  <2>8. Heads' = {}
    <3>1. SUFFICES ASSUME NEW i \in Heads' PROVE FALSE OBVIOUS
    <3>2. i \in Nat \ {0} /\ i + 1 \in Heads BY <1>3
    <3>3. i + 1 = 1 BY <1>1, <2>1, <3>2 DEF OutKept
    <3>. QED BY <3>2, <3>3
  <2>9. OutKept' BY <2>8 DEF OutKept
  <2>10. ~(h1Req.pc \in {"got", "body"} /\ ~h1Req.complete) /\ ~h1Req.complete
    BY <1>1, <2>5, <2>6 DEF ReqKept
  <2>11. ReqKept' BY <1>1, <2>2, <2>3, <2>4, <2>6, <2>10 DEF ReqKept
  <2>12. H1Types' BY <1>1, <1>2, <2>3 DEF H1Types
  <2>. QED BY <1>1, <2>7, <2>9, <2>11, <2>12 DEF H1Inv
<1>5. CASE h1Server' = [h1Server EXCEPT !.owes = FALSE]
  <2>1. /\ h1Server' \in H1ServerRecord /\ h1Server'.n = h1Server.n
        /\ h1Server'.sent = h1Server.sent
    BY <1>1, <1>5 DEF H1ServerRecord
  <2>2. InKept' BY <1>1, <2>1 DEF InKept
  <2>3. OutKept'
    <3>1. \A i \in Heads' : h1Out'[i].of = h1Req'.n /\ h1Server'.n < h1Req'.n
      BY <1>1, <1>3, <2>1 DEF OutKept
    <3>2. \A i, j \in Heads' : i = j
      <4>1. TAKE i, j \in Heads'
      <4>2. i + 1 = j + 1 BY <1>1, <1>3 DEF OutKept
      <4>. QED BY <1>3, <4>2
    <3>3. h1Req'.pc = "write" => Heads' = {} BY <1>1, <1>3 DEF OutKept
    <3>. QED BY <3>1, <3>2, <3>3 DEF OutKept
  <2>4. ReqKept' BY <1>1, <2>1 DEF ReqKept
  <2>5. H1Types' BY <1>1, <1>2, <2>1 DEF H1Types
  <2>. QED BY <1>1, <2>2, <2>3, <2>4, <2>5 DEF H1Inv
<1>. QED BY <1>4, <1>5 DEF ServerReads

(* The server says something: one more unit at the end of what has come in. *)
LEMMA InAdded ==
  ASSUME H1Types, InKept, NEW u \in H1Units, h1In' = Append(h1In, u), h1Req' = h1Req,
         h1Server'.n = h1Server.n, h1Conn.open,
         \/ u.of = h1Req.n /\ h1Server.n = h1Req.n
         \/ u = GaveUp /\ ~h1Conn'.open,
         \/ u.part \in InterimParts /\ h1Server'.sent = "nothing"
         \/ u.part = "head" /\ (h1Server'.sent = "head" \/ u = GaveUp)
         \/ u.part = "body" /\ h1Server'.sent = "all",
         \/ h1Server.sent = "nothing" /\ u.part \in InterimParts \cup {"head"}
         \/ h1Server.sent = "head" /\ u = Unit(h1Req.n, "body")
         \/ h1Server.sent = "all" /\ h1Server'.sent = "all" /\ u = GaveUp
  PROVE  /\ InKept' /\ h1In' \in Seq(H1Units) /\ h1In' # <<>>
         /\ h1In = <<>> => h1In'[1] = u /\ Len(h1In') = 1
         /\ h1In # <<>> => h1In'[1] = h1In[1]
<1>1. /\ h1In' \in Seq(H1Units) /\ Len(h1In) \in Nat /\ Len(h1In') = Len(h1In) + 1
      /\ \A i \in 1..Len(h1In) : h1In'[i] = h1In[i]
      /\ h1In'[Len(h1In) + 1] = u
  BY UnitAdded DEF H1Types
<1>2. GaveUp' = GaveUp BY DEF GaveUp, Unit
<1>3. InKept'
  <2>1. SUFFICES ASSUME NEW i \in 1..Len(h1In')
        PROVE  LET n == h1Req.n
                   v == h1In'[i]
                   last == i = Len(h1In')
               IN \/ v = GaveUp /\ last /\ ~h1Conn'.open
                  \/ /\ v.of = n /\ h1Server.n = n
                     /\ \/ v.part \in InterimParts /\ last /\ h1Server'.sent = "nothing"
                        \/ /\ v.part \in InterimParts /\ ~last
                           /\ h1In'[i + 1].part \in InterimParts \cup {"head"}
                        \/ v.part = "head" /\ last /\ h1Server'.sent = "head"
                        \/ v.part = "head" /\ ~last /\ h1In'[i + 1] = Unit(n, "body")
                        \/ /\ v.part = "body" /\ h1Server'.sent = "all"
                           /\ last \/ h1In'[i + 1] = GaveUp
    BY <1>2 DEF InKept
  <2>2. CASE i = Len(h1In) + 1
    <3>1. h1In'[i] = u /\ i = Len(h1In') BY <1>1, <2>2
    <3>2. h1Req.n # 0 /\ GaveUp.of = 0 BY DEF H1Types, GaveUp, Unit
    <3>. QED BY <3>1, <3>2
  <2>3. CASE i \in 1..Len(h1In)
    <3>1. i # Len(h1In') /\ h1In'[i] = h1In[i] BY <1>1, <2>3
    <3>2. CASE i = Len(h1In)
      <4>1. h1In'[i + 1] = u BY <1>1, <3>2
      <4>2. /\ h1In[i].of = h1Req.n /\ h1Server.n = h1Req.n
            /\ \/ h1In[i].part \in InterimParts /\ h1Server.sent = "nothing"
               \/ h1In[i].part = "head" /\ h1Server.sent = "head"
               \/ h1In[i].part = "body" /\ h1Server.sent = "all"
        BY <2>3, <3>2 DEF InKept
      <4>. QED BY <3>1, <4>1, <4>2
    <3>3. CASE i # Len(h1In)
      <4>1. i \in Nat /\ i <= Len(h1In) /\ i >= 1 /\ Len(h1In) \in Nat BY <1>1, <2>3
      <4>2. i + 1 \in 1..Len(h1In) BY <3>3, <4>1
      <4>3. h1In'[i + 1] = h1In[i + 1] BY <1>1, <4>2
      <4>4. /\ h1In[i].of = h1Req.n /\ h1Server.n = h1Req.n
            /\ \/ h1In[i].part \in InterimParts /\ h1In[i + 1].part \in InterimParts \cup {"head"}
               \/ h1In[i].part = "head" /\ h1In[i + 1] = Unit(h1Req.n, "body")
               \/ /\ h1In[i].part = "body" /\ h1Server.sent = "all"
                  /\ h1In[i + 1] = GaveUp
        BY <2>3, <3>3 DEF InKept
      <4>5. h1Req.n # 0 /\ GaveUp.of = 0 BY DEF H1Types, GaveUp, Unit
      <4>6. h1In[i + 1] # GaveUp BY <4>2, <4>5 DEF InKept
      <4>. QED BY <3>1, <4>3, <4>4, <4>6
    <3>. QED BY <3>2, <3>3
  <2>4. i = Len(h1In) + 1 \/ i \in 1..Len(h1In) BY <1>1, <2>1
  <2>. QED BY <2>2, <2>3, <2>4
<1>4. h1In = <<>> => Len(h1In) = 0 OBVIOUS
<1>5. h1In # <<>> => 1 \in 1..Len(h1In) BY UnitTaken DEF H1Types
<1>6. h1In' # <<>> BY <1>1
<1>7. h1In = <<>> => h1In'[1] = u /\ Len(h1In') = 1 BY <1>1, <1>4
<1>8. h1In # <<>> => h1In'[1] = h1In[1] BY <1>1, <1>5
<1>. QED BY <1>1, <1>3, <1>6, <1>7, <1>8

LEMMA SayingKeeps ==
  ASSUME H1Inv, (\E part \in InterimParts : ServerSays(part)) \/ ServerAnswers \/ ServerGivesUp
  PROVE  H1Inv'
<1>1. /\ H1Types /\ InKept /\ OutKept /\ ReqKept /\ h1Conn.open
      /\ h1Req \in H1ReqRecord /\ h1Server \in H1ServerRecord /\ h1Conn \in H1ConnRecord
      /\ UNCHANGED <<h1Out, h1Req>>
  BY DEF H1Inv, H1Types, ServerSays, ServerAnswers, ServerGivesUp
<1>2. h1Server.n \in Nat /\ h1Req.n \in Nat /\ h1Req.n # 0
  BY <1>1, H1Assumption DEF H1ServerRecord, H1ReqRecord, H1Types
<1>3. h1Server.sent # "all" => h1Server.n = h1Req.n BY <1>1, <1>2 DEF ReqKept
<1>4. \A part \in InterimParts \cup {"head", "body"} :
        /\ Unit(h1Req.n, part) \in H1Units
        /\ Unit(h1Req.n, part).of = h1Req.n /\ Unit(h1Req.n, part).part = part
  BY <1>1 DEF Unit, H1Units, H1ReqRecord
<1>5. GaveUp \in H1Units /\ GaveUp.part = "head" /\ GaveUp.of = 0 /\ GaveUp' = GaveUp
  <2>1. 0 \in 0..H1Last BY H1Assumption
  <2>. QED BY <2>1 DEF GaveUp, Unit, H1Units
<1>6. CASE \E part \in InterimParts : ServerSays(part)
  <2>1. PICK part \in InterimParts : ServerSays(part) BY <1>6
  <2>2. /\ h1Server.sent = "nothing" /\ h1Server.n = h1Req.n
        /\ h1In' = Append(h1In, Unit(h1Req.n, part))
        /\ h1Server' \in H1ServerRecord /\ h1Server'.n = h1Server.n
        /\ h1Server'.sent = "nothing" /\ h1Conn' = h1Conn
    BY <1>1, <1>3, <2>1 DEF ServerSays, H1ServerRecord
  <2>3. /\ Unit(h1Req.n, part) \in H1Units
        /\ Unit(h1Req.n, part).of = h1Req.n /\ Unit(h1Req.n, part).part = part
    BY <1>4, <2>1
  <2>4. /\ InKept' /\ h1In' \in Seq(H1Units) /\ h1In' # <<>>
        /\ h1In = <<>> => h1In'[1] = Unit(h1Req.n, part)
        /\ h1In # <<>> => h1In'[1] = h1In[1]
    BY <1>1, <2>1, <2>2, <2>3, InAdded
  <2>5. OutKept' BY <1>1, <2>2, OutStays
  <2>6. h1In # <<>> => h1In[1] # Unit(h1Req.n, "body")
    BY <1>1, <1>4, <1>5, <2>2, FirstIn DEF InterimParts
  <2>7. part # "body" BY <2>1 DEF InterimParts
  <2>8. ReqKept' BY <1>1, <1>2, <2>2, <2>3, <2>4, <2>6, <2>7 DEF ReqKept
  <2>9. H1Types' BY <1>1, <2>2, <2>4 DEF H1Types
  <2>. QED BY <1>1, <2>4, <2>5, <2>8, <2>9 DEF H1Inv
<1>7. CASE ServerAnswers /\ h1Server.sent = "nothing"
  <2>1. /\ h1Server.n = h1Req.n /\ h1In' = Append(h1In, Unit(h1Req.n, "head"))
        /\ h1Server' \in H1ServerRecord /\ h1Server'.n = h1Server.n
        /\ h1Server'.sent = "head" /\ h1Conn' = h1Conn
    BY <1>1, <1>3, <1>7 DEF ServerAnswers, H1ServerRecord
  <2>2. /\ InKept' /\ h1In' \in Seq(H1Units) /\ h1In' # <<>>
        /\ h1In = <<>> => h1In'[1] = Unit(h1Req.n, "head")
        /\ h1In # <<>> => h1In'[1] = h1In[1]
    BY <1>1, <1>4, <1>7, <2>1, InAdded
  <2>3. OutKept' BY <1>1, <2>1, OutStays
  <2>4. h1In # <<>> => h1In[1] # Unit(h1Req.n, "body")
    BY <1>1, <1>4, <1>5, <1>7, FirstIn DEF InterimParts
  <2>5. ReqKept' BY <1>1, <1>2, <1>4, <1>7, <2>1, <2>2, <2>4 DEF ReqKept
  <2>6. H1Types' BY <1>1, <2>1, <2>2 DEF H1Types
  <2>. QED BY <1>1, <2>2, <2>3, <2>5, <2>6 DEF H1Inv
<1>8. CASE ServerAnswers /\ h1Server.sent = "head"
  <2>1. /\ h1Server.n = h1Req.n /\ h1In' = Append(h1In, Unit(h1Req.n, "body"))
        /\ h1Server' \in H1ServerRecord /\ h1Server'.n = h1Server.n
        /\ h1Server'.sent = "all" /\ h1Conn' = h1Conn
    BY <1>1, <1>3, <1>8 DEF ServerAnswers, H1ServerRecord
  <2>2. /\ InKept' /\ h1In' \in Seq(H1Units) /\ h1In' # <<>>
        /\ h1In = <<>> => h1In'[1] = Unit(h1Req.n, "body")
        /\ h1In # <<>> => h1In'[1] = h1In[1]
    BY <1>1, <1>4, <1>8, <2>1, InAdded
  <2>3. OutKept' BY <1>1, <2>1, OutStays
  <2>4. h1In = <<>> => h1Req.pc \notin {"write", "await", "reply", "read"}
    BY <1>1, <1>2, <1>8, <2>1 DEF ReqKept
  <2>5. ReqKept' BY <1>1, <1>2, <1>4, <1>8, <2>1, <2>2, <2>4 DEF ReqKept
  <2>6. H1Types' BY <1>1, <2>1, <2>2 DEF H1Types
  <2>. QED BY <1>1, <2>2, <2>3, <2>5, <2>6 DEF H1Inv
<1>9. CASE ServerGivesUp
  <2>1. /\ h1Server.sent = "all" /\ h1In' = Append(h1In, GaveUp)
        /\ h1Server' = h1Server /\ h1Conn' \in H1ConnRecord /\ ~h1Conn'.open
        /\ h1Conn'.dead = h1Conn.dead
    BY <1>1, <1>9 DEF ServerGivesUp, H1ConnRecord, GaveUp
  <2>2. /\ InKept' /\ h1In' \in Seq(H1Units) /\ h1In' # <<>>
        /\ h1In = <<>> => h1In'[1] = GaveUp /\ Len(h1In') = 1
        /\ h1In # <<>> => h1In'[1] = h1In[1]
    BY <1>1, <1>5, <2>1, InAdded
  <2>3. OutKept' BY <1>1, <2>1, OutStays
  <2>4. h1Req.complete => h1In = <<>>
    <3>1. h1In # <<>> => h1In[1] # GaveUp BY <1>1, <1>2, <1>5, FirstIn
    <3>. QED BY <1>1, <3>1 DEF ReqKept
  <2>5. ReqKept' BY <1>1, <1>2, <1>5, <2>1, <2>2, <2>4 DEF ReqKept
  <2>6. H1Types' BY <1>1, <2>1, <2>2 DEF H1Types
  <2>. QED BY <1>1, <2>2, <2>3, <2>5, <2>6 DEF H1Inv
<1>. QED BY <1>6, <1>7, <1>8, <1>9 DEF ServerAnswers

LEMMA H1InvNext == H1Inv /\ [H1Next]_h1Vars => H1Inv'
<1>. SUFFICES ASSUME H1Inv, [H1Next]_h1Vars PROVE H1Inv' OBVIOUS
<1>1. CASE H1Writes BY <1>1, WritingKeeps
<1>2. CASE AwaitSilence \/ ReplyContinue BY <1>2, AwaitingKeeps
<1>3. CASE ReplyFinal \/ ReadSkips \/ ReadHead \/ BodyRead BY <1>3, UnitReadingKeeps
<1>4. CASE \/ AwaitWord \/ AwaitFails \/ ReplyFails \/ LimitEndsReply \/ ReadFails \/ HeadersIn \/ BodyEnds \/ HandBack \/ H1Watches
           \/ BodyAbandoned \/ Cancelled \/ ServerCloses
  BY <1>4, WatchingKeeps
<1>5. CASE PickedAgain BY <1>5, PickingKeeps
<1>6. CASE ServerReads BY <1>6, ServingReads
<1>7. CASE (\E part \in InterimParts : ServerSays(part)) \/ ServerAnswers \/ ServerGivesUp BY <1>7, SayingKeeps
<1>8. CASE UNCHANGED h1Vars
  <2>1. UNCHANGED <<h1Conn, h1In, h1Out, h1Req, h1Server>> BY <1>8 DEF h1Vars
  <2>2. InKept' BY <2>1 DEF H1Inv, InKept
  <2>3. OutKept' BY <2>1 DEF H1Inv, OutKept, Heads
  <2>4. ReqKept' BY <2>1 DEF H1Inv, ReqKept
  <2>5. H1Types' BY <2>1 DEF H1Inv, H1Types
  <2>. QED BY <2>1, <2>2, <2>3, <2>4, <2>5 DEF H1Inv
<1>. QED BY <1>1, <1>2, <1>3, <1>4, <1>5, <1>6, <1>7, <1>8 DEF H1Next, H1Client

(* A request on a reused HTTP/1.1 connection reads its own answer and the   *)
(* server's parting 408 at most: what one request leaves unread, or is      *)
(* answered early, never reaches the next (conn.go, h1Body.Close).          *)
THEOREM AnswersAreOwn == H1Spec => []OwnAnswer
<1>1. H1Inv => OwnAnswer BY DEF H1Inv, OwnAnswer
<1>. QED BY H1InvInit, H1InvNext, <1>1, PTL DEF H1Spec

-----------------------------------------------------------------------------
(* One request on one stream (H3Stream)                                    *)

(* What frames carry, one more of them.                                     *)
H3sPlaces == {"shake", "send", "head", "body", "over"}
H3sEnds == {"", "eof", "error"}
H3sSources == {"open", "eof", "error"}
H3sUpPlaces == {"none", "copy", "extra", "over"}
H3sReads == {"open", "fin", "reset", "cancelled"}
H3sWrites == {"open", "fin", "stopped", "cancelled"}
H3sFrames ==
  {"early", "final", "data", "trailers", "settings", "reserved", "invalid"}
FrameRec == [is : H3sFrames, n : Int]
SideRec == [read : H3sReads, write : H3sWrites, connUp : BOOLEAN]
UpRec == [pc : H3sUpPlaces, length : H3sBodies, sent : Nat, source : H3sSources]
CallFields == [pc : H3sPlaces, early : Nat, room : Int, frame : Nat, trailers : BOOLEAN,
               got : Nat, end : H3sEnds]

(* The data in a frame, and the function that Carried takes over the frames.*)
InFrame(f) == IF f.is = "data" THEN f.n ELSE 0
CarriesOn(g, wire) ==
  g = [s \in SUBSET DOMAIN wire |->
         IF s = {} THEN 0
         ELSE IF wire[Max(s)].is = "data" THEN g[s \ {Max(s)}] + wire[Max(s)].n
              ELSE g[s \ {Max(s)}]]

LEMMA CarriedRuns ==
  ASSUME NEW wire \in Seq(FrameRec)
  PROVE  \E g : CarriesOn(g, wire) /\ Carried(wire) = g[DOMAIN wire]
<1>. DEFINE n == Len(wire)
            step == [e \in (1..n) \X Int |->
                       IF wire[e[1]].is = "data" THEN e[2] + wire[e[1]].n ELSE e[2]]
<1>1. n \in Nat /\ DOMAIN wire = 1..n OBVIOUS
<1>2. step \in [(1..n) \X Int -> Int]
  <2>1. \A i \in 1..n : wire[i] \in FrameRec BY <1>1
  <2>2. \A i \in 1..n : wire[i].n \in Int BY <2>1 DEF FrameRec
  <2>. HIDE DEF n
  <2>3. \A e \in (1..n) \X Int : e[1] \in 1..n /\ e[2] \in Int OBVIOUS
  <2>. QED BY <2>2, <2>3
<1>3. PICK g \in [SUBSET (1..n) -> Int] : IteratesTo(g, n, 0, step)
  <2>. HIDE DEF n, step
  <2>1. n \in Nat /\ 0 \in Int BY <1>1
  <2>2. \E g \in [SUBSET (1..n) -> Int] : IteratesTo(g, n, 0, step)
    BY <1>2, <2>1, FoldExists, Zenon
  <2>. QED BY <2>2
<1>4. ASSUME NEW s \in SUBSET DOMAIN wire
      PROVE  g[s] = IF s = {} THEN 0
                    ELSE IF wire[Max(s)].is = "data" THEN g[s \ {Max(s)}] + wire[Max(s)].n
                         ELSE g[s \ {Max(s)}]
  <2>1. s \in SUBSET (1..n) BY <1>1
  <2>2. g[s] = IF s = {} THEN 0 ELSE step[<<Max(s), g[s \ {Max(s)}]>>]
    BY <1>3, <2>1 DEF IteratesTo
  <2>3. CASE s = {} BY <2>2, <2>3
  <2>4. CASE s # {}
    <3>1. s \in SUBSET (0..n) BY <2>1, <1>1
    <3>2. Max(s) \in s BY <3>1, <1>1, <2>4, MaxIsLast
    <3>3. Max(s) \in 1..n /\ g[s \ {Max(s)}] \in Int BY <2>1, <3>2, <1>3
    <3>. QED BY <2>2, <2>4, <3>3
  <2>. QED BY <2>3, <2>4
<1>5. g = [s \in SUBSET DOMAIN wire |-> g[s]] BY <1>1, <1>3
<1>6. CarriesOn(g, wire) BY <1>4, <1>5 DEF CarriesOn
<1>. HIDE DEF n, step
<1>. QED BY <1>6 DEF CarriesOn, Carried, FoldLeft, MapThenFoldSet

LEMMA CarriesAlong ==
  ASSUME NEW wire, NEW g, CarriesOn(g, wire), NEW i \in Nat, 1..(i + 1) \in SUBSET DOMAIN wire
  PROVE  /\ g[{}] = 0
         /\ g[1..(i + 1)] = IF wire[i + 1].is = "data" THEN g[1..i] + wire[i + 1].n
                            ELSE g[1..i]
<1>. DEFINE s == 1..(i + 1)
<1>1. Max(s) = i + 1 /\ s # {} /\ s \ {i + 1} = 1..i /\ {} \in SUBSET DOMAIN wire
  BY RunsInOrder
<1>. HIDE DEF s
<1>2. s \in SUBSET DOMAIN wire BY DEF s
<1>3. g[s] = IF s = {} THEN 0
             ELSE IF wire[Max(s)].is = "data" THEN g[s \ {Max(s)}] + wire[Max(s)].n
                  ELSE g[s \ {Max(s)}]
  BY <1>2, Zenon DEF CarriesOn
<1>4. g[{}] = 0 BY <1>1 DEF CarriesOn
<1>. QED BY <1>1, <1>3, <1>4 DEF s

LEMMA CarriedOne ==
  ASSUME NEW wire \in Seq(FrameRec), NEW f \in FrameRec
  PROVE  /\ Carried(<<>>) = 0 /\ Carried(wire) \in Int
         /\ Carried(Append(wire, f)) = Carried(wire) + InFrame(f)
<1>. DEFINE n == Len(wire)
            more == Append(wire, f)
<1>1. n \in Nat /\ DOMAIN wire = 1..n /\ DOMAIN more = 1..(n + 1) /\ more \in Seq(FrameRec)
      /\ more[n + 1] = f /\ \A i \in 1..n : more[i] = wire[i] /\ wire[i] \in FrameRec
  OBVIOUS
<1>2. PICK g : CarriesOn(g, wire) /\ Carried(wire) = g[1..n] BY <1>1, CarriedRuns
<1>3. PICK h : CarriesOn(h, more) /\ Carried(more) = h[1..(n + 1)]
  <2>. HIDE DEF more
  <2>. QED BY <1>1, CarriedRuns
<1>4. Carried(<<>>) = 0
  <2>1. \E e : CarriesOn(e, <<>>) /\ Carried(<<>>) = e[DOMAIN <<>>]
    <3>1. <<>> \in Seq(FrameRec) OBVIOUS
    <3>. QED BY <3>1, CarriedRuns, Zenon
  <2>. PICK e : CarriesOn(e, <<>>) /\ Carried(<<>>) = e[DOMAIN <<>>] BY <2>1
  <2>2. DOMAIN <<>> = {} OBVIOUS
  <2>3. {} \in SUBSET DOMAIN <<>> OBVIOUS
  <2>. QED BY <2>2, <2>3 DEF CarriesOn
<1>. DEFINE T == {i \in 0..n : g[1..i] \in Int /\ h[1..i] = g[1..i]}
<1>. HIDE DEF more, n
<1>5. 0 \in T
  <2>1. 1..0 = {} /\ 1..0 \in SUBSET (1..n) /\ 1..0 \in SUBSET (1..(n + 1)) OBVIOUS
  <2>2. g[1..0] = 0 /\ h[1..0] = 0 BY <1>1, <1>2, <1>3, <2>1 DEF CarriesOn
  <2>. QED BY <1>1, <2>2
<1>6. ASSUME NEW i \in 0..(n - 1), i \in T PROVE i + 1 \in T
  <2>1. i \in Nat /\ i + 1 \in 1..n BY <1>1
  <2>2. 1..(i + 1) \in SUBSET (1..n) /\ 1..(i + 1) \in SUBSET (1..(n + 1)) BY <1>1
  <2>4. g[1..(i + 1)] = IF wire[i + 1].is = "data" THEN g[1..i] + wire[i + 1].n ELSE g[1..i]
    BY <1>1, <1>2, <2>1, <2>2, CarriesAlong
  <2>5. h[1..(i + 1)] = IF more[i + 1].is = "data" THEN h[1..i] + more[i + 1].n ELSE h[1..i]
    <3>1. 1..(i + 1) \in SUBSET DOMAIN more BY <1>1, <2>2
    <3>. QED BY <1>3, <2>1, <3>1, CarriesAlong, Zenon
  <2>6. wire[i + 1].n \in Int BY <1>1, <2>1 DEF FrameRec
  <2>. QED BY <1>1, <1>6, <2>1, <2>4, <2>5, <2>6
<1>7. \A i \in 0..n : i \in T
  <2>. HIDE DEF T
  <2>. QED BY <1>1, <1>5, <1>6, UpTo
<1>8. g[1..n] \in Int /\ h[1..n] = g[1..n]
  <2>1. n \in T BY <1>1, <1>7
  <2>. QED BY <2>1
<1>9. h[1..(n + 1)] = IF f.is = "data" THEN h[1..n] + f.n ELSE h[1..n]
  <2>1. n \in Nat /\ CarriesOn(h, more) /\ 1..(n + 1) \in SUBSET DOMAIN more BY <1>1, <1>3
  <2>2. h[1..(n + 1)] = IF more[n + 1].is = "data" THEN h[1..n] + more[n + 1].n ELSE h[1..n]
    BY <2>1, CarriesAlong, Zenon
  <2>. QED BY <1>1, <2>2
<1>10. f.n \in Int BY DEF FrameRec
<1>11. Carried(more) = Carried(wire) + InFrame(f) BY <1>2, <1>3, <1>8, <1>9, <1>10 DEF InFrame
<1>. QED BY <1>2, <1>4, <1>8, <1>11 DEF more

(* The invariant: the count of what the frames carried is kept by what has  *)
(* been read and what is left of the frame, so that a clean end is measured *)
(* against the whole sequence.                                              *)

(* An answer so far: early heads, the final one at i, and what follows it.  *)
AnswerAt(wire, i) ==
  /\ i \in DOMAIN wire /\ wire[i].is = "final" /\ wire[i].n \in -1..H3sMaxLength
  /\ \A j \in DOMAIN wire :
       wire[j].is \in (IF j < i THEN {"early"} ELSE {"final", "data", "trailers"})
  /\ \A j \in DOMAIN wire : wire[j].is = "trailers" => j = Len(wire)

(* What is left of the declared length, and that nothing is beyond it.      *)
Measured(call, wire, length) ==
  /\ Carried(wire) = call.got + call.frame
  /\ call.room = IF length = -1 THEN -1 ELSE length - call.got
  /\ call.room >= -1
  /\ length # -1 => call.room >= 0 /\ (call.room = 0 => call.frame = 0)

NoTrailers(wire) == \A j \in DOMAIN wire : wire[j].is # "trailers"

AnswerStands(call, wire, i) ==
  /\ AnswerAt(wire, i) /\ Measured(call, wire, wire[i].n)
  /\ call.trailers \/ NoTrailers(wire)

H3sAnswer(call, wire) ==
  /\ call.pc \in {"shake", "send"} => wire = <<>>
  /\ call.pc \in {"shake", "send", "head"} =>
       /\ \A j \in DOMAIN wire : wire[j].is = "early"
       /\ Carried(wire) = 0
       /\ call.got = 0 /\ call.frame = 0 /\ ~call.trailers
  /\ call.pc # "over" => call.end = ""
  /\ (call.pc = "body" \/ call.end = "eof") => \E i \in DOMAIN wire : AnswerStands(call, wire, i)

H3sUpload(up, str) ==
  /\ up.length > 0 => up.sent <= up.length
  /\ up.pc = "none" => up.sent = 0
  /\ (up.pc = "copy" /\ up.length > 0) => up.sent < up.length
  /\ str.write = "fin" => (up.pc = "over" /\ (up.length = 0 \/ up.source = "eof"))

H3sTyped ==
  h3sCall \in CallFields /\ h3sStr \in SideRec /\ h3sUp \in UpRec /\ h3sWire \in Seq(FrameRec)
H3sStarts == h3sCall.pc \in {"shake", "send"} => h3sUp.pc = "none"
H3sInv == H3sTyped /\ H3sStarts /\ H3sAnswer(h3sCall, h3sWire) /\ H3sUpload(h3sUp, h3sStr)

LEMMA H3sConstants ==
  /\ H3sMaxLength \in Nat /\ H3sMaxEarly \in Nat /\ H3sBodies \subseteq Int
  /\ -1..H3sMaxLength \subseteq Int /\ 0 \in -1..H3sMaxLength
<1>1. H3sMaxLength \in Nat /\ H3sMaxEarly \in Nat BY H3sAssumption
<1>2. H3sBodies \subseteq -1..H3sMaxLength BY H3sAssumption
<1>. QED BY <1>1, <1>2

LEMMA EndsFromInv == H3sInv => EndsAreTrue
<1>. SUFFICES ASSUME H3sInv PROVE EndsAreTrue
  OBVIOUS
<1>1. ASSUME h3sCall.end = "eof"
      PROVE  /\ \E length \in -1..H3sMaxLength, i \in DOMAIN h3sWire :
                  /\ h3sWire[i] = [is |-> "final", n |-> length]
                  /\ length = h3sCall.got => Carried(h3sWire) = length
                  /\ \A j \in DOMAIN h3sWire :
                       h3sWire[j].is \in (IF j < i THEN {"early"}
                                          ELSE {"final", "data", "trailers"})
             /\ \A j \in DOMAIN h3sWire : h3sWire[j].is = "trailers" => j = Len(h3sWire)
  <2>1. PICK i \in DOMAIN h3sWire : AnswerStands(h3sCall, h3sWire, i)
    BY <1>1 DEF H3sInv, H3sAnswer
  <2>2. PICK n : n = h3sWire[i].n OBVIOUS
  <2>3. h3sWire[i] \in FrameRec BY DEF H3sInv, H3sTyped
  <2>4. n \in -1..H3sMaxLength BY <2>1, <2>2 DEF AnswerStands, AnswerAt
  <2>5. h3sWire[i] = [is |-> "final", n |-> n]
    BY <2>1, <2>2, <2>3 DEF FrameRec, AnswerStands, AnswerAt
  <2>6. n = h3sCall.got => Carried(h3sWire) = n
    <3>1. h3sCall.got \in Nat /\ h3sCall.frame \in Nat
      BY DEF H3sInv, H3sTyped, CallFields
    <3>. QED BY <2>1, <2>2, <3>1 DEF AnswerStands, Measured
  <2>. QED BY <2>1, <2>4, <2>5, <2>6 DEF AnswerStands, AnswerAt
<1>. QED BY <1>1 DEF EndsAreTrue, H3sInv, H3sTyped, H3sUpload

-----------------------------------------------------------------------------
(* A direction of the stream: who ends it, and how.                         *)
Turned(str, new) == new \in SideRec /\ (new.write = "fin" => str.write = "fin")

LEMMA CancelsTurn ==
  ASSUME NEW str \in SideRec
  PROVE  /\ Turned(str, str) /\ Turned(str, CancelBoth(str)) /\ Turned(str, CancelRead(str))
         /\ Turned(str, CancelWrite(str))
         /\ Turned(str, [str EXCEPT !.connUp = FALSE])
         /\ Turned(str, CancelBoth([str EXCEPT !.connUp = FALSE]))
         /\ CancelWrite(str).write # "fin" \/ str.write = "fin"
BY DEF Turned, SideRec, CancelBoth, CancelRead, CancelWrite, H3sReads, H3sWrites

(* A step of the stream or of the watcher alone.                            *)
LEMMA H3sQuiet ==
  ASSUME H3sInv, Turned(h3sStr, h3sStr'), UNCHANGED <<h3sCall, h3sUp, h3sWire>>
  PROVE  H3sInv'
BY DEF H3sInv, H3sTyped, H3sStarts, H3sUpload, Turned

(* A step that ends the call with no clean end.                             *)
LEMMA H3sGivesUp ==
  ASSUME H3sInv, Turned(h3sStr, h3sStr'), UNCHANGED h3sUp, h3sWire' \in Seq(FrameRec),
         h3sCall' \in CallFields, h3sCall'.pc = "over", h3sCall'.end # "eof"
  PROVE  H3sInv'
BY DEF H3sInv, H3sTyped, H3sStarts, H3sUpload, Turned, H3sAnswer

LEMMA H3sParses ==
  ASSUME H3sInv, NEW what \in H3sFrames, NEW n \in Int, Parses(what, n)
  PROVE  h3sWire' \in Seq(FrameRec)
BY DEF H3sInv, H3sTyped, Parses, FrameRec

LEMMA ExchangeFailsTyped ==
  ASSUME H3sInv, ExchangeFails
  PROVE  h3sCall' \in CallFields /\ h3sCall'.pc = "over" /\ h3sCall'.end = "error"
BY DEF H3sInv, H3sTyped, ExchangeFails, CallFields, H3sPlaces, H3sEnds

LEMMA H3sFails ==
  ASSUME H3sInv, Turned(h3sStr, h3sStr'), UNCHANGED h3sUp, h3sWire' \in Seq(FrameRec),
         ExchangeFails
  PROVE  H3sInv'
BY ExchangeFailsTyped, H3sGivesUp

-----------------------------------------------------------------------------
(* The caller, up to the answer's head.                                     *)
LEMMA H3sHeads ==
  ASSUME H3sInv, Opens \/ NotOpened \/ SendsHead \/ HeadNotSent \/ HeadUnreadable
  PROVE  H3sInv'
<1>1. h3sStr \in SideRec /\ h3sUp \in UpRec /\ h3sCall \in CallFields
      /\ h3sWire \in Seq(FrameRec)
  BY DEF H3sInv, H3sTyped
<1>2. ASSUME Opens \/ HeadNotSent PROVE H3sInv'
  <2>1. h3sCall.pc \in {"shake", "send"} /\ h3sCall'.pc \in {"send", "head"}
        /\ h3sCall' = [h3sCall EXCEPT !.pc = h3sCall'.pc]
        /\ UNCHANGED <<h3sStr, h3sUp, h3sWire>>
    BY <1>1, <1>2 DEF Opens, HeadNotSent, CallFields
  <2>2. h3sCall' \in CallFields BY <1>1, <2>1 DEF CallFields, H3sPlaces
  <2>3. H3sAnswer(h3sCall', h3sWire')
    BY <1>1, <2>1 DEF CallFields, H3sInv, H3sAnswer
  <2>4. H3sStarts' BY <2>1 DEF H3sInv, H3sStarts
  <2>. QED BY <2>1, <2>2, <2>3, <2>4 DEF H3sInv, H3sTyped
<1>3. CASE NotOpened
  <2>1. h3sCall' \in CallFields /\ h3sCall'.pc = "over" /\ h3sCall'.end = "error"
    BY <1>1, <1>3 DEF NotOpened, CallFields, H3sPlaces, H3sEnds
  <2>. QED BY <1>1, <1>3, <2>1, H3sGivesUp, CancelsTurn DEF NotOpened
<1>4. CASE SendsHead
  <2>1. h3sCall.pc = "send" /\ h3sCall' = [h3sCall EXCEPT !.pc = "head"] /\ h3sWire' = h3sWire
    BY <1>4 DEF SendsHead
  <2>2. h3sCall' \in CallFields BY <1>1, <2>1 DEF CallFields, H3sPlaces
  <2>3. H3sAnswer(h3sCall', h3sWire')
    BY <1>1, <2>1 DEF CallFields, H3sInv, H3sAnswer
  <2>4. H3sStarts' /\ h3sUp.pc = "none" BY <1>1, <2>1 DEF H3sInv, H3sStarts, CallFields
  <2>5. CASE h3sUp.length = 0
    <3>1. h3sStr' = [h3sStr EXCEPT !.write = "fin"] /\ h3sUp' = [h3sUp EXCEPT !.pc = "over"]
      BY <1>4, <2>5 DEF SendsHead
    <3>2. h3sStr' \in SideRec BY <1>1, <3>1 DEF SideRec, H3sWrites
    <3>3. h3sUp' \in UpRec BY <1>1, <3>1 DEF UpRec, H3sUpPlaces
    <3>4. H3sUpload(h3sUp', h3sStr') BY <1>1, <2>5, <3>1 DEF UpRec, H3sUpload
    <3>. QED BY <1>1, <2>1, <2>2, <2>3, <2>4, <3>2, <3>3, <3>4 DEF H3sInv, H3sTyped
  <2>6. CASE h3sUp.length # 0
    <3>1. h3sStr' = h3sStr /\ h3sUp' = [h3sUp EXCEPT !.pc = "copy"] /\ h3sStr.write = "open"
      BY <1>4, <2>6 DEF SendsHead, Writable
    <3>2. h3sUp' \in UpRec BY <1>1, <3>1 DEF UpRec, H3sUpPlaces
    <3>3. H3sUpload(h3sUp', h3sStr')
      <4>1. h3sUp.sent = 0 BY <2>4 DEF H3sInv, H3sUpload
      <4>2. h3sUp.length \in Int BY <1>1, H3sConstants DEF UpRec
      <4>. QED BY <1>1, <2>6, <3>1, <4>1, <4>2 DEF UpRec, H3sUpload
    <3>. QED BY <1>1, <2>1, <2>2, <2>3, <2>4, <3>1, <3>2, <3>3 DEF H3sInv, H3sTyped
  <2>. QED BY <2>5, <2>6
<1>5. CASE HeadUnreadable
  <2>1. Turned(h3sStr, h3sStr') /\ UNCHANGED h3sUp /\ h3sWire' \in Seq(FrameRec)
    BY <1>1, <1>5, CancelsTurn DEF HeadUnreadable
  <2>. QED BY <1>5, <2>1, H3sFails DEF HeadUnreadable
<1>. QED BY <1>2, <1>3, <1>4, <1>5

(* A frame more, and what it leaves of the answer so far.                   *)
LEMMA FramesMore ==
  ASSUME NEW wire \in Seq(FrameRec), NEW f \in FrameRec
  PROVE  /\ Append(wire, f) \in Seq(FrameRec)
         /\ DOMAIN Append(wire, f) = 1..(Len(wire) + 1)
         /\ Len(Append(wire, f)) = Len(wire) + 1
         /\ \A j \in DOMAIN wire : Append(wire, f)[j] = wire[j]
         /\ Append(wire, f)[Len(wire) + 1] = f
         /\ \A j \in DOMAIN Append(wire, f) : j \in DOMAIN wire \/ j = Len(wire) + 1
OBVIOUS

LEMMA AnswerGoesOn ==
  ASSUME NEW wire \in Seq(FrameRec), NEW f \in FrameRec, f.is \in {"data", "trailers"},
         NEW i, AnswerAt(wire, i), NoTrailers(wire)
  PROVE  /\ AnswerAt(Append(wire, f), i) /\ Append(wire, f)[i] = wire[i]
         /\ f.is = "data" => NoTrailers(Append(wire, f))
<1>. PICK more : more = Append(wire, f) OBVIOUS
<1>1. /\ DOMAIN more = 1..(Len(wire) + 1) /\ Len(more) = Len(wire) + 1
      /\ \A j \in DOMAIN wire : more[j] = wire[j]
      /\ more[Len(wire) + 1] = f
      /\ \A j \in DOMAIN more : j \in DOMAIN wire \/ j = Len(wire) + 1
  BY FramesMore
<1>2. DOMAIN wire = 1..Len(wire) /\ Len(wire) \in Nat /\ i \in DOMAIN wire
  BY DEF AnswerAt
<1>3. ASSUME NEW j \in DOMAIN more
      PROVE  /\ more[j].is \in (IF j < i THEN {"early"} ELSE {"final", "data", "trailers"})
             /\ more[j].is = "trailers" => j = Len(more)
  <2>1. CASE j \in DOMAIN wire BY <1>1, <2>1 DEF AnswerAt, NoTrailers
  <2>2. CASE j = Len(wire) + 1
    <3>1. ~(j < i) BY <1>2, <2>2
    <3>. QED BY <1>1, <2>2, <3>1
  <2>. QED BY <1>1, <2>1, <2>2
<1>4. i \in DOMAIN more /\ more[i] = wire[i] BY <1>1, <1>2
<1>5. AnswerAt(more, i) BY <1>3, <1>4 DEF AnswerAt
<1>6. f.is = "data" => NoTrailers(more) BY <1>1 DEF NoTrailers
<1>. QED BY <1>4, <1>5, <1>6

AllEarly(wire) == Carried(wire) = 0 /\ \A j \in DOMAIN wire : wire[j].is = "early"

LEMMA EarlyMore ==
  ASSUME NEW wire \in Seq(FrameRec), AllEarly(wire), NEW f \in FrameRec, f.is = "early"
  PROVE  AllEarly(Append(wire, f))
<1>1. Carried(Append(wire, f)) = 0 BY CarriedOne DEF InFrame, AllEarly
<1>2. ASSUME NEW j \in DOMAIN Append(wire, f) PROVE Append(wire, f)[j].is = "early"
  BY FramesMore DEF AllEarly
<1>. QED BY <1>1, <1>2 DEF AllEarly

LEMMA FinalMore ==
  ASSUME NEW wire \in Seq(FrameRec), AllEarly(wire), NEW f \in FrameRec, f.is = "final",
         f.n \in -1..H3sMaxLength
  PROVE  /\ Carried(Append(wire, f)) = 0 /\ NoTrailers(Append(wire, f))
         /\ \E i \in DOMAIN Append(wire, f) :
              AnswerAt(Append(wire, f), i) /\ Append(wire, f)[i].n = f.n
<1>1. Carried(Append(wire, f)) = 0 BY CarriedOne DEF InFrame, AllEarly
<1>. PICK more : more = Append(wire, f) OBVIOUS
<1>2. /\ DOMAIN more = 1..(Len(wire) + 1) /\ Len(more) = Len(wire) + 1
      /\ \A j \in DOMAIN wire : more[j] = wire[j]
      /\ more[Len(wire) + 1] = f
      /\ \A j \in DOMAIN more : j \in DOMAIN wire \/ j = Len(wire) + 1
  BY FramesMore
<1>3. PICK i : i = Len(wire) + 1 OBVIOUS
<1>4. i \in DOMAIN more /\ more[i] = f /\ ~(i < i) BY <1>2, <1>3
<1>5. \A j \in DOMAIN more : (j \in DOMAIN wire /\ j < i) \/ j = i BY <1>2, <1>3
<1>6. \A j \in DOMAIN more : more[j].is = IF j < i THEN "early" ELSE "final"
  BY <1>2, <1>4, <1>5 DEF AllEarly
<1>7. AnswerAt(more, i) BY <1>4, <1>6 DEF AnswerAt
<1>8. NoTrailers(more) BY <1>6 DEF NoTrailers
<1>. QED BY <1>1, <1>4, <1>7, <1>8

LEMMA MeasuredFirst ==
  ASSUME NEW call, NEW wire, NEW length \in -1..H3sMaxLength, Carried(wire) = 0,
         call.got = 0, call.frame = 0, call.room = length
  PROVE  Measured(call, wire, length)
<1>1. length \in Int /\ length >= -1 BY H3sConstants
<1>. QED BY <1>1 DEF Measured

-----------------------------------------------------------------------------
(* The head of the answer.                                                  *)
LEMMA H3sAnswers ==
  ASSUME H3sInv,
         \/ HeadIsInvalid \/ EarlyHead
         \/ \E what \in {"data", "settings", "reserved"} : HeadIsNot(what)
         \/ \E length \in -1..H3sMaxLength : FinalHead(length)
  PROVE  H3sInv'
<1>1. h3sStr \in SideRec /\ h3sUp \in UpRec /\ h3sCall \in CallFields
      /\ h3sWire \in Seq(FrameRec)
  BY DEF H3sInv, H3sTyped
<1>2. H3sMaxLength \in Nat BY H3sConstants
<1>3. "invalid" \in H3sFrames /\ "early" \in H3sFrames /\ "final" \in H3sFrames /\ 0 \in Int
  BY DEF H3sFrames
<1>4. CASE HeadIsInvalid
  <2>1. Turned(h3sStr, h3sStr') /\ UNCHANGED h3sUp BY <1>1, <1>4, CancelsTurn DEF HeadIsInvalid
  <2>2. h3sWire' \in Seq(FrameRec) BY <1>3, <1>4, H3sParses DEF HeadIsInvalid
  <2>. QED BY <1>4, <2>1, <2>2, H3sFails DEF HeadIsInvalid
<1>5. ASSUME NEW what \in {"data", "settings", "reserved"}, HeadIsNot(what) PROVE H3sInv'
  <2>1. Turned(h3sStr, h3sStr') /\ UNCHANGED h3sUp BY <1>1, <1>5, CancelsTurn DEF HeadIsNot
  <2>2. h3sWire' \in Seq(FrameRec)
    <3>1. what \in H3sFrames /\ Parses(what, 1) BY <1>5 DEF HeadIsNot, H3sFrames
    <3>. QED BY <3>1, H3sParses
  <2>. QED BY <1>5, <2>1, <2>2, H3sFails DEF HeadIsNot
<1>6. CASE EarlyHead /\ h3sCall.early = H3sMaxEarly
  <2>1. Turned(h3sStr, h3sStr') /\ UNCHANGED h3sUp BY <1>1, <1>6, CancelsTurn DEF EarlyHead
  <2>2. Parses("early", 0) BY <1>6 DEF EarlyHead
  <2>3. h3sWire' \in Seq(FrameRec) BY <1>3, <2>2, H3sParses
  <2>. QED BY <1>6, <2>1, <2>3, H3sFails DEF EarlyHead
<1>7. CASE EarlyHead /\ h3sCall.early # H3sMaxEarly
  <2>1. h3sCall.pc = "head" /\ h3sCall' = [h3sCall EXCEPT !.early = @ + 1]
        /\ UNCHANGED <<h3sStr, h3sUp, h3sWatch>>
        /\ h3sWire' = Append(h3sWire, [is |-> "early", n |-> 0])
    BY <1>7 DEF EarlyHead, Parses
  <2>2. h3sCall' \in CallFields
    <3>1. h3sCall.early + 1 \in Nat BY <1>1 DEF CallFields
    <3>. QED BY <1>1, <2>1, <3>1 DEF CallFields
  <2>3. AllEarly(h3sWire) /\ h3sCall.got = 0 /\ h3sCall.frame = 0 /\ ~h3sCall.trailers
        /\ h3sCall.end = ""
    BY <2>1 DEF H3sInv, H3sAnswer, AllEarly
  <2>4. h3sWire' \in Seq(FrameRec) /\ AllEarly(h3sWire')
    <3>1. PICK f : f = [is |-> "early", n |-> 0] OBVIOUS
    <3>2. f \in FrameRec /\ f.is = "early" /\ h3sWire' = Append(h3sWire, f)
      BY <2>1, <3>1 DEF FrameRec, H3sFrames
    <3>3. AllEarly(Append(h3sWire, f)) BY <1>1, <2>3, <3>2, EarlyMore
    <3>4. Append(h3sWire, f) \in Seq(FrameRec) BY <1>1, <3>2
    <3>. QED BY <3>2, <3>3, <3>4, Zenon
  <2>5. h3sCall'.pc = "head" /\ h3sCall'.got = 0 /\ h3sCall'.frame = 0
        /\ ~h3sCall'.trailers /\ h3sCall'.end = ""
    BY <1>1, <2>1, <2>3 DEF CallFields
  <2>6. H3sAnswer(h3sCall', h3sWire') BY <2>4, <2>5 DEF H3sAnswer, AllEarly
  <2>. QED BY <1>1, <2>1, <2>2, <2>4, <2>5, <2>6
           DEF H3sInv, H3sTyped, H3sStarts, H3sUpload
<1>8. ASSUME NEW length \in -1..H3sMaxLength, FinalHead(length) PROVE H3sInv'
  <2>1. h3sCall.pc = "head" /\ h3sCall' = [h3sCall EXCEPT !.pc = "body", !.room = length]
        /\ UNCHANGED <<h3sStr, h3sUp, h3sWatch>>
        /\ h3sWire' = Append(h3sWire, [is |-> "final", n |-> length])
    BY <1>8 DEF FinalHead, Parses
  <2>2. h3sCall' \in CallFields
    <3>1. length \in Int BY <1>2
    <3>. QED BY <1>1, <2>1, <3>1 DEF CallFields, H3sPlaces
  <2>3. AllEarly(h3sWire) /\ h3sCall.got = 0 /\ h3sCall.frame = 0 /\ h3sCall.end = ""
    BY <2>1 DEF H3sInv, H3sAnswer, AllEarly
  <2>4. /\ h3sWire' \in Seq(FrameRec) /\ Carried(h3sWire') = 0 /\ NoTrailers(h3sWire')
        /\ \E i \in DOMAIN h3sWire' : AnswerAt(h3sWire', i) /\ h3sWire'[i].n = length
    <3>1. PICK f : f = [is |-> "final", n |-> length] OBVIOUS
    <3>2. f \in FrameRec /\ f.is = "final" /\ f.n = length /\ h3sWire' = Append(h3sWire, f)
      BY <2>1, <3>1, H3sConstants DEF FrameRec, H3sFrames
    <3>3. /\ Carried(Append(h3sWire, f)) = 0 /\ NoTrailers(Append(h3sWire, f))
          /\ \E i \in DOMAIN Append(h3sWire, f) :
               AnswerAt(Append(h3sWire, f), i) /\ Append(h3sWire, f)[i].n = length
      <4>1. f.n \in -1..H3sMaxLength BY <3>2
      <4>. QED BY <1>1, <2>3, <3>2, <4>1, FinalMore
    <3>4. Append(h3sWire, f) \in Seq(FrameRec) BY <1>1, <3>2
    <3>. QED BY <3>2, <3>3, <3>4, Zenon
  <2>5. h3sCall'.pc = "body" /\ h3sCall'.got = 0 /\ h3sCall'.frame = 0
        /\ h3sCall'.end = "" /\ h3sCall'.room = length
    BY <1>1, <2>1, <2>3 DEF CallFields
  <2>6. Measured(h3sCall', h3sWire', length) BY <2>4, <2>5, MeasuredFirst
  <2>7. H3sAnswer(h3sCall', h3sWire') BY <2>4, <2>5, <2>6 DEF H3sAnswer, AnswerStands
  <2>. QED BY <1>1, <2>1, <2>2, <2>4, <2>5, <2>7
           DEF H3sInv, H3sTyped, H3sStarts, H3sUpload
<1>. QED BY <1>4, <1>5, <1>6, <1>7, <1>8

-----------------------------------------------------------------------------
(* The answer's body.                                                       *)

(* A call with a length to keep to, before it is checked.                   *)
Unchecked(call, wire, i) ==
  /\ AnswerAt(wire, i) /\ (call.trailers \/ NoTrailers(wire))
  /\ Carried(wire) = call.got + call.frame
  /\ call.room = IF wire[i].n = -1 THEN -1 ELSE wire[i].n - call.got
  /\ call.room >= -1 /\ (wire[i].n # -1 => call.room >= 0 /\ Bounded)

LEMMA NoneAbove == \A x \in Nat : ~(x > 0) => x = 0
OBVIOUS

LEMMA SettlesRight ==
  ASSUME H3sInv, UNCHANGED h3sUp, h3sWire' \in Seq(FrameRec),
         NEW call \in CallFields, call.pc = "body", call.end = "", Settles(call),
         \E i \in DOMAIN h3sWire' : Unchecked(call, h3sWire', i)
  PROVE  H3sInv'
<1>1. h3sStr \in SideRec /\ h3sUp \in UpRec BY DEF H3sInv, H3sTyped
<1>2. CASE TooMuch(call.room, call.frame)
  <2>1. h3sCall' = [call EXCEPT !.pc = "over", !.end = "error"] /\ h3sStr' = CancelBoth(h3sStr)
    BY <1>2 DEF Settles
  <2>2. h3sCall' \in CallFields /\ h3sCall'.pc = "over" /\ h3sCall'.end = "error"
    BY <2>1 DEF CallFields, H3sPlaces, H3sEnds
  <2>3. Turned(h3sStr, h3sStr') BY <1>1, <2>1, CancelsTurn
  <2>. QED BY <2>2, <2>3, H3sGivesUp
<1>3. CASE ~TooMuch(call.room, call.frame)
  <2>1. h3sCall' = call /\ h3sStr' = h3sStr BY <1>3 DEF Settles
  <2>2. PICK i \in DOMAIN h3sWire' : Unchecked(call, h3sWire', i) OBVIOUS
  <2>3. call.frame \in Nat /\ call.room \in Int BY DEF CallFields
  <2>4. ASSUME h3sWire'[i].n # -1, call.room = 0 PROVE call.frame = 0
    <3>1. Bounded BY <2>2, <2>4 DEF Unchecked
    <3>2. ~(call.frame > 0) BY <1>3, <2>4, <3>1 DEF TooMuch
    <3>. QED BY <2>3, <3>2, NoneAbove, Zenon
  <2>5. Measured(call, h3sWire', h3sWire'[i].n) BY <2>2, <2>4 DEF Measured, Unchecked
  <2>6. AnswerStands(call, h3sWire', i) BY <2>2, <2>5 DEF AnswerStands, Unchecked
  <2>7. H3sAnswer(h3sCall', h3sWire') BY <2>1, <2>6 DEF H3sAnswer
  <2>. QED BY <1>1, <2>1, <2>7 DEF H3sInv, H3sTyped, H3sStarts, H3sUpload
<1>. QED BY <1>2, <1>3

(* What the invariant says of a call that reads its body.                   *)
LEMMA BodyStands ==
  ASSUME H3sInv, h3sCall.pc = "body"
  PROVE  /\ h3sStr \in SideRec /\ h3sUp \in UpRec /\ h3sCall \in CallFields
         /\ h3sWire \in Seq(FrameRec) /\ h3sCall.end = ""
         /\ \E i \in DOMAIN h3sWire : AnswerStands(h3sCall, h3sWire, i)
BY DEF H3sInv, H3sTyped, H3sAnswer

LEMMA ReadsOnRight ==
  ASSUME H3sInv, ReadsOn
  PROVE  H3sInv'
<1>1. h3sCall.pc = "body" /\ UNCHANGED <<h3sUp, h3sWire>> BY DEF ReadsOn
<1>2. /\ h3sCall \in CallFields /\ h3sWire \in Seq(FrameRec) /\ h3sCall.end = ""
      /\ \E i \in DOMAIN h3sWire : AnswerStands(h3sCall, h3sWire, i)
  BY <1>1, BodyStands
<1>3. PICK i \in DOMAIN h3sWire : AnswerStands(h3sCall, h3sWire, i) BY <1>2
<1>4. PICK n \in 1..h3sCall.frame :
        /\ Bounded => n <= h3sCall.room
        /\ Settles([h3sCall EXCEPT !.got = @ + n, !.frame = @ - n,
                                   !.room = IF Bounded THEN @ - n ELSE @])
  BY DEF ReadsOn
<1>5. PICK call : call = [h3sCall EXCEPT !.got = @ + n, !.frame = @ - n,
                                        !.room = IF Bounded THEN @ - n ELSE @]
  OBVIOUS
<1>6. h3sCall.got \in Nat /\ h3sCall.frame \in Nat /\ h3sCall.room \in Int /\ n \in Nat
      /\ n <= h3sCall.frame
  <2>1. h3sCall.got \in Nat /\ h3sCall.frame \in Nat /\ h3sCall.room \in Int
    BY <1>2 DEF CallFields
  <2>. QED BY <2>1
<1>7. /\ call.got = h3sCall.got + n /\ call.frame = h3sCall.frame - n
      /\ call.room = (IF Bounded THEN h3sCall.room - n ELSE h3sCall.room)
      /\ call.pc = "body" /\ call.end = "" /\ call.trailers = h3sCall.trailers
  BY <1>1, <1>2, <1>5 DEF CallFields
<1>8. call \in CallFields
  <2>1. PICK g, f, m : g = h3sCall.got + n /\ f = h3sCall.frame - n
                       /\ m = (IF Bounded THEN h3sCall.room - n ELSE h3sCall.room)
    OBVIOUS
  <2>2. g \in Nat /\ f \in Nat /\ m \in Int BY <1>6, <2>1
  <2>3. call = [h3sCall EXCEPT !.got = g, !.frame = f, !.room = m]
    BY <1>2, <1>5, <2>1 DEF CallFields
  <2>. QED BY <1>2, <2>2, <2>3 DEF CallFields
<1>9. Unchecked(call, h3sWire', i)
  <2>1. PICK d : d = h3sWire[i].n OBVIOUS
  <2>2. d \in Int BY <1>3, <2>1, H3sConstants DEF AnswerStands, AnswerAt
  <2>3. /\ Carried(h3sWire) = h3sCall.got + h3sCall.frame
        /\ h3sCall.room = IF d = -1 THEN -1 ELSE d - h3sCall.got
        /\ h3sCall.room >= -1 /\ (d # -1 => h3sCall.room >= 0)
        /\ AnswerAt(h3sWire, i) /\ (h3sCall.trailers \/ NoTrailers(h3sWire))
    BY <1>3, <2>1 DEF AnswerStands, Measured
  <2>. PICK g, r, m : g = h3sCall.got /\ r = h3sCall.frame /\ m = h3sCall.room OBVIOUS
  <2>8. g \in Nat /\ r \in Nat /\ m \in Int /\ call.got = g + n /\ call.frame = r - n
        /\ call.room = (IF Bounded THEN m - n ELSE m) /\ n \in Nat
    BY <1>6, <1>7
  <2>9. Bounded <=> m >= 0 BY DEF Bounded
  <2>4. Carried(h3sWire) = call.got + call.frame
    <3>1. Carried(h3sWire) = g + r BY <2>3
    <3>2. (g + n) + (r - n) = g + r BY <2>8
    <3>. QED BY <2>8, <3>1, <3>2
  <2>5. d = -1 => (~Bounded /\ call.room = -1)
    <3>1. d = -1 => m = -1 BY <2>3
    <3>. QED BY <2>8, <2>9, <3>1
  <2>6. d # -1 => (Bounded /\ call.room = d - call.got /\ call.room >= 0)
    <3>1. d # -1 => (m = d - g /\ m >= 0) BY <2>3
    <3>2. Bounded => n <= m BY <1>4
    <3>3. d # -1 => (call.room = m - n /\ n <= m) BY <2>8, <2>9, <3>1, <3>2
    <3>. QED BY <2>2, <2>8, <2>9, <3>1, <3>3
  <2>7. call.room >= -1 /\ call.room = (IF d = -1 THEN -1 ELSE d - call.got)
    BY <2>2, <2>5, <2>6, <1>8 DEF CallFields
  <2>. QED BY <1>1, <1>7, <2>1, <2>3, <2>4, <2>6, <2>7 DEF Unchecked
<1>10. Settles(call) BY <1>4, <1>5
<1>. QED BY <1>1, <1>2, <1>7, <1>8, <1>9, <1>10, SettlesRight

LEMMA NextIsDataRight ==
  ASSUME H3sInv, NEW length \in 0..H3sMaxLength, NextIsData(length)
  PROVE  H3sInv'
<1>1. /\ h3sCall.pc = "body" /\ h3sCall.frame = 0 /\ UNCHANGED h3sUp
      /\ h3sWire' = Append(h3sWire, [is |-> "data", n |-> length])
  BY DEF NextIsData, Parses
<1>2. /\ h3sStr \in SideRec /\ h3sCall \in CallFields /\ h3sWire \in Seq(FrameRec)
      /\ h3sCall.end = ""
      /\ \E i \in DOMAIN h3sWire : AnswerStands(h3sCall, h3sWire, i)
  BY <1>1, BodyStands
<1>3. length \in Nat BY H3sConstants
<1>4. PICK f : f = [is |-> "data", n |-> length] OBVIOUS
<1>5. f \in FrameRec /\ f.is = "data" /\ InFrame(f) = length /\ h3sWire' = Append(h3sWire, f)
  BY <1>1, <1>3, <1>4 DEF FrameRec, H3sFrames, InFrame
<1>6. h3sWire' \in Seq(FrameRec)
  <2>1. h3sWire \in Seq(FrameRec) /\ f \in FrameRec BY <1>2, <1>5
  <2>2. Append(h3sWire, f) \in Seq(FrameRec) BY <2>1, FramesMore
  <2>. QED BY <1>5, <2>2
<1>7. CASE h3sCall.trailers
  <2>1. ExchangeFails /\ h3sStr' = h3sStr BY <1>7 DEF NextIsData
  <2>2. Turned(h3sStr, h3sStr') BY <1>2, <2>1, CancelsTurn
  <2>. QED BY <1>1, <1>6, <2>1, <2>2, H3sFails
<1>8. CASE ~h3sCall.trailers
  <2>1. PICK i \in DOMAIN h3sWire : AnswerStands(h3sCall, h3sWire, i) BY <1>2
  <2>2. PICK call : call = [h3sCall EXCEPT !.frame = length] OBVIOUS
  <2>3. Settles(call) BY <1>8, <2>2 DEF NextIsData
  <2>4. call \in CallFields /\ call.pc = "body" /\ call.end = "" /\ call.got = h3sCall.got
        /\ call.frame = length /\ call.room = h3sCall.room
    BY <1>1, <1>2, <1>3, <2>2 DEF CallFields
  <2>5. AnswerAt(h3sWire, i) /\ NoTrailers(h3sWire) /\ Measured(h3sCall, h3sWire, h3sWire[i].n)
    BY <1>8, <2>1 DEF AnswerStands
  <2>6. AnswerAt(Append(h3sWire, f), i) /\ Append(h3sWire, f)[i] = h3sWire[i]
        /\ NoTrailers(Append(h3sWire, f))
    BY <1>2, <1>5, <2>5, AnswerGoesOn
  <2>7. Carried(Append(h3sWire, f)) = Carried(h3sWire) + length
    BY <1>2, <1>5, CarriedOne
  <2>8. Carried(Append(h3sWire, f)) = call.got + call.frame
    <3>1. Carried(h3sWire) = h3sCall.got + 0 BY <1>1, <2>5 DEF Measured
    <3>2. h3sCall.got \in Nat BY <1>2 DEF CallFields
    <3>3. PICK g \in Nat : g = h3sCall.got BY <3>2
    <3>4. Carried(h3sWire) = g BY <3>1, <3>3
    <3>5. call.got = g /\ call.frame = length BY <2>4, <3>3
    <3>. QED BY <2>7, <3>4, <3>5
  <2>9. Unchecked(call, Append(h3sWire, f), i)
    BY <1>2, <2>4, <2>5, <2>6, <2>8 DEF Unchecked, Measured, Bounded
  <2>10. i \in DOMAIN Append(h3sWire, f) BY <2>6 DEF AnswerAt
  <2>11. \E k \in DOMAIN h3sWire' : Unchecked(call, h3sWire', k)
    BY <1>5, <2>9, <2>10, Zenon
  <2>. QED BY <1>1, <1>6, <2>3, <2>4, <2>11, SettlesRight
<1>. QED BY <1>7, <1>8

LEMMA NextIsTrailersRight ==
  ASSUME H3sInv, NextIsTrailers
  PROVE  H3sInv'
<1>1. /\ h3sCall.pc = "body" /\ h3sCall.frame = 0 /\ UNCHANGED <<h3sStr, h3sUp>>
      /\ h3sWire' = Append(h3sWire, [is |-> "trailers", n |-> 0])
  BY DEF NextIsTrailers, Parses
<1>2. /\ h3sStr \in SideRec /\ h3sUp \in UpRec /\ h3sCall \in CallFields
      /\ h3sWire \in Seq(FrameRec) /\ h3sCall.end = ""
      /\ \E i \in DOMAIN h3sWire : AnswerStands(h3sCall, h3sWire, i)
  BY <1>1, BodyStands
<1>4. PICK f : f = [is |-> "trailers", n |-> 0] OBVIOUS
<1>5. f \in FrameRec /\ f.is = "trailers" /\ InFrame(f) = 0 /\ h3sWire' = Append(h3sWire, f)
  BY <1>1, <1>4 DEF FrameRec, H3sFrames, InFrame
<1>6. h3sWire' \in Seq(FrameRec)
  <2>1. h3sWire \in Seq(FrameRec) /\ f \in FrameRec BY <1>2, <1>5
  <2>2. Append(h3sWire, f) \in Seq(FrameRec) BY <2>1, FramesMore
  <2>. QED BY <1>5, <2>2
<1>7. CASE h3sCall.trailers
  <2>1. ExchangeFails BY <1>7 DEF NextIsTrailers
  <2>2. Turned(h3sStr, h3sStr') BY <1>1, <1>2, CancelsTurn
  <2>. QED BY <1>1, <1>6, <2>1, <2>2, H3sFails
<1>8. CASE ~h3sCall.trailers
  <2>1. PICK i \in DOMAIN h3sWire : AnswerStands(h3sCall, h3sWire, i) BY <1>2
  <2>2. h3sCall' = [h3sCall EXCEPT !.trailers = TRUE] BY <1>8 DEF NextIsTrailers
  <2>4. h3sCall' \in CallFields /\ h3sCall'.pc = "body" /\ h3sCall'.end = ""
        /\ h3sCall'.got = h3sCall.got /\ h3sCall'.frame = h3sCall.frame
        /\ h3sCall'.room = h3sCall.room /\ h3sCall'.trailers
    BY <1>1, <1>2, <2>2 DEF CallFields
  <2>5. AnswerAt(h3sWire, i) /\ NoTrailers(h3sWire) /\ Measured(h3sCall, h3sWire, h3sWire[i].n)
    BY <1>8, <2>1 DEF AnswerStands
  <2>6. AnswerAt(Append(h3sWire, f), i) /\ Append(h3sWire, f)[i] = h3sWire[i]
    BY <1>2, <1>5, <2>5, AnswerGoesOn
  <2>7. Carried(Append(h3sWire, f)) = Carried(h3sWire)
    <3>1. Carried(Append(h3sWire, f)) = Carried(h3sWire) + InFrame(f)
          /\ Carried(h3sWire) \in Int
      BY <1>2, <1>5, CarriedOne
    <3>. QED BY <1>5, <3>1
  <2>8. Measured(h3sCall', Append(h3sWire, f), h3sWire[i].n)
    BY <2>4, <2>5, <2>7 DEF Measured
  <2>9. AnswerStands(h3sCall', Append(h3sWire, f), i)
    BY <2>4, <2>6, <2>8 DEF AnswerStands
  <2>10. i \in DOMAIN Append(h3sWire, f) BY <2>6 DEF AnswerAt
  <2>11. \E k \in DOMAIN h3sWire' : AnswerStands(h3sCall', h3sWire', k)
    BY <1>5, <2>9, <2>10, Zenon
  <2>12. H3sAnswer(h3sCall', h3sWire') BY <2>4, <2>11 DEF H3sAnswer
  <2>. QED BY <1>1, <1>2, <1>6, <2>4, <2>12 DEF H3sInv, H3sTyped, H3sStarts, H3sUpload
<1>. QED BY <1>7, <1>8

LEMMA H3sBodyEnds ==
  ASSUME H3sInv,
         \/ NextIsBadTrailers \/ AnswerEnds \/ AnswerFails \/ ClosesBody
         \/ \E what \in {"settings", "reserved"} : NextIsNoFrame(what)
  PROVE  H3sInv'
<1>1. h3sStr \in SideRec /\ h3sUp \in UpRec /\ h3sCall \in CallFields
      /\ h3sWire \in Seq(FrameRec)
  BY DEF H3sInv, H3sTyped
<1>2. CASE NextIsBadTrailers
  <2>1. Turned(h3sStr, h3sStr') /\ UNCHANGED h3sUp
    BY <1>1, <1>2, CancelsTurn DEF NextIsBadTrailers
  <2>2. "invalid" \in H3sFrames /\ 0 \in Int /\ Parses("invalid", 0)
    BY <1>2 DEF NextIsBadTrailers, H3sFrames
  <2>3. h3sWire' \in Seq(FrameRec) BY <2>2, H3sParses
  <2>. QED BY <1>2, <2>1, <2>3, H3sFails DEF NextIsBadTrailers
<1>3. CASE AnswerEnds
  <2>1. h3sCall.pc = "body" /\ h3sCall' = [h3sCall EXCEPT !.pc = "over", !.end = "eof"]
        /\ UNCHANGED <<h3sStr, h3sUp, h3sWire>>
    BY <1>3 DEF AnswerEnds
  <2>2. PICK i \in DOMAIN h3sWire : AnswerStands(h3sCall, h3sWire, i) BY <2>1, BodyStands
  <2>3. h3sCall' \in CallFields /\ h3sCall'.pc = "over"
        /\ h3sCall'.got = h3sCall.got /\ h3sCall'.frame = h3sCall.frame
        /\ h3sCall'.room = h3sCall.room /\ h3sCall'.trailers = h3sCall.trailers
    BY <1>1, <2>1 DEF CallFields, H3sPlaces, H3sEnds
  <2>4. AnswerStands(h3sCall', h3sWire', i) BY <2>1, <2>2, <2>3 DEF AnswerStands, Measured
  <2>5. H3sAnswer(h3sCall', h3sWire') BY <2>1, <2>3, <2>4 DEF H3sAnswer
  <2>. QED BY <1>1, <2>1, <2>3, <2>5 DEF H3sInv, H3sTyped, H3sStarts, H3sUpload
<1>4. CASE AnswerFails
  <2>1. Turned(h3sStr, h3sStr') /\ UNCHANGED h3sUp /\ h3sWire' \in Seq(FrameRec)
    BY <1>1, <1>4, CancelsTurn DEF AnswerFails
  <2>. QED BY <1>4, <2>1, H3sFails DEF AnswerFails
<1>5. CASE ClosesBody
  <2>1. h3sCall.pc = "body" /\ h3sCall' = [h3sCall EXCEPT !.pc = "over"]
        /\ h3sStr' = CancelRead(h3sStr) /\ UNCHANGED <<h3sUp, h3sWire>>
    BY <1>5 DEF ClosesBody
  <2>2. Turned(h3sStr, h3sStr') BY <1>1, <2>1, CancelsTurn
  <2>3. h3sCall.end = "" BY <2>1, BodyStands
  <2>4. h3sCall' \in CallFields /\ h3sCall'.pc = "over" /\ h3sCall'.end = ""
    BY <1>1, <2>1, <2>3 DEF CallFields, H3sPlaces
  <2>. QED BY <1>1, <2>1, <2>2, <2>4, H3sGivesUp
<1>6. ASSUME NEW what \in {"settings", "reserved"}, NextIsNoFrame(what) PROVE H3sInv'
  <2>1. Turned(h3sStr, h3sStr') /\ UNCHANGED h3sUp
    BY <1>1, <1>6, CancelsTurn DEF NextIsNoFrame
  <2>2. what \in H3sFrames /\ 0 \in Int /\ Parses(what, 0)
    BY <1>6 DEF NextIsNoFrame, H3sFrames
  <2>3. h3sWire' \in Seq(FrameRec) BY <2>2, H3sParses
  <2>. QED BY <1>6, <2>1, <2>3, H3sFails DEF NextIsNoFrame
<1>. QED BY <1>2, <1>3, <1>4, <1>5, <1>6

-----------------------------------------------------------------------------
(* The request's body: its end is sent only at the end of its source.       *)
LEMMA H3sUploads ==
  ASSUME H3sInv, CopiesOne \/ SourceEnds \/ SourceFails \/ SourceGoesOn
  PROVE  H3sInv'
<1>1. h3sStr \in SideRec /\ h3sUp \in UpRec /\ h3sCall \in CallFields
      /\ h3sWire \in Seq(FrameRec) /\ H3sUpload(h3sUp, h3sStr)
  BY DEF H3sInv, H3sTyped
<1>2. h3sUp.pc \in {"copy", "extra"} /\ h3sCall.pc \notin {"shake", "send"}
      /\ UNCHANGED <<h3sCall, h3sWire>>
  BY DEF H3sInv, H3sStarts, CopiesOne, SourceEnds, SourceFails, SourceGoesOn, UploadEnds
<1>3. h3sUp.length \in Int /\ h3sUp.sent \in Nat BY <1>1, H3sConstants DEF UpRec
<1>4. SUFFICES h3sUp' \in UpRec /\ h3sStr' \in SideRec /\ H3sUpload(h3sUp', h3sStr')
  BY <1>1, <1>2 DEF H3sInv, H3sTyped, H3sStarts
<1>5. CASE CopiesOne /\ Writable
  <2>1. PICK k : k = h3sUp.sent + 1 OBVIOUS
  <2>2. PICK p : p = IF k = h3sUp.length THEN "extra" ELSE "copy" OBVIOUS
  <2>3. h3sUp' = [h3sUp EXCEPT !.sent = k, !.pc = p] /\ h3sStr' = h3sStr /\ h3sUp.pc = "copy"
        /\ h3sStr.write = "open"
    BY <1>5, <2>1, <2>2 DEF CopiesOne, Writable, Limit
  <2>4. h3sUp' \in UpRec /\ h3sUp'.sent = k /\ h3sUp'.pc = p /\ h3sUp'.length = h3sUp.length
    <3>1. k \in Nat /\ p \in H3sUpPlaces BY <1>3, <2>1, <2>2 DEF H3sUpPlaces
    <3>. QED BY <1>1, <2>3, <3>1 DEF UpRec
  <2>5. h3sUp.length > 0 => h3sUp.sent < h3sUp.length BY <1>1, <2>3 DEF H3sUpload
  <2>6. h3sUp.length > 0 => (k <= h3sUp.length /\ (k # h3sUp.length => k < h3sUp.length))
    <3>1. PICK l \in Int : l = h3sUp.length BY <1>3
    <3>2. PICK s \in Nat : s = h3sUp.sent BY <1>3
    <3>3. (l > 0 => s < l) /\ k = s + 1 BY <2>1, <2>5, <3>1, <3>2, Zenon
    <3>4. l > 0 => (k <= l /\ (k # l => k < l)) BY <3>3
    <3>. QED BY <3>1, <3>4, Zenon
  <2>. QED BY <1>1, <2>2, <2>3, <2>4, <2>6 DEF H3sUpload
<1>6. CASE CopiesOne /\ ~Writable
  <2>1. h3sUp' = [h3sUp EXCEPT !.pc = "over"] /\ h3sStr' = h3sStr BY <1>6 DEF CopiesOne
  <2>2. h3sUp' \in UpRec /\ h3sUp'.sent = h3sUp.sent /\ h3sUp'.pc = "over"
        /\ h3sUp'.length = h3sUp.length /\ h3sUp'.source = h3sUp.source
    BY <1>1, <2>1 DEF UpRec, H3sUpPlaces
  <2>. QED BY <1>1, <1>2, <2>1, <2>2 DEF H3sUpload
<1>7. CASE SourceEnds
  <2>1. h3sUp' = [h3sUp EXCEPT !.pc = "over", !.source = "eof"]
        /\ h3sStr' = [h3sStr EXCEPT !.write = IF @ = "open" THEN "fin" ELSE @]
    BY <1>7 DEF SourceEnds, UploadEnds
  <2>2. h3sUp' \in UpRec /\ h3sUp'.sent = h3sUp.sent /\ h3sUp'.pc = "over"
        /\ h3sUp'.length = h3sUp.length /\ h3sUp'.source = "eof"
    BY <1>1, <2>1 DEF UpRec, H3sUpPlaces, H3sSources
  <2>3. h3sStr' \in SideRec BY <1>1, <2>1 DEF SideRec, H3sWrites
  <2>. QED BY <1>1, <2>2, <2>3 DEF H3sUpload
<1>8. CASE SourceFails \/ SourceGoesOn
  <2>1. PICK e \in {"error", "open"} : h3sUp' = [h3sUp EXCEPT !.pc = "over", !.source = e]
    BY <1>8 DEF SourceFails, SourceGoesOn, UploadEnds
  <2>2. h3sStr' = CancelWrite(h3sStr) BY <1>8 DEF SourceFails, SourceGoesOn
  <2>3. h3sUp' \in UpRec /\ h3sUp'.sent = h3sUp.sent /\ h3sUp'.pc = "over"
        /\ h3sUp'.length = h3sUp.length
    BY <1>1, <2>1 DEF UpRec, H3sUpPlaces, H3sSources
  <2>4. h3sStr.write # "fin" BY <1>1, <1>2 DEF H3sUpload
  <2>5. h3sStr' \in SideRec /\ h3sStr'.write # "fin"
    BY <1>1, <2>2, <2>4, CancelsTurn DEF Turned
  <2>. QED BY <1>1, <2>3, <2>5 DEF H3sUpload
<1>. QED BY <1>5, <1>6, <1>7, <1>8

(* The context, its watcher and the server turn the stream alone.           *)
LEMMA H3sTurns ==
  ASSUME H3sInv,
         \/ ContextEnds \/ WatchCancels \/ WatchEnds
         \/ ServerEnds \/ ServerResets \/ ServerStops \/ ConnEnded \/ UNCHANGED h3sVars
  PROVE  H3sInv'
<1>1. h3sStr \in SideRec BY DEF H3sInv, H3sTyped
<1>2. ASSUME ServerEnds \/ ServerResets \/ ServerStops PROVE H3sInv'
  <2>1. Turned(h3sStr, h3sStr')
    BY <1>1, <1>2 DEF ServerEnds, ServerResets, ServerStops, ServerTurns, Turned, SideRec,
                      H3sReads, H3sWrites
  <2>2. UNCHANGED <<h3sCall, h3sUp, h3sWire>>
    BY <1>2 DEF ServerEnds, ServerResets, ServerStops, ServerTurns
  <2>. QED BY <2>1, <2>2, H3sQuiet
<1>3. ASSUME ContextEnds \/ WatchEnds \/ UNCHANGED h3sVars PROVE H3sInv'
  <2>1. UNCHANGED <<h3sStr, h3sCall, h3sUp, h3sWire>>
    BY <1>3 DEF ContextEnds, WatchEnds, h3sVars
  <2>2. Turned(h3sStr, h3sStr') BY <1>1, <2>1, CancelsTurn
  <2>. QED BY <2>1, <2>2, H3sQuiet
<1>4. ASSUME WatchCancels \/ ConnEnded PROVE H3sInv'
  <2>1. Turned(h3sStr, h3sStr') BY <1>1, <1>4, CancelsTurn DEF WatchCancels, ConnEnded
  <2>2. UNCHANGED <<h3sCall, h3sUp, h3sWire>> BY <1>4 DEF WatchCancels, ConnEnded
  <2>. QED BY <2>1, <2>2, H3sQuiet
<1>. QED BY <1>2, <1>3, <1>4

LEMMA H3sInitial == H3sInit => H3sInv
<1>. SUFFICES ASSUME H3sInit PROVE H3sInv
  OBVIOUS
<1>1. PICK n \in H3sBodies :
        h3sUp = [pc |-> "none", length |-> n, sent |-> 0, source |-> "open"]
  BY DEF H3sInit
<1>2. /\ h3sCall = [pc |-> "shake", early |-> 0, room |-> -1, frame |-> 0, trailers |-> FALSE,
                    got |-> 0, end |-> ""]
      /\ h3sStr = [read |-> "open", write |-> "open", connUp |-> TRUE] /\ h3sWire = <<>>
  BY DEF H3sInit
<1>3. h3sCall \in CallFields
  <2>1. -1 \in Int /\ 0 \in Nat OBVIOUS
  <2>. QED BY <1>2, <2>1 DEF CallFields, H3sPlaces, H3sEnds
<1>4. h3sUp \in UpRec BY <1>1 DEF UpRec, H3sUpPlaces, H3sSources
<1>5. h3sStr \in SideRec BY <1>2 DEF SideRec, H3sReads, H3sWrites
<1>6. h3sWire \in Seq(FrameRec) /\ DOMAIN h3sWire = {}
  <2>1. <<>> \in Seq(FrameRec) /\ DOMAIN <<>> = {} OBVIOUS
  <2>. QED BY <1>2, <2>1, Zenon
<1>7. Carried(h3sWire) = 0
  <2>1. PICK f : f = [is |-> "data", n |-> 0] OBVIOUS
  <2>2. f \in FrameRec BY <2>1 DEF FrameRec, H3sFrames
  <2>. QED BY <1>2, <1>6, <2>2, CarriedOne
<1>8. H3sAnswer(h3sCall, h3sWire)
  BY <1>2, <1>6, <1>7 DEF H3sAnswer
<1>9. H3sUpload(h3sUp, h3sStr)
  <2>1. n \in Int BY H3sConstants
  <2>2. n > 0 => 0 <= n BY <2>1
  <2>3. h3sUp.length = n /\ h3sUp.sent = 0 /\ h3sUp.pc = "none" /\ h3sStr.write = "open"
    BY <1>1, <1>2
  <2>. QED BY <2>2, <2>3 DEF H3sUpload
<1>. QED BY <1>1, <1>3, <1>4, <1>5, <1>6, <1>8, <1>9 DEF H3sInv, H3sTyped, H3sStarts

(* A clean end of an answer is reported only over the frames of an answer,  *)
(* in their order and with nothing beyond the length it declared; and the   *)
(* server is told of a request's end only at the end of its source, with no *)
(* more than declared - for any number of frames and any bodies (body.go,   *)
(* request_writer.go).                                                      *)
THEOREM EndsAreHonest == H3sSpec => []EndsAreTrue
<1>1. ASSUME H3sInv, [H3sNext]_h3sVars PROVE H3sInv'
  BY <1>1, H3sHeads, H3sAnswers, ReadsOnRight, NextIsDataRight, NextIsTrailersRight,
     H3sBodyEnds, H3sUploads, H3sTurns DEF H3sNext
<1>. QED BY <1>1, H3sInitial, EndsFromInv, PTL DEF H3sSpec
=============================================================================
