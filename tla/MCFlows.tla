------------------------------ MODULE MCFlows -------------------------------
(***************************************************************************)
(* The components that never meet and must get somewhere, in one run: the  *)
(* part that moves is chosen in the initial state, and the others stay as  *)
(* they begin.                                                             *)
(***************************************************************************)
EXTENDS H3Transport, H1Exchange, BodyPipe, QpackDecoder, RequestPath, Completions

CONSTANT Parts  (* which of them this run is about *)

(* A host on the event may get any result of an asynchronous call; Python   *)
(* one that is no error, the run AsyncError is about those.                 *)
PythonOk == [h \in {"event", "python"} |-> IF h = "event" THEN {"ok", "err"} ELSE {"ok"}]

VARIABLE part

Vars == <<part, h3Vars, h1Vars, bpVars, qpVars, rpVars, completionsVars>>

Init ==
  /\ part \in Parts
  /\ H3Init /\ H1Init /\ BpInit /\ QpInit
  /\ RPInit /\ CompletionsInit
  (* The choice an asynchronous host begins with is made for that part alone. *)
  /\ part # "async" => host = "event"

OthersRest(moves) ==
  /\ UNCHANGED part
  /\ moves # "h3" => UNCHANGED h3Vars
  /\ moves # "h1" => UNCHANGED h1Vars
  /\ moves # "body" => UNCHANGED bpVars
  /\ moves # "qpack" => UNCHANGED qpVars
  /\ moves # "request" => UNCHANGED rpVars
  /\ moves # "async" => UNCHANGED completionsVars

Next ==
  \/ part = "h3" /\ H3Next /\ OthersRest("h3")
  \/ part = "h1" /\ H1Next /\ OthersRest("h1")
  \/ part = "body" /\ BpNext /\ OthersRest("body")
  \/ part = "qpack" /\ QpNext /\ OthersRest("qpack")
  \/ part = "request" /\ RPNext /\ OthersRest("request")
  \/ part = "async" /\ CompletionsNext /\ OthersRest("async")

Spec == Init /\ [][Next]_Vars

(* Only the part that moves owes progress: a step the others never take must *)
(* not make every behaviour unfair.                                          *)
FairSpec ==
  /\ Spec
  (* A request in progress goes on, and its stream ends: the peer answers or  *)
  (* the request's time runs out.  A dial ends within the handshake timeout.  *)
  /\ \A q \in H3Requests : WF_h3Vars(part = "h3" /\ H3Moves(q))
  /\ \A c \in H3Conns : /\ WF_h3Vars(part = "h3" /\ (H3DialUp(c) \/ H3DialFails(c)))
                        /\ WF_h3Vars(part = "h3" /\ GoAwayLooks(c))
  /\ WF_h3Vars(part = "h3" /\ H3CloseEnds)
  (* The goroutines run; the server promises nothing.                         *)
  /\ WF_h1Vars(part = "h1" /\ H1Client) /\ WF_h1Vars(part = "h1" /\ CancelsRead)
  /\ WF_h1Vars(part = "h1" /\ BodyWatchStarts) /\ WF_h1Vars(part = "h1" /\ BodyWatchRuns)
  (* Threads and goroutines run; nothing makes the transport read.            *)
  /\ \A t \in BpThreads : WF_bpVars(part = "body" /\ BpSteps(t))
  /\ WF_bpVars(part = "body" /\ (DropBody \/ AbortMarks \/ AbortCloses))
  (* What the server has sent arrives unless the connection ends, and the     *)
  (* goroutines run on.                                                       *)
  /\ WF_qpVars(part = "qpack" /\ Reads) /\ WF_qpVars(part = "qpack" /\ DecoderCloses)
  /\ \A s \in QpStreams : WF_qpVars(part = "qpack" /\ Decodes(s))
  (* Goroutines run on; dials end, QUIC's by its handshake limit, and so do   *)
  (* exchanges, by the request's limits.  Nothing is assumed of the caller.   *)
  /\ \A i \in Requests : WF_rpVars(part = "request" /\ Progress(i))
  /\ WF_rpVars(part = "request" /\ Leftover)
  (* Goroutines, threads and the event loop run; of senders blocked on the    *)
  (* queue some one is served whenever there may be room.                     *)
  /\ \A c \in Calls : WF_completionsVars(part = "async" /\ Forward(c) /\ UNCHANGED pyVars)
  /\ SF_completionsVars(part = "async" /\ Sends /\ UNCHANGED pyVars)
  /\ WF_completionsVars(part = "async" /\ SignalInterim /\ UNCHANGED pyVars)
  /\ WF_completionsVars(part = "async" /\ EventLoop /\ UNCHANGED pyVars)
  /\ WF_completionsVars(part = "async" /\ \E c \in Calls : LoopTurn(c))
  /\ WF_completionsVars(part = "async" /\ Reaper)

(* The type invariant of the part that moves. *)
FlowsTypeOK ==
  /\ part = "h3" => H3TypeOK
  /\ part = "h1" => H1TypeOK
  /\ part = "body" => BpTypeOK
  /\ part = "qpack" => QpTypeOK
  /\ part = "request" => RPTypes
=============================================================================
