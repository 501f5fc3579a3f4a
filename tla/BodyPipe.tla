------------------------------ MODULE BodyPipe ------------------------------
(***************************************************************************)
(* A request body the caller's threads write while the request is in       *)
(* flight (internal/client/bodypipe.go, lib/bodystream.go): the register   *)
(* of bodies, the pipe, End with its trailers, Abort, and the transport    *)
(* that reads.  io.Pipe is external: a write is over when it has been      *)
(* read, or when either side has closed.                                   *)
(***************************************************************************)
EXTENDS Integers, FiniteSets

CONSTANT BpThreads  (* the caller's threads                                  *)

ASSUME BpAssumption == IsFiniteSet(BpThreads) /\ 0 \notin BpThreads

VARIABLES bpPipe,     (* the pipe: open, or how it was closed first          *)
          bpThread,   (* the caller's threads                                *)
          bpBody,     (* the BodyPipe and its place in bodies                *)
          bpReader,   (* the transport's side                                *)
          bpRequest   (* the request, and the dropBody at its end            *)

bpVars == <<bpPipe, bpThread, bpBody, bpReader, bpRequest>>

Trailers == {"none", "some"}

(* writer: who holds the pipe's write lock with bytes on offer.  ended,     *)
(* pending: fields of BodyPipe; map: what the request's trailer map holds.  *)
(* Ghost spoiled: an End was refused for its trailers.                      *)
BpTypeOK ==
  /\ bpPipe \in [state: {"open", "end", "error", "closed"}, writer: BpThreads \cup {0}]
  /\ bpThread \in [BpThreads -> {"idle", "found", "write", "leaving", "ending", "closing"}]
  /\ bpBody \in [registered: BOOLEAN, ended: BOOLEAN, pending: Trailers, map: Trailers,
                 spoiled: BOOLEAN]
  /\ bpReader \in {"waits", "reads", "eof", "end", "error", "closed"}
  /\ bpRequest \in {"running", "over", "aborting", "closing", "dropped"}

BpInit ==
  /\ bpPipe = [state |-> "open", writer |-> 0]
  /\ bpThread = [t \in BpThreads |-> "idle"]
  /\ bpBody = [registered |-> TRUE, ended |-> FALSE, pending |-> "none", map |-> "none",
               spoiled |-> FALSE]
  /\ bpReader = "waits" /\ bpRequest = "running"

-----------------------------------------------------------------------------
BpAt(t, pc) == bpThread' = [bpThread EXCEPT ![t] = pc]
BpClose(how) == bpPipe' = [bpPipe EXCEPT !.state = IF @ = "open" THEN how ELSE @]

(* curlpro_request_body_write: lookupBody, then Write's look at ended, then *)
(* the pipe.                                                                *)
WriteFinds(t) ==
  /\ bpThread[t] = "idle" /\ bpBody.registered
  /\ BpAt(t, "found") /\ UNCHANGED <<bpPipe, bpBody, bpReader, bpRequest>>

WriteBegins(t) ==
  /\ bpThread[t] = "found"
  /\ BpAt(t, IF bpBody.ended THEN "idle" ELSE "write")
  /\ UNCHANGED <<bpPipe, bpBody, bpReader, bpRequest>>

WriteOffers(t) ==
  /\ bpThread[t] = "write" /\ bpPipe = [state |-> "open", writer |-> 0]
  /\ bpPipe' = [bpPipe EXCEPT !.writer = t]
  /\ UNCHANGED <<bpThread, bpBody, bpReader, bpRequest>>

(* The pipe is closed: the write in progress, and one that waits for the    *)
(* lock behind it, return an error.                                         *)
WriteFails(t) ==
  /\ bpThread[t] = "write" /\ bpPipe.state # "open" /\ bpPipe.writer \in {0, t}
  /\ bpPipe' = [bpPipe EXCEPT !.writer = 0] /\ BpAt(t, "idle")
  /\ UNCHANGED <<bpBody, bpReader, bpRequest>>

(* curlpro_request_body_end: lookupBody, then, the lock taken again, the    *)
(* body leaves the register, so that a request that is over from here on    *)
(* does not abort it.                                                       *)
EndFinds(t) ==
  /\ bpThread[t] = "idle" /\ bpBody.registered
  /\ BpAt(t, "leaving") /\ UNCHANGED <<bpPipe, bpBody, bpReader, bpRequest>>

EndLeaves(t) ==
  /\ bpThread[t] = "leaving" /\ BpAt(t, "ending")
  /\ bpBody' = [bpBody EXCEPT !.registered = FALSE]
  /\ UNCHANGED <<bpPipe, bpReader, bpRequest>>

(* End under its lock.  A trailer that may not be one is refused after the  *)
(* body has been marked ended, and the pipe stays open.                     *)
EndMarks(t) ==
  /\ bpThread[t] = "ending"
  /\ \/ bpBody.ended /\ BpAt(t, "idle") /\ UNCHANGED bpBody
     \/ /\ ~bpBody.ended /\ BpAt(t, "idle")
        /\ bpBody' = [bpBody EXCEPT !.ended = TRUE, !.spoiled = TRUE]
     \/ /\ ~bpBody.ended /\ BpAt(t, "closing")
        /\ \E tr \in Trailers : bpBody' = [bpBody EXCEPT !.ended = TRUE, !.pending = tr]
  /\ UNCHANGED <<bpPipe, bpReader, bpRequest>>

EndCloses(t) ==
  /\ bpThread[t] = "closing" /\ BpClose("end") /\ BpAt(t, "idle")
  /\ UNCHANGED <<bpBody, bpReader, bpRequest>>

-----------------------------------------------------------------------------
(* The transport reads when flow control lets it, and closes its side when  *)
(* the request is over before the body is.                                  *)
ReadBegins ==
  /\ bpReader = "waits" /\ bpReader' = "reads"
  /\ UNCHANGED <<bpPipe, bpThread, bpBody, bpRequest>>

ReadTakes ==
  /\ bpReader = "reads" /\ bpPipe.state = "open" /\ bpPipe.writer # 0
  /\ bpReader' = "waits"
  /\ BpAt(bpPipe.writer, "idle") /\ bpPipe' = [bpPipe EXCEPT !.writer = 0]
  /\ UNCHANGED <<bpBody, bpRequest>>

ReadEnds ==
  /\ bpReader = "reads" /\ bpPipe.state \in {"end", "error"}
  /\ bpReader' = IF bpPipe.state = "end" THEN "eof" ELSE "error"
  /\ UNCHANGED <<bpPipe, bpThread, bpBody, bpRequest>>

(* bodyPipeReader.Read at the end of the body, still inside the Read.       *)
ReadMerges ==
  /\ bpReader = "eof" /\ bpReader' = "end"
  /\ bpBody' = [bpBody EXCEPT !.map = IF bpBody.pending = "none" THEN @ ELSE bpBody.pending,
                              !.pending = "none"]
  /\ UNCHANGED <<bpPipe, bpThread, bpRequest>>

ReaderCloses ==
  /\ bpReader \in {"waits", "reads", "end", "error"} /\ bpReader' = "closed"
  /\ BpClose("closed") /\ UNCHANGED <<bpThread, bpBody, bpRequest>>

-----------------------------------------------------------------------------
(* The request has its whole response, has failed -- perhaps before a       *)
(* transport had the body --, or its stream was closed.                     *)
RequestOver ==
  /\ bpRequest = "running" /\ bpRequest' = "over"
  /\ UNCHANGED <<bpPipe, bpThread, bpBody, bpReader>>

(* Mutant of DropBody: a body the caller has looked up is his to end.       *)
DropBodyOnly ==
  /\ bpRequest = "over" /\ bpRequest' = "dropped"
  /\ bpBody' = [bpBody EXCEPT !.registered = FALSE]
  /\ UNCHANGED <<bpPipe, bpThread, bpReader>>

DropBody ==
  /\ bpRequest = "over"
  /\ bpRequest' = IF bpBody.registered THEN "aborting" ELSE "dropped"
  /\ bpBody' = [bpBody EXCEPT !.registered = FALSE]
  /\ UNCHANGED <<bpPipe, bpThread, bpReader>>

(* Abort: ended under its lock, then the pipe, unless End was first.        *)
AbortMarks ==
  /\ bpRequest = "aborting" /\ bpRequest' = "closing"
  /\ bpBody' = [bpBody EXCEPT !.ended = TRUE]
  /\ UNCHANGED <<bpPipe, bpThread, bpReader>>

AbortCloses ==
  /\ bpRequest = "closing" /\ bpRequest' = "dropped"
  /\ BpClose("error") /\ UNCHANGED <<bpThread, bpBody, bpReader>>

BpSteps(t) ==
  \/ WriteBegins(t) \/ WriteOffers(t) \/ WriteFails(t)
  \/ EndLeaves(t) \/ EndMarks(t) \/ EndCloses(t)

BpNext ==
  \/ \E t \in BpThreads : WriteFinds(t) \/ EndFinds(t) \/ BpSteps(t)
  \/ ReadBegins \/ ReadTakes \/ ReadEnds \/ ReadMerges \/ ReaderCloses
  \/ RequestOver \/ DropBody \/ AbortMarks \/ AbortCloses

-----------------------------------------------------------------------------
(* A thread in a write returns once the request is over, wherever it was    *)
(* when the body was dropped: "it is aborted, so a write in progress        *)
(* returns instead of blocking" (bodystream.go, dropBody).  The exception   *)
(* is a body whose End was refused, which nobody aborts any more.           *)
WriterReturns ==
  \A t \in BpThreads :
    []<>(bpRequest # "running" /\ bpThread[t] \in {"found", "write"} => bpBody.spoiled)

=============================================================================
