----------------------------- MODULE H1Exchange -----------------------------
(***************************************************************************)
(* One pooled HTTP/1.1 connection and the requests it serves one after     *)
(* another (internal/client/conn.go): Expect: 100-continue, the wait for   *)
(* the headers, the body, the cancellation that reaches a blocked read by  *)
(* its deadline, and the watch kept on the connection while it is idle.    *)
(* The server answers what it reads, in order, early if it likes, and may  *)
(* give the connection up with a 408 nobody asked for (number 0).          *)
(***************************************************************************)
EXTENDS Integers, Sequences

CONSTANT H1Last  (* bound: requests on the connection, numbered from 1       *)

ASSUME H1Assumption == H1Last \in Nat \ {0}

VARIABLES h1Conn,    (* conn: dead, the socket, its read deadline in the past *)
          h1In,      (* what the server has sent and nobody has read         *)
          h1Out,     (* what it has been sent and has not read               *)
          h1Req,     (* the request that has the connection, or had it last  *)
          h1Watch,   (* the body's cancellation watch; goroutines let go     *)
          h1Server   (* the request it is at, and whether it waits for a body*)

h1Vars == <<h1Conn, h1In, h1Out, h1Req, h1Watch, h1Server>>

(* "more": an interim response other than the 100, or the first bytes of a  *)
(* head, which its reader waits past.                                       *)
Unit(n, part) == [of |-> n, part |-> part]
InterimParts == {"100", "more"}
H1Units == [of: 0..H1Last, part: InterimParts \cup {"head", "body", "expect"}]

H1TypeOK ==
  /\ h1Conn \in [dead: BOOLEAN, open: BOOLEAN, past: BOOLEAN,
                 idle: {"off", "peeking", "reported"}]
  /\ h1In \in Seq(H1Units) /\ h1Out \in Seq(H1Units)
  /\ h1Req \in [n: 0..H1Last, cancelled: BOOLEAN, complete: BOOLEAN, stray: BOOLEAN,
                pc: {"idle", "write", "await", "reply", "read", "got", "body", "back"}]
  /\ h1Watch \in [body: {"off", "armed", "started"}, late: 0..H1Last]
  /\ h1Server \in [n: 0..H1Last, owes: BOOLEAN, said: SUBSET InterimParts,
                   sent: {"nothing", "head", "all"}]

(* Fresh from the dial, busy with its first request (newConn, connect).     *)
H1Init ==
  /\ h1Conn = [dead |-> FALSE, open |-> TRUE, past |-> FALSE, idle |-> "off"]
  /\ h1In = <<>> /\ h1Out = <<>>
  /\ h1Req = [n |-> 1, cancelled |-> FALSE, complete |-> FALSE, stray |-> FALSE, pc |-> "write"]
  /\ h1Watch = [body |-> "off", late |-> 0]
  /\ h1Server = [n |-> 0, owes |-> FALSE, said |-> {}, sent |-> "all"]

-----------------------------------------------------------------------------
H1At(pc) == h1Req' = [h1Req EXCEPT !.pc = pc]
H1Dead == h1Conn' = [h1Conn EXCEPT !.dead = TRUE]

(* The exchange has failed: the connection is dead and goes back.           *)
H1Fails == H1Dead /\ H1At("back")

H1Ended == ~h1Conn.open /\ h1In = <<>>
H1Stray(u) == h1Req.stray \/ u.of \notin {0, h1Req.n}

(* The deadline of the context, if it has one, goes on the socket; then the *)
(* whole request; or, with Expect, its header block alone.                  *)
H1Writes ==
  /\ h1Req.pc = "write"
  /\ \/ /\ H1At("read") /\ h1Out' = Append(h1Out, Unit(h1Req.n, "head"))
        /\ \E past \in {FALSE, h1Conn.past} : h1Conn' = [h1Conn EXCEPT !.past = past]
     \/ /\ H1At("await") /\ h1Out' = Append(h1Out, Unit(h1Req.n, "expect"))
        /\ h1Conn' = [h1Conn EXCEPT !.past = FALSE]
     \/ (h1Conn.dead \/ ~h1Conn.open) /\ H1Fails /\ UNCHANGED h1Out
  /\ UNCHANGED <<h1In, h1Watch, h1Server>>

(* awaitContinue: the Peek, under the wait's deadline and the watch of the  *)
(* context.  Silence, and the body goes; the first bytes of a reply, and    *)
(* the watch is stopped and the context's deadline put back; an error or    *)
(* the cancellation.                                                        *)
AwaitSilence ==
  /\ h1Req.pc = "await" /\ ~h1Req.cancelled
  /\ h1Conn.past \/ (h1In = <<>> /\ h1Conn.open)
  /\ h1Out' = Append(h1Out, Unit(h1Req.n, "body")) /\ H1At("read")
  /\ h1Conn' = [h1Conn EXCEPT !.past = FALSE]
  /\ UNCHANGED <<h1In, h1Watch, h1Server>>

AwaitWord ==
  /\ h1Req.pc = "await" /\ ~h1Req.cancelled /\ h1In # <<>>
  /\ H1At("reply") /\ h1Conn' = [h1Conn EXCEPT !.past = FALSE]
  /\ UNCHANGED <<h1In, h1Out, h1Watch, h1Server>>

AwaitFails ==
  /\ h1Req.pc = "await" /\ (h1Req.cancelled \/ H1Ended) /\ H1Fails
  /\ UNCHANGED <<h1In, h1Out, h1Watch, h1Server>>

(* Its loop of http.ReadResponse, which no cancellation interrupts: a 100,  *)
(* and the body goes; anything else interim is waited past; a final         *)
(* response, and the body never goes, so that the connection is dead.       *)
ReplyContinue ==
  /\ h1Req.pc = "reply" /\ h1In # <<>> /\ Head(h1In).part = "100"
  /\ h1In' = Tail(h1In) /\ h1Out' = Append(h1Out, Unit(h1Req.n, "body"))
  /\ h1Req' = [h1Req EXCEPT !.pc = "read", !.stray = H1Stray(Head(h1In))]
  /\ UNCHANGED <<h1Conn, h1Watch, h1Server>>

ReplyFinal ==
  /\ h1Req.pc = "reply" /\ h1In # <<>> /\ Head(h1In).part \notin InterimParts
  /\ h1In' = Tail(h1In) /\ H1Dead
  /\ h1Req' = [h1Req EXCEPT !.pc = "body", !.stray = H1Stray(Head(h1In))]
  /\ h1Watch' = [h1Watch EXCEPT !.body = "armed"]
  /\ UNCHANGED <<h1Out, h1Server>>

ReplyFails ==
  /\ h1Req.pc = "reply" /\ (h1Conn.past \/ H1Ended) /\ H1Fails
  /\ UNCHANGED <<h1In, h1Out, h1Watch, h1Server>>

(* What ended the context was its own deadline, which the socket has too.   *)
LimitEndsReply ==
  /\ h1Req.pc = "reply" /\ h1Req.cancelled /\ H1Fails
  /\ UNCHANGED <<h1In, h1Out, h1Watch, h1Server>>

(* readResponse: interim responses are skipped; awaitContinue waits past    *)
(* those that are no 100.                                                   *)
ReadSkips ==
  /\ h1In # <<>>
  /\ \/ h1Req.pc = "read" /\ Head(h1In).part \in InterimParts
     \/ h1Req.pc = "reply" /\ Head(h1In).part = "more"
  /\ h1In' = Tail(h1In) /\ h1Req' = [h1Req EXCEPT !.stray = H1Stray(Head(h1In))]
  /\ UNCHANGED <<h1Conn, h1Out, h1Watch, h1Server>>

ReadHead ==
  /\ h1Req.pc = "read" /\ h1In # <<>> /\ Head(h1In).part \notin InterimParts
  /\ h1In' = Tail(h1In)
  /\ h1Req' = [h1Req EXCEPT !.pc = "got", !.stray = H1Stray(Head(h1In))]
  /\ UNCHANGED <<h1Conn, h1Out, h1Watch, h1Server>>

ReadFails ==
  /\ h1Req.pc = "read" /\ (h1Conn.past \/ H1Ended) /\ H1Fails
  /\ UNCHANGED <<h1In, h1Out, h1Watch, h1Server>>

(* The watcher of the wait for the headers, which roundTrip waits for.      *)
CancelsRead ==
  /\ h1Req.pc = "read" /\ h1Req.cancelled /\ ~h1Conn.past
  /\ h1Conn' = [h1Conn EXCEPT !.past = TRUE]
  /\ UNCHANGED <<h1In, h1Out, h1Req, h1Watch, h1Server>>

(* Mutant of HeadersIn: a response that is there is returned even though    *)
(* the context has ended, and the watch over its body begins before the     *)
(* deadline is put back.                                                    *)
HeadersInLate ==
  /\ h1Req.pc = "got" /\ H1At("body")
  /\ h1Conn' = [h1Conn EXCEPT !.past = FALSE]
  /\ h1Watch' = [h1Watch EXCEPT !.body = IF h1Req.cancelled THEN "off" ELSE "armed"]
  /\ UNCHANGED <<h1In, h1Out, h1Server>>

(* The deadline put back, whatever the watcher did; a context that has      *)
(* ended is an error; then finish, with Connection: close or without.       *)
HeadersIn ==
  /\ h1Req.pc = "got"
  /\ \/ /\ h1Req.cancelled /\ H1At("back")
        /\ h1Conn' = [h1Conn EXCEPT !.past = FALSE, !.dead = TRUE] /\ UNCHANGED h1Watch
     \/ /\ ~h1Req.cancelled /\ H1At("body")
        /\ \E close \in BOOLEAN :
             h1Conn' = [h1Conn EXCEPT !.past = FALSE, !.dead = @ \/ close]
        /\ h1Watch' = [h1Watch EXCEPT !.body = "armed"]
  /\ UNCHANGED <<h1In, h1Out, h1Server>>

(* context.AfterFunc of the body: a goroutine once the context has ended,   *)
(* which unwatch calls off only before it is started.                       *)
BodyWatchStarts ==
  /\ h1Watch.body = "armed" /\ h1Req.cancelled
  /\ h1Watch' = [h1Watch EXCEPT !.body = "started"]
  /\ UNCHANGED <<h1Conn, h1In, h1Out, h1Req, h1Server>>

BodyWatchRuns ==
  /\ h1Watch.body = "started" /\ h1Watch' = [h1Watch EXCEPT !.body = "off"]
  /\ h1Conn' = [h1Conn EXCEPT !.past = TRUE]
  /\ UNCHANGED <<h1In, h1Out, h1Req, h1Server>>

LateWatchRuns ==
  /\ h1Watch.late > 0 /\ h1Watch' = [h1Watch EXCEPT !.late = @ - 1]
  /\ h1Conn' = [h1Conn EXCEPT !.past = TRUE]
  /\ UNCHANGED <<h1In, h1Out, h1Req, h1Server>>

BodyRead ==
  /\ h1Req.pc = "body" /\ ~h1Req.complete /\ h1In # <<>>
  /\ h1In' = Tail(h1In)
  /\ h1Req' = [h1Req EXCEPT !.complete = TRUE, !.stray = H1Stray(Head(h1In))]
  /\ UNCHANGED <<h1Conn, h1Out, h1Watch, h1Server>>

Unwatched == [body |-> "off",
              late |-> h1Watch.late + (IF h1Watch.body = "started" THEN 1 ELSE 0)]

(* Mutant of CloseBody: what is left of the body is left on the wire.       *)
CloseBodyAsIs ==
  /\ H1At("back") /\ h1Watch' = Unwatched
  /\ UNCHANGED <<h1Conn, h1In, h1Out, h1Server>>

(* h1Body.Close: a body not read to its end takes the connection with it.   *)
CloseBody ==
  /\ H1At("back") /\ h1Watch' = Unwatched
  /\ h1Conn' = [h1Conn EXCEPT !.dead = @ \/ ~h1Req.complete,
                              !.open = @ /\ h1Req.complete]
  /\ UNCHANGED <<h1In, h1Out, h1Server>>

(* By a reader that has seen the end or an error; or that has enough.       *)
BodyEnds == /\ h1Req.pc = "body" /\ (h1Req.complete \/ h1Conn.past \/ H1Ended)
            /\ CloseBody
BodyAbandoned == h1Req.pc = "body" /\ CloseBody

Cancelled ==
  /\ h1Req.pc # "idle" /\ ~h1Req.cancelled
  /\ h1Req' = [h1Req EXCEPT !.cancelled = TRUE]
  /\ UNCHANGED <<h1Conn, h1In, h1Out, h1Watch, h1Server>>

-----------------------------------------------------------------------------
(* The connection handed back: closed when it is dead (Session.release),    *)
(* watched otherwise.                                                       *)
HandBack ==
  /\ h1Req.pc = "back" /\ H1At("idle")
  /\ h1Conn' = IF h1Conn.dead THEN [h1Conn EXCEPT !.open = FALSE]
               ELSE [h1Conn EXCEPT !.past = FALSE, !.idle = "peeking"]
  /\ UNCHANGED <<h1In, h1Out, h1Watch, h1Server>>

(* The pending Peek: bytes, or an end, mark it dead; a deadline in the past *)
(* only ends the watch.                                                     *)
PeekReturns ==
  /\ h1Conn.idle = "peeking" /\ (h1In # <<>> \/ H1Ended \/ h1Conn.past)
  /\ h1Conn' = [h1Conn EXCEPT !.idle = "reported", !.dead = @ \/ h1In # <<>> \/ ~h1Conn.past]
  /\ UNCHANGED <<h1In, h1Out, h1Req, h1Watch, h1Server>>

(* A pick of the pool, and endIdleWatch: the deadline wakes the Peek, which *)
(* may not have seen what has just come in, and is put back.                *)
PickedAgain ==
  /\ h1Req.pc = "idle" /\ ~h1Conn.dead /\ h1Req.n < H1Last
  /\ h1Conn' = [h1Conn EXCEPT !.idle = "off", !.past = FALSE]
  /\ h1Req' = [n |-> h1Req.n + 1, cancelled |-> FALSE, complete |-> FALSE, stray |-> FALSE,
               pc |-> "write"]
  /\ UNCHANGED <<h1In, h1Out, h1Watch, h1Server>>

-----------------------------------------------------------------------------
(* The server: a request whose body it still waits for takes the next thing *)
(* on the wire as that body.                                                *)
ServerReads ==
  /\ h1Conn.open /\ h1Out # <<>> /\ h1Out' = Tail(h1Out)
  /\ \/ /\ ~h1Server.owes /\ h1Server.sent = "all" /\ Head(h1Out).part # "body"
        /\ h1Server' = [n |-> Head(h1Out).of, owes |-> Head(h1Out).part = "expect",
                        said |-> {}, sent |-> "nothing"]
     \/ h1Server.owes /\ h1Server' = [h1Server EXCEPT !.owes = FALSE]
  /\ UNCHANGED <<h1Conn, h1In, h1Req, h1Watch>>

ServerSays(part) ==
  /\ h1Conn.open /\ h1Server.sent = "nothing" /\ part \notin h1Server.said
  /\ part = "100" => h1Server.owes
  /\ h1In' = Append(h1In, Unit(h1Server.n, part))
  /\ h1Server' = [h1Server EXCEPT !.said = @ \cup {part}]
  /\ UNCHANGED <<h1Conn, h1Out, h1Req, h1Watch>>

ServerAnswers ==
  /\ h1Conn.open
  /\ \/ h1Server.sent = "nothing" /\ h1In' = Append(h1In, Unit(h1Server.n, "head"))
        /\ h1Server' = [h1Server EXCEPT !.sent = "head"]
     \/ h1Server.sent = "head" /\ h1In' = Append(h1In, Unit(h1Server.n, "body"))
        /\ h1Server' = [h1Server EXCEPT !.sent = "all"]
  /\ UNCHANGED <<h1Conn, h1Out, h1Req, h1Watch>>

(* A 408 before it closes a connection that has been idle for too long.     *)
ServerGivesUp ==
  /\ h1Conn.open /\ h1Server.sent = "all" /\ ~h1Server.owes
  /\ h1In' = Append(h1In, Unit(0, "head")) /\ h1Conn' = [h1Conn EXCEPT !.open = FALSE]
  /\ UNCHANGED <<h1Out, h1Req, h1Watch, h1Server>>

ServerCloses ==
  /\ h1Conn.open /\ h1Conn' = [h1Conn EXCEPT !.open = FALSE]
  /\ UNCHANGED <<h1In, h1Out, h1Req, h1Watch, h1Server>>

H1Client ==
  \/ H1Writes \/ AwaitSilence \/ AwaitWord \/ AwaitFails
  \/ ReplyContinue \/ ReplyFinal \/ ReplyFails
  \/ ReadSkips \/ ReadHead \/ ReadFails \/ HeadersIn \/ BodyRead \/ BodyEnds \/ HandBack

H1Watches ==
  \/ CancelsRead \/ BodyWatchStarts \/ BodyWatchRuns \/ LateWatchRuns \/ PeekReturns

H1Next ==
  \/ H1Client \/ H1Watches \/ LimitEndsReply \/ BodyAbandoned \/ Cancelled \/ PickedAgain
  \/ ServerReads \/ (\E part \in InterimParts : ServerSays(part)) \/ ServerAnswers \/ ServerGivesUp \/ ServerCloses

H1Spec == H1Init /\ [][H1Next]_h1Vars

-----------------------------------------------------------------------------
(* No request reads a byte that was sent to another: not the rest of a body *)
(* its predecessor left, not the answer a server gave early, not a late 100 *)
(* (conn.go, roundTrip, awaitContinue, h1Body.Close).                       *)
OwnAnswer == ~h1Req.stray

(* A cancellation ends the read the request is in -- the wait for a reply   *)
(* to Expect, for the headers, the body -- although the deadline it works   *)
(* by is put back between them (conn.go, roundTrip and finish).  The read   *)
(* it does not reach is "reply", the rest of a reply to Expect that has     *)
(* begun (conn.go, awaitContinue): there only the context's own deadline is *)
(* on the socket.                                                           *)
CancelReaches == []<>~(h1Req.cancelled /\ h1Req.pc \in {"await", "read", "body"})
=============================================================================
