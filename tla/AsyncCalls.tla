------------------------------ MODULE AsyncCalls ----------------------------
(***************************************************************************)
(* The asynchronous calls of the C ABI (lib/async.go, lib/readyevent.go):  *)
(* the table of pending calls, the goroutine of each, the bounded queue of *)
(* finished numbers, the handle an event loop waits on, and a host with    *)
(* such a loop.  A call that opens a stream or a socket registers it       *)
(* before its result is announced (lib/stream.go, lib/websocket.go).       *)
(***************************************************************************)
EXTENDS Integers, Sequences, FiniteSets

CONSTANTS Calls,        (* the numbers calls get; each is given once         *)
          Opening,      (* those whose work opens a stream or a socket       *)
          WithInterims, (* those asked for with "interim_events"             *)
          Outcomes,     (* how the work of each host's calls may end         *)
          QueueCap,     (* room in the ready queue (1024 in the code)        *)
          MaxInterim,   (* bound: 1xx responses of a call                    *)
          NoCall

ASSUME AsyncAssumption ==
  /\ Opening \subseteq Calls /\ WithInterims \subseteq Calls /\ NoCall \notin Calls
  /\ QueueCap \in Nat \ {0} /\ MaxInterim \in Nat
  /\ Outcomes \in [{"event", "python"} -> SUBSET {"ok", "err"}]

VARIABLES host,       (* how this process waits: by the event, or as Python  *)
          call,       (* asyncPending and the calls' goroutines              *)
          ready,      (* asyncReady                                          *)
          interims,   (* goroutines that queue the number of a 1xx           *)
          raisers,    (* goroutines of 1xx responses about to raise the event*)
          event,      (* the handle: not made yet, down, or up               *)
          loop        (* the event loop: what it does, with which number     *)

asyncVars == <<host, call, ready, interims, raisers, event, loop>>

(* pc: the goroutine.  kept: the number is in asyncPending.  outcome: what  *)
(* the caller got.  handle: what the work opened.                           *)
CallRecord == [pc: {"new", "work", "finish", "queue", "signal", "discard", "over"},
               kept: BOOLEAN, done: BOOLEAN, dropped: BOOLEAN, events: 0..MaxInterim,
               seen: 0..MaxInterim, result: {"none", "ok", "err"},
               outcome: {"unused", "running", "delivered", "abandoned"},
               handle: {"none", "open", "closed"}]

NewCall == [pc |-> "new", kept |-> FALSE, done |-> FALSE, dropped |-> FALSE,
            events |-> 0, seen |-> 0, result |-> "none", outcome |-> "unused",
            handle |-> "none"]

AsyncTypes ==
  /\ host \in {"event", "python"}
  /\ call \in [Calls -> CallRecord]
  /\ ready \in Seq(Calls) /\ Len(ready) <= QueueCap
  /\ interims \in [Calls -> 0..MaxInterim]
  /\ raisers \in Nat
  /\ event \in {"none", "down", "up"}
  /\ loop \in [pc: {"make", "made", "sleep", "poll", "lower", "recheck", "take"},
               n: Calls \cup {NoCall}]

AsyncInit ==
  /\ host \in {"event", "python"}
  /\ call = [c \in Calls |-> NewCall]
  /\ ready = <<>>
  /\ interims = [c \in Calls |-> 0]
  /\ raisers = 0
  /\ event = "none"
  /\ loop = [pc |-> "make", n |-> NoCall]

-----------------------------------------------------------------------------
(* A call and its goroutine                                                *)

Become(c, fields) == call' = [call EXCEPT ![c] = fields]

(* startAsyncWith.                                                          *)
Started(c) ==
  /\ call[c].pc = "new"
  /\ Become(c, [call[c] EXCEPT !.pc = "work", !.kept = TRUE, !.outcome = "running"])

(* interimSender: a 1xx while the call is neither done nor given up.        *)
Interim(c) ==
  /\ host = "event" /\ c \in WithInterims
  /\ call[c].pc = "work" /\ ~call[c].dropped /\ call[c].seen < MaxInterim
  /\ Become(c, [call[c] EXCEPT !.events = @ + 1, !.seen = @ + 1])
  /\ interims' = [interims EXCEPT ![c] = @ + 1]
  /\ UNCHANGED <<host, ready, raisers, event, loop>>

(* The work, runGuarded: a result or an error.                              *)
Work(c) ==
  /\ call[c].pc = "work"
  /\ \E res \in Outcomes[host] :
       /\ c \in Opening => res = "err"
       /\ Become(c, [call[c] EXCEPT !.pc = "finish", !.result = res])
  /\ UNCHANGED <<host, ready, interims, raisers, event, loop>>

(* Work that opens a stream or a socket: it is in its table before there is *)
(* a result.                                                                *)
WorkOpens(c) ==
  /\ call[c].pc = "work" /\ c \in Opening
  /\ Become(c, [call[c] EXCEPT !.pc = "finish", !.result = "ok", !.handle = "open"])
  /\ UNCHANGED <<host, ready, interims, raisers, event, loop>>

(* Mutant of Finish: a result nobody wants is announced all the same.       *)
FinishAnyway(c) ==
  /\ call[c].pc = "finish"
  /\ Become(c, [call[c] EXCEPT !.pc = "queue", !.done = TRUE])
  /\ UNCHANGED <<host, ready, interims, raisers, event, loop>>

(* The result is kept, or nobody wants it any more.                         *)
Finish(c) ==
  /\ call[c].pc = "finish"
  /\ Become(c, IF call[c].dropped
               THEN [call[c] EXCEPT !.pc = "discard", !.done = TRUE, !.kept = FALSE]
               ELSE [call[c] EXCEPT !.pc = "queue", !.done = TRUE])
  /\ UNCHANGED <<host, ready, interims, raisers, event, loop>>

(* discard, for an abandoned result.                                        *)
Discarded(rec) == [rec EXCEPT !.handle = IF @ = "open" THEN "closed" ELSE @]

Discard(c) ==
  /\ call[c].pc = "discard"
  /\ Become(c, [Discarded(call[c]) EXCEPT !.pc = "over"])
  /\ UNCHANGED <<host, ready, interims, raisers, event, loop>>

(* The number is queued - the goroutine blocks while there is no room -     *)
(* and the event raised after that.                                         *)
Queued(c) == Len(ready) < QueueCap /\ ready' = Append(ready, c)

Raised == IF event = "none" THEN "none" ELSE "up"

Queue(c) ==
  /\ call[c].pc = "queue" /\ Queued(c)
  /\ Become(c, [call[c] EXCEPT !.pc = "signal"])
  /\ UNCHANGED <<host, interims, raisers, event, loop>>

Signal(c) ==
  /\ call[c].pc = "signal"
  /\ event' = Raised
  /\ Become(c, [call[c] EXCEPT !.pc = "over"])
  /\ UNCHANGED <<host, ready, interims, raisers, loop>>

QueueInterim(c) ==
  /\ interims[c] > 0 /\ Queued(c)
  /\ interims' = [interims EXCEPT ![c] = @ - 1]
  /\ raisers' = raisers + 1
  /\ UNCHANGED <<host, call, event, loop>>

SignalInterim ==
  /\ raisers > 0
  /\ raisers' = raisers - 1
  /\ event' = Raised
  /\ UNCHANGED <<host, call, ready, interims, loop>>

-----------------------------------------------------------------------------
(* The exports                                                             *)

(* curlpro_request_cancel.                                                  *)
CancelledCall(rec) ==
  IF ~rec.kept THEN rec
  ELSE IF ~rec.done THEN [rec EXCEPT !.dropped = TRUE]
       ELSE Discarded([rec EXCEPT !.kept = FALSE])

(* curlpro_result_take, on a call that is finished and still there.         *)
Takeable(c) == call[c].kept /\ call[c].done /\ call[c].events = 0
TakenCall(rec) == [rec EXCEPT !.kept = FALSE]

(* curlpro_stream_close, curlpro_ws_close by the caller it was handed to.   *)
CloseHandle(c) ==
  /\ call[c].outcome = "delivered" /\ call[c].handle = "open"
  /\ Become(c, Discarded(call[c]))
  /\ UNCHANGED <<host, ready, interims, raisers, event, loop>>

-----------------------------------------------------------------------------
(* A host with an event loop: wait on the handle, take until 0, wait again *)

LoopAt(pc) == host = "event" /\ loop.pc = pc
Moves(pc) == loop' = [loop EXCEPT !.pc = pc]

(* curlpro_result_event: made, then raised if calls had finished before.    *)
MakeEvent ==
  /\ LoopAt("make") /\ Moves("made")
  /\ event' = "down"
  /\ UNCHANGED <<host, call, ready, interims, raisers>>

(* Mutant of EventMade: what was queued before the handle was is forgotten. *)
EventMadeDown ==
  /\ LoopAt("made") /\ Moves("sleep")
  /\ UNCHANGED <<host, call, ready, interims, raisers, event>>

EventMade ==
  /\ LoopAt("made") /\ Moves("sleep")
  /\ event' = IF ready = <<>> THEN event ELSE "up"
  /\ UNCHANGED <<host, call, ready, interims, raisers>>

HostStarts(c) ==
  /\ loop.pc \in {"make", "sleep"} /\ host = "event"
  /\ Started(c)
  /\ UNCHANGED <<host, ready, interims, raisers, event, loop>>

HostCancels(c) ==
  /\ LoopAt("sleep") /\ call[c].outcome = "running"
  /\ Become(c, [CancelledCall(call[c]) EXCEPT !.outcome = "abandoned"])
  /\ UNCHANGED <<host, ready, interims, raisers, event, loop>>

Wake ==
  /\ LoopAt("sleep") /\ event = "up"
  /\ Moves("poll")
  /\ UNCHANGED <<host, call, ready, interims, raisers, event>>

(* curlpro_result_wait(0): a number, or none - and then the event goes down *)
(* and, if a number came in between, up again.                              *)
Poll ==
  /\ LoopAt("poll")
  /\ IF ready = <<>> THEN Moves("lower") /\ UNCHANGED ready
     ELSE /\ loop' = [pc |-> "take", n |-> Head(ready)]
          /\ ready' = Tail(ready)
  /\ UNCHANGED <<host, call, interims, raisers, event>>

Lower ==
  /\ LoopAt("lower") /\ Moves("recheck")
  /\ event' = "down"
  /\ UNCHANGED <<host, call, ready, interims, raisers>>

Recheck ==
  /\ LoopAt("recheck") /\ Moves("sleep")
  /\ event' = IF ready = <<>> THEN event ELSE "up"
  /\ UNCHANGED <<host, call, ready, interims, raisers>>

(* curlpro_result_take for the number: a 1xx first, then the result, or an  *)
(* error for a call that was given up meanwhile.                            *)
TakeInterim(c) ==
  /\ LoopAt("take") /\ loop.n = c /\ call[c].kept /\ call[c].events > 0
  /\ Become(c, [call[c] EXCEPT !.events = @ - 1])
  /\ loop' = [pc |-> "poll", n |-> NoCall]
  /\ UNCHANGED <<host, ready, interims, raisers, event>>

TakeResult(c) ==
  /\ LoopAt("take") /\ loop.n = c /\ Takeable(c)
  /\ Become(c, [TakenCall(call[c]) EXCEPT !.outcome = "delivered"])
  /\ loop' = [pc |-> "poll", n |-> NoCall]
  /\ UNCHANGED <<host, ready, interims, raisers, event>>

TakeNothing(c) ==
  /\ LoopAt("take") /\ loop.n = c /\ ~call[c].kept
  /\ loop' = [pc |-> "poll", n |-> NoCall]
  /\ UNCHANGED <<host, call, ready, interims, raisers, event>>

-----------------------------------------------------------------------------
Goroutine(c) ==
  Work(c) \/ WorkOpens(c) \/ Finish(c) \/ Discard(c) \/ Queue(c) \/ Signal(c) \/ QueueInterim(c)

EventLoop ==
  \/ MakeEvent \/ EventMade \/ Wake \/ Poll \/ Lower \/ Recheck
  \/ \E c \in Calls : TakeInterim(c) \/ TakeResult(c) \/ TakeNothing(c)

AsyncNext ==
  \/ \E c \in Calls : Goroutine(c) \/ Interim(c) \/ CloseHandle(c)
                      \/ HostStarts(c) \/ HostCancels(c)
  \/ SignalInterim \/ EventLoop

-----------------------------------------------------------------------------
(* Properties                                                              *)

Copies(c, numbers) == Cardinality({i \in DOMAIN numbers : numbers[i] = c})

(* Every result still to be taken is announced exactly once: the numbers in *)
(* the queue, on their way to it and in the host's hand are as many as the  *)
(* call's 1xx responses and its result.  So a take of a number never finds  *)
(* a call unfinished (curlpro_result_take), and no result goes unannounced. *)
AnnouncedOnce ==
  \A c \in Calls : host = "event" /\ call[c].kept =>
    Copies(c, ready) + interims[c] + (IF call[c].pc = "queue" THEN 1 ELSE 0)
      + (IF loop.pc = "take" /\ loop.n = c THEN 1 ELSE 0)
    = call[c].events + (IF call[c].done THEN 1 ELSE 0)

(* A loop that sleeps with numbers in the queue will be woken: the event is *)
(* up or someone is about to raise it, however the lowering, the look at    *)
(* the queue and the sends fell together (readyevent.go, quietReady).       *)
NoSilentResult ==
  LoopAt("sleep") /\ ready # <<>> =>
    \/ event = "up" \/ raisers > 0
    \/ \E c \in Calls : call[c].pc = "signal"

(* What a call opened has someone left to close it, whoever waits for it:   *)
(* the caller it is or will be delivered to, or for an abandoned call its   *)
(* own goroutine (lib/stream.go, "otherwise the connection would stay busy  *)
(* for the life of the process").                                           *)
HandleHasOwner ==
  \A c \in Calls : call[c].handle = "open" =>
    \/ call[c].outcome \in {"running", "delivered"}
    \/ call[c].pc \in {"finish", "discard"}

(* For a host on the event a result is announced, noticed and owned until   *)
(* it is taken or closed.                                                   *)
ResultsKept == AnnouncedOnce /\ NoSilentResult /\ (host = "event" => HandleHasOwner)

(* One call, one result.                                                    *)
One == INSTANCE OneResult
         WITH outcome <- [c \in Calls |-> call[c].outcome],
              handle <- [c \in Calls |-> call[c].handle]
OneCallOneResult == One!Spec

(* A finished call's result reaches an event loop that goes on waiting,     *)
(* unless it gives the call up: none is due for ever (ready, handle_next).  *)
ResultsArrive ==
  \A c \in Calls :
    []<>(host = "event" /\ call[c].done => call[c].outcome \in {"delivered", "abandoned"})
=============================================================================
