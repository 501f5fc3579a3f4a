----------------------------- MODULE Completions ----------------------------
(***************************************************************************)
(* The Python side of the asynchronous calls (curlpro/_completions.py):    *)
(* one thread takes the numbers of finished calls and hands them to the    *)
(* event loop, where each call is a task that starts the work, registers a *)
(* future for it and awaits that.  The host of AsyncCalls is one of two:   *)
(* an event loop on the handle, or this.                                   *)
(***************************************************************************)
EXTENDS AsyncCalls

VARIABLES task,      (* each call's task and its future                      *)
          waiters,   (* Completions._waiters: the calls a future waits for   *)
          stash,     (* Completions._ready: results set aside                *)
          reaper,    (* the thread: what it does, with which number          *)
          callbacks  (* the event loop's queue of callbacks, in order        *)

pyVars == <<task, waiters, stash, reaper, callbacks>>
completionsVars == <<asyncVars, pyVars>>

(* doomed: cancelled after the future had its result, before the task ran.  *)
(* spilt: the result was taken for a future that could no longer have it    *)
(* (history, nothing reads it).                                             *)
TaskRecord == [pc: {"new", "started", "await", "forgot", "over"},
               future: {"none", "pending", "ok", "err", "cancelled"},
               doomed: BOOLEAN, spilt: BOOLEAN]

CompletionsTypes ==
  /\ AsyncTypes
  /\ task \in [Calls -> TaskRecord]
  /\ waiters \subseteq Calls /\ stash \subseteq Calls
  /\ reaper \in [pc: {"off", "check", "wait", "got", "deliver"}, n: Calls \cup {NoCall}]
  /\ callbacks \in Seq([do: {"settle", "resume"}, n: Calls])

CompletionsInit ==
  /\ AsyncInit
  /\ task = [c \in Calls |-> [pc |-> "new", future |-> "none",
                              doomed |-> FALSE, spilt |-> FALSE]]
  /\ waiters = {} /\ stash = {}
  /\ reaper = [pc |-> "off", n |-> NoCall]
  /\ callbacks = <<>>

-----------------------------------------------------------------------------
(* The event loop: one callback or task step at a time.  A task that has    *)
(* started its work registers, and one that forgot it cancels the native    *)
(* call, before the loop turns to anything else.                            *)

Idle == host = "python" /\ \A c \in Calls : task[c].pc \notin {"started", "forgot"}
Soon(what, c) == callbacks' = Append(callbacks, [do |-> what, n |-> c])
Due(what, c) == /\ Idle /\ callbacks # <<>>
                /\ Head(callbacks) = [do |-> what, n |-> c]

NativeOnly == UNCHANGED <<host, ready, interims, raisers, event, loop>>

StartTask(c) ==
  /\ Idle /\ Started(c)
  /\ task' = [task EXCEPT ![c].pc = "started"]
  /\ NativeOnly /\ UNCHANGED <<waiters, stash, reaper, callbacks>>

(* Completions.register, under its lock: the result is here already, and    *)
(* the task goes on at once; or the future waits, and the thread runs.      *)
RegisterReady(c) ==
  /\ host = "python" /\ task[c].pc = "started" /\ c \in stash
  /\ stash' = stash \ {c}
  /\ task' = [task EXCEPT ![c].pc = "over", ![c].future = "ok"]
  /\ Become(c, [call[c] EXCEPT !.outcome = "delivered"])
  /\ NativeOnly /\ UNCHANGED <<waiters, reaper, callbacks>>

(* Mutant of Register: the thread is started only by the first call.        *)
RegisterWithoutThread(c) ==
  /\ host = "python" /\ task[c].pc = "started" /\ c \notin stash
  /\ task' = [task EXCEPT ![c].pc = "await", ![c].future = "pending"]
  /\ waiters' = waiters \cup {c}
  /\ reaper' = IF reaper.pc = "off" /\ \A d \in Calls : task[d].pc # "over"
               THEN [pc |-> "check", n |-> NoCall] ELSE reaper
  /\ UNCHANGED <<asyncVars, stash, callbacks>>

Register(c) ==
  /\ host = "python" /\ task[c].pc = "started" /\ c \notin stash
  /\ task' = [task EXCEPT ![c].pc = "await", ![c].future = "pending"]
  /\ waiters' = waiters \cup {c}
  /\ reaper' = IF reaper.pc = "off" THEN [pc |-> "check", n |-> NoCall] ELSE reaper
  /\ UNCHANGED <<asyncVars, stash, callbacks>>

(* Somebody cancels the task: its future too, unless it has its result.     *)
CancelTask(c) ==
  /\ Idle /\ task[c].pc = "await" /\ ~task[c].doomed
  /\ IF task[c].future = "pending"
     THEN /\ task' = [task EXCEPT ![c].future = "cancelled"]
          /\ Soon("resume", c)
     ELSE /\ task[c].future \in {"ok", "err"}
          /\ task' = [task EXCEPT ![c].doomed = TRUE]
          /\ UNCHANGED callbacks
  /\ UNCHANGED <<asyncVars, waiters, stash, reaper>>

(* _settle, when the task was cancelled while its result was on the way:    *)
(* the result is taken and dropped.                                         *)
SettleLate(c) ==
  /\ Due("settle", c) /\ task[c].future # "pending"
  /\ Become(c, IF Takeable(c) THEN TakenCall(call[c]) ELSE call[c])
  /\ task' = [task EXCEPT ![c].spilt = @ \/ Takeable(c)]
  /\ callbacks' = Tail(callbacks)
  /\ NativeOnly /\ UNCHANGED <<waiters, stash, reaper>>

(* _settle: the result or its error goes to the future.                     *)
Settle(c) ==
  /\ Due("settle", c) /\ task[c].future = "pending" /\ Takeable(c)
  /\ Become(c, TakenCall(call[c]))
  /\ task' = [task EXCEPT ![c].future = call[c].result]
  /\ callbacks' = Append(Tail(callbacks), [do |-> "resume", n |-> c])
  /\ NativeOnly /\ UNCHANGED <<waiters, stash, reaper>>

(* settle() goes on with the future's outcome.                              *)
Resume(c) ==
  /\ Due("resume", c) /\ task[c].future \in {"ok", "err"} /\ ~task[c].doomed
  /\ task' = [task EXCEPT ![c].pc = "over"]
  /\ Become(c, [call[c] EXCEPT !.outcome = "delivered"])
  /\ callbacks' = Tail(callbacks)
  /\ NativeOnly /\ UNCHANGED <<waiters, stash, reaper>>

(* settle() is cancelled: Completions.forget...                             *)
Forget(c) ==
  /\ Due("resume", c) /\ (task[c].future = "cancelled" \/ task[c].doomed)
  /\ task' = [task EXCEPT ![c].pc = "forgot"]
  /\ waiters' = waiters \ {c} /\ stash' = stash \ {c}
  /\ callbacks' = Tail(callbacks)
  /\ UNCHANGED <<asyncVars, reaper>>

(* Mutant of CancelNative: what the future already holds is not closed.     *)
CancelNativeOnly(c) ==
  /\ host = "python" /\ task[c].pc = "forgot"
  /\ Become(c, [CancelledCall(call[c]) EXCEPT !.outcome = "abandoned"])
  /\ task' = [task EXCEPT ![c].pc = "over"]
  /\ NativeOnly /\ UNCHANGED <<waiters, stash, reaper, callbacks>>

(* ... then curlpro_request_cancel, and the caller's closer for a result    *)
(* that the future holds (on_orphan).                                       *)
CancelNative(c) ==
  /\ host = "python" /\ task[c].pc = "forgot"
  /\ LET told == CancelledCall(call[c])
         rec == IF task[c].future = "ok" THEN Discarded(told) ELSE told
     IN Become(c, [rec EXCEPT !.outcome = "abandoned"])
  /\ task' = [task EXCEPT ![c].pc = "over"]
  /\ NativeOnly /\ UNCHANGED <<waiters, stash, reaper, callbacks>>

-----------------------------------------------------------------------------
(* The thread.  Its lock is held from the look at the waiters to the hand-  *)
(* over to _ready.                                                          *)

Reaps(pc) == host = "python" /\ reaper.pc = pc
Turns(pc) == reaper' = [pc |-> pc, n |-> NoCall]

ReaperExit ==
  /\ Reaps("check") /\ waiters = {} /\ stash = {}
  /\ Turns("off")
  /\ UNCHANGED <<asyncVars, task, waiters, stash, callbacks>>

ReaperStays ==
  /\ Reaps("check") /\ (waiters # {} \/ stash # {})
  /\ Turns("wait")
  /\ UNCHANGED <<asyncVars, task, waiters, stash, callbacks>>

(* curlpro_result_wait: a number, or none within 250 ms (there is no event  *)
(* to lower).                                                               *)
ReaperGets ==
  /\ Reaps("wait") /\ ready # <<>>
  /\ reaper' = [pc |-> "got", n |-> Head(ready)]
  /\ ready' = Tail(ready)
  /\ UNCHANGED <<host, call, interims, raisers, event, loop, task, waiters, stash,
                 callbacks>>

ReaperTimesOut ==
  /\ Reaps("wait") /\ ready = <<>>
  /\ Turns("check")
  /\ UNCHANGED <<asyncVars, task, waiters, stash, callbacks>>

ReaperFindsWaiter ==
  /\ Reaps("got") /\ reaper.n \in waiters
  /\ waiters' = waiters \ {reaper.n}
  /\ reaper' = [reaper EXCEPT !.pc = "deliver"]
  /\ UNCHANGED <<asyncVars, task, stash, callbacks>>

(* No waiter: the result is taken and set aside - unless the take raises,   *)
(* as it does for a call no longer there and for a result that is an error. *)
ReaperSetsAside ==
  /\ Reaps("got") /\ reaper.n \notin waiters
  /\ LET c == reaper.n
     IN /\ Become(c, IF Takeable(c) THEN TakenCall(call[c]) ELSE call[c])
        /\ stash' = IF Takeable(c) /\ call[c].result = "ok" THEN stash \cup {c} ELSE stash
  /\ Turns("check")
  /\ NativeOnly /\ UNCHANGED <<task, waiters, callbacks>>

(* call_soon_threadsafe; when it fails the thread tries again.              *)
ReaperDelivers ==
  /\ Reaps("deliver")
  /\ Soon("settle", reaper.n)
  /\ Turns("check")
  /\ UNCHANGED <<asyncVars, task, waiters, stash>>

-----------------------------------------------------------------------------
Reaper == ReaperExit \/ ReaperStays \/ ReaperGets \/ ReaperTimesOut
          \/ ReaperFindsWaiter \/ ReaperSetsAside \/ ReaperDelivers

LoopTurn(c) == RegisterReady(c) \/ Register(c) \/ SettleLate(c) \/ Settle(c)
               \/ Resume(c) \/ Forget(c) \/ CancelNative(c)

CompletionsNext ==
  \/ AsyncNext /\ UNCHANGED pyVars
  \/ \E c \in Calls : StartTask(c) \/ LoopTurn(c) \/ CancelTask(c)
  \/ Reaper

CompletionsSpec == CompletionsInit /\ [][CompletionsNext]_completionsVars

(* Goroutines and threads run on, the event loop does what is due in it,    *)
(* of senders that block on the queue some one is served whenever there may *)
(* be room (each sends a bounded number of times, so all are), and the work *)
(* ends: a request has its limits, a read ends with its stream.  Nothing is *)
(* assumed of starts, 1xx responses and cancellations.                      *)
Forward(c) == Work(c) \/ WorkOpens(c) \/ Finish(c) \/ Discard(c) \/ Signal(c)
Sends == \E c \in Calls : Queue(c) \/ QueueInterim(c)

-----------------------------------------------------------------------------
(* Properties                                                              *)

(* A future that waits can still be reached: its call is pending natively,  *)
(* the thread has its number to deliver, or its settling is due (_once,     *)
(* _settle).                                                                *)
WaiterIsReachable ==
  \A c \in Calls : task[c].future = "pending" =>
    /\ call[c].kept
    /\ \/ c \in waiters
       \/ reaper.pc = "deliver" /\ reaper.n = c
       \/ \E i \in DOMAIN callbacks : callbacks[i] = [do |-> "settle", n |-> c]

(* Every await ends, in whatever order the work, its registration, the      *)
(* thread and the loop's callbacks fall, and whether or not the thread had  *)
(* just ended (register restarts it).                                       *)
EveryAwaitSettles ==
  \A c \in Calls : []<>(task[c].pc # "await")

(* On Python too every result still to be taken is announced exactly once:  *)
(* its number is in the queue, on its way to it, in the thread's hand or in *)
(* the callback that settles the future.  So no result is delivered twice,  *)
(* and none is left that nobody has been told of.                           *)
PythonAnnouncedOnce ==
  \A c \in Calls : host = "python" /\ call[c].kept =>
    Copies(c, ready) + (IF call[c].pc = "queue" THEN 1 ELSE 0)
      + (IF reaper.pc \in {"got", "deliver"} /\ reaper.n = c THEN 1 ELSE 0)
      + Copies([do |-> "settle", n |-> c], callbacks)
    = IF call[c].done THEN 1 ELSE 0

(* While a future waits the thread runs (register restarts one that ended). *)
ThreadListens == waiters # {} => reaper.pc # "off"

(* A result is settled into a future once, so what the future of a doomed   *)
(* task holds is closed by its closer and by nobody else.                   *)
OrphanIsClosed ==
  \A c \in Calls : task[c].pc = "over" /\ task[c].future = "ok" =>
    (call[c].handle = "open" => call[c].outcome = "delivered")

(* HandleHasOwner as Python's side has it.  Two results lose their owner,   *)
(* both of a future cancelled before it had one: the result that _settle    *)
(* takes and drops, and the one the thread sets aside between forget and    *)
(* curlpro_request_cancel, when no task will register for it any more.  No  *)
(* other handle is lost.                                                    *)
PythonHandlesOwned ==
  \A c \in Calls : host = "python" /\ call[c].handle = "open" =>
    \/ call[c].outcome \in {"running", "delivered"}
    \/ call[c].pc \in {"finish", "discard"}
    \/ task[c].future = "cancelled" /\ (task[c].spilt \/ c \in stash)

(* Whatever the order of goroutines, thread and loop, on either host a      *)
(* result is announced once and someone listens, and what a call opened has *)
(* an owner, but for the two results a Python cancellation loses (async.go, *)
(* readyevent.go, _completions.py).                                         *)
NothingIsLost ==
  /\ CompletionsTypes /\ ResultsKept
  /\ PythonAnnouncedOnce /\ ThreadListens /\ OrphanIsClosed /\ PythonHandlesOwned
=============================================================================
