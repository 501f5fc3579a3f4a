-------------------------- MODULE CompletionsProofs -------------------------
(***************************************************************************)
(* What threads that call the library at once do to what they share.       *)
(* NothingIsLost and the implementation of OneResult, for any number of    *)
(* calls, any queue and any number of 1xx responses, on either host; and   *)
(* the registry of profiles, for any files, batches and callers.           *)
(***************************************************************************)
EXTENDS Completions, ProfileRegistry, Inductions, FiniteSetTheorems, SequenceTheorems, TLAPS

-----------------------------------------------------------------------------
(* The invariant                                                           *)

Working == {"work", "finish"}

(* Where a call's goroutine is tells what it has made so far, on either     *)
(* host: a call still worked on is in the table, and one given up while it  *)
(* was is marked.                                                           *)
CallPlaced(c) ==
  /\ call[c].pc = "new" =>
       /\ call[c].outcome = "unused" /\ call[c].events = 0
       /\ ~call[c].kept /\ ~call[c].done /\ task[c].pc = "new"
  /\ call[c].outcome = "unused" => call[c].pc = "new"
  /\ call[c].pc \in {"new", "work"} => call[c].handle = "none"
  /\ call[c].pc \in Working => /\ call[c].kept /\ ~call[c].done
                               /\ call[c].dropped \/ call[c].outcome = "running"
  /\ call[c].pc \notin Working \cup {"new"} => call[c].done
  /\ call[c].pc = "discard" => call[c].dropped /\ ~call[c].kept
  /\ call[c].dropped => call[c].outcome = "abandoned"
  /\ call[c].outcome = "running" => call[c].handle # "closed"
  /\ call[c].events <= call[c].seen /\ interims[c] <= call[c].seen

(* A host on the event gives up what it takes out of the table.             *)
EventPlaced(c) ==
  host = "event" =>
    /\ task[c].pc = "new"
    /\ call[c].outcome = "running" => call[c].kept
    /\ call[c].kept /\ call[c].done => call[c].outcome = "running"

(* The numbers of a call that are about.                                    *)
Announced(c) ==
  Copies(c, ready) + interims[c] + (IF call[c].pc = "queue" THEN 1 ELSE 0)
    + (IF loop.pc = "take" /\ loop.n = c THEN 1 ELSE 0)

(* A call that has not begun has nothing announced, so that its first       *)
(* number is its only one.                                                  *)
Counted(c) ==
  host = "event" /\ (call[c].kept \/ call[c].pc = "new") =>
    Announced(c) = call[c].events + (IF call[c].done THEN 1 ELSE 0)

(* A task between its start and its end has a call nobody answered for; a   *)
(* result that is aside or in a future is of a call that has ended.         *)
TaskPlaced(c) ==
  /\ task[c].pc \in {"started", "await", "forgot"} => call[c].outcome = "running"
  /\ c \in stash \/ task[c].future \in {"ok", "err"} => call[c].done
  /\ task[c].future = "pending" => task[c].pc = "await"

(* A task is resumed once.                                                  *)
Resumes(i) == i \in DOMAIN callbacks /\ callbacks[i].do = "resume"

ResumedOnce ==
  /\ \A i \in DOMAIN callbacks : Resumes(i) =>
       task[callbacks[i].n].pc = "await" /\ task[callbacks[i].n].future # "pending"
  /\ \A i, j \in DOMAIN callbacks :
       Resumes(i) /\ Resumes(j) /\ callbacks[i].n = callbacks[j].n => i = j

(* The handle exists from the first step of the loop on.                    *)
EventMadeOnce == host = "event" /\ loop.pc # "make" => event # "none"

(* The types of the Python side: the thread has a number to deliver.        *)
PyTypes ==
  /\ task \in [Calls -> TaskRecord]
  /\ waiters \subseteq Calls /\ stash \subseteq Calls
  /\ reaper \in [pc: {"off", "check", "wait", "got", "deliver"}, n: Calls \cup {NoCall}]
  /\ reaper.pc \in {"got", "deliver"} => reaper.n \in Calls
  /\ callbacks \in Seq([do: {"settle", "resume"}, n: Calls])

Types == AsyncTypes /\ PyTypes

(* What the properties say of one call.                                     *)
Owned(c) ==
  /\ host = "event" /\ call[c].handle = "open" =>
       call[c].outcome \in {"running", "delivered"} \/ call[c].pc \in {"finish", "discard"}
  /\ task[c].pc = "over" /\ task[c].future = "ok" /\ call[c].handle = "open" =>
       call[c].outcome = "delivered"

InvOf(c) == CallPlaced(c) /\ EventPlaced(c) /\ Counted(c) /\ TaskPlaced(c) /\ Owned(c)

CompletionsInv ==
  /\ Types
  /\ \A c \in Calls : InvOf(c)
  /\ ResumedOnce /\ EventMadeOnce /\ NoSilentResult

-----------------------------------------------------------------------------
(* How often a number is in a queue.                                       *)

LEMMA CopiesType ==
  ASSUME NEW S, NEW s \in Seq(S), NEW c PROVE Copies(c, s) \in Nat
<1>1. IsFiniteSet(1..Len(s))
  BY FS_Interval
<1>2. {i \in DOMAIN s : s[i] = c} \subseteq 1..Len(s)
  OBVIOUS
<1> QED
  BY <1>1, <1>2, FS_Subset, FS_CardinalityType DEF Copies

LEMMA CopiesNone ==
  ASSUME NEW c PROVE Copies(c, <<>>) = 0
<1>1. {i \in DOMAIN <<>> : <<>>[i] = c} = {}
  OBVIOUS
<1> QED
  BY <1>1, FS_EmptySet DEF Copies

LEMMA CopiesAppend ==
  ASSUME NEW S, NEW s \in Seq(S), NEW c \in S, NEW d
  PROVE  Copies(d, Append(s, c)) = Copies(d, s) + (IF d = c THEN 1 ELSE 0)
<1> DEFINE At(q) == {i \in DOMAIN q : q[i] = d}
           last == Len(s) + 1
<1>1. IsFiniteSet(At(s)) /\ last \notin At(s)
  BY FS_Interval, FS_Subset, At(s) \subseteq 1..Len(s)
<1>2. \A i \in DOMAIN Append(s, c) :
        Append(s, c)[i] = IF i = last THEN c ELSE s[i]
  OBVIOUS
<1>3. DOMAIN Append(s, c) = DOMAIN s \cup {last}
  OBVIOUS
<1>4. At(Append(s, c)) = IF d = c THEN At(s) \cup {last} ELSE At(s)
  BY <1>1, <1>2, <1>3
<1>5. Cardinality(At(s) \cup {last}) = Cardinality(At(s)) + 1
  BY <1>1, FS_AddElement
<1>6. Copies(d, s) = Cardinality(At(s)) /\ Copies(d, Append(s, c)) = Cardinality(At(Append(s, c)))
  BY DEF Copies
<1> HIDE DEF At
<1>7. CASE d = c
  BY <1>4, <1>5, <1>6, <1>7
<1>8. CASE d # c
  BY <1>4, <1>6, <1>8, CopiesType
<1> QED
  BY <1>7, <1>8

LEMMA CopiesTail ==
  ASSUME NEW S, NEW s \in Seq(S), s # <<>>, NEW d
  PROVE  Copies(d, s) = Copies(d, Tail(s)) + (IF d = Head(s) THEN 1 ELSE 0)
<1> DEFINE At(q) == {i \in DOMAIN q : q[i] = d}
           Later == {i \in At(s) : i # 1}
           next == [i \in At(Tail(s)) |-> i + 1]
<1>1. DOMAIN s = 1..Len(s) /\ DOMAIN Tail(s) = 1..(Len(s) - 1) /\ Len(s) \in Nat \ {0}
  OBVIOUS
<1>2. \A i \in DOMAIN Tail(s) : Tail(s)[i] = s[i + 1]
  OBVIOUS
<1>3. Head(s) = s[1]
  OBVIOUS
<1>4. IsFiniteSet(At(s)) /\ IsFiniteSet(Later) /\ IsFiniteSet(At(Tail(s)))
  <2>1. At(s) \subseteq 1..Len(s) /\ Later \subseteq 1..Len(s)
        /\ At(Tail(s)) \subseteq 1..(Len(s) - 1)
    BY <1>1
  <2>2. IsFiniteSet(1..Len(s)) /\ IsFiniteSet(1..(Len(s) - 1))
    BY <1>1, FS_Interval
  <2> QED
    BY <2>1, <2>2, FS_Subset
<1>5. Cardinality(Later) = Cardinality(At(Tail(s)))
  <2>1. next \in [At(Tail(s)) -> Later]
    BY <1>1, <1>2
  <2>2. \A i, j \in At(Tail(s)) : next[i] = next[j] => i = j
    BY <1>1
  <2>3. \A j \in Later : \E i \in At(Tail(s)) : next[i] = j
    <3> TAKE j \in Later
    <3>1. j - 1 \in At(Tail(s))
      BY <1>1, <1>2
    <3>2. next[j - 1] = j
      BY <3>1, <1>1
    <3> QED
      BY <3>1, <3>2
  <2>4. next \in Bijection(At(Tail(s)), Later)
    BY <2>1, <2>2, <2>3, Zenon DEF Bijection, Injection, Surjection, IsInjective
  <2> QED
    BY <2>4, <1>4, FS_Bijection DEF ExistsBijection
<1>6. At(s) = IF d = Head(s) THEN Later \cup {1} ELSE Later
  BY <1>1, <1>3
<1>7. Cardinality(Later \cup {1}) = Cardinality(Later) + 1
  BY <1>4, FS_AddElement
<1>8. Copies(d, s) = Cardinality(At(s)) /\ Copies(d, Tail(s)) = Cardinality(At(Tail(s)))
  BY DEF Copies
<1>9. Tail(s) \in Seq(S)
  OBVIOUS
<1> HIDE DEF At, Later
<1>10. CASE d = Head(s)
  BY <1>5, <1>6, <1>7, <1>8, <1>10
<1>11. CASE d # Head(s)
  BY <1>5, <1>6, <1>8, <1>9, <1>11, CopiesType
<1> QED
  BY <1>10, <1>11

-----------------------------------------------------------------------------
(* Every action keeps the invariant                                        *)

(* Nothing has begun.                                                       *)
LEMMA CompletionsInvInit == CompletionsInit => CompletionsInv
<1> SUFFICES ASSUME CompletionsInit PROVE CompletionsInv
  OBVIOUS
<1> USE DEF CompletionsInit, AsyncInit
<1>1. Types
  BY AsyncAssumption DEF Types, AsyncTypes, PyTypes, CallRecord, NewCall, TaskRecord
<1>2. ASSUME NEW c \in Calls
      PROVE  InvOf(c)
  BY CopiesNone DEF NewCall, InvOf, CallPlaced, EventPlaced, Counted, Announced, TaskPlaced,
                    Owned, Working
<1>3. ResumedOnce /\ EventMadeOnce /\ NoSilentResult
  BY DEF ResumedOnce, Resumes, EventMadeOnce, NoSilentResult
<1> QED
  BY <1>1, <1>2, <1>3 DEF CompletionsInv

(* What cancelling does to an entry.                                        *)
LEMMA CancelledEntry ==
  ASSUME NEW rec \in CallRecord
  PROVE  LET told == CancelledCall(rec) IN
         /\ told \in CallRecord
         /\ told.pc = rec.pc /\ told.done = rec.done /\ told.events = rec.events
         /\ told.seen = rec.seen /\ told.outcome = rec.outcome
         /\ ~rec.kept => told = rec
         /\ rec.kept /\ ~rec.done => told.kept /\ told.dropped /\ told.handle = rec.handle
         /\ rec.kept /\ rec.done =>
              /\ ~told.kept /\ told.dropped = rec.dropped
              /\ told.handle = IF rec.handle = "open" THEN "closed" ELSE rec.handle
BY DEF CallRecord, CancelledCall, Discarded

(* A step that rewrites one call's entry leaves the others alone.           *)
LEMMA Rewritten ==
  ASSUME call \in [Calls -> CallRecord], NEW c \in Calls, NEW rec \in CallRecord, Become(c, rec)
  PROVE  /\ call' \in [Calls -> CallRecord]
         /\ call'[c] = rec
         /\ \A d \in Calls : d # c => call'[d] = call[d]
BY DEF Become

(* A call of which nothing changes keeps its part.                          *)
Same(c) ==
  /\ host' = host
  /\ call'[c] = call[c] /\ task'[c] = task[c] /\ interims'[c] = interims[c]
  /\ Announced(c)' = Announced(c)
  /\ c \in stash' => c \in stash

LEMMA SameKept ==
  ASSUME NEW c \in Calls, InvOf(c), Same(c) PROVE InvOf(c)'
BY DEF InvOf, Same, CallPlaced, EventPlaced, Counted, TaskPlaced, Owned

(* A step that touches nothing of the native side but a call's entry: only  *)
(* that call and the tasks' callbacks are left to look at.                  *)
LEMMA EntryStep ==
  ASSUME CompletionsInv, NEW c \in Calls, NEW rec \in CallRecord, Become(c, rec), NativeOnly,
         PyTypes', \A d \in Calls \ {c} : task'[d] = task[d] /\ (d \in stash' => d \in stash),
         call[c].pc = "signal" => rec.pc = "signal",
         call'[c] = rec => InvOf(c)', ResumedOnce'
  PROVE  CompletionsInv'
<1> USE DEF NativeOnly
<1>1. /\ call' \in [Calls -> CallRecord]
      /\ call'[c] = rec
      /\ \A d \in Calls : d # c => call'[d] = call[d]
  BY Rewritten DEF CompletionsInv, Types, AsyncTypes, PyTypes
<1>2. Types'
  BY <1>1 DEF CompletionsInv, Types, AsyncTypes, PyTypes
<1>3. \A d \in Calls : InvOf(d)'
  <2> SUFFICES ASSUME NEW d \in Calls, d # c PROVE InvOf(d)'
    BY <1>1
  <2>1. Same(d)
    BY <1>1 DEF Same, Announced
  <2> QED
    BY <2>1, SameKept DEF CompletionsInv
<1>4. EventMadeOnce'
  BY DEF CompletionsInv, EventMadeOnce
<1>5. NoSilentResult'
  <2>1. \A d \in Calls : call[d].pc = "signal" => call'[d].pc = "signal"
    BY <1>1
  <2> QED
    BY <2>1 DEF CompletionsInv, NoSilentResult, LoopAt
<1> QED
  BY <1>2, <1>3, <1>4, <1>5 DEF CompletionsInv

LEMMA ResultRecorded ==
  ASSUME NEW old \in CallRecord, NEW res \in {"ok", "err"}
  PROVE  [old EXCEPT !.pc = "finish", !.result = res] \in CallRecord
BY DEF CallRecord

(* What changes an entry alone, on either host.                             *)
LEMMA EntryKeeps ==
  ASSUME CompletionsInv, NEW c \in Calls, UNCHANGED pyVars,
         \/ Work(c) \/ WorkOpens(c) \/ Finish(c) \/ Discard(c)
         \/ CloseHandle(c) \/ HostStarts(c) \/ HostCancels(c)
  PROVE  CompletionsInv'
<1>0. /\ Types /\ AsyncTypes /\ InvOf(c)
      /\ call \in [Calls -> CallRecord] /\ call[c] \in CallRecord
  BY DEF CompletionsInv, Types, AsyncTypes, PyTypes
<1>p. PyTypes' /\ ResumedOnce'
  BY DEF CompletionsInv, Types, PyTypes, pyVars, ResumedOnce, Resumes
<1>q. Copies(c, ready) \in Nat /\ interims[c] \in Nat /\ call[c].events \in Nat
  BY <1>0, CopiesType, AsyncAssumption DEF AsyncTypes, CallRecord
<1>s. ASSUME NEW rec \in CallRecord, Become(c, rec), NativeOnly,
             call[c].pc = "signal" => rec.pc = "signal", call'[c] = rec => InvOf(c)'
      PROVE  CompletionsInv'
  BY <1>p, <1>s, EntryStep DEF pyVars
<1>r. \A res \in {"ok", "err"} :
        [call[c] EXCEPT !.pc = "finish", !.result = res] \in CallRecord
  BY <1>0, ResultRecorded
<1> USE DEF InvOf, CallPlaced, EventPlaced, Counted, Announced, TaskPlaced, Owned, Working,
            CallRecord, NativeOnly, pyVars
<1>1. CASE Work(c)
  <2> PICK res \in {"ok", "err"} : Become(c, [call[c] EXCEPT !.pc = "finish", !.result = res])
    BY <1>0, <1>1, AsyncAssumption DEF Work, AsyncTypes
  <2> DEFINE rec == [call[c] EXCEPT !.pc = "finish", !.result = res]
  <2>1. rec \in CallRecord
    BY <1>r, Zenon
  <2>2. call'[c] = rec => InvOf(c)'
    <3> SUFFICES ASSUME call'[c] = rec PROVE InvOf(c)'
      OBVIOUS
    <3>1. CallPlaced(c)' /\ EventPlaced(c)' /\ TaskPlaced(c)' /\ Owned(c)'
      BY <1>0, <1>1 DEF Work
    <3>2. Counted(c)'
      BY <1>0, <1>1, <1>q DEF Work
    <3> QED
      BY <3>1, <3>2
  <2> QED
    BY <1>s, <1>1, <2>1, <2>2 DEF Work
<1>2. CASE WorkOpens(c)
  <2> DEFINE rec == [call[c] EXCEPT !.pc = "finish", !.result = "ok", !.handle = "open"]
  <2>1. rec \in CallRecord
    BY <1>0
  <2>2. call'[c] = rec => InvOf(c)'
    BY <1>0, <1>2, <1>q DEF WorkOpens
  <2> QED
    BY <1>s, <1>2, <2>1, <2>2 DEF WorkOpens
<1>3. CASE Finish(c)
  <2> DEFINE rec == IF call[c].dropped
                    THEN [call[c] EXCEPT !.pc = "discard", !.done = TRUE, !.kept = FALSE]
                    ELSE [call[c] EXCEPT !.pc = "queue", !.done = TRUE]
  <2>1. rec \in CallRecord
    BY <1>0
  <2>2. call'[c] = rec => InvOf(c)'
    <3>1. CASE call[c].dropped
      BY <1>0, <1>3, <1>q, <3>1 DEF Finish
    <3>2. CASE ~call[c].dropped
      <4> SUFFICES ASSUME call'[c] = rec PROVE InvOf(c)'
        OBVIOUS
      <4>1. CallPlaced(c)' /\ EventPlaced(c)' /\ TaskPlaced(c)' /\ Owned(c)'
        BY <1>0, <1>3, <3>2 DEF Finish
      <4>2. Counted(c)'
        BY <1>0, <1>3, <1>q, <3>2 DEF Finish
      <4> QED
        BY <4>1, <4>2
    <3> QED
      BY <3>1, <3>2
  <2> QED
    BY <1>s, <1>3, <2>1, <2>2 DEF Finish
<1>4. CASE Discard(c)
  <2> DEFINE rec == [Discarded(call[c]) EXCEPT !.pc = "over"]
  <2>1. rec \in CallRecord
    BY <1>0 DEF Discarded
  <2>2. call'[c] = rec => InvOf(c)'
    BY <1>0, <1>4, <1>q DEF Discard, Discarded
  <2> QED
    BY <1>s, <1>4, <2>1, <2>2 DEF Discard
<1>5. CASE CloseHandle(c)
  <2>1. Discarded(call[c]) \in CallRecord
    BY <1>0 DEF Discarded
  <2>2. call'[c] = Discarded(call[c]) => InvOf(c)'
    BY <1>0, <1>5, <1>q DEF CloseHandle, Discarded
  <2>3. call[c].pc = "signal" => Discarded(call[c]).pc = "signal"
    BY <1>0 DEF Discarded
  <2> QED
    BY <1>s, <1>5, <2>1, <2>2, <2>3 DEF CloseHandle
<1>6. CASE HostStarts(c)
  <2> DEFINE rec == [call[c] EXCEPT !.pc = "work", !.kept = TRUE, !.outcome = "running"]
  <2>1. rec \in CallRecord
    BY <1>0
  <2>2. call'[c] = rec => InvOf(c)'
    BY <1>0, <1>6, <1>q DEF HostStarts, Started
  <2> QED
    BY <1>s, <1>6, <2>1, <2>2 DEF HostStarts, Started
<1>7. CASE HostCancels(c)
  <2> DEFINE told == CancelledCall(call[c])
             rec == [told EXCEPT !.outcome = "abandoned"]
  <2>1. /\ told \in CallRecord
        /\ told.pc = call[c].pc /\ told.done = call[c].done /\ told.events = call[c].events
        /\ told.seen = call[c].seen
        /\ ~call[c].kept => told = call[c]
        /\ call[c].kept /\ ~call[c].done =>
             told.kept /\ told.dropped /\ told.handle = call[c].handle
        /\ call[c].kept /\ call[c].done =>
             /\ ~told.kept /\ told.dropped = call[c].dropped
             /\ told.handle = IF call[c].handle = "open" THEN "closed" ELSE call[c].handle
    BY <1>0, CancelledEntry
  <2> HIDE DEF told
  <2>2. rec \in CallRecord
    BY <2>1
  <2>3. call'[c] = rec => InvOf(c)'
    <3> HAVE call'[c] = rec
    <3>1. /\ host = "event" /\ host' = host /\ call[c].outcome = "running" /\ call[c].kept
          /\ task[c].pc = "new" /\ task' = task
      BY <1>0, <1>7 DEF HostCancels, LoopAt
    <3>2. CASE call[c].done
      BY <1>0, <1>7, <1>q, <2>1, <3>1, <3>2 DEF HostCancels
    <3>3. CASE ~call[c].done
      BY <1>0, <1>7, <1>q, <2>1, <3>1, <3>3 DEF HostCancels
    <3> QED
      BY <3>2, <3>3
  <2>4. call[c].pc = "signal" => rec.pc = "signal"
    BY <2>1
  <2>5. Become(c, rec)
    BY <1>7 DEF HostCancels, told
  <2> QED
    BY <1>s, <1>7, <2>2, <2>3, <2>4, <2>5 DEF HostCancels
<1> QED
  BY <1>1, <1>2, <1>3, <1>4, <1>5, <1>6, <1>7

-----------------------------------------------------------------------------
(* What reaches the queue, the event and the loop that waits for it.        *)

(* Numbers on their way: the queue grows at its end.                        *)
LEMMA QueueKeeps ==
  ASSUME CompletionsInv, NEW c \in Calls, UNCHANGED pyVars,
         Queue(c) \/ QueueInterim(c) \/ Interim(c)
  PROVE  CompletionsInv'
<1>0. /\ Types /\ AsyncTypes
      /\ call \in [Calls -> CallRecord] /\ ready \in Seq(Calls)
      /\ interims \in [Calls -> 0..MaxInterim] /\ MaxInterim \in Nat
      /\ \A d \in Calls : InvOf(d)
  BY AsyncAssumption DEF CompletionsInv, Types, AsyncTypes, PyTypes
<1>1. \A d \in Calls : call[d] \in CallRecord /\ call[d].events \in Nat /\ call[d].seen \in Nat
                       /\ interims[d] \in Nat /\ Copies(d, ready) \in Nat
  BY <1>0, CopiesType DEF CallRecord
<1>2. ResumedOnce' /\ EventMadeOnce'
  BY DEF CompletionsInv, ResumedOnce, Resumes, EventMadeOnce, pyVars, Queue, QueueInterim, Interim
<1>3. CASE Queue(c)
  <2> DEFINE rec == [call[c] EXCEPT !.pc = "signal"]
  <2>1. rec \in CallRecord
    BY <1>1 DEF CallRecord
  <2>2. /\ call' \in [Calls -> CallRecord]
        /\ call'[c] = rec
        /\ \A d \in Calls : d # c => call'[d] = call[d]
    BY <1>0, <1>3, <2>1, Rewritten DEF Queue
  <2>3. Types'
    BY <1>0, <1>3, <2>2, AsyncAssumption DEF Queue, Queued, Types, AsyncTypes, PyTypes, pyVars
  <2>4. \A d \in Calls : Copies(d, ready') = Copies(d, ready) + (IF d = c THEN 1 ELSE 0)
    BY <1>0, <1>3, CopiesAppend DEF Queue, Queued
  <2>5. \A d \in Calls \ {c} : InvOf(d)'
    <3>1. \A d \in Calls \ {c} : Copies(d, ready') = Copies(d, ready)
      BY <1>1, <2>4
    <3>2. \A d \in Calls \ {c} : Announced(d)' = Announced(d)
      BY <1>3, <2>2, <3>1 DEF Announced, Queue
    <3> QED
      BY <1>0, <1>3, <2>2, <3>2, SameKept DEF Same, Queue, pyVars
  <2>6. InvOf(c)'
    BY <1>0, <1>1, <1>3, <2>2, <2>4
    DEF Queue, pyVars, CallRecord, InvOf, CallPlaced, EventPlaced, Counted, Announced, TaskPlaced,
        Owned, Working
  <2>7. NoSilentResult'
    BY <1>1, <2>2 DEF NoSilentResult, CallRecord
  <2> QED
    BY <1>2, <2>3, <2>5, <2>6, <2>7 DEF CompletionsInv
<1>4. CASE QueueInterim(c)
  <2>1. Types'
    BY <1>0, <1>4, AsyncAssumption
    DEF QueueInterim, Queued, Types, AsyncTypes, PyTypes, pyVars
  <2>2. \A d \in Calls : Copies(d, ready') = Copies(d, ready) + (IF d = c THEN 1 ELSE 0)
    BY <1>0, <1>4, CopiesAppend DEF QueueInterim, Queued
  <2>3. \A d \in Calls : interims'[d] = interims[d] - (IF d = c THEN 1 ELSE 0)
    BY <1>0, <1>4 DEF QueueInterim
  <2>4. \A d \in Calls \ {c} : InvOf(d)'
    BY <1>0, <1>1, <1>4, <2>2, <2>3, SameKept DEF Same, Announced, QueueInterim, pyVars
  <2>5. InvOf(c)'
    BY <1>0, <1>1, <1>4, <2>2, <2>3
    DEF QueueInterim, pyVars, InvOf, CallPlaced, EventPlaced, Counted, Announced, TaskPlaced, Owned
  <2>6. NoSilentResult'
    BY <1>0, <1>4 DEF NoSilentResult, QueueInterim, AsyncTypes
  <2> QED
    BY <1>2, <2>1, <2>4, <2>5, <2>6 DEF CompletionsInv
<1>5. CASE Interim(c)
  <2> DEFINE rec == [call[c] EXCEPT !.events = @ + 1, !.seen = @ + 1]
  <2>a. /\ call[c].pc = "work" /\ ~call[c].dropped /\ host = "event"
        /\ call[c].events + 1 \in 0..MaxInterim /\ call[c].seen + 1 \in 0..MaxInterim
        /\ interims[c] + 1 \in 0..MaxInterim
    BY <1>0, <1>1, <1>5 DEF Interim, InvOf, CallPlaced
  <2>b. rec = [[call[c] EXCEPT !.events = call[c].events + 1] EXCEPT !.seen = call[c].seen + 1]
    BY <1>1 DEF CallRecord
  <2>1. rec \in CallRecord
    BY <1>1, <2>a, <2>b DEF CallRecord
  <2>c. /\ rec.events = call[c].events + 1 /\ rec.seen = call[c].seen + 1
        /\ rec.pc = call[c].pc /\ rec.kept = call[c].kept /\ rec.done = call[c].done
        /\ rec.dropped = call[c].dropped /\ rec.outcome = call[c].outcome
        /\ rec.handle = call[c].handle
    BY <1>1, <2>b DEF CallRecord
  <2> HIDE DEF rec
  <2>2. /\ call' \in [Calls -> CallRecord]
        /\ call'[c] = rec
        /\ \A d \in Calls : d # c => call'[d] = call[d]
    BY <1>0, <1>5, <2>1, Rewritten DEF Interim, rec
  <2>3. Types'
    BY <1>0, <1>5, <2>a, <2>2 DEF Interim, Types, AsyncTypes, PyTypes, pyVars
  <2>4. \A d \in Calls : interims'[d] = interims[d] + (IF d = c THEN 1 ELSE 0)
    BY <1>0, <1>5 DEF Interim
  <2>5. \A d \in Calls \ {c} : InvOf(d)'
    BY <1>0, <1>1, <1>5, <2>2, <2>4, SameKept DEF Same, Announced, Interim, pyVars
  <2>6. InvOf(c)'
    <3>1. UNCHANGED <<host, ready, loop, task, stash>>
      BY <1>5 DEF Interim, pyVars
    <3>2. CallPlaced(c)'
      <4>1. /\ call[c].kept /\ ~call[c].done /\ call[c].outcome = "running"
            /\ call[c].handle = "none"
        BY <1>0, <2>a DEF InvOf, CallPlaced, Working
      <4>2. call[c].events <= call[c].seen /\ interims[c] <= call[c].seen
        BY <1>0 DEF InvOf, CallPlaced
      <4>3. /\ call'[c].events = call[c].events + 1 /\ call'[c].seen = call[c].seen + 1
            /\ interims'[c] = interims[c] + 1
        BY <2>c, <2>2, <2>4
      <4>4. call'[c].events <= call'[c].seen /\ interims'[c] <= call'[c].seen
        BY <1>1, <4>2, <4>3
      <4>5. /\ call'[c].pc = "work" /\ call'[c].kept /\ ~call'[c].done
            /\ call'[c].outcome = "running" /\ call'[c].handle = "none" /\ ~call'[c].dropped
        BY <2>a, <2>c, <2>2, <4>1
      <4> QED
        BY <4>4, <4>5 DEF CallPlaced, Working
    <3>3. EventPlaced(c)' /\ TaskPlaced(c)' /\ Owned(c)'
      BY <1>0, <2>c, <2>2, <3>1 DEF InvOf, EventPlaced, TaskPlaced, Owned
    <3>4. Counted(c)'
      <4>1. Announced(c) \in Nat /\ Announced(c)' = Announced(c) + 1
        BY <1>1, <2>c, <2>2, <2>4, <3>1 DEF Announced
      <4>2. Announced(c) = call[c].events + (IF call[c].done THEN 1 ELSE 0)
        BY <1>0, <2>a DEF InvOf, Counted, CallPlaced, Working
      <4> QED
        BY <1>1, <2>c, <2>2, <4>1, <4>2 DEF Counted
    <3> QED
      BY <3>2, <3>3, <3>4 DEF InvOf
  <2>7. NoSilentResult'
    <3>1. \A d \in Calls : call'[d].pc = call[d].pc
      BY <2>c, <2>2
    <3> QED
      BY <1>5, <3>1 DEF CompletionsInv, NoSilentResult, Interim, LoopAt
  <2> QED
    BY <1>2, <2>3, <2>5, <2>6, <2>7 DEF CompletionsInv
<1> QED
  BY <1>3, <1>4, <1>5

(* Whoever queued a number raises the event after it.                       *)
LEMMA SignalKeeps ==
  ASSUME CompletionsInv, UNCHANGED pyVars, SignalInterim \/ \E c \in Calls : Signal(c)
  PROVE  CompletionsInv'
<1>0. /\ Types /\ AsyncTypes /\ call \in [Calls -> CallRecord]
      /\ \A d \in Calls : InvOf(d) /\ call[d] \in CallRecord
  BY DEF CompletionsInv, Types, AsyncTypes, PyTypes
<1>1. ResumedOnce'
  BY DEF CompletionsInv, ResumedOnce, Resumes, pyVars
<1>2. event' = Raised /\ UNCHANGED <<host, ready, interims, loop>>
  BY DEF SignalInterim, Signal
<1>3. EventMadeOnce' /\ NoSilentResult'
  BY <1>2 DEF CompletionsInv, EventMadeOnce, NoSilentResult, Raised, LoopAt
<1>4. CASE SignalInterim
  <2>1. Types'
    BY <1>0, <1>2, <1>4 DEF SignalInterim, Raised, Types, AsyncTypes, PyTypes, pyVars
  <2>2. \A d \in Calls : InvOf(d)'
    BY <1>0, <1>4, SameKept DEF Same, Announced, SignalInterim, pyVars
  <2> QED
    BY <1>1, <1>3, <2>1, <2>2 DEF CompletionsInv
<1>5. ASSUME NEW c \in Calls, Signal(c) PROVE CompletionsInv'
  <2> DEFINE rec == [call[c] EXCEPT !.pc = "over"]
  <2>1. rec \in CallRecord
    BY <1>0 DEF CallRecord
  <2>2. /\ call' \in [Calls -> CallRecord]
        /\ call'[c] = rec
        /\ \A d \in Calls : d # c => call'[d] = call[d]
    BY <1>0, <1>5, <2>1, Rewritten DEF Signal
  <2>3. Types'
    BY <1>0, <1>2, <1>5, <2>2 DEF Signal, Raised, Types, AsyncTypes, PyTypes, pyVars
  <2>4. \A d \in Calls \ {c} : InvOf(d)'
    BY <1>0, <1>5, <2>2, SameKept DEF Same, Announced, Signal, pyVars
  <2>5. InvOf(c)'
    BY <1>0, <1>5, <2>2
    DEF Signal, pyVars, CallRecord, InvOf, CallPlaced, EventPlaced, Counted, Announced, TaskPlaced,
        Owned, Working
  <2> QED
    BY <1>1, <1>3, <2>3, <2>4, <2>5 DEF CompletionsInv
<1> QED
  BY <1>4, <1>5

(* The host's loop: what it takes out of the queue it has in its hand, and  *)
(* it sleeps only after a look at the queue.                                *)
LEMMA LoopKeeps ==
  ASSUME CompletionsInv, UNCHANGED pyVars, EventLoop
  PROVE  CompletionsInv'
<1>0. /\ Types /\ AsyncTypes
      /\ call \in [Calls -> CallRecord] /\ ready \in Seq(Calls)
      /\ loop \in [pc: {"make", "made", "sleep", "poll", "lower", "recheck", "take"},
                   n: Calls \cup {NoCall}]
      /\ \A d \in Calls : InvOf(d)
  BY DEF CompletionsInv, Types, AsyncTypes, PyTypes
<1>1. \A d \in Calls : call[d] \in CallRecord /\ call[d].events \in Nat
                       /\ interims[d] \in Nat /\ Copies(d, ready) \in Nat
  BY <1>0, CopiesType, AsyncAssumption DEF CallRecord, AsyncTypes
<1>2. ResumedOnce'
  BY DEF CompletionsInv, ResumedOnce, Resumes, pyVars
<1>3. ASSUME NEW pc \in {"made", "sleep", "poll", "lower", "recheck"}, Moves(pc),
             loop.pc # "take", UNCHANGED <<host, call, ready, interims, raisers>>
      PROVE  /\ event' \in {"none", "down", "up"} => Types'
             /\ \A d \in Calls : InvOf(d)'
             /\ host' = host /\ ready' = ready /\ loop'.pc = pc
  <2>1. loop' \in [pc: {"make", "made", "sleep", "poll", "lower", "recheck", "take"},
                   n: Calls \cup {NoCall}]
        /\ loop'.pc = pc
    BY <1>0, <1>3 DEF Moves
  <2>2. \A d \in Calls : Announced(d)' = Announced(d)
    BY <1>3, <2>1 DEF Announced
  <2>3. \A d \in Calls : InvOf(d)'
    BY <1>0, <1>3, <2>2, SameKept DEF Same, pyVars
  <2> QED
    BY <1>0, <1>3, <2>1, <2>3 DEF Types, AsyncTypes, PyTypes, pyVars
<1>4. event \in {"none", "down", "up"} /\ EventMadeOnce
  BY DEF CompletionsInv, Types, AsyncTypes, PyTypes
<1>5. CASE MakeEvent
  <2>1. EventMadeOnce' /\ NoSilentResult'
    BY <1>3, <1>5 DEF MakeEvent, LoopAt, EventMadeOnce, NoSilentResult
  <2> QED
    BY <1>2, <1>3, <1>5, <2>1 DEF MakeEvent, LoopAt, CompletionsInv
<1>6. CASE EventMade
  <2>1. EventMadeOnce' /\ NoSilentResult'
    BY <1>3, <1>4, <1>6 DEF EventMade, LoopAt, EventMadeOnce, NoSilentResult
  <2> QED
    BY <1>2, <1>3, <1>4, <1>6, <2>1 DEF EventMade, LoopAt, CompletionsInv
<1>7. CASE Wake
  <2>1. EventMadeOnce' /\ NoSilentResult'
    BY <1>3, <1>7 DEF Wake, LoopAt, EventMadeOnce, NoSilentResult
  <2> QED
    BY <1>2, <1>3, <1>4, <1>7, <2>1 DEF Wake, LoopAt, CompletionsInv
<1>8. CASE Lower
  <2>1. EventMadeOnce' /\ NoSilentResult'
    BY <1>3, <1>8 DEF Lower, LoopAt, EventMadeOnce, NoSilentResult
  <2> QED
    BY <1>2, <1>3, <1>8, <2>1 DEF Lower, LoopAt, CompletionsInv
<1>9. CASE Recheck
  <2>1. EventMadeOnce' /\ NoSilentResult'
    BY <1>3, <1>4, <1>9 DEF Recheck, LoopAt, EventMadeOnce, NoSilentResult
  <2> QED
    BY <1>2, <1>3, <1>4, <1>9, <2>1 DEF Recheck, LoopAt, CompletionsInv
<1>10. CASE Poll
  <2>1. CASE ready = <<>>
    <3>1. EventMadeOnce' /\ NoSilentResult'
      BY <1>3, <1>4, <1>10, <2>1 DEF Poll, LoopAt, EventMadeOnce, NoSilentResult
    <3> QED
      BY <1>2, <1>3, <1>4, <1>10, <2>1, <3>1 DEF Poll, LoopAt, CompletionsInv
  <2>2. CASE ready # <<>>
    <3>1. /\ loop' = [pc |-> "take", n |-> Head(ready)] /\ ready' = Tail(ready)
          /\ UNCHANGED <<host, call, interims, raisers, event>> /\ loop.pc = "poll"
          /\ Head(ready) \in Calls
      BY <1>0, <1>10, <2>2 DEF Poll, LoopAt
    <3>2. Types'
      BY <1>0, <2>2, <3>1, AsyncAssumption DEF Types, AsyncTypes, PyTypes, pyVars
    <3>3. \A d \in Calls :
            Copies(d, ready) = Copies(d, ready') + (IF d = Head(ready) THEN 1 ELSE 0)
      BY <1>0, <2>2, <3>1, CopiesTail
    <3>4. \A d \in Calls : Copies(d, ready') \in Nat
      BY <3>2, CopiesType DEF Types, AsyncTypes, PyTypes
    <3>5. \A d \in Calls : Announced(d)' = Announced(d)
      <4> TAKE d \in Calls
      <4>1. CASE d = Head(ready)
        <5>1. Copies(d, ready) = Copies(d, ready') + 1
          BY <3>3, <4>1
        <5>2. Announced(d) = Copies(d, ready) + interims[d] + (IF call[d].pc = "queue" THEN 1 ELSE 0)
          BY <1>1, <3>1 DEF Announced
        <5>3. Announced(d)' = Copies(d, ready') + interims[d] + (IF call[d].pc = "queue" THEN 1 ELSE 0) + 1
          BY <3>1, <4>1 DEF Announced
        <5> QED
          BY <1>1, <3>4, <5>1, <5>2, <5>3
      <4>2. CASE d # Head(ready)
        <5>1. Copies(d, ready') = Copies(d, ready)
          BY <1>1, <3>3, <3>4, <4>2
        <5> QED
          BY <3>1, <4>2, <5>1 DEF Announced
      <4> QED
        BY <4>1, <4>2
    <3>6. \A d \in Calls : InvOf(d)'
      BY <1>0, <3>1, <3>5, SameKept DEF Same, pyVars
    <3>7. EventMadeOnce' /\ NoSilentResult'
      BY <1>4, <3>1 DEF EventMadeOnce, NoSilentResult, LoopAt
    <3> QED
      BY <1>2, <3>2, <3>6, <3>7 DEF CompletionsInv
  <2> QED
    BY <2>1, <2>2
<1>11. ASSUME NEW c \in Calls, TakeInterim(c) \/ TakeResult(c) \/ TakeNothing(c)
       PROVE  CompletionsInv'
  <2>1. /\ host = "event" /\ loop.pc = "take" /\ loop.n = c
        /\ loop' = [pc |-> "poll", n |-> NoCall]
        /\ UNCHANGED <<host, ready, interims, raisers, event>>
    BY <1>11 DEF TakeInterim, TakeResult, TakeNothing, LoopAt
  <2>2. EventMadeOnce' /\ NoSilentResult'
    BY <1>4, <2>1 DEF EventMadeOnce, NoSilentResult, LoopAt
  <2>3. ASSUME NEW rec \in CallRecord, Become(c, rec),
               call'[c] = rec => InvOf(c)'
        PROVE  CompletionsInv'
    <3>1. /\ call' \in [Calls -> CallRecord]
          /\ call'[c] = rec
          /\ \A d \in Calls : d # c => call'[d] = call[d]
      BY <1>0, <2>3, Rewritten
    <3>2. Types'
      BY <1>0, <2>1, <3>1 DEF Types, AsyncTypes, PyTypes, pyVars
    <3>3. \A d \in Calls \ {c} : InvOf(d)'
      BY <1>0, <2>1, <3>1, SameKept DEF Same, Announced, pyVars
    <3> QED
      BY <1>2, <2>2, <2>3, <3>1, <3>2, <3>3 DEF CompletionsInv
  <2>4. Announced(c) \in Nat \ {0}
    BY <1>1, <2>1 DEF Announced
  <2>5. ASSUME call'[c].pc = call[c].pc PROVE Announced(c)' = Announced(c) - 1
    BY <1>1, <2>1, <2>5 DEF Announced
  <2>6. CASE TakeInterim(c)
    <3> DEFINE rec == [call[c] EXCEPT !.events = @ - 1]
    <3>1. rec \in CallRecord
      BY <1>1, <2>6, AsyncAssumption DEF CallRecord, TakeInterim
    <3>2. ASSUME call'[c] = rec PROVE InvOf(c)'
      BY <1>0, <1>1, <2>1, <2>4, <2>5, <2>6, <3>2
      DEF TakeInterim, InvOf, CallPlaced, EventPlaced, Counted, TaskPlaced, Owned, Working,
          CallRecord, pyVars
    <3> QED
      BY <2>3, <2>6, <3>1, <3>2 DEF TakeInterim
  <2>7. CASE TakeResult(c)
    <3> DEFINE rec == [TakenCall(call[c]) EXCEPT !.outcome = "delivered"]
    <3>1. rec \in CallRecord
      BY <1>1 DEF CallRecord, TakenCall
    <3>2. ASSUME call'[c] = rec PROVE InvOf(c)'
      BY <1>0, <1>1, <2>1, <2>7, <3>2
      DEF TakeResult, Takeable, TakenCall, InvOf, CallPlaced, EventPlaced, Counted, TaskPlaced,
          Owned, Working, CallRecord, pyVars
    <3> QED
      BY <2>3, <2>7, <3>1, <3>2 DEF TakeResult
  <2>8. CASE TakeNothing(c)
    <3>1. InvOf(c)'
      BY <1>0, <1>1, <2>1, <2>4, <2>8
      DEF TakeNothing, InvOf, CallPlaced, EventPlaced, Counted, TaskPlaced, Owned, pyVars
    <3>2. \A d \in Calls \ {c} : InvOf(d)'
      BY <1>0, <2>1, <2>8, SameKept DEF TakeNothing, Same, Announced, pyVars
    <3>3. Types'
      BY <1>0, <2>1, <2>8 DEF TakeNothing, Types, AsyncTypes, PyTypes, pyVars
    <3> QED
      BY <1>2, <2>2, <3>1, <3>2, <3>3 DEF CompletionsInv
  <2> QED
    BY <1>11, <2>6, <2>7, <2>8
<1> QED
  BY <1>5, <1>6, <1>7, <1>8, <1>9, <1>10, <1>11 DEF EventLoop

-----------------------------------------------------------------------------
(* Python's event loop and its thread.                                      *)

(* A step of the Python side alone, about one call.                         *)
LEMMA TaskStep ==
  ASSUME CompletionsInv, NEW c \in Calls, UNCHANGED asyncVars, PyTypes', ResumedOnce', InvOf(c)',
         \A d \in Calls \ {c} : task'[d] = task[d] /\ (d \in stash' => d \in stash)
  PROVE  CompletionsInv'
<1>1. \A d \in Calls \ {c} : InvOf(d)'
  BY SameKept DEF Same, Announced, CompletionsInv, asyncVars
<1>2. Types'
  BY DEF CompletionsInv, Types, AsyncTypes, PyTypes, asyncVars
<1>3. EventMadeOnce' /\ NoSilentResult'
  BY DEF CompletionsInv, EventMadeOnce, NoSilentResult, LoopAt, asyncVars
<1> QED
  BY <1>1, <1>2, <1>3 DEF CompletionsInv

LEMMA CallbackTypes ==
  ASSUME PyTypes
  PROVE  /\ Len(callbacks) \in Nat /\ DOMAIN callbacks = 1..Len(callbacks)
         /\ \A i \in DOMAIN callbacks : callbacks[i].n \in Calls
<1>1. Len(callbacks) \in Nat /\ DOMAIN callbacks = 1..Len(callbacks)
  BY DEF PyTypes
<1>2. \A i \in DOMAIN callbacks : callbacks[i] \in [do: {"settle", "resume"}, n: Calls]
  <2> DEFINE Callback == [do: {"settle", "resume"}, n: Calls]
  <2>1. callbacks \in Seq(Callback)
    BY DEF PyTypes
  <2> HIDE DEF Callback
  <2>2. \A i \in DOMAIN callbacks : callbacks[i] \in Callback
    BY <1>1, <2>1
  <2> QED
    BY <2>2 DEF Callback
<1> QED
  BY <1>1, <1>2

(* Only a task that awaits, and whose future is settled, is due to resume,  *)
(* so the callbacks are right about any other.                              *)
LEMMA OtherTask ==
  ASSUME ResumedOnce, PyTypes, NEW c \in Calls, callbacks' = callbacks,
         task[c].pc = "await" => task'[c].pc = "await" /\ task'[c].future # "pending",
         \A d \in Calls \ {c} : task'[d] = task[d]
  PROVE  ResumedOnce'
<1>1. \A i \in DOMAIN callbacks : callbacks[i].n \in Calls
  BY CallbackTypes
<1>2. \A i \in DOMAIN callbacks' : Resumes(i)' <=> Resumes(i)
  BY DEF Resumes
<1>3. \A i \in DOMAIN callbacks : Resumes(i) =>
        task'[callbacks[i].n].pc = "await" /\ task'[callbacks[i].n].future # "pending"
  BY <1>1 DEF ResumedOnce
<1> QED
  BY <1>2, <1>3 DEF ResumedOnce

(* The first callback has run.                                              *)
LEMMA CallbackRan ==
  ASSUME ResumedOnce, PyTypes, NEW c \in Calls, callbacks # <<>>, Head(callbacks).n = c,
         callbacks' = Tail(callbacks),
         \/ Head(callbacks).do = "resume"
         \/ task'[c].pc = task[c].pc /\ task'[c].future = task[c].future,
         \A d \in Calls \ {c} : task'[d] = task[d]
  PROVE  ResumedOnce'
<1>1. /\ 1 \in DOMAIN callbacks /\ Head(callbacks) = callbacks[1]
      /\ \A i \in DOMAIN callbacks' : /\ i + 1 \in DOMAIN callbacks /\ i + 1 # 1
                                      /\ callbacks'[i] = callbacks[i + 1]
                                      /\ callbacks'[i].n \in Calls
      /\ \A i, j \in DOMAIN callbacks' : i + 1 = j + 1 => i = j
  <2>1. /\ Len(callbacks) # 0 /\ DOMAIN callbacks' = 1..(Len(callbacks) - 1)
        /\ \A i \in DOMAIN callbacks' : callbacks'[i] = callbacks[i + 1]
    BY DEF PyTypes
  <2> QED
    BY <2>1, CallbackTypes
<1>2. \A i \in DOMAIN callbacks' : Resumes(i)' => Resumes(i + 1)
  BY <1>1 DEF Resumes
<1>3. \A i \in DOMAIN callbacks' : Resumes(i)' =>
        task'[callbacks'[i].n].pc = "await" /\ task'[callbacks'[i].n].future # "pending"
  <2> SUFFICES ASSUME NEW i \in DOMAIN callbacks', Resumes(i)'
               PROVE  /\ task'[callbacks'[i].n].pc = task[callbacks'[i].n].pc
                      /\ task'[callbacks'[i].n].future = task[callbacks'[i].n].future
    BY <1>1, <1>2 DEF ResumedOnce
  <2>1. CASE Head(callbacks).do = "resume"
    BY <1>1, <1>2, <2>1 DEF ResumedOnce, Resumes
  <2>2. CASE task'[c].pc = task[c].pc /\ task'[c].future = task[c].future
    BY <1>1, <2>2
  <2> QED
    BY <2>1, <2>2
<1> QED
  BY <1>1, <1>2, <1>3 DEF ResumedOnce

(* One more callback: a resumption only of a task that was not due.         *)
LEMMA CallbackDue ==
  ASSUME ResumedOnce, PyTypes, NEW c \in Calls, NEW what \in {"settle", "resume"}, Soon(what, c),
         \A d \in Calls : task'[d] = task[d] \/ (d = c /\ what = "resume"),
         what = "resume" => /\ task[c].future = "pending"
                            /\ task'[c].pc = "await" /\ task'[c].future # "pending"
  PROVE  ResumedOnce'
<1> DEFINE last == Len(callbacks) + 1
<1>1. /\ \A i \in DOMAIN callbacks' :
           \/ i \in DOMAIN callbacks /\ i # last /\ callbacks'[i] = callbacks[i]
           \/ i = last /\ callbacks'[i] = [do |-> what, n |-> c]
      /\ \A i \in DOMAIN callbacks : callbacks[i].n \in Calls
  <2>1. /\ DOMAIN callbacks' = 1..last /\ callbacks'[last] = [do |-> what, n |-> c]
        /\ \A i \in 1..Len(callbacks) : callbacks'[i] = callbacks[i]
    BY DEF PyTypes, Soon
  <2> QED
    BY <2>1, CallbackTypes
<1> HIDE DEF last
<1>2. \A i \in DOMAIN callbacks' : Resumes(i)' =>
        \/ Resumes(i) /\ callbacks'[i] = callbacks[i]
        \/ i = last /\ what = "resume" /\ callbacks'[i].n = c
  <2> SUFFICES ASSUME NEW i \in DOMAIN callbacks', Resumes(i)'
               PROVE  \/ Resumes(i) /\ callbacks'[i] = callbacks[i]
                      \/ i = last /\ what = "resume" /\ callbacks'[i].n = c
    OBVIOUS
  <2>1. CASE i \in DOMAIN callbacks /\ callbacks'[i] = callbacks[i]
    BY <2>1 DEF Resumes
  <2>2. CASE i = last /\ callbacks'[i] = [do |-> what, n |-> c]
    <3>1. callbacks'[i].do = what /\ callbacks'[i].n = c
      BY <2>2
    <3> QED
      BY <2>2, <3>1 DEF Resumes
  <2> QED
    BY <1>1, <2>1, <2>2
<1>3. \A i \in DOMAIN callbacks : Resumes(i) /\ what = "resume" => callbacks[i].n # c
  BY DEF ResumedOnce
<1>4. \A i \in DOMAIN callbacks' : Resumes(i)' =>
        task'[callbacks'[i].n].pc = "await" /\ task'[callbacks'[i].n].future # "pending"
  BY <1>1, <1>2, <1>3 DEF ResumedOnce, Resumes
<1>5. \A i, j \in DOMAIN callbacks' :
        Resumes(i)' /\ Resumes(j)' /\ callbacks'[i].n = callbacks'[j].n => i = j
  BY <1>1, <1>2, <1>3 DEF ResumedOnce, Resumes
<1> QED
  BY <1>4, <1>5 DEF ResumedOnce

(* A call's settling makes way for its resumption.                          *)
LEMMA CallbackTurns ==
  ASSUME ResumedOnce, PyTypes, NEW c \in Calls, callbacks # <<>>,
         Head(callbacks) = [do |-> "settle", n |-> c],
         callbacks' = Append(Tail(callbacks), [do |-> "resume", n |-> c]),
         \A d \in Calls \ {c} : task'[d] = task[d],
         task[c].future = "pending", task'[c].pc = "await", task'[c].future # "pending"
  PROVE  ResumedOnce'
<1> DEFINE last == Len(callbacks)
<1>1. /\ \A i \in DOMAIN callbacks' :
           \/ i + 1 \in DOMAIN callbacks /\ i # last /\ callbacks'[i] = callbacks[i + 1]
           \/ i = last /\ callbacks'[i] = [do |-> "resume", n |-> c]
      /\ \A i \in DOMAIN callbacks : callbacks[i].n \in Calls
      /\ \A i, j \in DOMAIN callbacks' : i + 1 = j + 1 => i = j
  <2>1. /\ Len(callbacks) # 0 /\ DOMAIN callbacks' = 1..last
        /\ callbacks'[last] = [do |-> "resume", n |-> c]
        /\ \A i \in 1..(last - 1) : callbacks'[i] = callbacks[i + 1]
    BY DEF PyTypes
  <2> QED
    BY <2>1, CallbackTypes
<1> HIDE DEF last
<1>2. \A i \in DOMAIN callbacks' : Resumes(i)' =>
        \/ Resumes(i + 1) /\ callbacks'[i] = callbacks[i + 1] /\ callbacks'[i].n # c
        \/ i = last /\ callbacks'[i].n = c
  <2> SUFFICES ASSUME NEW i \in DOMAIN callbacks', Resumes(i)'
               PROVE  \/ Resumes(i + 1) /\ callbacks'[i] = callbacks[i + 1] /\ callbacks'[i].n # c
                      \/ i = last /\ callbacks'[i].n = c
    OBVIOUS
  <2>1. CASE i + 1 \in DOMAIN callbacks /\ callbacks'[i] = callbacks[i + 1]
    BY <2>1 DEF Resumes, ResumedOnce
  <2>2. CASE i = last /\ callbacks'[i] = [do |-> "resume", n |-> c]
    BY <2>2
  <2> QED
    BY <1>1, <2>1, <2>2
<1>3. \A i \in DOMAIN callbacks' : Resumes(i)' =>
        task'[callbacks'[i].n].pc = "await" /\ task'[callbacks'[i].n].future # "pending"
  BY <1>1, <1>2 DEF ResumedOnce, Resumes
<1>4. \A i, j \in DOMAIN callbacks' :
        Resumes(i)' /\ Resumes(j)' /\ callbacks'[i].n = callbacks'[j].n => i = j
  BY <1>1, <1>2 DEF ResumedOnce, Resumes
<1> QED
  BY <1>3, <1>4 DEF ResumedOnce

LEMMA DueToResume ==
  ASSUME ResumedOnce, PyTypes, NEW c \in Calls, callbacks # <<>>,
         Head(callbacks) = [do |-> "resume", n |-> c]
  PROVE  task[c].pc = "await" /\ task[c].future # "pending"
<1>1. 1 \in DOMAIN callbacks /\ Head(callbacks) = callbacks[1]
  BY DEF PyTypes
<1> QED
  BY <1>1 DEF ResumedOnce, Resumes

(* A task that had a finished call goes on with its outcome: nothing is     *)
(* left to say of it.                                                       *)
LEMMA Answered ==
  ASSUME NEW c \in Calls, host = "python", host' = host, InvOf(c), call[c] \in CallRecord,
         call[c].outcome = "running", call[c].done,
         call'[c] = [call[c] EXCEPT !.outcome = "delivered"], interims'[c] = interims[c],
         task'[c].pc = "over", task'[c].future # "pending"
  PROVE  InvOf(c)'
<1>1. /\ call'[c].pc = call[c].pc /\ call'[c].kept = call[c].kept
      /\ call'[c].done = call[c].done /\ call'[c].dropped = call[c].dropped
      /\ call'[c].events = call[c].events /\ call'[c].seen = call[c].seen
      /\ call'[c].handle = call[c].handle /\ call'[c].outcome = "delivered"
  BY DEF CallRecord
<1>2. CallPlaced(c)'
  BY <1>1 DEF InvOf, CallPlaced, Working
<1>3. EventPlaced(c)' /\ Counted(c)' /\ TaskPlaced(c)' /\ Owned(c)'
  BY <1>1 DEF EventPlaced, Counted, TaskPlaced, Owned
<1> QED
  BY <1>2, <1>3 DEF InvOf

(* A result that is taken changes nothing else, and a take that finds none  *)
(* nothing at all.                                                          *)
LEMMA Taken ==
  ASSUME NEW c \in Calls, host = "python", host' = host, InvOf(c), call[c] \in CallRecord,
         call'[c] = IF Takeable(c) THEN TakenCall(call[c]) ELSE call[c],
         interims'[c] = interims[c],
         (task'[c].pc = task[c].pc /\ task'[c].future = task[c].future)
           \/ (/\ Takeable(c) /\ task[c].pc = "await" /\ task'[c].pc = "await"
               /\ task'[c].future # "pending"),
         c \in stash' => c \in stash \/ Takeable(c)
  PROVE  InvOf(c)'
<1>1. /\ call'[c].pc = call[c].pc /\ call'[c].done = call[c].done
      /\ call'[c].dropped = call[c].dropped /\ call'[c].outcome = call[c].outcome
      /\ call'[c].events = call[c].events /\ call'[c].seen = call[c].seen
      /\ call'[c].handle = call[c].handle
      /\ call'[c].kept => call[c].kept
      /\ ~call[c].done => call'[c].kept = call[c].kept
      /\ Takeable(c) => call[c].done
  BY DEF CallRecord, TakenCall, Takeable
<1>2. call[c].done => call[c].pc \notin Working \cup {"new"}
  BY DEF InvOf, CallPlaced
<1>3. CallPlaced(c)'
  BY <1>1, <1>2 DEF InvOf, CallPlaced, Working
<1>4. EventPlaced(c)' /\ Counted(c)'
  BY DEF EventPlaced, Counted
<1>5. TaskPlaced(c)' /\ Owned(c)'
  BY <1>1 DEF InvOf, TaskPlaced, Owned
<1> QED
  BY <1>3, <1>4, <1>5 DEF InvOf

(* A turn of the loop, a start or a cancellation.                           *)
LEMMA TurnKeeps ==
  ASSUME CompletionsInv, NEW c \in Calls, StartTask(c) \/ LoopTurn(c) \/ CancelTask(c)
  PROVE  CompletionsInv'
<1>0. /\ PyTypes /\ ResumedOnce /\ InvOf(c)
      /\ call[c] \in CallRecord /\ task[c] \in TaskRecord
  BY DEF CompletionsInv, Types, AsyncTypes, PyTypes
<1>1. host = "python"
  BY DEF StartTask, LoopTurn, CancelTask, RegisterReady, Register, SettleLate, Settle, Resume, Forget,
         CancelNative, Due, Idle
<1>2. ASSUME NEW t \in TaskRecord, task' = [task EXCEPT ![c] = t]
      PROVE  /\ task' \in [Calls -> TaskRecord] /\ task'[c] = t
             /\ \A d \in Calls \ {c} : task'[d] = task[d]
  BY <1>0, <1>2 DEF PyTypes
<1> USE DEF InvOf, CallPlaced, EventPlaced, Counted, TaskPlaced, Owned, Working
<1>3. CASE StartTask(c)
  <2> DEFINE rec == [call[c] EXCEPT !.pc = "work", !.kept = TRUE, !.outcome = "running"]
             t == [task[c] EXCEPT !.pc = "started"]
  <2>1. rec \in CallRecord /\ t \in TaskRecord
    BY <1>0 DEF CallRecord, TaskRecord
  <2>2. Become(c, rec) /\ NativeOnly /\ task' = [task EXCEPT ![c] = t]
    BY <1>3 DEF StartTask, Started
  <2>3. PyTypes' /\ task'[c] = t /\ \A d \in Calls \ {c} : task'[d] = task[d]
    BY <1>0, <1>2, <1>3, <2>1, <2>2 DEF PyTypes, StartTask
  <2>4. task[c].pc = "new" /\ call[c].pc = "new" /\ stash' = stash
    BY <1>0, <1>3 DEF StartTask, Started
  <2>5. ResumedOnce'
    BY <1>0, <1>3, <2>3, <2>4, OtherTask DEF StartTask
  <2>6. call'[c] = rec => InvOf(c)'
    BY <1>0, <1>1, <2>2, <2>3, <2>4 DEF CallRecord, TaskRecord, NativeOnly
  <2> QED
    BY <2>1, <2>2, <2>3, <2>4, <2>5, <2>6, EntryStep
<1>4. CASE RegisterReady(c)
  <2> DEFINE rec == [call[c] EXCEPT !.outcome = "delivered"]
             t == [task[c] EXCEPT !.pc = "over", !.future = "ok"]
  <2>1. rec \in CallRecord /\ t \in TaskRecord
    BY <1>0 DEF CallRecord, TaskRecord
  <2>2. Become(c, rec) /\ NativeOnly /\ task' = [task EXCEPT ![c] = t]
    BY <1>0, <1>4 DEF RegisterReady, PyTypes, TaskRecord
  <2>3. PyTypes' /\ task'[c] = t /\ \A d \in Calls \ {c} : task'[d] = task[d]
    BY <1>0, <1>2, <1>4, <2>1, <2>2 DEF PyTypes, RegisterReady
  <2>4. task[c].pc = "started" /\ c \in stash /\ stash' = stash \ {c}
    BY <1>4 DEF RegisterReady
  <2>5. ResumedOnce'
    BY <1>0, <1>4, <2>3, <2>4, OtherTask DEF RegisterReady
  <2>6. ASSUME call'[c] = rec PROVE InvOf(c)'
    <3>1. call[c].outcome = "running" /\ call[c].done
      BY <1>0, <2>4
    <3>2. host' = host /\ interims'[c] = interims[c]
      BY <2>2 DEF NativeOnly
    <3>3. task'[c].pc = "over" /\ task'[c].future = "ok"
      BY <1>0, <2>3 DEF TaskRecord
    <3> HIDE DEF InvOf
    <3> QED
      BY <1>0, <1>1, <2>6, <3>1, <3>2, <3>3, Answered
  <2>7. rec.pc = call[c].pc
    BY <1>0 DEF CallRecord
  <2> QED
    BY <2>1, <2>2, <2>3, <2>4, <2>5, <2>6, <2>7, EntryStep
<1>5. CASE Register(c)
  <2> DEFINE t == [task[c] EXCEPT !.pc = "await", !.future = "pending"]
  <2>1. t \in TaskRecord
    BY <1>0 DEF TaskRecord
  <2>2. task' = [task EXCEPT ![c] = t]
    BY <1>0, <1>5 DEF Register, PyTypes, TaskRecord
  <2>3. PyTypes' /\ task'[c] = t /\ \A d \in Calls \ {c} : task'[d] = task[d]
    BY <1>0, <1>2, <1>5, <2>1, <2>2 DEF PyTypes, Register
  <2>4. task[c].pc = "started" /\ UNCHANGED <<asyncVars, stash>>
    BY <1>5 DEF Register
  <2>5. ResumedOnce'
    BY <1>0, <1>5, <2>3, <2>4, OtherTask DEF Register
  <2>6. InvOf(c)'
    BY <1>0, <1>1, <2>3, <2>4 DEF CallRecord, TaskRecord, asyncVars
  <2> QED
    BY <2>3, <2>4, <2>5, <2>6, TaskStep
<1>6. CASE CancelTask(c)
  <2>1. /\ task[c].pc = "await" /\ UNCHANGED <<asyncVars, waiters, stash, reaper>>
    BY <1>6 DEF CancelTask
  <2>2. CASE task[c].future = "pending"
    <3> DEFINE t == [task[c] EXCEPT !.future = "cancelled"]
    <3>1. t \in TaskRecord /\ Soon("resume", c) /\ task' = [task EXCEPT ![c] = t]
      BY <1>0, <1>6, <2>2 DEF TaskRecord, CancelTask
    <3>2. PyTypes' /\ task'[c] = t /\ \A d \in Calls \ {c} : task'[d] = task[d]
      BY <1>0, <1>2, <2>1, <3>1 DEF PyTypes, Soon
    <3>3. ResumedOnce'
      BY <1>0, <2>1, <2>2, <3>1, <3>2, CallbackDue DEF TaskRecord
    <3>4. InvOf(c)'
      BY <1>0, <1>1, <2>1, <3>2 DEF CallRecord, TaskRecord, asyncVars
    <3> QED
      BY <2>1, <3>2, <3>3, <3>4, TaskStep
  <2>3. CASE task[c].future # "pending"
    <3> DEFINE t == [task[c] EXCEPT !.doomed = TRUE]
    <3>1. t \in TaskRecord /\ callbacks' = callbacks /\ task' = [task EXCEPT ![c] = t]
      BY <1>0, <1>6, <2>3 DEF TaskRecord, CancelTask
    <3>2. PyTypes' /\ task'[c] = t /\ \A d \in Calls \ {c} : task'[d] = task[d]
      BY <1>0, <1>2, <2>1, <3>1 DEF PyTypes
    <3>3. ResumedOnce'
      BY <1>0, <2>1, <2>3, <3>1, <3>2, OtherTask DEF TaskRecord
    <3>4. InvOf(c)'
      BY <1>0, <1>1, <2>1, <3>2 DEF CallRecord, TaskRecord, asyncVars
    <3> QED
      BY <2>1, <3>2, <3>3, <3>4, TaskStep
  <2> QED
    BY <2>2, <2>3
<1>7. CASE SettleLate(c)
  <2> DEFINE rec == IF Takeable(c) THEN TakenCall(call[c]) ELSE call[c]
             t == [task[c] EXCEPT !.spilt = @ \/ Takeable(c)]
  <2>1. /\ rec \in CallRecord /\ rec.pc = call[c].pc
        /\ t \in TaskRecord /\ t.pc = task[c].pc /\ t.future = task[c].future
    BY <1>0 DEF CallRecord, TaskRecord, TakenCall, Takeable
  <2>2. /\ Become(c, rec) /\ NativeOnly /\ callbacks # <<>> /\ Head(callbacks).n = c
        /\ callbacks' = Tail(callbacks) /\ UNCHANGED <<waiters, stash, reaper>>
        /\ task' = [task EXCEPT ![c] = t]
    BY <1>0, <1>7 DEF SettleLate, Due, PyTypes
  <2>3. PyTypes' /\ task'[c] = t /\ \A d \in Calls \ {c} : task'[d] = task[d]
    BY <1>0, <1>2, <2>1, <2>2 DEF PyTypes
  <2> HIDE DEF t
  <2>4. ResumedOnce'
    BY <1>0, <2>1, <2>2, <2>3, CallbackRan
  <2>5. ASSUME call'[c] = rec PROVE InvOf(c)'
    <3>1. host' = host /\ interims'[c] = interims[c] /\ stash' = stash
      BY <2>2 DEF NativeOnly
    <3>2. task'[c].pc = task[c].pc /\ task'[c].future = task[c].future
      BY <2>1, <2>3
    <3> HIDE DEF InvOf
    <3> QED
      BY <1>0, <1>1, <2>5, <3>1, <3>2, Taken
  <2> QED
    BY <2>1, <2>2, <2>3, <2>4, <2>5, EntryStep
<1>8. CASE Settle(c)
  <2> DEFINE rec == TakenCall(call[c])
             t == [task[c] EXCEPT !.future = call[c].result]
  <2>1. rec \in CallRecord /\ rec.pc = call[c].pc /\ t \in TaskRecord /\ t.future # "pending"
        /\ t.pc = task[c].pc
    BY <1>0 DEF CallRecord, TaskRecord, TakenCall
  <2>2. /\ Become(c, rec) /\ NativeOnly /\ UNCHANGED <<waiters, stash, reaper>>
        /\ callbacks # <<>> /\ Head(callbacks) = [do |-> "settle", n |-> c]
        /\ callbacks' = Append(Tail(callbacks), [do |-> "resume", n |-> c])
        /\ task' = [task EXCEPT ![c] = t] /\ task[c].future = "pending" /\ Takeable(c)
    BY <1>8 DEF Settle, Due
  <2>3. PyTypes' /\ task'[c] = t /\ \A d \in Calls \ {c} : task'[d] = task[d]
    BY <1>0, <1>2, <2>1, <2>2 DEF PyTypes
  <2>4. task[c].pc = "await"
    BY <1>0, <2>2
  <2>5. ResumedOnce'
    BY <1>0, <2>1, <2>2, <2>3, <2>4, CallbackTurns
  <2>6. ASSUME call'[c] = rec PROVE InvOf(c)'
    <3>1. host' = host /\ interims'[c] = interims[c]
      BY <2>2 DEF NativeOnly
    <3> HIDE DEF InvOf, t
    <3> QED
      BY <1>0, <1>1, <2>1, <2>2, <2>3, <2>4, <2>6, <3>1, Taken
  <2> QED
    BY <2>1, <2>2, <2>3, <2>5, <2>6, EntryStep
<1>9. CASE Resume(c)
  <2> DEFINE rec == [call[c] EXCEPT !.outcome = "delivered"]
             t == [task[c] EXCEPT !.pc = "over"]
  <2>1. rec \in CallRecord /\ rec.pc = call[c].pc /\ t \in TaskRecord /\ t.pc = "over"
        /\ t.future = task[c].future
    BY <1>0 DEF CallRecord, TaskRecord
  <2>2. /\ Become(c, rec) /\ NativeOnly /\ UNCHANGED <<waiters, stash, reaper>>
        /\ callbacks # <<>> /\ Head(callbacks) = [do |-> "resume", n |-> c]
        /\ callbacks' = Tail(callbacks) /\ task[c].future \in {"ok", "err"}
        /\ task' = [task EXCEPT ![c] = t]
    BY <1>9 DEF Resume, Due
  <2>3. PyTypes' /\ task'[c] = t /\ \A d \in Calls \ {c} : task'[d] = task[d]
    BY <1>0, <1>2, <2>1, <2>2 DEF PyTypes
  <2>4. task[c].pc = "await"
    BY <1>0, <2>2, DueToResume
  <2>5. ResumedOnce'
    BY <1>0, <2>2, <2>3, CallbackRan
  <2>6. call[c].outcome = "running" /\ call[c].done
    BY <1>0, <2>2, <2>4
  <2>7. ASSUME call'[c] = rec PROVE InvOf(c)'
    <3>1. host' = host /\ interims'[c] = interims[c]
      BY <2>2 DEF NativeOnly
    <3> HIDE DEF InvOf, t
    <3> QED
      BY <1>0, <1>1, <2>1, <2>2, <2>3, <2>6, <2>7, <3>1, Answered
  <2> QED
    BY <2>1, <2>2, <2>3, <2>5, <2>7, EntryStep
<1>10. CASE Forget(c)
  <2> DEFINE t == [task[c] EXCEPT !.pc = "forgot"]
  <2>1. t \in TaskRecord /\ t.pc = "forgot" /\ t.future = task[c].future
    BY <1>0 DEF TaskRecord
  <2>2. /\ UNCHANGED <<asyncVars, reaper>> /\ waiters' = waiters \ {c} /\ stash' = stash \ {c}
        /\ callbacks # <<>> /\ Head(callbacks) = [do |-> "resume", n |-> c]
        /\ callbacks' = Tail(callbacks) /\ task' = [task EXCEPT ![c] = t]
    BY <1>10 DEF Forget, Due
  <2>3. PyTypes' /\ task'[c] = t /\ \A d \in Calls \ {c} : task'[d] = task[d]
    BY <1>0, <1>2, <2>1, <2>2 DEF PyTypes
  <2>4. task[c].pc = "await" /\ task[c].future # "pending"
    BY <1>0, <2>2, DueToResume
  <2>5. ResumedOnce'
    BY <1>0, <2>2, <2>3, CallbackRan
  <2>6. InvOf(c)'
    BY <1>0, <1>1, <2>1, <2>2, <2>3, <2>4 DEF asyncVars
  <2> QED
    BY <2>2, <2>3, <2>5, <2>6, TaskStep
<1>11. CASE CancelNative(c)
  <2> DEFINE told == CancelledCall(call[c])
             kept == IF task[c].future = "ok" THEN Discarded(told) ELSE told
             rec == [kept EXCEPT !.outcome = "abandoned"]
             t == [task[c] EXCEPT !.pc = "over"]
  <2>1. t \in TaskRecord /\ t.pc = "over" /\ t.future = task[c].future
    BY <1>0 DEF TaskRecord
  <2>2. /\ Become(c, rec) /\ NativeOnly /\ UNCHANGED <<waiters, stash, reaper, callbacks>>
        /\ task' = [task EXCEPT ![c] = t] /\ task[c].pc = "forgot"
    BY <1>11 DEF CancelNative
  <2>3. PyTypes' /\ task'[c] = t /\ \A d \in Calls \ {c} : task'[d] = task[d]
    BY <1>0, <1>2, <2>1, <2>2 DEF PyTypes
  <2>4. ResumedOnce'
    BY <1>0, <2>2, <2>3, OtherTask
  <2>5. /\ told \in CallRecord
        /\ told.pc = call[c].pc /\ told.done = call[c].done /\ told.events = call[c].events
        /\ told.seen = call[c].seen
        /\ ~call[c].kept => told = call[c]
        /\ call[c].kept /\ ~call[c].done =>
             told.kept /\ told.dropped /\ told.handle = call[c].handle
        /\ call[c].kept /\ call[c].done => ~told.kept /\ told.dropped = call[c].dropped
    BY <1>0, CancelledEntry
  <2> HIDE DEF told
  <2>6. /\ rec \in CallRecord /\ rec.outcome = "abandoned"
        /\ rec.pc = told.pc /\ rec.done = told.done /\ rec.events = told.events
        /\ rec.seen = told.seen /\ rec.kept = told.kept /\ rec.dropped = told.dropped
        /\ task[c].future = "ok" => rec.handle # "open"
        /\ rec.handle = told.handle \/ (told.handle = "open" /\ task[c].future = "ok")
    BY <2>5 DEF CallRecord, Discarded
  <2> HIDE DEF rec
  <2>7. ASSUME call'[c] = rec PROVE InvOf(c)'
    <3>1. call[c].outcome = "running" /\ ~call[c].dropped
      BY <1>0, <2>2
    <3>2. interims'[c] = interims[c] /\ stash' = stash /\ host' = host
      BY <2>2 DEF NativeOnly
    <3>3. CallPlaced(c)'
      BY <1>0, <2>5, <2>6, <2>7, <3>1, <3>2
    <3>4. EventPlaced(c)' /\ Counted(c)'
      BY <1>1, <3>2
    <3>5. TaskPlaced(c)' /\ Owned(c)'
      <4> HIDE DEF t
      <4>1. task'[c].pc = "over" /\ task'[c].future = task[c].future
        BY <2>1, <2>3
      <4>2. TaskPlaced(c)'
        BY <1>0, <2>2, <2>5, <2>6, <2>7, <3>2, <4>1
      <4>3. Owned(c)'
        BY <1>1, <2>6, <2>7, <3>2, <4>1
      <4> QED
        BY <4>2, <4>3
    <3> QED
      BY <3>3, <3>4, <3>5
  <2> QED
    BY <2>2, <2>3, <2>4, <2>5, <2>6, <2>7, EntryStep
<1> QED
  BY <1>3, <1>4, <1>5, <1>6, <1>7, <1>8, <1>9, <1>10, <1>11 DEF LoopTurn

(* The thread: every step holds its lock or touches one result.             *)
LEMMA ReaperKeeps ==
  ASSUME CompletionsInv, Reaper
  PROVE  CompletionsInv'
<1>0. /\ PyTypes /\ AsyncTypes /\ ResumedOnce /\ ready \in Seq(Calls)
      /\ \A d \in Calls : InvOf(d) /\ call[d] \in CallRecord
  BY DEF CompletionsInv, Types, AsyncTypes
<1>1. host = "python"
  BY DEF Reaper, ReaperExit, ReaperStays, ReaperGets, ReaperTimesOut, ReaperFindsWaiter,
         ReaperSetsAside, ReaperDelivers, Reaps
<1>2. ASSUME UNCHANGED <<asyncVars, task, stash>>, PyTypes', ResumedOnce'
      PROVE  CompletionsInv'
  <2>1. \A d \in Calls : InvOf(d)'
    BY <1>0, <1>2, SameKept DEF Same, Announced, asyncVars
  <2>2. AsyncTypes' /\ EventMadeOnce' /\ NoSilentResult'
    BY <1>2 DEF CompletionsInv, Types, AsyncTypes, EventMadeOnce, NoSilentResult, LoopAt, asyncVars
  <2> QED
    BY <1>2, <2>1, <2>2 DEF CompletionsInv, Types
<1>3. ASSUME UNCHANGED <<task, callbacks>> PROVE ResumedOnce'
  BY <1>0, <1>3 DEF ResumedOnce, Resumes
<1>4. CASE ReaperExit \/ ReaperStays \/ ReaperTimesOut \/ ReaperFindsWaiter
  <2>1. UNCHANGED <<asyncVars, task, stash, callbacks>>
    BY <1>4 DEF ReaperExit, ReaperStays, ReaperTimesOut, ReaperFindsWaiter
  <2>2. PyTypes'
    BY <1>0, <1>4, <2>1
    DEF PyTypes, ReaperExit, ReaperStays, ReaperTimesOut, ReaperFindsWaiter, Turns, Reaps
  <2> QED
    BY <1>2, <1>3, <2>1, <2>2
<1>5. CASE ReaperGets
  <2>1. Head(ready) \in Calls /\ ready' \in Seq(Calls) /\ Len(ready') <= QueueCap
    BY <1>0, <1>5, AsyncAssumption DEF ReaperGets, AsyncTypes
  <2>2. Types'
    BY <1>0, <1>5, <2>1 DEF ReaperGets, Types, PyTypes, AsyncTypes
  <2>3. \A d \in Calls : InvOf(d)'
    BY <1>0, <1>1, <1>5
    DEF ReaperGets, InvOf, CallPlaced, EventPlaced, Counted, TaskPlaced, Owned
  <2>4. ResumedOnce' /\ EventMadeOnce' /\ NoSilentResult'
    BY <1>1, <1>3, <1>5 DEF ReaperGets, EventMadeOnce, NoSilentResult, LoopAt
  <2> QED
    BY <2>2, <2>3, <2>4 DEF CompletionsInv
<1>6. CASE ReaperSetsAside
  <2>1. PICK c \in Calls :
          /\ c = reaper.n
          /\ Become(c, IF Takeable(c) THEN TakenCall(call[c]) ELSE call[c])
          /\ NativeOnly /\ UNCHANGED <<task, waiters, callbacks>>
          /\ stash' = stash \/ (Takeable(c) /\ stash' = stash \cup {c})
    BY <1>0, <1>6 DEF ReaperSetsAside, Reaps, PyTypes
  <2> DEFINE rec == IF Takeable(c) THEN TakenCall(call[c]) ELSE call[c]
  <2>2. rec \in CallRecord /\ rec.pc = call[c].pc
    BY <1>0 DEF CallRecord, TakenCall
  <2>3. PyTypes'
    <3>1. reaper' = [pc |-> "check", n |-> NoCall]
      BY <1>6 DEF ReaperSetsAside, Turns
    <3> QED
      BY <1>0, <2>1, <3>1 DEF PyTypes
  <2>4. ASSUME call'[c] = rec PROVE InvOf(c)'
    <3>1. host' = host /\ interims'[c] = interims[c] /\ task'[c] = task[c]
      BY <2>1 DEF NativeOnly
    <3>2. c \in stash' => c \in stash \/ Takeable(c)
      BY <2>1
    <3> QED
      BY <1>0, <1>1, <2>4, <3>1, <3>2, Taken
  <2> HIDE DEF rec
  <2>5. /\ Become(c, rec) /\ NativeOnly /\ ResumedOnce'
        /\ \A d \in Calls \ {c} : task'[d] = task[d] /\ (d \in stash' => d \in stash)
    BY <1>3, <2>1 DEF rec
  <2> QED
    BY <2>2, <2>3, <2>4, <2>5, EntryStep
<1>7. CASE ReaperDelivers
  <2>1. /\ reaper.n \in Calls /\ Soon("settle", reaper.n)
        /\ UNCHANGED <<asyncVars, task, waiters, stash>>
    BY <1>0, <1>7 DEF ReaperDelivers, Reaps, PyTypes
  <2>2. PyTypes'
    BY <1>0, <1>7, <2>1 DEF PyTypes, Soon, ReaperDelivers, Turns
  <2>3. ResumedOnce'
    BY <1>0, <2>1, CallbackDue
  <2> QED
    BY <1>2, <2>1, <2>2, <2>3
<1> QED
  BY <1>4, <1>5, <1>6, <1>7 DEF Reaper

(* One step per action, by whom it is of.                                   *)
LEMMA CompletionsInvNext == CompletionsInv /\ [CompletionsNext]_completionsVars => CompletionsInv'
<1> SUFFICES ASSUME CompletionsInv, [CompletionsNext]_completionsVars PROVE CompletionsInv'
  OBVIOUS
<1>1. CASE AsyncNext /\ UNCHANGED pyVars
  <2>1. ASSUME NEW c \in Calls,
               Goroutine(c) \/ Interim(c) \/ CloseHandle(c) \/ HostStarts(c) \/ HostCancels(c)
        PROVE  CompletionsInv'
    BY <1>1, <2>1, EntryKeeps, QueueKeeps, SignalKeeps DEF Goroutine
  <2> QED
    BY <1>1, <2>1, SignalKeeps, LoopKeeps DEF AsyncNext
<1>2. ASSUME NEW c \in Calls, StartTask(c) \/ LoopTurn(c) \/ CancelTask(c) PROVE CompletionsInv'
  BY <1>2, TurnKeeps
<1>3. CASE Reaper
  BY <1>3, ReaperKeeps
<1>4. CASE UNCHANGED completionsVars
  <2>1. UNCHANGED <<asyncVars, task, waiters, stash, reaper, callbacks>>
    BY <1>4 DEF completionsVars, pyVars
  <2>2. \A d \in Calls : InvOf(d)'
    BY <2>1, SameKept DEF CompletionsInv, Same, Announced, asyncVars
  <2>3. Types' /\ EventMadeOnce' /\ NoSilentResult' /\ ResumedOnce'
    BY <2>1 DEF CompletionsInv, Types, AsyncTypes, PyTypes, EventMadeOnce, NoSilentResult, LoopAt,
                ResumedOnce, Resumes, asyncVars
  <2> QED
    BY <2>2, <2>3 DEF CompletionsInv
<1> QED
  BY <1>1, <1>2, <1>3, <1>4 DEF CompletionsNext

-----------------------------------------------------------------------------
(* What Python's side adds: one number of a call is about, and where it is  *)
(* tells what becomes of what the call opened                               *)

Settles(c) == Copies([do |-> "settle", n |-> c], callbacks)
InHand(c) == reaper.pc \in {"got", "deliver"} /\ reaper.n = c
ToDeliver(c) == reaper.pc = "deliver" /\ reaper.n = c

Told(c) == Copies(c, ready) + (IF call[c].pc = "queue" THEN 1 ELSE 0)
             + (IF InHand(c) THEN 1 ELSE 0) + Settles(c)

(* A number that the thread found a waiter for settles that future.         *)
OnItsWay(c) == c \in waiters \/ ToDeliver(c) \/ Settles(c) # 0

(* The number of a call in the table.                                       *)
NumberFits(c) ==
  /\ interims[c] = 0 /\ call[c].events = 0
  /\ call[c].kept \/ call[c].pc = "new" => Told(c) = IF call[c].done THEN 1 ELSE 0
  /\ task[c].pc = "await" /\ call[c].kept => OnItsWay(c)

(* The future, and the result that is aside: taken off the table, for a     *)
(* task that has not registered yet or never will.                          *)
FutureFits(c) ==
  /\ task[c].pc = "new" => call[c].pc = "new"
  /\ task[c].pc \in {"new", "started"} <=> task[c].future = "none"
  /\ OnItsWay(c) => task[c].future # "none"
  /\ task[c].future \in {"ok", "err"} => ~call[c].kept
  /\ call[c].pc \notin {"new", "work"} => call[c].result # "none"
  /\ c \in stash =>
       /\ ~call[c].kept
       /\ task[c].pc = "started" \/ (task[c].pc # "await" /\ task[c].future = "cancelled")

(* A result that is off the table is aside, in its future, or spilt.        *)
HandleFits(c) ==
  /\ call[c].handle # "none" => call[c].result = "ok"
  /\ call[c].handle = "open" /\ call[c].outcome = "running" /\ ~call[c].kept =>
       \/ c \in stash \/ task[c].future = "ok"
       \/ task[c].future = "cancelled" /\ task[c].spilt
  /\ call[c].handle = "open" =>
       \/ call[c].outcome \in {"running", "delivered"} \/ call[c].pc \in {"finish", "discard"}
       \/ task[c].future = "cancelled" /\ (task[c].spilt \/ c \in stash)

PyFits(c) == NumberFits(c) /\ FutureFits(c) /\ HandleFits(c)

PythonInv == ThreadListens /\ (host = "python" => \A c \in Calls : PyFits(c))

(* Nothing has begun.                                                       *)
LEMMA PythonInvInit == CompletionsInit => PythonInv
<1> SUFFICES ASSUME CompletionsInit PROVE PythonInv
  OBVIOUS
<1>1. ThreadListens
  BY DEF CompletionsInit, ThreadListens
<1>2. ASSUME NEW c \in Calls PROVE PyFits(c)
  <2>1. Told(c) = 0 /\ Settles(c) = 0 /\ ~ToDeliver(c) /\ c \notin waiters
    BY CopiesNone
    DEF CompletionsInit, AsyncInit, NewCall, Told, Settles, InHand, ToDeliver
  <2> QED
    BY <2>1 DEF CompletionsInit, AsyncInit, NewCall, PyFits, NumberFits, FutureFits, HandleFits,
                OnItsWay
<1> QED
  BY <1>1, <1>2 DEF PythonInv

(* A call of which Python's side has nothing new keeps its part.            *)
PySame(c) ==
  /\ call'[c] = call[c] /\ task'[c] = task[c] /\ interims'[c] = interims[c]
  /\ Told(c)' = Told(c) /\ (OnItsWay(c)' <=> OnItsWay(c)) /\ (c \in stash' <=> c \in stash)

LEMMA PySameKept ==
  ASSUME NEW c \in Calls, PyFits(c), PySame(c) PROVE PyFits(c)'
BY DEF PySame, PyFits, NumberFits, FutureFits, HandleFits

(* The counts are numbers.                                                  *)
LEMMA PyCounts ==
  ASSUME AsyncTypes, PyTypes, NEW c \in Calls
  PROVE  Copies(c, ready) \in Nat /\ Settles(c) \in Nat
<1> DEFINE Callback == [do: {"settle", "resume"}, n: Calls]
<1>1. ready \in Seq(Calls) /\ callbacks \in Seq(Callback)
  BY DEF AsyncTypes, PyTypes
<1> HIDE DEF Callback
<1> QED
  BY <1>1, CopiesType DEF Settles

(* One more callback, and one less.                                         *)
LEMMA SettlesMore ==
  ASSUME PyTypes, NEW c \in Calls, NEW what \in {"settle", "resume"}, Soon(what, c)
  PROVE  \A d \in Calls :
           Settles(d)' = Settles(d) + (IF what = "settle" /\ d = c THEN 1 ELSE 0)
<1> DEFINE Callback == [do: {"settle", "resume"}, n: Calls]
           new == [do |-> what, n |-> c]
<1>1. callbacks \in Seq(Callback) /\ new \in Callback /\ callbacks' = Append(callbacks, new)
  BY DEF PyTypes, Soon
<1> SUFFICES ASSUME NEW d \in Calls
             PROVE  Settles(d)' = Settles(d) + (IF what = "settle" /\ d = c THEN 1 ELSE 0)
  OBVIOUS
<1>2. [do |-> "settle", n |-> d] = new <=> (what = "settle" /\ d = c)
  OBVIOUS
<1> HIDE DEF Callback, new
<1>3. Copies([do |-> "settle", n |-> d], Append(callbacks, new))
        = Copies([do |-> "settle", n |-> d], callbacks)
            + (IF [do |-> "settle", n |-> d] = new THEN 1 ELSE 0)
  BY <1>1, CopiesAppend
<1> QED
  BY <1>1, <1>2, <1>3 DEF Settles

LEMMA SettlesLess ==
  ASSUME PyTypes, NEW c \in Calls, NEW what \in {"settle", "resume"}, callbacks # <<>>,
         Head(callbacks) = [do |-> what, n |-> c], callbacks' = Tail(callbacks)
  PROVE  \A d \in Calls :
           /\ Settles(d)' \in Nat
           /\ Settles(d) = Settles(d)' + (IF what = "settle" /\ d = c THEN 1 ELSE 0)
<1> DEFINE Callback == [do: {"settle", "resume"}, n: Calls]
           old == [do |-> what, n |-> c]
<1>1. callbacks \in Seq(Callback) /\ Head(callbacks) = old /\ callbacks' \in Seq(Callback)
  BY DEF PyTypes
<1> SUFFICES ASSUME NEW d \in Calls
             PROVE  /\ Settles(d)' \in Nat
                    /\ Settles(d) = Settles(d)' + (IF what = "settle" /\ d = c THEN 1 ELSE 0)
  OBVIOUS
<1>2. [do |-> "settle", n |-> d] = old <=> (what = "settle" /\ d = c)
  OBVIOUS
<1> HIDE DEF Callback, old
<1>3. Copies([do |-> "settle", n |-> d], callbacks)
        = Copies([do |-> "settle", n |-> d], Tail(callbacks))
            + (IF [do |-> "settle", n |-> d] = old THEN 1 ELSE 0)
  BY <1>1, CopiesTail
<1>4. Settles(d)' \in Nat
  BY <1>1, CopiesType DEF Settles
<1> QED
  BY <1>2, <1>3, <1>4 DEF Settles

(* A step that rewrites one call's entry and nothing of Python's.           *)
LEMMA PyEntry ==
  ASSUME CompletionsInv, PythonInv, host = "python", host' = host, NEW c \in Calls,
         UNCHANGED <<pyVars, ready, interims>>,
         NEW rec \in CallRecord, Become(c, rec), call'[c] = rec => PyFits(c)'
  PROVE  PythonInv'
<1>1. /\ call'[c] = rec
      /\ \A d \in Calls : d # c => call'[d] = call[d]
  BY Rewritten DEF CompletionsInv, Types, AsyncTypes
<1>2. UNCHANGED <<task, waiters, stash, reaper, callbacks, ready, interims>>
  BY DEF pyVars
<1>3. ASSUME NEW d \in Calls, d # c PROVE PyFits(d)'
  <2>1. PySame(d)
    BY <1>1, <1>2, <1>3 DEF PySame, Told, OnItsWay, Settles, InHand, ToDeliver
  <2> QED
    BY <2>1, PySameKept DEF PythonInv
<1>4. ThreadListens'
  BY <1>2 DEF PythonInv, ThreadListens
<1> QED
  BY <1>1, <1>3, <1>4 DEF PythonInv

(* The goroutines, on Python's host.                                        *)
LEMMA GoroutinePy ==
  ASSUME CompletionsInv, PythonInv, host = "python", NEW c \in Calls, UNCHANGED pyVars,
         Goroutine(c) \/ CloseHandle(c)
  PROVE  PythonInv'
<1>0. /\ AsyncTypes /\ PyTypes /\ InvOf(c) /\ PyFits(c) /\ call[c] \in CallRecord
      /\ ready \in Seq(Calls)
  BY DEF CompletionsInv, Types, AsyncTypes, PythonInv
<1>1. UNCHANGED <<task, waiters, stash, reaper, callbacks>>
  BY DEF pyVars
<1>2. CallPlaced(c)
  BY <1>0 DEF InvOf
<1>3. Copies(c, ready) \in Nat /\ Settles(c) \in Nat
  BY <1>0, PyCounts
<1>4. ASSUME UNCHANGED <<ready, interims>>
      PROVE  /\ interims'[c] = interims[c] /\ Copies(c, ready)' = Copies(c, ready)
             /\ Settles(c)' = Settles(c) /\ (InHand(c)' <=> InHand(c))
             /\ (OnItsWay(c)' <=> OnItsWay(c)) /\ task'[c] = task[c]
             /\ (c \in stash' <=> c \in stash)
  BY <1>1, <1>4 DEF Settles, InHand, ToDeliver, OnItsWay
<1>5. CASE Work(c)
  <2>1. PICK res \in {"ok", "err"} : Become(c, [call[c] EXCEPT !.pc = "finish", !.result = res])
    BY <1>0, <1>5, AsyncAssumption DEF Work, AsyncTypes
  <2> DEFINE rec == [call[c] EXCEPT !.pc = "finish", !.result = res]
  <2>2. rec \in CallRecord
    BY <1>0, ResultRecorded
  <2>3. /\ rec.pc = "finish" /\ rec.kept = call[c].kept /\ rec.done = call[c].done
        /\ rec.events = call[c].events /\ rec.handle = call[c].handle
        /\ rec.outcome = call[c].outcome /\ rec.result # "none"
    BY <1>0 DEF CallRecord
  <2>4. call[c].handle = "none" /\ call[c].pc = "work" /\ UNCHANGED <<host, ready, interims>>
    BY <1>2, <1>5 DEF Work, CallPlaced
  <2> HIDE DEF rec
  <2>5. call'[c] = rec => PyFits(c)'
    BY <1>0, <1>4, <2>3, <2>4 DEF PyFits, NumberFits, FutureFits, HandleFits, Told
  <2> QED
    BY <2>1, <2>2, <2>4, <2>5, PyEntry DEF rec
<1>6. CASE WorkOpens(c)
  <2> DEFINE rec == [call[c] EXCEPT !.pc = "finish", !.result = "ok", !.handle = "open"]
  <2>1. rec \in CallRecord
    BY <1>0 DEF CallRecord
  <2>3. /\ rec.pc = "finish" /\ rec.kept = call[c].kept /\ rec.done = call[c].done
        /\ rec.events = call[c].events /\ rec.handle = "open" /\ rec.result = "ok"
        /\ rec.outcome = call[c].outcome
    BY <1>0 DEF CallRecord
  <2>4. call[c].pc = "work" /\ call[c].kept /\ UNCHANGED <<host, ready, interims>> /\ Become(c, rec)
    BY <1>2, <1>6 DEF WorkOpens, CallPlaced, Working
  <2> HIDE DEF rec
  <2>5. call'[c] = rec => PyFits(c)'
    BY <1>0, <1>4, <2>3, <2>4 DEF PyFits, NumberFits, FutureFits, HandleFits, Told
  <2> QED
    BY <2>1, <2>4, <2>5, PyEntry
<1>7. CASE Finish(c)
  <2> DEFINE rec == IF call[c].dropped
                    THEN [call[c] EXCEPT !.pc = "discard", !.done = TRUE, !.kept = FALSE]
                    ELSE [call[c] EXCEPT !.pc = "queue", !.done = TRUE]
  <2>1. rec \in CallRecord
    BY <1>0 DEF CallRecord
  <2>3. /\ rec.done /\ rec.events = call[c].events /\ rec.handle = call[c].handle
        /\ rec.outcome = call[c].outcome /\ rec.result = call[c].result
        /\ call[c].dropped => rec.pc = "discard" /\ ~rec.kept
        /\ ~call[c].dropped => rec.pc = "queue" /\ rec.kept = call[c].kept
    BY <1>0 DEF CallRecord
  <2>4. /\ call[c].pc = "finish" /\ call[c].kept /\ ~call[c].done
        /\ call[c].dropped => call[c].outcome = "abandoned"
        /\ ~call[c].dropped => call[c].outcome = "running"
        /\ UNCHANGED <<host, ready, interims>> /\ Become(c, rec)
    BY <1>2, <1>7 DEF Finish, CallPlaced, Working
  <2> HIDE DEF rec
  <2>5. ASSUME call'[c] = rec PROVE PyFits(c)'
    <3>1. CASE call[c].dropped
      BY <1>0, <1>4, <2>3, <2>4, <2>5, <3>1 DEF PyFits, NumberFits, FutureFits, HandleFits
    <3>2. CASE ~call[c].dropped
      <4>1. Told(c)' = Told(c) + 1
        <5> DEFINE hand == IF InHand(c) THEN 1 ELSE 0
        <5>1. hand \in Nat
          OBVIOUS
        <5>2. Told(c) = Copies(c, ready) + 0 + hand + Settles(c)
          BY <2>4 DEF Told
        <5>3. Told(c)' = Copies(c, ready) + 1 + hand + Settles(c)
          BY <1>4, <2>3, <2>4, <2>5, <3>2 DEF Told
        <5> HIDE DEF hand
        <5> QED
          BY <1>3, <5>1, <5>2, <5>3
      <4>2. NumberFits(c)'
        BY <1>0, <1>4, <2>3, <2>4, <2>5, <3>2, <4>1 DEF PyFits, NumberFits
      <4>3. FutureFits(c)' /\ HandleFits(c)'
        BY <1>0, <1>4, <2>3, <2>4, <2>5, <3>2 DEF PyFits, FutureFits, HandleFits
      <4> QED
        BY <4>2, <4>3 DEF PyFits
    <3> QED
      BY <3>1, <3>2
  <2> QED
    BY <2>1, <2>4, <2>5, PyEntry
<1>8. CASE Discard(c)
  <2> DEFINE rec == [Discarded(call[c]) EXCEPT !.pc = "over"]
  <2>1. rec \in CallRecord
    BY <1>0 DEF CallRecord, Discarded
  <2>3. /\ rec.pc = "over" /\ rec.kept = call[c].kept /\ rec.done = call[c].done
        /\ rec.events = call[c].events /\ rec.handle # "open" /\ rec.result = call[c].result
        /\ rec.handle = call[c].handle \/ (call[c].handle = "open" /\ rec.handle = "closed")
    BY <1>0 DEF CallRecord, Discarded
  <2>4. call[c].pc = "discard" /\ ~call[c].kept /\ UNCHANGED <<host, ready, interims>>
        /\ Become(c, rec)
    BY <1>2, <1>8 DEF Discard, CallPlaced
  <2> HIDE DEF rec
  <2>5. call'[c] = rec => PyFits(c)'
    BY <1>0, <1>4, <2>3, <2>4 DEF PyFits, NumberFits, FutureFits, HandleFits, Told
  <2> QED
    BY <2>1, <2>4, <2>5, PyEntry
<1>9. CASE CloseHandle(c)
  <2> DEFINE rec == Discarded(call[c])
  <2>1. rec \in CallRecord
    BY <1>0 DEF CallRecord, Discarded
  <2>3. /\ rec.pc = call[c].pc /\ rec.kept = call[c].kept /\ rec.done = call[c].done
        /\ rec.events = call[c].events /\ rec.handle # "open" /\ rec.result = call[c].result
        /\ rec.handle = call[c].handle \/ (call[c].handle = "open" /\ rec.handle = "closed")
    BY <1>0 DEF CallRecord, Discarded
  <2>4. UNCHANGED <<host, ready, interims>> /\ Become(c, rec)
    BY <1>9 DEF CloseHandle
  <2> HIDE DEF rec
  <2>5. call'[c] = rec => PyFits(c)'
    BY <1>0, <1>4, <2>3, <2>4 DEF PyFits, NumberFits, FutureFits, HandleFits, Told
  <2> QED
    BY <2>1, <2>4, <2>5, PyEntry
<1>10. CASE Signal(c)
  <2> DEFINE rec == [call[c] EXCEPT !.pc = "over"]
  <2>1. rec \in CallRecord
    BY <1>0 DEF CallRecord
  <2>3. /\ rec.pc = "over" /\ rec.kept = call[c].kept /\ rec.done = call[c].done
        /\ rec.events = call[c].events /\ rec.handle = call[c].handle
        /\ rec.result = call[c].result /\ rec.outcome = call[c].outcome
    BY <1>0 DEF CallRecord
  <2>4. call[c].pc = "signal" /\ UNCHANGED <<host, ready, interims>> /\ Become(c, rec)
        /\ task[c].pc # "new"
    BY <1>0, <1>10 DEF Signal, PyFits, FutureFits
  <2> HIDE DEF rec
  <2>5. call'[c] = rec => PyFits(c)'
    BY <1>0, <1>4, <2>3, <2>4 DEF PyFits, NumberFits, FutureFits, HandleFits, Told
  <2> QED
    BY <2>1, <2>4, <2>5, PyEntry
<1>11. CASE Queue(c)
  <2> DEFINE rec == [call[c] EXCEPT !.pc = "signal"]
  <2>1. rec \in CallRecord
    BY <1>0 DEF CallRecord
  <2>3. /\ rec.pc = "signal" /\ rec.kept = call[c].kept /\ rec.done = call[c].done
        /\ rec.events = call[c].events /\ rec.handle = call[c].handle
        /\ rec.result = call[c].result /\ rec.outcome = call[c].outcome
    BY <1>0 DEF CallRecord
  <2>4. /\ call[c].pc = "queue" /\ UNCHANGED <<host, interims>> /\ Become(c, rec)
        /\ ready' = Append(ready, c) /\ task[c].pc # "new"
    BY <1>0, <1>11 DEF Queue, Queued, PyFits, FutureFits
  <2>5. /\ call'[c] = rec
        /\ \A d \in Calls : d # c => call'[d] = call[d]
    BY <1>0, <2>1, <2>4, Rewritten DEF AsyncTypes
  <2> HIDE DEF rec
  <2>6. \A d \in Calls : Copies(d, ready') = Copies(d, ready) + (IF d = c THEN 1 ELSE 0)
    BY <1>0, <2>4, CopiesAppend
  <2>7. ASSUME NEW d \in Calls, d # c PROVE PyFits(d)'
    <3>1. Copies(d, ready) \in Nat
      BY <1>0, PyCounts
    <3>2. Copies(d, ready') = Copies(d, ready)
      BY <2>6, <2>7, <3>1
    <3>3. PySame(d)
      BY <1>1, <2>4, <2>5, <2>7, <3>2 DEF PySame, Told, OnItsWay, Settles, InHand, ToDeliver
    <3> QED
      BY <3>3, PySameKept DEF PythonInv
  <2>8. Told(c)' = Told(c)
    <3>1. Copies(c, ready') = Copies(c, ready) + 1
      BY <2>6
    <3>2. Settles(c)' = Settles(c) /\ (InHand(c)' <=> InHand(c))
      BY <1>1 DEF Settles, InHand
    <3> QED
      BY <1>3, <2>3, <2>4, <2>5, <3>1, <3>2 DEF Told
  <2>9. PyFits(c)'
    <3>1. /\ interims'[c] = interims[c] /\ task'[c] = task[c] /\ (c \in stash' <=> c \in stash)
          /\ (OnItsWay(c)' <=> OnItsWay(c))
      BY <1>1, <2>4 DEF Settles, ToDeliver, OnItsWay
    <3> QED
      BY <1>0, <2>3, <2>4, <2>5, <2>8, <3>1 DEF PyFits, NumberFits, FutureFits, HandleFits
  <2>10. ThreadListens'
    BY <1>1 DEF PythonInv, ThreadListens
  <2> QED
    BY <2>7, <2>9, <2>10 DEF PythonInv
<1>12. ~QueueInterim(c)
  BY <1>0 DEF QueueInterim, PyFits, NumberFits
<1> QED
  BY <1>5, <1>6, <1>7, <1>8, <1>9, <1>10, <1>11, <1>12 DEF Goroutine

(* A step of Python's side about one call.                                  *)
LEMMA PyTurn ==
  ASSUME PythonInv, host = "python", NEW c \in Calls, UNCHANGED <<host, ready, interims>>,
         \A d \in Calls \ {c} :
           /\ call'[d] = call[d] /\ task'[d] = task[d] /\ Settles(d)' = Settles(d)
           /\ (d \in stash' <=> d \in stash) /\ (d \in waiters' <=> d \in waiters)
           /\ (InHand(d)' <=> InHand(d)) /\ (ToDeliver(d)' <=> ToDeliver(d)),
         PyFits(c)', ThreadListens'
  PROVE  PythonInv'
<1>1. ASSUME NEW d \in Calls, d # c PROVE PyFits(d)'
  <2>1. /\ call'[d] = call[d] /\ task'[d] = task[d] /\ Settles(d)' = Settles(d)
        /\ (d \in stash' <=> d \in stash) /\ (d \in waiters' <=> d \in waiters)
        /\ (InHand(d)' <=> InHand(d)) /\ (ToDeliver(d)' <=> ToDeliver(d))
    BY <1>1
  <2>2. PySame(d)
    BY <2>1 DEF PySame, Told, OnItsWay
  <2> QED
    BY <2>2, PySameKept DEF PythonInv
<1> QED
  BY <1>1 DEF PythonInv

(* A number that comes out of the last place it was in: its call is no      *)
(* longer in the table, unless it never was announced.                      *)
LEMMA Consumed ==
  ASSUME AsyncTypes, PyTypes, NEW c \in Calls, NumberFits(c), Told(c) # 0, call[c] \in CallRecord,
         call'[c] = IF Takeable(c) THEN TakenCall(call[c]) ELSE call[c], CallPlaced(c)
  PROVE  ~call'[c].kept /\ call'[c].pc # "new" /\ (call[c].kept => Takeable(c))
<1>1. call[c].kept => call[c].done /\ Takeable(c)
  BY DEF NumberFits, Takeable
<1>2. call[c].pc # "new"
  BY DEF NumberFits, CallPlaced
<1> QED
  BY <1>1, <1>2 DEF TakenCall, CallRecord

LEMMA TurnPy ==
  ASSUME CompletionsInv, PythonInv, host = "python", NEW c \in Calls,
         StartTask(c) \/ LoopTurn(c) \/ CancelTask(c)
  PROVE  PythonInv'
<1>0. /\ AsyncTypes /\ PyTypes /\ InvOf(c) /\ PyFits(c) /\ call[c] \in CallRecord
      /\ ResumedOnce /\ ThreadListens
      /\ task[c] \in TaskRecord /\ call \in [Calls -> CallRecord] /\ task \in [Calls -> TaskRecord]
  BY DEF CompletionsInv, Types, AsyncTypes, PyTypes, PythonInv
<1>1. Copies(c, ready) \in Nat /\ Settles(c) \in Nat
  BY <1>0, PyCounts
<1>p. CallPlaced(c) /\ TaskPlaced(c) /\ NumberFits(c) /\ FutureFits(c) /\ HandleFits(c)
  BY <1>0 DEF InvOf, PyFits
<1>2. ASSUME NEW t \in TaskRecord, task' = [task EXCEPT ![c] = t]
      PROVE  task'[c] = t /\ \A d \in Calls \ {c} : task'[d] = task[d]
  BY <1>0, <1>2
<1>r. ASSUME NEW rec \in CallRecord, Become(c, rec)
      PROVE  call'[c] = rec /\ \A d \in Calls \ {c} : call'[d] = call[d]
  BY <1>0, <1>r DEF Become
<1>h. ASSUME UNCHANGED reaper
      PROVE  \A d \in Calls : (InHand(d)' <=> InHand(d)) /\ (ToDeliver(d)' <=> ToDeliver(d))
  BY <1>h DEF InHand, ToDeliver
<1>s. ASSUME UNCHANGED callbacks
      PROVE  \A d \in Calls : Settles(d)' = Settles(d)
  BY <1>s DEF Settles
<1>m. ASSUME callbacks # <<>>, Head(callbacks) = [do |-> "resume", n |-> c],
             callbacks' = Tail(callbacks)
      PROVE  \A d \in Calls : Settles(d)' = Settles(d)
  BY <1>0, <1>m, SettlesLess
<1>3. CASE StartTask(c)
  <2> DEFINE rec == [call[c] EXCEPT !.pc = "work", !.kept = TRUE, !.outcome = "running"]
             t == [task[c] EXCEPT !.pc = "started"]
  <2>1. /\ rec \in CallRecord /\ rec.pc = "work" /\ rec.kept /\ rec.outcome = "running"
        /\ rec.done = call[c].done /\ rec.handle = call[c].handle /\ rec.events = call[c].events
        /\ rec.result = call[c].result
        /\ t \in TaskRecord /\ t.pc = "started" /\ t.future = task[c].future
        /\ t.spilt = task[c].spilt
    BY <1>0 DEF CallRecord, TaskRecord
  <2>2. /\ Become(c, rec) /\ NativeOnly /\ task' = [task EXCEPT ![c] = t]
        /\ UNCHANGED <<waiters, stash, reaper, callbacks>> /\ call[c].pc = "new"
    BY <1>3 DEF StartTask, Started
  <2> HIDE DEF rec, t
  <2>3. task[c].pc = "new" /\ ~call[c].kept /\ ~call[c].done /\ call[c].handle = "none"
    BY <1>p, <2>2 DEF CallPlaced
  <2>4. UNCHANGED <<host, ready, interims>>
    BY <2>2 DEF NativeOnly
  <2>5. call'[c] = rec /\ task'[c] = t
        /\ \A d \in Calls \ {c} : call'[d] = call[d] /\ task'[d] = task[d]
    BY <1>2, <1>r, <2>1, <2>2
  <2>6. /\ (OnItsWay(c)' <=> OnItsWay(c)) /\ (InHand(c)' <=> InHand(c))
        /\ Settles(c)' = Settles(c)
    BY <1>h, <1>s, <2>2 DEF OnItsWay
  <2>7. Told(c)' = Told(c)
    BY <2>1, <2>2, <2>4, <2>5, <2>6 DEF Told
  <2>8. PyFits(c)'
    BY <1>p, <2>1, <2>2, <2>3, <2>4, <2>5, <2>6, <2>7
    DEF PyFits, NumberFits, FutureFits, HandleFits
  <2>9. ThreadListens'
    BY <1>0, <2>2 DEF ThreadListens
  <2> QED
    BY <1>h, <1>s, <2>2, <2>4, <2>5, <2>8, <2>9, PyTurn
<1>4. CASE RegisterReady(c)
  <2> DEFINE rec == [call[c] EXCEPT !.outcome = "delivered"]
             t == [task[c] EXCEPT !.pc = "over", !.future = "ok"]
  <2>1. /\ rec \in CallRecord /\ rec.pc = call[c].pc /\ rec.kept = call[c].kept
        /\ rec.outcome = "delivered" /\ rec.done = call[c].done /\ rec.handle = call[c].handle
        /\ rec.events = call[c].events /\ rec.result = call[c].result
        /\ t \in TaskRecord /\ t.pc = "over" /\ t.future = "ok" /\ t.spilt = task[c].spilt
    BY <1>0 DEF CallRecord, TaskRecord
  <2>2. /\ Become(c, rec) /\ NativeOnly /\ task' = [task EXCEPT ![c] = t]
        /\ UNCHANGED <<waiters, reaper, callbacks>> /\ stash' = stash \ {c} /\ c \in stash
        /\ task[c].pc = "started"
    BY <1>0, <1>4 DEF RegisterReady, TaskRecord
  <2> HIDE DEF rec, t
  <2>3. ~call[c].kept
    BY <1>p, <2>2 DEF FutureFits
  <2>4. UNCHANGED <<host, ready, interims>>
    BY <2>2 DEF NativeOnly
  <2>5. call'[c] = rec /\ task'[c] = t
        /\ \A d \in Calls \ {c} : call'[d] = call[d] /\ task'[d] = task[d]
    BY <1>2, <1>r, <2>1, <2>2
  <2>6. (OnItsWay(c)' <=> OnItsWay(c)) /\ (InHand(c)' <=> InHand(c)) /\ Settles(c)' = Settles(c)
    BY <1>h, <1>s, <2>2 DEF OnItsWay
  <2>7. Told(c)' = Told(c)
    BY <2>1, <2>2, <2>4, <2>5, <2>6 DEF Told
  <2>8. PyFits(c)'
    BY <1>p, <2>1, <2>2, <2>3, <2>4, <2>5, <2>6, <2>7
    DEF PyFits, NumberFits, FutureFits, HandleFits
  <2>9. ThreadListens'
    BY <1>0, <2>2 DEF ThreadListens
  <2> QED
    BY <1>h, <1>s, <2>2, <2>4, <2>5, <2>8, <2>9, PyTurn
<1>5. CASE Register(c)
  <2> DEFINE t == [task[c] EXCEPT !.pc = "await", !.future = "pending"]
  <2>1. t \in TaskRecord /\ t.pc = "await" /\ t.future = "pending" /\ t.spilt = task[c].spilt
    BY <1>0 DEF TaskRecord
  <2>2. /\ UNCHANGED <<asyncVars, stash, callbacks>> /\ task' = [task EXCEPT ![c] = t]
        /\ waiters' = waiters \cup {c} /\ task[c].pc = "started" /\ c \notin stash
        /\ \/ reaper' = reaper /\ reaper.pc # "off"
           \/ reaper' = [pc |-> "check", n |-> NoCall] /\ reaper.pc = "off"
    BY <1>0, <1>5 DEF Register, TaskRecord
  <2> HIDE DEF t
  <2>3. \A d \in Calls : (InHand(d)' <=> InHand(d)) /\ (ToDeliver(d)' <=> ToDeliver(d))
    BY <2>2 DEF InHand, ToDeliver
  <2>4. UNCHANGED <<host, ready, interims, call>>
    BY <2>2 DEF asyncVars
  <2>5. task'[c] = t /\ \A d \in Calls \ {c} : task'[d] = task[d]
    BY <1>2, <2>1, <2>2
  <2>6. Settles(c)' = Settles(c) /\ OnItsWay(c)'
    BY <1>s, <2>2 DEF OnItsWay
  <2>7. Told(c)' = Told(c)
    BY <2>2, <2>3, <2>4, <2>6 DEF Told
  <2>8. PyFits(c)'
    BY <1>p, <2>1, <2>2, <2>4, <2>5, <2>6, <2>7 DEF PyFits, NumberFits, FutureFits, HandleFits
  <2>9. ThreadListens'
    BY <2>2 DEF ThreadListens
  <2> QED
    BY <1>s, <2>2, <2>3, <2>4, <2>5, <2>8, <2>9, PyTurn
<1>6. CASE CancelTask(c)
  <2>1. /\ task[c].pc = "await" /\ UNCHANGED <<asyncVars, waiters, stash, reaper>>
    BY <1>6 DEF CancelTask
  <2>2. PICK t \in TaskRecord :
          /\ task' = [task EXCEPT ![c] = t] /\ t.pc = "await" /\ t.spilt = task[c].spilt
          /\ \/ task[c].future = "pending" /\ t.future = "cancelled" /\ Soon("resume", c)
             \/ t.future = task[c].future /\ callbacks' = callbacks
    <3>1. CASE task[c].future = "pending"
      <4> DEFINE t == [task[c] EXCEPT !.future = "cancelled"]
      <4>1. /\ task' = [task EXCEPT ![c] = t] /\ Soon("resume", c) /\ t \in TaskRecord
            /\ t.pc = "await" /\ t.future = "cancelled" /\ t.spilt = task[c].spilt
        BY <1>0, <1>6, <2>1, <3>1 DEF CancelTask, TaskRecord
      <4> QED
        BY <3>1, <4>1
    <3>2. CASE task[c].future # "pending"
      <4> DEFINE t == [task[c] EXCEPT !.doomed = TRUE]
      <4>1. /\ task' = [task EXCEPT ![c] = t] /\ callbacks' = callbacks /\ t \in TaskRecord
            /\ t.pc = "await" /\ t.future = task[c].future /\ t.spilt = task[c].spilt
        BY <1>0, <1>6, <2>1, <3>2 DEF CancelTask, TaskRecord
      <4> QED
        BY <4>1
    <3> QED
      BY <3>1, <3>2
  <2>3. \A d \in Calls : Settles(d)' = Settles(d)
    <3>1. CASE Soon("resume", c)
      <4>1. \A d \in Calls : Settles(d) \in Nat
        BY <1>0, PyCounts
      <4> QED
        BY <1>0, <3>1, <4>1, SettlesMore
    <3> QED
      BY <1>s, <2>2, <3>1
  <2>4. UNCHANGED <<host, ready, interims, call>>
    BY <2>1 DEF asyncVars
  <2>5. task'[c] = t /\ \A d \in Calls \ {c} : task'[d] = task[d]
    BY <1>2, <2>2
  <2>6. /\ (OnItsWay(c)' <=> OnItsWay(c)) /\ (InHand(c)' <=> InHand(c))
        /\ Settles(c)' = Settles(c)
    BY <1>h, <2>1, <2>3 DEF OnItsWay
  <2>7. Told(c)' = Told(c)
    BY <2>1, <2>4, <2>6 DEF Told
  <2>8. PyFits(c)'
    BY <1>p, <2>1, <2>2, <2>4, <2>5, <2>6, <2>7 DEF PyFits, NumberFits, FutureFits, HandleFits
  <2>9. ThreadListens'
    BY <1>0, <2>1 DEF ThreadListens
  <2> QED
    BY <1>h, <2>1, <2>3, <2>4, <2>5, <2>8, <2>9, PyTurn
<1>7. CASE SettleLate(c)
  <2> DEFINE rec == IF Takeable(c) THEN TakenCall(call[c]) ELSE call[c]
             t == [task[c] EXCEPT !.spilt = @ \/ Takeable(c)]
  <2>1. /\ rec \in CallRecord /\ rec.pc = call[c].pc /\ rec.done = call[c].done
        /\ rec.handle = call[c].handle /\ rec.outcome = call[c].outcome
        /\ rec.events = call[c].events /\ rec.result = call[c].result
    BY <1>0 DEF CallRecord, TakenCall
  <2>t. /\ t \in TaskRecord /\ t.pc = task[c].pc /\ t.future = task[c].future
        /\ task[c].spilt \/ Takeable(c) => t.spilt
    BY <1>0 DEF TaskRecord, CallRecord, Takeable
  <2>2. /\ Become(c, rec) /\ NativeOnly /\ callbacks # <<>> /\ task[c].future # "pending"
        /\ Head(callbacks) = [do |-> "settle", n |-> c] /\ callbacks' = Tail(callbacks)
        /\ UNCHANGED <<waiters, stash, reaper>> /\ task' = [task EXCEPT ![c] = t]
    BY <1>0, <1>7 DEF SettleLate, Due
  <2> HIDE DEF t
  <2>3. UNCHANGED <<host, ready, interims>>
    BY <2>2 DEF NativeOnly
  <2>4. call'[c] = rec /\ task'[c] = t
        /\ \A d \in Calls \ {c} : call'[d] = call[d] /\ task'[d] = task[d]
    BY <1>2, <1>r, <2>1, <2>2, <2>t
  <2>5. /\ Settles(c) = Settles(c)' + 1 /\ Settles(c)' \in Nat
        /\ \A d \in Calls \ {c} : Settles(d)' = Settles(d)
    <3>1. \A d \in Calls : /\ Settles(d)' \in Nat
                           /\ Settles(d) = Settles(d)' + (IF d = c THEN 1 ELSE 0)
      BY <1>0, <2>2, SettlesLess
    <3> QED
      BY <3>1
  <2>6. Settles(c) # 0 /\ Told(c) # 0
    <3> DEFINE queue == IF call[c].pc = "queue" THEN 1 ELSE 0
               hand == IF InHand(c) THEN 1 ELSE 0
    <3>1. queue \in Nat /\ hand \in Nat
      OBVIOUS
    <3>2. Told(c) = Copies(c, ready) + queue + hand + Settles(c)
      BY DEF Told
    <3> HIDE DEF queue, hand
    <3> QED
      BY <1>1, <2>5, <3>1, <3>2
  <2>7. ~call'[c].kept /\ call'[c].pc # "new" /\ (call[c].kept => Takeable(c))
    BY <1>0, <1>p, <2>4, <2>6, Consumed
  <2> HIDE DEF rec
  <2>8. task[c].future # "none" /\ (call[c].kept => task[c].future = "cancelled")
    BY <1>0, <1>p, <2>2, <2>6 DEF FutureFits, OnItsWay, TaskRecord
  <2>9. OnItsWay(c)' => OnItsWay(c)
    BY <2>6 DEF OnItsWay
  <2>10. PyFits(c)'
    BY <1>p, <2>1, <2>t, <2>2, <2>3, <2>4, <2>7, <2>8, <2>9
    DEF PyFits, NumberFits, FutureFits, HandleFits
  <2>11. ThreadListens'
    BY <1>0, <2>2 DEF ThreadListens
  <2> QED
    BY <1>h, <2>2, <2>3, <2>4, <2>5, <2>10, <2>11, PyTurn
<1>8. CASE Settle(c)
  <2> DEFINE rec == TakenCall(call[c])
             t == [task[c] EXCEPT !.future = call[c].result]
             rest == Tail(callbacks)
  <2>1. /\ rec \in CallRecord /\ rec.pc = call[c].pc /\ rec.done = call[c].done
        /\ rec.handle = call[c].handle /\ rec.outcome = call[c].outcome
        /\ rec.events = call[c].events /\ rec.result = call[c].result /\ ~rec.kept
        /\ t \in TaskRecord /\ t.pc = task[c].pc /\ t.future = call[c].result
        /\ t.spilt = task[c].spilt
    BY <1>0 DEF CallRecord, TaskRecord, TakenCall
  <2>2. /\ Become(c, rec) /\ NativeOnly /\ callbacks # <<>> /\ task[c].future = "pending"
        /\ Head(callbacks) = [do |-> "settle", n |-> c]
        /\ callbacks' = Append(rest, [do |-> "resume", n |-> c])
        /\ UNCHANGED <<waiters, stash, reaper>> /\ task' = [task EXCEPT ![c] = t] /\ Takeable(c)
    BY <1>0, <1>8 DEF Settle, Due
  <2> HIDE DEF rec, t
  <2>3. UNCHANGED <<host, ready, interims>>
    BY <2>2 DEF NativeOnly
  <2>4. call'[c] = rec /\ task'[c] = t
        /\ \A d \in Calls \ {c} : call'[d] = call[d] /\ task'[d] = task[d]
    BY <1>2, <1>r, <2>1, <2>2
  <2>5. /\ Settles(c) = Settles(c)' + 1 /\ Settles(c)' \in Nat
        /\ \A d \in Calls \ {c} : Settles(d)' = Settles(d)
    <3> DEFINE Callback == [do: {"settle", "resume"}, n: Calls]
               first == [do |-> "settle", n |-> c]
               new == [do |-> "resume", n |-> c]
    <3>1. callbacks \in Seq(Callback) /\ rest \in Seq(Callback) /\ first \in Callback
          /\ new \in Callback
      BY <1>0, <2>2 DEF PyTypes
    <3>2. \A d \in Calls : /\ ([do |-> "settle", n |-> d] = first <=> d = c)
                           /\ [do |-> "settle", n |-> d] # new
      OBVIOUS
    <3> HIDE DEF Callback, first, new, rest
    <3>3. ASSUME NEW d \in Calls
          PROVE  /\ Settles(d) = Settles(d)' + (IF d = c THEN 1 ELSE 0)
                 /\ Settles(d)' \in Nat
      <4> DEFINE due == [do |-> "settle", n |-> d]
      <4>1. due # new /\ (due = first <=> d = c)
        BY <3>2
      <4> HIDE DEF due
      <4>2. Copies(due, callbacks) = Copies(due, rest) + (IF due = first THEN 1 ELSE 0)
        BY <2>2, <3>1, CopiesTail DEF rest, first
      <4>3. Copies(due, callbacks') = Copies(due, rest) + (IF due = new THEN 1 ELSE 0)
        BY <2>2, <3>1, CopiesAppend DEF new
      <4>4. Copies(due, rest) \in Nat
        BY <3>1, CopiesType
      <4> QED
        BY <4>1, <4>2, <4>3, <4>4 DEF Settles, due
    <3> QED
      BY <3>3
  <2>6. Settles(c) # 0
    BY <2>5
  <2>7. task[c].pc = "await" /\ call[c].done /\ call[c].pc # "new" /\ call[c].kept
    BY <1>p, <2>2 DEF TaskPlaced, Takeable, CallPlaced
  <2>8. /\ t.future # "none" => t.future \in {"ok", "err"}
        /\ call[c].handle # "none" => t.future = "ok"
    BY <1>0, <1>p, <2>1 DEF HandleFits, CallRecord
  <2>9. OnItsWay(c)' => OnItsWay(c)
    BY <2>6 DEF OnItsWay
  <2>10. c \notin stash
    BY <1>p, <2>7 DEF FutureFits
  <2>11. PyFits(c)'
    <3>1. NumberFits(c)'
      BY <1>p, <2>1, <2>3, <2>4, <2>7 DEF NumberFits
    <3>2. t.future # "none"
      BY <1>p, <2>1, <2>7 DEF FutureFits, CallPlaced, Working
    <3>3. FutureFits(c)'
      BY <1>p, <2>1, <2>2, <2>4, <2>7, <2>8, <2>10, <3>2 DEF FutureFits
    <3>4. HandleFits(c)'
      BY <1>p, <2>1, <2>2, <2>4, <2>7, <2>8 DEF HandleFits
    <3> QED
      BY <3>1, <3>3, <3>4 DEF PyFits
  <2>12. ThreadListens'
    BY <1>0, <2>2 DEF ThreadListens
  <2> QED
    BY <1>h, <2>2, <2>3, <2>4, <2>5, <2>11, <2>12, PyTurn
<1>9. CASE Resume(c)
  <2> DEFINE rec == [call[c] EXCEPT !.outcome = "delivered"]
             t == [task[c] EXCEPT !.pc = "over"]
  <2>1. /\ rec \in CallRecord /\ rec.pc = call[c].pc /\ rec.kept = call[c].kept
        /\ rec.outcome = "delivered" /\ rec.done = call[c].done /\ rec.handle = call[c].handle
        /\ rec.events = call[c].events /\ rec.result = call[c].result
        /\ t \in TaskRecord /\ t.pc = "over" /\ t.future = task[c].future
        /\ t.spilt = task[c].spilt
    BY <1>0 DEF CallRecord, TaskRecord
  <2>2. /\ Become(c, rec) /\ NativeOnly /\ task' = [task EXCEPT ![c] = t]
        /\ UNCHANGED <<waiters, stash, reaper>> /\ callbacks # <<>>
        /\ Head(callbacks) = [do |-> "resume", n |-> c] /\ callbacks' = Tail(callbacks)
        /\ task[c].future \in {"ok", "err"}
    BY <1>9 DEF Resume, Due
  <2> HIDE DEF rec, t
  <2>3. task[c].pc = "await"
    BY <1>0, <2>2, DueToResume
  <2>4. UNCHANGED <<host, ready, interims>>
    BY <2>2 DEF NativeOnly
  <2>5. call'[c] = rec /\ task'[c] = t
        /\ \A d \in Calls \ {c} : call'[d] = call[d] /\ task'[d] = task[d]
    BY <1>2, <1>r, <2>1, <2>2
  <2>6. \A d \in Calls : Settles(d)' = Settles(d)
    BY <1>0, <1>m, <2>2
  <2>7. (OnItsWay(c)' <=> OnItsWay(c)) /\ (InHand(c)' <=> InHand(c))
    BY <1>h, <2>2, <2>6 DEF OnItsWay
  <2>8. Told(c)' = Told(c)
    BY <2>1, <2>2, <2>4, <2>5, <2>6, <2>7 DEF Told
  <2>9. PyFits(c)'
    BY <1>p, <2>1, <2>2, <2>3, <2>4, <2>5, <2>7, <2>8
    DEF PyFits, NumberFits, FutureFits, HandleFits
  <2>10. ThreadListens'
    BY <1>0, <2>2 DEF ThreadListens
  <2> QED
    BY <1>h, <2>2, <2>4, <2>5, <2>6, <2>9, <2>10, PyTurn
<1>10. CASE Forget(c)
  <2> DEFINE t == [task[c] EXCEPT !.pc = "forgot"]
  <2>1. t \in TaskRecord /\ t.pc = "forgot" /\ t.future = task[c].future /\ t.spilt = task[c].spilt
    BY <1>0 DEF TaskRecord
  <2>2. /\ UNCHANGED <<asyncVars, reaper>> /\ waiters' = waiters \ {c} /\ stash' = stash \ {c}
        /\ callbacks # <<>> /\ Head(callbacks) = [do |-> "resume", n |-> c]
        /\ callbacks' = Tail(callbacks) /\ task' = [task EXCEPT ![c] = t]
    BY <1>10 DEF Forget, Due
  <2> HIDE DEF t
  <2>3. task[c].pc = "await" /\ c \notin stash
    BY <1>0, <1>p, <2>2, DueToResume DEF FutureFits
  <2>4. UNCHANGED <<host, ready, interims, call>>
    BY <2>2 DEF asyncVars
  <2>5. task'[c] = t /\ \A d \in Calls \ {c} : task'[d] = task[d]
    BY <1>2, <2>1, <2>2
  <2>6. \A d \in Calls : Settles(d)' = Settles(d)
    BY <1>0, <1>m, <2>2
  <2>7. (OnItsWay(c)' => OnItsWay(c)) /\ (InHand(c)' <=> InHand(c))
    BY <1>h, <2>2, <2>6 DEF OnItsWay
  <2>8. Told(c)' = Told(c)
    BY <2>2, <2>4, <2>6, <2>7 DEF Told
  <2>9. PyFits(c)'
    BY <1>p, <2>1, <2>2, <2>3, <2>4, <2>5, <2>7, <2>8
    DEF PyFits, NumberFits, FutureFits, HandleFits
  <2>10. ThreadListens'
    BY <1>0, <2>2 DEF ThreadListens
  <2> QED
    BY <1>h, <2>2, <2>4, <2>5, <2>6, <2>9, <2>10, PyTurn
<1>11. CASE CancelNative(c)
  <2> DEFINE told == CancelledCall(call[c])
             left == IF task[c].future = "ok" THEN Discarded(told) ELSE told
             rec == [left EXCEPT !.outcome = "abandoned"]
             t == [task[c] EXCEPT !.pc = "over"]
  <2>1. t \in TaskRecord /\ t.pc = "over" /\ t.future = task[c].future /\ t.spilt = task[c].spilt
    BY <1>0 DEF TaskRecord
  <2>2. /\ Become(c, rec) /\ NativeOnly /\ UNCHANGED <<waiters, stash, reaper, callbacks>>
        /\ task' = [task EXCEPT ![c] = t] /\ task[c].pc = "forgot"
    BY <1>11 DEF CancelNative
  <2>3. /\ told \in CallRecord
        /\ told.pc = call[c].pc /\ told.done = call[c].done /\ told.events = call[c].events
        /\ ~call[c].kept => told = call[c]
        /\ call[c].kept /\ ~call[c].done =>
             told.kept /\ told.dropped /\ told.handle = call[c].handle
        /\ call[c].kept /\ call[c].done => ~told.kept /\ told.handle # "open"
        /\ told.handle = call[c].handle \/ (call[c].handle = "open" /\ told.handle = "closed")
    BY <1>0, CancelledEntry
  <2>4. told.result = call[c].result
    BY <1>0 DEF CallRecord, CancelledCall, Discarded
  <2> HIDE DEF told, t
  <2>5. /\ rec \in CallRecord /\ rec.outcome = "abandoned"
        /\ rec.pc = told.pc /\ rec.done = told.done /\ rec.events = told.events
        /\ rec.kept = told.kept /\ rec.result = told.result
        /\ task[c].future = "ok" => rec.handle # "open"
        /\ rec.handle = "open" => told.handle = "open"
        /\ rec.handle # "none" => told.handle # "none"
    BY <2>3 DEF CallRecord, Discarded
  <2> HIDE DEF rec
  <2>6. /\ call[c].outcome = "running" /\ call[c].pc # "new"
        /\ call[c].kept /\ ~call[c].done /\ call[c].handle # "none" => call[c].pc = "finish"
    BY <1>p, <2>2 DEF TaskPlaced, CallPlaced, Working
  <2>7. UNCHANGED <<host, ready, interims>>
    BY <2>2 DEF NativeOnly
  <2>8. call'[c] = rec /\ task'[c] = t
        /\ \A d \in Calls \ {c} : call'[d] = call[d] /\ task'[d] = task[d]
    BY <1>2, <1>r, <2>1, <2>2, <2>5
  <2>9. (OnItsWay(c)' <=> OnItsWay(c)) /\ (InHand(c)' <=> InHand(c)) /\ Settles(c)' = Settles(c)
    BY <1>h, <1>s, <2>2 DEF OnItsWay
  <2>10. Told(c)' = Told(c)
    BY <2>2, <2>3, <2>5, <2>7, <2>8, <2>9 DEF Told
  <2>11. PyFits(c)'
    <3>1. NumberFits(c)' /\ FutureFits(c)'
      BY <1>p, <2>1, <2>2, <2>3, <2>4, <2>5, <2>6, <2>7, <2>8, <2>9, <2>10
      DEF NumberFits, FutureFits
    <3>2. HandleFits(c)'
      <4>1. CASE call[c].kept
        BY <1>p, <2>1, <2>2, <2>3, <2>4, <2>5, <2>6, <2>8, <4>1 DEF HandleFits
      <4>2. CASE ~call[c].kept
        BY <1>p, <2>1, <2>2, <2>3, <2>4, <2>5, <2>6, <2>8, <4>2 DEF HandleFits, FutureFits
      <4> QED
        BY <4>1, <4>2
    <3> QED
      BY <3>1, <3>2 DEF PyFits
  <2>12. ThreadListens'
    BY <1>0, <2>2 DEF ThreadListens
  <2> QED
    BY <1>h, <1>s, <2>2, <2>7, <2>8, <2>11, <2>12, PyTurn
<1> QED
  BY <1>3, <1>4, <1>5, <1>6, <1>7, <1>8, <1>9, <1>10, <1>11 DEF LoopTurn

(* The thread hands a number on, or sets its result aside.                  *)
LEMMA ReaperPy ==
  ASSUME CompletionsInv, PythonInv, host = "python", Reaper
  PROVE  PythonInv'
<1>0. /\ AsyncTypes /\ PyTypes /\ ready \in Seq(Calls) /\ ThreadListens
      /\ call \in [Calls -> CallRecord] /\ task \in [Calls -> TaskRecord]
      /\ \A d \in Calls : InvOf(d) /\ PyFits(d) /\ call[d] \in CallRecord
      /\ NoCall \notin Calls
  BY AsyncAssumption DEF CompletionsInv, Types, AsyncTypes, PyTypes, PythonInv
<1>1. \A d \in Calls : Copies(d, ready) \in Nat /\ Settles(d) \in Nat
  BY <1>0, PyCounts
<1>2. CASE ReaperExit \/ ReaperStays \/ ReaperTimesOut
  <2>1. /\ UNCHANGED <<asyncVars, task, waiters, stash, callbacks>>
        /\ reaper.pc \in {"check", "wait"} /\ reaper'.pc \in {"off", "check", "wait"}
        /\ reaper'.pc = "off" => waiters = {}
    BY <1>2 DEF ReaperExit, ReaperStays, ReaperTimesOut, Reaps, Turns
  <2>2. ASSUME NEW d \in Calls PROVE PyFits(d)'
    <3>1. PySame(d)
      BY <2>1 DEF PySame, Told, OnItsWay, Settles, InHand, ToDeliver, asyncVars
    <3> QED
      BY <1>0, <3>1, PySameKept
  <2>3. ThreadListens'
    BY <2>1 DEF ThreadListens
  <2> QED
    BY <2>2, <2>3 DEF PythonInv
<1>3. CASE ReaperGets
  <2>1. /\ reaper.pc = "wait" /\ ready # <<>> /\ reaper' = [pc |-> "got", n |-> Head(ready)]
        /\ ready' = Tail(ready)
        /\ UNCHANGED <<host, call, interims, task, waiters, stash, callbacks>>
    BY <1>3 DEF ReaperGets, Reaps
  <2>2. \A d \in Calls : Copies(d, ready) = Copies(d, ready') + (IF d = Head(ready) THEN 1 ELSE 0)
    BY <1>0, <2>1, CopiesTail
  <2>3. \A d \in Calls : Copies(d, ready') \in Nat
    <3>1. ready' \in Seq(Calls)
      BY <1>0, <2>1
    <3> QED
      BY <3>1, CopiesType
  <2>4. ASSUME NEW d \in Calls PROVE PyFits(d)'
    <3>1. /\ ~InHand(d) /\ (InHand(d)' <=> d = Head(ready)) /\ ~ToDeliver(d) /\ ~ToDeliver(d)'
          /\ Settles(d)' = Settles(d)
      BY <2>1 DEF InHand, ToDeliver, Settles
    <3>2. Told(d)' = Told(d)
      <4> DEFINE queue == IF call[d].pc = "queue" THEN 1 ELSE 0
      <4>1. queue \in Nat
        OBVIOUS
      <4>2. Told(d) = Copies(d, ready) + queue + 0 + Settles(d)
        BY <3>1 DEF Told
      <4>3. Told(d)' = Copies(d, ready') + queue + (IF d = Head(ready) THEN 1 ELSE 0) + Settles(d)
        BY <2>1, <3>1 DEF Told
      <4> HIDE DEF queue
      <4> QED
        BY <1>1, <2>2, <2>3, <4>1, <4>2, <4>3
    <3>3. PySame(d)
      BY <2>1, <3>1, <3>2 DEF PySame, OnItsWay
    <3> QED
      BY <1>0, <3>3, PySameKept
  <2>5. ThreadListens'
    BY <2>1 DEF ThreadListens
  <2> QED
    BY <2>4, <2>5 DEF PythonInv
<1>4. CASE ReaperFindsWaiter
  <2>1. /\ reaper.pc = "got" /\ reaper.n \in waiters /\ waiters' = waiters \ {reaper.n}
        /\ reaper' = [reaper EXCEPT !.pc = "deliver"]
        /\ UNCHANGED <<asyncVars, task, stash, callbacks>>
    BY <1>4 DEF ReaperFindsWaiter, Reaps
  <2>2. reaper'.pc = "deliver" /\ reaper'.n = reaper.n
    BY <1>0, <2>1 DEF PyTypes
  <2>3. ASSUME NEW d \in Calls PROVE PyFits(d)'
    <3>1. PySame(d)
      BY <2>1, <2>2 DEF PySame, Told, OnItsWay, Settles, InHand, ToDeliver, asyncVars
    <3> QED
      BY <1>0, <3>1, PySameKept
  <2>4. ThreadListens'
    BY <2>2 DEF ThreadListens
  <2> QED
    BY <2>3, <2>4 DEF PythonInv
<1>5. CASE ReaperDelivers
  <2>1. /\ reaper.pc = "deliver" /\ reaper.n \in Calls /\ Soon("settle", reaper.n)
        /\ reaper' = [pc |-> "check", n |-> NoCall]
        /\ UNCHANGED <<asyncVars, task, waiters, stash>>
    BY <1>0, <1>5 DEF ReaperDelivers, Reaps, Turns, PyTypes
  <2>2. \A d \in Calls : Settles(d)' = Settles(d) + (IF d = reaper.n THEN 1 ELSE 0)
    BY <1>0, <2>1, SettlesMore
  <2>3. ASSUME NEW d \in Calls PROVE PyFits(d)'
    <3>1. /\ (InHand(d) <=> d = reaper.n) /\ ~InHand(d)' /\ (ToDeliver(d) <=> d = reaper.n)
          /\ ~ToDeliver(d)'
      BY <2>1 DEF InHand, ToDeliver
    <3>2. Told(d)' = Told(d)
      <4> DEFINE queue == IF call[d].pc = "queue" THEN 1 ELSE 0
      <4>1. queue \in Nat
        OBVIOUS
      <4>2. Told(d) = Copies(d, ready) + queue + (IF d = reaper.n THEN 1 ELSE 0) + Settles(d)
        BY <3>1 DEF Told
      <4>3. Told(d)' = Copies(d, ready) + queue + 0 + Settles(d)'
        BY <2>1, <3>1 DEF Told, asyncVars
      <4> HIDE DEF queue
      <4> QED
        BY <1>1, <2>2, <4>1, <4>2, <4>3
    <3>3. OnItsWay(d)' <=> OnItsWay(d)
      BY <1>1, <2>1, <2>2, <3>1 DEF OnItsWay
    <3>4. PySame(d)
      BY <2>1, <3>2, <3>3 DEF PySame, asyncVars
    <3> QED
      BY <1>0, <3>4, PySameKept
  <2>4. ThreadListens'
    BY <2>1 DEF ThreadListens
  <2> QED
    BY <2>3, <2>4 DEF PythonInv
<1>6. CASE ReaperSetsAside
  <2>1. PICK c \in Calls :
          /\ c = reaper.n /\ reaper.pc = "got" /\ c \notin waiters
          /\ Become(c, IF Takeable(c) THEN TakenCall(call[c]) ELSE call[c])
          /\ NativeOnly /\ UNCHANGED <<task, waiters, callbacks>>
          /\ stash' = IF Takeable(c) /\ call[c].result = "ok" THEN stash \cup {c} ELSE stash
          /\ reaper' = [pc |-> "check", n |-> NoCall]
    BY <1>0, <1>6 DEF ReaperSetsAside, Reaps, Turns, PyTypes
  <2> DEFINE rec == IF Takeable(c) THEN TakenCall(call[c]) ELSE call[c]
  <2>2. /\ rec \in CallRecord /\ rec.pc = call[c].pc /\ rec.done = call[c].done
        /\ rec.handle = call[c].handle /\ rec.outcome = call[c].outcome
        /\ rec.events = call[c].events /\ rec.result = call[c].result
    BY <1>0 DEF CallRecord, TakenCall
  <2>3. call'[c] = rec /\ \A d \in Calls \ {c} : call'[d] = call[d]
    BY <1>0, <2>1, <2>2 DEF Become
  <2>4. UNCHANGED <<host, ready, interims>>
    BY <2>1 DEF NativeOnly
  <2>5. /\ \A d \in Calls : Settles(d)' = Settles(d) /\ ~ToDeliver(d) /\ ~ToDeliver(d)'
        /\ \A d \in Calls \ {c} : ~InHand(d) /\ ~InHand(d)'
        /\ InHand(c)
    BY <2>1 DEF Settles, InHand, ToDeliver
  <2>6. Told(c) # 0 /\ (Settles(c) # 0 => Told(c) # 1)
    <3> DEFINE queue == IF call[c].pc = "queue" THEN 1 ELSE 0
    <3>1. queue \in Nat
      OBVIOUS
    <3>2. Told(c) = Copies(c, ready) + queue + 1 + Settles(c)
      BY <2>5 DEF Told
    <3> HIDE DEF queue
    <3> QED
      BY <1>1, <3>1, <3>2
  <2>7. /\ CallPlaced(c) /\ TaskPlaced(c) /\ NumberFits(c) /\ FutureFits(c) /\ HandleFits(c)
        /\ call[c] \in CallRecord /\ task[c] \in TaskRecord
    BY <1>0 DEF InvOf, PyFits
  <2>8. ~call'[c].kept /\ call'[c].pc # "new" /\ (call[c].kept => Takeable(c))
    BY <1>0, <2>3, <2>6, <2>7, Consumed
  <2>9. ASSUME Takeable(c)
        PROVE  task[c].pc = "started" \/ (task[c].pc # "await" /\ task[c].future = "cancelled")
    <3>1. call[c].kept /\ call[c].done /\ Told(c) = 1
      BY <2>7, <2>9 DEF Takeable, NumberFits
    <3>2. ~OnItsWay(c)
      BY <2>1, <2>5, <2>6, <3>1 DEF OnItsWay
    <3>3. task[c].pc # "await"
      BY <2>7, <3>1, <3>2 DEF NumberFits
    <3>4. task[c].pc # "new"
      BY <2>7, <2>8, <2>2, <2>3 DEF FutureFits
    <3>5. task[c].future \notin {"pending", "ok", "err"}
      BY <2>7, <3>1, <3>3 DEF FutureFits, TaskPlaced
    <3> QED
      BY <2>7, <3>3, <3>4, <3>5 DEF FutureFits, TaskRecord
  <2> HIDE DEF rec
  <2>10. PyFits(c)'
    <3>1. NumberFits(c)'
      BY <2>2, <2>3, <2>4, <2>7, <2>8 DEF NumberFits
    <3>2. OnItsWay(c)' => OnItsWay(c)
      BY <2>1, <2>5 DEF OnItsWay
    <3>3. FutureFits(c)'
      BY <2>1, <2>2, <2>3, <2>7, <2>8, <2>9, <3>2 DEF FutureFits
    <3>4. HandleFits(c)'
      BY <2>1, <2>2, <2>3, <2>7, <2>8 DEF HandleFits
    <3> QED
      BY <3>1, <3>3, <3>4 DEF PyFits
  <2>11. ASSUME NEW d \in Calls, d # c PROVE PyFits(d)'
    <3>1. PySame(d)
      BY <2>1, <2>3, <2>4, <2>5, <2>11 DEF PySame, Told, OnItsWay
    <3> QED
      BY <1>0, <3>1, PySameKept
  <2>12. ThreadListens'
    BY <2>1 DEF ThreadListens
  <2> QED
    BY <2>10, <2>11, <2>12 DEF PythonInv
<1> QED
  BY <1>2, <1>3, <1>4, <1>5, <1>6 DEF Reaper

(* Nothing of Python's is touched.                                          *)
LEMMA UntouchedPy ==
  ASSUME PythonInv, UNCHANGED <<host, call, ready, interims, pyVars>>
  PROVE  PythonInv'
<1>1. ASSUME NEW c \in Calls, PyFits(c) PROVE PyFits(c)'
  <2>1. PySame(c)
    BY DEF PySame, Told, OnItsWay, Settles, InHand, ToDeliver, pyVars
  <2> QED
    BY <1>1, <2>1, PySameKept
<1>2. ThreadListens => ThreadListens'
  BY DEF ThreadListens, pyVars
<1> QED
  BY <1>1, <1>2 DEF PythonInv

LEMMA PythonInvNext ==
  CompletionsInv /\ PythonInv /\ [CompletionsNext]_completionsVars => PythonInv'
<1> SUFFICES ASSUME CompletionsInv, PythonInv, [CompletionsNext]_completionsVars PROVE PythonInv'
  OBVIOUS
<1>1. host' = host
  BY DEF CompletionsNext, completionsVars, asyncVars, AsyncNext, Goroutine, Work, WorkOpens, Finish,
         Discard, Queue, Signal, QueueInterim, Interim, CloseHandle, HostStarts, HostCancels,
         SignalInterim, EventLoop, MakeEvent, EventMade, Wake, Poll, Lower, Recheck, TakeInterim,
         TakeResult, TakeNothing, StartTask, LoopTurn, RegisterReady, Register, SettleLate, Settle,
         Resume, Forget, CancelNative, CancelTask, NativeOnly, Reaper, ReaperExit, ReaperStays,
         ReaperGets, ReaperTimesOut, ReaperFindsWaiter, ReaperSetsAside, ReaperDelivers
<1>2. CASE host # "python"
  <2>1. UNCHANGED pyVars
    BY <1>2 DEF CompletionsNext, completionsVars, pyVars, StartTask, LoopTurn, RegisterReady, Register,
                SettleLate, Settle, Resume, Forget, CancelNative, CancelTask, Due, Idle, Reaper,
                ReaperExit, ReaperStays, ReaperGets, ReaperTimesOut, ReaperFindsWaiter,
                ReaperSetsAside, ReaperDelivers, Reaps
  <2> QED
    BY <1>1, <1>2, <2>1 DEF PythonInv, ThreadListens, pyVars
<1>3. CASE host = "python"
  <2>1. CASE AsyncNext /\ UNCHANGED pyVars
    <3>1. ~EventLoop
      BY <1>3 DEF EventLoop, LoopAt, MakeEvent, EventMade, Wake, Poll, Lower, Recheck,
                  TakeInterim, TakeResult, TakeNothing
    <3>2. \A c \in Calls : ~Interim(c) /\ ~HostStarts(c) /\ ~HostCancels(c)
      BY <1>3 DEF Interim, HostStarts, HostCancels, LoopAt
    <3>3. CASE SignalInterim
      <4>1. UNCHANGED <<call, ready, interims, pyVars>>
        BY <2>1, <3>3 DEF SignalInterim
      <4> QED
        BY <1>1, <4>1, UntouchedPy
    <3> QED
      BY <1>3, <2>1, <3>1, <3>2, <3>3, GoroutinePy DEF AsyncNext
  <2>2. ASSUME NEW c \in Calls, StartTask(c) \/ LoopTurn(c) \/ CancelTask(c) PROVE PythonInv'
    BY <1>3, <2>2, TurnPy
  <2>3. CASE Reaper
    BY <1>3, <2>3, ReaperPy
  <2>4. CASE UNCHANGED completionsVars
    BY <2>4, UntouchedPy DEF completionsVars, asyncVars
  <2> QED
    BY <2>1, <2>2, <2>3, <2>4 DEF CompletionsNext
<1> QED
  BY <1>2, <1>3

(* A finished call is announced once and someone listens for its number,    *)
(* and what a call opened has an owner, with any number of calls in any     *)
(* order on either host - but for the two results that a Python task        *)
(* cancelled at the wrong moment loses, which are named (lib/async.go,      *)
(* readyevent.go, _completions.py).                                         *)
THEOREM NothingGetsLost == CompletionsSpec => []NothingIsLost
<1>1. CompletionsInv /\ PythonInv => NothingIsLost
  <2> SUFFICES ASSUME CompletionsInv, PythonInv PROVE NothingIsLost
    OBVIOUS
  <2>1. CompletionsTypes
    BY DEF CompletionsInv, Types, PyTypes, CompletionsTypes
  <2>2. AnnouncedOnce
    BY DEF CompletionsInv, InvOf, Counted, Announced, AnnouncedOnce
  <2>3. (host = "event" => HandleHasOwner) /\ OrphanIsClosed
    BY DEF CompletionsInv, InvOf, Owned, HandleHasOwner, OrphanIsClosed
  <2>4. PythonAnnouncedOnce
    BY DEF PythonInv, PyFits, NumberFits, Told, InHand, Settles, PythonAnnouncedOnce
  <2>5. ThreadListens
    BY DEF PythonInv
  <2>6. PythonHandlesOwned
    BY DEF PythonInv, PyFits, HandleFits, PythonHandlesOwned
  <2> QED
    BY <2>1, <2>2, <2>3, <2>4, <2>5, <2>6 DEF CompletionsInv, NothingIsLost, ResultsKept
<1>2. CompletionsInit => CompletionsInv /\ PythonInv
  BY CompletionsInvInit, PythonInvInit
<1>3. CompletionsInv /\ PythonInv /\ [CompletionsNext]_completionsVars
        => CompletionsInv' /\ PythonInv'
  BY CompletionsInvNext, PythonInvNext
<1> QED
  BY <1>1, <1>2, <1>3, PTL DEF CompletionsSpec

-----------------------------------------------------------------------------
(* Each step is one of OneResult, or none                                  *)

(* What a rewritten entry shows of itself.                                  *)
LEMMA Shown ==
  ASSUME call \in [Calls -> CallRecord], NEW c \in Calls, NEW rec \in CallRecord, Become(c, rec)
  PROVE  /\ rec.outcome = call[c].outcome /\ rec.handle = call[c].handle
              => UNCHANGED One!oneResultVars
         /\ call[c].outcome = "unused" /\ rec.outcome = "running" /\ rec.handle = call[c].handle
              => One!Begin(c)
         /\ (/\ call[c].outcome \in {"running", "abandoned"} /\ call[c].handle = "none"
             /\ rec.outcome = call[c].outcome /\ rec.handle = "open")
              => One!Opens(c)
         /\ (/\ call[c].outcome = "running" /\ rec.outcome = "delivered"
             /\ call[c].handle # "closed" /\ rec.handle = call[c].handle)
              => One!Deliver(c)
         /\ (/\ call[c].outcome = "running" /\ rec.outcome = "abandoned"
             /\ \/ rec.handle = call[c].handle
                \/ call[c].handle = "open" /\ rec.handle = "closed")
              => One!Abandon(c)
         /\ (/\ call[c].outcome \in {"delivered", "abandoned"} /\ rec.outcome = call[c].outcome
             /\ call[c].handle = "open" /\ rec.handle = "closed")
              => One!Closes(c)
<1>1. [d \in Calls |-> call[d].outcome]'
        = [[d \in Calls |-> call[d].outcome] EXCEPT ![c] = rec.outcome]
  BY Rewritten
<1>2. [d \in Calls |-> call[d].handle]'
        = [[d \in Calls |-> call[d].handle] EXCEPT ![c] = rec.handle]
  BY Rewritten
<1>3. /\ rec.outcome = call[c].outcome
           => [d \in Calls |-> call[d].outcome]' = [d \in Calls |-> call[d].outcome]
      /\ rec.handle = call[c].handle
           => [d \in Calls |-> call[d].handle]' = [d \in Calls |-> call[d].handle]
  BY Rewritten
<1>4. rec.outcome = call[c].outcome /\ rec.handle = call[c].handle => UNCHANGED One!oneResultVars
  BY <1>3 DEF One!oneResultVars
<1> DEFINE out == [d \in Calls |-> call[d].outcome]
           hand == [d \in Calls |-> call[d].handle]
<1>5. out[c] = call[c].outcome /\ hand[c] = call[c].handle
  OBVIOUS
<1> USE DEF One!Begin, One!Opens, One!Deliver, One!Abandon, One!Closes, One!Closing
<1>6. call[c].outcome = "unused" /\ rec.outcome = "running" /\ rec.handle = call[c].handle
        => One!Begin(c)
  BY <1>1, <1>3, <1>5
<1>7. ASSUME call[c].outcome \in {"running", "abandoned"}, call[c].handle = "none",
             rec.outcome = call[c].outcome, rec.handle = "open"
      PROVE  One!Opens(c)
  <2>1. out' = out /\ hand' = [hand EXCEPT ![c] = "open"]
    BY <1>2, <1>3, <1>7
  <2> QED
    BY <1>5, <1>7, <2>1
<1>8. ASSUME call[c].outcome = "running", rec.outcome = "delivered",
             call[c].handle # "closed", rec.handle = call[c].handle
      PROVE  One!Deliver(c)
  <2>1. hand' = hand /\ out' = [out EXCEPT ![c] = "delivered"]
    BY <1>1, <1>3, <1>8
  <2> QED
    BY <1>5, <1>8, <2>1
<1>9. ASSUME call[c].outcome = "running", rec.outcome = "abandoned",
             \/ rec.handle = call[c].handle
             \/ call[c].handle = "open" /\ rec.handle = "closed"
      PROVE  One!Abandon(c)
  <2>1. out' = [out EXCEPT ![c] = "abandoned"]
    BY <1>1, <1>9
  <2>2. \/ hand' = hand
        \/ call[c].handle = "open" /\ hand' = [hand EXCEPT ![c] = "closed"]
    BY <1>2, <1>3, <1>9
  <2> QED
    BY <1>5, <1>9, <2>1, <2>2
<1>10. ASSUME call[c].outcome \in {"delivered", "abandoned"}, rec.outcome = call[c].outcome,
              call[c].handle = "open", rec.handle = "closed"
       PROVE  One!Closes(c)
  <2>1. out' = out /\ hand' = [hand EXCEPT ![c] = "closed"]
    BY <1>2, <1>3, <1>10
  <2> QED
    BY <1>5, <1>10, <2>1
<1> QED
  BY <1>4, <1>6, <1>7, <1>8, <1>9, <1>10, Zenon

(* A step of the asynchronous side or of the event loop is one of OneResult *)
(* for its call, or shows nothing.                                          *)
LEMMA NativeShown ==
  ASSUME CompletionsInv, AsyncNext
  PROVE  [One!Next]_(One!oneResultVars)
<1>0. call \in [Calls -> CallRecord]
  BY DEF CompletionsInv, Types, AsyncTypes
<1>1. ASSUME UNCHANGED call PROVE UNCHANGED One!oneResultVars
  BY <1>1 DEF One!oneResultVars
<1>2. ASSUME NEW c \in Calls,
             One!Begin(c) \/ One!Opens(c) \/ One!Deliver(c) \/ One!Abandon(c) \/ One!Closes(c)
      PROVE  One!Next
  BY <1>2 DEF One!Next
<1>3. ASSUME NEW c \in Calls, Goroutine(c) \/ Interim(c)
      PROVE  [One!Next]_(One!oneResultVars)
  <2>0. InvOf(c) /\ call[c] \in CallRecord
    BY <1>0 DEF CompletionsInv
  <2>1. CASE Work(c)
    <3> PICK res \in {"ok", "err"} : Become(c, [call[c] EXCEPT !.pc = "finish", !.result = res])
      BY <2>1, AsyncAssumption DEF Work, CompletionsInv, Types, AsyncTypes
    <3> DEFINE rec == [call[c] EXCEPT !.pc = "finish", !.result = res]
    <3>1. rec \in CallRecord /\ rec.outcome = call[c].outcome /\ rec.handle = call[c].handle
      BY <2>0 DEF CallRecord
    <3> QED
      BY <1>0, <3>1, Shown
  <2>2. CASE WorkOpens(c)
    <3> DEFINE rec == [call[c] EXCEPT !.pc = "finish", !.result = "ok", !.handle = "open"]
    <3>1. rec \in CallRecord /\ rec.outcome = call[c].outcome /\ rec.handle = "open"
      BY <2>0 DEF CallRecord
    <3>2. call[c].outcome \in {"running", "abandoned"} /\ call[c].handle = "none"
      BY <2>0, <2>2 DEF WorkOpens, InvOf, CallPlaced, Working
    <3>3. Become(c, rec)
      BY <2>2 DEF WorkOpens
    <3> HIDE DEF rec
    <3> QED
      BY <1>0, <1>2, <3>1, <3>2, <3>3, Shown
  <2>3. CASE Finish(c)
    <3> DEFINE rec == IF call[c].dropped
                      THEN [call[c] EXCEPT !.pc = "discard", !.done = TRUE, !.kept = FALSE]
                      ELSE [call[c] EXCEPT !.pc = "queue", !.done = TRUE]
    <3>1. rec \in CallRecord /\ rec.outcome = call[c].outcome /\ rec.handle = call[c].handle
      BY <2>0 DEF CallRecord
    <3>2. Become(c, rec)
      BY <2>3 DEF Finish
    <3> HIDE DEF rec
    <3> QED
      BY <1>0, <3>1, <3>2, Shown
  <2>4. CASE Discard(c)
    <3> DEFINE rec == [Discarded(call[c]) EXCEPT !.pc = "over"]
    <3>1. /\ rec \in CallRecord /\ rec.outcome = call[c].outcome
          /\ rec.handle = IF call[c].handle = "open" THEN "closed" ELSE call[c].handle
      BY <2>0 DEF CallRecord, Discarded
    <3>2. call[c].outcome = "abandoned"
      BY <2>0, <2>4 DEF Discard, InvOf, CallPlaced
    <3>3. Become(c, rec)
      BY <2>4 DEF Discard
    <3> HIDE DEF rec
    <3> QED
      BY <1>0, <1>2, <3>1, <3>2, <3>3, Shown
  <2>5. CASE Queue(c) \/ Signal(c) \/ Interim(c)
    <3> PICK rec \in CallRecord :
          Become(c, rec) /\ rec.outcome = call[c].outcome /\ rec.handle = call[c].handle
      <4>1. CASE Queue(c)
        BY <2>0, <4>1 DEF Queue, CallRecord
      <4>2. CASE Signal(c)
        BY <2>0, <4>2 DEF Signal, CallRecord
      <4>3. CASE Interim(c)
        <5> DEFINE rec == [call[c] EXCEPT !.events = @ + 1, !.seen = @ + 1]
        <5>1. call[c].seen < MaxInterim /\ call[c].events <= call[c].seen
          BY <2>0, <4>3 DEF Interim, InvOf, CallPlaced
        <5>2. rec \in CallRecord
          <6>1. call[c].events \in 0..MaxInterim /\ call[c].seen \in 0..MaxInterim
            BY <2>0 DEF CallRecord
          <6>2. call[c].events + 1 \in 0..MaxInterim /\ call[c].seen + 1 \in 0..MaxInterim
            BY <5>1, <6>1, AsyncAssumption
          <6> QED
            BY <2>0, <6>2 DEF CallRecord
        <5>3. rec.outcome = call[c].outcome /\ rec.handle = call[c].handle
          BY <2>0 DEF CallRecord
        <5> QED
          BY <4>3, <5>2, <5>3 DEF Interim
      <4> QED
        BY <2>5, <4>1, <4>2, <4>3
    <3> QED
      BY <1>0, Shown
  <2>6. CASE QueueInterim(c)
    BY <1>1, <2>6 DEF QueueInterim
  <2> QED
    BY <1>3, <2>1, <2>2, <2>3, <2>4, <2>5, <2>6 DEF Goroutine
<1>4. ASSUME NEW c \in Calls, HostStarts(c)
      PROVE  [One!Next]_(One!oneResultVars)
  <2> DEFINE rec == [call[c] EXCEPT !.pc = "work", !.kept = TRUE, !.outcome = "running"]
  <2>1. rec \in CallRecord /\ rec.outcome = "running" /\ rec.handle = call[c].handle
    BY <1>0 DEF CallRecord
  <2>2. call[c].outcome = "unused" /\ Become(c, rec)
    BY <1>4 DEF HostStarts, Started, CompletionsInv, InvOf, CallPlaced
  <2> HIDE DEF rec
  <2> QED
    BY <1>0, <1>2, <2>1, <2>2, Shown
<1>5. ASSUME NEW c \in Calls, HostCancels(c)
      PROVE  [One!Next]_(One!oneResultVars)
  <2> DEFINE rec == [CancelledCall(call[c]) EXCEPT !.outcome = "abandoned"]
  <2>1. /\ rec \in CallRecord /\ rec.outcome = "abandoned"
        /\ \/ rec.handle = call[c].handle
           \/ call[c].handle = "open" /\ rec.handle = "closed"
    BY <1>0 DEF CallRecord, CancelledCall, Discarded
  <2>2. call[c].outcome = "running" /\ Become(c, rec)
    BY <1>5 DEF HostCancels
  <2> HIDE DEF rec
  <2> QED
    BY <1>0, <1>2, <2>1, <2>2, Shown
<1>6. ASSUME NEW c \in Calls, CloseHandle(c)
      PROVE  [One!Next]_(One!oneResultVars)
  <2> DEFINE rec == Discarded(call[c])
  <2>1. rec \in CallRecord /\ rec.outcome = call[c].outcome
    BY <1>0 DEF CallRecord, Discarded
  <2>2. /\ call[c].outcome = "delivered" /\ call[c].handle = "open"
        /\ rec.handle = "closed" /\ Become(c, rec)
    BY <1>0, <1>6 DEF CallRecord, CloseHandle, Discarded
  <2> HIDE DEF rec
  <2> QED
    BY <1>0, <1>2, <2>1, <2>2, Shown
<1>7. CASE SignalInterim
  BY <1>1, <1>7 DEF SignalInterim
<1>8. CASE MakeEvent \/ EventMade \/ Wake \/ Poll \/ Lower \/ Recheck
  BY <1>1, <1>8 DEF MakeEvent, EventMade, Wake, Poll, Lower, Recheck
<1>9. ASSUME NEW c \in Calls, TakeInterim(c) \/ TakeResult(c) \/ TakeNothing(c)
      PROVE  [One!Next]_(One!oneResultVars)
  <2>1. CASE TakeInterim(c)
    <3> DEFINE rec == [call[c] EXCEPT !.events = @ - 1]
    <3>1. rec \in CallRecord /\ rec.outcome = call[c].outcome /\ rec.handle = call[c].handle
      BY <1>0, <2>1, AsyncAssumption DEF CallRecord, TakeInterim
    <3>2. Become(c, rec)
      BY <2>1 DEF TakeInterim
    <3> HIDE DEF rec
    <3> QED
      BY <1>0, <3>1, <3>2, Shown
  <2>2. CASE TakeResult(c)
    <3> DEFINE rec == [TakenCall(call[c]) EXCEPT !.outcome = "delivered"]
    <3>1. rec \in CallRecord /\ rec.outcome = "delivered" /\ rec.handle = call[c].handle
      BY <1>0 DEF CallRecord, TakenCall
    <3>2. Become(c, rec)
      BY <2>2 DEF TakeResult
    <3>3. call[c].outcome = "running" /\ call[c].handle # "closed"
      BY <2>2 DEF TakeResult, LoopAt, Takeable, CompletionsInv, InvOf, EventPlaced, CallPlaced
    <3> HIDE DEF rec
    <3> QED
      BY <1>0, <1>2, <3>1, <3>2, <3>3, Shown
  <2>3. CASE TakeNothing(c)
    BY <1>1, <2>3 DEF TakeNothing
  <2> QED
    BY <1>9, <2>1, <2>2, <2>3
<1> QED
  BY <1>3, <1>4, <1>5, <1>6, <1>7, <1>8, <1>9 DEF AsyncNext, EventLoop

(* So is a step of Python's side.                                           *)
LEMMA PythonShown ==
  ASSUME CompletionsInv, NEW c \in Calls,
         StartTask(c) \/ LoopTurn(c) \/ CancelTask(c)
  PROVE  [One!Next]_(One!oneResultVars)
<1>0. /\ call \in [Calls -> CallRecord] /\ call[c] \in CallRecord /\ InvOf(c)
      /\ task \in [Calls -> TaskRecord]
  BY DEF CompletionsInv, Types, AsyncTypes, PyTypes
<1>1. ASSUME UNCHANGED call PROVE UNCHANGED One!oneResultVars
  BY <1>1 DEF One!oneResultVars
<1>2. ASSUME One!Begin(c) \/ One!Deliver(c) \/ One!Abandon(c) PROVE One!Next
  BY <1>2 DEF One!Next
<1>3. CASE StartTask(c)
  <2> DEFINE rec == [call[c] EXCEPT !.pc = "work", !.kept = TRUE, !.outcome = "running"]
  <2>1. rec \in CallRecord /\ rec.outcome = "running" /\ rec.handle = call[c].handle
    BY <1>0 DEF CallRecord
  <2>2. call[c].outcome = "unused" /\ Become(c, rec)
    BY <1>0, <1>3 DEF StartTask, Started, InvOf, CallPlaced
  <2> HIDE DEF rec
  <2> QED
    BY <1>0, <1>2, <2>1, <2>2, Shown
<1>4. CASE Register(c) \/ CancelTask(c) \/ Forget(c)
  BY <1>1, <1>4 DEF Register, CancelTask, Forget, asyncVars
<1>5. CASE RegisterReady(c) \/ Resume(c)
  <2> DEFINE rec == [call[c] EXCEPT !.outcome = "delivered"]
  <2>1. rec \in CallRecord /\ rec.outcome = "delivered" /\ rec.handle = call[c].handle
    BY <1>0 DEF CallRecord
  <2>2. task[c].pc \in {"started", "await"} /\ Become(c, rec)
    <3>1. CASE RegisterReady(c)
      BY <3>1 DEF RegisterReady
    <3>2. CASE Resume(c)
      <4>1. Become(c, rec)
        BY <3>2 DEF Resume
      <4>2. task[c].pc = "await"
        BY <3>2, DueToResume DEF Resume, Due, CompletionsInv, Types
      <4> QED
        BY <4>1, <4>2
    <3> QED
      BY <1>5, <3>1, <3>2
  <2>3. call[c].outcome = "running" /\ call[c].handle # "closed"
    BY <1>0, <2>2 DEF InvOf, TaskPlaced, CallPlaced
  <2> HIDE DEF rec
  <2> QED
    BY <1>0, <1>2, <2>1, <2>2, <2>3, Shown
<1>6. CASE SettleLate(c) \/ Settle(c)
  <2> DEFINE rec == IF Takeable(c) THEN TakenCall(call[c]) ELSE call[c]
  <2>1. rec \in CallRecord /\ rec.outcome = call[c].outcome /\ rec.handle = call[c].handle
    BY <1>0 DEF CallRecord, TakenCall
  <2>2. Become(c, rec)
    BY <1>6 DEF SettleLate, Settle
  <2> HIDE DEF rec
  <2> QED
    BY <1>0, <2>1, <2>2, Shown
<1>7. CASE CancelNative(c)
  <2> DEFINE told == CancelledCall(call[c])
             left == IF task[c].future = "ok" THEN Discarded(told) ELSE told
             rec == [left EXCEPT !.outcome = "abandoned"]
  <2>1. /\ rec \in CallRecord /\ rec.outcome = "abandoned"
        /\ \/ rec.handle = call[c].handle
           \/ call[c].handle = "open" /\ rec.handle = "closed"
    BY <1>0 DEF CallRecord, CancelledCall, Discarded
  <2>2. Become(c, rec)
    BY <1>7 DEF CancelNative
  <2>3. call[c].outcome = "running"
    BY <1>0, <1>7 DEF CancelNative, InvOf, TaskPlaced
  <2> HIDE DEF rec
  <2> QED
    BY <1>0, <1>2, <2>1, <2>2, <2>3, Shown
<1> QED
  BY <1>3, <1>4, <1>5, <1>6, <1>7 DEF LoopTurn

(* The thread shows nothing: what it takes stays on its way to the caller.  *)
LEMMA ReaperShown ==
  ASSUME CompletionsInv, Reaper
  PROVE  UNCHANGED One!oneResultVars
<1>0. call \in [Calls -> CallRecord] /\ PyTypes
  BY DEF CompletionsInv, Types, AsyncTypes
<1>1. ASSUME UNCHANGED call PROVE UNCHANGED One!oneResultVars
  BY <1>1 DEF One!oneResultVars
<1>2. CASE ReaperSetsAside
  <2> PICK c \in Calls : Become(c, IF Takeable(c) THEN TakenCall(call[c]) ELSE call[c])
    BY <1>0, <1>2 DEF ReaperSetsAside, Reaps, PyTypes
  <2> DEFINE rec == IF Takeable(c) THEN TakenCall(call[c]) ELSE call[c]
  <2>1. call[c] \in CallRecord
    BY <1>0
  <2>2. rec \in CallRecord /\ rec.outcome = call[c].outcome /\ rec.handle = call[c].handle
    BY <1>0, <2>1 DEF CallRecord, TakenCall
  <2>3. Become(c, rec)
    OBVIOUS
  <2> HIDE DEF rec
  <2> QED
    BY <1>0, <2>2, <2>3, Shown
<1>3. CASE \/ ReaperExit \/ ReaperStays \/ ReaperGets \/ ReaperTimesOut
           \/ ReaperFindsWaiter \/ ReaperDelivers
  BY <1>1, <1>3 DEF ReaperExit, ReaperStays, ReaperGets, ReaperTimesOut, ReaperFindsWaiter,
                    ReaperDelivers, asyncVars
<1> QED
  BY <1>2, <1>3 DEF Reaper

(* However the goroutines, the host's loop and the thread take turns, each  *)
(* call is answered at most once, never after its caller gave it up, and    *)
(* what its work opened is closed at most once and only when nobody can be  *)
(* handed it any more: what async.go and _completions.py promise together.  *)
THEOREM CallsHaveOneResult == CompletionsSpec => OneCallOneResult
<1>1. CompletionsInit => One!Init
  BY DEF CompletionsInit, AsyncInit, NewCall, One!Init
<1>2. CompletionsInv /\ [CompletionsNext]_completionsVars => [One!Next]_(One!oneResultVars)
  <2> SUFFICES ASSUME CompletionsInv, [CompletionsNext]_completionsVars
               PROVE  [One!Next]_(One!oneResultVars)
    OBVIOUS
  <2>1. CASE UNCHANGED completionsVars
    <3>1. UNCHANGED call
      BY <2>1 DEF completionsVars, asyncVars
    <3> QED
      BY <3>1 DEF One!oneResultVars
  <2> QED
    BY <2>1, NativeShown, PythonShown, ReaperShown DEF CompletionsNext
<1> QED
  BY <1>1, <1>2, CompletionsInvInit, CompletionsInvNext, PTL
  DEF CompletionsSpec, OneCallOneResult, One!Spec
-----------------------------------------------------------------------------
(* The registry of profiles (ProfileRegistry)                              *)

PrSlots == PrProfiles \cup {NoProfile}
PrRaws == [PrNames -> PrSlots]
PrMaps == UNION {[names -> PrSlots] : names \in SUBSET PrNames}
PrRegs == [raw : PrRaws, previous : PrMaps]

LEMMA PrMapsAre ==
  ASSUME NEW names \in SUBSET PrNames, NEW m \in [names -> PrSlots]
  PROVE  m \in PrMaps
BY DEF PrMaps

LEMMA PrMapsHave ==
  ASSUME NEW m \in PrMaps
  PROVE  DOMAIN m \in SUBSET PrNames /\ m \in [DOMAIN m -> PrSlots]
<1>1. PICK names \in SUBSET PrNames : m \in [names -> PrSlots] BY DEF PrMaps
<1>2. DOMAIN m = names BY <1>1
<1>. QED BY <1>1, <1>2

LEMMA ProfileHas ==
  ASSUME NEW p \in PrProfiles
  PROVE  /\ p \in ProfileRec /\ p \in PrSlots /\ p.name \in PrNames /\ "none" \notin PrNames
         /\ p.base \in PrNames \cup {"none"}
         /\ p.hello \in BOOLEAN /\ p.devices \in BOOLEAN /\ p.anchors \in BOOLEAN
BY PrAssumption DEF ProfileRec, PrSlots

(* A file enters: the registry keeps its type.                              *)
LEMMA EntersTyped ==
  ASSUME NEW r \in PrRegs, NEW p \in PrProfiles
  PROVE  /\ Enters(r, p) \in PrRegs
         /\ Enters(r, p).raw = [r.raw EXCEPT ![p.name] = p]
         /\ DOMAIN Enters(r, p).previous = DOMAIN r.previous \cup {p.name}
         /\ \A m \in DOMAIN Enters(r, p).previous :
              Enters(r, p).previous[m] = IF m \in DOMAIN r.previous THEN r.previous[m]
                                         ELSE r.raw[m]
<1>1. p.name \in PrNames /\ p \in PrSlots BY ProfileHas
<1>2. r.raw \in PrRaws /\ r.previous \in PrMaps BY DEF PrRegs
<1>3. PICK raw : raw = [r.raw EXCEPT ![p.name] = p] OBVIOUS
<1>4. raw \in PrRaws BY <1>1, <1>2, <1>3 DEF PrRaws
<1>5. PICK names : names = DOMAIN r.previous \cup {p.name} OBVIOUS
<1>6. PICK prev : prev = [m \in names |-> IF m \in DOMAIN r.previous THEN r.previous[m]
                                          ELSE r.raw[m]]
  OBVIOUS
<1>7. DOMAIN r.previous \in SUBSET PrNames /\ r.previous \in [DOMAIN r.previous -> PrSlots]
  BY <1>2, PrMapsHave
<1>8. names \in SUBSET PrNames BY <1>1, <1>5, <1>7
<1>9. prev \in [names -> PrSlots] BY <1>2, <1>5, <1>6, <1>7, <1>8 DEF PrRaws
<1>10. prev \in PrMaps BY <1>8, <1>9, PrMapsAre
<1>11. Enters(r, p) = [raw |-> raw, previous |-> prev] BY <1>3, <1>5, <1>6 DEF Enters
<1>. QED BY <1>3, <1>4, <1>5, <1>6, <1>10, <1>11 DEF PrRegs

(* The files of a batch enter one by one.                                   *)
EntersOn(g, raw, batch) ==
  g = [s \in SUBSET DOMAIN batch |->
         IF s = {} THEN [raw |-> raw, previous |-> <<>>]
         ELSE Enters(g[s \ {Max(s)}], batch[Max(s)])]

LEMMA NoPrevious ==
  ASSUME NEW raw \in PrRaws
  PROVE  [raw |-> raw, previous |-> <<>>] \in PrRegs /\ DOMAIN <<>> = {}
<1>1. DOMAIN <<>> = {} OBVIOUS
<1>2. <<>> \in [{} -> PrSlots] OBVIOUS
<1>3. {} \in SUBSET PrNames OBVIOUS
<1>4. <<>> \in PrMaps BY <1>2, <1>3, PrMapsAre
<1>. QED BY <1>1, <1>4 DEF PrRegs

LEMMA EntersRuns ==
  ASSUME NEW raw \in PrRaws, NEW batch \in Seq(PrProfiles)
  PROVE  \E g : EntersOn(g, raw, batch) /\ EntersAll(raw, batch) = g[DOMAIN batch]
<1>. DEFINE n == Len(batch)
            base == [raw |-> raw, previous |-> <<>>]
            step == [e \in (1..n) \X PrRegs |-> Enters(e[2], batch[e[1]])]
<1>1. n \in Nat /\ DOMAIN batch = 1..n /\ \A i \in 1..n : batch[i] \in PrProfiles
  OBVIOUS
<1>2. step \in [(1..n) \X PrRegs -> PrRegs]
  <2>. HIDE DEF n
  <2>1. \A e \in (1..n) \X PrRegs : e[1] \in 1..n /\ e[2] \in PrRegs OBVIOUS
  <2>2. \A e \in (1..n) \X PrRegs : Enters(e[2], batch[e[1]]) \in PrRegs
    BY <1>1, <2>1, EntersTyped
  <2>. QED BY <2>2
<1>3. PICK g \in [SUBSET (1..n) -> PrRegs] : IteratesTo(g, n, base, step)
  <2>1. base \in PrRegs BY NoPrevious
  <2>. HIDE DEF n, step, base
  <2>2. n \in Nat BY <1>1
  <2>3. \E g \in [SUBSET (1..n) -> PrRegs] : IteratesTo(g, n, base, step)
    BY <1>2, <2>1, <2>2, FoldExists, Zenon
  <2>. QED BY <2>3
<1>4. ASSUME NEW s \in SUBSET DOMAIN batch
      PROVE  g[s] = IF s = {} THEN base ELSE Enters(g[s \ {Max(s)}], batch[Max(s)])
  <2>. HIDE DEF n, base
  <2>1. s \in SUBSET (1..n) BY <1>1
  <2>2. g[s] = IF s = {} THEN base ELSE step[<<Max(s), g[s \ {Max(s)}]>>]
    <3>. HIDE DEF step
    <3>. QED BY <1>3, <2>1 DEF IteratesTo
  <2>3. CASE s = {} BY <2>2, <2>3
  <2>4. CASE s # {}
    <3>1. s \in SUBSET (0..n) BY <2>1, <1>1
    <3>2. Max(s) \in s BY <3>1, <1>1, <2>4, MaxIsLast
    <3>3. Max(s) \in 1..n /\ g[s \ {Max(s)}] \in PrRegs BY <2>1, <3>2, <1>3
    <3>. QED BY <2>2, <2>4, <3>3
  <2>. QED BY <2>3, <2>4
<1>5. g = [s \in SUBSET DOMAIN batch |-> g[s]] BY <1>1, <1>3
<1>6. EntersOn(g, raw, batch) BY <1>4, <1>5 DEF EntersOn
<1>. HIDE DEF n, step, base
<1>. QED BY <1>6 DEF EntersOn, EntersAll, FoldLeft, MapThenFoldSet

LEMMA EntersAlong ==
  ASSUME NEW raw, NEW batch, NEW g, EntersOn(g, raw, batch), NEW i \in Nat,
         1..(i + 1) \in SUBSET DOMAIN batch
  PROVE  /\ g[{}] = [raw |-> raw, previous |-> <<>>]
         /\ g[1..(i + 1)] = Enters(g[1..i], batch[i + 1])
<1>. DEFINE s == 1..(i + 1)
<1>1. Max(s) = i + 1 /\ s # {} /\ s \ {i + 1} = 1..i /\ {} \in SUBSET DOMAIN batch
  BY RunsInOrder
<1>. HIDE DEF s
<1>2. s \in SUBSET DOMAIN batch BY DEF s
<1>3. g[s] = IF s = {} THEN [raw |-> raw, previous |-> <<>>]
             ELSE Enters(g[s \ {Max(s)}], batch[Max(s)])
  BY <1>2, Zenon DEF EntersOn
<1>4. g[{}] = [raw |-> raw, previous |-> <<>>] BY <1>1 DEF EntersOn
<1>. QED BY <1>1, <1>3, <1>4 DEF s

(* The first i files of a batch have entered: a name stands for the last of *)
(* them that has it, and what it stood for before them is remembered.       *)
NamedBy(batch, i, m) == {j \in 1..i : batch[j].name = m}
HasEntered(r, raw, batch, i) ==
  /\ \A m \in PrNames :
       \/ NamedBy(batch, i, m) = {} /\ r.raw[m] = raw[m]
       \/ \E j \in NamedBy(batch, i, m) :
            r.raw[m] = batch[j] /\ \A k \in NamedBy(batch, i, m) : k <= j
  /\ \A m : m \in DOMAIN r.previous <=> NamedBy(batch, i, m) # {}
  /\ \A m \in DOMAIN r.previous : r.previous[m] = raw[m]

LEMMA OneMoreEntered ==
  ASSUME NEW raw \in PrRaws, NEW batch \in Seq(PrProfiles), NEW i \in Nat,
         i + 1 \in DOMAIN batch, NEW r \in PrRegs, HasEntered(r, raw, batch, i)
  PROVE  HasEntered(Enters(r, batch[i + 1]), raw, batch, i + 1)
<1>1. PICK p : p = batch[i + 1] OBVIOUS
<1>2. p \in PrProfiles /\ p.name \in PrNames /\ \A j \in 1..i : batch[j] \in PrProfiles
  BY <1>1, ProfileHas
<1>3. PICK q : q = Enters(r, p) OBVIOUS
<1>4. /\ q.raw = [r.raw EXCEPT ![p.name] = p]
      /\ DOMAIN q.previous = DOMAIN r.previous \cup {p.name}
      /\ \A m \in DOMAIN q.previous :
           q.previous[m] = IF m \in DOMAIN r.previous THEN r.previous[m] ELSE r.raw[m]
  BY <1>2, <1>3, EntersTyped
<1>5. r.raw \in PrRaws BY DEF PrRegs
<1>6. \A m : NamedBy(batch, i + 1, m) =
               NamedBy(batch, i, m) \cup (IF m = p.name THEN {i + 1} ELSE {})
  <2>1. 1..(i + 1) = (1..i) \cup {i + 1} OBVIOUS
  <2>. QED BY <1>1, <2>1 DEF NamedBy
<1>7. \A m : \A k \in NamedBy(batch, i, m) : k \in 1..i BY DEF NamedBy
<1>8. ASSUME NEW m \in PrNames
      PROVE  \/ NamedBy(batch, i + 1, m) = {} /\ q.raw[m] = raw[m]
             \/ \E j \in NamedBy(batch, i + 1, m) :
                  q.raw[m] = batch[j] /\ \A k \in NamedBy(batch, i + 1, m) : k <= j
  <2>1. CASE m = p.name
    <3>1. q.raw[m] = p BY <1>4, <1>5, <2>1 DEF PrRaws
    <3>2. i + 1 \in NamedBy(batch, i + 1, m) BY <1>6, <2>1
    <3>3. \A k \in NamedBy(batch, i + 1, m) : k <= i + 1 BY <1>6, <1>7
    <3>. QED BY <1>1, <3>1, <3>2, <3>3
  <2>2. CASE m # p.name
    <3>1. q.raw[m] = r.raw[m] BY <1>4, <1>5, <2>2 DEF PrRaws
    <3>2. NamedBy(batch, i + 1, m) = NamedBy(batch, i, m) BY <1>6, <2>2
    <3>. QED BY <3>1, <3>2 DEF HasEntered
  <2>. QED BY <2>1, <2>2
<1>9. \A m : m \in DOMAIN q.previous <=> NamedBy(batch, i + 1, m) # {}
  <2>1. \A m : m \in DOMAIN r.previous <=> NamedBy(batch, i, m) # {} BY DEF HasEntered
  <2>. QED BY <1>4, <1>6, <2>1
<1>10. ASSUME NEW m \in DOMAIN q.previous PROVE q.previous[m] = raw[m]
  <2>1. CASE m \in DOMAIN r.previous BY <1>4, <2>1 DEF HasEntered
  <2>2. CASE m \notin DOMAIN r.previous
    <3>1. m = p.name BY <1>4, <2>2
    <3>2. NamedBy(batch, i, m) = {} BY <2>2 DEF HasEntered
    <3>3. r.raw[m] = raw[m] BY <1>2, <3>1, <3>2 DEF HasEntered
    <3>. QED BY <1>4, <2>2, <3>3
  <2>. QED BY <2>1, <2>2
<1>. QED BY <1>1, <1>3, <1>8, <1>9, <1>10 DEF HasEntered

LEMMA AllEntered ==
  ASSUME NEW raw \in PrRaws, NEW batch \in Seq(PrProfiles)
  PROVE  /\ EntersAll(raw, batch) \in PrRegs
         /\ HasEntered(EntersAll(raw, batch), raw, batch, Len(batch))
<1>1. PICK n \in Nat : n = Len(batch) /\ DOMAIN batch = 1..n OBVIOUS
<1>2. PICK g : EntersOn(g, raw, batch) /\ EntersAll(raw, batch) = g[1..n]
  BY <1>1, EntersRuns
<1>. DEFINE T == {i \in 0..n : g[1..i] \in PrRegs /\ HasEntered(g[1..i], raw, batch, i)}
<1>3. 0 \in T
  <2>1. 1..0 = {} /\ {} \in SUBSET DOMAIN batch OBVIOUS
  <2>2. g[1..0] = [raw |-> raw, previous |-> <<>>] BY <1>2, <2>1 DEF EntersOn
  <2>3. g[1..0] \in PrRegs BY <2>2, NoPrevious
  <2>4. \A m : NamedBy(batch, 0, m) = {} BY <2>1 DEF NamedBy
  <2>5. g[1..0].raw = raw /\ DOMAIN g[1..0].previous = {} BY <2>2, NoPrevious
  <2>6. HasEntered(g[1..0], raw, batch, 0) BY <2>4, <2>5 DEF HasEntered
  <2>. QED BY <1>1, <2>3, <2>6
<1>4. ASSUME NEW i \in 0..(n - 1), i \in T PROVE i + 1 \in T
  <2>1. i \in Nat /\ i + 1 \in 0..n /\ i + 1 \in DOMAIN batch /\ batch[i + 1] \in PrProfiles
    BY <1>1
  <2>2. 1..(i + 1) \in SUBSET DOMAIN batch BY <1>1, <2>1
  <2>3. g[1..i] \in PrRegs /\ HasEntered(g[1..i], raw, batch, i) BY <1>4
  <2>4. g[1..(i + 1)] = Enters(g[1..i], batch[i + 1])
    <3>1. EntersOn(g, raw, batch) /\ i \in Nat BY <1>2, <2>1
    <3>2. /\ g[{}] = [raw |-> raw, previous |-> <<>>]
          /\ g[1..(i + 1)] = Enters(g[1..i], batch[i + 1])
      BY <2>2, <3>1, EntersAlong, Zenon
    <3>. QED BY <3>2
  <2>5. HasEntered(g[1..(i + 1)], raw, batch, i + 1) BY <2>1, <2>3, <2>4, OneMoreEntered
  <2>6. g[1..(i + 1)] \in PrRegs
    <3>1. Enters(g[1..i], batch[i + 1]) \in PrRegs BY <2>1, <2>3, EntersTyped, Zenon
    <3>. QED BY <2>4, <3>1, Zenon
  <2>. QED BY <2>1, <2>5, <2>6
<1>5. n \in T
  <2>. HIDE DEF T
  <2>1. \A i \in 0..n : i \in T BY <1>1, <1>3, <1>4, UpTo
  <2>. QED BY <1>1, <2>1
<1>. QED BY <1>1, <1>2, <1>5

(* The last file of a name, as the property looks for it.                   *)
LastFile(batch, m) == SelectLastInSeq(batch, LAMBDA p : p.name = m)
AfterBatch(first, batch) ==
  [m \in PrNames |-> IF LastFile(batch, m) = 0 THEN first[m] ELSE batch[LastFile(batch, m)]]

LEMMA LastFileIs ==
  ASSUME NEW batch \in Seq(PrProfiles), NEW m
  PROVE  \/ LastFile(batch, m) = 0 /\ NamedBy(batch, Len(batch), m) = {}
         \/ /\ LastFile(batch, m) \in NamedBy(batch, Len(batch), m)
            /\ LastFile(batch, m) # 0
            /\ \A k \in NamedBy(batch, Len(batch), m) : k <= LastFile(batch, m)
<1>1. PICK n \in Nat : n = Len(batch) OBVIOUS
<1>2. PICK T : T = NamedBy(batch, n, m) OBVIOUS
<1>3. T \in SUBSET (0..n) /\ 0 \notin T BY <1>1, <1>2 DEF NamedBy
<1>4. LastFile(batch, m) = IF T # {} THEN Max(T) ELSE 0
  BY <1>1, <1>2 DEF LastFile, SelectLastInSeq, NamedBy
<1>5. T # {} => (Max(T) \in T /\ \A y \in T : y <= Max(T)) BY <1>1, <1>3, MaxIsLast
<1>. QED BY <1>1, <1>2, <1>3, <1>4, <1>5

LEMMA EntersAllIs ==
  ASSUME NEW raw \in PrRaws, NEW batch \in Seq(PrProfiles)
  PROVE  /\ EntersAll(raw, batch) \in PrRegs
         /\ EntersAll(raw, batch).raw = AfterBatch(raw, batch)
         /\ \A m : m \in DOMAIN EntersAll(raw, batch).previous <=> LastFile(batch, m) # 0
         /\ \A m \in DOMAIN EntersAll(raw, batch).previous :
              EntersAll(raw, batch).previous[m] = raw[m]
<1>1. PICK r : r = EntersAll(raw, batch) OBVIOUS
<1>2. r \in PrRegs /\ HasEntered(r, raw, batch, Len(batch)) BY <1>1, AllEntered
<1>3. ASSUME NEW m \in PrNames
      PROVE  r.raw[m] = IF LastFile(batch, m) = 0 THEN raw[m] ELSE batch[LastFile(batch, m)]
  <2>1. CASE NamedBy(batch, Len(batch), m) = {}
    BY <1>2, <2>1, LastFileIs DEF HasEntered
  <2>2. CASE NamedBy(batch, Len(batch), m) # {}
    <3>1. PICK j \in NamedBy(batch, Len(batch), m) :
            r.raw[m] = batch[j] /\ \A k \in NamedBy(batch, Len(batch), m) : k <= j
      BY <1>2, <2>2 DEF HasEntered
    <3>2. PICK l : l = LastFile(batch, m) OBVIOUS
    <3>3. l \in NamedBy(batch, Len(batch), m) /\ l # 0
          /\ \A k \in NamedBy(batch, Len(batch), m) : k <= l
      BY <2>2, <3>2, LastFileIs
    <3>4. j \in Nat /\ l \in Nat BY <3>1, <3>3 DEF NamedBy
    <3>5. j <= l /\ l <= j BY <3>1, <3>3
    <3>6. j = l BY <3>4, <3>5
    <3>. QED BY <3>1, <3>2, <3>3, <3>6
  <2>. QED BY <2>1, <2>2
<1>4. r.raw \in [PrNames -> PrSlots] BY <1>2 DEF PrRegs, PrRaws
<1>5. r.raw = AfterBatch(raw, batch) BY <1>3, <1>4 DEF AfterBatch
<1>6. \A m : m \in DOMAIN r.previous <=> LastFile(batch, m) # 0
  BY <1>2, LastFileIs DEF HasEntered
<1>. QED BY <1>1, <1>2, <1>5, <1>6 DEF HasEntered

-----------------------------------------------------------------------------
(* A chain is made of registered files.                                     *)
PrStops == {"", "root", "cycle", "gap", "deep"}
PrPaths == [links : Seq(PrProfiles), next : PrNames \cup {"none"}, stop : PrStops]

LEMMA LinkTyped ==
  ASSUME NEW raw \in PrRaws, NEW depth, NEW path \in PrPaths
  PROVE  Link(raw, depth, path) \in PrPaths
<1>1. /\ path.links \in Seq(PrProfiles) /\ path.next \in PrNames \cup {"none"}
      /\ path.stop \in PrStops
  BY DEF PrPaths
<1>2. ASSUME NEW t \in {"root", "cycle", "gap", "deep"}
      PROVE  [path EXCEPT !.stop = t] \in PrPaths
  BY DEF PrPaths, PrStops
<1>3. CASE path.stop # "" \/ path.next = "none"
           \/ path.next \in {p.name : p \in ToSet(path.links)}
  BY <1>2, <1>3 DEF Link
<1>4. CASE ~(path.stop # "" \/ path.next = "none"
             \/ path.next \in {p.name : p \in ToSet(path.links)})
  <2>1. path.next \in PrNames BY <1>1, <1>4
  <2>2. raw[path.next] \in PrProfiles \cup {NoProfile} BY <2>1 DEF PrRaws, PrSlots
  <2>3. CASE raw[path.next] = NoProfile BY <1>2, <1>4, <2>3 DEF Link
  <2>4. CASE raw[path.next] # NoProfile /\ Len(path.links) = depth
    BY <1>2, <1>4, <2>4 DEF Link
  <2>5. CASE raw[path.next] # NoProfile /\ Len(path.links) # depth
    <3>1. PICK p : p = raw[path.next] OBVIOUS
    <3>2. p \in PrProfiles /\ p.base \in PrNames \cup {"none"}
      BY <2>2, <2>5, <3>1, ProfileHas
    <3>3. PICK l : l = Append(path.links, p) OBVIOUS
    <3>4. l \in Seq(PrProfiles) BY <1>1, <3>2, <3>3
    <3>5. Link(raw, depth, path) = [path EXCEPT !.links = l, !.next = p.base]
      BY <1>4, <2>5, <3>1, <3>3 DEF Link
    <3>6. PICK b : b = p.base OBVIOUS
    <3>. QED BY <1>1, <3>2, <3>4, <3>5, <3>6 DEF PrPaths
  <2>. QED BY <2>3, <2>4, <2>5
<1>. QED BY <1>3, <1>4

LinksOn(g, raw, depth, name) ==
  g = [s \in SUBSET (1..(depth + 2)) |->
         IF s = {} THEN [links |-> <<>>, next |-> name, stop |-> ""]
         ELSE Link(raw, depth, g[s \ {Max(s)}])]

LEMMA ChainTyped ==
  ASSUME NEW raw \in PrRaws, NEW depth \in Nat, NEW name \in PrNames
  PROVE  ChainFrom(raw, depth, name) \in PrPaths
<1>. DEFINE n == depth + 2
            base == [links |-> <<>>, next |-> name, stop |-> ""]
            step == [e \in (1..n) \X PrPaths |-> Link(raw, depth, e[2])]
<1>1. n \in Nat OBVIOUS
<1>2. step \in [(1..n) \X PrPaths -> PrPaths]
  <2>. HIDE DEF n
  <2>1. \A e \in (1..n) \X PrPaths : e[2] \in PrPaths OBVIOUS
  <2>2. \A e \in (1..n) \X PrPaths : Link(raw, depth, e[2]) \in PrPaths BY <2>1, LinkTyped
  <2>. QED BY <2>2
<1>3. base \in PrPaths
  <2>1. <<>> \in Seq(PrProfiles) OBVIOUS
  <2>. QED BY <2>1 DEF PrPaths, PrStops
<1>4. PICK g \in [SUBSET (1..n) -> PrPaths] : IteratesTo(g, n, base, step)
  <2>. HIDE DEF n, step, base
  <2>1. \E g \in [SUBSET (1..n) -> PrPaths] : IteratesTo(g, n, base, step)
    BY <1>1, <1>2, <1>3, FoldExists, Zenon
  <2>. QED BY <2>1
<1>5. ASSUME NEW s \in SUBSET (1..n)
      PROVE  g[s] = IF s = {} THEN base ELSE Link(raw, depth, g[s \ {Max(s)}])
  <2>. HIDE DEF n, base
  <2>1. g[s] = IF s = {} THEN base ELSE step[<<Max(s), g[s \ {Max(s)}]>>]
    <3>. HIDE DEF step
    <3>. QED BY <1>4 DEF IteratesTo
  <2>2. CASE s = {} BY <2>1, <2>2
  <2>3. CASE s # {}
    <3>1. s \in SUBSET (0..n) BY <1>1
    <3>2. Max(s) \in s BY <3>1, <1>1, <2>3, MaxIsLast
    <3>3. Max(s) \in 1..n /\ g[s \ {Max(s)}] \in PrPaths BY <3>2, <1>4
    <3>. QED BY <2>1, <2>3, <3>3
  <2>. QED BY <2>2, <2>3
<1>6. LinksOn(g, raw, depth, name)
  <2>1. g = [s \in SUBSET (1..n) |-> g[s]] BY <1>4
  <2>. QED BY <1>5, <2>1 DEF LinksOn
<1>7. PICK h : LinksOn(h, raw, depth, name) /\ ChainFrom(raw, depth, name) = h[1..n]
  <2>1. DOMAIN [i \in 1..n |-> i] = 1..n OBVIOUS
  <2>. HIDE DEF base, step
  <2>2. \E h : LinksOn(h, raw, depth, name) /\ ChainFrom(raw, depth, name) = h[1..n]
    BY <1>6, <2>1 DEF LinksOn, ChainFrom, FoldLeft, MapThenFoldSet
  <2>. QED BY <2>2
<1>. DEFINE T == {i \in 0..n : h[1..i] \in PrPaths}
<1>8. 0 \in T
  <2>1. 1..0 = {} /\ {} \in SUBSET (1..n) OBVIOUS
  <2>2. h[1..0] = base BY <1>7, <2>1 DEF LinksOn
  <2>. HIDE DEF base, n
  <2>. QED BY <1>1, <1>3, <2>2
<1>9. ASSUME NEW i \in 0..(n - 1), i \in T PROVE i + 1 \in T
  <2>1. i \in Nat /\ i + 1 \in 0..n BY <1>1
  <2>. DEFINE s == 1..(i + 1)
  <2>2. Max(s) = i + 1 /\ s # {} /\ s \ {i + 1} = 1..i BY <2>1, RunsInOrder
  <2>3. s \in SUBSET (1..n) BY <1>1, <2>1
  <2>. HIDE DEF s
  <2>4. h[s] = IF s = {} THEN base ELSE Link(raw, depth, h[s \ {Max(s)}])
    BY <1>7, <2>3, Zenon DEF LinksOn
  <2>5. h[s] = Link(raw, depth, h[1..i]) BY <2>2, <2>4
  <2>6. h[1..i] \in PrPaths BY <1>9
  <2>7. h[s] \in PrPaths BY <2>5, <2>6, LinkTyped
  <2>. QED BY <2>1, <2>7 DEF s
<1>10. n \in T
  <2>. HIDE DEF T, n
  <2>1. \A i \in 0..n : i \in T BY <1>1, <1>8, <1>9, UpTo
  <2>. QED BY <1>1, <2>1
<1>. QED BY <1>7, <1>10

-----------------------------------------------------------------------------
(* What files fold into, the first i of them: each value is of the last one *)
(* that sets it, anchors of none before the last hello, a kind of none      *)
(* before the last pool.                                                    *)
LastUpTo(T, i) == IF T \cap (1..i) = {} THEN 0 ELSE Max(T \cap (1..i))

LEMMA LastUpToNext ==
  ASSUME NEW T, NEW i \in Nat
  PROVE  /\ LastUpTo(T, 0) = 0 /\ LastUpTo(T, i) \in 0..i
         /\ LastUpTo(T, i) # 0 => LastUpTo(T, i) \in T
         /\ LastUpTo(T, i + 1) = IF i + 1 \in T THEN i + 1 ELSE LastUpTo(T, i)
<1>1. ASSUME NEW k \in Nat, T \cap (1..k) # {}
      PROVE  /\ Max(T \cap (1..k)) \in T \cap (1..k)
             /\ \A y \in T \cap (1..k) : y <= Max(T \cap (1..k))
  <2>1. PICK U : U = T \cap (1..k) OBVIOUS
  <2>2. U \in SUBSET (0..k) /\ U # {} BY <1>1, <2>1
  <2>3. Max(U) \in U /\ \A y \in U : y <= Max(U) BY <2>2, MaxIsLast
  <2>. QED BY <2>1, <2>3
<1>2. LastUpTo(T, 0) = 0
  <2>1. T \cap (1..0) = {} OBVIOUS
  <2>. QED BY <2>1 DEF LastUpTo
<1>3. LastUpTo(T, i) \in 0..i /\ (LastUpTo(T, i) # 0 => LastUpTo(T, i) \in T)
  <2>1. CASE T \cap (1..i) = {} BY <2>1 DEF LastUpTo
  <2>2. CASE T \cap (1..i) # {}
    <3>1. PICK m : m = Max(T \cap (1..i)) OBVIOUS
    <3>2. m \in T /\ m \in 1..i BY <1>1, <2>2, <3>1
    <3>3. LastUpTo(T, i) = m BY <2>2, <3>1 DEF LastUpTo
    <3>. QED BY <3>2, <3>3
  <2>. QED BY <2>1, <2>2
<1>4. CASE i + 1 \in T
  <2>1. i + 1 \in T \cap (1..(i + 1)) BY <1>4
  <2>2. PICK m : m = Max(T \cap (1..(i + 1))) OBVIOUS
  <2>3. m \in 1..(i + 1) /\ i + 1 <= m BY <1>1, <2>1, <2>2
  <2>4. m = i + 1 BY <2>3
  <2>. QED BY <1>2, <1>3, <1>4, <2>1, <2>2, <2>4 DEF LastUpTo
<1>5. CASE i + 1 \notin T
  <2>1. T \cap (1..(i + 1)) = T \cap (1..i)
    <3>1. 1..(i + 1) = (1..i) \cup {i + 1} OBVIOUS
    <3>. QED BY <1>5, <3>1
  <2>. QED BY <1>2, <1>3, <1>5, <2>1 DEF LastUpTo
<1>. QED BY <1>4, <1>5

HelloAt(f) == {j \in DOMAIN f : f[j].hello}
AnchorsAt(f) == {j \in DOMAIN f : f[j].anchors}
DevicesAt(f) == {j \in DOMAIN f : f[j].devices}
KindAt(f) == {j \in DOMAIN f : f[j].kind # ""}
SourceAt(f) == {j \in DOMAIN f : f[j].source # "none"}

NameAt(f, j) == IF j = 0 THEN "none" ELSE f[j].name

FoldedTo(d, f, i) ==
  LET h == LastUpTo(HelloAt(f), i)
      a == LastUpTo(AnchorsAt(f), i)
      v == LastUpTo(DevicesAt(f), i)
      k == LastUpTo(KindAt(f), i) IN
  /\ d.hello = NameAt(f, h) /\ d.devices = NameAt(f, v)
  /\ d.anchors = IF a = 0 \/ (h # 0 /\ a < h) THEN "none" ELSE NameAt(f, a)
  /\ d.kind = IF k = 0 \/ (v # 0 /\ k < v) THEN "" ELSE f[k].kind
  /\ d.source.of \in {"none", NameAt(f, LastUpTo(SourceAt(f), i))}

PrKinds == {"", "phone", "desktop", "odd"}
PrSources == {"none", "whole", "settings"}
PrBearers == PrNames \cup {"none"}
PrSourced == [of : PrBearers, covers : PrSources]
PrFolded == [hello : PrBearers, anchors : PrBearers, permute : BOOLEAN, devices : PrBearers,
             kind : PrKinds, source : PrSourced]

LEMMA MergeTyped ==
  ASSUME NEW d \in PrFolded, NEW p \in PrProfiles
  PROVE  Merge(d, p) \in PrFolded
<1>1. /\ p.name \in PrBearers /\ p.hello \in BOOLEAN /\ p.anchors \in BOOLEAN
      /\ p.permute \in BOOLEAN /\ p.devices \in BOOLEAN /\ p.kind \in PrKinds
      /\ p.settings \in BOOLEAN /\ p.source \in PrSources
  <2>1. p \in ProfileRec BY ProfileHas
  <2>. QED BY <2>1 DEF ProfileRec, PrBearers, PrKinds, PrSources
<1>2. /\ d.hello \in PrBearers /\ d.anchors \in PrBearers /\ d.permute \in BOOLEAN
      /\ d.devices \in PrBearers /\ d.kind \in PrKinds /\ d.source \in PrSourced
  BY DEF PrFolded
<1>3. "none" \in PrBearers /\ Unsourced \in PrSourced
  BY DEF PrBearers, PrSourced, Unsourced, PrSources
<1>4. [of |-> p.name, covers |-> p.source] \in PrSourced BY <1>1 DEF PrSourced
<1>5. (IF p.source # "none" THEN [of |-> p.name, covers |-> p.source]
       ELSE IF d.source.covers = "settings" /\ p.settings THEN Unsourced ELSE d.source)
        \in PrSourced
  BY <1>2, <1>3, <1>4
<1>6. /\ (IF p.hello THEN p.name ELSE d.hello) \in PrBearers
      /\ (IF p.anchors THEN p.name ELSE IF p.hello THEN "none" ELSE d.anchors) \in PrBearers
      /\ (p.permute \/ d.permute) \in BOOLEAN
      /\ (IF p.devices THEN p.name ELSE d.devices) \in PrBearers
      /\ (IF p.devices \/ p.kind # "" THEN p.kind ELSE d.kind) \in PrKinds
  BY <1>1, <1>2, <1>3
<1>. QED BY <1>5, <1>6 DEF Merge, PrFolded

LEMMA MergedOne ==
  ASSUME NEW f \in Seq(PrProfiles), NEW i \in Nat, i + 1 \in DOMAIN f,
         NEW d \in PrFolded, FoldedTo(d, f, i)
  PROVE  FoldedTo(Merge(d, f[i + 1]), f, i + 1)
<1>1. PICK p : p = f[i + 1] OBVIOUS
<1>2. PICK q : q = Merge(d, p) OBVIOUS
<1>. DEFINE Now(T) == LastUpTo(T, i)
            Next(T) == LastUpTo(T, i + 1)
<1>3. \A T : Now(T) \in 0..i /\ Next(T) = IF i + 1 \in T THEN i + 1 ELSE Now(T)
  BY LastUpToNext
<1>4. /\ i + 1 \in HelloAt(f) <=> p.hello
      /\ i + 1 \in AnchorsAt(f) <=> p.anchors
      /\ i + 1 \in DevicesAt(f) <=> p.devices
      /\ i + 1 \in KindAt(f) <=> p.kind # ""
      /\ i + 1 \in SourceAt(f) <=> p.source # "none"
  BY <1>1 DEF HelloAt, AnchorsAt, DevicesAt, KindAt, SourceAt
<1>. HIDE DEF Now, Next
<1>5. PICK h, a, v, k, s : /\ h = Now(HelloAt(f)) /\ a = Now(AnchorsAt(f))
                           /\ v = Now(DevicesAt(f)) /\ k = Now(KindAt(f))
                           /\ s = Now(SourceAt(f))
  OBVIOUS
<1>6. PICK h2, a2, v2, k2, s2 : /\ h2 = Next(HelloAt(f)) /\ a2 = Next(AnchorsAt(f))
                                /\ v2 = Next(DevicesAt(f)) /\ k2 = Next(KindAt(f))
                                /\ s2 = Next(SourceAt(f))
  OBVIOUS
<1>7. /\ h2 = IF p.hello THEN i + 1 ELSE h
      /\ a2 = IF p.anchors THEN i + 1 ELSE a
      /\ v2 = IF p.devices THEN i + 1 ELSE v
      /\ k2 = IF p.kind # "" THEN i + 1 ELSE k
      /\ s2 = IF p.source # "none" THEN i + 1 ELSE s
  BY <1>3, <1>4, <1>5, <1>6
<1>8. h \in 0..i /\ a \in 0..i /\ v \in 0..i /\ k \in 0..i /\ s \in 0..i
  BY <1>3, <1>5
<1>17. h2 \in 0..(i + 1) /\ v2 \in 0..(i + 1)
  <2>1. \A x \in 0..i : x \in 0..(i + 1) OBVIOUS
  <2>2. i + 1 \in 0..(i + 1) OBVIOUS
  <2>. QED BY <1>7, <1>8, <2>1, <2>2
<1>9. /\ d.hello = NameAt(f, h) /\ d.devices = NameAt(f, v)
      /\ d.anchors = IF a = 0 \/ (h # 0 /\ a < h) THEN "none" ELSE NameAt(f, a)
      /\ d.kind = IF k = 0 \/ (v # 0 /\ k < v) THEN "" ELSE f[k].kind
      /\ d.source.of \in {"none", NameAt(f, s)}
  BY <1>5 DEF FoldedTo, Now
<1>10. NameAt(f, i + 1) = p.name /\ i + 1 # 0 BY <1>1 DEF NameAt
<1>11. /\ q.hello = (IF p.hello THEN p.name ELSE d.hello)
       /\ q.anchors = (IF p.anchors THEN p.name ELSE IF p.hello THEN "none" ELSE d.anchors)
       /\ q.devices = (IF p.devices THEN p.name ELSE d.devices)
       /\ q.kind = (IF p.devices \/ p.kind # "" THEN p.kind ELSE d.kind)
       /\ q.source = (IF p.source # "none" THEN [of |-> p.name, covers |-> p.source]
                      ELSE IF d.source.covers = "settings" /\ p.settings THEN Unsourced
                      ELSE d.source)
  BY <1>2 DEF Merge
<1>12. q.hello = NameAt(f, h2) /\ q.devices = NameAt(f, v2)
  BY <1>7, <1>9, <1>10, <1>11
<1>13. q.anchors = IF a2 = 0 \/ (h2 # 0 /\ a2 < h2) THEN "none" ELSE NameAt(f, a2)
  <2>1. CASE p.anchors
    <3>1. a2 = i + 1 BY <1>7, <2>1
    <3>2. ~(a2 = 0 \/ (h2 # 0 /\ a2 < h2)) BY <1>17, <3>1
    <3>. QED BY <1>10, <1>11, <2>1, <3>1, <3>2
  <2>2. CASE ~p.anchors /\ p.hello
    <3>1. a2 = a /\ h2 = i + 1 BY <1>7, <2>2
    <3>2. h2 # 0 /\ a2 < h2 BY <1>8, <3>1
    <3>. QED BY <1>11, <2>2, <3>2
  <2>3. CASE ~p.anchors /\ ~p.hello BY <1>7, <1>9, <1>11, <2>3
  <2>. QED BY <2>1, <2>2, <2>3
<1>14. q.kind = IF k2 = 0 \/ (v2 # 0 /\ k2 < v2) THEN "" ELSE f[k2].kind
  <2>1. CASE p.kind # ""
    <3>1. k2 = i + 1 BY <1>7, <2>1
    <3>2. ~(k2 = 0 \/ (v2 # 0 /\ k2 < v2)) BY <1>17, <3>1
    <3>. QED BY <1>1, <1>11, <2>1, <3>1, <3>2
  <2>2. CASE p.kind = "" /\ p.devices
    <3>1. k2 = k /\ v2 = i + 1 BY <1>7, <2>2
    <3>2. v2 # 0 /\ k2 < v2 BY <1>8, <3>1
    <3>. QED BY <1>11, <2>2, <3>2
  <2>3. CASE p.kind = "" /\ ~p.devices BY <1>7, <1>9, <1>11, <2>3
  <2>. QED BY <2>1, <2>2, <2>3
<1>15. q.source.of \in {"none", NameAt(f, s2)}
  <2>1. CASE p.source # "none"
    <3>1. q.source = [of |-> p.name, covers |-> p.source] BY <1>11, <2>1
    <3>2. q.source.of = p.name BY <3>1
    <3>3. s2 = i + 1 BY <1>7, <2>1
    <3>. QED BY <1>10, <3>2, <3>3
  <2>2. CASE p.source = "none"
    <3>1. q.source = Unsourced \/ q.source = d.source BY <1>11, <2>2
    <3>2. Unsourced.of = "none" BY DEF Unsourced
    <3>3. s2 = s BY <1>7, <2>2
    <3>. QED BY <1>9, <3>1, <3>2, <3>3
  <2>. QED BY <2>1, <2>2
<1>. QED BY <1>1, <1>2, <1>6, <1>12, <1>13, <1>14, <1>15 DEF FoldedTo, Next

MergesOn(g, f) ==
  g = [s \in SUBSET DOMAIN f |-> IF s = {} THEN Blank ELSE Merge(g[s \ {Max(s)}], f[Max(s)])]

LEMMA BlankTyped == Blank \in PrFolded /\ \A f : FoldedTo(Blank, f, 0)
<1>1. Blank \in PrFolded
  <2>1. "none" \in PrBearers /\ "" \in PrKinds BY DEF PrBearers, PrKinds
  <2>2. Unsourced \in PrSourced BY <2>1 DEF Unsourced, PrSourced, PrSources
  <2>. QED BY <2>1, <2>2 DEF Blank, PrFolded
<1>2. ASSUME NEW f PROVE FoldedTo(Blank, f, 0)
  <2>1. \A T : LastUpTo(T, 0) = 0 BY LastUpToNext
  <2>2. Blank.hello = "none" /\ Blank.anchors = "none" /\ Blank.devices = "none"
        /\ Blank.kind = "" /\ Blank.source.of = "none"
    BY DEF Blank, Unsourced
  <2>3. NameAt(f, 0) = "none" BY DEF NameAt
  <2>. QED BY <2>1, <2>2, <2>3 DEF FoldedTo
<1>. QED BY <1>1, <1>2

LEMMA FoldRuns ==
  ASSUME NEW links \in Seq(PrProfiles), NEW f \in Seq(PrProfiles), f = Reverse(links)
  PROVE  \E g : MergesOn(g, f) /\ Fold(links) = g[DOMAIN f]
<1>. DEFINE n == Len(f)
            step == [e \in (1..n) \X PrFolded |-> Merge(e[2], f[e[1]])]
<1>1. n \in Nat /\ DOMAIN f = 1..n /\ \A i \in 1..n : f[i] \in PrProfiles
  OBVIOUS
<1>2. step \in [(1..n) \X PrFolded -> PrFolded]
  <2>. HIDE DEF n
  <2>1. \A e \in (1..n) \X PrFolded : e[1] \in 1..n /\ e[2] \in PrFolded OBVIOUS
  <2>2. \A e \in (1..n) \X PrFolded : Merge(e[2], f[e[1]]) \in PrFolded
    BY <1>1, <2>1, MergeTyped
  <2>. QED BY <2>2
<1>3. PICK g \in [SUBSET (1..n) -> PrFolded] : IteratesTo(g, n, Blank, step)
  <2>1. Blank \in PrFolded BY BlankTyped
  <2>. HIDE DEF n, step
  <2>2. n \in Nat BY <1>1
  <2>3. \E g \in [SUBSET (1..n) -> PrFolded] : IteratesTo(g, n, Blank, step)
    BY <1>2, <2>1, <2>2, FoldExists, Zenon
  <2>. QED BY <2>3
<1>4. ASSUME NEW s \in SUBSET DOMAIN f
      PROVE  g[s] = IF s = {} THEN Blank ELSE Merge(g[s \ {Max(s)}], f[Max(s)])
  <2>. HIDE DEF n
  <2>1. s \in SUBSET (1..n) BY <1>1
  <2>2. g[s] = IF s = {} THEN Blank ELSE step[<<Max(s), g[s \ {Max(s)}]>>]
    <3>. HIDE DEF step
    <3>. QED BY <1>3, <2>1 DEF IteratesTo
  <2>3. CASE s = {} BY <2>2, <2>3
  <2>4. CASE s # {}
    <3>1. s \in SUBSET (0..n) BY <2>1, <1>1
    <3>2. Max(s) \in s BY <3>1, <1>1, <2>4, MaxIsLast
    <3>3. Max(s) \in 1..n /\ g[s \ {Max(s)}] \in PrFolded BY <2>1, <3>2, <1>3
    <3>. QED BY <2>2, <2>4, <3>3
  <2>. QED BY <2>3, <2>4
<1>5. g = [s \in SUBSET DOMAIN f |-> g[s]] BY <1>1, <1>3
<1>6. MergesOn(g, f) BY <1>4, <1>5 DEF MergesOn
<1>. HIDE DEF n, step
<1>7. MergesOn(g, Reverse(links)) BY <1>6, Zenon
<1>8. \E h : MergesOn(h, Reverse(links)) /\ Fold(links) = h[DOMAIN Reverse(links)]
  BY <1>7, Zenon DEF MergesOn, Fold, FoldLeft, MapThenFoldSet
<1>. QED BY <1>8, Zenon

LEMMA FoldIs ==
  ASSUME NEW links \in Seq(PrProfiles), NEW f \in Seq(PrProfiles), f = Reverse(links)
  PROVE  FoldedTo(Fold(links), f, Len(f))
<1>1. PICK n \in Nat : n = Len(f) /\ DOMAIN f = 1..n OBVIOUS
<1>2. PICK g : MergesOn(g, f) /\ Fold(links) = g[1..n] BY <1>1, FoldRuns
<1>. DEFINE T == {i \in 0..n : g[1..i] \in PrFolded /\ FoldedTo(g[1..i], f, i)}
<1>3. 0 \in T
  <2>1. 1..0 = {} /\ {} \in SUBSET DOMAIN f OBVIOUS
  <2>2. g[1..0] = Blank BY <1>2, <2>1 DEF MergesOn
  <2>. QED BY <1>1, <2>2, BlankTyped
<1>4. ASSUME NEW i \in 0..(n - 1), i \in T PROVE i + 1 \in T
  <2>1. i \in Nat /\ i + 1 \in 0..n /\ i + 1 \in DOMAIN f /\ f[i + 1] \in PrProfiles
    BY <1>1
  <2>. DEFINE s == 1..(i + 1)
  <2>2. Max(s) = i + 1 /\ s # {} /\ s \ {i + 1} = 1..i BY <2>1, RunsInOrder
  <2>3. s \in SUBSET DOMAIN f BY <1>1, <2>1
  <2>. HIDE DEF s
  <2>4. g[s] = IF s = {} THEN Blank ELSE Merge(g[s \ {Max(s)}], f[Max(s)])
    BY <1>2, <2>3, Zenon DEF MergesOn
  <2>5. g[s] = Merge(g[1..i], f[i + 1]) BY <2>2, <2>4
  <2>6. g[1..i] \in PrFolded /\ FoldedTo(g[1..i], f, i) BY <1>4
  <2>7. g[s] \in PrFolded BY <2>1, <2>5, <2>6, MergeTyped
  <2>8. FoldedTo(g[s], f, i + 1)
    <3>1. PICK d : d = g[1..i] OBVIOUS
    <3>2. FoldedTo(Merge(d, f[i + 1]), f, i + 1) BY <2>1, <2>6, <3>1, MergedOne
    <3>. QED BY <2>5, <3>1, <3>2
  <2>. QED BY <2>1, <2>7, <2>8 DEF s
<1>5. n \in T
  <2>. HIDE DEF T
  <2>1. \A i \in 0..n : i \in T BY <1>1, <1>3, <1>4, UpTo
  <2>. QED BY <1>1, <2>1
<1>. QED BY <1>1, <1>2, <1>5

(* The last in one order is the first in the other.                         *)
FirstIn(I) == IF I # {} THEN Min(I) ELSE 0

LEMMA Mirrored ==
  ASSUME NEW n \in Nat, NEW I \in SUBSET (1..n),
         NEW T \in SUBSET (1..n), \A j \in 1..n : j \in T <=> (n - j) + 1 \in I
  PROVE  /\ FirstIn(I) = 0 => LastUpTo(T, n) = 0
         /\ FirstIn(I) # 0 => /\ FirstIn(I) \in 1..n /\ LastUpTo(T, n) \in 1..n
                              /\ LastUpTo(T, n) = (n - FirstIn(I)) + 1
<1>1. T \cap (1..n) = T OBVIOUS
<1>2. \A x \in 1..n : (n - ((n - x) + 1)) + 1 = x /\ (n - x) + 1 \in 1..n OBVIOUS
<1>3. CASE I = {}
  <2>1. T = {} BY <1>3
  <2>. QED BY <1>1, <1>3, <2>1 DEF FirstIn, LastUpTo
<1>4. CASE I # {}
  <2>1. I \in SUBSET Nat OBVIOUS
  <2>2. PICK m : m = Min(I) OBVIOUS
  <2>3. m \in I /\ \A y \in I : m <= y BY <1>4, <2>1, <2>2, MinIsFirst
  <2>4. m \in 1..n BY <2>3
  <2>5. (n - m) + 1 \in T
    <3>1. PICK j : j = (n - m) + 1 OBVIOUS
    <3>2. j \in 1..n /\ (n - j) + 1 = m BY <1>2, <2>4, <3>1
    <3>. QED BY <2>3, <3>1, <3>2
  <2>6. T \in SUBSET (0..n) /\ T # {} BY <2>5
  <2>7. PICK x : x = Max(T) OBVIOUS
  <2>8. x \in T /\ \A y \in T : y <= x BY <2>6, <2>7, MaxIsLast
  <2>9. x \in 1..n /\ (n - x) + 1 \in I BY <2>8
  <2>10. m <= (n - x) + 1 BY <2>3, <2>9
  <2>11. (n - m) + 1 <= x BY <2>5, <2>8
  <2>12. x = (n - m) + 1 BY <2>4, <2>9, <2>10, <2>11
  <2>13. FirstIn(I) = m BY <1>4, <2>2 DEF FirstIn
  <2>14. LastUpTo(T, n) = x BY <1>1, <2>6, <2>7 DEF LastUpTo
  <2>. QED BY <2>4, <2>9, <2>12, <2>13, <2>14
<1>. QED BY <1>3, <1>4

HelloIn(links) == {i \in 1..Len(links) : links[i].hello}
AnchorsIn(links) == {i \in 1..Len(links) : links[i].anchors}
DevicesIn(links) == {i \in 1..Len(links) : links[i].devices}
KindIn(links) == {i \in 1..Len(links) : links[i].kind # ""}
SourceIn(links) == {i \in 1..Len(links) : links[i].source # "none"}

(* The same file, counted from the leaf and from the root.                  *)
Opposite(links, f, x, y) ==
  /\ x = 0 <=> y = 0
  /\ x # 0 => x \in 1..Len(links) /\ y = (Len(links) - x) + 1 /\ f[y] = links[x]

LEMMA OppositeOf ==
  ASSUME NEW links \in Seq(PrProfiles), NEW f, f = Reverse(links),
         NEW I \in SUBSET (1..Len(links)), NEW T \in SUBSET (1..Len(links)),
         \A j \in 1..Len(links) : j \in T <=> (Len(links) - j) + 1 \in I
  PROVE  Opposite(links, f, FirstIn(I), LastUpTo(T, Len(links)))
<1>1. PICK n \in Nat : n = Len(links) OBVIOUS
<1>2. \A j \in 1..n : f[j] = links[(n - j) + 1] BY <1>1 DEF Reverse
<1>3. PICK x, y : x = FirstIn(I) /\ y = LastUpTo(T, n) OBVIOUS
<1>4. /\ x = 0 => y = 0
      /\ x # 0 => x \in 1..n /\ y \in 1..n /\ y = (n - x) + 1
  BY <1>1, <1>3, Mirrored
<1>5. ASSUME x # 0 PROVE f[y] = links[x]
  <2>1. x \in 1..n /\ y \in 1..n /\ y = (n - x) + 1 BY <1>4, <1>5
  <2>2. (n - y) + 1 = x BY <2>1
  <2>. QED BY <1>2, <2>1, <2>2
<1>6. x # 0 => y # 0 BY <1>4
<1>. QED BY <1>1, <1>3, <1>4, <1>5, <1>6 DEF Opposite

LEMMA FilesOpposite ==
  ASSUME NEW links \in Seq(PrProfiles), NEW f, f = Reverse(links)
  PROVE  /\ Opposite(links, f, FirstIn(HelloIn(links)), LastUpTo(HelloAt(f), Len(links)))
         /\ Opposite(links, f, FirstIn(AnchorsIn(links)), LastUpTo(AnchorsAt(f), Len(links)))
         /\ Opposite(links, f, FirstIn(DevicesIn(links)), LastUpTo(DevicesAt(f), Len(links)))
         /\ Opposite(links, f, FirstIn(KindIn(links)), LastUpTo(KindAt(f), Len(links)))
         /\ Opposite(links, f, FirstIn(SourceIn(links)), LastUpTo(SourceAt(f), Len(links)))
<1>1. PICK n \in Nat : n = Len(links) OBVIOUS
<1>2. DOMAIN f = 1..n /\ \A j \in 1..n : f[j] = links[(n - j) + 1]
  BY <1>1 DEF Reverse
<1>3. \A j \in 1..n : (n - j) + 1 \in 1..n OBVIOUS
<1>4. /\ HelloIn(links) \in SUBSET (1..n) /\ HelloAt(f) \in SUBSET (1..n)
      /\ \A j \in 1..n : j \in HelloAt(f) <=> (n - j) + 1 \in HelloIn(links)
  BY <1>1, <1>2, <1>3 DEF HelloIn, HelloAt
<1>5. /\ AnchorsIn(links) \in SUBSET (1..n) /\ AnchorsAt(f) \in SUBSET (1..n)
      /\ \A j \in 1..n : j \in AnchorsAt(f) <=> (n - j) + 1 \in AnchorsIn(links)
  BY <1>1, <1>2, <1>3 DEF AnchorsIn, AnchorsAt
<1>6. /\ DevicesIn(links) \in SUBSET (1..n) /\ DevicesAt(f) \in SUBSET (1..n)
      /\ \A j \in 1..n : j \in DevicesAt(f) <=> (n - j) + 1 \in DevicesIn(links)
  BY <1>1, <1>2, <1>3 DEF DevicesIn, DevicesAt
<1>7. /\ KindIn(links) \in SUBSET (1..n) /\ KindAt(f) \in SUBSET (1..n)
      /\ \A j \in 1..n : j \in KindAt(f) <=> (n - j) + 1 \in KindIn(links)
  BY <1>1, <1>2, <1>3 DEF KindIn, KindAt
<1>8. /\ SourceIn(links) \in SUBSET (1..n) /\ SourceAt(f) \in SUBSET (1..n)
      /\ \A j \in 1..n : j \in SourceAt(f) <=> (n - j) + 1 \in SourceIn(links)
  BY <1>1, <1>2, <1>3 DEF SourceIn, SourceAt
<1>. QED BY <1>1, <1>4, <1>5, <1>6, <1>7, <1>8, OppositeOf

(* The property of one chain.                                               *)
ChainFolds(links) ==
  LET named(i) == IF i = 0 THEN "none" ELSE links[i].name
      above(i, j) == i = 0 \/ (j # 0 /\ i > j)
      hello == FirstIn(HelloIn(links))
      anchors == FirstIn(AnchorsIn(links))
      pool == FirstIn(DevicesIn(links))
      kind == FirstIn(KindIn(links))
      source == FirstIn(SourceIn(links))
      folded == Fold(links) IN
  /\ folded.hello = named(hello) /\ folded.devices = named(pool)
  /\ folded.anchors = IF above(anchors, hello) THEN "none" ELSE named(anchors)
  /\ folded.kind = IF above(kind, pool) THEN "" ELSE links[kind].kind
  /\ folded.source.of \in {"none", named(source)}

(* Who is above whom, from either end.                                      *)
LEMMA OppositeOrder ==
  ASSUME NEW links \in Seq(PrProfiles), NEW f, NEW x, NEW y, NEW u, NEW v,
         Opposite(links, f, x, y), Opposite(links, f, u, v)
  PROVE  (x = 0 \/ (u # 0 /\ x > u)) <=> (y = 0 \/ (v # 0 /\ y < v))
<1>1. PICK n \in Nat : n = Len(links) OBVIOUS
<1>2. CASE x = 0 \/ u = 0 BY <1>2 DEF Opposite
<1>3. CASE x # 0 /\ u # 0
  <2>1. x \in 1..n /\ u \in 1..n /\ y = (n - x) + 1 /\ v = (n - u) + 1 /\ y # 0 /\ v # 0
    BY <1>1, <1>3 DEF Opposite
  <2>2. x > u <=> y < v BY <2>1
  <2>. QED BY <1>3, <2>1, <2>2
<1>. QED BY <1>2, <1>3

LEMMA EveryChainFolds ==
  ASSUME NEW links \in Seq(PrProfiles)
  PROVE  ChainFolds(links)
<1>1. PICK n \in Nat : n = Len(links) OBVIOUS
<1>2. PICK f : f = Reverse(links) OBVIOUS
<1>3. f \in Seq(PrProfiles) /\ Len(f) = n
  <2>1. f = [j \in 1..n |-> links[(n - j) + 1]] BY <1>1, <1>2 DEF Reverse
  <2>2. \A j \in 1..n : (n - j) + 1 \in 1..n OBVIOUS
  <2>3. \A j \in 1..n : links[(n - j) + 1] \in PrProfiles BY <1>1, <2>2
  <2>4. f \in [1..n -> PrProfiles] BY <2>1, <2>3
  <2>. QED BY <2>4
<1>4. PICK d : d = Fold(links) OBVIOUS
<1>5. FoldedTo(d, f, n) BY <1>2, <1>3, <1>4, FoldIs
<1>6. PICK h, a, v, k, s : /\ h = LastUpTo(HelloAt(f), n) /\ a = LastUpTo(AnchorsAt(f), n)
                           /\ v = LastUpTo(DevicesAt(f), n) /\ k = LastUpTo(KindAt(f), n)
                           /\ s = LastUpTo(SourceAt(f), n)
  OBVIOUS
<1>7. PICK hello, anchors, pool, kind, source :
        /\ hello = FirstIn(HelloIn(links)) /\ anchors = FirstIn(AnchorsIn(links))
        /\ pool = FirstIn(DevicesIn(links)) /\ kind = FirstIn(KindIn(links))
        /\ source = FirstIn(SourceIn(links))
  OBVIOUS
<1>8. /\ Opposite(links, f, hello, h) /\ Opposite(links, f, anchors, a)
      /\ Opposite(links, f, pool, v) /\ Opposite(links, f, kind, k)
      /\ Opposite(links, f, source, s)
  BY <1>1, <1>2, <1>6, <1>7, FilesOpposite
<1>9. /\ d.hello = NameAt(f, h) /\ d.devices = NameAt(f, v)
      /\ d.anchors = IF a = 0 \/ (h # 0 /\ a < h) THEN "none" ELSE NameAt(f, a)
      /\ d.kind = IF k = 0 \/ (v # 0 /\ k < v) THEN "" ELSE f[k].kind
      /\ d.source.of \in {"none", NameAt(f, s)}
  BY <1>5, <1>6 DEF FoldedTo
<1>10. ASSUME NEW x, NEW y, Opposite(links, f, x, y)
       PROVE  NameAt(f, y) = (IF x = 0 THEN "none" ELSE links[x].name)
  BY <1>10 DEF Opposite, NameAt
<1>11. d.hello = (IF hello = 0 THEN "none" ELSE links[hello].name)
       /\ d.devices = (IF pool = 0 THEN "none" ELSE links[pool].name)
       /\ d.source.of \in {"none", IF source = 0 THEN "none" ELSE links[source].name}
  BY <1>8, <1>9, <1>10
<1>12. d.anchors = IF anchors = 0 \/ (hello # 0 /\ anchors > hello) THEN "none"
                   ELSE IF anchors = 0 THEN "none" ELSE links[anchors].name
  <2>1. (anchors = 0 \/ (hello # 0 /\ anchors > hello)) <=> (a = 0 \/ (h # 0 /\ a < h))
    BY <1>8, OppositeOrder
  <2>2. NameAt(f, a) = (IF anchors = 0 THEN "none" ELSE links[anchors].name) BY <1>8, <1>10
  <2>. QED BY <1>9, <2>1, <2>2
<1>13. d.kind = IF kind = 0 \/ (pool # 0 /\ kind > pool) THEN "" ELSE links[kind].kind
  <2>1. (kind = 0 \/ (pool # 0 /\ kind > pool)) <=> (k = 0 \/ (v # 0 /\ k < v))
    BY <1>8, OppositeOrder
  <2>2. kind # 0 => f[k] = links[kind] BY <1>8 DEF Opposite
  <2>. QED BY <1>9, <2>1, <2>2
<1>. QED BY <1>4, <1>7, <1>11, <1>12, <1>13 DEF ChainFolds

LEMMA FoldsTogetherFromType ==
  ASSUME prRaw \in PrRaws
  PROVE  FoldsTogether
<1>1. PrMaxDepth \in Nat BY PrAssumption
<1>2. ASSUME NEW n \in PrNames PROVE ChainFolds(Chain(prRaw, n).links)
  <2>1. Chain(prRaw, n) \in PrPaths BY <1>1, ChainTyped DEF Chain
  <2>2. Chain(prRaw, n).links \in Seq(PrProfiles) BY <2>1 DEF PrPaths
  <2>. QED BY <2>2, EveryChainFolds
<1>. QED BY <1>2 DEF FoldsTogether, ChainFolds, SelectInSeq, FirstIn, HelloIn, AnchorsIn,
                     DevicesIn, KindIn, SourceIn

-----------------------------------------------------------------------------
(* The invariant: while nobody else is in a call, the registry is the one   *)
(* the call found with its batch in it, until it has put it back.           *)
PrPlaces == {"idle", "check", "doubt", "back", "taken", "refused"}
PrFields == [pc : PrPlaces, batch : Seq(PrProfiles), at : Nat, previous : PrMaps,
             first : PrRaws, alone : BOOLEAN]
PrTyped == prRaw \in PrRaws /\ prCall \in [PrCalls -> PrFields]

Stands(raw, name) == Resolves(raw, name) \/ AwaitsParent(raw, name)
StandsTo(raw, batch, at) == \A i \in DOMAIN batch : i < at => Stands(raw, batch[i].name)

Remembers(mine) ==
  /\ \A m \in PrNames : m \in DOMAIN mine.previous <=> LastFile(mine.batch, m) # 0
  /\ \A m \in DOMAIN mine.previous : mine.previous[m] = mine.first[m]

Undisturbed(raw, mine) ==
  /\ mine.pc # "refused" => raw = AfterBatch(mine.first, mine.batch) /\ Remembers(mine)
  /\ mine.pc = "refused" => raw = mine.first
  /\ mine.pc \in {"check", "doubt", "taken"} => StandsTo(raw, mine.batch, mine.at)
  /\ mine.pc = "doubt" => mine.at <= Len(mine.batch)
  /\ mine.pc = "taken" => mine.at > Len(mine.batch)

AloneIn(c) == prCall[c].pc # "idle" /\ prCall[c].alone
PrAlone ==
  \A c \in PrCalls : AloneIn(c) =>
    /\ \A o \in PrCalls : o # c => prCall[o].pc = "idle"
    /\ Undisturbed(prRaw, prCall[c])
PrInv == PrTyped /\ PrAlone

LEMMA AllOrNothingFromInv == PrInv => AllOrNothing
<1>. SUFFICES ASSUME PrInv, NEW c \in PrCalls, prCall[c].alone
              PROVE  LET mine == prCall[c]
                         last(n) == SelectLastInSeq(mine.batch, LAMBDA p : p.name = n) IN
                     /\ mine.pc = "refused" => prRaw = mine.first
                     /\ mine.pc = "taken" =>
                          /\ prRaw = [n \in PrNames |-> IF last(n) = 0 THEN mine.first[n]
                                                        ELSE mine.batch[last(n)]]
                          /\ \A p \in ToSet(mine.batch) :
                               Resolves(prRaw, p.name) \/ AwaitsParent(prRaw, p.name)
  BY DEF AllOrNothing
<1>1. PICK mine : mine = prCall[c] OBVIOUS
<1>2. mine.batch \in Seq(PrProfiles) /\ mine.at \in Nat
  BY <1>1 DEF PrInv, PrTyped, PrFields
<1>3. mine.pc # "idle" => Undisturbed(prRaw, mine) BY <1>1 DEF PrInv, PrAlone, AloneIn
<1>4. mine.pc = "refused" => prRaw = mine.first BY <1>3 DEF Undisturbed
<1>5. CASE mine.pc = "taken"
  <2>1. prRaw = AfterBatch(mine.first, mine.batch) /\ StandsTo(prRaw, mine.batch, mine.at)
        /\ mine.at > Len(mine.batch)
    BY <1>3, <1>5 DEF Undisturbed
  <2>2. \A i \in DOMAIN mine.batch : i < mine.at BY <1>2, <2>1
  <2>3. \A i \in DOMAIN mine.batch : Stands(prRaw, mine.batch[i].name)
    BY <2>1, <2>2 DEF StandsTo
  <2>4. \A p \in ToSet(mine.batch) : Stands(prRaw, p.name) BY <2>3 DEF ToSet
  <2>. QED BY <1>1, <1>5, <2>1, <2>4 DEF AfterBatch, LastFile, Stands
<1>. QED BY <1>1, <1>4, <1>5

LEMMA RegistryFromInv == PrInv => RegistryHolds
BY AllOrNothingFromInv, FoldsTogetherFromType DEF PrInv, PrTyped, RegistryHolds

-----------------------------------------------------------------------------
(* Steps.                                                                   *)
LEMMA PrTypes ==
  ASSUME PrInv, NEW c \in PrCalls
  PROVE  /\ prRaw \in PrRaws /\ prCall \in [PrCalls -> PrFields] /\ prCall[c] \in PrFields
         /\ prCall[c].batch \in Seq(PrProfiles) /\ prCall[c].at \in Nat
         /\ prCall[c].previous \in PrMaps /\ prCall[c].first \in PrRaws
         /\ prCall[c].pc \in PrPlaces
BY DEF PrInv, PrTyped, PrFields

LEMMA CompanyTyped ==
  ASSUME PrInv, NEW but
  PROVE  /\ Company(but) \in [PrCalls -> PrFields]
         /\ \A o \in PrCalls : /\ Company(but)[o].pc = prCall[o].pc
                               /\ o \notin but /\ prCall[o].pc # "idle" =>
                                    ~Company(but)[o].alone
                               /\ o \in but => Company(but)[o] = prCall[o]
<1>1. ASSUME NEW o \in PrCalls
      PROVE  [prCall[o] EXCEPT !.alone = FALSE] \in PrFields
  BY PrTypes DEF PrFields
<1>2. Company(but) \in [PrCalls -> PrFields] BY <1>1, PrTypes DEF Company
<1>3. ASSUME NEW o \in PrCalls
      PROVE  /\ Company(but)[o].pc = prCall[o].pc
             /\ o \notin but /\ prCall[o].pc # "idle" => ~Company(but)[o].alone
             /\ o \in but => Company(but)[o] = prCall[o]
  <2>1. prCall[o] \in PrFields BY PrTypes
  <2>2. CASE InCall(o) /\ o \notin but
    <3>1. Company(but)[o] = [prCall[o] EXCEPT !.alone = FALSE] BY <2>2 DEF Company
    <3>. QED BY <2>1, <2>2, <3>1 DEF PrFields
  <2>3. CASE ~(InCall(o) /\ o \notin but)
    <3>1. Company(but)[o] = prCall[o] BY <2>3 DEF Company
    <3>. QED BY <2>3, <3>1 DEF InCall
  <2>. QED BY <2>2, <2>3
<1>. QED BY <1>2, <1>3

(* A step of one call that leaves the registry as it is.                    *)
LEMMA CallMoves ==
  ASSUME PrInv, NEW c \in PrCalls, prCall[c].pc # "idle", UNCHANGED prRaw,
         NEW mine \in PrFields, prCall' = [prCall EXCEPT ![c] = mine],
         mine.pc # "idle" => (mine.alone => prCall[c].alone),
         AloneIn(c) /\ mine.pc # "idle" => Undisturbed(prRaw, mine)
  PROVE  PrInv'
<1>1. prCall \in [PrCalls -> PrFields] /\ prRaw \in PrRaws BY DEF PrInv, PrTyped
<1>2. prCall' \in [PrCalls -> PrFields] /\ prCall'[c] = mine
      /\ \A o \in PrCalls : o # c => prCall'[o] = prCall[o]
  BY <1>1
<1>3. ASSUME NEW o \in PrCalls, AloneIn(o)'
      PROVE  /\ \A u \in PrCalls : u # o => prCall'[u].pc = "idle"
             /\ Undisturbed(prRaw', prCall'[o])
  <2>1. CASE o = c
    <3>1. mine.pc # "idle" /\ mine.alone BY <1>2, <1>3, <2>1 DEF AloneIn
    <3>2. AloneIn(c) BY <3>1 DEF AloneIn
    <3>3. \A u \in PrCalls : u # c => prCall[u].pc = "idle" BY <3>2 DEF PrInv, PrAlone
    <3>4. Undisturbed(prRaw, mine) BY <3>1, <3>2
    <3>5. Undisturbed(prRaw', prCall'[o]) BY <1>2, <2>1, <3>4 DEF Undisturbed
    <3>. QED BY <1>2, <2>1, <3>3, <3>5
  <2>2. CASE o # c
    <3>1. AloneIn(o) BY <1>2, <1>3, <2>2 DEF AloneIn
    <3>2. prCall[c].pc = "idle" BY <2>2, <3>1 DEF PrInv, PrAlone
    <3>. QED BY <3>2
  <2>. QED BY <2>1, <2>2
<1>. QED BY <1>1, <1>2, <1>3 DEF PrInv, PrTyped, PrAlone

LEMMA RegistersRight ==
  ASSUME PrInv, NEW c \in PrCalls, Registers(c)
  PROVE  PrInv'
<1>1. PICK batch \in PrBatches :
        LET reg == EntersAll(prRaw, batch) IN
        /\ prRaw' = reg.raw
        /\ prCall' = [Company({c}) EXCEPT ![c] =
             [NewPrCall EXCEPT !.pc = "check", !.batch = batch, !.previous = reg.previous,
                !.first = prRaw, !.alone = \A o \in PrCalls : ~InCall(o)]]
  BY DEF Registers
<1>2. PICK reg : reg = EntersAll(prRaw, batch) OBVIOUS
<1>3. PICK new : new = [NewPrCall EXCEPT !.pc = "check", !.batch = batch,
                          !.previous = reg.previous, !.first = prRaw,
                          !.alone = \A o \in PrCalls : ~InCall(o)]
  OBVIOUS
<1>4. prRaw' = reg.raw /\ prCall' = [Company({c}) EXCEPT ![c] = new]
  BY <1>1, <1>2, <1>3
<1>5. batch \in Seq(PrProfiles) /\ prRaw \in PrRaws BY PrAssumption, PrTypes
<1>6. /\ reg \in PrRegs /\ reg.raw = AfterBatch(prRaw, batch)
      /\ \A m : m \in DOMAIN reg.previous <=> LastFile(batch, m) # 0
      /\ \A m \in DOMAIN reg.previous : reg.previous[m] = prRaw[m]
  BY <1>2, <1>5, EntersAllIs
<1>7. reg.raw \in PrRaws /\ reg.previous \in PrMaps BY <1>6 DEF PrRegs
<1>8. PICK b \in BOOLEAN : b <=> \A o \in PrCalls : ~InCall(o) OBVIOUS
<1>9. new = [pc |-> "check", batch |-> batch, at |-> 1, previous |-> reg.previous,
             first |-> prRaw, alone |-> b]
  BY <1>3, <1>8 DEF NewPrCall
<1>10. new \in PrFields BY <1>5, <1>7, <1>9 DEF PrFields, PrPlaces
<1>11. prCall' \in [PrCalls -> PrFields] /\ prCall'[c] = new
       /\ \A o \in PrCalls : o # c => prCall'[o] = Company({c})[o]
  BY <1>4, <1>10, CompanyTyped
<1>12. ASSUME NEW o \in PrCalls, AloneIn(o)'
       PROVE  /\ \A u \in PrCalls : u # o => prCall'[u].pc = "idle"
              /\ Undisturbed(prRaw', prCall'[o])
  <2>1. CASE o # c
    <3>1. prCall'[o] = Company({c})[o] BY <1>11, <2>1
    <3>2. prCall[o].pc # "idle" BY <1>12, <3>1, CompanyTyped DEF AloneIn
    <3>3. ~Company({c})[o].alone BY <2>1, <3>2, CompanyTyped
    <3>. QED BY <1>12, <3>1, <3>3 DEF AloneIn
  <2>2. CASE o = c
    <3>1. b BY <1>9, <1>11, <1>12, <2>2 DEF AloneIn
    <3>2. \A u \in PrCalls : u # c => prCall'[u].pc = "idle"
      BY <1>8, <1>11, <3>1, CompanyTyped DEF InCall
    <3>3. new.pc = "check" /\ new.batch = batch /\ new.at = 1 /\ new.first = prRaw
          /\ new.previous = reg.previous
      BY <1>9
    <3>4. Remembers(new) BY <1>6, <3>3 DEF Remembers
    <3>5. \A i \in DOMAIN batch : ~(i < 1) BY <1>5
    <3>6. StandsTo(prRaw', batch, 1) BY <3>5 DEF StandsTo
    <3>7. Undisturbed(prRaw', new) BY <1>4, <1>6, <3>3, <3>4, <3>6 DEF Undisturbed
    <3>. QED BY <1>11, <2>2, <3>2, <3>7
  <2>. QED BY <2>1, <2>2
<1>. QED BY <1>4, <1>7, <1>11, <1>12 DEF PrInv, PrTyped, PrAlone

LEMMA ChecksRight ==
  ASSUME PrInv, NEW c \in PrCalls, Checks(c) \/ Doubts(c)
  PROVE  PrInv'
<1>1. PICK old : old = prCall[c] OBVIOUS
<1>2. old \in PrFields /\ old.batch \in Seq(PrProfiles) /\ old.at \in Nat
      /\ prCall \in [PrCalls -> PrFields]
  BY <1>1, PrTypes
<1>3. UNCHANGED prRaw /\ old.pc \in {"check", "doubt"}
  BY <1>1 DEF Checks, Doubts
<1>4. AloneIn(c) => /\ prRaw = AfterBatch(old.first, old.batch) /\ Remembers(old)
                    /\ StandsTo(prRaw, old.batch, old.at)
                    /\ old.pc = "doubt" => old.at <= Len(old.batch)
  BY <1>1, <1>3 DEF PrInv, PrAlone, Undisturbed
<1>5. ASSUME Checks(c), old.at > Len(old.batch) PROVE PrInv'
  <2>1. PICK mine : mine = [old EXCEPT !.pc = "taken"] OBVIOUS
  <2>2. prCall' = [prCall EXCEPT ![c] = mine] BY <1>1, <1>2, <1>5, <2>1 DEF Checks
  <2>3. mine \in PrFields /\ mine.pc = "taken" /\ mine.batch = old.batch /\ mine.at = old.at
        /\ mine.first = old.first /\ mine.previous = old.previous /\ mine.alone = old.alone
    BY <1>2, <2>1 DEF PrFields, PrPlaces
  <2>4. AloneIn(c) => Undisturbed(prRaw, mine)
    BY <1>4, <1>5, <2>3 DEF Undisturbed, Remembers
  <2>. QED BY <1>1, <1>3, <2>2, <2>3, <2>4, CallMoves
<1>6. ASSUME Checks(c), ~(old.at > Len(old.batch)), ~Resolves(prRaw, old.batch[old.at].name)
      PROVE  PrInv'
  <2>1. PICK mine : mine = [old EXCEPT !.pc = "doubt"] OBVIOUS
  <2>2. prCall' = [prCall EXCEPT ![c] = mine] BY <1>1, <1>2, <1>6, <2>1 DEF Checks
  <2>3. mine \in PrFields /\ mine.pc = "doubt" /\ mine.batch = old.batch /\ mine.at = old.at
        /\ mine.first = old.first /\ mine.previous = old.previous /\ mine.alone = old.alone
    BY <1>2, <2>1 DEF PrFields, PrPlaces
  <2>4. old.at <= Len(old.batch) BY <1>2, <1>6
  <2>5. AloneIn(c) => Undisturbed(prRaw, mine)
    BY <1>4, <2>3, <2>4 DEF Undisturbed, Remembers
  <2>. QED BY <1>1, <1>3, <2>2, <2>3, <2>5, CallMoves
<1>7. ASSUME \/ Checks(c) /\ ~(old.at > Len(old.batch))
                 /\ Resolves(prRaw, old.batch[old.at].name)
             \/ Doubts(c) /\ AwaitsParent(prRaw, old.batch[old.at].name)
      PROVE  PrInv'
  <2>1. PICK mine : mine = [old EXCEPT !.pc = "check", !.at = @ + 1] OBVIOUS
  <2>2. prCall' = [prCall EXCEPT ![c] = mine]
    <3>1. CASE Doubts(c) BY <1>1, <1>2, <1>7, <2>1, <3>1 DEF Doubts, Checks
    <3>2. CASE Checks(c)
      <4>1. old.pc = "check" BY <1>1, <3>2 DEF Checks
      <4>2. mine = [old EXCEPT !.at = @ + 1] BY <1>2, <2>1, <4>1 DEF PrFields
      <4>3. ~Doubts(c) BY <1>1, <4>1 DEF Doubts
      <4>. QED BY <1>1, <1>2, <1>7, <3>2, <4>2, <4>3 DEF Checks
    <3>. QED BY <1>7, <3>1, <3>2
  <2>3. mine \in PrFields /\ mine.pc = "check" /\ mine.batch = old.batch /\ mine.at = old.at + 1
        /\ mine.first = old.first /\ mine.previous = old.previous /\ mine.alone = old.alone
    <3>1. old.at + 1 \in Nat BY <1>2
    <3>. QED BY <1>2, <2>1, <3>1 DEF PrFields, PrPlaces
  <2>4. Stands(prRaw, old.batch[old.at].name) BY <1>7 DEF Stands
  <2>5. AloneIn(c) => StandsTo(prRaw, mine.batch, mine.at)
    <3>1. \A i \in DOMAIN old.batch : i < old.at + 1 => (i < old.at \/ i = old.at) BY <1>2
    <3>. QED BY <1>4, <2>3, <2>4, <3>1 DEF StandsTo
  <2>6. AloneIn(c) => Undisturbed(prRaw, mine)
    BY <1>4, <2>3, <2>5 DEF Undisturbed, Remembers
  <2>. QED BY <1>1, <1>3, <2>2, <2>3, <2>6, CallMoves
<1>8. ASSUME Doubts(c), ~AwaitsParent(prRaw, old.batch[old.at].name) PROVE PrInv'
  <2>1. PICK mine : mine = [old EXCEPT !.pc = "back"] OBVIOUS
  <2>2. prCall' = [prCall EXCEPT ![c] = mine] BY <1>1, <1>2, <1>8, <2>1 DEF Doubts
  <2>3. mine \in PrFields /\ mine.pc = "back" /\ mine.batch = old.batch
        /\ mine.first = old.first /\ mine.previous = old.previous /\ mine.alone = old.alone
    BY <1>2, <2>1 DEF PrFields, PrPlaces
  <2>4. AloneIn(c) => Undisturbed(prRaw, mine)
    BY <1>4, <2>3 DEF Undisturbed, Remembers
  <2>. QED BY <1>1, <1>3, <2>2, <2>3, <2>4, CallMoves
<1>. QED BY <1>5, <1>6, <1>7, <1>8

LEMMA PutsBackRight ==
  ASSUME PrInv, NEW c \in PrCalls, PutsBack(c)
  PROVE  PrInv'
<1>1. PICK old : old = prCall[c] OBVIOUS
<1>2. PICK prev : prev = old.previous OBVIOUS
<1>3. /\ old \in PrFields /\ old.batch \in Seq(PrProfiles) /\ prev \in PrMaps
      /\ old.first \in PrRaws /\ prRaw \in PrRaws
  BY <1>1, <1>2, PrTypes
<1>4. old.pc = "back"
      /\ prRaw' = [n \in PrNames |-> IF n \in DOMAIN prev THEN prev[n] ELSE prRaw[n]]
      /\ prCall' = [Company({c}) EXCEPT ![c].pc = "refused"]
  BY <1>1, <1>2 DEF PutsBack
<1>5. prRaw' \in PrRaws
  <2>1. DOMAIN prev \in SUBSET PrNames /\ prev \in [DOMAIN prev -> PrSlots]
    BY <1>3, PrMapsHave
  <2>. QED BY <1>3, <1>4, <2>1 DEF PrRaws
<1>6. PICK new : new = [old EXCEPT !.pc = "refused"] OBVIOUS
<1>7. new \in PrFields /\ new.pc = "refused" /\ new.first = old.first /\ new.alone = old.alone
  BY <1>3, <1>6 DEF PrFields, PrPlaces
<1>8. prCall' = [Company({c}) EXCEPT ![c] = new]
  <2>1. Company({c})[c] = old BY <1>1, CompanyTyped
  <2>. QED BY <1>4, <1>6, <2>1, CompanyTyped
<1>9. prCall' \in [PrCalls -> PrFields] /\ prCall'[c] = new
      /\ \A o \in PrCalls : o # c => prCall'[o] = Company({c})[o]
  BY <1>7, <1>8, CompanyTyped
<1>10. ASSUME NEW o \in PrCalls, AloneIn(o)'
       PROVE  /\ \A u \in PrCalls : u # o => prCall'[u].pc = "idle"
              /\ Undisturbed(prRaw', prCall'[o])
  <2>1. CASE o # c
    <3>1. prCall'[o] = Company({c})[o] BY <1>9, <2>1
    <3>2. prCall[o].pc # "idle" BY <1>10, <3>1, CompanyTyped DEF AloneIn
    <3>3. ~Company({c})[o].alone BY <2>1, <3>2, CompanyTyped
    <3>. QED BY <1>10, <3>1, <3>3 DEF AloneIn
  <2>2. CASE o = c
    <3>1. AloneIn(c) BY <1>1, <1>4, <1>7, <1>9, <1>10, <2>2 DEF AloneIn
    <3>2. /\ \A u \in PrCalls : u # c => prCall[u].pc = "idle"
          /\ prRaw = AfterBatch(old.first, old.batch) /\ Remembers(old)
      BY <1>1, <1>4, <3>1 DEF PrInv, PrAlone, Undisturbed
    <3>3. \A u \in PrCalls : u # c => prCall'[u].pc = "idle" BY <1>9, <3>2, CompanyTyped
    <3>4. ASSUME NEW n \in PrNames PROVE prRaw'[n] = old.first[n]
      <4>1. CASE n \in DOMAIN prev BY <1>2, <1>4, <3>2, <4>1 DEF Remembers
      <4>2. CASE n \notin DOMAIN prev
        <5>1. LastFile(old.batch, n) = 0 BY <1>2, <3>2, <4>2 DEF Remembers
        <5>2. prRaw[n] = old.first[n] BY <3>2, <5>1 DEF AfterBatch
        <5>. QED BY <1>4, <4>2, <5>2
      <4>. QED BY <4>1, <4>2
    <3>5. prRaw' = old.first BY <1>3, <1>5, <3>4 DEF PrRaws
    <3>6. Undisturbed(prRaw', new) BY <1>7, <3>5 DEF Undisturbed
    <3>. QED BY <1>9, <2>2, <3>3, <3>6
  <2>. QED BY <2>1, <2>2
<1>. QED BY <1>5, <1>9, <1>10 DEF PrInv, PrTyped, PrAlone

LEMMA NewCallTyped == NewPrCall \in PrFields /\ NewPrCall.pc = "idle"
<1>1. [n \in PrNames |-> NoProfile] \in PrRaws BY DEF PrRaws, PrSlots
<1>2. <<>> \in PrMaps
  <2>1. <<>> \in [{} -> PrSlots] OBVIOUS
  <2>2. {} \in SUBSET PrNames OBVIOUS
  <2>. QED BY <2>1, <2>2, PrMapsAre
<1>3. <<>> \in Seq(PrProfiles) OBVIOUS
<1>. QED BY <1>1, <1>2, <1>3 DEF NewPrCall, PrFields, PrPlaces

LEMMA TellsRight ==
  ASSUME PrInv, NEW c \in PrCalls, TellsCaller(c)
  PROVE  PrInv'
<1>1. prCall[c].pc # "idle" /\ UNCHANGED prRaw /\ prCall' = [prCall EXCEPT ![c] = NewPrCall]
  BY DEF TellsCaller
<1>. QED BY <1>1, NewCallTyped, CallMoves

LEMMA UnregistersRight ==
  ASSUME PrInv, NEW name \in PrNames, Unregisters(name)
  PROVE  PrInv'
<1>1. prRaw' = [prRaw EXCEPT ![name] = NoProfile] /\ prCall' = Company({})
  BY DEF Unregisters
<1>2. prRaw' \in PrRaws
  <2>1. prRaw \in PrRaws BY DEF PrInv, PrTyped
  <2>. QED BY <1>1, <2>1 DEF PrRaws, PrSlots
<1>3. prCall' \in [PrCalls -> PrFields] BY <1>1, CompanyTyped
<1>4. \A o \in PrCalls : ~AloneIn(o)'
  <2>. SUFFICES ASSUME NEW o \in PrCalls, AloneIn(o)' PROVE FALSE
    OBVIOUS
  <2>1. prCall'[o].pc # "idle" /\ prCall'[o].alone BY DEF AloneIn
  <2>2. prCall[o].pc # "idle" BY <1>1, <2>1, CompanyTyped
  <2>3. ~Company({})[o].alone BY <2>2, CompanyTyped
  <2>. QED BY <1>1, <2>1, <2>3
<1>. QED BY <1>2, <1>3, <1>4 DEF PrInv, PrTyped, PrAlone

LEMMA PrInitial == PrInit => PrInv
<1>. SUFFICES ASSUME PrInit PROVE PrInv
  OBVIOUS
<1>1. prRaw \in PrRaws BY DEF PrInit, PrRaws, PrSlots
<1>2. prCall \in [PrCalls -> PrFields] BY NewCallTyped DEF PrInit
<1>3. \A c \in PrCalls : prCall[c].pc = "idle" BY NewCallTyped DEF PrInit
<1>. QED BY <1>1, <1>2, <1>3 DEF PrInv, PrTyped, PrAlone, AloneIn

(* All of a batch is registered or none of it, for a call nobody            *)
(* interfered with, and every chain of registered files folds into a        *)
(* profile that says of its hello and of its devices only what is about     *)
(* them - for any files, batches, depth and callers (registerChecked, fold, *)
(* merge, forgetHello).                                                     *)
THEOREM RegistryAlwaysHolds == PrSpec => []RegistryHolds
<1>1. ASSUME PrInv, [PrNext]_prVars PROVE PrInv'
  <2>1. CASE UNCHANGED prVars
    <3>1. UNCHANGED <<prRaw, prCall>> BY <2>1 DEF prVars
    <3>2. PrTyped' BY <1>1, <3>1 DEF PrInv, PrTyped
    <3>3. PrAlone' BY <1>1, <3>1 DEF PrInv, PrAlone, AloneIn, Undisturbed
    <3>. QED BY <3>2, <3>3 DEF PrInv
  <2>2. CASE PrNext
    BY <1>1, <2>2, RegistersRight, ChecksRight, PutsBackRight, TellsRight, UnregistersRight
       DEF PrNext
  <2>. QED BY <1>1, <2>1, <2>2
<1>. QED BY <1>1, PrInitial, RegistryFromInv, PTL DEF PrSpec
=============================================================================
