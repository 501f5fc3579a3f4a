------------------------------- MODULE EchDial -------------------------------
(***************************************************************************)
(* HTTPS records and the encrypted ClientHello (internal/dnsrr/dnsrr.go,    *)
(* internal/client/dns.go, dialWith of client.go, the QUIC dial of          *)
(* http3.go): concurrent dials to one name share one query and its cached   *)
(* answer, go without a record that is late, and fall back from ECH when    *)
(* the server refuses it or the network drops it; the public name is then   *)
(* left alone for a while by the whole process.                             *)
(***************************************************************************)
EXTENDS Naturals, FiniteSets

CONSTANTS EdDials,     (* dials                                               *)
          EdMaxLapses  (* bound: times the clock lets a record or a mark lapse *)

ASSUME EdAssumption == EdMaxLapses \in Nat

VARIABLES edNet,     (* the world: does the network drop hellos with ECH,     *)
                     (* does the server live, what does it do with ECH        *)
          edRecord,  (* the Resolver's entry for the name                     *)
          edMarked,  (* echDrops: the public name is marked                   *)
          edDial,    (* the dials, each with its lookup goroutine             *)
          edLapses,
          edDropped  (* history: a hello with ECH got no answer in TLS        *)

edVars == <<edNet, edRecord, edMarked, edDial, edLapses, edDropped>>

Answers == {"ech", "bare", "error"}
(* The Resolver's entry: none, a query under way, or its answer.            *)
Entry == [st : {"none", "asked", "done"}, answer : Answers, fresh : BOOLEAN]

(* A server that is dead is silent whatever else it would do, and what one  *)
(* does with ECH matters only where a hello with it gets through.           *)
Worlds ==
  {net \in [drops : BOOLEAN, lives : BOOLEAN, ech : {"takes", "rekeys", "refuses"}] :
     /\ net.drops => net.lives /\ net.ech = "takes"
     /\ net.lives \/ net.ech = "takes"}

(* list: the configuration list this attempt encrypts to, from the record   *)
(* or from the server's rejection.  gone: dialCtx is over.                  *)
NewDial == [pc |-> "new", path |-> "tcp", lookup |-> "none", answer |-> "none",
            list |-> "none", attempt |-> 0, late |-> FALSE, gone |-> FALSE]

EdTypeOK ==
  /\ edNet \in Worlds /\ edMarked \in BOOLEAN /\ edLapses \in 0..EdMaxLapses
  /\ edRecord \in Entry
  /\ edDial \in [EdDials -> [pc : {"new", "wait", "usable", "shake", "up", "failed"},
                             path : {"tcp", "quic"},
                             lookup : {"none", "starts", "asks", "waits", "told"},
                             answer : Answers \cup {"none"},
                             list : {"none", "record", "retry"},
                             attempt : 0..2, late : BOOLEAN, gone : BOOLEAN]]

EdInit ==
  /\ edNet \in Worlds /\ edMarked = FALSE /\ edLapses = 0 /\ edDropped = FALSE
  /\ edRecord = [st |-> "none", answer |-> "error", fresh |-> FALSE]
  /\ edDial = [d \in EdDials |-> NewDial]

-----------------------------------------------------------------------------
(* Cached: an answer that is there, unexpired and no failure.               *)
Cached == edRecord.st = "done" /\ edRecord.fresh /\ edRecord.answer # "error"

(* httpsRecord: what is cached is taken at once; otherwise a goroutine      *)
(* looks it up and the dial waits.                                          *)
Begins(d) ==
  /\ edDial[d].pc = "new"
  /\ \E path \in {"tcp", "quic"} :
       edDial' = [edDial EXCEPT ![d] =
         IF Cached
         THEN [@ EXCEPT !.pc = "usable", !.path = path, !.answer = edRecord.answer]
         ELSE [@ EXCEPT !.pc = "wait", !.path = path, !.lookup = "starts"]]
  /\ UNCHANGED <<edNet, edRecord, edMarked, edLapses, edDropped>>

(* Lookup, under the resolver's lock: the unexpired answer, a failure's     *)
(* too; the query in flight; or a query of one's own.                       *)
LookupStarts(d) ==
  /\ edDial[d].lookup = "starts"
  /\ CASE edRecord.st = "done" /\ edRecord.fresh ->
            /\ edDial' = [edDial EXCEPT ![d].lookup = "told", ![d].answer = edRecord.answer]
            /\ UNCHANGED edRecord
       [] edRecord.st = "asked" ->
            /\ edDial' = [edDial EXCEPT ![d].lookup = "waits"] /\ UNCHANGED edRecord
       [] OTHER ->
            /\ edDial' = [edDial EXCEPT ![d].lookup = "asks"]
            /\ edRecord' = [edRecord EXCEPT !.st = "asked"]
  /\ UNCHANGED <<edNet, edMarked, edLapses, edDropped>>

(* resolve: the answer, or a failure; close(e.done) tells all who wait.     *)
QueryEnds(d) ==
  /\ edDial[d].lookup = "asks"
  /\ \E answer \in Answers :
       /\ edRecord' = [st |-> "done", answer |-> answer, fresh |-> TRUE]
       /\ edDial' = [p \in EdDials |->
            IF p = d \/ edDial[p].lookup = "waits"
            THEN [edDial[p] EXCEPT !.lookup = "told", !.answer = answer] ELSE edDial[p]]
  /\ UNCHANGED <<edNet, edMarked, edLapses, edDropped>>

(* The select of httpsRecord: the answer, or the wait or the context over:  *)
(* the dial goes on without a record.                                       *)
RecordComes(d) ==
  /\ edDial[d].pc = "wait" /\ edDial[d].lookup = "told"
  /\ edDial' = [edDial EXCEPT ![d].pc = "usable"]
  /\ UNCHANGED <<edNet, edRecord, edMarked, edLapses, edDropped>>

RecordIsLate(d) ==
  /\ edDial[d].pc = "wait"
  /\ edDial' = [edDial EXCEPT ![d].pc = "shake", ![d].late = TRUE]
  /\ UNCHANGED <<edNet, edRecord, edMarked, edLapses, edDropped>>

(* echConfig, h3ECH, echUsable.                                             *)
EchUsable(d) ==
  /\ edDial[d].pc = "usable"
  /\ edDial' = [edDial EXCEPT ![d].pc = "shake",
                  ![d].list = IF edDial[d].answer = "ech" /\ ~edMarked THEN "record" ELSE "none"]
  /\ UNCHANGED <<edNet, edRecord, edMarked, edLapses, edDropped>>

-----------------------------------------------------------------------------
(* What a handshake with `list` may come to.                                *)
HelloOutcome(list) ==
  IF list # "none" /\ edNet.drops THEN "silence"
  ELSE IF ~edNet.lives THEN "silence"
  ELSE IF list = "record" /\ edNet.ech # "takes" THEN "rejection"
  ELSE "up"

(* The caller goes away, or its time is over.                               *)
CallerGoes(d) ==
  /\ edDial[d].pc \in {"wait", "shake"} /\ ~edDial[d].gone
  /\ edDial' = [edDial EXCEPT ![d].gone = TRUE]
  /\ UNCHANGED <<edNet, edRecord, edMarked, edLapses, edDropped>>

(* Mutant of EchDropped: every handshake that ends unanswered counts.       *)
AnyFailure(r, unanswered) == unanswered /\ r.list # "none"

(* echDropped: silence, a reset or a close with time left, so not the end   *)
(* of the dial's own context; http3.go asks the same of its timeouts.       *)
EchDropped(r, unanswered) == unanswered /\ r.list # "none" /\ ~r.gone

(* markECHBroken, by public name: the name of the list and of its           *)
(* replacement is the same.                                                 *)
MarkECHBroken(broken) == edMarked' = (edMarked \/ broken)

(* A handshake ends.  One whose context is over fails for that, whatever    *)
(* the network would have done.  TCP tries once more: with what the         *)
(* rejection gave, or in the clear, and marks before it knows.              *)
TcpShakes(d) ==
  LET r == edDial[d]
      unanswered == r.gone \/ HelloOutcome(r.list) = "silence"
      dropped == EchDropped(r, unanswered) /\ r.attempt = 0
      rejected == ~unanswered /\ HelloOutcome(r.list) = "rejection" /\ r.attempt = 0
      retry == IF rejected /\ edNet.ech = "rekeys" THEN "retry" ELSE "none"
  IN /\ r.pc = "shake" /\ r.path = "tcp"
     /\ edDial' = [edDial EXCEPT ![d] =
          IF rejected \/ dropped THEN [r EXCEPT !.list = retry, !.attempt = 1]
          ELSE [r EXCEPT !.pc = IF ~r.gone /\ HelloOutcome(r.list) = "up" THEN "up" ELSE "failed"]]
     /\ MarkECHBroken(dropped)
     /\ edDropped' = (edDropped \/ (~r.gone /\ r.list # "none" /\ unanswered))
     /\ UNCHANGED <<edNet, edRecord, edLapses>>

(* QUIC: a rejection is followed by its configurations, and silence, also   *)
(* after them, by a hello in the clear from a new socket; only when that    *)
(* one comes up is the name marked.                                         *)
QuicShakes(d) ==
  LET r == edDial[d]
      unanswered == r.gone \/ HelloOutcome(r.list) = "silence"
      dropped == EchDropped(r, unanswered)
      rejected == ~unanswered /\ HelloOutcome(r.list) = "rejection" /\ r.attempt = 0
      retry == IF rejected /\ edNet.ech = "rekeys" THEN "retry" ELSE "none"
      up == ~r.gone /\ HelloOutcome(r.list) = "up"
  IN /\ r.pc = "shake" /\ r.path = "quic"
     /\ edDial' = [edDial EXCEPT ![d] =
          IF rejected THEN [r EXCEPT !.list = retry, !.attempt = 1]
          ELSE IF dropped THEN [r EXCEPT !.list = "none", !.attempt = 2]
          ELSE [r EXCEPT !.pc = IF up THEN "up" ELSE "failed"]]
     /\ MarkECHBroken(up /\ r.attempt = 2)
     /\ edDropped' = (edDropped \/ (~r.gone /\ r.list # "none" /\ unanswered))
     /\ UNCHANGED <<edNet, edRecord, edLapses>>

-----------------------------------------------------------------------------
(* The clock: a record's TTL, a mark's ten minutes.                         *)
Lapses ==
  /\ edLapses < EdMaxLapses /\ edLapses' = edLapses + 1
  /\ \/ /\ edRecord.st = "done" /\ edRecord.fresh
        /\ edRecord' = [edRecord EXCEPT !.fresh = FALSE] /\ UNCHANGED edMarked
     \/ edMarked /\ edMarked' = FALSE /\ UNCHANGED edRecord
  /\ UNCHANGED <<edNet, edDial, edDropped>>

EdNext ==
  \/ \E d \in EdDials : \/ Begins(d) \/ LookupStarts(d) \/ QueryEnds(d) \/ RecordComes(d)
                        \/ RecordIsLate(d) \/ EchUsable(d) \/ CallerGoes(d)
                        \/ TcpShakes(d) \/ QuicShakes(d)
  \/ Lapses

EdSpec == EdInit /\ [][EdNext]_edVars

-----------------------------------------------------------------------------
(* However dials, late records and expiries fall together, one query for    *)
(* the name is in flight at a time, and whoever waits waits for one.        *)
OneQuery ==
  LET asking == {d \in EdDials : edDial[d].lookup = "asks"} IN
  /\ Cardinality(asking) <= 1
  /\ (\E d \in EdDials : edDial[d].lookup = "waits") => asking # {}

(* ECH is given up for cause: the public name is marked only once a hello   *)
(* with ECH went unanswered with time left, never for a caller's leaving;   *)
(* and where server and network take ECH, no dial that had a list in time   *)
(* ends up in the clear.                                                    *)
GivenUpForCause ==
  /\ edMarked => edDropped
  /\ \A d \in EdDials :
       edNet.lives /\ ~edNet.drops /\ edNet.ech # "refuses" /\ edDial[d].pc = "up"
         => edDial[d].list # "none" \/ edDial[d].answer # "ech" \/ edDial[d].late

EchInOrder == OneQuery /\ GivenUpForCause
=============================================================================
