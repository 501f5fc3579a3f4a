----------------------------- MODULE BodyReader -----------------------------
(***************************************************************************)
(* Reading a response (internal/client: Stream in stream.go, Do in          *)
(* client.go, idleBody in idle.go, lazyDecoder in decompress.go): a stream's *)
(* reader and its closer, the idle clock between them, and the decoders     *)
(* that responses hand on to one another.                                   *)
(***************************************************************************)
EXTENDS Integers, FiniteSets

CONSTANTS BrBodies,    (* responses                                          *)
          BrWhole,     (* those Do reads, the others are streams             *)
          BrIdle,      (* those with an idle limit                           *)
          BrServed,    (* for each, what the server may send: [size, ends]   *)
          BrDecoders,  (* decoders there can be, numbers from 1              *)
          BrLimit      (* MaxResponseSize, in bytes                          *)

ASSUME BrAssumption ==
  /\ IsFiniteSet(BrBodies) /\ Cardinality(BrDecoders) >= Cardinality(BrBodies)
  /\ BrDecoders \subseteq Nat \ {0}
  /\ BrWhole \subseteq BrBodies /\ BrIdle \subseteq BrBodies /\ BrLimit \in Nat
  /\ BrServed \in [BrBodies -> SUBSET [size : Nat, ends : {"clean", "cut", "stalls"}]]

VARIABLES brBody,   (* the responses: the server's side, the decoder's, the  *)
                    (* reader's and the closer's                             *)
          brPool,   (* gzipPool and zstdPool, which are alike                *)
          brMade    (* decoders ever made                                    *)

brVars == <<brBody, brPool, brMade>>

NoDecoder == 0

(* size, ends: what the server will send, and how that ends.                *)
(* lock: lazyDecoder.mu; holds: the decoder it has; works: the one the      *)
(* reader is in.  clock: the idle timer is off, running, or its function    *)
(* is on its way.                                                           *)
NewBody ==
  [size |-> 0, ends |-> "clean", source |-> "open", sent |-> 0,
   lock |-> "free", holds |-> NoDecoder, works |-> NoDecoder, failed |-> "no",
   reader |-> "idle", result |-> "none", got |-> 0,
   clock |-> "off", fired |-> FALSE, closer |-> "no", answer |-> "none"]

BrTypeOK ==
  /\ \A b \in BrBodies :
       /\ [size |-> brBody[b].size, ends |-> brBody[b].ends] \in BrServed[b]
       /\ brBody[b].sent \in 0..brBody[b].size /\ brBody[b].clock \in {"off", "runs", "late"}
       /\ brBody[b].got \in 0..(BrLimit + 1)
       /\ brBody[b].lock \in {"free", "read", "close"}
       /\ {brBody[b].holds, brBody[b].works} \subseteq BrDecoders \cup {NoDecoder}
       /\ brBody[b].reader \in {"idle", "lock", "open", "fetch", "back", "gone"}
       /\ brBody[b].result \in {"none", "bytes", "end", "error", "closed", "idle"}
       /\ brBody[b].closer \in {"no", "lock", "done"}
       /\ brBody[b].answer \in {"none", "body", "too_large", "error"}
  /\ brPool \subseteq BrDecoders /\ brMade \subseteq BrDecoders

BrInit ==
  /\ \E served \in [BrBodies -> UNION {BrServed[b] : b \in BrBodies}] :
       /\ \A b \in BrBodies : served[b] \in BrServed[b]
       /\ brBody = [b \in BrBodies |-> [NewBody EXCEPT !.size = served[b].size,
                                                      !.ends = served[b].ends]]
  /\ brPool = {} /\ brMade = {}

-----------------------------------------------------------------------------
BrTo(b, body) == brBody' = [brBody EXCEPT ![b] = body]

(* Stream.Read and idleBody.Read: not on a closed stream, nor on one given  *)
(* up for silence; otherwise the clock runs while this read does.           *)
BeginsRead(b) ==
  /\ brBody[b].reader = "idle" /\ brBody[b].answer = "none"
  /\ BrTo(b, IF brBody[b].closer # "no" THEN [brBody[b] EXCEPT !.reader = "gone"]
             ELSE IF brBody[b].fired THEN [brBody[b] EXCEPT !.reader = "back", !.result = "idle"]
             ELSE [brBody[b] EXCEPT !.reader = "lock",
                     !.clock = IF @ = "off" /\ b \in BrIdle THEN "runs" ELSE @])
  /\ UNCHANGED <<brPool, brMade>>

(* lazyDecoder.Read, its lock taken: the first read opens the decoder, out  *)
(* of the pool or a new one.                                                *)
ReadLocks(b) ==
  /\ brBody[b].reader = "lock" /\ brBody[b].lock = "free"
  /\ \/ /\ brBody[b].failed # "no"
        /\ BrTo(b, [brBody[b] EXCEPT !.reader = "back", !.result = brBody[b].failed])
        /\ UNCHANGED <<brPool, brMade>>
     \/ /\ brBody[b].failed = "no" /\ brBody[b].holds # NoDecoder
        /\ BrTo(b, [brBody[b] EXCEPT !.reader = "fetch", !.lock = "read",
                                    !.works = brBody[b].holds])
        /\ UNCHANGED <<brPool, brMade>>
     \/ /\ brBody[b].failed = "no" /\ brBody[b].holds = NoDecoder
        /\ \E d \in BrDecoders :
             /\ IF brPool # {} THEN d \in brPool ELSE d \notin brMade
             /\ brPool' = brPool \ {d} /\ brMade' = brMade \cup {d}
             /\ BrTo(b, [brBody[b] EXCEPT !.reader = "open", !.lock = "read", !.works = d])

(* What the source gives a read: a byte while there are, then how it ends;  *)
(* an error once it is closed or the request cancelled.                     *)
SourceGives(b) ==
  (IF brBody[b].source # "open" \/ brBody[b].fired THEN {"error"} ELSE {})
  \cup (IF brBody[b].source # "open" THEN {}
        ELSE IF brBody[b].sent < brBody[b].size THEN {"bytes"}
        ELSE CASE brBody[b].ends = "clean" -> {"end"}
               [] brBody[b].ends = "cut" -> {"error"}
               [] OTHER -> {})

(* openDecoder: a codec may read its header first; an empty body is its     *)
(* end.  What fails goes back to the pool at once.                          *)
OpensDecoder(b) ==
  /\ brBody[b].reader = "open"
  /\ \E gives \in SourceGives(b) :
       IF gives = "bytes"
       THEN /\ BrTo(b, [brBody[b] EXCEPT !.reader = "fetch", !.holds = brBody[b].works])
            /\ UNCHANGED brPool
       ELSE /\ BrTo(b, [brBody[b] EXCEPT !.reader = "back", !.lock = "free", !.works = NoDecoder,
                                        !.failed = gives, !.result = gives])
            /\ brPool' = brPool \cup {brBody[b].works}
  /\ UNCHANGED brMade

Decodes(b) ==
  /\ brBody[b].reader = "fetch"
  /\ \E gives \in SourceGives(b) :
       BrTo(b, [brBody[b] EXCEPT !.reader = "back", !.lock = "free", !.works = NoDecoder,
                  !.result = gives, !.sent = IF gives = "bytes" THEN @ + 1 ELSE @])
  /\ UNCHANGED <<brPool, brMade>>

(* Do: one byte more than allowed tells "exactly the limit" from "over".    *)
Enough(got) == got > BrLimit

(* The clock stops, unless its function has been started; a failure after   *)
(* it is the silence's.  Do reads on to the end, a failure or the limit,    *)
(* and closes.                                                              *)
EndsRead(b) ==
  LET body == brBody[b]
      result == IF body.result = "error" /\ body.fired THEN "idle" ELSE body.result
      got == IF b \in BrWhole /\ result = "bytes" THEN body.got + 1 ELSE body.got
      over == b \in BrWhole /\ (result # "bytes" \/ Enough(got)) IN
  /\ body.reader = "back"
  /\ BrTo(b, [body EXCEPT !.reader = IF result = "bytes" /\ ~over THEN "idle" ELSE "gone",
                !.result = result, !.got = got, !.clock = IF @ = "late" THEN "late" ELSE "off",
                !.answer = IF ~over THEN "none" ELSE IF got > BrLimit THEN "too_large"
                           ELSE IF result \in {"bytes", "end"} THEN "body" ELSE "error"])
  /\ UNCHANGED <<brPool, brMade>>

(* The limit passes during a read; the timer's function is a goroutine.     *)
ClockExpires(b) ==
  /\ brBody[b].clock = "runs" /\ BrTo(b, [brBody[b] EXCEPT !.clock = "late"])
  /\ UNCHANGED <<brPool, brMade>>

ClockFires(b) ==
  /\ brBody[b].clock = "late" /\ BrTo(b, [brBody[b] EXCEPT !.clock = "off", !.fired = TRUE])
  /\ UNCHANGED <<brPool, brMade>>

(* Stream.Close, the first of them, at any moment of the reader's, or by Do *)
(* in the end: the source is closed first, which wakes a read in it ...     *)
ClosesSource(b) ==
  /\ brBody[b].closer = "no"
  /\ b \in BrWhole => brBody[b].answer # "none"
  /\ BrTo(b, [brBody[b] EXCEPT !.closer = "lock", !.source = "closed",
                              !.clock = IF @ = "late" THEN "late" ELSE "off"])
  /\ UNCHANGED <<brPool, brMade>>

(* Mutant of ClosesDecoder: without waiting for the read to leave it.       *)
ClosesAtOnce(b) ==
  /\ brBody[b].closer = "lock"
  /\ BrTo(b, [brBody[b] EXCEPT !.closer = "done", !.holds = NoDecoder,
                              !.failed = IF @ = "no" THEN "closed" ELSE @])
  /\ brPool' = brPool \cup ({brBody[b].holds} \ {NoDecoder})
  /\ UNCHANGED brMade

(* ... and the decoder handed on when it has left.                          *)
ClosesDecoder(b) ==
  /\ brBody[b].closer = "lock" /\ brBody[b].lock = "free"
  /\ BrTo(b, [brBody[b] EXCEPT !.closer = "done", !.holds = NoDecoder,
                              !.failed = IF @ = "no" THEN "closed" ELSE @])
  /\ brPool' = brPool \cup ({brBody[b].holds} \ {NoDecoder})
  /\ UNCHANGED brMade

BrNext ==
  \E b \in BrBodies :
    \/ BeginsRead(b) \/ ReadLocks(b) \/ OpensDecoder(b) \/ Decodes(b) \/ EndsRead(b)
    \/ ClockExpires(b) \/ ClockFires(b) \/ ClosesSource(b) \/ ClosesDecoder(b)

BrSpec == BrInit /\ [][BrNext]_brVars

-----------------------------------------------------------------------------
(* Properties                                                               *)

(* A decoder is in one place: with one body, or in the pool; and a read is  *)
(* in none that its body no longer has.  "Without the wait a decoder could  *)
(* be decoding one response while the pool had already given it to the      *)
(* next" (lazyDecoder.Close against Read, openDecoder's failures).          *)
OneBodyPerDecoder ==
  \A d \in BrDecoders :
    LET with == {b \in BrBodies : d \in {brBody[b].holds, brBody[b].works}} IN
    /\ Cardinality(with) <= 1
    /\ d \in brPool => with = {}
    /\ d \in brMade => d \in brPool \/ with # {}

(* Do tells of a body as it was: handed over, it is all the server sent, to *)
(* its clean end and within the limit; refused as too large, it was; and    *)
(* where its own clock and closer leave it alone, a clean body is not an    *)
(* error, whatever the other bodies do with the decoders.                   *)
BodyIsWhole ==
  \A b \in BrBodies :
    /\ brBody[b].answer = "body" =>
         brBody[b].got = brBody[b].size /\ brBody[b].ends = "clean" /\ brBody[b].got <= BrLimit
    /\ brBody[b].answer = "too_large" => brBody[b].size > BrLimit
    /\ brBody[b].answer = "error" => brBody[b].ends # "clean" \/ brBody[b].fired

(* Bodies are read right: none through another's decoder, each whole.       *)
BodiesReadRight == OneBodyPerDecoder /\ BodyIsWhole
=============================================================================
