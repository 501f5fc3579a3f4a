---------------------------- MODULE QpackDecoder ----------------------------
(***************************************************************************)
(* The QPACK decoder of an HTTP/3 connection (internal/qpack/decoder.go):  *)
(* the goroutine that reads the server's encoder stream, the requests'     *)
(* goroutines that decode their field sections and wait for insertions     *)
(* still on their way, and what both write on the decoder stream.  The     *)
(* server's encoder is external, and keeps to RFC 9204: entries of one     *)
(* size, a section that refers to the entries from "low" up to its         *)
(* Required Insert Count.                                                  *)
(***************************************************************************)
EXTENDS Integers, Sequences

CONSTANTS QpStreams,   (* request streams, each with one field section       *)
          QpCapacity,  (* entries the table holds: maxCapacity / 32          *)
          QpMaxInserts (* bound: insertions of the encoder                   *)

ASSUME QpAssumption == QpCapacity \in Nat \ {0} /\ QpMaxInserts \in Nat

VARIABLES qpServer,  (* the server's encoder                                 *)
          qpTable,   (* the Decoder                                          *)
          qpReader,  (* the goroutine in ReadEncoderStream                   *)
          qpSection, (* each stream's section, and the goroutine decoding it *)
          qpWire,    (* instructions on the decoder stream, on their way     *)
          qpConn     (* the connection: open, closing (closeErr set, nobody  *)
                     (* woken yet), closed                                   *)

qpVars == <<qpServer, qpTable, qpReader, qpSection, qpWire, qpConn>>

Counts == 0..QpMaxInserts

(* known: the insertions the encoder takes for received (RFC 9204, 2.1.4).  *)
(* Ghost misled: it was once told of more than had been.                    *)
QpServerRecord == [sent: Counts, dropped: Counts, known: Counts, misled: BOOLEAN]
QpTableRecord == [inserted: Counts, dropped: Counts, acked: Counts]
QpSectionRecord ==
  [pc: {"none", "sent", "check", "asleep", "ack", "write", "written", "over", "failed",
        "abandoned"},
   low: Counts, ric: Counts, total: 0..(QpMaxInserts + QpCapacity)]

NoSection == [pc |-> "none", low |-> 0, ric |-> 0, total |-> 0]
SectionOver == [NoSection EXCEPT !.pc = "over"]

QpTypeOK ==
  /\ qpServer \in QpServerRecord /\ qpTable \in QpTableRecord
  /\ qpReader \in [pc: {"read", "batch", "write", "over"}, n: Counts]
  /\ qpSection \in [QpStreams -> QpSectionRecord]
  /\ qpWire \in Seq([kind: {"increment", "section"}, of: Counts \cup QpStreams])
  /\ qpConn \in {"open", "closing", "closed"}

QpInit ==
  /\ qpServer = [sent |-> 0, dropped |-> 0, known |-> 0, misled |-> FALSE]
  /\ qpTable = [inserted |-> 0, dropped |-> 0, acked |-> 0]
  /\ qpReader = [pc |-> "read", n |-> 0]
  /\ qpSection = [s \in QpStreams |-> NoSection]
  /\ qpWire = <<>> /\ qpConn = "open"

-----------------------------------------------------------------------------
(* The server.  It inserts where it may evict: entries it takes for         *)
(* received, and that no section it has had no word of refers to.           *)
Outstanding == {s \in QpStreams : qpSection[s].pc # "none" /\ qpSection[s].pc # "over"}

MayEvict(e) == e <= qpServer.known /\ \A s \in Outstanding : e < qpSection[s].low

ServerInserts ==
  LET full == qpServer.sent - qpServer.dropped = QpCapacity IN
  /\ qpConn = "open" /\ qpServer.sent < QpMaxInserts
  /\ full => MayEvict(qpServer.dropped + 1)
  /\ qpServer' = [qpServer EXCEPT !.sent = @ + 1, !.dropped = IF full THEN @ + 1 ELSE @]
  /\ UNCHANGED <<qpTable, qpReader, qpSection, qpWire, qpConn>>

ServerSends(s) ==
  /\ qpConn = "open" /\ qpSection[s].pc = "none"
  /\ \E low, ric \in (qpServer.dropped + 1)..qpServer.sent :
       /\ low <= ric
       /\ qpSection' = [qpSection EXCEPT ![s] = [NoSection EXCEPT !.pc = "sent", !.low = low,
                                                                  !.ric = ric]]
  /\ UNCHANGED <<qpServer, qpTable, qpReader, qpWire, qpConn>>

QpLarger(i, j) == IF i < j THEN j ELSE i

(* It reads our instructions in order; one that confirms what it never sent *)
(* is an error of the connection.                                           *)
ServerHears ==
  /\ qpConn = "open" /\ qpWire # <<>>
  /\ qpWire' = Tail(qpWire)
  /\ LET i == Head(qpWire) IN
     \/ /\ i.kind = "increment" /\ qpServer.known + i.of <= qpServer.sent
        /\ qpServer' = [qpServer EXCEPT !.known = @ + i.of,
              !.misled = @ \/ qpServer.known + i.of > qpTable.inserted]
        /\ UNCHANGED <<qpSection, qpConn>>
     \/ /\ i.kind = "increment" /\ qpServer.known + i.of > qpServer.sent
        /\ qpConn' = "closing" /\ UNCHANGED <<qpServer, qpSection>>
     \/ /\ i.kind = "section"
        /\ qpServer' = [qpServer EXCEPT !.known = QpLarger(@, qpSection[i.of].ric)]
        /\ qpSection' = [qpSection EXCEPT ![i.of] = SectionOver] /\ UNCHANGED qpConn
  /\ UNCHANGED <<qpTable, qpReader>>

-----------------------------------------------------------------------------
(* cond.Broadcast.  Mutant of Woken: one of the waiting is woken            *)
(* (cond.Signal).                                                           *)
WokenOne(sections) ==
  LET asleep == {s \in QpStreams : sections[s].pc = "asleep"}
      one == IF asleep = {} THEN {} ELSE {CHOOSE s \in asleep : TRUE}
  IN [s \in QpStreams |-> IF s \in one THEN [sections[s] EXCEPT !.pc = "check"] ELSE sections[s]]

Woken(sections) ==
  [s \in QpStreams |-> IF sections[s].pc = "asleep" THEN [sections[s] EXCEPT !.pc = "check"]
                                                   ELSE sections[s]]

(* readInstruction and insertLocked; then the next, or the batch is over.   *)
ReaderInserts ==
  LET full == qpTable.inserted - qpTable.dropped = QpCapacity IN
  /\ qpConn # "closed" /\ qpReader.pc = "read" /\ qpTable.inserted < qpServer.sent
  /\ qpTable' = [qpTable EXCEPT !.inserted = @ + 1, !.dropped = IF full THEN @ + 1 ELSE @]
  /\ qpSection' = Woken(qpSection)
  /\ qpReader' = [qpReader EXCEPT !.pc = "batch"]
  /\ UNCHANGED <<qpServer, qpWire, qpConn>>

ReaderGoesOn ==
  /\ qpReader.pc = "batch" /\ qpTable.inserted < qpServer.sent
  /\ qpReader' = [qpReader EXCEPT !.pc = "read"]
  /\ UNCHANGED <<qpServer, qpTable, qpSection, qpWire, qpConn>>

(* AcknowledgeInserts: what to confirm under the lock, the write without.   *)
ReaderCounts ==
  /\ qpReader.pc = "batch"
  /\ LET n == qpTable.inserted - qpTable.acked
     IN qpReader' = IF n > 0 THEN [pc |-> "write", n |-> n] ELSE [qpReader EXCEPT !.pc = "read"]
  /\ qpTable' = [qpTable EXCEPT !.acked = qpTable.inserted]
  /\ UNCHANGED <<qpServer, qpSection, qpWire, qpConn>>

ReaderWrites ==
  /\ qpReader.pc = "write"
  /\ qpWire' = IF qpConn = "closed" THEN qpWire
                                    ELSE Append(qpWire, [kind |-> "increment", of |-> qpReader.n])
  /\ qpReader' = [pc |-> "read", n |-> 0]
  /\ UNCHANGED <<qpServer, qpTable, qpSection, qpConn>>

-----------------------------------------------------------------------------
(* The Required Insert Count goes over the wire modulo twice the entries    *)
(* that fit, and is restored around the insertions seen (RFC 9204, 4.5.1).  *)
FullRange == 2 * QpCapacity
Encoded(ric) == (ric % FullRange) + 1

(* Mutant of Restored: the last count of the range is taken for the one a   *)
(* range before it.                                                         *)
RestoredShort(enc, total) ==
  LET max == total + QpCapacity
      count == (max \div FullRange) * FullRange + enc - 1
  IN IF count < max THEN count ELSE count - FullRange

Restored(enc, total) ==
  LET max == total + QpCapacity
      count == (max \div FullRange) * FullRange + enc - 1
  IN IF count <= max THEN count ELSE count - FullRange

QpStep(s, pc) == qpSection' = [qpSection EXCEPT ![s].pc = pc]

(* decodeRequiredInsertCount, which lets the lock go before the wait.       *)
DecodeBegins(s) ==
  /\ qpSection[s].pc = "sent"
  /\ LET total == Restored(Encoded(qpSection[s].ric), qpTable.inserted)
     IN qpSection' = [qpSection EXCEPT ![s].pc = IF total > 0 THEN "check" ELSE "failed",
                                       ![s].total = IF total > 0 THEN total ELSE 0]
  /\ UNCHANGED <<qpServer, qpTable, qpReader, qpWire, qpConn>>

(* The request is given up before its headers are read: nothing calls       *)
(* CancelStream, and the encoder hears no more of the section.              *)
GivesUp(s) ==
  /\ qpSection[s].pc = "sent" /\ QpStep(s, "abandoned")
  /\ UNCHANGED <<qpServer, qpTable, qpReader, qpWire, qpConn>>

(* The wait on cond, and the two ways past it.                              *)
DecodeWaits(s) ==
  /\ qpSection[s].pc = "check" /\ qpConn = "open" /\ qpTable.inserted < qpSection[s].total
  /\ QpStep(s, "asleep") /\ UNCHANGED <<qpServer, qpTable, qpReader, qpWire, qpConn>>

DecodeClosed(s) ==
  /\ qpSection[s].pc = "check" /\ qpConn # "open"
  /\ qpSection' = [qpSection EXCEPT ![s] = SectionOver]
  /\ UNCHANGED <<qpServer, qpTable, qpReader, qpWire, qpConn>>

(* parseFieldsLocked: every entry the section means is in the table, or the *)
(* section does not decode.                                                 *)
Refers(s) == qpSection[s].low > qpTable.dropped /\ qpSection[s].total = qpSection[s].ric

DecodeParses(s) ==
  /\ qpSection[s].pc = "check" /\ qpConn = "open" /\ qpTable.inserted >= qpSection[s].total
  /\ qpSection' = [qpSection EXCEPT ![s].total = 0,
                                    ![s].pc = IF Refers(s) THEN "ack" ELSE "failed"]
  /\ UNCHANGED <<qpServer, qpTable, qpReader, qpWire, qpConn>>

(* sectionAck: acked under the lock, the write without.                     *)
SectionCounts(s) ==
  /\ qpSection[s].pc = "ack"
  /\ qpTable' = [qpTable EXCEPT !.acked = QpLarger(@, qpSection[s].ric)]
  /\ QpStep(s, "write") /\ UNCHANGED <<qpServer, qpReader, qpWire, qpConn>>

SectionWrites(s) ==
  /\ qpSection[s].pc = "write"
  /\ qpWire' = Append(qpWire, [kind |-> "section", of |-> s])
  /\ QpStep(s, "written") /\ UNCHANGED <<qpServer, qpTable, qpReader, qpConn>>

-----------------------------------------------------------------------------
(* The connection ends: the AfterFunc of its context sets closeErr under    *)
(* the lock, and wakes everyone after it.                                   *)
ConnEnds ==
  /\ qpConn = "open" /\ qpConn' = "closing"
  /\ UNCHANGED <<qpServer, qpTable, qpReader, qpSection, qpWire>>

DecoderCloses ==
  /\ qpConn = "closing" /\ qpConn' = "closed" /\ qpSection' = Woken(qpSection)
  /\ UNCHANGED <<qpServer, qpTable, qpReader, qpWire>>

Decodes(s) == DecodeBegins(s) \/ DecodeWaits(s) \/ DecodeClosed(s) \/ DecodeParses(s)
              \/ SectionCounts(s) \/ SectionWrites(s)

Reads == ReaderInserts \/ ReaderCounts \/ ReaderWrites

QpNext ==
  \/ ServerInserts \/ ServerHears \/ \E s \in QpStreams : ServerSends(s) \/ Decodes(s) \/ GivesUp(s)
  \/ Reads \/ ReaderGoesOn \/ ConnEnds \/ DecoderCloses

QpSpec == QpInit /\ [][QpNext]_qpVars

-----------------------------------------------------------------------------
(* A section of an encoder that keeps to the RFC decodes to the entries it  *)
(* means: none is evicted before the section is acknowledged, and the count *)
(* that went modulo comes back whole, however far the encoder stream is     *)
(* ahead or behind - unless the encoder was misled about what we have       *)
(* (decoder.go, decodeSection, decodeRequiredInsertCount, sectionAck).      *)
SectionDecodes == \A s \in QpStreams : qpSection[s].pc = "failed" => qpServer.misled

(* A section that waits for insertions goes on when they are there or when  *)
(* the connection ends, and is not left asleep (insertLocked, Close).       *)
BlockedWakes == \A s \in QpStreams : []<>(qpSection[s].pc # "asleep")
=============================================================================
