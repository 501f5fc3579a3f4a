----------------------------- MODULE H3Settings -----------------------------
(***************************************************************************)
(* What a new HTTP/3 connection says first (internal/h3/client.go,          *)
(* conn.go, frames.go, fingerprint.go): a goroutine of its own opens the    *)
(* control stream with SETTINGS and the GREASE frame, then the two QPACK    *)
(* streams, and requests wait for it.  The settings that have no field of   *)
(* their own are a map of the transport's, which all of its connections     *)
(* are given.                                                               *)
(***************************************************************************)
EXTENDS Integers, SequencesExt

CONSTANTS H3xConns,   (* connections of one transport                       *)
          H3xOrder,   (* the profile's settings, in the order it sends them  *)
          H3xFields,  (* those of them that are fields of the transport      *)
          H3xGrease   (* identifiers of the GREASE form                      *)

ASSUME H3xAssumption ==
  /\ IsInjective(H3xOrder) /\ H3xFields \subseteq ToSet(H3xOrder)
  /\ ToSet(H3xOrder) \cup H3xGrease \subseteq Nat
  /\ H3xGrease \cap ToSet(H3xOrder) = {}

VARIABLES h3xExtra,  (* the identifiers in the transport's AdditionalSettings *)
          h3xConn    (* each connection's goroutine, and one request on it    *)

h3xVars == <<h3xExtra, h3xConn>>

H3xConnRecord ==
  [pc: {"none", "apply", "control", "encoder", "decoder", "over"}, grease: H3xGrease \cup {0},
   sent: Seq(Nat), streams: Seq({"control", "encoder", "decoder"}), ready: BOOLEAN,
   closed: BOOLEAN, request: {"none", "waits", "sent"}, priority: BOOLEAN]

H3xTypes == h3xConn \in [H3xConns -> H3xConnRecord] /\ h3xExtra \subseteq Nat

H3xInit ==
  /\ h3xExtra = ToSet(H3xOrder) \ H3xFields
  /\ h3xConn = [c \in H3xConns |->
       [pc |-> "none", grease |-> 0, sent |-> <<>>, streams |-> <<>>, ready |-> FALSE,
        closed |-> FALSE, request |-> "none", priority |-> FALSE]]

H3xTo(c, fields) == h3xConn' = [h3xConn EXCEPT ![c] = fields @@ @]

-----------------------------------------------------------------------------
(* newClientConn.                                                           *)
NewConn(c) ==
  /\ h3xConn[c].pc = "none"
  /\ H3xTo(c, [pc |-> "apply"]) /\ UNCHANGED h3xExtra

(* applySettings: the frame's Other is the transport's map.                 *)
ApplySettings(c) ==
  /\ h3xConn[c].pc = "apply"
  /\ \E id \in H3xGrease \ h3xExtra :
       /\ H3xTo(c, [pc |-> "control", grease |-> id])
       /\ h3xExtra' = h3xExtra \cup {id}

(* settingsSequence: those of the order, then the rest, ascending.          *)
SettingsSequence(order, all) ==
  SelectSeq(order, LAMBDA id : id \in all) \o SetToSortSeq(all \ ToSet(order), <)

(* openControlStream; settingsSent closes on a failure too.                 *)
OpenControl(c) ==
  /\ h3xConn[c].pc = "control" /\ ~h3xConn[c].closed
  /\ H3xTo(c, [pc |-> "encoder", streams |-> <<"control">>,
               sent |-> SettingsSequence(Append(H3xOrder, h3xConn[c].grease),
                                         h3xExtra \cup H3xFields)])
  /\ UNCHANGED h3xExtra

ControlFails(c) ==
  /\ h3xConn[c].pc = "control"
  /\ H3xTo(c, [pc |-> "over", ready |-> TRUE, closed |-> TRUE])
  /\ UNCHANGED h3xExtra

(* The QPACK streams: one that cannot be opened is let go.                  *)
OpenQpack(c, what, next) ==
  /\ h3xConn[c].pc = what
  /\ \E opened \in IF h3xConn[c].closed THEN {FALSE} ELSE BOOLEAN :
       H3xTo(c, [pc |-> next, ready |-> next = "over",
                 streams |-> IF opened THEN Append(h3xConn[c].streams, what)
                             ELSE h3xConn[c].streams])
  /\ UNCHANGED h3xExtra

OpenEncoder(c) == OpenQpack(c, "encoder", "decoder")
OpenDecoder(c) == OpenQpack(c, "decoder", "over")

(* The connection ends at the other side.                                   *)
PeerCloses(c) ==
  /\ h3xConn[c].pc # "none" /\ ~h3xConn[c].closed
  /\ H3xTo(c, [closed |-> TRUE]) /\ UNCHANGED h3xExtra

(* awaitSettings, two seconds at most, and PRIORITY_UPDATE on the control   *)
(* stream if there is one.                                                  *)
RequestComes(c) ==
  /\ h3xConn[c].pc # "none" /\ h3xConn[c].request = "none"
  /\ H3xTo(c, [request |-> "waits"]) /\ UNCHANGED h3xExtra

SendPriorityUpdate(c) == h3xConn[c].streams # <<>>

RequestGoes(c) ==
  /\ h3xConn[c].request = "waits" /\ h3xConn[c].ready /\ ~h3xConn[c].closed
  /\ H3xTo(c, [request |-> "sent", priority |-> SendPriorityUpdate(c)])
  /\ UNCHANGED h3xExtra

RequestWaitedEnough(c) ==
  /\ h3xConn[c].request = "waits" /\ ~h3xConn[c].ready /\ ~h3xConn[c].closed
  /\ H3xTo(c, [request |-> "sent", priority |-> SendPriorityUpdate(c)])
  /\ UNCHANGED h3xExtra

H3xNext ==
  \E c \in H3xConns :
     \/ NewConn(c) \/ ApplySettings(c) \/ OpenControl(c) \/ ControlFails(c)
     \/ OpenEncoder(c) \/ OpenDecoder(c) \/ PeerCloses(c)
     \/ RequestComes(c) \/ RequestGoes(c) \/ RequestWaitedEnough(c)

-----------------------------------------------------------------------------
(* Properties                                                               *)

(* A connection's SETTINGS are the profile's, in its order, and one GREASE  *)
(* setting drawn for this connection, last (applySettings: "GREASE goes     *)
(* last -- that is how Chrome sends it").                                   *)
GreaseIsItsOwn ==
  \A c \in H3xConns :
     h3xConn[c].sent # <<>> => h3xConn[c].sent = Append(H3xOrder, h3xConn[c].grease)
=============================================================================
