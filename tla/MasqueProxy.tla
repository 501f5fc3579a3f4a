----------------------------- MODULE MasqueProxy -----------------------------
(***************************************************************************)
(* The HTTP/3 connection a session keeps to one MASQUE proxy and what      *)
(* travels in it (internal/client/proxyh3.go): the link, dialled by        *)
(* whoever needs it first and by two at once; CONNECT-UDP flows and the    *)
(* QUIC connections built on them; and the session's close.  A QUIC        *)
(* transport stops its read loop by the flow's read deadline: here its     *)
(* Close simply ends.                                                      *)
(***************************************************************************)
EXTENDS Integers, FiniteSets

CONSTANTS MqDials,    (* goroutines dialling a target through the proxy      *)
          MqMaxLinks  (* bound: connections opened to the proxy              *)

ASSUME MqAssumption == IsFiniteSet(MqDials) /\ 0 \notin MqDials /\ MqMaxLinks \in Nat

VARIABLES mqLink,    (* masqueProxy.link, 0 for nil                          *)
          mqLinks,   (* every link opened: alive, dead (its QUIC connection  *)
                     (* has ended) or closed                                 *)
          mqDial,    (* the goroutines                                       *)
          mqInner,   (* the inner connection of each goroutine's flow        *)
          mqKept,    (* masqueProxy.inner, by goroutine                      *)
          mqClosed   (* masque.closed, and what closeMASQUE has yet to close *)

mqVars == <<mqLink, mqLinks, mqDial, mqInner, mqKept, mqClosed>>

MqLinks == 1..MqMaxLinks

(* flow: the CONNECT-UDP stream.  conn: the QUIC connection on it.          *)
NoInner == [flow |-> "none", conn |-> "none"]

MqTypeOK ==
  /\ mqLink \in 0..MqMaxLinks
  /\ mqLinks \in [MqLinks -> {"none", "alive", "dead", "closed"}]
  /\ mqDial \in [MqDials ->
       [pc: {"idle", "dead", "dial", "store", "lost", "exchange", "inner", "keep", "watch"},
        link: 0..MqMaxLinks, won: 0..MqMaxLinks]]
  /\ mqInner \in [MqDials -> [flow: {"none", "open", "closed"},
                              conn: {"none", "up", "ended"}]]
  /\ mqKept \subseteq MqDials
  /\ mqClosed \in [closed: BOOLEAN, tr: BOOLEAN, link: 0..MqMaxLinks, inner: SUBSET MqDials]

MqInit ==
  /\ mqLink = 0 /\ mqLinks = [l \in MqLinks |-> "none"]
  /\ mqDial = [d \in MqDials |-> [pc |-> "idle", link |-> 0, won |-> 0]]
  /\ mqInner = [d \in MqDials |-> NoInner] /\ mqKept = {}
  /\ mqClosed = [closed |-> FALSE, tr |-> FALSE, link |-> 0, inner |-> {}]

-----------------------------------------------------------------------------
MqAt(d, pc, l) == mqDial' = [mqDial EXCEPT ![d] = [pc |-> pc, link |-> l, won |-> 0]]

(* masqueLinkFor, first critical section: the link, unless it is dead; a    *)
(* dead one is taken out, to be closed outside the lock.                    *)
LinkLooks(d) ==
  /\ mqDial[d].pc = "idle" /\ mqInner[d].flow # "open" /\ ~mqClosed.closed
  /\ \/ mqLink = 0 /\ MqAt(d, "dial", 0) /\ UNCHANGED mqLink
     \/ mqLink # 0 /\ mqLinks[mqLink] = "alive" /\ MqAt(d, "exchange", mqLink) /\ UNCHANGED mqLink
     \/ mqLink # 0 /\ mqLinks[mqLink] = "dead" /\ MqAt(d, "dead", mqLink) /\ mqLink' = 0
  /\ UNCHANGED <<mqLinks, mqInner, mqKept, mqClosed>>

DeadCloses(d) ==
  /\ mqDial[d].pc = "dead"
  /\ mqLinks' = [mqLinks EXCEPT ![mqDial[d].link] = "closed"] /\ MqAt(d, "dial", 0)
  /\ UNCHANGED <<mqLink, mqInner, mqKept, mqClosed>>

LinkUp(d) ==
  /\ mqDial[d].pc = "dial"
  /\ \E l \in MqLinks :
       /\ mqLinks[l] = "none" /\ \A k \in 1..(l - 1) : mqLinks[k] # "none"
       /\ mqLinks' = [mqLinks EXCEPT ![l] = "alive"] /\ MqAt(d, "store", l)
  /\ UNCHANGED <<mqLink, mqInner, mqKept, mqClosed>>

MqDialFails(d) ==
  /\ mqDial[d].pc = "dial" /\ MqAt(d, "idle", 0)
  /\ UNCHANGED <<mqLink, mqLinks, mqInner, mqKept, mqClosed>>

(* Its second critical section: the session has been closed, another came   *)
(* home first and is alive, or this link is kept -- over a dead one, if     *)
(* that is what is there, which nobody closes then.                         *)
LinkStored(d) ==
  /\ mqDial[d].pc = "store"
  /\ LET l == mqDial[d].link
         won == mqLink # 0 /\ mqLinks[mqLink] = "alive"
     IN \/ mqClosed.closed /\ MqAt(d, "lost", l) /\ UNCHANGED mqLink
        \/ /\ ~mqClosed.closed /\ won /\ UNCHANGED mqLink
           /\ mqDial' = [mqDial EXCEPT ![d].pc = "lost", ![d].won = mqLink]
        \/ ~mqClosed.closed /\ ~won /\ mqLink' = l /\ MqAt(d, "exchange", l)
  /\ UNCHANGED <<mqLinks, mqInner, mqKept, mqClosed>>

(* The loser closes its own outside the lock and goes on with the winner's. *)
LoserCloses(d) ==
  /\ mqDial[d].pc = "lost"
  /\ mqLinks' = [mqLinks EXCEPT ![mqDial[d].link] = "closed"]
  /\ MqAt(d, IF mqDial[d].won = 0 THEN "idle" ELSE "exchange", mqDial[d].won)
  /\ UNCHANGED <<mqLink, mqInner, mqKept, mqClosed>>

-----------------------------------------------------------------------------
(* masqueConnect: a refusal, the end of the dial or a TCP tunnel, which     *)
(* lives and dies with its stream; or a CONNECT-UDP flow that is large      *)
(* enough for a QUIC packet (masqueUDP, size).                              *)
ExchangeEnds(d) ==
  /\ mqDial[d].pc = "exchange" /\ MqAt(d, "idle", 0)
  /\ UNCHANGED <<mqLink, mqLinks, mqInner, mqKept, mqClosed>>

FlowOpens(d) ==
  /\ mqDial[d].pc = "exchange" /\ mqLinks[mqDial[d].link] = "alive"
  /\ mqInner' = [mqInner EXCEPT ![d] = [flow |-> "open", conn |-> "none"]]
  /\ MqAt(d, "inner", mqDial[d].link)
  /\ UNCHANGED <<mqLink, mqLinks, mqKept, mqClosed>>

InnerFails(d) ==
  /\ mqDial[d].pc = "inner"
  /\ mqInner' = [mqInner EXCEPT ![d].flow = "closed"] /\ MqAt(d, "idle", 0)
  /\ UNCHANGED <<mqLink, mqLinks, mqKept, mqClosed>>

InnerUp(d) ==
  /\ mqDial[d].pc = "inner" /\ mqLinks[mqDial[d].link] = "alive"
  /\ mqInner' = [mqInner EXCEPT ![d].conn = "up"] /\ MqAt(d, "keep", mqDial[d].link)
  /\ UNCHANGED <<mqLink, mqLinks, mqKept, mqClosed>>

(* Mutant of InnerKept: the session is not looked at again after the dial.  *)
InnerKeptLate(d) ==
  /\ mqDial[d].pc = "keep"
  /\ mqKept' = mqKept \cup {d} /\ MqAt(d, "watch", 0)
  /\ UNCHANGED <<mqLink, mqLinks, mqInner, mqClosed>>

InnerKept(d) ==
  /\ mqDial[d].pc = "keep"
  /\ \/ /\ mqClosed.closed
        /\ mqInner' = [mqInner EXCEPT ![d] = [flow |-> "closed", conn |-> "ended"]]
        /\ MqAt(d, "idle", 0) /\ UNCHANGED mqKept
     \/ /\ ~mqClosed.closed
        /\ mqKept' = mqKept \cup {d} /\ MqAt(d, "watch", 0) /\ UNCHANGED mqInner
  /\ UNCHANGED <<mqLink, mqLinks, mqClosed>>

(* context.AfterFunc(qc.Context()): set by the dialler, and at once when    *)
(* the connection has ended already.                                        *)
InnerWatched(d) ==
  /\ mqDial[d].pc = "watch" /\ MqAt(d, "idle", 0)
  /\ UNCHANGED <<mqLink, mqLinks, mqInner, mqKept, mqClosed>>

Forgetting(d) ==
  mqDial[d].pc = "idle" /\ mqInner[d].conn = "ended" /\ mqInner[d].flow = "open"

InnerForgotten(d) ==
  /\ Forgetting(d)
  /\ mqKept' = mqKept \ (IF mqClosed.closed THEN {} ELSE {d})
  /\ mqInner' = [mqInner EXCEPT ![d].flow = "closed"]
  /\ UNCHANGED <<mqLink, mqLinks, mqDial, mqClosed>>

(* The target, the network, an idle timeout.                                *)
InnerEnds(d) ==
  /\ mqInner[d].conn = "up"
  /\ mqInner' = [mqInner EXCEPT ![d].conn = "ended"]
  /\ UNCHANGED <<mqLink, mqLinks, mqDial, mqKept, mqClosed>>

LinkDies(l) ==
  /\ mqLinks[l] = "alive" /\ mqLinks' = [mqLinks EXCEPT ![l] = "dead"]
  /\ UNCHANGED <<mqLink, mqDial, mqInner, mqKept, mqClosed>>

-----------------------------------------------------------------------------
(* closeMASQUE: the map is taken under the lock; then the transport, whose  *)
(* Close waits for the dials in it and ends its connections; the flows; the *)
(* link.                                                                    *)
CloseMasque ==
  /\ ~mqClosed.closed
  /\ mqClosed' = [closed |-> TRUE, tr |-> TRUE, link |-> mqLink, inner |-> mqKept]
  /\ mqLink' = 0 /\ mqKept' = {}
  /\ UNCHANGED <<mqLinks, mqDial, mqInner>>

CloseTransport ==
  /\ mqClosed.tr /\ mqClosed' = [mqClosed EXCEPT !.tr = FALSE]
  /\ \A d \in MqDials : mqDial[d].pc \notin {"inner", "keep", "watch"}
  /\ mqInner' = [d \in MqDials |-> IF mqInner[d].conn = "up"
                                   THEN [mqInner[d] EXCEPT !.conn = "ended"] ELSE mqInner[d]]
  /\ UNCHANGED <<mqLink, mqLinks, mqDial, mqKept>>

CloseInner(d) ==
  /\ ~mqClosed.tr /\ d \in mqClosed.inner
  /\ mqClosed' = [mqClosed EXCEPT !.inner = @ \ {d}]
  /\ mqInner' = [mqInner EXCEPT ![d] = [flow |-> "closed", conn |-> "ended"]]
  /\ UNCHANGED <<mqLink, mqLinks, mqDial, mqKept>>

CloseLink ==
  /\ ~mqClosed.tr /\ mqClosed.inner = {} /\ mqClosed.link # 0
  /\ mqClosed' = [mqClosed EXCEPT !.link = 0]
  /\ mqLinks' = [mqLinks EXCEPT ![mqClosed.link] = "closed"]
  /\ UNCHANGED <<mqLink, mqDial, mqInner, mqKept>>

MqSteps(d) ==
  \/ LinkLooks(d) \/ DeadCloses(d) \/ LinkUp(d) \/ MqDialFails(d) \/ LinkStored(d)
  \/ LoserCloses(d) \/ ExchangeEnds(d) \/ FlowOpens(d) \/ InnerFails(d) \/ InnerUp(d)
  \/ InnerKept(d) \/ InnerWatched(d) \/ InnerForgotten(d) \/ InnerEnds(d) \/ CloseInner(d)

MqNext ==
  \/ \E d \in MqDials : MqSteps(d)
  \/ \E l \in MqLinks : LinkDies(l)
  \/ CloseMasque \/ CloseTransport \/ CloseLink

MqSpec == MqInit /\ [][MqNext]_mqVars

-----------------------------------------------------------------------------
(* Once the session has closed its proxies and the dials that were under    *)
(* way have come back, no connection to the proxy is alive and no flow is   *)
(* open, whichever side of the close a dial came home on (proxyh3.go,       *)
(* masqueLinkFor, dialH3ViaMasque, closeMASQUE).                            *)
MasqueClosed ==
  /\ mqClosed.closed /\ ~mqClosed.tr /\ mqClosed.inner = {} /\ mqClosed.link = 0
  /\ \A d \in MqDials : mqDial[d].pc = "idle" /\ ~Forgetting(d)
  => /\ \A l \in MqLinks : mqLinks[l] # "alive"
     /\ \A d \in MqDials : mqInner[d].flow # "open"
=============================================================================
