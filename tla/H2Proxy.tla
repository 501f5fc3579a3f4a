------------------------------- MODULE H2Proxy -------------------------------
(***************************************************************************)
(* The HTTP/2 connections a session holds to one proxy and the CONNECT     *)
(* tunnels that share them (internal/client/proxyh2.go): claim and release *)
(* under a connection's own lock, the idle clock that closes a connection  *)
(* nobody uses, the sweep, and the session's close.                        *)
(***************************************************************************)
EXTENDS Integers, FiniteSets, Sequences, SequencesExt

CONSTANTS H2pTunnels,  (* goroutines that open a tunnel, use it and close it *)
          H2pMaxConns, (* bound: connections dialled                         *)
          H2pStreams   (* the proxy's limit of streams on one connection     *)

ASSUME H2pAssumption ==
  /\ IsFiniteSet(H2pTunnels) /\ 0 \notin H2pTunnels
  /\ H2pMaxConns \in Nat /\ H2pStreams \in Nat \ {0}

VARIABLES h2pPool,    (* h2Proxies.conns[key], and the sweeper's rest of it  *)
          h2pConn,    (* the connections                                     *)
          h2pTunnel,  (* the goroutines                                      *)
          h2pLock,    (* who sweeps under h2Proxies.mu, 0 for nobody         *)
          h2pClosed   (* h2Proxies.closed                                    *)

h2pVars == <<h2pPool, h2pConn, h2pTunnel, h2pLock, h2pClosed>>

H2pConns == 1..H2pMaxConns

(* under: the socket.  timer: armed, and how many of its functions have     *)
(* started and wait for the lock.  leaving: who is on the way to close it.  *)
H2pConnRecord ==
  [under: {"none", "open", "closed"}, users: Int, armed: BOOLEAN, fired: 0..2,
   retired: BOOLEAN, broken: BOOLEAN, leaving: SUBSET {"timer", "shut"}]

H2pNone == [under |-> "none", users |-> 0, armed |-> FALSE, fired |-> 0,
            retired |-> FALSE, broken |-> FALSE, leaving |-> {}]

H2pTypeOK ==
  /\ h2pPool \in [pooled: Seq(H2pConns), rest: Seq(H2pConns)]
  /\ h2pConn \in [H2pConns -> H2pConnRecord]
  /\ h2pTunnel \in [H2pTunnels ->
       [pc: {"idle", "sweep", "claim", "dial", "connect", "up"}, conn: 0..H2pMaxConns]]
  /\ h2pLock \in H2pTunnels \cup {0} /\ h2pClosed \in BOOLEAN

H2pInit ==
  /\ h2pPool = [pooled |-> <<>>, rest |-> <<>>]
  /\ h2pConn = [c \in H2pConns |-> H2pNone]
  /\ h2pTunnel = [t \in H2pTunnels |-> [pc |-> "idle", conn |-> 0]]
  /\ h2pLock = 0 /\ h2pClosed = FALSE

-----------------------------------------------------------------------------
TunnelAt(t, pc, c) == h2pTunnel' = [h2pTunnel EXCEPT ![t] = [pc |-> pc, conn |-> c]]

(* broken: the connection cannot take one more stream, now or ever.         *)
Broken(c) == h2pConn[c].broken \/ h2pConn[c].users >= H2pStreams

(* takeH2Proxy.  The pool is gone through under its mutex, one connection   *)
(* at a time and each under its own lock, taken twice: for the sweep and,   *)
(* while nothing has been found, in claim.                                  *)
TakeBegins(t) ==
  /\ h2pTunnel[t].pc = "idle" /\ h2pLock = 0
  /\ \/ /\ h2pClosed \/ h2pPool.pooled = <<>>
        /\ TunnelAt(t, "dial", 0) /\ UNCHANGED <<h2pPool, h2pLock>>
     \/ /\ ~h2pClosed /\ h2pPool.pooled # <<>>
        /\ h2pLock' = t /\ TunnelAt(t, "sweep", 0)
        /\ h2pPool' = [pooled |-> <<>>, rest |-> h2pPool.pooled]
  /\ UNCHANGED <<h2pConn, h2pClosed>>

Swept(t) == Head(h2pPool.rest)

TakeSweeps(t) ==
  /\ h2pTunnel[t].pc = "sweep" /\ h2pPool.rest # <<>>
  /\ LET c == Swept(t) IN
       \/ /\ h2pConn[c].retired \/ (h2pConn[c].users = 0 /\ Broken(c))
          /\ h2pConn' = [h2pConn EXCEPT ![c].leaving = @ \cup {"shut"}]
          /\ h2pPool' = [h2pPool EXCEPT !.rest = Tail(@)]
          /\ UNCHANGED h2pTunnel
       \/ /\ ~h2pConn[c].retired /\ ~(h2pConn[c].users = 0 /\ Broken(c))
          /\ h2pPool' = [pooled |-> Append(h2pPool.pooled, c),
                         rest |-> IF h2pTunnel[t].conn = 0 THEN h2pPool.rest
                                                          ELSE Tail(h2pPool.rest)]
          /\ IF h2pTunnel[t].conn = 0 THEN TunnelAt(t, "claim", 0) ELSE UNCHANGED h2pTunnel
          /\ UNCHANGED h2pConn
  /\ UNCHANGED <<h2pLock, h2pClosed>>

Claims(t) ==
  /\ h2pTunnel[t].pc = "claim"
  /\ LET c == Swept(t) IN
       \/ /\ ~Broken(c) /\ ~h2pConn[c].retired
          /\ h2pConn' = [h2pConn EXCEPT ![c].users = @ + 1, ![c].armed = FALSE]
          /\ TunnelAt(t, "sweep", c)
       \/ /\ Broken(c) \/ h2pConn[c].retired
          /\ TunnelAt(t, "sweep", 0) /\ UNCHANGED h2pConn
  /\ h2pPool' = [h2pPool EXCEPT !.rest = Tail(@)]
  /\ UNCHANGED <<h2pLock, h2pClosed>>

TakeEnds(t) ==
  /\ h2pTunnel[t].pc = "sweep" /\ h2pPool.rest = <<>>
  /\ h2pLock' = 0
  /\ TunnelAt(t, IF h2pTunnel[t].conn = 0 THEN "dial" ELSE "connect", h2pTunnel[t].conn)
  /\ UNCHANGED <<h2pPool, h2pConn, h2pClosed>>

(* addH2Proxy: a fresh connection, claimed for the tunnel that opened it, or*)
(* closed with the session.  The dial may fail before.                      *)
AddConn(t) ==
  /\ h2pTunnel[t].pc = "dial" /\ h2pLock = 0
  /\ \/ h2pClosed /\ TunnelAt(t, "idle", 0) /\ UNCHANGED <<h2pPool, h2pConn>>
     \/ /\ ~h2pClosed
        /\ \E c \in H2pConns :
             /\ h2pConn[c].under = "none" /\ \A d \in 1..(c - 1) : h2pConn[d].under # "none"
             /\ h2pConn' = [h2pConn EXCEPT ![c].under = "open", ![c].users = 1]
             /\ h2pPool' = [h2pPool EXCEPT !.pooled = Append(@, c)]
             /\ TunnelAt(t, "connect", c)
  /\ UNCHANGED <<h2pLock, h2pClosed>>

H2pDialFails(t) ==
  /\ h2pTunnel[t].pc = "dial"
  /\ TunnelAt(t, "idle", 0) /\ UNCHANGED <<h2pPool, h2pConn, h2pLock, h2pClosed>>

(* connectOverH2: a 2xx; anything else, and the end of the dial's context,  *)
(* is fail, which releases.                                                 *)
TunnelUp(t) ==
  /\ h2pTunnel[t].pc = "connect"
  /\ TunnelAt(t, "up", h2pTunnel[t].conn)
  /\ UNCHANGED <<h2pPool, h2pConn, h2pLock, h2pClosed>>

(* release, from fail or from h2Tunnel.Close, once: the last user starts    *)
(* the idle clock.                                                          *)
H2pRelease(t) ==
  /\ h2pTunnel[t].pc \in {"connect", "up"}
  /\ LET c == h2pTunnel[t].conn IN
       h2pConn' = [h2pConn EXCEPT ![c].users = @ - 1,
                                  ![c].armed = @ \/ (h2pConn[c].users = 1 /\ ~h2pConn[c].retired)]
  /\ TunnelAt(t, "idle", 0) /\ UNCHANGED <<h2pPool, h2pLock, h2pClosed>>

-----------------------------------------------------------------------------
(* The idle clock: Stop does not reach a function that has started.         *)
TimerFires(c) ==
  /\ h2pConn[c].armed /\ h2pConn[c].fired < 2
  /\ h2pConn' = [h2pConn EXCEPT ![c].armed = FALSE, ![c].fired = @ + 1]
  /\ UNCHANGED <<h2pPool, h2pTunnel, h2pLock, h2pClosed>>

(* Mutant of TimerRuns: the clock ran out, so the connection is idle.       *)
TimerTrusts(c) ==
  /\ h2pConn[c].fired > 0
  /\ h2pConn' = [h2pConn EXCEPT ![c].fired = @ - 1, ![c].retired = TRUE,
                                ![c].leaving = @ \cup {"timer"}]
  /\ UNCHANGED <<h2pPool, h2pTunnel, h2pLock, h2pClosed>>

TimerRuns(c) ==
  /\ h2pConn[c].fired > 0
  /\ LET idle == h2pConn[c].users = 0 /\ ~h2pConn[c].retired IN
       h2pConn' = [h2pConn EXCEPT ![c].fired = @ - 1, ![c].retired = @ \/ idle,
                                  ![c].leaving = IF idle THEN @ \cup {"timer"} ELSE @]
  /\ UNCHANGED <<h2pPool, h2pTunnel, h2pLock, h2pClosed>>

(* dropH2Proxy, unless the session's close has emptied the pool; then the   *)
(* socket.                                                                  *)
TimerDrops(c) ==
  /\ "timer" \in h2pConn[c].leaving /\ h2pLock = 0
  /\ \/ ~Contains(h2pPool.pooled, c) /\ UNCHANGED h2pPool
     \/ \E i \in 1..Len(h2pPool.pooled) :
          /\ h2pPool.pooled[i] = c
          /\ h2pPool' = [h2pPool EXCEPT !.pooled = RemoveAt(@, i)]
  /\ h2pConn' = [h2pConn EXCEPT ![c].leaving = @ \ {"timer"}, ![c].under = "closed"]
  /\ UNCHANGED <<h2pTunnel, h2pLock, h2pClosed>>

(* shut, in a goroutine of its own or from closeH2Proxies.                  *)
Shut(c) ==
  /\ "shut" \in h2pConn[c].leaving
  /\ h2pConn' = [h2pConn EXCEPT ![c].leaving = @ \ {"shut"}, ![c].retired = TRUE,
                                ![c].armed = FALSE, ![c].under = "closed"]
  /\ UNCHANGED <<h2pPool, h2pTunnel, h2pLock, h2pClosed>>

(* The proxy closes it, says GOAWAY, or the network does.                   *)
ConnBreaks(c) ==
  /\ h2pConn[c].under = "open" /\ ~h2pConn[c].broken
  /\ h2pConn' = [h2pConn EXCEPT ![c].broken = TRUE]
  /\ UNCHANGED <<h2pPool, h2pTunnel, h2pLock, h2pClosed>>

CloseH2Proxies ==
  /\ ~h2pClosed /\ h2pLock = 0
  /\ h2pClosed' = TRUE /\ h2pPool' = [h2pPool EXCEPT !.pooled = <<>>]
  /\ h2pConn' = [c \in H2pConns |->
       IF Contains(h2pPool.pooled, c)
       THEN [h2pConn[c] EXCEPT !.leaving = @ \cup {"shut"}] ELSE h2pConn[c]]
  /\ UNCHANGED <<h2pTunnel, h2pLock>>

H2pNext ==
  \/ \E t \in H2pTunnels :
       \/ TakeBegins(t) \/ TakeSweeps(t) \/ Claims(t) \/ TakeEnds(t)
       \/ AddConn(t) \/ H2pDialFails(t) \/ TunnelUp(t) \/ H2pRelease(t)
  \/ \E c \in H2pConns :
       TimerFires(c) \/ TimerRuns(c) \/ TimerDrops(c) \/ Shut(c) \/ ConnBreaks(c)
  \/ CloseH2Proxies

H2pSpec == H2pInit /\ [][H2pNext]_h2pVars

-----------------------------------------------------------------------------
OnProxy(c) ==
  {t \in H2pTunnels : h2pTunnel[t].conn = c /\ h2pTunnel[t].pc \in {"sweep", "connect", "up"}}

(* The users a connection counts are the tunnels opened or being opened on  *)
(* it, and as long as there is one nothing short of the session's close     *)
(* closes the socket: not the idle clock, whose function may have started   *)
(* before the claim, and not a sweep that found the connection broken       *)
(* (proxyh2.go, claim, release, takeH2Proxy).                               *)
NoTunnelCut ==
  \A c \in H2pConns :
    /\ h2pConn[c].users = Cardinality(OnProxy(c))
    /\ h2pConn[c].under = "closed" /\ h2pConn[c].users > 0 => h2pClosed
=============================================================================
