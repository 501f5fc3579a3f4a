--------------------------- MODULE ChallengeSolve --------------------------
(***************************************************************************)
(* A Python session with a solver (curlpro/session.py: request,             *)
(* _through_challenge; solvers.py: BrowserSolver).  Requests of several     *)
(* threads meet an anti-bot's challenge; each site is solved under a lock   *)
(* of its own, a waiter tries the jar first when somebody solved the site   *)
(* meanwhile, and a solver that keeps its browser open solves one at a      *)
(* time in it.  close() may come at any moment.                             *)
(***************************************************************************)
EXTENDS Integers, Sequences, FiniteSets, FiniteSetsExt

CONSTANTS CsRequests,    (* the requests of the session, numbers from 1       *)
          CsRoutes,      (* what is asked, [site, proxy] of each              *)
          CsMaxLapses,   (* bound: clearances the site takes back             *)
          CsMaxEarned    (* bound: clearances earned                          *)

ASSUME CsAssumption ==
  /\ CsRequests \subseteq Nat \ {0} /\ IsFiniteSet(CsRequests)
  /\ \A routes \in CsRoutes : DOMAIN routes = CsRequests
  /\ CsMaxLapses \in Nat /\ CsMaxEarned \in Nat

VARIABLES csReq,      (* the requests: where each stands, what it shows       *)
          csKeeps,    (* BrowserSolver.keep_open                              *)
          csJar,      (* site -> its clearance in the session's jar           *)
          csSite,     (* site -> _solve_locks, _solved_at; and the last       *)
                      (* clearance that got a request past                    *)
          csSolving,  (* _solve_lock of the solver, 0 when free               *)
          csChromes,  (* the browsers started, in order                       *)
          csShared,   (* _shared, a place in csChromes, 0 for None            *)
          csGood,     (* the clearances the sites still honour                *)
          csClock,    (* perf_counter, as far as it is compared               *)
          csLapsed    (* how many clearances lapsed                           *)

csVars == <<csReq, csKeeps, csJar, csSite, csSolving, csChromes, csShared, csGood, csClock, csLapsed>>

NoClearance == [no |-> 0, site |-> "none", proxy |-> "none", by |-> 0]

CsSites == {routes[i].site : routes \in CsRoutes, i \in CsRequests}
CsProxies == {routes[i].proxy : routes \in CsRoutes, i \in CsRequests}
Clearances == [no : 0..CsMaxEarned, site : CsSites \cup {"none"},
               proxy : CsProxies \cup {"none"}, by : CsRequests \cup {0}]

CsTypeOK ==
  /\ \A i \in CsRequests :
       /\ csReq[i].at \in {"new", "asks", "asked", "challenged", "tries", "tried", "opens", "clears",
                           "waits", "verifies", "past", "done", "failed"}
       /\ csReq[i].shown \in Clearances /\ csReq[i].browser \in 0..Len(csChromes)
  /\ csKeeps \in BOOLEAN
  /\ csJar \in [CsSites -> Clearances]
  /\ \A s \in CsSites : csSite[s].lock \in CsRequests \cup {0} /\ csSite[s].at \in 0..csClock
  /\ csSolving \in CsRequests \cup {0} /\ csShared \in 0..Len(csChromes)
  /\ csGood \subseteq Clearances /\ csLapsed \in 0..CsMaxLapses

(* A site's lock and time of solving come with its first challenge.         *)
NeverSolved == [lock |-> 0, at |-> 0, won |-> NoClearance]
NewCsRequest(route) ==
  [at |-> "new", site |-> route.site, proxy |-> route.proxy, started |-> 0,
   shown |-> NoClearance, browser |-> 0, tried |-> {}]

CsInit ==
  /\ \E routes \in CsRoutes :
       csReq = [i \in CsRequests |-> NewCsRequest(routes[i])]
  /\ csKeeps \in BOOLEAN
  /\ csJar = [s \in CsSites |-> NoClearance]
  /\ csSite = [s \in CsSites |-> NeverSolved]
  /\ csSolving = 0 /\ csChromes = <<>> /\ csShared = 0 /\ csGood = {} /\ csClock = 0 /\ csLapsed = 0

-----------------------------------------------------------------------------
CsTo(i, request) == csReq' = [csReq EXCEPT ![i] = request]

(* A clearance belongs to an address: to a site, and the proxy it was       *)
(* earned through.                                                          *)
Honoured(i) ==
  /\ csReq[i].shown \in csGood
  /\ csReq[i].shown.site = csReq[i].site /\ csReq[i].shown.proxy = csReq[i].proxy

(* The site was solved after this request set out: its cookies are in the   *)
(* jar already.                                                             *)
SolvedMeanwhile(i) == csSite[csReq[i].site].at > csReq[i].started

(* Mutant of SolvedAt: the moment its request set out.                      *)
SolvedAtStart(i) == csReq[i].started

(* When a solve is said to have been: once it is over.                      *)
SolvedAt(i) == csClock + 1

Unlocked(i) == csSite' = [csSite EXCEPT ![csReq[i].site].lock = 0]

-----------------------------------------------------------------------------
(* request: the clock is read, then the jar, then the answer comes.         *)
SetsOut(i) ==
  /\ csReq[i].at = "new"
  /\ CsTo(i, [csReq[i] EXCEPT !.at = "asks", !.started = csClock + 1]) /\ csClock' = csClock + 1
  /\ UNCHANGED <<csKeeps, csJar, csSite, csSolving, csChromes, csShared, csGood, csLapsed>>

CsAsks(i) ==
  /\ csReq[i].at \in {"asks", "tries"}
  /\ CsTo(i, [csReq[i] EXCEPT !.at = IF @ = "asks" THEN "asked" ELSE "tried",
                              !.shown = csJar[csReq[i].site]])
  /\ UNCHANGED <<csKeeps, csJar, csSite, csSolving, csChromes, csShared, csGood, csClock, csLapsed>>

CsAnswered(i) ==
  /\ csReq[i].at = "asked"
  /\ CsTo(i, [csReq[i] EXCEPT !.at = IF Honoured(i) THEN "done" ELSE "challenged"])
  /\ UNCHANGED <<csKeeps, csJar, csSite, csSolving, csChromes, csShared, csGood, csClock, csLapsed>>

(* _through_challenge, the site's lock taken: again() or the solver.        *)
MeetsChallenge(i) ==
  /\ csReq[i].at = "challenged" /\ csSite[csReq[i].site].lock = 0
  /\ csSite' = [csSite EXCEPT ![csReq[i].site].lock = i]
  /\ CsTo(i, [csReq[i] EXCEPT !.at = IF SolvedMeanwhile(i) THEN "tries" ELSE "opens"])
  /\ UNCHANGED <<csKeeps, csJar, csSolving, csChromes, csShared, csGood, csClock, csLapsed>>

TriedAgain(i) ==
  /\ csReq[i].at = "tried"
  /\ \/ /\ Honoured(i)
        /\ CsTo(i, [csReq[i] EXCEPT !.at = "done"]) /\ Unlocked(i)
     \/ /\ ~Honoured(i)
        /\ CsTo(i, [csReq[i] EXCEPT !.at = "opens"]) /\ UNCHANGED csSite
  /\ UNCHANGED <<csKeeps, csJar, csSolving, csChromes, csShared, csGood, csClock, csLapsed>>

-----------------------------------------------------------------------------
(* BrowserSolver.solve: a browser of its own, ...                           *)
NewChrome(i) == [up |-> TRUE, proxy |-> csReq[i].proxy, cookies |-> {}]

OpensOwn(i) ==
  /\ csReq[i].at = "opens" /\ ~csKeeps
  /\ csChromes' = Append(csChromes, NewChrome(i))
  /\ CsTo(i, [csReq[i] EXCEPT !.at = "waits", !.browser = Len(csChromes) + 1])
  /\ UNCHANGED <<csKeeps, csJar, csSite, csSolving, csShared, csGood, csClock, csLapsed>>

(* ... or _browser under the solver's lock: the one kept, unless it died or *)
(* was started for another proxy, ...                                       *)
Suits(i) ==
  csShared # 0 /\ csChromes[csShared].up /\ csChromes[csShared].proxy = csReq[i].proxy

Stopped == IF csShared = 0 THEN csChromes ELSE [csChromes EXCEPT ![csShared].up = FALSE]

TakesShared(i) ==
  /\ csReq[i].at = "opens" /\ csKeeps /\ csSolving = 0
  /\ csSolving' = i
  /\ \/ /\ Suits(i)
        /\ CsTo(i, [csReq[i] EXCEPT !.at = "clears", !.browser = csShared])
        /\ UNCHANGED <<csChromes, csShared>>
     \/ /\ ~Suits(i)
        /\ csChromes' = Append(Stopped, NewChrome(i)) /\ csShared' = Len(csChromes) + 1
        /\ CsTo(i, [csReq[i] EXCEPT !.at = "clears", !.browser = Len(csChromes) + 1])
  /\ UNCHANGED <<csKeeps, csJar, csSite, csGood, csClock, csLapsed>>

(* ... its cookies cleared and the site opened in a tab.                    *)
ClearsCookies(i) ==
  /\ csReq[i].at = "clears" /\ csChromes[csReq[i].browser].up
  /\ csChromes' = [csChromes EXCEPT ![csReq[i].browser].cookies = {}]
  /\ CsTo(i, [csReq[i] EXCEPT !.at = "waits"])
  /\ UNCHANGED <<csKeeps, csJar, csSite, csSolving, csShared, csGood, csClock, csLapsed>>

(* The check passes in the browser: a clearance, numbered as they come.     *)
CheckPasses(i) ==
  /\ csReq[i].at \in {"waits", "verifies"} /\ csChromes[csReq[i].browser].up
  /\ LET earned == UNION {csChromes[b].cookies : b \in DOMAIN csChromes}
         no == Max({c.no : c \in earned \cup csGood \cup {csJar[s] : s \in CsSites} \cup {NoClearance}}) + 1
         c == [no |-> no, site |-> csReq[i].site, proxy |-> csChromes[csReq[i].browser].proxy, by |-> i]
     IN  /\ no <= CsMaxEarned
         /\ csChromes' = [csChromes EXCEPT ![csReq[i].browser].cookies = @ \cup {c}]
         /\ csGood' = csGood \cup {c}
  /\ UNCHANGED <<csReq, csKeeps, csJar, csSite, csSolving, csShared, csClock, csLapsed>>

(* _wait, a set of cookies not tried yet, and verify: all of them into the  *)
(* jar, the latest of a name staying, and the request sent again.           *)
Latest(s, cookies) ==
  CHOOSE c \in cookies : c.site = s /\ \A d \in cookies : d.site = s => d.no <= c.no

WithCookies(cookies) ==
  [s \in CsSites |-> IF \E c \in cookies : c.site = s THEN Latest(s, cookies) ELSE csJar[s]]

Verifies(i) ==
  /\ csReq[i].at = "waits" /\ csChromes[csReq[i].browser].up
  /\ LET cookies == csChromes[csReq[i].browser].cookies
     IN  /\ cookies # {} /\ cookies \notin csReq[i].tried
         /\ csJar' = WithCookies(cookies)
         /\ CsTo(i, [csReq[i] EXCEPT !.at = "verifies", !.tried = @ \cup {cookies},
                                     !.shown = WithCookies(cookies)[csReq[i].site]])
  /\ UNCHANGED <<csKeeps, csSite, csSolving, csChromes, csShared, csGood, csClock, csLapsed>>

(* The solver lets go: of its lock, or of the browser it started.           *)
LetsGo(i) ==
  /\ csSolving' = IF csSolving = i THEN 0 ELSE csSolving
  /\ csChromes' = IF csKeeps \/ csReq[i].browser = 0 THEN csChromes
                  ELSE [csChromes EXCEPT ![csReq[i].browser].up = FALSE]

Verified(i) ==
  /\ csReq[i].at = "verifies"
  /\ \/ /\ Honoured(i)
        /\ CsTo(i, [csReq[i] EXCEPT !.at = "past"]) /\ LetsGo(i)
        /\ csSite' = [csSite EXCEPT ![csReq[i].site].won = csReq[i].shown]
     \/ /\ ~Honoured(i)
        /\ CsTo(i, [csReq[i] EXCEPT !.at = "waits"]) /\ UNCHANGED <<csSite, csSolving, csChromes>>
  /\ UNCHANGED <<csKeeps, csJar, csShared, csGood, csClock, csLapsed>>

(* The time is noted and the site's lock let go.                            *)
NotesSolved(i) ==
  /\ csReq[i].at = "past"
  /\ csSite' = [csSite EXCEPT ![csReq[i].site].at = SolvedAt(i), ![csReq[i].site].lock = 0]
  /\ CsTo(i, [csReq[i] EXCEPT !.at = "done"]) /\ csClock' = csClock + 1
  /\ UNCHANGED <<csKeeps, csJar, csSolving, csChromes, csShared, csGood, csLapsed>>

(* A request of its own or of verify that fails; a solve out of time,       *)
(* refused (_same_browser), or whose browser was closed or died.            *)
CsFails(i) ==
  /\ csReq[i].at \in {"asked", "tried", "opens", "clears", "waits", "verifies"}
  /\ csReq[i].at = "opens" => ~csKeeps \/ csSolving = 0
  /\ CsTo(i, [csReq[i] EXCEPT !.at = "failed"]) /\ LetsGo(i)
  /\ IF csSite[csReq[i].site].lock = i THEN Unlocked(i) ELSE UNCHANGED csSite
  /\ UNCHANGED <<csKeeps, csJar, csShared, csGood, csClock, csLapsed>>

-----------------------------------------------------------------------------
(* close() of the solver, which a solve under way does not hold back, and   *)
(* a browser that dies.                                                     *)
ClosesSolver ==
  /\ csShared # 0 /\ csChromes' = Stopped /\ csShared' = 0
  /\ UNCHANGED <<csReq, csKeeps, csJar, csSite, csSolving, csGood, csClock, csLapsed>>

BrowserDies(b) ==
  /\ csChromes[b].up /\ csChromes' = [csChromes EXCEPT ![b].up = FALSE]
  /\ UNCHANGED <<csReq, csKeeps, csJar, csSite, csSolving, csShared, csGood, csClock, csLapsed>>

(* A site takes a clearance back.                                           *)
ClearanceLapses ==
  /\ csLapsed < CsMaxLapses /\ csLapsed' = csLapsed + 1
  /\ \E c \in csGood : csGood' = csGood \ {c}
  /\ UNCHANGED <<csReq, csKeeps, csJar, csSite, csSolving, csChromes, csShared, csClock>>

CsNext ==
  \/ \E i \in CsRequests :
       \/ SetsOut(i) \/ CsAsks(i) \/ CsAnswered(i) \/ MeetsChallenge(i) \/ TriedAgain(i)
       \/ OpensOwn(i) \/ TakesShared(i) \/ ClearsCookies(i)
       \/ CheckPasses(i) \/ Verifies(i) \/ Verified(i) \/ NotesSolved(i) \/ CsFails(i)
  \/ ClosesSolver
  \/ \E b \in DOMAIN csChromes : BrowserDies(b)
  \/ ClearanceLapses

CsSpec == CsInit /\ [][CsNext]_csVars

-----------------------------------------------------------------------------
(* No solve is wasted (_through_challenge: "Solved by another request while *)
(* this one waited: its cookies are in the jar already"): who opens the     *)
(* browser for a site was challenged with the clearance of the site's last  *)
(* successful solve, or a later one, however its request, the solve and its *)
(* wait for the lock overlapped.                                            *)
NoWastedSolve ==
  \A i \in CsRequests :
    csReq[i].at \in {"opens", "clears"} => csReq[i].shown.no >= csSite[csReq[i].site].won.no

(* What verify sends was earned in this very solve and through the proxy of *)
(* its request (SolveRequest: "the browser must use the same, the clearance *)
(* belongs to an address"), though the browser is kept from one solve to    *)
(* the next, closed and restarted.                                          *)
OwnClearance ==
  \A i \in CsRequests :
    csReq[i].at = "verifies" =>
      /\ csReq[i].shown.by = i /\ csReq[i].shown.site = csReq[i].site
      /\ csReq[i].shown.proxy = csReq[i].proxy

(* A solve is for a reason, and of its own (_through_challenge, solve).     *)
SolvesRight == NoWastedSolve /\ OwnClearance
=============================================================================
