------------------------------ MODULE FetchChain -----------------------------
(***************************************************************************)
(* What each hop of a redirect chain says of where it comes from, and the   *)
(* CORS preflight before it (internal/client/redirect.go, preflight.go,     *)
(* mode.go, headers.go): the method, the mode the headers are picked for,   *)
(* Authorization, Origin, Sec-Fetch-Site, and the session's cache of        *)
(* preflight answers.  One URL per origin; requests follow one another.     *)
(***************************************************************************)
EXTENDS Integers, Sequences, FiniteSetsExt

CONSTANTS FcOrigins,   (* origins                                            *)
          FcSite,      (* the site of each                                   *)
          FcPage,      (* the origin pages are on                            *)
          FcMethods,   (* methods requests begin with                        *)
          FcHeaders,   (* header names a script may not set unasked          *)
          FcModes,     (* Request.Mode: "auto", "navigate", "fetch"          *)
          FcAnswers,   (* what servers answer to a preflight                 *)
          FcMaxHops,   (* redirects followed                                 *)
          FcMaxAsked   (* bound: requests                                    *)

ASSUME FcAssumption ==
  /\ FcSite \in [FcOrigins -> STRING] /\ FcPage \in FcOrigins
  /\ FcOrigins \cap {"none", "null", "*"} = {}
  /\ FcMethods \subseteq {"GET", "POST", "PUT"}
  /\ FcHeaders \subseteq {"authorization", "content-type", "x-custom"}
  /\ FcModes \subseteq {"auto", "navigate", "fetch"}
  /\ FcAnswers \subseteq [origin: {"own", "*", "none"}, credentials: BOOLEAN,
                           methods: SUBSET {"PUT", "*"}, headers: SUBSET (FcHeaders \cup {"*"})]
  /\ FcMaxHops \in Nat /\ FcMaxAsked \in Nat

VARIABLES fcTaints,  (* TaintsOriginOnNavigationRedirect, by family          *)
          fcCache,   (* Session.preflights, by origin and URL                *)
          fcNow,     (* the hop in progress                                  *)
          fcAsked

fcVars == <<fcTaints, fcCache, fcNow, fcAsked>>

Opaque == FcOrigins \cup {"null"}
NoAnswer == [origin |-> "none"]

(* page: "none" for none.  site: the Sec-Fetch-Site header given.  path:    *)
(* where the chain has been.  by: the answer this hop goes with.            *)
AnyHop == [pc |-> "idle", mode |-> "auto", method |-> "GET", page |-> "none", headers |-> {},
           include |-> FALSE, url |-> FcPage, chain |-> "none", tainted |-> FALSE,
           site |-> "none", path |-> <<>>, by |-> NoAnswer]

FcTypeOK ==
  /\ fcTaints \in BOOLEAN /\ fcAsked \in 0..FcMaxAsked
  /\ \A k \in Opaque \X FcOrigins : fcCache[k] = NoAnswer \/ fcCache[k].answer \in FcAnswers
  /\ fcNow.pc \in {"idle", "start", "go", "gone"} /\ fcNow.url \in FcOrigins
  /\ Len(fcNow.path) <= FcMaxHops + 1

FcInit ==
  /\ fcTaints \in BOOLEAN /\ fcNow = AnyHop /\ fcAsked = 0
  /\ fcCache = [k \in Opaque \X FcOrigins |-> NoAnswer]

-----------------------------------------------------------------------------
Simple(method) == method \in {"GET", "POST"}

(* modeFor, for a profile with a fetch set: by what a navigation cannot     *)
(* have when nobody says.                                                   *)
ModeFor(h) ==
  IF h.mode # "auto" THEN h.mode
  ELSE IF ~Simple(h.method) \/ h.headers # {} THEN "fetch" ELSE "navigate"

Rank == [none |-> 0, same_origin |-> 1, same_site |-> 2, cross_site |-> 3]
SameSite(a, b) == FcSite[a] = FcSite[b]
SiteRelation(a, b) ==
  IF a = b THEN "same_origin" ELSE IF SameSite(a, b) THEN "same_site" ELSE "cross_site"
WorseSite(a, b) == IF Rank[b] > Rank[a] THEN b ELSE a

(* sentSite: the header given, the relation to the page, or the profile's   *)
(* own value for a request that nothing began.                              *)
SentSite(h) ==
  IF h.site # "none" THEN h.site
  ELSE IF h.page # "none" THEN SiteRelation(h.page, h.url)
  ELSE IF ModeFor(h) = "fetch" THEN "same_origin" ELSE "none"

(* The Origin slot of buildHeaders.                                         *)
SentOrigin(h) ==
  LET withBody == h.method # "GET"
      named == IF h.page # "none" THEN h.page ELSE IF h.chain # "none" THEN h.chain ELSE h.url
      said == withBody \/ (h.page # "none" /\ ModeFor(h) = "fetch" /\ h.page # h.url)
  IN IF ~said THEN "none" ELSE IF h.tainted THEN "null" ELSE named

-----------------------------------------------------------------------------
(* preflightNeeded, corsUnsafeHeaders.                                      *)
PreflightNeeded(h) ==
  /\ ModeFor(h) = "fetch" /\ h.page \notin {"none", h.url}
  /\ ~Simple(h.method) \/ h.headers # {}

(* corsCheck; an answer names the origin that asked, any, or neither.       *)
CorsCheck(a, include, method, unsafe) ==
  /\ a.origin = "own" \/ (a.origin = "*" /\ ~include)
  /\ include => a.credentials
  /\ Simple(method) \/ method \in a.methods \/ ("*" \in a.methods /\ ~include)
  /\ \A n \in unsafe : n \in a.headers \/ ("*" \in a.headers /\ ~include /\ n # "authorization")

(* preflightHit: "*" stands for any method or header, credentials or not.   *)
PreflightHit(e, include, method, unsafe) ==
  /\ e # NoAnswer /\ (include => e.include)
  /\ Simple(method) \/ e.answer.methods \cap {method, "*"} # {}
  /\ \A n \in unsafe : n \in e.answer.headers \/ ("*" \in e.answer.headers /\ n # "authorization")

OriginOfHop(h) == IF h.tainted THEN "null" ELSE h.page

(* preflightStore: what the entry becomes, when the answer may be kept (its *)
(* maxAge is above 0); `found` is what the look left.                       *)
PreflightStore(found, answer, include, kept) ==
  IF kept THEN [answer |-> answer, include |-> include] ELSE found

-----------------------------------------------------------------------------
(* A request begins (DoStream, prepare).                                    *)
Fetches ==
  /\ fcNow.pc = "idle" /\ fcAsked < FcMaxAsked /\ fcAsked' = fcAsked + 1
  /\ \E mode \in FcModes, method \in FcMethods, page \in {"none", FcPage},
        headers \in SUBSET FcHeaders, include \in BOOLEAN, url \in FcOrigins :
       /\ "content-type" \in headers => method # "GET"
       /\ include => page # "none"
       /\ fcNow' = [AnyHop EXCEPT !.pc = "start", !.mode = mode, !.method = method, !.page = page,
                      !.headers = headers, !.include = include, !.url = url, !.path = <<url>>]
  /\ UNCHANGED <<fcTaints, fcCache>>

Goes(by) == fcNow' = [fcNow EXCEPT !.pc = "gone", !.by = by]

NeedsNone ==
  /\ fcNow.pc = "start" /\ ~PreflightNeeded(fcNow) /\ Goes(NoAnswer)
  /\ UNCHANGED <<fcTaints, fcCache, fcAsked>>

(* preflight.  The entry may have run out; a look that finds it so drops it.*)
Hits(h, live) ==
  live /\ PreflightHit(fcCache[<<OriginOfHop(h), h.url>>], h.include, h.method, h.headers)

GoesByCache ==
  /\ fcNow.pc = "start" /\ PreflightNeeded(fcNow) /\ Hits(fcNow, TRUE)
  /\ Goes(fcCache[<<OriginOfHop(fcNow), fcNow.url>>].answer)
  /\ UNCHANGED <<fcTaints, fcCache, fcAsked>>

(* The OPTIONS, its answer, the check, and what is kept for how long        *)
(* (preflightStore); a refusal, like an error, ends the request.            *)
Preflights ==
  /\ fcNow.pc = "start" /\ PreflightNeeded(fcNow)
  /\ \E live \in BOOLEAN, answer \in FcAnswers, kept \in BOOLEAN :
       LET k == <<OriginOfHop(fcNow), fcNow.url>>
           found == IF live THEN fcCache[k] ELSE NoAnswer
       IN /\ ~Hits(fcNow, live)
          /\ IF CorsCheck(answer, fcNow.include, fcNow.method, fcNow.headers)
             THEN /\ Goes(answer)
                  /\ fcCache' = [fcCache EXCEPT ![k] =
                       PreflightStore(found, answer, fcNow.include, kept)]
             ELSE /\ fcNow' = AnyHop
                  /\ fcCache' = [fcCache EXCEPT ![k] = found]
  /\ UNCHANGED <<fcTaints, fcAsked>>

(* The answer is the caller's: not a redirect, or one not followed.         *)
Answered ==
  /\ fcNow.pc = "gone" /\ fcNow' = AnyHop
  /\ UNCHANGED <<fcTaints, fcCache, fcAsked>>

(* Mutant of NextRequest: every hop to another origin taints, and the site  *)
(* is compared with the hop before.                                         *)
NextFromLast(h, url, keeps) ==
  LET crosses == url # h.url IN
  [h EXCEPT !.pc = "start", !.url = url, !.path = Append(@, url), !.by = NoAnswer,
     !.method = IF keeps THEN @ ELSE "GET",
     !.headers = @ \ ((IF keeps THEN {} ELSE {"content-type"})
                      \cup (IF crosses THEN {"authorization"} ELSE {})),
     !.chain = IF ~crosses \/ @ # "none" THEN @ ELSE IF h.page # "none" THEN h.page ELSE h.url,
     !.tainted = @ \/ crosses,
     !.site = IF SentSite(h) = "none" THEN @
              ELSE WorseSite(SentSite(h), SiteRelation(h.url, url))]

(* nextRequest: 301, 302 and 303 make a GET of it, 307 and 308 keep it.     *)
NextRequest(h, url, keeps) ==
  LET initiator == IF h.page # "none" THEN h.page ELSE Head(h.path)
      crosses == url # h.url
      chain == IF crosses /\ h.chain = "none" THEN initiator ELSE h.chain
      own == IF h.page # "none" THEN h.page ELSE chain
  IN [h EXCEPT !.pc = "start", !.url = url, !.path = Append(@, url), !.by = NoAnswer,
        !.method = IF keeps THEN @ ELSE "GET",
        !.headers = @ \ ((IF keeps THEN {} ELSE {"content-type"})
                         \cup (IF crosses THEN {"authorization"} ELSE {})),
        !.chain = chain,
        !.tainted = @ \/ (crosses /\ (own # h.url \/ (fcTaints /\ ModeFor(h) = "navigate"))),
        !.site = IF SentSite(h) = "none" THEN @
                 ELSE WorseSite(SentSite(h), SiteRelation(initiator, url))]

Redirected ==
  /\ fcNow.pc = "gone" /\ Len(fcNow.path) <= FcMaxHops
  /\ \E url \in FcOrigins, keeps \in BOOLEAN : fcNow' = NextRequest(fcNow, url, keeps)
  /\ UNCHANGED <<fcTaints, fcCache, fcAsked>>

FcNext == Fetches \/ NeedsNone \/ GoesByCache \/ Preflights \/ Answered \/ Redirected

FcSpec == FcInit /\ [][FcNext]_fcVars

-----------------------------------------------------------------------------
HopSent == fcNow.pc = "gone"
FirstOf == IF fcNow.page # "none" THEN fcNow.page ELSE Head(fcNow.path)
Steps == 1..(Len(fcNow.path) - 1)

(* A caller's Authorization reaches the origin it was meant for and no      *)
(* other, though a chain may come back there (nextRequest).                 *)
SecretsStayHome ==
  "authorization" \in fcNow.headers => \A i \in DOMAIN fcNow.path : fcNow.path[i] = fcNow.path[1]

(* Sec-Fetch-Site is the worst relation of the request's origin to any URL  *)
(* of the chain, whatever the method and the mode became on the way.        *)
SiteIsWorst ==
  LET ranks == {Rank[SiteRelation(FirstOf, fcNow.path[i])] : i \in DOMAIN fcNow.path}
  IN SentSite(fcNow) # "none" => Rank[SentSite(fcNow)] = Max(ranks)

(* The Origin of a fetch turns to null exactly when the chain left a URL of *)
(* another origin than the request's for a third one (Fetch's redirect      *)
(* rule), and names nobody but the page, or the first URL, till then.       *)
OriginIsTrue ==
  LET left == \E i \in Steps : fcNow.path[i] \notin {FirstOf, fcNow.path[i + 1]} IN
  fcNow.mode = "fetch" => SentOrigin(fcNow) \in {"none", IF left THEN "null" ELSE FirstOf}

(* What each hop says of itself is true of the whole chain.                 *)
HopsTellTheTruth == HopSent => SecretsStayHome /\ SiteIsWorst /\ OriginIsTrue

(* A hop that needs a preflight goes only by an answer that its own origin, *)
(* taint included, its own credentials, method and headers would pass: also *)
(* when another request's answer is reused (preflightHit).  "*" is let      *)
(* stand for a credentialed request's method and headers, as the cache does *)
(* and corsCheck does not.                                                  *)
CoveredByAnswer ==
  HopSent /\ PreflightNeeded(fcNow) =>
    /\ CorsCheck(fcNow.by, fcNow.include, "GET", {})
    /\ CorsCheck(fcNow.by, FALSE, fcNow.method, fcNow.headers)

(* A chain of hops is honest: in what each says, and by whose leave it goes. *)
ChainIsTrue == HopsTellTheTruth /\ CoveredByAnswer
=============================================================================
