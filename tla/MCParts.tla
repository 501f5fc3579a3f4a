------------------------------ MODULE MCParts -------------------------------
(***************************************************************************)
(* The components that never meet and are checked for safety alone, in one *)
(* run: the part that moves is chosen in the initial state, and the others *)
(* stay as they begin.                                                     *)
(***************************************************************************)
EXTENDS H2Proxy, MasqueProxy, WebSocket, HttpCache, RequestPath, CookieJar,
        FetchChain, HeaderOrder, ClientHints, EchDial, Handles, H3Settings,
        H3Control, H3Stream, ProfileRegistry, ProxyDial, BodyReader,
        ChallengeSolve

(* Two origins of the page's site and one of another.                       *)
OriginSites == [p |-> "one", s |-> "one", x |-> "two"]

(* Answers to a preflight: by name with credentials, where "*" is a method  *)
(* of that name, and anybody's.                                             *)
SomeAnswers ==
  {[origin |-> "own", credentials |-> TRUE, methods |-> {"PUT", "*"}, headers |-> {"authorization"}],
   [origin |-> "*", credentials |-> FALSE, methods |-> {"*"}, headers |-> {"*"}]}

(* The sets of a Chrome navigation and fetch and of a Firefox 155 fetch,    *)
(* cut down to the names whose places the code decides.                     *)
HeaderSets ==
  {[names |-> <<"sec-ch-ua", "sec-ch-ua-mobile", "user-agent", "accept", "sec-fetch-dest",
                "referer", "accept-encoding", "cookie">>,
    anchors |-> <<"accept-encoding">>, renderer |-> FALSE],
   [names |-> <<"content-length", "sec-ch-ua", "content-type", "sec-ch-ua-mobile", "user-agent",
                "accept", "origin", "sec-fetch-dest", "referer", "accept-encoding", "cookie">>,
    anchors |-> <<"sec-ch-ua-mobile">>, renderer |-> TRUE],
   [names |-> <<"user-agent", "accept", "accept-encoding", "referer", "content-type",
                "content-length", "origin", "cookie", "sec-fetch-dest">>,
    anchors |-> <<"content-length", "origin", "connection", "sec-fetch-dest">>,
    renderer |-> FALSE]}
OwnNames == {<<>>, <<"x-b", "x-a">>, <<"x-a", "accept">>, <<"x-a", "cookie">>}
HeaderOrders == {<<>>, <<"x-a">>, <<"origin", "...">>, <<"...", "accept", "x-a", "...">>}
BlinkRank == <<"sec-ch-ua", "sec-ch-ua-mobile">>
(* Chosen to collide, and to wrap round the table.                          *)
BlinkHash ==
  [n \in {"content-type", "x-a", "x-b", "sec-ch-ua", "sec-ch-ua-mobile", "user-agent", "accept",
          "cookie"} |->
     CASE n = "x-b" -> 11 [] n = "sec-ch-ua" -> 4 [] n = "sec-ch-ua-mobile" -> 15 [] OTHER -> 3]

(* One hint let out.                                                        *)
HintPolicies == {[h \in {"model", "arch"} |-> IF h = "model" THEN {"x"} ELSE {}]}

(* Chrome's HTTP/3 settings.                                                *)
ProfileOrder == <<1, 6, 7, 51>>

(* A desktop and a phone on it, the phone with no anchors; a leaf; and two  *)
(* that are refused.                                                        *)
DesktopFile == [name |-> "base", base |-> "none", hello |-> TRUE, anchors |-> TRUE, permute |-> TRUE,
                devices |-> TRUE, kind |-> "desktop", settings |-> FALSE, source |-> "settings"]
PhoneFile == [DesktopFile EXCEPT !.name = "phone", !.base = "base", !.anchors = FALSE, !.kind = "",
                !.source = "none"]
LeafFile == [name |-> "leaf", base |-> "phone", hello |-> FALSE, anchors |-> FALSE, permute |-> FALSE,
             devices |-> FALSE, kind |-> "", settings |-> TRUE, source |-> "none"]
OddFile == [DesktopFile EXCEPT !.kind = "odd"]
RoundFile == [LeafFile EXCEPT !.name = "base", !.base = "leaf"]
Files == {DesktopFile, PhoneFile, LeafFile, OddFile, RoundFile}
Loads == {<<DesktopFile>>, <<PhoneFile>>, <<LeafFile>>, <<PhoneFile, DesktopFile>>,
          <<DesktopFile, OddFile>>, <<LeafFile, RoundFile, PhoneFile>>}

(* The first is asked for whole, the second a stream that may stall.        *)
ServedBodies ==
  [b \in {1, 2} |->
     IF b = 1 THEN {[size |-> n, ends |-> "clean"] : n \in 0..2} \cup {[size |-> 1, ends |-> "cut"]}
     ELSE {[size |-> 1, ends |-> "clean"], [size |-> 0, ends |-> "stalls"]}]

SolvedRoutes ==
  {<<[site |-> "a", proxy |-> "p"], other>> :
     other \in {[site |-> "a", proxy |-> "p"], [site |-> "a", proxy |-> "q"], [site |-> "b", proxy |-> "q"]}}

CONSTANT Parts  (* which of them this run is about *)

VARIABLE part

Vars == <<part, h2pVars, mqVars, wsVars, hcVars, rpVars, ckVars, fcVars,
           hoVars, chVars, edVars, hdVars, h3xVars, h3cVars, h3sVars,
           prVars, pdVars, brVars, csVars>>

Init ==
  /\ part \in Parts
  /\ H2pInit /\ MqInit /\ WsInit /\ HcInit
  /\ RPInit /\ CkInit /\ FcInit /\ HoInit
  /\ ChInit /\ EdInit /\ HdInit /\ H3xInit
  /\ H3cInit /\ H3sInit /\ PrInit /\ PdInit
  /\ BrInit /\ CsInit
  (* The choices a part begins with are not made for the others. *)
  /\ part # "ws" => ~wsDeflate
  /\ part # "cache" => ~hcDisk
  /\ part # "cookies" => ckFamily = "chrome"
  /\ part # "fetch" => ~fcTaints
  /\ part # "ech" => edNet = [drops |-> FALSE, lives |-> TRUE, ech |-> "takes"]
  /\ part # "stream" => h3sUp.length = 0
  /\ part # "proxy" => pdDial = NewPdDial
  /\ part # "reading" => \A b \in BrBodies : brBody[b].ends = "clean" /\ brBody[b].size = 1
  /\ part # "solving" => csKeeps /\ \A i \in CsRequests : csReq[i].site = "a" /\ csReq[i].proxy = "p"

OthersRest(moves) ==
  /\ UNCHANGED part
  /\ moves # "h2proxy" => UNCHANGED h2pVars
  /\ moves # "masque" => UNCHANGED mqVars
  /\ moves # "ws" => UNCHANGED wsVars
  /\ moves # "cache" => UNCHANGED hcVars
  /\ moves # "request" => UNCHANGED rpVars
  /\ moves # "cookies" => UNCHANGED ckVars
  /\ moves # "fetch" => UNCHANGED fcVars
  /\ moves # "headers" => UNCHANGED hoVars
  /\ moves # "hints" => UNCHANGED chVars
  /\ moves # "ech" => UNCHANGED edVars
  /\ moves # "handles" => UNCHANGED hdVars
  /\ moves # "settings" => UNCHANGED h3xVars
  /\ moves # "control" => UNCHANGED h3cVars
  /\ moves # "stream" => UNCHANGED h3sVars
  /\ moves # "registry" => UNCHANGED prVars
  /\ moves # "proxy" => UNCHANGED pdVars
  /\ moves # "reading" => UNCHANGED brVars
  /\ moves # "solving" => UNCHANGED csVars

Next ==
  \/ part = "h2proxy" /\ H2pNext /\ OthersRest("h2proxy")
  \/ part = "masque" /\ MqNext /\ OthersRest("masque")
  \/ part = "ws" /\ WsNext /\ OthersRest("ws")
  \/ part = "cache" /\ HcNext /\ OthersRest("cache")
  \/ part = "request" /\ RPNext /\ OthersRest("request")
  \/ part = "cookies" /\ CkNext /\ OthersRest("cookies")
  \/ part = "fetch" /\ FcNext /\ OthersRest("fetch")
  \/ part = "headers" /\ HoNext /\ OthersRest("headers")
  \/ part = "hints" /\ ChNext /\ OthersRest("hints")
  \/ part = "ech" /\ EdNext /\ OthersRest("ech")
  \/ part = "handles" /\ HdNext /\ OthersRest("handles")
  \/ part = "settings" /\ H3xNext /\ OthersRest("settings")
  \/ part = "control" /\ H3cNext /\ OthersRest("control")
  \/ part = "stream" /\ H3sNext /\ OthersRest("stream")
  \/ part = "registry" /\ PrNext /\ OthersRest("registry")
  \/ part = "proxy" /\ PdNext /\ OthersRest("proxy")
  \/ part = "reading" /\ BrNext /\ OthersRest("reading")
  \/ part = "solving" /\ CsNext /\ OthersRest("solving")

Spec == Init /\ [][Next]_Vars

(* The type invariant of the part that moves. *)
PartsTypeOK ==
  /\ part = "h2proxy" => H2pTypeOK
  /\ part = "masque" => MqTypeOK
  /\ part = "ws" => WsTypeOK
  /\ part = "cache" => HcTypeOK
  /\ part = "request" => RPTypes
  /\ part = "cookies" => CkTypeOK
  /\ part = "fetch" => FcTypeOK
  /\ part = "hints" => ChTypeOK
  /\ part = "ech" => EdTypeOK
  /\ part = "handles" => HdTypeOK
  /\ part = "settings" => H3xTypes
  /\ part = "control" => H3cTypeOK
  /\ part = "stream" => H3sTypeOK
  /\ part = "registry" => PrTypeOK
  /\ part = "proxy" => PdTypeOK
  /\ part = "reading" => BrTypeOK
  /\ part = "solving" => CsTypeOK
=============================================================================
