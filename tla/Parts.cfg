CONSTANTS
  Parts = {"solving", "reading", "proxy", "registry", "request", "stream", "control", "settings", "handles", "ech", "hints", "headers", "h2proxy", "masque", "ws", "cache", "cookies", "fetch"}
  H2pTunnels = {1, 2}
  H2pMaxConns = 2
  H2pStreams = 2
  MqDials = {1, 2}
  MqMaxLinks = 3
  WsSenders = {"s1", "s2"}
  WsClosers = {"c1"}
  WsMaxOut = 2
  WsMaxFrames = 2
  HcRequests = {1, 2}
  HcLanguages = {"a", "b"}
  HcVersions = 2
  CkRequests = {1, 2}
  Home = "home"
  CkSites = {"home", "news"}
  CkKinds = {"include"}
  CkFamilies = {"chrome", "firefox"}
  CkMaxChanges = 2
  FcOrigins = {"p", "s", "x"}
  FcSite <- OriginSites
  FcPage = "p"
  FcMethods = {"GET", "PUT"}
  FcHeaders = {"authorization"}
  FcModes = {"auto", "fetch"}
  FcAnswers <- SomeAnswers
  FcMaxHops = 2
  FcMaxAsked = 2
  HoSets <- HeaderSets
  HoMaybe = {"origin", "referer", "cookie"}
  HoLater = {"content-length"}
  HoOwn <- OwnNames
  HoOrders <- HeaderOrders
  HoSilenced = {"sec-ch-ua-mobile", "accept-encoding"}
  HoRank <- BlinkRank
  HoHash <- BlinkHash
  ChRequests = {1, 2}
  ChOrigins = {"p", "x"}
  ChPage = "p"
  ChHints = {"model", "arch"}
  ChPolicies <- HintPolicies
  EdDials = {1, 2}
  EdMaxLapses = 1
  HdCalls = {1}
  H3xConns = {1, 2}
  H3xOrder <- ProfileOrder
  H3xFields = {6, 51}
  H3xGrease = {64, 95}
  H3cQueueLen = 2
  H3sMaxEarly = 1
  H3sMaxFrames = 3
  H3sMaxLength = 2
  H3sBodies = {0, 1}
  Requests = {1}
  Attempts = 1
  Listed = TRUE
  MaxHops = 1
  MaxKept = 1
  MaxLate = 1
  Kinds = {"post", "upload", "h2", "h3"}
  Records = {TRUE, FALSE}
  Critical = TRUE
  Troubles = {"deadline", "late"}
  PrNames = {"base", "phone", "leaf"}
  PrProfiles <- Files
  PrBatches <- Loads
  PrCalls = {1, 2}
  PrMaxDepth = 2
  PrMaxCalls = 3
  PdSchemes = {"http", "https", "socks", "udp"}
  BrBodies = {1, 2}
  BrWhole = {1}
  BrIdle = {2}
  BrServed <- ServedBodies
  BrDecoders = {1, 2}
  BrLimit = 1
  CsRequests = {1, 2}
  CsRoutes <- SolvedRoutes
  CsMaxLapses = 1
  CsMaxEarned = 2
SPECIFICATION Spec
CHECK_DEADLOCK FALSE
INVARIANTS
  PartsTypeOK
  SolvesRight
  BodiesReadRight
  DialEndsRight
  RegistryHolds
  EndsAreTrue
  NoDatagramSleepsOver
  NothingLeftOpen
  EchInOrder
  HintsWithLeave
  WireAsBuilt
  ChainIsTrue
  CookiesInPlace
  NoTunnelCut
  MasqueClosed
  CloseFrameLast
  CacheAnswersRight
  EveryConnectionOwned
  NoBlindRepeat
