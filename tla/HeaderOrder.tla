----------------------------- MODULE HeaderOrder -----------------------------
(***************************************************************************)
(* The order of a request's headers (internal/client/headers.go, hints.go,  *)
(* blinkmap.go).  buildHeaders arranges what it assembled, and the          *)
(* transport sorts the map it is given by a list that wireOrder makes       *)
(* afterwards: the two say the same thing in two ways.  Names only, all in  *)
(* lower case.                                                              *)
(***************************************************************************)
EXTENDS Integers, SequencesExt

CONSTANTS HoSets,      (* header sets: names, anchors, and whether a page      *)
                       (* of a Chromium with the rapidhash map sends them      *)
          HoMaybe,     (* slots that only some requests fill                   *)
          HoLater,     (* slots the transport fills after the order is made    *)
          HoOwn,       (* the names callers add, in the order they come        *)
          HoOrders,    (* header_order patterns                                *)
          HoSilenced,  (* names a caller may suppress                          *)
          HoRank,      (* rendererHintRank: the client hints in Blink's order  *)
          HoHash       (* blinkHash of each name                               *)

ASSUME HoAssumption ==
  /\ \A s \in HoSets : IsInjective(s.names) /\ s.renderer \in BOOLEAN
  /\ \A p \in HoOwn : IsInjective(p)

VARIABLES hoAsk,    (* the request                                         *)
          hoBuilt,  (* buildHeaders' result                                *)
          hoWire    (* the order the transport sorts by                    *)

hoVars == <<hoAsk, hoBuilt, hoWire>>

Ellipsis == "..."
Only(names, set) == SelectSeq(names, LAMBDA n : n \in set)
Besides(names, set) == SelectSeq(names, LAMBDA n : n \notin set)
Put(into, at, names) == SubSeq(into, 1, at) \o names \o SubSeq(into, at + 1, Len(into))

-----------------------------------------------------------------------------
(* pickAnchor and the search in reorder: the first anchor of the list among *)
(* the names, "" for none.                                                  *)
PickAnchor(anchors, names) ==
  LET found == Only(anchors, ToSet(names)) IN IF found = <<>> THEN "" ELSE Head(found)

PlaceOf(name, names) == CHOOSE i \in DOMAIN names : names[i] = name

(* inOrder: reorder has nothing to do.                                      *)
InOrder(have, want) == have = Only(want, ToSet(have))

(* reorder: names want does not know go before the anchor.                  *)
Reorder(have, want, anchors) ==
  LET ordered == Only(want, ToSet(have))
      rest == Besides(have, ToSet(want))
      anchor == PickAnchor(anchors, ordered)
      at == IF anchor = "" THEN Len(ordered) ELSE PlaceOf(anchor, ordered) - 1
  IN IF InOrder(have, want) THEN have ELSE Put(ordered, at, rest)

(* expandOrder: an unnamed header goes into the first "..." after the named *)
(* neighbour it follows in base.                                            *)
ExpandOrder(pattern, base) ==
  LET whole == IF Ellipsis \in ToSet(pattern) THEN pattern ELSE Append(pattern, Ellipsis)
      slots == {i \in DOMAIN whole : whole[i] = Ellipsis}
      named == ToSet(whole)
      after(p) == LET later == {s \in slots : s > p}
                  IN IF later = {} THEN Max(slots) ELSE Min(later)
      slotOf(i) ==
        LET before == {j \in 1..i : base[j] \in named}
        IN IF before = {} THEN Min(slots) ELSE after(PlaceOf(base[Max(before)], whole))
      fill(s) == LET at == {i \in DOMAIN base : base[i] \notin named /\ slotOf(i) = s}
                 IN Only(base, {base[i] : i \in at})
  IN FlattenSeq([i \in DOMAIN whole |-> IF i \in slots THEN fill(i) ELSE <<whole[i]>>])

(* rendererHintRank: the hints a page lays out, in Blink's order.           *)
RendererHints == ToSet(HoRank)
ByRank(names) == Only(HoRank, names)

(* redirectHopOrder: the hints, and Referer after them, behind              *)
(* Sec-Fetch-Dest, or before Accept-Encoding, or last.                      *)
RedirectHopOrder(want) ==
  LET hints == Only(want, RendererHints)
      rest == Besides(want, RendererHints \cup {"referer"})
      at == IF "sec-fetch-dest" \in ToSet(rest) /\ Last(rest) # "sec-fetch-dest"
            THEN PlaceOf("sec-fetch-dest", rest)
            ELSE IF "accept-encoding" \in ToSet(rest) THEN PlaceOf("accept-encoding", rest) - 1
            ELSE Len(rest)
  IN IF hints = <<>> THEN want ELSE Put(rest, at, Append(hints, "referer"))

WantOrder(ask) ==
  LET want == IF ask.order = <<>> THEN ask.set.names ELSE ExpandOrder(ask.order, ask.set.names)
  IN IF ask.hop THEN RedirectHopOrder(want) ELSE want

-----------------------------------------------------------------------------
(* blinkLayout: a table of buckets that doubles when half full, probed at   *)
(* triangular steps and rehashed in bucket order.                           *)
HashOf(name) == HoHash[name]
Bucket(slots, name) ==
  LET n == Len(slots)
      probe(k) == 1 + ((HashOf(name) + ((k * (k + 1)) \div 2)) % n)
      free == {k \in 0..(n - 1) : slots[probe(k)] \in {"", name}}
  IN probe(Min(free))

Place(slots, name) == [slots EXCEPT ![Bucket(slots, name)] = name]
NameCount(slots) == Len(Besides(slots, {""}))
Rehash(slots, size) == FoldLeft(Place, [i \in 1..size |-> ""], Besides(slots, {""}))

Insert(slots, name) ==
  LET placed == Place(slots, name)
  IN IF name \notin ToSet(slots) /\ 2 * NameCount(placed) >= Len(placed)
     THEN Rehash(placed, 2 * Len(placed)) ELSE placed

BlinkLayout(names) == Besides(FoldLeft(Insert, [i \in 1..8 |-> ""], names), {""})

(* pageOrder: what Blink lays out takes the place of its first member.      *)
PageOrder(built, want, accepts) ==
  LET ins == LET own == {"content-type"} \cup (IF accepts THEN {"accept"} ELSE {})
                 page == SelectSeq(built, LAMBDA n : n \in own \/ n \notin ToSet(want))
             IN Besides(page, {"host", "connection", "content-length"})
                \o ByRank(ToSet(built) \cap ToSet(want))
                \o Only(built, {"user-agent"} \cap ToSet(want))
      cluster == BlinkLayout(ins)
      there == {i \in DOMAIN want : want[i] \in ToSet(cluster)}
      rest == Besides(want, ToSet(cluster))
  IN IF ins = <<>> THEN want
     ELSE IF there = {} THEN rest \o cluster
     ELSE Put(rest, Min(there) - 1, cluster)

(* Mutant of WireOrder: what the profile does not list goes last.           *)
CustomLast(built, want, anchors) == want \o Besides(built, ToSet(want))

(* wireOrder's forward pass: a name of built that want does not have from   *)
(* here on is the caller's.                                                 *)
CustomNames(built, want) ==
  LET step(pass, name) ==
        LET found == {k \in pass.from..Len(want) : want[k] = name}
        IN IF found = {} THEN [pass EXCEPT !.custom = Append(@, name)]
           ELSE [pass EXCEPT !.from = Min(found) + 1]
  IN FoldLeft(step, [from |-> 1, custom |-> <<>>], built).custom

(* wireOrder: places are kept for names the transport adds.                 *)
WireOrder(built, want, anchors) ==
  LET custom == CustomNames(built, want)
      anchored == PickAnchor(anchors, want)
      at == IF anchored = "" THEN Len(want) ELSE PlaceOf(anchored, want) - 1
  IN IF want = <<>> THEN built ELSE Put(want, at, custom)

-----------------------------------------------------------------------------
HoInit == hoAsk = <<>> /\ hoBuilt = <<>> /\ hoWire = <<>>

(* buildHeaders, first half: the set's headers, the caller's in place where *)
(* the set has the name and behind it otherwise.                            *)
Assembled(set, filled, defaults, own) ==
  LET carried == IF defaults THEN Besides(set.names, HoLater \cup (HoMaybe \ filled)) ELSE <<>>
  IN carried \o Besides(own, ToSet(carried))

(* And the second: the order wanted, and what is suppressed taken out.      *)
BuildHeaders ==
  /\ hoBuilt = <<>> /\ hoWire = <<>>
  /\ \E set \in HoSets, filled \in SUBSET HoMaybe, defaults \in BOOLEAN, own \in HoOwn,
        order \in HoOrders, hop \in BOOLEAN, silenced \in SUBSET HoSilenced :
       LET have == Assembled(set, filled, defaults, own)
           ask == [set |-> set, defaults |-> defaults, own |-> own, order |-> order, hop |-> hop,
                   have |-> have]
           want == WantOrder(ask)
       IN /\ hoAsk' = ask
          /\ hoBuilt' = Besides(Reorder(have, want, set.anchors), silenced)
  /\ UNCHANGED hoWire

(* applyHeaders: the order key of the request.                              *)
LaysOutPage(ask) == ask.set.renderer /\ ask.order = <<>>

ApplyHeaders ==
  /\ hoBuilt # <<>> /\ hoWire = <<>>
  /\ LET want == WantOrder(hoAsk)
         page == PageOrder(hoBuilt, want, "accept" \in ToSet(hoAsk.own))
     IN IF LaysOutPage(hoAsk)
        THEN /\ hoBuilt' = Reorder(hoBuilt, page, hoAsk.set.anchors)
             /\ hoWire' = WireOrder(hoBuilt', page, hoAsk.set.anchors)
        ELSE /\ hoWire' = WireOrder(hoBuilt, want, hoAsk.set.anchors)
             /\ UNCHANGED hoBuilt
  /\ UNCHANGED hoAsk

(* The transport sorts and writes (external); the next request.             *)
NextRequestBuilt ==
  /\ hoWire # <<>> /\ hoAsk' = <<>> /\ hoBuilt' = <<>> /\ hoWire' = <<>>

HoNext == BuildHeaders \/ ApplyHeaders \/ NextRequestBuilt

-----------------------------------------------------------------------------
Sorted == Only(hoWire, ToSet(hoBuilt))

(* The two searches for an anchor come out at one place: reorder looks      *)
(* among the headers there are, wireOrder among the names of the order, and *)
(* no header of the request stands between what they find.                  *)
OneGap ==
  LET want == WantOrder(hoAsk)
      before(names) == LET anchor == PickAnchor(hoAsk.set.anchors, names)
                       IN IF anchor = "" THEN Len(want) + 1 ELSE PlaceOf(anchor, want)
      ends == {before(Only(want, ToSet(hoAsk.have))), before(want)}
  IN \A i \in Min(ends)..(Max(ends) - 1) : want[i] \notin ToSet(hoBuilt)

(* Sorted by the list the transport is given, the headers stand as          *)
(* buildHeaders arranged them (wireOrder puts custom names "exactly where   *)
(* reorder placed them"): none missing and none twice, those of the order   *)
(* among themselves and the caller's among themselves always, and all of    *)
(* them in Blink's cluster or where the two find one place for the          *)
(* caller's - on a redirect's hop, under a caller's order and after a       *)
(* suppression too.  They do not always find one: Firefox's table for       *)
(* fetches has Cookie between two of its anchors, and a GET with a cookie   *)
(* goes out with the caller's header before it, where reorder put it after. *)
WireAsBuilt ==
  hoWire # <<>> =>
    LET known == ToSet(WantOrder(hoAsk)) IN
    /\ IsInjective(hoWire) /\ ToSet(hoBuilt) \subseteq ToSet(hoWire)
    /\ LaysOutPage(hoAsk) \/ OneGap => Sorted = hoBuilt
    /\ Only(Sorted, known) = Only(hoBuilt, known)
    /\ Besides(Sorted, known) = Besides(hoBuilt, known)
=============================================================================
