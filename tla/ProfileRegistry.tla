--------------------------- MODULE ProfileRegistry --------------------------
(***************************************************************************)
(* The registry of profiles behind curlpro_profile_register and its kin     *)
(* (internal/profile: profile.go, bundle.go, resources.go; lib/curlpro.go): *)
(* deltas that stand on one another, registered one by one, by directory or *)
(* by bundle, resolved by folding the chain from its root.                  *)
(***************************************************************************)
EXTENDS Integers, Sequences, SequencesExt, FiniteSets

CONSTANTS PrNames,     (* names of profiles                                  *)
          PrProfiles,  (* the files there are                                *)
          PrBatches,   (* what a call may register: sequences of them        *)
          PrCalls,     (* threads that call                                  *)
          PrMaxDepth,  (* maxInheritDepth                                    *)
          PrMaxCalls   (* bound: calls begun                                 *)

(* What a file brings of its own: a ClientHello, trust anchors for it,      *)
(* permute_extensions, a pool of devices and its kind, HTTP/2 settings, and *)
(* a source for all of it or for the settings alone.                        *)
ProfileRec == [name : PrNames, base : PrNames \cup {"none"}, hello : BOOLEAN, anchors : BOOLEAN,
               permute : BOOLEAN, devices : BOOLEAN, kind : {"", "phone", "desktop", "odd"},
               settings : BOOLEAN, source : {"none", "whole", "settings"}]

ASSUME PrAssumption ==
  /\ IsFiniteSet(PrNames) /\ "none" \notin PrNames /\ PrProfiles \subseteq ProfileRec
  /\ PrBatches \subseteq Seq(PrProfiles) /\ PrMaxDepth \in Nat \ {0} /\ PrMaxCalls \in Nat

VARIABLES prRaw,   (* Registry.raw                                           *)
          prCall,  (* the calls in progress                                  *)
          prBegun

prVars == <<prRaw, prCall, prBegun>>

NoProfile == [name |-> "none"]

(* first and alone: the registry as the call found it, and whether nobody   *)
(* else has been at it since.                                               *)
NewPrCall == [pc |-> "idle", batch |-> <<>>, at |-> 1, previous |-> <<>>,
              first |-> [n \in PrNames |-> NoProfile], alone |-> TRUE]

PrTypeOK ==
  /\ prRaw \in [PrNames -> PrProfiles \cup {NoProfile}]
  /\ \A c \in PrCalls :
       /\ prCall[c].pc \in {"idle", "check", "doubt", "back", "taken", "refused"}
       /\ prCall[c].batch \in PrBatches \cup {<<>>}
       /\ prCall[c].at \in 1..(Len(prCall[c].batch) + 1)
  /\ prBegun \in 0..PrMaxCalls

PrInit ==
  /\ prRaw = [n \in PrNames |-> NoProfile]
  /\ prCall = [c \in PrCalls |-> NewPrCall] /\ prBegun = 0

-----------------------------------------------------------------------------
(* chain and awaitsParent: from a profile to the root, to a name seen       *)
(* before, to one nobody registered, or past the depth allowed.             *)
Link(raw, depth, path) ==
  CASE path.stop # "" -> path
    [] path.next = "none" -> [path EXCEPT !.stop = "root"]
    [] path.next \in {p.name : p \in ToSet(path.links)} -> [path EXCEPT !.stop = "cycle"]
    [] raw[path.next] = NoProfile -> [path EXCEPT !.stop = "gap"]
    [] Len(path.links) = depth -> [path EXCEPT !.stop = "deep"]
    [] OTHER -> [path EXCEPT !.links = Append(@, raw[path.next]), !.next = raw[path.next].base]

ChainFrom(raw, depth, name) ==
  FoldLeft(LAMBDA path, i : Link(raw, depth, path), [links |-> <<>>, next |-> name, stop |-> ""],
           [i \in 1..(depth + 2) |-> i])

Chain(raw, name) == ChainFrom(raw, PrMaxDepth, name)
AwaitsParent(raw, name) == ChainFrom(raw, Cardinality(PrNames), name).stop = "gap"

-----------------------------------------------------------------------------
Unsourced == [of |-> "none", covers |-> "none"]
Blank == [hello |-> "none", anchors |-> "none", permute |-> FALSE, devices |-> "none",
          kind |-> "", source |-> Unsourced]

(* merge: what the file sets overrides, the rest is kept; a value is named  *)
(* by the profile that set it.  A hello of its own forgets what was said of *)
(* the old one's contents (forgetHello); a pool brings its kind, if only by *)
(* default; a source lasts until all it covers is overridden.               *)
Merge(dst, src) ==
  [hello |-> IF src.hello THEN src.name ELSE dst.hello,
   anchors |-> IF src.anchors THEN src.name ELSE IF src.hello THEN "none" ELSE dst.anchors,
   permute |-> src.permute \/ dst.permute,
   devices |-> IF src.devices THEN src.name ELSE dst.devices,
   kind |-> IF src.devices \/ src.kind # "" THEN src.kind ELSE dst.kind,
   source |-> IF src.source # "none" THEN [of |-> src.name, covers |-> src.source]
              ELSE IF dst.source.covers = "settings" /\ src.settings THEN Unsourced ELSE dst.source]

(* fold, from the root to the leaf, and what validate refuses in the result.*)
Fold(links) == FoldLeft(Merge, Blank, Reverse(links))
Valid(p) == p.hello # "none" /\ p.permute /\ p.kind # "odd"

Resolves(raw, name) ==
  LET path == Chain(raw, name) IN path.stop = "root" /\ Valid(Fold(path.links))

-----------------------------------------------------------------------------
(* Mutant of Enters: what is put back is what the last file of the name found. *)
EntersForget(reg, p) ==
  [raw |-> [reg.raw EXCEPT ![p.name] = p],
   previous |-> [n \in DOMAIN reg.previous \cup {p.name} |->
                   IF n = p.name THEN reg.raw[n] ELSE reg.previous[n]]]

(* One file of a batch enters; what its name stood for is remembered once.  *)
Enters(reg, p) ==
  [raw |-> [reg.raw EXCEPT ![p.name] = p],
   previous |-> [n \in DOMAIN reg.previous \cup {p.name} |->
                   IF n \in DOMAIN reg.previous THEN reg.previous[n] ELSE reg.raw[n]]]

EntersAll(raw, batch) == FoldLeft(Enters, [raw |-> raw, previous |-> <<>>], batch)

(* Everybody else in a call has company from now on.                        *)
InCall(c) == prCall[c].pc # "idle"
Company(but) ==
  [c \in PrCalls |-> IF InCall(c) /\ c \notin but THEN [prCall[c] EXCEPT !.alone = FALSE]
                     ELSE prCall[c]]

(* registerChecked, of Register, LoadFS and LoadBundle: all files enter     *)
(* under one lock ...                                                       *)
Registers(c) ==
  /\ prCall[c].pc = "idle" /\ prBegun < PrMaxCalls /\ prBegun' = prBegun + 1
  /\ \E batch \in PrBatches :
       LET reg == EntersAll(prRaw, batch) IN
       /\ prRaw' = reg.raw
       /\ prCall' = [Company({c}) EXCEPT ![c] =
            [NewPrCall EXCEPT !.pc = "check", !.batch = batch, !.previous = reg.previous,
               !.first = prRaw, !.alone = \A o \in PrCalls : ~InCall(o)]]

(* ... and each is resolved under a lock of its own.                        *)
Checks(c) ==
  /\ prCall[c].pc = "check"
  /\ prCall' = IF prCall[c].at > Len(prCall[c].batch) THEN [prCall EXCEPT ![c].pc = "taken"]
               ELSE IF Resolves(prRaw, prCall[c].batch[prCall[c].at].name)
               THEN [prCall EXCEPT ![c].at = @ + 1]
               ELSE [prCall EXCEPT ![c].pc = "doubt"]
  /\ UNCHANGED <<prRaw, prBegun>>

Doubts(c) ==
  /\ prCall[c].pc = "doubt"
  /\ prCall' = IF AwaitsParent(prRaw, prCall[c].batch[prCall[c].at].name)
               THEN [prCall EXCEPT ![c].pc = "check", ![c].at = @ + 1]
               ELSE [prCall EXCEPT ![c].pc = "back"]
  /\ UNCHANGED <<prRaw, prBegun>>

(* The names of the batch stand again for what they stood for before it.    *)
PutsBack(c) ==
  /\ prCall[c].pc = "back"
  /\ prRaw' = LET previous == prCall[c].previous IN
              [n \in PrNames |-> IF n \in DOMAIN previous THEN previous[n] ELSE prRaw[n]]
  /\ prCall' = [Company({c}) EXCEPT ![c].pc = "refused"]
  /\ UNCHANGED prBegun

TellsCaller(c) ==
  /\ prCall[c].pc \in {"taken", "refused"} /\ prCall' = [prCall EXCEPT ![c] = NewPrCall]
  /\ UNCHANGED <<prRaw, prBegun>>

(* Unregister refuses a parent.                                             *)
Unregisters(name) ==
  /\ prBegun < PrMaxCalls /\ prBegun' = prBegun + 1
  /\ prRaw[name] # NoProfile /\ \A n \in PrNames : prRaw[n] # NoProfile => prRaw[n].base # name
  /\ prRaw' = [prRaw EXCEPT ![name] = NoProfile]
  /\ prCall' = Company({})

PrNext ==
  \/ \E c \in PrCalls : Registers(c) \/ Checks(c) \/ Doubts(c) \/ PutsBack(c) \/ TellsCaller(c)
  \/ \E name \in PrNames : Unregisters(name)

PrSpec == PrInit /\ [][PrNext]_prVars

-----------------------------------------------------------------------------
(* Properties                                                               *)

(* All of a batch or none of it (LoadFS, curlpro_profiles_load_bundle): a   *)
(* call nobody interfered with leaves every name of a batch it took to the  *)
(* last file of that name, each of them resolving or waiting for a parent,  *)
(* and after one it refused the registry is what it was, even where two     *)
(* files of a directory had one name.                                       *)
AllOrNothing ==
  \A c \in PrCalls :
    LET call == prCall[c]
        last(n) == SelectLastInSeq(call.batch, LAMBDA p : p.name = n) IN
    call.alone =>
      /\ call.pc = "refused" => prRaw = call.first
      /\ call.pc = "taken" =>
           /\ prRaw = [n \in PrNames |-> IF last(n) = 0 THEN call.first[n] ELSE call.batch[last(n)]]
           /\ \A p \in ToSet(call.batch) :
                Resolves(prRaw, p.name) \/ AwaitsParent(prRaw, p.name)

(* What the folded profile says of its hello is about the hello it has, and *)
(* what it says of its devices about its pool (forgetHello, merge): anchors *)
(* come from no file above the hello's, a kind from none above the pool's,  *)
(* and a source is of the nearest file that has one.                        *)
FoldsTogether ==
  \A n \in {m \in PrNames : prRaw[m] # NoProfile} :
    LET path == Chain(prRaw, n)
        nearest(P(_)) == SelectInSeq(path.links, P)
        named(i) == IF i = 0 THEN "none" ELSE path.links[i].name
        above(i, j) == i = 0 \/ (j # 0 /\ i > j)
        hello == nearest(LAMBDA p : p.hello)
        anchors == nearest(LAMBDA p : p.anchors)
        pool == nearest(LAMBDA p : p.devices)
        kind == nearest(LAMBDA p : p.kind # "")
        source == nearest(LAMBDA p : p.source # "none")
    IN path.stop = "root" =>
         LET folded == Fold(path.links) IN
         /\ folded.hello = named(hello) /\ folded.devices = named(pool)
         /\ folded.anchors = IF above(anchors, hello) THEN "none" ELSE named(anchors)
         /\ folded.kind = IF above(kind, pool) THEN "" ELSE path.links[kind].kind
         /\ folded.source.of \in {"none", named(source)}

(* What is registered is all of it, and folds into one profile.             *)
RegistryHolds == AllOrNothing /\ FoldsTogether
=============================================================================
