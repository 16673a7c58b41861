-------------------------------- MODULE Resolver --------------------------------
(***************************************************************************)
(* The context that applies in a directory: which instruction files, in    *)
(* which order, and which skills and tools, decided by which layer.        *)
(*                                                                         *)
(* A path is the sequence of its segments.  A disk holds the directories   *)
(* with an AGENTS.md (files) and says which directory's file each of them  *)
(* really is (real, the symbolic links resolved).  A layer's agents.yaml   *)
(* says "enabled" or "disabled" of an item, something else ("garbled"), or *)
(* nothing ("absent").                                                     *)
(***************************************************************************)
EXTENDS SequencesExt

Root    == << >>
Home    == <<"home">>
GitRoot == Home \o <<"git">>

(* The places of the global file, the preferred one first. *)
GlobalCandidates == <<Home, Home \o <<".agents">>, Home \o <<".config", "agent-observatory">>, GitRoot \o <<"me">>>>

(* os.Stat follows links: a dangling one is no file. *)
Exists(disk, dir) == dir \in disk.files /\ disk.real[dir] \in disk.files

(***************************************************************************)
(* Instruction layers.                                                     *)
(***************************************************************************)

(* The directories from home, or the root outside it, down to path. *)
DirsTo(path) ==
  LET top == IF IsPrefix(Home, path) THEN Len(Home) ELSE 0 IN
  [i \in 1 .. Len(path) - top + 1 |-> SubSeq(path, 1, top + i - 1)]

ScopeForDir(dir, target) ==
  CASE dir = Home -> "user"
    [] dir # Home /\ dir = target -> "repo"
    [] dir # Home /\ dir # target ->
         IF dir # Root /\ Front(dir) = GitRoot THEN "workspace" ELSE "repo"

(* Deliberately wrong variant: files told apart by the path they are found under. *)
KeyByPath(disk, dir) == dir

(* seenKnowledge keys a file by where its links lead. *)
KeyOf(disk, dir) == disk.real[dir]

AddLayer(disk, out, scope, dir) ==
  IF Exists(disk, dir) /\ \A i \in DOMAIN out : KeyOf(disk, out[i].dir) # KeyOf(disk, dir)
  THEN Append(out, [scope |-> scope, dir |-> dir]) ELSE out

DiscoverLayers(disk, path) ==
  LET global == FoldLeft(LAMBDA out, dir : IF out # << >> THEN out
                                           ELSE AddLayer(disk, out, "global", dir),
                         << >>, GlobalCandidates)
  IN FoldLeft(LAMBDA out, dir : AddLayer(disk, out, ScopeForDir(dir, path), dir),
              global, DirsTo(path))

(* The first segment below ~/git. *)
WorkspaceFor(path) ==
  IF IsStrictPrefix(GitRoot, path) THEN path[Len(GitRoot) + 1] ELSE "none"

(***************************************************************************)
(* Skills and tools.                                                       *)
(***************************************************************************)

(* The names found in any of the catalog directories or files. *)
Catalog(found) == UNION Range(found)

Written == {"absent", "enabled", "disabled", "garbled"}

ParseActivation(word) == IF word \in {"enabled", "disabled"} THEN word ELSE "unset"

(* agents.yaml beside the layer's file, or .agents.yaml if that has no entry. *)
OverlayFor(layer, yaml, hidden) ==
  LET file == IF \A name \in DOMAIN yaml : yaml[name] = "absent" THEN hidden ELSE yaml IN
  [layer |-> layer, said |-> [name \in DOMAIN file |-> ParseActivation(file[name])]]

(* Deliberately wrong variant: the broadest layer that mentions an item wins. *)
KeepFirst(item, overlay, name) ==
  IF overlay.said[name] = "unset" \/ item.mentioned THEN item
  ELSE [item EXCEPT !.state = overlay.said[name], !.origin = overlay.layer, !.mentioned = TRUE]

(* One overlay, after the broader ones. *)
Override(item, overlay, name) ==
  IF overlay.said[name] = "unset" THEN item
  ELSE [state |-> overlay.said[name], origin |-> overlay.layer, mentioned |-> TRUE,
        overrode |-> IF item.mentioned
                     THEN Append(item.overrode, [layer |-> item.origin, state |-> item.state])
                     ELSE item.overrode]

ResolveItem(name, default, overlays) ==
  FoldLeft(LAMBDA item, overlay : Override(item, overlay, name),
           [state |-> default, origin |-> "default", mentioned |-> FALSE, overrode |-> << >>],
           overlays)

ResolveItems(names, default, overlays) ==
  [name \in names |-> ResolveItem(name, default, overlays)]

ActiveNames(items) == {name \in DOMAIN items : items[name].state = "enabled"}

(* Why an item is off: the layer that said so, or the catalog's default. *)
WhyInactive(item) == IF item.state = "enabled" THEN "none" ELSE item.origin

(***************************************************************************)
(* What is promised of them.                                               *)
(***************************************************************************)

(* An item is explained: the narrowest layer that mentions it decides, is named
   as its origin, and every broader one that mentions it is listed as overridden,
   in order, with what it said (resolver.go, "the non-negotiable feature"). *)
Explained(item, name, default, overlays) ==
  LET said(i) == overlays[i].said[name]
      speak   == {i \in DOMAIN overlays : said(i) # "unset"}
  IN IF speak = {} THEN item.state = default /\ item.origin = "default" /\ item.overrode = << >>
     ELSE /\ item.state = said(Max(speak)) /\ item.origin = overlays[Max(speak)].layer
          /\ Len(item.overrode) = Cardinality(speak) - 1
          /\ \A i \in speak \ {Max(speak)} :
               item.overrode[Cardinality({h \in speak : h <= i})] =
                 [layer |-> overlays[i].layer, state |-> said(i)]

(* Every instruction file on the way to a directory applies exactly once, also
   when it is reached by two names; the one global file comes first and the
   others follow, broadest first; and the workspace a layer is labelled with is
   the workspace of the path. *)
LayersInOrder(disk, path) ==
  LET layers == DiscoverLayers(disk, path)
      onWay  == {d \in Range(DirsTo(path)) : Exists(disk, d)}
      global == \E d \in Range(GlobalCandidates) : Exists(disk, d)
  IN /\ \A d \in onWay :
          Cardinality({i \in DOMAIN layers : disk.real[layers[i].dir] = disk.real[d]}) = 1
     /\ \A i \in DOMAIN layers : layers[i].scope = "global" <=> (global /\ i = 1)
     /\ \A i, j \in DOMAIN layers :
          1 < i /\ i < j => IsStrictPrefix(layers[i].dir, layers[j].dir)
     /\ \A i \in DOMAIN layers :
          layers[i].scope = "workspace" => Last(layers[i].dir) = WorkspaceFor(path)

===============================================================================
