-------------------------- MODULE MCSessionEvidence --------------------------
(* SessionEvidence for TLC. *)
EXTENDS SessionEvidence

CONSTANTS s1, s2, l1, t1, d1

Runtimes == [s \in Sessions |-> IF s = s2 THEN "antigravity" ELSE "claude"]

OneCwd == [s \in Sessions |-> d1]

AllLayers == [d \in Cwds |-> Layers]

ThreeLayers == <<"global", "workspace", "repo">>

(* A small tree, any files in it, and one symbolic link. *)
Me   == GitRoot \o <<"me">>
Dirs == {Root, Home, Home \o <<".agents">>, GitRoot, Me, Me \o <<"repo">>}

SmallDisks == {[files |-> files, real |-> [d \in Dirs |-> IF d = from THEN to ELSE d]] :
                 files \in SUBSET Dirs, from \in Dirs, to \in Dirs}

(* At most one transcript file in each directory. *)
FewFiles == {<< >>} \union {<<f>> : f \in [mtime : 1 .. 3, last : 1 .. 3, parses : BOOLEAN]}

==============================================================================
