------------------------- MODULE SessionEvidenceProofs -------------------------
(***************************************************************************)
(* Proofs about Fact, for observation lists of any length, and about the   *)
(* pipeline of SessionEvidence, for any numbers of sessions, files, tools  *)
(* and captures.                                                           *)
(***************************************************************************)
EXTENDS SessionEvidence, FiniteSetTheorems, NaturalsInduction, TLAPS

(***************************************************************************)
(* Lists                                                                   *)
(***************************************************************************)

(* The elements of a concatenation are those of its parts. *)
LEMMA Concatenation ==
  ASSUME NEW S, NEW T, NEW p \in Seq(S), NEW q \in Seq(T)
  PROVE  /\ Len(p) \in Nat /\ Len(p \o q) \in Nat
         /\ \A i \in 1 .. Len(p \o q) :
              \/ i \in 1 .. Len(p) /\ (p \o q)[i] = p[i]
              \/ i - Len(p) \in 1 .. Len(q) /\ (p \o q)[i] = q[i - Len(p)]
<1>1. p \in Seq(S \union T) /\ q \in Seq(S \union T)
  OBVIOUS
<1> QED
  BY <1>1

LEMMA ElementOf ==
  ASSUME NEW S, NEW q \in Seq(S), NEW i \in 1 .. Len(q)
  PROVE  q[i] \in S
  OBVIOUS

(* A finite set listed is a list of its elements. *)
LEMMA ListedElements ==
  ASSUME NEW S, IsFiniteSet(S)
  PROVE  SetToSeq(S) \in Seq(S)
<1> DEFINE n == Cardinality(S)
<1>1. n \in Nat /\ ExistsBijection(1 .. n, S)
  BY FS_CardinalityType
<1>2. \E f \in [1 .. n -> S] : IsInjective(f)
  BY <1>1 DEF ExistsBijection, Bijection, Injection
<1>3. SetToSeq(S) \in [1 .. n -> S]
  BY <1>2 DEF SetToSeq
<1> QED
  BY <1>1, <1>3

(* What a function yields on a finite set is finite. *)
LEMMA FiniteImage ==
  ASSUME NEW S, IsFiniteSet(S), NEW f
  PROVE  IsFiniteSet({f[x] : x \in S})
<1> DEFINE T == {f[x] : x \in S}
           g == [x \in S |-> f[x]]
<1>1. g \in Surjection(S, T)
  BY DEF Surjection
<1> QED
  BY <1>1, FS_Surjection

(* A nonempty set of places in a list has a first element. *)
Places(S) == S \subseteq Nat

LEMMA FirstIsIn ==
  ASSUME NEW S, Places(S), S # {}
  PROVE  FirstOf(S) \in S
<1>1. PICK x \in S : \A y \in S : <<y, x>> \notin OpToRel(<, Nat)
  BY NatLessThanWellFounded, WFMin DEF Places
<1>2. \A y \in S : ~(y < x)
  BY <1>1 DEF OpToRel, Places
<1>3. \A y \in S : x <= y
  BY <1>2 DEF Places
<1> QED
  BY <1>3 DEF FirstOf

(***************************************************************************)
(* Fact                                                                    *)
(***************************************************************************)

(* What Merge says of a fact is what classify says of its observations. *)
LEMMA MergeClassifies ==
  ASSUME NEW E, NEW obsn, NEW k \in DOMAIN Merge(E, obsn)
  PROVE  /\ Merge(E, obsn)[k].status = Classify(k \in E, obsn, About(obsn, k)).status
         /\ Merge(E, obsn)[k].level = Classify(k \in E, obsn, About(obsn, k)).level
  BY DEF Merge

(* classify, status by status. *)
LEMMA StatusMeans ==
  ASSUME NEW E, NEW k, NEW l, NEW I, NEW c, c = Classify(k \in E, l, I)
  PROVE  /\ c.status = "conflict" <=> Conflict(l, I)
         /\ c.status = "conflict" => c.level = LevelOf(l, I)
         /\ c.status = "expected_verified" =>
              \E i \in PresentIn(l, I) : l[i].level = Verified
         /\ c.status \in {"expected_observed", "unexpected"} =>
              \E i \in PresentIn(l, I) : l[i].level # Verified
         /\ c.status = "expected_observed" => k \in E
         /\ c.status = "unexpected" => k \notin E
         /\ c.status = "missing_expected" =>
              k \in E /\ PresentIn(l, I) = {} /\ ProvedAbsent(l, I) # {}
<1> DEFINE best == LevelOf(l, PresentIn(l, I))
<1>1. /\ best = Verified <=> \E i \in PresentIn(l, I) : l[i].level = Verified
      /\ best = Observed <=> PresentIn(l, I) # {} /\ \A i \in PresentIn(l, I) : l[i].level # Verified
  BY DEF LevelOf, Verified, Observed, Nil
<1>2. /\ c.status = "conflict" <=> Conflict(l, I)
      /\ c.status = "conflict" => c.level = LevelOf(l, I)
      /\ c.status = "expected_verified" => best = Verified
      /\ c.status \in {"expected_observed", "unexpected"} => best = Observed
      /\ c.status = "expected_observed" => k \in E
      /\ c.status = "unexpected" => k \notin E
      /\ c.status = "missing_expected" =>
           k \in E /\ best # Verified /\ best # Observed /\ ProvedAbsent(l, I) # {}
  BY DEF Classify, Verdict
<1> QED
  BY <1>1, <1>2

(* The same of the entries of Merge. *)
LEMMA MergeMeans ==
  ASSUME NEW E, NEW l, NEW k \in DOMAIN Merge(E, l), NEW I, I = About(l, k)
  PROVE  /\ Merge(E, l)[k].status = "conflict" <=> Conflict(l, I)
         /\ Merge(E, l)[k].status = "conflict" => Merge(E, l)[k].level = LevelOf(l, I)
         /\ Merge(E, l)[k].status = "expected_verified" =>
              \E i \in PresentIn(l, I) : l[i].level = Verified
         /\ Merge(E, l)[k].status \in {"expected_observed", "unexpected"} =>
              \E i \in PresentIn(l, I) : l[i].level # Verified
         /\ Merge(E, l)[k].status = "expected_observed" => k \in E
         /\ Merge(E, l)[k].status = "unexpected" => k \notin E
         /\ Merge(E, l)[k].status = "missing_expected" =>
              k \in E /\ PresentIn(l, I) = {} /\ ProvedAbsent(l, I) # {}
<1> DEFINE c == Classify(k \in E, l, I)
<1>1. /\ Merge(E, l)[k].status = c.status
      /\ Merge(E, l)[k].level = c.level
  BY MergeClassifies
<1> HIDE DEF c
<1>2. c = Classify(k \in E, l, I)
  BY DEF c
<1> QED
  BY <1>1, <1>2, StatusMeans

(* The observations of a list are those of any longer one. *)
LEMMA Longer ==
  ASSUME NEW S, NEW l \in Seq(S), NEW o \in S, NEW k
  PROVE  /\ \A i \in 1 .. Len(l) : Append(l, o)[i] = l[i]
         /\ About(l, k) \subseteq About(Append(l, o), k)
         /\ About(l, k) \subseteq 1 .. Len(l)
<1>1. /\ Len(l) \in Nat /\ Len(Append(l, o)) = Len(l) + 1
      /\ \A i \in 1 .. Len(l) : i \in 1 .. Len(Append(l, o)) /\ Append(l, o)[i] = l[i]
  OBVIOUS
<1> QED
  BY <1>1 DEF About

(* fact.go says that "the merge never discards a disagreeing observation": a
   conflict once found stays one, whatever is observed later. *)
THEOREM ConflictOutlivesEvidence ==
  ASSUME NEW S, NEW l \in Seq(S), NEW o \in S, NEW E, NEW k \in DOMAIN Merge(E, l),
         Merge(E, l)[k].status = "conflict"
  PROVE  Merge(E, Append(l, o))[k].status = "conflict"
<1>1. Conflict(l, About(l, k))
  BY MergeMeans
<1>2. Conflict(Append(l, o), About(Append(l, o), k))
  BY <1>1, Longer DEF Conflict
<1>3. k \in DOMAIN Merge(E, Append(l, o))
  <2>1. PICK i \in About(l, k) : TRUE
    BY <1>1 DEF Conflict
  <2> QED
    BY <2>1, Longer DEF Merge, About
<1> QED
  BY <1>2, <1>3, MergeMeans

(* Later evidence takes a verified verdict away only by contradicting it: no
   weaker, older or partial observation downgrades it. *)
THEOREM VerifiedOutlivesEvidence ==
  ASSUME NEW S, NEW l \in Seq(S), NEW o \in S, NEW E, NEW k \in DOMAIN Merge(E, l),
         Merge(E, l)[k].status = "expected_verified"
  PROVE  Merge(E, Append(l, o))[k].status \in {"expected_verified", "conflict"}
<1> DEFINE m == Append(l, o)
<1>1. PICK i \in PresentIn(l, About(l, k)) : l[i].level = Verified
  BY MergeMeans
<1>2. i \in PresentIn(m, About(m, k)) /\ m[i].level = Verified
  BY <1>1, Longer DEF PresentIn
<1>3. LevelOf(m, PresentIn(m, About(m, k))) = Verified
  BY <1>2 DEF LevelOf
<1>4. Classify(k \in E, m, About(m, k)).status \in {"expected_verified", "conflict"}
  BY <1>3 DEF Classify, Verdict
<1>5. k \in DOMAIN Merge(E, m)
  BY <1>2 DEF Merge, About, PresentIn
<1> QED
  BY <1>4, <1>5, MergeClassifies

(* The status missing_expected means "expected, a Complete source proved
   absent" in fact.go: an expected fact is called missing only on the word of
   such a source, and only when no source saw it. *)
THEOREM MissingNeedsCompleteSource ==
  ASSUME NEW l, NEW E, NEW k \in DOMAIN Merge(E, l),
         Merge(E, l)[k].status = "missing_expected"
  PROVE  /\ k \in E
         /\ \E i \in About(l, k) : l[i].complete /\ ~l[i].present
         /\ \A i \in About(l, k) : ~l[i].present
  BY MergeMeans DEF PresentIn, ProvedAbsent

(* Two lists that hold the same observations of a fact agree on whether they
   conflict, and on their level. *)
LEMMA SameConflict ==
  ASSUME NEW l, NEW I, NEW m, NEW J,
         \A i \in I : \E j \in J : m[j] = l[i],
         \A j \in J : \E i \in I : l[i] = m[j]
  PROVE  Conflict(m, J) <=> Conflict(l, I)
<1>1. ASSUME Conflict(l, I) PROVE Conflict(m, J)
  <2>1. PICK i \in I, j \in I :
          /\ l[i].complete /\ l[j].complete
          /\ Comparable(l[i], l[j])
          /\ l[i].present # l[j].present
    BY <1>1 DEF Conflict
  <2>2. PICK i2 \in J, j2 \in J : m[i2] = l[i] /\ m[j2] = l[j]
    OBVIOUS
  <2> QED
    BY <2>1, <2>2 DEF Conflict
<1>2. ASSUME Conflict(m, J) PROVE Conflict(l, I)
  <2>1. PICK i \in J, j \in J :
          /\ m[i].complete /\ m[j].complete
          /\ Comparable(m[i], m[j])
          /\ m[i].present # m[j].present
    BY <1>2 DEF Conflict
  <2>2. PICK i2 \in I, j2 \in I : l[i2] = m[i] /\ l[j2] = m[j]
    OBVIOUS
  <2> QED
    BY <2>1, <2>2 DEF Conflict
<1> QED
  BY <1>1, <1>2

LEMMA SameLevel ==
  ASSUME NEW l, NEW I, NEW m, NEW J,
         \A i \in I : \E j \in J : m[j] = l[i],
         \A j \in J : \E i \in I : l[i] = m[j]
  PROVE  LevelOf(m, J) = LevelOf(l, I)
<1>1. (\E i \in I : l[i].level = Verified) <=> \E j \in J : m[j].level = Verified
  OBVIOUS
<1>2. I = {} <=> J = {}
  OBVIOUS
<1> QED
  BY <1>1, <1>2 DEF LevelOf

(* Two lists with the same observations of a fact, in any order and however
   often repeated, yield the same verdict about it.  Only the level of a missing
   fact is the first one found, so the proofs of absence must agree on it. *)
LEMMA OrderIsIrrelevant ==
  ASSUME NEW e, NEW l, NEW I, NEW m, NEW J, Places(I), Places(J),
         \A i \in I : \E j \in J : m[j] = l[i],
         \A j \in J : \E i \in I : l[i] = m[j],
         \A i, j \in ProvedAbsent(l, I) : l[i].level = l[j].level
  PROVE  Classify(e, m, J) = Classify(e, l, I)
<1>1. Conflict(m, J) <=> Conflict(l, I)
  BY SameConflict
<1>2. LevelOf(m, J) = LevelOf(l, I)
  BY SameLevel
<1>3. LevelOf(m, PresentIn(m, J)) = LevelOf(l, PresentIn(l, I))
  <2>1. /\ \A i \in PresentIn(l, I) : \E j \in PresentIn(m, J) : m[j] = l[i]
        /\ \A j \in PresentIn(m, J) : \E i \in PresentIn(l, I) : l[i] = m[j]
    BY DEF PresentIn
  <2> QED
    BY <2>1, SameLevel
<1>4. /\ ProvedAbsent(m, J) = {} <=> ProvedAbsent(l, I) = {}
      /\ \A j \in ProvedAbsent(m, J) : \E i \in ProvedAbsent(l, I) : l[i] = m[j]
  BY DEF ProvedAbsent
<1>5. ASSUME ProvedAbsent(l, I) # {}
      PROVE  m[FirstOf(ProvedAbsent(m, J))].level = l[FirstOf(ProvedAbsent(l, I))].level
  <2>1. Places(ProvedAbsent(m, J)) /\ Places(ProvedAbsent(l, I))
    BY DEF ProvedAbsent, Places
  <2>2. /\ FirstOf(ProvedAbsent(m, J)) \in ProvedAbsent(m, J)
        /\ FirstOf(ProvedAbsent(l, I)) \in ProvedAbsent(l, I)
    BY <1>4, <1>5, <2>1, FirstIsIn
  <2> QED
    BY <1>4, <2>2
<1> QED
  BY <1>1, <1>2, <1>3, <1>4, <1>5 DEF Classify

(***************************************************************************)
(* The pipeline: the inductive invariant                                   *)
(***************************************************************************)

CaptureType == [session : Sessions, host : {"claude", "codex", "gemini"},
                text : SUBSET (Layers \X Versions), tools : SUBSET Tools, blank : BOOLEAN]

TranscriptType == [text : SUBSET (Layers \X Versions), tools : SUBSET Tools, catalog : BOOLEAN]

(* The world is well formed, and a capture's host is that of its session. *)
WorldInv ==
  /\ version \in [Layers -> 0 .. MaxVersion]
  /\ transcript \in [Sessions -> TranscriptType]
  /\ traffic \in Seq(CaptureType)
  /\ \A i \in 1 .. Len(traffic) : traffic[i].host = HostRuntime(traffic[i].session)

(* Where buildView is; every capture in its snapshot was recorded. *)
PassInv ==
  /\ session \in Sessions
  /\ step \in {"idle", "loaded", "resolved", "transcript seen", "absence seen", "reading wire", "merged"}
  /\ next \in Nat
  /\ step = "reading wire" => next > 0
  /\ step \in {"loaded", "resolved", "transcript seen", "absence seen"} => next = 0
  /\ step \in {"idle", "loaded", "resolved"} => obs = << >>
  /\ facts = IF step = "merged" THEN Merge(expected, obs) ELSE << >>
  /\ caps \in Seq(CaptureType)
  /\ \A j \in 1 .. Len(caps) : \E i \in 1 .. Len(traffic) : traffic[i] = caps[j]

ResolutionType == [known : BOOLEAN, layers : SUBSET Layers, tools : SUBSET Tools]

(* A resolved file that has not been edited since the expectations were made is
   expected with the text it has, if it has any. *)
ResolvedInv ==
  /\ cache \in [Cwds -> ResolutionType]
  /\ step # "loaded" =>
       \A l \in Resolved : l \notin edited /\ version[l] # 0 => TextKey(l, version[l]) \in expected

ObsType == [key : [kind : {"instruction_text", "tool_available"}, name : Layers \union Tools,
                   digest : Nat],
            present : BOOLEAN, level : {Observed, Verified}, complete : BOOLEAN,
            session : Sessions, request : Nat]

(* Wire observations carry a request id and are verified; the others neither. *)
Dated(o) ==
  /\ o.session = session
  /\ o.request # 0 => o.request < next
  /\ o.level = IF o.request = 0 THEN Observed ELSE Verified

(* What an observation says was so where it was made, and still is. *)
Seen(o) ==
  o.present =>
    IF o.level = Verified
    THEN \E i \in 1 .. Len(traffic) : traffic[i].host = RuntimeOf[session] /\ Sent(i, o.key)
    ELSE WroteDown(session, o.key)

(* Tools are missed only in catalogs, texts only in requests. *)
Missed(o) ==
  ~o.present =>
    IF IsTool(o.key)
    THEN o.level = Observed /\ transcript[session].catalog /\ o.key \in expected
    ELSE /\ o.level = Verified
         /\ \E i \in 1 .. Len(traffic) : traffic[i].host = RuntimeOf[session] /\ ~Sent(i, o.key)

(* A text is one that is expected, or that of a file that was edited. *)
OfFile(o) == ~IsTool(o.key) => o.key \in expected \/ o.key.name \in edited

Grounded(o) == Dated(o) /\ Seen(o) /\ Missed(o) /\ OfFile(o)

(* Two observations that disagree: a tool was seen on the wire, for the
   transcript does not contradict itself; a text was not seen in both ways in
   one request. *)
Consistent(o, p) ==
  o.key = p.key /\ o.present /\ ~p.present =>
    IF IsTool(o.key) THEN o.level = Verified ELSE o.request # p.request

ObsInv ==
  /\ obs \in Seq(ObsType)
  /\ \A i \in 1 .. Len(obs) : Grounded(obs[i])
  /\ \A i, j \in 1 .. Len(obs) : Consistent(obs[i], obs[j])

IInv == WorldInv /\ PassInv /\ ResolvedInv /\ ObsInv

(***************************************************************************)
(* Steps of the world                                                      *)
(***************************************************************************)

(* Captures and transcripts are only ever added to, and a file that is not
   edited stays as it is. *)
Grows ==
  /\ \A i \in 1 .. Len(traffic) : i \in 1 .. Len(traffic') /\ traffic'[i] = traffic[i]
  /\ \A s \in Sessions : /\ transcript[s].text \subseteq transcript'[s].text
                         /\ transcript[s].tools \subseteq transcript'[s].tools
                         /\ transcript[s].catalog => transcript'[s].catalog
  /\ edited \subseteq edited'
  /\ \A l \in Layers : l \notin edited' => version'[l] = version[l]

LEMMA Keys ==
  ASSUME NEW l, NEW v, NEW t
  PROVE  /\ TextKey(l, v).kind = "instruction_text" /\ ToolKey(t).kind = "tool_available"
         /\ TextKey(l, v).name = l /\ TextKey(l, v).digest = v /\ ToolKey(t).name = t
         /\ ~IsTool(TextKey(l, v)) /\ IsTool(ToolKey(t)) /\ ToolKey(t).digest = 0
  BY DEF TextKey, ToolKey, IsTool

(* What a session may put into a prompt is of the model's layers and versions. *)
LEMMA PromptableType ==
  ASSUME NEW s \in Sessions
  PROVE  Promptable(s) \subseteq Layers \X Versions
  BY EvidenceAssumption DEF Promptable

LEMMA HostType ==
  ASSUME NEW s \in Sessions
  PROVE  /\ HostRuntime(s) \in {"claude", "codex", "gemini"}
         /\ \A t \in Sessions : HostRuntime(s) = RuntimeOf[t] => RuntimeOf[s] = RuntimeOf[t]
  BY EvidenceAssumption DEF HostRuntime

LEMMA WorldGrows ==
  ASSUME WorldInv, World
  PROVE  WorldInv' /\ Grows /\ UNCHANGED passVars
<1>1. ASSUME NEW l \in Layers, EditLayer(l)
      PROVE  WorldInv' /\ Grows /\ UNCHANGED passVars
  <2>1. PICK v \in 0 .. MaxVersion : version' = [version EXCEPT ![l] = v]
    BY <1>1 DEF EditLayer
  <2>2. /\ version' \in [Layers -> 0 .. MaxVersion]
        /\ edited' = edited \union {l}
        /\ \A m \in Layers : m \notin edited' => version'[m] = version[m]
        /\ UNCHANGED <<transcript, traffic>>
    BY <1>1, <2>1 DEF EditLayer, WorldInv
  <2>3. Len(traffic) \in Nat
    BY DEF WorldInv
  <2> QED
    BY <1>1, <2>2, <2>3 DEF EditLayer, WorldInv, Grows
<1>2. ASSUME NEW s \in Sessions, Request(s)
      PROVE  WorldInv' /\ Grows /\ UNCHANGED passVars
  <2>1. PICK text \in SUBSET Promptable(s), tools \in SUBSET Tools, blank \in BOOLEAN :
          traffic' = Append(traffic, [session |-> s, host |-> HostRuntime(s),
                                      text |-> text, tools |-> tools, blank |-> blank])
    BY <1>2 DEF Request
  <2> DEFINE c == [session |-> s, host |-> HostRuntime(s),
                   text |-> text, tools |-> tools, blank |-> blank]
  <2>2. c \in CaptureType /\ c.host = HostRuntime(c.session)
    BY PromptableType, HostType DEF CaptureType
  <2> HIDE DEF c
  <2>3. traffic' = Append(traffic, c) /\ traffic \in Seq(CaptureType)
    BY <2>1 DEF c, WorldInv
  <2>4. /\ traffic' \in Seq(CaptureType)
        /\ Len(traffic) \in Nat /\ Len(traffic') = Len(traffic) + 1
        /\ \A i \in 1 .. Len(traffic) : i \in 1 .. Len(traffic') /\ traffic'[i] = traffic[i]
        /\ traffic'[Len(traffic')] = c
    BY <2>2, <2>3
  <2>5. \A i \in 1 .. Len(traffic') : i \in 1 .. Len(traffic) \/ i = Len(traffic')
    BY <2>4
  <2>6. \A i \in 1 .. Len(traffic') : traffic'[i].host = HostRuntime(traffic'[i].session)
    BY <2>2, <2>4, <2>5 DEF WorldInv
  <2>7. UNCHANGED <<version, transcript, edited, passVars>>
    BY <1>2 DEF Request
  <2> QED
    BY <2>4, <2>6, <2>7 DEF WorldInv, Grows, HostRuntime
<1>3. ASSUME NEW s \in Sessions, NEW t \in TranscriptType,
             transcript' = [transcript EXCEPT ![s] = t],
             transcript[s].text \subseteq t.text, transcript[s].tools \subseteq t.tools,
             transcript[s].catalog => t.catalog, UNCHANGED <<version, traffic, edited, passVars>>
      PROVE  WorldInv' /\ Grows /\ UNCHANGED passVars
  <2>1. transcript' \in [Sessions -> TranscriptType]
    BY <1>3 DEF WorldInv
  <2>2. \A r \in Sessions : transcript'[r] = IF r = s THEN t ELSE transcript[r]
    BY <1>3 DEF WorldInv
  <2>3. Len(traffic) \in Nat
    BY DEF WorldInv
  <2> QED
    BY <1>3, <2>1, <2>2, <2>3 DEF WorldInv, Grows, HostRuntime
<1>4. ASSUME NEW s \in Sessions, RecordText(s)
      PROVE  WorldInv' /\ Grows /\ UNCHANGED passVars
  <2>1. PICK p \in Promptable(s) :
          transcript' = [transcript EXCEPT ![s].text = transcript[s].text \union {p}]
    BY <1>4 DEF RecordText
  <2>2. transcript[s] \in TranscriptType
    BY DEF WorldInv
  <2> DEFINE t == [transcript[s] EXCEPT !.text = transcript[s].text \union {p}]
  <2>3. /\ t \in TranscriptType
        /\ transcript[s].text \subseteq t.text /\ transcript[s].tools \subseteq t.tools
        /\ transcript[s].catalog => t.catalog
    BY <2>2, PromptableType DEF TranscriptType
  <2>4. transcript' = [transcript EXCEPT ![s] = t]
    BY <2>1 DEF WorldInv
  <2> QED
    BY <1>3, <1>4, <2>3, <2>4 DEF RecordText
<1>5. ASSUME NEW s \in Sessions, RecordTool(s) \/ RecordCatalog(s)
      PROVE  WorldInv' /\ Grows /\ UNCHANGED passVars
  <2>1. PICK added \in SUBSET Tools, complete \in BOOLEAN :
          /\ transcript[s].catalog => complete
          /\ transcript' = [transcript EXCEPT ![s] =
               [transcript[s] EXCEPT !.tools = transcript[s].tools \union added, !.catalog = complete]]
    <3>1. transcript[s] \in TranscriptType
      BY DEF WorldInv
    <3>2. CASE RecordTool(s)
      <4>1. PICK t \in Tools :
              transcript' = [transcript EXCEPT ![s].tools = transcript[s].tools \union {t}]
        BY <3>2 DEF RecordTool
      <4>2. transcript[s].catalog \in BOOLEAN
        BY <3>1 DEF TranscriptType
      <4>3. transcript' = [transcript EXCEPT ![s] =
              [transcript[s] EXCEPT !.tools = transcript[s].tools \union {t},
                                    !.catalog = transcript[s].catalog]]
        BY <3>1, <4>1 DEF WorldInv, TranscriptType
      <4> QED
        BY <4>2, <4>3
    <3>3. CASE RecordCatalog(s)
      BY <3>3 DEF RecordCatalog, WorldInv
    <3> QED
      BY <1>5, <3>2, <3>3
  <2>2. transcript[s] \in TranscriptType
    BY DEF WorldInv
  <2> DEFINE t == [transcript[s] EXCEPT !.tools = transcript[s].tools \union added, !.catalog = complete]
  <2>3. /\ t \in TranscriptType
        /\ transcript[s].text \subseteq t.text /\ transcript[s].tools \subseteq t.tools
        /\ transcript[s].catalog => t.catalog
    BY <2>1, <2>2 DEF TranscriptType
  <2>4. UNCHANGED <<version, traffic, edited, passVars>>
    BY <1>5 DEF RecordTool, RecordCatalog
  <2> HIDE DEF t
  <2>5. transcript' = [transcript EXCEPT ![s] = t]
    BY <2>1 DEF t
  <2> QED
    BY <1>3, <2>3, <2>4, <2>5
<1> QED
  BY <1>1, <1>2, <1>4, <1>5 DEF World

(***************************************************************************)
(* Steps of buildView                                                      *)
(***************************************************************************)

(* What was seen or missed stays so while the world goes on. *)
LEMMA GroundedStays ==
  ASSUME PassInv, Grows, UNCHANGED <<session, expected>>,
         next' \in Nat, next <= next',
         NEW o \in ObsType, Grounded(o)
  PROVE  Grounded(o)'
<1>1. o.request \in Nat /\ session \in Sessions /\ next \in Nat
  BY DEF ObsType, PassInv
<1>2. Dated(o)'
  <2>1. Dated(o)
    BY DEF Grounded
  <2> QED
    BY <1>1, <2>1 DEF Dated
<1>3. \A i \in 1 .. Len(traffic) :
        i \in 1 .. Len(traffic') /\ traffic'[i] = traffic[i] /\ (Sent(i, o.key)' <=> Sent(i, o.key))
  BY DEF Grows, Sent, IsTool
<1>4. Seen(o)'
  BY <1>1, <1>3 DEF Grounded, Seen, Grows, WroteDown, IsTool
<1>5. Missed(o)'
  BY <1>1, <1>3 DEF Grounded, Missed, Grows, IsTool
<1>6. OfFile(o)'
  BY DEF Grounded, OfFile, IsTool, Grows
<1> QED
  BY <1>2, <1>4, <1>5, <1>6 DEF Grounded

(* Adding the observations of S to the list. *)
LEMMA ObsAppended ==
  ASSUME ObsInv, NEW S, IsFiniteSet(S), S \subseteq ObsType,
         obs' = obs \o SetToSeq(S),
         \A o \in ObsType : Grounded(o) => Grounded(o)',
         \A o \in S : Grounded(o)',
         \A o \in S : \A i \in 1 .. Len(obs) : Consistent(obs[i], o) /\ Consistent(o, obs[i]),
         \A o, p \in S : Consistent(o, p)
  PROVE  ObsInv'
<1> DEFINE q == SetToSeq(S)
<1>1. q \in Seq(S) /\ obs \in Seq(ObsType)
  BY ListedElements DEF ObsInv
<1>2. q \in Seq(ObsType)
  BY <1>1
<1> HIDE DEF q
<1>3. obs' = obs \o q
  BY DEF q
<1>4. \A i \in 1 .. Len(obs') :
        \/ i \in 1 .. Len(obs) /\ obs'[i] = obs[i]
        \/ obs'[i] \in S
  <2>1. \A i \in 1 .. Len(q) : q[i] \in S
    BY <1>1
  <2> QED
    BY <1>1, <1>3, <2>1, Concatenation
<1>5. obs' \in Seq(ObsType)
  BY <1>1, <1>2, <1>3
<1>6. ASSUME NEW i \in 1 .. Len(obs')
      PROVE  Grounded(obs[i])'
  <2>1. PICK o \in ObsType : o = obs'[i] /\ Grounded(o)'
    <3>1. CASE i \in 1 .. Len(obs) /\ obs'[i] = obs[i]
      BY <1>1, <3>1 DEF ObsInv
    <3>2. CASE obs'[i] \in S
      BY <3>2
    <3> QED
      BY <1>4, <3>1, <3>2
  <2> QED
    BY <2>1 DEF Grounded, Dated, Seen, Missed, OfFile, Sent, WroteDown, IsTool
<1>7. \A i, j \in 1 .. Len(obs') : Consistent(obs'[i], obs'[j])
  BY <1>4 DEF ObsInv
<1> QED
  <2>1. \A i \in 1 .. Len(obs') : Grounded(obs[i])'
    BY <1>6
  <2> QED
    BY <1>5, <1>7, <2>1 DEF ObsInv, Consistent, IsTool

(* Of what a session's directory is resolved to. *)
LEMMA ResolvedType ==
  ASSUME PassInv, ResolvedInv
  PROVE  Resolved \subseteq Layers
<1>1. CwdOf[session] \in Cwds
  BY EvidenceAssumption DEF PassInv
<1> QED
  BY <1>1 DEF Resolved, ResolvedInv, ResolutionType

(* The observations of ObserveInstructionText. *)
LEMMA InstructionObsType ==
  ASSUME WorldInv, PassInv, ResolvedInv,
         NEW text, NEW level \in {Observed, Verified}, NEW complete \in BOOLEAN,
         NEW request \in Nat
  PROVE  LET S == InstructionObs(text, level, complete, request) IN
         /\ IsFiniteSet(S) /\ S \subseteq ObsType
         /\ \A o \in S : \E l \in Resolved :
              /\ version[l] # 0
              /\ o = Obs(TextKey(l, version[l]), Carries(l, text), level, TRUE, request)
              /\ ~complete => Carries(l, text)
<1> DEFINE L    == {m \in Readable(Resolved) : complete \/ Carries(m, text)}
           f    == [l \in L |-> Obs(TextKey(l, version[l]), Carries(l, text), level, TRUE, request)]
           S    == InstructionObs(text, level, complete, request)
<1>1. S = {f[l] : l \in L}
  BY DEF InstructionObs, KeyFor
<1>0. Resolved \subseteq Layers
  BY ResolvedType
<1>2. IsFiniteSet(L)
  BY <1>0, EvidenceAssumption, FS_Subset DEF Readable
<1>3. IsFiniteSet(S)
  <2> HIDE DEF f, S
  <2> QED
    BY <1>1, <1>2, FiniteImage
<1>4. ASSUME NEW l \in Resolved
      PROVE  Obs(TextKey(l, version[l]), Carries(l, text), level, TRUE, request) \in ObsType
  <2>1. version[l] \in Nat /\ l \in Layers
    BY <1>0 DEF WorldInv
  <2>2. Carries(l, text) \in BOOLEAN
    BY DEF Carries
  <2> QED
    BY <2>1, <2>2 DEF Obs, ObsType, TextKey, PassInv
<1>5. \A l \in L : l \in Resolved /\ version[l] # 0 /\ (~complete => Carries(l, text))
  BY DEF Readable
<1> QED
  BY <1>1, <1>3, <1>4, <1>5

(* Those of a captured prompt, which can prove absence. *)
LEMMA CaptureTexts ==
  ASSUME WorldInv, PassInv, ResolvedInv, NEW text, NEW n \in Nat
  PROVE  LET S == InstructionObs(text, Verified, TRUE, n) IN
         /\ IsFiniteSet(S) /\ S \subseteq ObsType
         /\ \A o \in S : \E l \in Resolved :
              /\ version[l] # 0
              /\ o = Obs(TextKey(l, version[l]), Carries(l, text), Verified, TRUE, n)
<1> DEFINE S == InstructionObs(text, Verified, TRUE, n)
<1>1. IsFiniteSet(S) /\ S \subseteq ObsType
  BY InstructionObsType
<1>2. \A o \in S : \E l \in Resolved :
        /\ version[l] # 0
        /\ o = Obs(TextKey(l, version[l]), Carries(l, text), Verified, TRUE, n)
  <2>1. \A o \in S : \E l \in Resolved :
          /\ version[l] # 0
          /\ o = Obs(TextKey(l, version[l]), Carries(l, text), Verified, TRUE, n)
          /\ ~TRUE => Carries(l, text)
    BY InstructionObsType, Zenon
  <2> HIDE DEF S
  <2> QED
    BY <2>1
<1> QED
  BY <1>1, <1>2

(* The observations of tool names. *)
LEMMA ToolObsType ==
  ASSUME PassInv, NEW T \in SUBSET Tools, NEW present \in BOOLEAN,
         NEW level \in {Observed, Verified}, NEW complete \in BOOLEAN, NEW request \in Nat
  PROVE  LET S == {Obs(ToolKey(n), present, level, complete, request) : n \in T} IN
         IsFiniteSet(S) /\ S \subseteq ObsType
<1> DEFINE f == [n \in T |-> Obs(ToolKey(n), present, level, complete, request)]
           S == {Obs(ToolKey(n), present, level, complete, request) : n \in T}
<1>1. S = {f[n] : n \in T}
  OBVIOUS
<1>2. IsFiniteSet(T)
  BY EvidenceAssumption, FS_Subset
<1>3. IsFiniteSet(S)
  <2> HIDE DEF f, S
  <2> QED
    BY <1>1, <1>2, FiniteImage
<1>4. S \subseteq ObsType
  <2>1. session \in Sessions
    BY DEF PassInv
  <2>2. \A n \in T : Obs(ToolKey(n), present, level, complete, request) \in ObsType
    BY <2>1 DEF Obs, ObsType, ToolKey
  <2> QED
    BY <2>2
<1> QED
  BY <1>3, <1>4

LEMMA WorldStays ==
  ASSUME WorldInv, UNCHANGED worldVars
  PROVE  WorldInv' /\ Grows
<1>1. Len(traffic) \in Nat
  BY DEF WorldInv
<1> QED
  BY <1>1 DEF WorldInv, Grows, worldVars, HostRuntime

(* Steps that neither move to another session nor read the files. *)
LEMMA ResolvedStays ==
  ASSUME PassInv, ResolvedInv, Grows, UNCHANGED <<session, cache, expected>>,
         step # "loaded" \/ step' = "loaded"
  PROVE  ResolvedInv'
<1>1. Resolved \subseteq Layers /\ Resolved' = Resolved
  BY ResolvedType DEF Resolved
<1>2. ASSUME step' # "loaded", NEW l \in Resolved, l \notin edited', version'[l] # 0
      PROVE  TextKey(l, version'[l]) \in expected
  <2>1. l \notin edited /\ version'[l] = version[l]
    BY <1>1, <1>2 DEF Grows
  <2> QED
    BY <1>2, <2>1 DEF ResolvedInv
<1>3. \A l \in Resolved' : l \notin edited' /\ version'[l] # 0 /\ step' # "loaded" =>
        TextKey(l, version'[l]) \in expected'
  BY <1>1, <1>2
<1>4. cache' \in [Cwds -> ResolutionType]
  BY DEF ResolvedInv
<1> QED
  BY <1>3, <1>4 DEF ResolvedInv, TextKey

(* The same list of observations. *)
LEMMA ObsStays ==
  ASSUME ObsInv, obs' = obs, \A o \in ObsType : Grounded(o) => Grounded(o)'
  PROVE  ObsInv'
<1>1. ASSUME NEW i \in 1 .. Len(obs')
      PROVE  Grounded(obs[i])'
  <2>1. PICK o \in ObsType : o = obs'[i] /\ Grounded(o)'
    BY DEF ObsInv
  <2> QED
    BY <2>1 DEF Grounded, Dated, Seen, Missed, OfFile, Sent, WroteDown, IsTool
<1>2. \A i \in 1 .. Len(obs') : Grounded(obs[i])'
  BY <1>1
<1> QED
  BY <1>2 DEF ObsInv, Consistent, IsTool

LEMMA WorldKeepsInv ==
  ASSUME IInv, World
  PROVE  IInv'
<1>1. WorldInv /\ PassInv /\ ResolvedInv /\ ObsInv
  BY DEF IInv
<1>2. WorldInv' /\ Grows /\ UNCHANGED passVars
  BY <1>1, WorldGrows
<1>3. UNCHANGED <<step, session, cache, expected, obs, caps, next, facts>>
  BY <1>2 DEF passVars
<1>4. PassInv'
  <2>1. \A j \in 1 .. Len(caps) : \E i \in 1 .. Len(traffic') : traffic'[i] = caps[j]
    BY <1>1, <1>2 DEF PassInv, Grows
  <2>2. facts' = IF step' = "merged" THEN Merge(expected', obs') ELSE << >>
    BY <1>1, <1>3 DEF PassInv
  <2> QED
    BY <1>1, <1>3, <2>1, <2>2 DEF PassInv
<1>5. ResolvedInv'
  BY <1>1, <1>2, <1>3, ResolvedStays
<1>6. next \in Nat /\ next' = next
  BY <1>1, <1>3 DEF PassInv
<1>7. \A o \in ObsType : Grounded(o) => Grounded(o)'
  BY <1>1, <1>2, <1>3, <1>6, GroundedStays
<1>8. ObsInv'
  BY <1>1, <1>3, <1>7, ObsStays
<1> QED
  BY <1>2, <1>4, <1>5, <1>8 DEF IInv

LEMMA LoadKeepsInv ==
  ASSUME IInv, NEW s \in Sessions, Load(s)
  PROVE  IInv'
<1>1. WorldInv /\ PassInv /\ ResolvedInv
  BY DEF IInv
<1>2. /\ step' = "loaded" /\ session' = s
      /\ obs' = << >> /\ facts' = << >> /\ caps' = << >> /\ next' = 0
      /\ UNCHANGED worldVars
  BY DEF Load
<1>3. WorldInv'
  BY <1>1, <1>2, WorldStays
<1>4. PassInv'
  BY <1>2 DEF PassInv
<1>5. cache' \in [Cwds -> ResolutionType]
  <2>1. PICK resCache \in {cache, [d \in Cwds |-> Unresolved]} :
          IF resCache[CwdOf[s]].known THEN cache' = resCache
          ELSE \E layers \in SUBSET LayersOf[CwdOf[s]] :
                 \E yaml \in [layers -> [Tools -> Written]] :
                   cache' = [resCache EXCEPT ![CwdOf[s]] =
                               [known |-> TRUE, layers |-> layers,
                                tools |-> ActiveTools(layers, yaml)]]
    BY DEF Load
  <2>2. resCache \in [Cwds -> ResolutionType]
    <3>1. Unresolved \in ResolutionType
      BY DEF Unresolved, ResolutionType
    <3> QED
      BY <1>1, <2>1, <3>1 DEF ResolvedInv
  <2>3. CASE resCache[CwdOf[s]].known
    BY <2>1, <2>2, <2>3
  <2>4. CASE ~resCache[CwdOf[s]].known
    <3>1. PICK layers \in SUBSET LayersOf[CwdOf[s]] :
            \E yaml \in [layers -> [Tools -> Written]] :
              cache' = [resCache EXCEPT ![CwdOf[s]] =
                          [known |-> TRUE, layers |-> layers,
                           tools |-> ActiveTools(layers, yaml)]]
      BY <2>1, <2>4
    <3>2. PICK yaml \in [layers -> [Tools -> Written]] :
            cache' = [resCache EXCEPT ![CwdOf[s]] =
                        [known |-> TRUE, layers |-> layers,
                         tools |-> ActiveTools(layers, yaml)]]
      BY <3>1
    <3>3. layers \subseteq Layers
      BY EvidenceAssumption
    <3>4. ActiveTools(layers, yaml) \subseteq Tools
      BY DEF ActiveTools, ActiveNames, ResolveItems
    <3>5. [known |-> TRUE, layers |-> layers, tools |-> ActiveTools(layers, yaml)] \in ResolutionType
      BY <3>3, <3>4 DEF ResolutionType
    <3> HIDE DEF ResolutionType
    <3> QED
      BY <2>2, <3>2, <3>5
  <2> QED
    BY <2>3, <2>4
<1>6. ResolvedInv'
  BY <1>2, <1>5 DEF ResolvedInv
<1>7. ObsInv'
  <2>1. obs' \in Seq(ObsType) /\ Len(obs') = 0
    BY <1>2
  <2> QED
    BY <2>1 DEF ObsInv
<1> QED
  BY <1>3, <1>4, <1>6, <1>7 DEF IInv

LEMMA ExpectKeepsInv ==
  ASSUME IInv, Expect
  PROVE  IInv'
<1>1. WorldInv /\ PassInv /\ ResolvedInv /\ ObsInv
  BY DEF IInv
<1>2. /\ step = "loaded" /\ step' = "resolved"
      /\ \A l \in Readable(Resolved) : TextKey(l, version[l]) \in expected'
      /\ UNCHANGED <<version, transcript, traffic, session, cache, obs, caps, next, facts>>
  BY DEF Expect
<1>3. WorldInv'
  BY <1>1, <1>2 DEF WorldInv, HostRuntime
<1>4. PassInv' /\ obs' = << >>
  BY <1>1, <1>2 DEF PassInv
<1>5. ResolvedInv'
  <2>1. Resolved' = Resolved
    BY <1>2 DEF Resolved
  <2>2. \A l \in Resolved' : version'[l] # 0 => TextKey(l, version'[l]) \in expected'
    BY <1>2, <2>1 DEF Readable
  <2> QED
    BY <1>1, <1>2, <2>2 DEF ResolvedInv, TextKey
<1>6. ObsInv'
  <2>1. obs' \in Seq(ObsType) /\ Len(obs') = 0
    BY <1>4
  <2> QED
    BY <2>1 DEF ObsInv
<1> QED
  BY <1>3, <1>4, <1>5, <1>6 DEF IInv

(* Steps of the same pass: what is left to show. *)
LEMMA PassGoesOn ==
  ASSUME IInv, UNCHANGED <<session, cache, expected, worldVars>>, step # "loaded",
         next' \in Nat, next <= next'
  PROVE  /\ WorldInv' /\ ResolvedInv'
         /\ \A o \in ObsType : Grounded(o) => Grounded(o)'
         /\ obs' = obs => ObsInv'
<1>1. WorldInv /\ PassInv /\ ResolvedInv /\ ObsInv
  BY DEF IInv
<1>2. WorldInv' /\ Grows
  BY <1>1, WorldStays
<1>3. ResolvedInv'
  BY <1>1, <1>2, ResolvedStays
<1>4. \A o \in ObsType : Grounded(o) => Grounded(o)'
  BY <1>1, <1>2, GroundedStays
<1> QED
  BY <1>1, <1>2, <1>3, <1>4, ObsStays

LEMMA ReadTranscriptKeepsInv ==
  ASSUME IInv, ReadTranscript
  PROVE  IInv'
<1> DEFINE t == transcript[session]
           texts == InstructionObs(t.text, Observed, FALSE, 0)
           tools == {Obs(ToolKey(n), TRUE, Observed, t.catalog, 0) : n \in t.tools}
           S == texts \union tools
<1>1. WorldInv /\ PassInv /\ ResolvedInv /\ ObsInv
  BY DEF IInv
<1>0. obs' = obs \o SetToSeq(S)
  BY DEF ReadTranscript
<1>2. /\ step = "resolved" /\ step' = "transcript seen"
      /\ UNCHANGED <<session, cache, expected, caps, next, facts, worldVars>>
  BY DEF ReadTranscript
<1>3. /\ next \in Nat /\ next' = next /\ next <= next' /\ session \in Sessions
      /\ obs = << >>
  <2>1. next \in Nat /\ session \in Sessions /\ obs = << >>
    BY <1>1, <1>2 DEF PassInv
  <2>2. next' = next
    BY <1>2
  <2> QED
    BY <2>1, <2>2
<1>4. WorldInv' /\ ResolvedInv' /\ \A o \in ObsType : Grounded(o) => Grounded(o)'
  BY <1>2, <1>3, PassGoesOn
<1>5. t.tools \in SUBSET Tools /\ t.catalog \in BOOLEAN
  BY <1>1, <1>3 DEF WorldInv, TranscriptType
<1>6. /\ IsFiniteSet(texts) /\ texts \subseteq ObsType
      /\ \A o \in texts : \E l \in Resolved :
           /\ version[l] # 0
           /\ o = Obs(TextKey(l, version[l]), Carries(l, t.text), Observed, TRUE, 0)
           /\ ~FALSE => Carries(l, t.text)
  BY <1>1, InstructionObsType
<1>7. IsFiniteSet(tools) /\ tools \subseteq ObsType
  BY <1>1, <1>5, ToolObsType
<1>8. ASSUME NEW o \in texts
      PROVE  Grounded(o) /\ o.present
  <2>1. PICK l \in Resolved :
          /\ version[l] # 0
          /\ o = Obs(TextKey(l, version[l]), Carries(l, t.text), Observed, TRUE, 0)
          /\ Carries(l, t.text)
    BY <1>6
  <2>2. /\ o.key = TextKey(l, version[l]) /\ o.present /\ o.level = Observed
        /\ o.session = session /\ o.request = 0
    BY <2>1 DEF Obs, Carries
  <2>3. ~IsTool(o.key) /\ o.key.name = l /\ o.key.digest = version[l]
    BY <2>2, Keys
  <2>4. OfFile(o)
    BY <1>1, <1>2, <2>1, <2>2, <2>3 DEF OfFile, ResolvedInv
  <2>5. Dated(o)
    BY <2>2 DEF Dated
  <2>6. WroteDown(session, o.key)
    BY <2>1, <2>3 DEF WroteDown, Carries
  <2>7. Seen(o) /\ Missed(o)
    BY <2>2, <2>6 DEF Seen, Missed, Observed, Verified
  <2> QED
    BY <2>2, <2>4, <2>5, <2>7 DEF Grounded
<1>9. ASSUME NEW o \in tools
      PROVE  Grounded(o) /\ o.present
  <2>1. PICK n \in t.tools : o = Obs(ToolKey(n), TRUE, Observed, t.catalog, 0)
    OBVIOUS
  <2>2. /\ o.key = ToolKey(n) /\ o.present /\ o.level = Observed
        /\ o.session = session /\ o.request = 0
    BY <2>1 DEF Obs
  <2>3. IsTool(o.key) /\ o.key.name = n
    BY <2>2, Keys
  <2>4. OfFile(o)
    BY <2>3 DEF OfFile
  <2>5. Dated(o)
    BY <2>2 DEF Dated
  <2>6. WroteDown(session, o.key)
    BY <2>1, <2>3 DEF WroteDown, Carries
  <2>7. Seen(o) /\ Missed(o)
    BY <2>2, <2>6 DEF Seen, Missed, Observed, Verified
  <2> QED
    BY <2>2, <2>4, <2>5, <2>7 DEF Grounded
<1>10. IsFiniteSet(S) /\ S \subseteq ObsType
  BY <1>6, <1>7, FS_Union
<1>11. \A o \in S : Grounded(o) /\ o.present
  BY <1>8, <1>9
<1> HIDE DEF S
<1>12. \A o \in S : Grounded(o)'
  BY <1>4, <1>10, <1>11
<1>13. \A o, p \in S : Consistent(o, p)
  BY <1>11 DEF Consistent
<1>14. ObsInv'
  <2>1. \A o \in S : \A i \in 1 .. Len(obs) : Consistent(obs[i], o) /\ Consistent(o, obs[i])
    BY <1>3
  <2> QED
    BY <1>0, <1>1, <1>2, <1>4, <1>10, <1>12, <1>13, <2>1, ObsAppended
<1>15. PassInv'
  BY <1>1, <1>2 DEF PassInv, worldVars
<1> QED
  BY <1>4, <1>14, <1>15 DEF IInv

LEMMA ReadCatalogKeepsInv ==
  ASSUME IInv, ReadCatalog
  PROVE  IInv'
<1> DEFINE T == {m \in MissingTools(session) : ToolKey(m) \in expected}
           S == {Obs(ToolKey(n), FALSE, Observed, TRUE, 0) : n \in T}
<1>1. WorldInv /\ PassInv /\ ResolvedInv /\ ObsInv
  BY DEF IInv
<1>0. obs' = obs \o SetToSeq(S)
  BY DEF ReadCatalog
<1>2. /\ step = "transcript seen" /\ step' = "absence seen"
      /\ UNCHANGED <<session, cache, expected, caps, next, facts, worldVars>>
  BY DEF ReadCatalog
<1>3. next \in Nat /\ next' = next /\ next <= next' /\ session \in Sessions
  <2>1. next \in Nat /\ session \in Sessions
    BY <1>1 DEF PassInv
  <2>2. next' = next
    BY <1>2
  <2> QED
    BY <2>1, <2>2
<1>4. WorldInv' /\ ResolvedInv' /\ \A o \in ObsType : Grounded(o) => Grounded(o)'
  BY <1>2, <1>3, PassGoesOn
<1>5. /\ T \in SUBSET Tools
      /\ \A n \in T : /\ n \notin transcript[session].tools /\ transcript[session].catalog
                      /\ ToolKey(n) \in expected
  BY DEF MissingTools
<1>6. IsFiniteSet(S) /\ S \subseteq ObsType
  BY <1>1, <1>5, ToolObsType
<1>7. ASSUME NEW o \in S
      PROVE  /\ Grounded(o) /\ ~o.present
             /\ \A i \in 1 .. Len(obs) : Consistent(obs[i], o)
  <2>1. PICK n \in T : o = Obs(ToolKey(n), FALSE, Observed, TRUE, 0)
    OBVIOUS
  <2>2. /\ o.key = ToolKey(n) /\ ~o.present /\ o.level = Observed
        /\ o.session = session /\ o.request = 0
    BY <2>1 DEF Obs
  <2>3. IsTool(o.key) /\ o.key.name = n
    BY <2>2, Keys
  <2>4. OfFile(o)
    BY <2>3 DEF OfFile
  <2>5. Dated(o)
    BY <2>2 DEF Dated
  <2>6. Seen(o) /\ Missed(o)
    BY <1>5, <2>1, <2>2, <2>3 DEF Seen, Missed
  <2>7. ASSUME NEW i \in 1 .. Len(obs), obs[i].key = o.key, obs[i].present
        PROVE  obs[i].level = Verified
    <3>1. Seen(obs[i])
      BY <1>1 DEF ObsInv, Grounded
    <3>2. ~WroteDown(session, obs[i].key)
      BY <1>5, <2>3, <2>7 DEF WroteDown
    <3> QED
      BY <2>7, <3>1, <3>2 DEF Seen
  <2> QED
    BY <2>2, <2>3, <2>4, <2>5, <2>6, <2>7 DEF Grounded, Consistent
<1> HIDE DEF S
<1>8. \A o \in S : Grounded(o)'
  BY <1>4, <1>6, <1>7
<1>9. \A o, p \in S : Consistent(o, p)
  BY <1>7 DEF Consistent
<1>10. \A o \in S : \A i \in 1 .. Len(obs) : Consistent(obs[i], o) /\ Consistent(o, obs[i])
  BY <1>7 DEF Consistent
<1>11. ObsInv'
  BY <1>0, <1>1, <1>2, <1>4, <1>6, <1>8, <1>9, <1>10, ObsAppended
<1>12. PassInv'
  BY <1>1, <1>2 DEF PassInv, worldVars
<1> QED
  BY <1>4, <1>11, <1>12 DEF IInv

(* The observations of one capture, which is in the snapshot. *)
LEMMA CaptureObsGrounded ==
  ASSUME IInv, NEW c \in CaptureType, OfRuntime(c), NEW n \in Nat, n # 0,
         NEW i \in 1 .. Len(traffic), traffic[i] = c, step # "loaded"
  PROVE  LET S == CaptureObs(c, n) IN
         /\ IsFiniteSet(S) /\ S \subseteq ObsType
         /\ \A o \in S : o.session = session /\ o.request = n /\ o.level = Verified
         /\ \A o \in S : Seen(o) /\ Missed(o) /\ OfFile(o)
         /\ \A o, p \in S : Consistent(o, p)
<1> DEFINE texts == InstructionObs(c.text, Verified, TRUE, n)
           tools == {Obs(ToolKey(t), TRUE, Verified, TRUE, n) : t \in c.tools}
           S     == CaptureObs(c, n)
<1>1. WorldInv /\ PassInv /\ ResolvedInv
  BY DEF IInv
<1>2. traffic[i] = c /\ traffic[i].host = RuntimeOf[session]
  BY DEF OfRuntime
<1>3. /\ IsFiniteSet(texts) /\ texts \subseteq ObsType
      /\ \A o \in texts : \E l \in Resolved :
           /\ version[l] # 0
           /\ o = Obs(TextKey(l, version[l]), Carries(l, c.text), Verified, TRUE, n)
  BY <1>1, CaptureTexts
<1>4. c.tools \in SUBSET Tools
  BY DEF CaptureType
<1>5. IsFiniteSet(tools) /\ tools \subseteq ObsType
  BY <1>1, <1>4, ToolObsType
<1>6. ASSUME NEW o \in texts
      PROVE  /\ o.session = session /\ o.request = n /\ o.level = Verified
             /\ ~IsTool(o.key) /\ (o.present <=> <<o.key.name, o.key.digest>> \in c.text)
             /\ Seen(o) /\ Missed(o) /\ OfFile(o)
  <2>1. PICK l \in Resolved :
          /\ version[l] # 0
          /\ o = Obs(TextKey(l, version[l]), Carries(l, c.text), Verified, TRUE, n)
    BY <1>3
  <2>2. /\ o.key = TextKey(l, version[l]) /\ (o.present <=> Carries(l, c.text))
        /\ o.level = Verified /\ o.session = session /\ o.request = n
    BY <2>1 DEF Obs
  <2>3. ~IsTool(o.key) /\ o.key.name = l /\ o.key.digest = version[l]
    <3>1. /\ ~IsTool(TextKey(l, version[l])) /\ TextKey(l, version[l]).name = l
          /\ TextKey(l, version[l]).digest = version[l]
      BY Keys
    <3> QED
      BY <2>2, <3>1
  <2>4. o.present <=> <<o.key.name, o.key.digest>> \in c.text
    BY <2>2, <2>3 DEF Carries
  <2>5. Sent(i, o.key) <=> o.present
    BY <1>2, <2>3, <2>4 DEF Sent
  <2>6. Seen(o)
    BY <1>2, <2>2, <2>5 DEF Seen
  <2>7. Missed(o)
    BY <1>2, <2>2, <2>3, <2>5 DEF Missed
  <2>8. OfFile(o)
    BY <1>1, <2>1, <2>2, <2>3 DEF OfFile, ResolvedInv
  <2> QED
    BY <2>2, <2>3, <2>4, <2>6, <2>7, <2>8
<1>7. ASSUME NEW o \in tools
      PROVE  /\ o.session = session /\ o.request = n /\ o.level = Verified
             /\ IsTool(o.key) /\ o.present
             /\ Seen(o) /\ Missed(o) /\ OfFile(o)
  <2>1. PICK t \in c.tools : o = Obs(ToolKey(t), TRUE, Verified, TRUE, n)
    OBVIOUS
  <2>2. /\ o.key = ToolKey(t) /\ o.present
        /\ o.level = Verified /\ o.session = session /\ o.request = n
    BY <2>1 DEF Obs
  <2>3. IsTool(o.key) /\ o.key.name = t
    <3>1. IsTool(ToolKey(t)) /\ ToolKey(t).name = t
      BY Keys
    <3> QED
      BY <2>2, <3>1
  <2>4. Sent(i, o.key)
    BY <1>2, <2>3 DEF Sent
  <2>5. Seen(o)
    BY <1>2, <2>2, <2>4 DEF Seen
  <2>6. Missed(o) /\ OfFile(o)
    BY <2>2, <2>3 DEF Missed, OfFile
  <2> QED
    BY <2>2, <2>3, <2>5, <2>6
<1>8. \A o \in S : o \in texts \/ o \in tools
  BY DEF CaptureObs
<1>9. IsFiniteSet(S) /\ S \subseteq ObsType
  <2>1. IsFiniteSet(texts \union tools)
    BY <1>3, <1>5, FS_Union
  <2>2. S \subseteq texts \union tools
    BY <1>8
  <2>3. IsFiniteSet(S)
    BY <2>1, <2>2, FS_Subset
  <2> QED
    BY <1>3, <1>5, <2>2, <2>3
<1> HIDE DEF S, texts, tools
<1>10. \A o, p \in S : Consistent(o, p)
  BY <1>6, <1>7, <1>8 DEF Consistent
<1>11. /\ \A o \in S : o.session = session /\ o.request = n /\ o.level = Verified
       /\ \A o \in S : Seen(o) /\ Missed(o) /\ OfFile(o)
  BY <1>6, <1>7, <1>8
<1> QED
  BY <1>9, <1>10, <1>11 DEF S

LEMMA ReadCaptureKeepsInv ==
  ASSUME IInv, ReadCapture
  PROVE  IInv'
<1> DEFINE S == CaptureObs(caps[next], next)
<1>1. WorldInv /\ PassInv /\ ResolvedInv /\ ObsInv
  BY DEF IInv
<1>2. /\ step = "reading wire" /\ step' = step /\ next' = next + 1
      /\ UNCHANGED <<session, cache, expected, caps, facts, worldVars>>
  BY DEF ReadCapture
<1>3. next \in Nat /\ next > 0 /\ next \in 1 .. Len(caps)
  <2>1. next \in Nat /\ next > 0 /\ caps \in Seq(CaptureType)
    BY <1>1, <1>2 DEF PassInv
  <2>2. Len(caps) \in Nat
    BY <2>1
  <2>3. next <= Len(caps)
    BY DEF ReadCapture
  <2> QED
    BY <2>1, <2>2, <2>3
<1>4. next' \in Nat /\ next <= next' /\ next < next' /\ next' > 0
  <2>1. next' = next + 1
    BY <1>2
  <2> QED
    BY <1>3, <2>1
<1>5. WorldInv' /\ ResolvedInv' /\ \A o \in ObsType : Grounded(o) => Grounded(o)'
  BY <1>2, <1>4, PassGoesOn
<1>6. PassInv'
  BY <1>1, <1>2, <1>4 DEF PassInv, worldVars
<1>7. CASE ~OfRuntime(caps[next])
  <2>1. obs' = obs
    BY <1>7 DEF ReadCapture
  <2> QED
    BY <1>2, <1>4, <1>5, <1>6, <2>1, PassGoesOn DEF IInv
<1>8. CASE OfRuntime(caps[next])
  <2>1. obs' = obs \o SetToSeq(S)
    BY <1>8 DEF ReadCapture
  <2>2. /\ IsFiniteSet(S) /\ S \subseteq ObsType
        /\ \A o \in S : o.session = session /\ o.request = next /\ o.level = Verified
        /\ \A o \in S : Seen(o) /\ Missed(o) /\ OfFile(o)
        /\ \A o, p \in S : Consistent(o, p)
    <3>1. caps[next] \in CaptureType
      BY <1>1, <1>3, ElementOf DEF PassInv
    <3>2. PICK i \in 1 .. Len(traffic) : traffic[i] = caps[next]
      BY <1>1, <1>3 DEF PassInv
    <3>3. next # 0
      BY <1>3
    <3> QED
      BY <1>2, <1>3, <1>8, <3>1, <3>2, <3>3, CaptureObsGrounded
  <2> HIDE DEF S
  <2>3. ASSUME NEW o \in S
        PROVE  Grounded(o)'
    <3>1. Seen(o) /\ Missed(o) /\ OfFile(o) /\ o \in ObsType
      BY <2>2
    <3>2. Dated(o)'
      <4>1. /\ o.session = session' /\ o.request = next /\ next < next' /\ next # 0
            /\ o.level = Verified
        <5>1. o.session = session /\ o.request = next /\ o.level = Verified
          BY <2>2
        <5> QED
          <6>1. session' = session
            BY <1>2
          <6>2. next # 0 /\ next < next'
            BY <1>3, <1>4
          <6> QED
            BY <5>1, <6>1, <6>2
      <4> QED
        BY <4>1 DEF Dated
    <3>3. Seen(o)'
      BY <1>2, <3>1 DEF Seen, Sent, WroteDown, worldVars
    <3>4. Missed(o)'
      BY <1>2, <3>1 DEF Missed, Sent, worldVars
    <3>5. OfFile(o)'
      BY <1>2, <3>1 DEF OfFile, worldVars
    <3> QED
      BY <3>2, <3>3, <3>4, <3>5 DEF Grounded
  <2>4. ASSUME NEW o \in S, NEW i \in 1 .. Len(obs)
        PROVE  Consistent(obs[i], o) /\ Consistent(o, obs[i])
    <3>1. Grounded(obs[i]) /\ obs[i] \in ObsType
      BY <1>1 DEF ObsInv
    <3>2. obs[i].request # o.request
      <4>1. obs[i].request \in Nat
        BY <3>1 DEF ObsType
      <4> QED
        BY <1>3, <2>2, <3>1, <4>1 DEF Grounded, Dated
    <3>3. o.level = Verified /\ Missed(o)
      BY <2>2
    <3>4. IsTool(o.key) => o.present
      BY <2>2, <3>3 DEF Missed, Observed, Verified, ObsType
    <3> QED
      BY <3>2, <3>3, <3>4 DEF Consistent
  <2>5. ObsInv'
    BY <1>1, <1>5, <2>1, <2>2, <2>3, <2>4, ObsAppended
  <2> QED
    BY <1>5, <1>6, <2>5 DEF IInv
<1> QED
  BY <1>7, <1>8

(* The snapshot holds captures that were recorded. *)
LEMMA RingIsLatest ==
  ASSUME NEW S, traffic \in Seq(S)
  PROVE  /\ Ring \in Seq(S)
         /\ \A j \in 1 .. Len(Ring) : \E i \in 1 .. Len(traffic) : traffic[i] = Ring[j]
<1>1. Len(traffic) \in Nat /\ RingMax \in Nat \ {0}
  BY EvidenceAssumption
<1>2. CASE Len(traffic) > RingMax
  <2> DEFINE m == Len(traffic) - RingMax + 1
             n == Len(traffic)
  <2>1. m \in 1 .. n /\ n \in Nat /\ m \in Nat
    BY <1>1, <1>2
  <2>2. Ring = SubSeq(traffic, m, n)
    BY <1>2 DEF Ring
  <2> HIDE DEF m, n
  <2>3. /\ SubSeq(traffic, m, n) \in Seq(S)
        /\ Len(SubSeq(traffic, m, n)) = n - m + 1
        /\ \A j \in 1 .. n - m + 1 : SubSeq(traffic, m, n)[j] = traffic[m + j - 1]
    BY <2>1 DEF n
  <2>4. \A j \in 1 .. n - m + 1 : m + j - 1 \in 1 .. n
    BY <2>1
  <2> QED
    BY <2>2, <2>3, <2>4 DEF n
<1>3. CASE ~(Len(traffic) > RingMax)
  BY <1>3 DEF Ring
<1> QED
  BY <1>2, <1>3

(* Steps that add no observation. *)
LEMMA QuietStepKeepsInv ==
  ASSUME IInv, SkipTranscript \/ ReadFails \/ SnapCaptures \/ MergeFacts
  PROVE  IInv'
<1>1. WorldInv /\ PassInv
  BY DEF IInv
<1>2. /\ UNCHANGED <<session, cache, expected, worldVars>> /\ obs' = obs
      /\ step # "loaded"
  BY DEF SkipTranscript, ReadFails, SnapCaptures, MergeFacts
<1>3. next \in Nat
  BY <1>1 DEF PassInv
<1>4. PassInv' /\ next' \in Nat /\ next <= next'
  <2>1. CASE SkipTranscript \/ ReadFails
    <3>1. PassInv'
      BY <1>1, <2>1 DEF PassInv, SkipTranscript, ReadFails, worldVars
    <3>2. next' = next
      BY <2>1 DEF SkipTranscript, ReadFails
    <3> QED
      BY <1>3, <3>1, <3>2
  <2>2. CASE SnapCaptures
    <3>1. /\ step = "absence seen" /\ step' = "reading wire" /\ caps' = Ring /\ next' = 1
          /\ UNCHANGED <<session, obs, facts, traffic>>
      BY <2>2 DEF SnapCaptures, worldVars
    <3>2. next = 0
      BY <1>1, <3>1 DEF PassInv
    <3>3. /\ Ring \in Seq(CaptureType)
          /\ \A j \in 1 .. Len(Ring) : \E i \in 1 .. Len(traffic) : traffic[i] = Ring[j]
      BY <1>1, RingIsLatest DEF WorldInv
    <3>4. next' \in Nat /\ next <= next' /\ next' > 0
      <4>1. next' = 1
        BY <3>1
      <4> QED
        BY <3>2, <4>1
    <3> QED
      BY <1>1, <3>1, <3>3, <3>4 DEF PassInv
  <2>3. CASE MergeFacts
    <3>1. /\ step' = "merged" /\ facts' = Merge(expected, obs)
          /\ UNCHANGED <<session, expected, obs, caps, next, traffic>>
      BY <2>3 DEF MergeFacts, worldVars
    <3>2. PassInv'
      BY <1>1, <3>1 DEF PassInv
    <3> QED
      BY <1>3, <3>1, <3>2
  <2> QED
    BY <2>1, <2>2, <2>3
<1>5. WorldInv' /\ ResolvedInv' /\ ObsInv'
  BY <1>2, <1>4, PassGoesOn
<1> QED
  BY <1>4, <1>5 DEF IInv

LEMMA Initially ==
  Init => IInv
<1> SUFFICES ASSUME Init PROVE IInv
  OBVIOUS
<1>1. /\ version \in [Layers -> {0, 1}]
      /\ transcript = [s \in Sessions |-> [text |-> {}, tools |-> {}, catalog |-> FALSE]]
      /\ traffic = << >> /\ step = "idle" /\ session \in Sessions
      /\ cache = [d \in Cwds |-> Unresolved] /\ obs = << >> /\ facts = << >> /\ caps = << >> /\ next = 0
  BY DEF Init
<1>2. WorldInv
  <2>1. version \in [Layers -> 0 .. MaxVersion]
    BY <1>1, EvidenceAssumption
  <2>2. transcript \in [Sessions -> TranscriptType]
    BY <1>1 DEF TranscriptType
  <2> QED
    BY <1>1, <2>1, <2>2 DEF WorldInv
<1>3. PassInv
  BY <1>1 DEF PassInv
<1>4. ResolvedInv
  <2>1. Resolved = {}
    BY <1>1, EvidenceAssumption DEF Resolved, Unresolved
  <2> QED
    BY <1>1, <2>1 DEF ResolvedInv, ResolutionType, Unresolved
<1>5. ObsInv
  BY <1>1 DEF ObsInv
<1> QED
  BY <1>2, <1>3, <1>4, <1>5 DEF IInv

LEMMA Inductive ==
  IInv /\ [Next]_vars => IInv'
<1> SUFFICES ASSUME IInv, [Next]_vars PROVE IInv'
  OBVIOUS
<1>1. CASE World
  BY <1>1, WorldKeepsInv
<1>0. ASSUME NEW s \in Sessions, Load(s) PROVE IInv'
  BY <1>0, LoadKeepsInv
<1>2. CASE Expect
  BY <1>2, ExpectKeepsInv
<1>3. CASE SkipTranscript \/ ReadFails \/ SnapCaptures \/ MergeFacts
  BY <1>3, QuietStepKeepsInv
<1>4. CASE ReadTranscript
  BY <1>4, ReadTranscriptKeepsInv
<1>5. CASE ReadCatalog
  BY <1>5, ReadCatalogKeepsInv
<1>6. CASE ReadCapture
  BY <1>6, ReadCaptureKeepsInv
<1>7. CASE UNCHANGED vars
  <2>1. UNCHANGED <<step, session, cache, expected, obs, worldVars>>
    BY <1>7 DEF vars, passVars
  <2>2. next \in Nat /\ next' = next
    BY <1>7 DEF vars, passVars, IInv, PassInv
  <2>3. next' \in Nat /\ next <= next'
    BY <2>2
  <2>4. WorldInv' /\ Grows
    BY <2>1, WorldStays DEF IInv
  <2>5. ResolvedInv'
    BY <2>1, <2>4, ResolvedStays DEF IInv
  <2>6. PassInv'
    BY <1>7 DEF vars, passVars, worldVars, IInv, PassInv
  <2>7. \A o \in ObsType : Grounded(o) => Grounded(o)'
    BY <2>1, <2>3, <2>4, GroundedStays DEF IInv
  <2>8. ObsInv'
    BY <2>1, <2>7, ObsStays DEF IInv
  <2> QED
    BY <2>4, <2>5, <2>6, <2>8 DEF IInv
<1> QED
  BY <1>0, <1>1, <1>2, <1>3, <1>4, <1>5, <1>6, <1>7 DEF Next, BuildView

LEMMA InvHolds ==
  Spec => []IInv
  BY Initially, Inductive, PTL DEF Spec

(***************************************************************************)
(* The theorems                                                            *)
(***************************************************************************)

(* What the observations of a fact are, once it has a verdict. *)
LEMMA VerdictOf ==
  ASSUME IInv, NEW k \in DOMAIN facts
  PROVE  /\ facts = Merge(expected, obs) /\ k \in DOMAIN Merge(expected, obs)
         /\ \A i \in About(obs, k) : /\ obs[i].key = k /\ obs[i] \in ObsType
                                     /\ Grounded(obs[i])
         /\ \A i, j \in About(obs, k) : Consistent(obs[i], obs[j])
<1>1. PassInv /\ ObsInv
  BY DEF IInv
<1>2. facts = Merge(expected, obs)
  <2>1. CASE step = "merged"
    BY <1>1, <2>1 DEF PassInv
  <2>2. CASE step # "merged"
    <3>1. facts = << >>
      BY <1>1, <2>2 DEF PassInv
    <3> QED
      BY <3>1
  <2> QED
    BY <2>1, <2>2
<1>3. \A i \in About(obs, k) : i \in 1 .. Len(obs) /\ obs[i].key = k
  BY DEF About
<1>4. \A i \in 1 .. Len(obs) : obs[i] \in ObsType
  BY <1>1, ElementOf DEF ObsInv
<1> QED
  BY <1>1, <1>2, <1>3, <1>4 DEF ObsInv

LEMMA Green ==
  ASSUME IInv, NEW k \in DOMAIN facts
  PROVE  GreenIsWitnessed(k)
<1> DEFINE I == About(obs, k)
<1>1. /\ facts = Merge(expected, obs) /\ k \in DOMAIN Merge(expected, obs)
      /\ \A i \in I : obs[i].key = k /\ Seen(obs[i])
  BY VerdictOf DEF Grounded
<1> HIDE DEF I
<1>2. ASSUME facts[k].status = "expected_verified"
      PROVE  \E i \in DOMAIN traffic : traffic[i].host = RuntimeOf[session] /\ Sent(i, k)
  <2>1. PICK i \in PresentIn(obs, I) : obs[i].level = Verified
    BY <1>1, <1>2, MergeMeans DEF I
  <2>2. \E j \in 1 .. Len(traffic) : traffic[j].host = RuntimeOf[session] /\ Sent(j, k)
    BY <1>1, <2>1 DEF PresentIn, Seen
  <2>3. DOMAIN traffic = 1 .. Len(traffic)
    BY DEF IInv, WorldInv
  <2> QED
    BY <2>2, <2>3
<1>3. ASSUME facts[k].status = "expected_observed"
      PROVE  WroteDown(session, k)
  <2>1. PICK i \in PresentIn(obs, I) : obs[i].level # Verified
    BY <1>1, <1>3, MergeMeans DEF I
  <2> QED
    BY <1>1, <2>1 DEF PresentIn, Seen
<1> QED
  BY <1>2, <1>3 DEF GreenIsWitnessed

LEMMA Drift ==
  ASSUME IInv, NEW k \in DOMAIN facts
  PROVE  DriftNeedsCatalog(k)
<1> DEFINE I == About(obs, k)
<1>1. /\ facts = Merge(expected, obs) /\ k \in DOMAIN Merge(expected, obs)
      /\ \A i \in I : obs[i].key = k /\ Missed(obs[i])
  BY VerdictOf DEF Grounded
<1> HIDE DEF I
<1>2. ASSUME IsTool(k), facts[k].status \in {"missing_expected", "conflict"}
      PROVE  transcript[session].catalog
  <2>1. PICK i \in I : ~obs[i].present
    <3>1. CASE facts[k].status = "missing_expected"
      BY <1>1, <3>1, MergeMeans DEF I, ProvedAbsent
    <3>2. CASE facts[k].status = "conflict"
      <4>1. Conflict(obs, I)
        BY <1>1, <3>2, MergeMeans DEF I
      <4>2. \A i \in I : obs[i].present \in BOOLEAN
        BY VerdictOf DEF I, ObsType
      <4> QED
        BY <4>1, <4>2 DEF Conflict
    <3> QED
      BY <1>2, <3>1, <3>2
  <2> QED
    BY <1>1, <1>2, <2>1 DEF Missed
<1> QED
  BY <1>2 DEF DriftNeedsCatalog

LEMMA Edited ==
  ASSUME IInv, NEW k \in DOMAIN facts
  PROVE  UnexpectedWasEdited(k)
<1> DEFINE I == About(obs, k)
<1>1. /\ facts = Merge(expected, obs) /\ k \in DOMAIN Merge(expected, obs)
      /\ \A i \in I : obs[i].key = k /\ OfFile(obs[i])
  BY VerdictOf DEF Grounded
<1> HIDE DEF I
<1>2. ASSUME facts[k].status = "unexpected", ~IsTool(k)
      PROVE  k.name \in edited
  <2>1. k \notin expected /\ \E i \in PresentIn(obs, I) : obs[i].level # Verified
    BY <1>1, <1>2, MergeMeans DEF I
  <2>2. PICK i \in I : obs[i].key = k /\ OfFile(obs[i])
    BY <1>1, <2>1 DEF PresentIn
  <2> QED
    BY <1>2, <2>1, <2>2 DEF OfFile
<1> QED
  BY <1>2 DEF UnexpectedWasEdited

LEMMA Disagreement ==
  ASSUME IInv, NEW k \in DOMAIN facts
  PROVE  ConflictIsReal(k)
<1> DEFINE I == About(obs, k)
<1>1. /\ facts = Merge(expected, obs) /\ k \in DOMAIN Merge(expected, obs)
      /\ \A i \in I : obs[i].key = k /\ Grounded(obs[i])
      /\ \A i, j \in I : Consistent(obs[i], obs[j])
  BY VerdictOf
<1> HIDE DEF I
<1>2. SUFFICES ASSUME facts[k].status = "conflict"
      PROVE  /\ facts[k].level = Verified
             /\ \E i \in DOMAIN traffic :
                  /\ RuntimeOf[traffic[i].session] = RuntimeOf[session]
                  /\ Sent(i, k) <=> IsTool(k)
             /\ IF IsTool(k) THEN k \in expected ELSE WroteDown(session, k)
  BY DEF ConflictIsReal
<1>3. Conflict(obs, I) /\ facts[k].level = LevelOf(obs, I)
  BY <1>1, <1>2, MergeMeans DEF I
<1>4. PICK i \in I, j \in I : /\ Comparable(obs[i], obs[j])
                              /\ obs[i].present /\ ~obs[j].present
  <2>1. PICK a \in I, b \in I : Comparable(obs[a], obs[b]) /\ obs[a].present # obs[b].present
    BY <1>3 DEF Conflict
  <2>2. Comparable(obs[b], obs[a])
    BY <2>1 DEF Comparable
  <2>3. obs[a].present \in BOOLEAN /\ obs[b].present \in BOOLEAN
    BY VerdictOf DEF I, ObsType
  <2> QED
    BY <2>1, <2>2, <2>3
<1>5. /\ obs[i].key = k /\ Seen(obs[i]) /\ Dated(obs[i])
      /\ obs[j].key = k /\ Missed(obs[j]) /\ Dated(obs[j])
      /\ Consistent(obs[i], obs[j])
  BY <1>1 DEF Grounded
<1>6. \A n \in 1 .. Len(traffic) :
        traffic[n].host = RuntimeOf[session] => RuntimeOf[traffic[n].session] = RuntimeOf[session]
  <2>1. ASSUME NEW n \in 1 .. Len(traffic), traffic[n].host = RuntimeOf[session]
        PROVE  RuntimeOf[traffic[n].session] = RuntimeOf[session]
    <3>1. traffic[n].session \in Sessions /\ session \in Sessions
      <4>1. traffic \in Seq(CaptureType) /\ session \in Sessions
        BY DEF IInv, WorldInv, PassInv
      <4>2. traffic[n] \in CaptureType
        BY <4>1, ElementOf
      <4> QED
        BY <4>1, <4>2 DEF CaptureType
    <3>2. traffic[n].host = HostRuntime(traffic[n].session)
      BY DEF IInv, WorldInv
    <3> QED
      BY <2>1, <3>1, <3>2, HostType
  <2> QED
    BY <2>1
<1>7. DOMAIN traffic = 1 .. Len(traffic)
  BY DEF IInv, WorldInv
<1>8. CASE IsTool(k)
  <2>1. obs[i].level = Verified /\ k \in expected
    BY <1>4, <1>5, <1>8 DEF Consistent, Missed
  <2>2. \E n \in 1 .. Len(traffic) : traffic[n].host = RuntimeOf[session] /\ Sent(n, k)
    BY <1>4, <1>5, <2>1 DEF Seen
  <2>3. facts[k].level = Verified
    BY <1>3, <2>1 DEF LevelOf
  <2> QED
    BY <1>6, <1>7, <1>8, <2>1, <2>2, <2>3
<1>9. CASE ~IsTool(k)
  <2>1. /\ obs[j].level = Verified
        /\ \E n \in 1 .. Len(traffic) : traffic[n].host = RuntimeOf[session] /\ ~Sent(n, k)
    BY <1>4, <1>5, <1>9 DEF Missed
  <2>2. facts[k].level = Verified
    BY <1>3, <2>1 DEF LevelOf
  <2>3. obs[i].request # obs[j].request
    BY <1>4, <1>5, <1>9 DEF Consistent
  <2>4. obs[j].request # 0
    BY <1>5, <2>1 DEF Dated, Observed, Verified
  <2>5. obs[i].request = 0
    BY <1>4, <2>3, <2>4 DEF Comparable
  <2>6. WroteDown(session, k)
    BY <1>4, <1>5, <2>5 DEF Dated, Seen, Observed, Verified
  <2> QED
    BY <1>6, <1>7, <1>9, <2>1, <2>2, <2>6
<1> QED
  BY <1>8, <1>9

(* Every verdict of buildView rests on evidence that supports it: green on a
   request or a transcript that carries the fact, a conflict on two that really
   disagree, drift of a tool on a complete catalog, unexpected text on an edit
   of its file; for any numbers of sessions, files, tools, captures and edits. *)
THEOREM VerdictsGrounded ==
  Spec => []VerdictsAreGrounded
<1>1. IInv => VerdictsAreGrounded
  BY Green, Disagreement, Drift, Edited DEF VerdictsAreGrounded
<1> QED
  BY <1>1, InvHolds, PTL

(* Reversing a list permutes the observations of a fact. *)
LEMMA ReversedObservations ==
  ASSUME NEW S, NEW l \in Seq(S), NEW k
  PROVE  /\ Places(About(l, k)) /\ Places(About(Reverse(l), k))
         /\ \A i \in About(l, k) : \E j \in About(Reverse(l), k) : Reverse(l)[j] = l[i]
         /\ \A j \in About(Reverse(l), k) : \E i \in About(l, k) : l[i] = Reverse(l)[j]
<1> DEFINE n == Len(l)
           r == Reverse(l)
<1>1. n \in Nat
  OBVIOUS
<1>2. r = [i \in 1 .. n |-> l[(n - i) + 1]]
  BY DEF Reverse
<1>3. r \in Seq(S) /\ Len(r) = n
  <2>1. \A i \in 1 .. n : (n - i) + 1 \in 1 .. n
    BY <1>1
  <2>2. \A i \in 1 .. n : l[(n - i) + 1] \in S
    BY <2>1, ElementOf
  <2> QED
    BY <1>1, <1>2, <2>2
<1>4. \A i \in 1 .. n : (n - i) + 1 \in 1 .. n /\ r[i] = l[(n - i) + 1]
  BY <1>1, <1>2
<1> HIDE DEF n, r
<1>5. About(l, k) = {i \in 1 .. n : l[i].key = k} /\ About(r, k) = {i \in 1 .. n : r[i].key = k}
  BY <1>3 DEF About, n
<1>6. ASSUME NEW i \in About(l, k)
      PROVE  \E j \in About(r, k) : r[j] = l[i]
  <2>1. i \in 1 .. n /\ l[i].key = k
    BY <1>5
  <2>2. (n - i) + 1 \in 1 .. n /\ (n - ((n - i) + 1)) + 1 = i
    BY <1>1, <2>1
  <2>3. r[(n - i) + 1] = l[i]
    BY <1>4, <2>2
  <2> QED
    BY <1>5, <2>1, <2>2, <2>3
<1>7. ASSUME NEW j \in About(r, k)
      PROVE  \E i \in About(l, k) : l[i] = r[j]
  <2>1. j \in 1 .. n /\ r[j].key = k
    BY <1>5
  <2> QED
    BY <1>4, <1>5, <2>1
<1>8. Places(About(l, k)) /\ Places(About(r, k))
  BY <1>1, <1>5 DEF Places
<1> QED
  BY <1>6, <1>7, <1>8 DEF r

(* A verdict does not depend on the order in which the sources were asked: the
   level of a missing fact, which classify takes from the first proof of absence,
   is the same in all of them. *)
THEOREM VerdictsNeedNoOrder ==
  Spec => []VerdictIgnoresOrder
<1>1. IInv => VerdictIgnoresOrder
  <2>1. ASSUME IInv, NEW k \in DOMAIN facts
        PROVE  /\ Classify(k \in expected, Reverse(obs), About(Reverse(obs), k)).status = facts[k].status
               /\ Classify(k \in expected, Reverse(obs), About(Reverse(obs), k)).level = facts[k].level
    <3> DEFINE I == About(obs, k)
               J == About(Reverse(obs), k)
    <3>1. /\ facts = Merge(expected, obs) /\ k \in DOMAIN Merge(expected, obs)
          /\ \A i \in I : obs[i].key = k /\ Missed(obs[i])
      BY <2>1, VerdictOf DEF Grounded
    <3>2. /\ Places(I) /\ Places(J)
          /\ \A i \in I : \E j \in J : Reverse(obs)[j] = obs[i]
          /\ \A j \in J : \E i \in I : obs[i] = Reverse(obs)[j]
      BY <2>1, ReversedObservations DEF IInv, ObsInv
    <3>3. \A i, j \in ProvedAbsent(obs, I) : obs[i].level = obs[j].level
      BY <3>1 DEF ProvedAbsent, Missed
    <3> HIDE DEF I, J
    <3>4. Classify(k \in expected, Reverse(obs), J) = Classify(k \in expected, obs, I)
      <4> DEFINE r == Reverse(obs)
                 e == k \in expected
      <4>1. /\ \A i \in I : \E j \in J : r[j] = obs[i]
            /\ \A j \in J : \E i \in I : obs[i] = r[j]
        BY <3>2
      <4> HIDE DEF r, e
      <4>2. Classify(e, r, J) = Classify(e, obs, I)
        BY <3>2, <3>3, <4>1, OrderIsIrrelevant
      <4> QED
        BY <4>2 DEF r, e
    <3>5. /\ facts[k].status = Classify(k \in expected, obs, I).status
          /\ facts[k].level = Classify(k \in expected, obs, I).level
      BY <3>1, MergeClassifies DEF I
    <3> QED
      BY <3>4, <3>5 DEF J
  <2> QED
    BY <2>1 DEF VerdictIgnoresOrder
<1> QED
  BY <1>1, InvHolds, PTL

(* Two lists with the same elements: each of the one is in the other. *)
LEMMA SameElements ==
  ASSUME NEW S, NEW l \in Seq(S), NEW r \in Seq(S), Range(r) = Range(l)
  PROVE  \A j \in 1 .. Len(r) : \E i \in 1 .. Len(l) : l[i] = r[j]
<1>0. DOMAIN l = 1 .. Len(l) /\ DOMAIN r = 1 .. Len(r)
  OBVIOUS
<1>1. ASSUME NEW j \in 1 .. Len(r) PROVE \E i \in 1 .. Len(l) : l[i] = r[j]
  <2>1. r[j] \in Range(l)
    BY <1>0 DEF Range
  <2> QED
    BY <1>0, <2>1 DEF Range
<1> QED
  BY <1>1

KeysOf(l) == {l[i].key : i \in 1 .. Len(l)}

(* Two lists of the same observations are about the same facts. *)
LEMMA SameKeys ==
  ASSUME NEW S, NEW l \in Seq(S), NEW r \in Seq(S), Range(r) = Range(l)
  PROVE  KeysOf(r) = KeysOf(l)
<1>1. /\ \A i \in 1 .. Len(l) : \E j \in 1 .. Len(r) : r[j] = l[i]
      /\ \A j \in 1 .. Len(r) : \E i \in 1 .. Len(l) : l[i] = r[j]
  BY SameElements
<1>2. ASSUME NEW i \in 1 .. Len(l) PROVE l[i].key \in KeysOf(r)
  BY <1>1 DEF KeysOf
<1>3. ASSUME NEW j \in 1 .. Len(r) PROVE r[j].key \in KeysOf(l)
  BY <1>1 DEF KeysOf
<1> QED
  BY <1>2, <1>3 DEF KeysOf

(* And the same ones of each of them. *)
LEMMA SameOfAFact ==
  ASSUME NEW S, NEW l \in Seq(S), NEW r \in Seq(S), Range(r) = Range(l), NEW k
  PROVE  /\ Places(About(l, k)) /\ Places(About(r, k))
         /\ \A i \in About(l, k) : \E j \in About(r, k) : r[j] = l[i]
         /\ \A j \in About(r, k) : \E i \in About(l, k) : l[i] = r[j]
<1>1. /\ \A i \in 1 .. Len(l) : \E j \in 1 .. Len(r) : r[j] = l[i]
      /\ \A j \in 1 .. Len(r) : \E i \in 1 .. Len(l) : l[i] = r[j]
  BY SameElements
<1>2. Len(l) \in Nat /\ Len(r) \in Nat
  OBVIOUS
<1>3. Places(About(l, k)) /\ Places(About(r, k))
  BY <1>2 DEF About, Places
<1>4. \A i \in About(l, k) : \E j \in About(r, k) : r[j] = l[i]
  BY <1>1 DEF About
<1>5. \A j \in About(r, k) : \E i \in About(l, k) : l[i] = r[j]
  BY <1>1 DEF About
<1> QED
  BY <1>3, <1>4, <1>5

(* The verdicts are a function of what was observed: merged in any other order,
   and with any of the observations repeated, they are the same, all of them.
   VerdictIgnoresOrder is the case of the opposite order. *)
THEOREM VerdictsNeedOnlyTheEvidence ==
  Spec => [](step = "merged" =>
               \A r \in Seq(ObsType) : Range(r) = Range(obs) => Merge(expected, r) = facts)
<1> DEFINE OfTheSet == step = "merged" =>
             \A r \in Seq(ObsType) : Range(r) = Range(obs) => Merge(expected, r) = facts
<1>1. IInv => OfTheSet
  <2>1. ASSUME IInv, step = "merged", NEW r \in Seq(ObsType), Range(r) = Range(obs)
        PROVE  Merge(expected, r) = facts
    <3>1. obs \in Seq(ObsType) /\ facts = Merge(expected, obs)
      BY <2>1 DEF IInv, PassInv, ObsInv
    <3>2. KeysOf(r) = KeysOf(obs)
      BY <2>1, <3>1, SameKeys
    <3>3. ASSUME NEW k \in DOMAIN facts
          PROVE  Classify(k \in expected, r, About(r, k)) = Classify(k \in expected, obs, About(obs, k))
      <4> DEFINE I == About(obs, k)
                 J == About(r, k)
                 e == k \in expected
      <4>1. \A i \in I : obs[i].key = k /\ Missed(obs[i])
        BY <2>1, VerdictOf DEF Grounded
      <4>2. \A i, j \in ProvedAbsent(obs, I) : obs[i].level = obs[j].level
        BY <4>1 DEF ProvedAbsent, Missed
      <4>3. /\ Places(I) /\ Places(J)
            /\ \A i \in I : \E j \in J : r[j] = obs[i]
            /\ \A j \in J : \E i \in I : obs[i] = r[j]
        BY <2>1, <3>1, SameOfAFact
      <4> HIDE DEF I, J, e
      <4>4. Classify(e, r, J) = Classify(e, obs, I)
        BY <4>2, <4>3, OrderIsIrrelevant
      <4> QED
        BY <4>4 DEF I, J, e
    <3>4. DOMAIN facts = expected \union KeysOf(obs)
      BY <3>1 DEF Merge, KeysOf
    <3> QED
      BY <3>1, <3>2, <3>3, <3>4 DEF Merge, KeysOf
  <2> QED
    BY <2>1
<1> HIDE DEF OfTheSet
<1>2. Spec => []OfTheSet
  BY <1>1, InvHolds, PTL
<1> QED
  BY <1>2 DEF OfTheSet

(***************************************************************************)
(* Folds.  The library's induction theorems cannot be used here, a fold is *)
(* a recursive function: what follows is induction on a set of numbers,    *)
(* that the function exists, and that it goes one element at a time.       *)
(***************************************************************************)

(* Induction up to a bound, for a set. *)
LEMMA Induction ==
  ASSUME NEW n \in Nat, NEW S, 0 \in S, \A k \in 0 .. n : k \in S /\ k < n => k + 1 \in S
  PROVE  \A k \in 0 .. n : k \in S
<1> SUFFICES ASSUME NEW m \in 0 .. n, m \notin S PROVE FALSE
  OBVIOUS
<1> DEFINE T == {k \in 0 .. n : k \notin S}
<1>1. T \subseteq Nat /\ T # {}
  BY m \in T
<1>2. PICK k \in T : \A j \in T : <<j, k>> \notin OpToRel(<, Nat)
  BY <1>1, NatLessThanWellFounded, WFMin
<1>3. \A j \in T : ~(j < k)
  BY <1>1, <1>2 DEF OpToRel
<1>4. k \in 1 .. n /\ k \notin S
  <2>1. k \in 0 .. n /\ k \notin S
    BY <1>2
  <2>2. k # 0
    BY <2>1
  <2> QED
    BY <2>1, <2>2
<1>5. k - 1 \in 0 .. n /\ k - 1 < n /\ (k - 1) + 1 = k
  BY <1>4
<1>6. k - 1 \in S
  BY <1>3, <1>5
<1> QED
  BY <1>4, <1>5, <1>6

(* A nonempty set of places has a last one. *)
LEMMA MaxIsLast ==
  ASSUME NEW n \in Nat, NEW S \in SUBSET (1 .. n), S # {}
  PROVE  Max(S) \in S /\ \A j \in S : j <= Max(S)
<1> DEFINE K == {k \in 0 .. n : S \intersect (1 .. k) = {}
                                  \/ \E x \in S : \A j \in S \intersect (1 .. k) : j <= x}
<1>1. 0 \in K
  OBVIOUS
<1>2. ASSUME NEW k \in 0 .. n, k \in K, k < n PROVE k + 1 \in K
  <2>1. CASE k + 1 \in S
    <3>1. \A j \in S \intersect (1 .. k + 1) : j <= k + 1
      OBVIOUS
    <3> QED
      BY <1>2, <2>1, <3>1
  <2>2. CASE k + 1 \notin S
    <3>1. S \intersect (1 .. k + 1) = S \intersect (1 .. k)
      BY <2>2
    <3> QED
      BY <1>2, <3>1
  <2> QED
    BY <2>1, <2>2
<1>3. n \in K
  <2> HIDE DEF K
  <2> QED
    BY <1>1, <1>2, Induction
<1>4. S \intersect (1 .. n) = S
  OBVIOUS
<1>5. \E x \in S : \A j \in S : x >= j
  BY <1>3, <1>4
<1> QED
  BY <1>5 DEF Max

(* A fold is a function of the sets of places, each with its last place taken
   out; it exists. *)
IsFold(g, n, A, base, move) ==
  /\ g \in [SUBSET (1 .. n) -> A]
  /\ \A s \in SUBSET (1 .. n) :
       g[s] = IF s = {} THEN base ELSE move[<<g[s \ {Max(s)}], Max(s)>>]

LEMMA FoldExists ==
  ASSUME NEW n \in Nat, NEW A, NEW base \in A, NEW move \in [A \X (1 .. n) -> A]
  PROVE  \E g : IsFold(g, n, A, base, move)
<1> DEFINE Good(g, k) == \A s \in SUBSET (1 .. k) :
                            g[s] = IF s = {} THEN base ELSE move[<<g[s \ {Max(s)}], Max(s)>>]
           K == {k \in 0 .. n : \E g \in [SUBSET (1 .. k) -> A] : Good(g, k)}
<1>1. 0 \in K
  <2> DEFINE g == [s \in SUBSET (1 .. 0) |-> base]
  <2>1. \A s \in SUBSET (1 .. 0) : s = {}
    OBVIOUS
  <2>2. g \in [SUBSET (1 .. 0) -> A] /\ Good(g, 0)
    BY <2>1
  <2>3. 0 \in 0 .. n
    OBVIOUS
  <2> HIDE DEF g, Good
  <2> QED
    BY <2>2, <2>3
<1>2. ASSUME NEW k \in 0 .. n, k \in K, k < n PROVE k + 1 \in K
  <2>1. PICK g \in [SUBSET (1 .. k) -> A] : Good(g, k)
    BY <1>2
  <2> DEFINE h == [s \in SUBSET (1 .. k + 1) |->
                     IF k + 1 \in s THEN move[<<g[s \ {k + 1}], k + 1>>] ELSE g[s]]
  <2>2. \A s \in SUBSET (1 .. k + 1) : s \ {k + 1} \in SUBSET (1 .. k)
    OBVIOUS
  <2>3. \A s \in SUBSET (1 .. k + 1) : k + 1 \notin s => s \in SUBSET (1 .. k)
    OBVIOUS
  <2>4. k + 1 \in 1 .. n
    BY <1>2
  <2>5. h \in [SUBSET (1 .. k + 1) -> A]
    BY <2>2, <2>3, <2>4
  <2>6. ASSUME NEW s \in SUBSET (1 .. k + 1)
        PROVE  h[s] = IF s = {} THEN base ELSE move[<<h[s \ {Max(s)}], Max(s)>>]
    <3>1. CASE s = {}
      BY <2>1, <2>3, <3>1
    <3>2. CASE s # {} /\ k + 1 \in s
      <4>0. k + 1 \in Nat
        OBVIOUS
      <4>1. Max(s) \in s /\ \A j \in s : j <= Max(s)
        BY <3>2, <4>0, MaxIsLast
      <4>2. Max(s) = k + 1
        <5>1. Max(s) \in 1 .. k + 1
          BY <4>1
        <5>2. k + 1 <= Max(s)
          BY <3>2, <4>1
        <5> QED
          BY <4>0, <5>1, <5>2
      <4>3. s \ {k + 1} \in SUBSET (1 .. k + 1) /\ k + 1 \notin s \ {k + 1}
        OBVIOUS
      <4>4. h[s \ {k + 1}] = g[s \ {k + 1}]
        BY <4>3
      <4>5. h[s] = move[<<g[s \ {k + 1}], k + 1>>]
        BY <3>2
      <4> QED
        BY <3>2, <4>2, <4>4, <4>5
    <3>3. CASE s # {} /\ k + 1 \notin s
      <4>0. k \in Nat /\ s \in SUBSET (1 .. k)
        BY <2>3, <3>3
      <4>1. Max(s) \in s
        BY <3>3, <4>0, MaxIsLast
      <4>2. s \ {Max(s)} \in SUBSET (1 .. k + 1) /\ k + 1 \notin s \ {Max(s)}
        BY <3>3
      <4>3. h[s \ {Max(s)}] = g[s \ {Max(s)}] /\ h[s] = g[s]
        BY <3>3, <4>2
      <4>4. g[s] = move[<<g[s \ {Max(s)}], Max(s)>>]
        BY <2>1, <3>3, <4>0
      <4> QED
        BY <3>3, <4>3, <4>4
    <3> QED
      BY <3>1, <3>2, <3>3
  <2>7. Good(h, k + 1)
    BY <2>6
  <2>8. k + 1 \in 0 .. n
    BY <1>2
  <2> QED
    <3> HIDE DEF h, Good
    <3> QED
      BY <2>5, <2>7, <2>8
<1>3. n \in K
  <2> HIDE DEF K
  <2> QED
    BY <1>1, <1>2, Induction
<1> QED
  BY <1>3 DEF IsFold

(* The first k places, the last of which is k. *)
LEMMA UpTo ==
  ASSUME NEW n \in Nat, NEW k \in 1 .. n
  PROVE  1 .. k \in SUBSET (1 .. n) /\ 1 .. k # {} /\ Max(1 .. k) = k /\ (1 .. k) \ {k} = 1 .. (k - 1)
<1>1. 1 .. k \in SUBSET (1 .. n) /\ k \in 1 .. k /\ (1 .. k) \ {k} = 1 .. (k - 1)
  OBVIOUS
<1>2. Max(1 .. k) \in 1 .. k /\ k <= Max(1 .. k)
  BY <1>1, MaxIsLast
<1> QED
  BY <1>1, <1>2

(* Over the first places, a fold goes move by move. *)
GoesUp(iter, n, A, base, move) ==
  /\ iter[1 .. 0] = base
  /\ \A k \in 0 .. n : iter[1 .. k] \in A
  /\ \A k \in 1 .. n : iter[1 .. k] = move[<<iter[1 .. (k - 1)], k>>]

(* A function that is a fold as long as it stays in A does stay there. *)
LEMMA FoldStays ==
  ASSUME NEW n \in Nat, NEW A, NEW base \in A, NEW move \in [A \X (1 .. n) -> A], NEW iter,
         iter[{}] = base,
         \A s \in SUBSET (1 .. n) :
           s # {} /\ iter[s \ {Max(s)}] \in A => iter[s] = move[<<iter[s \ {Max(s)}], Max(s)>>]
  PROVE  GoesUp(iter, n, A, base, move)
<1> DEFINE K == {k \in 0 .. n : iter[1 .. k] \in A}
<1>0. iter[1 .. 0] = base
  <2>1. 1 .. 0 = {}
    OBVIOUS
  <2> QED
    BY <2>1
<1>1. 0 \in K
  BY <1>0
<1>2. ASSUME NEW k \in 1 .. n, iter[1 .. (k - 1)] \in A
      PROVE  iter[1 .. k] = move[<<iter[1 .. (k - 1)], k>>] /\ iter[1 .. k] \in A
  <2>1. 1 .. k \in SUBSET (1 .. n) /\ 1 .. k # {} /\ Max(1 .. k) = k /\ (1 .. k) \ {k} = 1 .. (k - 1)
    BY UpTo
  <2>2. iter[1 .. k] = move[<<iter[1 .. (k - 1)], k>>]
    BY <1>2, <2>1
  <2>3. <<iter[1 .. (k - 1)], k>> \in A \X (1 .. n)
    BY <1>2
  <2> QED
    BY <2>2, <2>3
<1>3. ASSUME NEW k \in 0 .. n, k \in K, k < n PROVE k + 1 \in K
  <2>1. k + 1 \in 1 .. n /\ (k + 1) - 1 = k /\ k + 1 \in 0 .. n
    BY <1>3
  <2>2. iter[1 .. ((k + 1) - 1)] \in A
    BY <1>3, <2>1
  <2> QED
    BY <1>2, <2>1, <2>2
<1>4. \A k \in 0 .. n : k \in K
  <2> HIDE DEF K
  <2> QED
    BY <1>1, <1>3, Induction
<1>5. ASSUME NEW k \in 1 .. n PROVE iter[1 .. k] = move[<<iter[1 .. (k - 1)], k>>]
  <2>1. k - 1 \in 0 .. n
    OBVIOUS
  <2> QED
    BY <1>2, <1>4, <2>1
<1> QED
  BY <1>0, <1>4, <1>5 DEF GoesUp

(***************************************************************************)
(* Items                                                                   *)
(***************************************************************************)

ItemsOf(L, V) == [state : V, origin : L, mentioned : BOOLEAN, overrode : Seq([layer : L, state : V])]

OverlaysOf(L, V, N) == [layer : L, said : [N -> V \union {"unset"}]]

Unmentioned(default) ==
  [state |-> default, origin |-> "default", mentioned |-> FALSE, overrode |-> << >>]

(* What an overlay makes of an item is an item. *)
LEMMA OverrideType ==
  ASSUME NEW L, NEW V, NEW N, NEW item \in ItemsOf(L, V), NEW o \in OverlaysOf(L, V, N), NEW name \in N
  PROVE  Override(item, o, name) \in ItemsOf(L, V)
<1>1. CASE o.said[name] = "unset"
  BY <1>1 DEF Override
<1>2. CASE o.said[name] # "unset"
  <2>1. o.said[name] \in V /\ o.layer \in L
    BY <1>2 DEF OverlaysOf
  <2>2. item.overrode \in Seq([layer : L, state : V])
    BY DEF ItemsOf
  <2>3. [layer |-> item.origin, state |-> item.state] \in [layer : L, state : V]
    BY DEF ItemsOf
  <2>4. Append(item.overrode, [layer |-> item.origin, state |-> item.state]) \in Seq([layer : L, state : V])
    BY <2>2, <2>3
  <2> QED
    BY <1>2, <2>1, <2>2, <2>4 DEF Override, ItemsOf
<1> QED
  BY <1>1, <1>2

ItemRun(acc, L, V, name, default, overlays) ==
  /\ acc \in [0 .. Len(overlays) -> ItemsOf(L, V)]
  /\ acc[0] = Unmentioned(default)
  /\ \A k \in 1 .. Len(overlays) : acc[k] = Override(acc[k - 1], overlays[k], name)
  /\ ResolveItem(name, default, overlays) = acc[Len(overlays)]

(* ResolveItem takes the overlays one after the other. *)
LEMMA ResolveItemSteps ==
  ASSUME NEW L, NEW V, NEW N, "default" \in L,
         NEW name \in N, NEW default \in V, NEW overlays \in Seq(OverlaysOf(L, V, N))
  PROVE  \E acc : ItemRun(acc, L, V, name, default, overlays)
<1> DEFINE n == Len(overlays)
           A == ItemsOf(L, V)
           base == Unmentioned(default)
           move == [p \in A \X (1 .. n) |-> Override(p[1], overlays[p[2]], name)]
           Folded(g) == [s \in SUBSET DOMAIN overlays |->
                           IF s = {} THEN base
                           ELSE Override(g[s \ {Max(s)}], overlays[Max(s)], name)]
           iter == CHOOSE g : g = Folded(g)
<1>0. n \in Nat /\ DOMAIN overlays = 1 .. n /\ \A i \in 1 .. n : overlays[i] \in OverlaysOf(L, V, N)
  OBVIOUS
<1>1. base \in A
  BY DEF ItemsOf, Unmentioned
<1>2. move \in [A \X (1 .. n) -> A]
  BY <1>0, OverrideType
<1>3. \E g : g = Folded(g)
  <2>0. PICK g : IsFold(g, n, A, base, move)
    <3>1. n \in Nat
      BY <1>0
    <3> HIDE DEF base, move, A, n
    <3> QED
      BY <3>1, <1>1, <1>2, FoldExists
  <2>1. /\ g \in [SUBSET (1 .. n) -> A]
        /\ \A s \in SUBSET (1 .. n) :
             g[s] = IF s = {} THEN base ELSE move[<<g[s \ {Max(s)}], Max(s)>>]
    BY <2>0 DEF IsFold
  <2>2. ASSUME NEW s \in SUBSET (1 .. n), s # {}
        PROVE  g[s] = Override(g[s \ {Max(s)}], overlays[Max(s)], name)
    <3>1. Max(s) \in 1 .. n /\ s \ {Max(s)} \in SUBSET (1 .. n)
      BY <1>0, <2>2, MaxIsLast
    <3>2. g[s \ {Max(s)}] \in A
      BY <2>1, <3>1
    <3>3. <<g[s \ {Max(s)}], Max(s)>> \in A \X (1 .. n)
      BY <3>1, <3>2
    <3>4. g[s] = move[<<g[s \ {Max(s)}], Max(s)>>]
      BY <2>1, <2>2
    <3> QED
      BY <3>3, <3>4
  <2>3. g[{}] = base /\ {} \in SUBSET (1 .. n)
    BY <2>1
  <2>4. \A s \in SUBSET (1 .. n) : g[s] = Folded(g)[s]
    BY <1>0, <2>2, <2>3
  <2>5. DOMAIN g = SUBSET (1 .. n) /\ DOMAIN Folded(g) = SUBSET (1 .. n)
    BY <1>0, <2>1
  <2>6. g = Folded(g)
    BY <1>0, <2>1, <2>4, <2>5
  <2> QED
    BY <2>6
<1>4. iter = Folded(iter)
  BY <1>3
<1>5. ResolveItem(name, default, overlays) = iter[DOMAIN overlays]
  BY DEF ResolveItem, FoldLeft, MapThenFoldSet, Unmentioned
<1> HIDE DEF iter, A
<1>6. iter[{}] = base
  BY <1>4
<1>7. ASSUME NEW s \in SUBSET (1 .. n), s # {}, iter[s \ {Max(s)}] \in A
      PROVE  iter[s] = move[<<iter[s \ {Max(s)}], Max(s)>>]
  <2>1. Max(s) \in 1 .. n
    BY <1>0, <1>7, MaxIsLast
  <2>2. iter[s] = Override(iter[s \ {Max(s)}], overlays[Max(s)], name)
    BY <1>0, <1>4, <1>7
  <2> QED
    BY <1>7, <2>1, <2>2
<1>8. /\ iter[1 .. 0] = base
      /\ \A k \in 0 .. n : iter[1 .. k] \in A
      /\ \A k \in 1 .. n : iter[1 .. k] = move[<<iter[1 .. (k - 1)], k>>]
  <2>1. GoesUp(iter, n, A, base, move)
    <3> HIDE DEF move, n, base
    <3> QED
      BY <1>0, <1>1, <1>2, <1>6, <1>7, FoldStays
  <2> QED
    BY <2>1 DEF GoesUp
<1>9. ASSUME NEW k \in 1 .. n PROVE iter[1 .. k] = Override(iter[1 .. (k - 1)], overlays[k], name)
  <2>1. k - 1 \in 0 .. n
    BY <1>0
  <2>2. <<iter[1 .. (k - 1)], k>> \in A \X (1 .. n)
    BY <1>8, <2>1
  <2> QED
    BY <1>8, <2>2
<1> DEFINE acc == [k \in 0 .. n |-> iter[1 .. k]]
<1>10. acc \in [0 .. n -> A]
  BY <1>8
<1>11. acc[0] = base /\ ResolveItem(name, default, overlays) = acc[n]
  BY <1>0, <1>5, <1>8
<1>12. ASSUME NEW k \in 1 .. n PROVE acc[k] = Override(acc[k - 1], overlays[k], name)
  <2>1. k \in 0 .. n /\ k - 1 \in 0 .. n
    BY <1>0
  <2> QED
    BY <1>9, <2>1
<1> HIDE DEF acc
<1> QED
  BY <1>10, <1>11, <1>12 DEF A, ItemRun

(* The overlays among the first k that mention an item, and the place of one of
   them among the others. *)
Speakers(name, overlays, k) == {i \in 1 .. k : overlays[i].said[name] # "unset"}
Place(S, i) == Cardinality({h \in S : h <= i})
Said(name, o) == [layer |-> o.layer, state |-> o.said[name]]

(* What an item is after the first k overlays, S of which mention it. *)
Quiet(item, default) == item = Unmentioned(default)

Decided(item, name, overlays, S) ==
  LET d == Max(S) IN
  /\ item.mentioned
  /\ [layer |-> item.origin, state |-> item.state] = Said(name, overlays[d])
  /\ Len(item.overrode) = Cardinality(S) - 1
  /\ \A i \in S \ {d} : /\ Place(S, i) \in 1 .. Len(item.overrode)
                        /\ item.overrode[Place(S, i)] = Said(name, overlays[i])

(* The item after the overlays of which those at the places S speak of it. *)
Settled(item, name, default, overlays, S) ==
  IF S = {} THEN Quiet(item, default) ELSE Decided(item, name, overlays, S)

PlacesKept(S, T, new) ==
  /\ Max(T) = new /\ T \ {new} = S
  /\ Cardinality(S) \in Nat /\ Cardinality(T) = Cardinality(S) + 1
  /\ \A i \in S : Place(T, i) = Place(S, i)
  /\ S # {} => Max(S) \in S /\ Place(S, Max(S)) = Cardinality(S)

(* A later place leaves the order of the earlier ones alone. *)
LEMMA PlacesAfter ==
  ASSUME NEW k \in Nat, NEW S \in SUBSET (1 .. k)
  PROVE  PlacesKept(S, S \union {k + 1}, k + 1)
<1>1. Max(S \union {k + 1}) = k + 1
  <2>1. S \union {k + 1} \in SUBSET (1 .. k + 1) /\ k + 1 \in S \union {k + 1} /\ k + 1 \in Nat
    OBVIOUS
  <2> DEFINE T == S \union {k + 1}
             m == Max(T)
  <2>2. m \in T /\ k + 1 <= m
    <3> HIDE DEF T
    <3> QED
      BY <2>1, MaxIsLast DEF T
  <2>3. m \in 1 .. k + 1
    BY <2>1, <2>2
  <2> HIDE DEF m
  <2>4. m = k + 1
    BY <2>2, <2>3
  <2> QED
    BY <2>4 DEF m
<1>2. IsFiniteSet(S)
  BY FS_Interval, FS_Subset, 1 \in Int, k \in Int
<1>3. k + 1 \notin S
  OBVIOUS
<1>4. Cardinality(S) \in Nat /\ Cardinality(S \union {k + 1}) = Cardinality(S) + 1
  BY <1>2, <1>3, FS_CardinalityType, FS_AddElement
<1>5. (S \union {k + 1}) \ {k + 1} = S
  BY <1>3
<1>6. ASSUME NEW i \in S PROVE Place(S \union {k + 1}, i) = Place(S, i)
  <2>1. {h \in S \union {k + 1} : h <= i} = {h \in S : h <= i}
    OBVIOUS
  <2> QED
    BY <2>1 DEF Place
<1>7. ASSUME S # {} PROVE Max(S) \in S /\ Place(S, Max(S)) = Cardinality(S)
  <2>1. Max(S) \in S /\ \A j \in S : j <= Max(S)
    BY <1>7, MaxIsLast
  <2>2. {h \in S : h <= Max(S)} = S
    BY <2>1
  <2> QED
    BY <2>1, <2>2 DEF Place
<1> QED
  BY <1>1, <1>4, <1>5, <1>6, <1>7 DEF PlacesKept

(* One more overlay, which does not mention the item. *)
LEMMA SilentOverlay ==
  ASSUME NEW name, NEW overlays, NEW k \in Nat, overlays[k + 1].said[name] = "unset"
  PROVE  Speakers(name, overlays, k + 1) = Speakers(name, overlays, k)
  BY DEF Speakers

(* One more overlay, which does. *)
LEMMA SpeakingOverlay ==
  ASSUME NEW L, NEW V, NEW item \in ItemsOf(L, V), NEW name, NEW default, NEW overlays, NEW k \in Nat,
         overlays[k + 1].said[name] # "unset",
         Settled(item, name, default, overlays, Speakers(name, overlays, k))
  PROVE  Settled(Override(item, overlays[k + 1], name), name, default, overlays,
                 Speakers(name, overlays, k + 1))
<1> DEFINE new == Override(item, overlays[k + 1], name)
           S   == Speakers(name, overlays, k)
           T   == S \union {k + 1}
           was == [layer |-> item.origin, state |-> item.state]
<1>0. S \in SUBSET (1 .. k)
  BY DEF Speakers
<1>1. Speakers(name, overlays, k + 1) = T
  BY DEF Speakers
<1>9. Settled(item, name, default, overlays, S)
  OBVIOUS
<1> HIDE DEF S
<1>2. /\ Max(T) = k + 1 /\ T \ {k + 1} = S
      /\ Cardinality(S) \in Nat /\ Cardinality(T) = Cardinality(S) + 1
      /\ \A i \in S : Place(T, i) = Place(S, i)
      /\ S # {} => Max(S) \in S /\ Place(S, Max(S)) = Cardinality(S)
  <2>1. PlacesKept(S, T, k + 1)
    BY <1>0, PlacesAfter
  <2> HIDE DEF T
  <2> QED
    BY <2>1 DEF PlacesKept
<1>3. /\ new.mentioned = TRUE
      /\ [layer |-> new.origin, state |-> new.state] = Said(name, overlays[k + 1])
      /\ new.overrode = IF item.mentioned THEN Append(item.overrode, was) ELSE item.overrode
  BY DEF Override, Said
<1> HIDE DEF new
<1>4. ASSUME S = {} PROVE Decided(new, name, overlays, T)
  <2>1. item.mentioned = FALSE /\ item.overrode = << >>
    BY <1>4, <1>9 DEF Settled, Quiet, Unmentioned
  <2>2. new.overrode = << >>
    BY <1>3, <2>1
  <2>3. Cardinality(S) = 0
    BY <1>4, FS_EmptySet
  <2>4. Len(new.overrode) = Cardinality(T) - 1
    BY <1>2, <2>2, <2>3
  <2>5. \A i \in T \ {k + 1} : FALSE
    BY <1>2, <1>4
  <2>6. Decided(new, name, overlays, T)
    <3> HIDE DEF T
    <3> QED
      BY <1>2, <1>3, <2>4, <2>5 DEF Decided
  <2> QED
    BY <2>6
<1>5. ASSUME S # {} PROVE Decided(new, name, overlays, T)
  <2>1. Decided(item, name, overlays, S)
    BY <1>5, <1>9 DEF Settled
  <2>2. /\ item.mentioned
        /\ was = Said(name, overlays[Max(S)])
        /\ Len(item.overrode) = Cardinality(S) - 1
        /\ \A i \in S \ {Max(S)} : /\ Place(S, i) \in 1 .. Len(item.overrode)
                                   /\ item.overrode[Place(S, i)] = Said(name, overlays[i])
    BY <2>1 DEF Decided
  <2>3. item.overrode \in Seq([layer : L, state : V]) /\ was \in [layer : L, state : V]
    BY DEF ItemsOf
  <2>4. new.overrode = Append(item.overrode, was)
    BY <1>3, <2>2
  <2> HIDE DEF was
  <2>5. /\ Len(new.overrode) = Len(item.overrode) + 1
        /\ Len(item.overrode) \in Nat
        /\ new.overrode[Len(item.overrode) + 1] = was
        /\ \A j \in 1 .. Len(item.overrode) : new.overrode[j] = item.overrode[j]
    BY <2>3, <2>4
  <2>6. ASSUME NEW i \in S
        PROVE  /\ Place(T, i) \in 1 .. Len(new.overrode)
               /\ new.overrode[Place(T, i)] = Said(name, overlays[i])
    <3>1. Place(T, i) = Place(S, i)
      BY <1>2
    <3> HIDE DEF T
    <3>2. CASE i = Max(S)
      <4>1. Place(T, i) = Len(item.overrode) + 1
        BY <1>2, <1>5, <2>2, <3>1, <3>2
      <4> QED
        BY <2>2, <2>5, <3>2, <4>1
    <3>3. CASE i # Max(S)
      <4>1. Place(T, i) \in 1 .. Len(item.overrode) /\ item.overrode[Place(T, i)] = Said(name, overlays[i])
        BY <2>2, <3>1, <3>3
      <4> QED
        BY <2>5, <4>1
    <3> QED
      BY <3>2, <3>3
  <2>7. Len(new.overrode) = Cardinality(T) - 1
    BY <1>2, <2>2, <2>5
  <2>8. Decided(new, name, overlays, T)
    <3> HIDE DEF T
    <3> QED
      BY <1>2, <1>3, <2>6, <2>7 DEF Decided
  <2> QED
    BY <2>8
<1>6. Decided(new, name, overlays, T)
  BY <1>4, <1>5
<1>7. Settled(new, name, default, overlays, T)
  BY <1>6 DEF Settled
<1> QED
  BY <1>1, <1>7 DEF new

(* Whatever the layers, and however many: the item is explained. *)
LEMMA ItemIsExplained ==
  ASSUME NEW L, NEW V, NEW N, "default" \in L,
         NEW name \in N, NEW default \in V, NEW overlays \in Seq(OverlaysOf(L, V, N))
  PROVE  /\ ResolveItem(name, default, overlays) \in ItemsOf(L, V)
         /\ Explained(ResolveItem(name, default, overlays), name, default, overlays)
<1> DEFINE n == Len(overlays)
<1>0. n \in Nat /\ DOMAIN overlays = 1 .. n
  OBVIOUS
<1>8. PICK acc : ItemRun(acc, L, V, name, default, overlays)
  BY ResolveItemSteps
<1>1. /\ acc \in [0 .. n -> ItemsOf(L, V)]
      /\ acc[0] = Unmentioned(default)
      /\ \A k \in 1 .. n : acc[k] = Override(acc[k - 1], overlays[k], name)
      /\ ResolveItem(name, default, overlays) = acc[n]
  BY <1>8 DEF ItemRun
<1> DEFINE Right(k) == Settled(acc[k], name, default, overlays, Speakers(name, overlays, k))
           K == {k \in 0 .. n : Right(k)}
<1>2. 0 \in K
  <2>1. Speakers(name, overlays, 0) = {}
    BY DEF Speakers
  <2> QED
    BY <1>0, <1>1, <2>1 DEF Settled, Quiet
<1>3. ASSUME NEW k \in 0 .. n, k \in K, k < n PROVE k + 1 \in K
  <2>1. k \in Nat /\ k + 1 \in 0 .. n /\ k + 1 \in 1 .. n /\ (k + 1) - 1 = k
    BY <1>0, <1>3
  <2>2. acc[k + 1] = Override(acc[k], overlays[k + 1], name) /\ acc[k] \in ItemsOf(L, V)
    BY <1>1, <2>1
  <2>3. CASE overlays[k + 1].said[name] = "unset"
    <3>1. k \in Nat
      BY <2>1
    <3>2. Speakers(name, overlays, k + 1) = Speakers(name, overlays, k)
      BY <2>3, <3>1, SilentOverlay
    <3>3. acc[k + 1] = acc[k]
      BY <2>2, <2>3 DEF Override
    <3> QED
      BY <1>3, <2>1, <3>2, <3>3
  <2>4. CASE overlays[k + 1].said[name] # "unset"
    <3>1. Settled(acc[k], name, default, overlays, Speakers(name, overlays, k))
      BY <1>3
    <3>2. k \in Nat /\ acc[k] \in ItemsOf(L, V)
      BY <2>1, <2>2
    <3>3. Settled(Override(acc[k], overlays[k + 1], name), name, default, overlays,
                  Speakers(name, overlays, k + 1))
      BY <2>4, <3>1, <3>2, SpeakingOverlay
    <3> QED
      BY <2>1, <2>2, <3>3
  <2> QED
    BY <2>3, <2>4
<1>4. Right(n)
  <2>1. n \in K
    <3> HIDE DEF K, n
    <3> QED
      BY <1>0, <1>2, <1>3, Induction
  <2> QED
    BY <2>1
<1> DEFINE item == acc[n]
           S == Speakers(name, overlays, n)
<1>5. {i \in DOMAIN overlays : overlays[i].said[name] # "unset"} = S
  BY <1>0 DEF Speakers
<1>6. item \in ItemsOf(L, V)
  BY <1>0, <1>1
<1> HIDE DEF item, S
<1>7. Explained(item, name, default, overlays)
  <2>1. CASE S = {}
    <3>1. item = Unmentioned(default)
      BY <1>4, <2>1 DEF item, S, Settled, Quiet
    <3> QED
      BY <1>5, <2>1, <3>1 DEF Explained, Unmentioned
  <2>2. CASE S # {}
    <3>1. Decided(item, name, overlays, S)
      BY <1>4, <2>2 DEF item, S, Settled
    <3>2. /\ [layer |-> item.origin, state |-> item.state] = Said(name, overlays[Max(S)])
          /\ Len(item.overrode) = Cardinality(S) - 1
          /\ \A i \in S \ {Max(S)} :
               item.overrode[Cardinality({h \in S : h <= i})] = Said(name, overlays[i])
      BY <3>1 DEF Decided, Place
    <3>3. item.origin = overlays[Max(S)].layer /\ item.state = overlays[Max(S)].said[name]
      BY <3>2 DEF Said
    <3> QED
      BY <1>5, <2>2, <3>2, <3>3 DEF Explained, Said
  <2> QED
    BY <2>1, <2>2
<1> QED
  BY <1>1, <1>6, <1>7 DEF item

(***************************************************************************)
(* Layers                                                                  *)
(***************************************************************************)

Scopes == {"global", "user", "repo", "workspace"}

Lists(P) == Seq([scope : Scopes, dir : P])

(* What AddLayer makes of a list of layers is one. *)
LEMMA AddLayerType ==
  ASSUME NEW disk, NEW P, NEW out \in Lists(P), NEW scope \in Scopes, NEW dir \in P
  PROVE  AddLayer(disk, out, scope, dir) \in Lists(P)
<1> DEFINE E == [scope : Scopes, dir : P]
           layer == [scope |-> scope, dir |-> dir]
<1>1. layer \in E
  OBVIOUS
<1>2. AddLayer(disk, out, scope, dir) \in {out, Append(out, layer)}
  BY DEF AddLayer
<1> HIDE DEF E, layer
<1>3. out \in Seq(E) /\ Append(out, layer) \in Seq(E)
  BY <1>1 DEF Lists, E
<1> QED
  BY <1>2, <1>3 DEF Lists, E

FirstFound(disk, out, dir) == IF out # << >> THEN out ELSE AddLayer(disk, out, "global", dir)

GlobalLayers(disk, cands) ==
  FoldLeft(LAMBDA out, dir : IF out # << >> THEN out ELSE AddLayer(disk, out, "global", dir),
           << >>, cands)

GlobalRun(acc, disk, P, cands) ==
  /\ acc \in [0 .. Len(cands) -> Lists(P)]
  /\ acc[0] = << >>
  /\ \A k \in 1 .. Len(cands) : acc[k] = FirstFound(disk, acc[k - 1], cands[k])
  /\ GlobalLayers(disk, cands) = acc[Len(cands)]

(* The first fold of DiscoverLayers, move by move. *)
LEMMA GlobalSteps ==
  ASSUME NEW disk, NEW P, NEW cands \in Seq(P)
  PROVE  \E acc : GlobalRun(acc, disk, P, cands)
<1> DEFINE n == Len(cands)
           A == Lists(P)
           move == [p \in A \X (1 .. n) |-> FirstFound(disk, p[1], cands[p[2]])]
           Folded(g) == [s \in SUBSET DOMAIN cands |->
                           IF s = {} THEN << >> ELSE FirstFound(disk, g[s \ {Max(s)}], cands[Max(s)])]
           iter == CHOOSE g : g = Folded(g)
<1>0. n \in Nat /\ DOMAIN cands = 1 .. n /\ \A i \in 1 .. n : cands[i] \in P
  OBVIOUS
<1>1. << >> \in A
  BY DEF Lists
<1>2. move \in [A \X (1 .. n) -> A]
  <2>1. \A out \in A, dir \in P : FirstFound(disk, out, dir) \in A
    <3>1. "global" \in Scopes
      BY DEF Scopes
    <3>2. \A out \in A, dir \in P : AddLayer(disk, out, "global", dir) \in A
      BY <3>1, AddLayerType
    <3> QED
      BY <3>2 DEF FirstFound
  <2> HIDE DEF A
  <2> QED
    BY <1>0, <2>1
<1>3. \E g : g = Folded(g)
  <2>0. PICK g : IsFold(g, n, A, << >>, move)
    <3> HIDE DEF move, A, n
    <3> QED
      BY <1>0, <1>1, <1>2, FoldExists
  <2>1. /\ g \in [SUBSET (1 .. n) -> A]
        /\ \A s \in SUBSET (1 .. n) :
             g[s] = IF s = {} THEN << >> ELSE move[<<g[s \ {Max(s)}], Max(s)>>]
    BY <2>0 DEF IsFold
  <2> HIDE DEF A
  <2>2. ASSUME NEW s \in SUBSET (1 .. n), s # {}
        PROVE  g[s] = FirstFound(disk, g[s \ {Max(s)}], cands[Max(s)])
    <3>1. Max(s) \in 1 .. n /\ s \ {Max(s)} \in SUBSET (1 .. n)
      BY <1>0, <2>2, MaxIsLast
    <3>2. <<g[s \ {Max(s)}], Max(s)>> \in A \X (1 .. n)
      BY <2>1, <3>1
    <3>3. g[s] = move[<<g[s \ {Max(s)}], Max(s)>>]
      BY <2>1, <2>2
    <3> QED
      BY <3>2, <3>3
  <2>3. g[{}] = << >> /\ {} \in SUBSET (1 .. n)
    BY <2>1
  <2>4. \A s \in SUBSET (1 .. n) : g[s] = Folded(g)[s]
    BY <1>0, <2>2, <2>3
  <2>5. g = Folded(g)
    BY <1>0, <2>1, <2>4
  <2> QED
    BY <2>5
<1>4. iter = Folded(iter)
  BY <1>3
<1>5. GlobalLayers(disk, cands) = iter[DOMAIN cands]
  BY DEF GlobalLayers, FoldLeft, MapThenFoldSet, FirstFound
<1> HIDE DEF iter, A
<1>6. iter[{}] = << >>
  BY <1>4
<1>7. ASSUME NEW s \in SUBSET (1 .. n), s # {}, iter[s \ {Max(s)}] \in A
      PROVE  iter[s] = move[<<iter[s \ {Max(s)}], Max(s)>>]
  <2>1. Max(s) \in 1 .. n
    BY <1>0, <1>7, MaxIsLast
  <2>2. iter[s] = FirstFound(disk, iter[s \ {Max(s)}], cands[Max(s)])
    BY <1>0, <1>4, <1>7
  <2> QED
    BY <1>7, <2>1, <2>2
<1>8. /\ iter[1 .. 0] = << >>
      /\ \A k \in 0 .. n : iter[1 .. k] \in A
      /\ \A k \in 1 .. n : iter[1 .. k] = move[<<iter[1 .. (k - 1)], k>>]
  <2>1. GoesUp(iter, n, A, << >>, move)
    <3> HIDE DEF move, n
    <3> QED
      BY <1>0, <1>1, <1>2, <1>6, <1>7, FoldStays
  <2> QED
    BY <2>1 DEF GoesUp
<1>9. ASSUME NEW k \in 1 .. n PROVE iter[1 .. k] = FirstFound(disk, iter[1 .. (k - 1)], cands[k])
  <2>1. k - 1 \in 0 .. n
    BY <1>0
  <2>2. <<iter[1 .. (k - 1)], k>> \in A \X (1 .. n)
    BY <1>8, <2>1
  <2> QED
    BY <1>8, <2>2
<1> DEFINE acc == [k \in 0 .. n |-> iter[1 .. k]]
<1>10. acc \in [0 .. n -> A]
  BY <1>8
<1>11. acc[0] = << >> /\ GlobalLayers(disk, cands) = acc[n]
  BY <1>0, <1>5, <1>8
<1>12. ASSUME NEW k \in 1 .. n PROVE acc[k] = FirstFound(disk, acc[k - 1], cands[k])
  <2>1. k \in 0 .. n /\ k - 1 \in 0 .. n
    BY <1>0
  <2> QED
    BY <1>9, <2>1
<1> HIDE DEF acc
<1> QED
  BY <1>10, <1>11, <1>12 DEF A, GlobalRun

WithDir(disk, target, out, dir) == AddLayer(disk, out, ScopeForDir(dir, target), dir)

DirLayers(disk, target, global, dirs) ==
  FoldLeft(LAMBDA out, dir : AddLayer(disk, out, ScopeForDir(dir, target), dir), global, dirs)

(* A directory on the way never has the global scope. *)
LEMMA ScopeType ==
  ASSUME NEW dir, NEW target
  PROVE  ScopeForDir(dir, target) \in Scopes /\ ScopeForDir(dir, target) # "global"
<1>1. CASE dir = Home
  BY <1>1 DEF ScopeForDir, Scopes
<1>2. CASE dir # Home /\ dir = target
  BY <1>2 DEF ScopeForDir, Scopes
<1>3. CASE dir # Home /\ dir # target
  BY <1>3 DEF ScopeForDir, Scopes
<1> QED
  BY <1>1, <1>2, <1>3

LayerRun(acc, disk, target, P, global, dirs) ==
  /\ acc \in [0 .. Len(dirs) -> Lists(P)]
  /\ acc[0] = global
  /\ \A k \in 1 .. Len(dirs) : acc[k] = WithDir(disk, target, acc[k - 1], dirs[k])
  /\ DirLayers(disk, target, global, dirs) = acc[Len(dirs)]

(* The second one: one directory after the other. *)
LEMMA LayerSteps ==
  ASSUME NEW disk, NEW target, NEW P, NEW global \in Lists(P), NEW dirs \in Seq(P)
  PROVE  \E acc : LayerRun(acc, disk, target, P, global, dirs)
<1> DEFINE n == Len(dirs)
           A == Lists(P)
           move == [p \in A \X (1 .. n) |-> WithDir(disk, target, p[1], dirs[p[2]])]
           Folded(g) == [s \in SUBSET DOMAIN dirs |->
                           IF s = {} THEN global ELSE WithDir(disk, target, g[s \ {Max(s)}], dirs[Max(s)])]
           iter == CHOOSE g : g = Folded(g)
<1>0. n \in Nat /\ DOMAIN dirs = 1 .. n /\ \A i \in 1 .. n : dirs[i] \in P
  OBVIOUS
<1>1. global \in A
  OBVIOUS
<1>2. move \in [A \X (1 .. n) -> A]
  <2>1. \A out \in A, dir \in P : WithDir(disk, target, out, dir) \in A
    BY ScopeType, AddLayerType DEF WithDir
  <2> HIDE DEF A
  <2> QED
    BY <1>0, <2>1
<1>3. \E g : g = Folded(g)
  <2>0. PICK g : IsFold(g, n, A, global, move)
    <3> HIDE DEF move, A, n
    <3> QED
      BY <1>0, <1>1, <1>2, FoldExists
  <2>1. /\ g \in [SUBSET (1 .. n) -> A]
        /\ \A s \in SUBSET (1 .. n) :
             g[s] = IF s = {} THEN global ELSE move[<<g[s \ {Max(s)}], Max(s)>>]
    BY <2>0 DEF IsFold
  <2> HIDE DEF A
  <2>2. ASSUME NEW s \in SUBSET (1 .. n), s # {}
        PROVE  g[s] = WithDir(disk, target, g[s \ {Max(s)}], dirs[Max(s)])
    <3>1. Max(s) \in 1 .. n /\ s \ {Max(s)} \in SUBSET (1 .. n)
      BY <1>0, <2>2, MaxIsLast
    <3>2. <<g[s \ {Max(s)}], Max(s)>> \in A \X (1 .. n)
      BY <2>1, <3>1
    <3>3. g[s] = move[<<g[s \ {Max(s)}], Max(s)>>]
      BY <2>1, <2>2
    <3> QED
      BY <3>2, <3>3
  <2>3. g[{}] = global /\ {} \in SUBSET (1 .. n)
    BY <2>1
  <2>4. \A s \in SUBSET (1 .. n) : g[s] = Folded(g)[s]
    BY <1>0, <2>2, <2>3
  <2>5. g = Folded(g)
    BY <1>0, <2>1, <2>4
  <2> QED
    BY <2>5
<1>4. iter = Folded(iter)
  BY <1>3
<1>5. DirLayers(disk, target, global, dirs) = iter[DOMAIN dirs]
  BY DEF DirLayers, FoldLeft, MapThenFoldSet, WithDir
<1> HIDE DEF iter, A
<1>6. iter[{}] = global
  BY <1>4
<1>7. ASSUME NEW s \in SUBSET (1 .. n), s # {}, iter[s \ {Max(s)}] \in A
      PROVE  iter[s] = move[<<iter[s \ {Max(s)}], Max(s)>>]
  <2>1. Max(s) \in 1 .. n
    BY <1>0, <1>7, MaxIsLast
  <2>2. iter[s] = WithDir(disk, target, iter[s \ {Max(s)}], dirs[Max(s)])
    BY <1>0, <1>4, <1>7
  <2> QED
    BY <1>7, <2>1, <2>2
<1>8. /\ iter[1 .. 0] = global
      /\ \A k \in 0 .. n : iter[1 .. k] \in A
      /\ \A k \in 1 .. n : iter[1 .. k] = move[<<iter[1 .. (k - 1)], k>>]
  <2>1. GoesUp(iter, n, A, global, move)
    <3> HIDE DEF move, n
    <3> QED
      BY <1>0, <1>1, <1>2, <1>6, <1>7, FoldStays
  <2> QED
    BY <2>1 DEF GoesUp
<1>9. ASSUME NEW k \in 1 .. n PROVE iter[1 .. k] = WithDir(disk, target, iter[1 .. (k - 1)], dirs[k])
  <2>1. k - 1 \in 0 .. n
    BY <1>0
  <2>2. <<iter[1 .. (k - 1)], k>> \in A \X (1 .. n)
    BY <1>8, <2>1
  <2> QED
    BY <1>8, <2>2
<1> DEFINE acc == [k \in 0 .. n |-> iter[1 .. k]]
<1>10. acc \in [0 .. n -> A]
  BY <1>8
<1>11. acc[0] = global /\ DirLayers(disk, target, global, dirs) = acc[n]
  BY <1>0, <1>5, <1>8
<1>12. ASSUME NEW k \in 1 .. n PROVE acc[k] = WithDir(disk, target, acc[k - 1], dirs[k])
  <2>1. k \in 0 .. n /\ k - 1 \in 0 .. n
    BY <1>0
  <2> QED
    BY <1>9, <2>1
<1> HIDE DEF acc
<1> QED
  BY <1>10, <1>11, <1>12 DEF A, LayerRun

(* Appending to a list. *)
LEMMA Appended ==
  ASSUME NEW E, NEW l \in Seq(E), NEW e \in E
  PROVE  /\ Len(l) \in Nat /\ DOMAIN l = 1 .. Len(l)
         /\ Len(Append(l, e)) = Len(l) + 1 /\ DOMAIN Append(l, e) = 1 .. Len(l) + 1
         /\ \A i \in 1 .. Len(l) : Append(l, e)[i] = l[i]
         /\ Append(l, e)[Len(l) + 1] = e
  OBVIOUS

(* The global layer: at most one, and one if any of its places has a file. *)
LEMMA OneGlobalLayer ==
  ASSUME NEW disk, NEW P, NEW cands \in Seq(P)
  PROVE  LET g == GlobalLayers(disk, cands) IN
         /\ g \in Lists(P)
         /\ Len(g) = IF \E i \in DOMAIN cands : Exists(disk, cands[i]) THEN 1 ELSE 0
         /\ Len(g) = 1 => g[1].scope = "global"
<1> DEFINE n == Len(cands)
           Right(l, k) == \/ l = << >> /\ \A i \in 1 .. k : ~Exists(disk, cands[i])
                          \/ Len(l) = 1 /\ l[1].scope = "global" /\ \E i \in 1 .. k : Exists(disk, cands[i])
<1>0. n \in Nat /\ DOMAIN cands = 1 .. n /\ \A i \in 1 .. n : cands[i] \in P
  OBVIOUS
<1>6. PICK acc : GlobalRun(acc, disk, P, cands)
  BY GlobalSteps
<1>1. /\ acc \in [0 .. n -> Lists(P)]
      /\ acc[0] = << >>
      /\ \A k \in 1 .. n : acc[k] = FirstFound(disk, acc[k - 1], cands[k])
      /\ GlobalLayers(disk, cands) = acc[n]
  BY <1>6 DEF GlobalRun
<1> DEFINE K == {k \in 0 .. n : Right(acc[k], k)}
<1>2. 0 \in K
  BY <1>0, <1>1
<1>3. ASSUME NEW k \in 0 .. n, k \in K, k < n PROVE k + 1 \in K
  <2>1. k \in Nat /\ k + 1 \in 0 .. n /\ k + 1 \in 1 .. n /\ (k + 1) - 1 = k
    BY <1>0, <1>3
  <2>2. acc[k + 1] = FirstFound(disk, acc[k], cands[k + 1])
    BY <1>1, <2>1
  <2>3. Right(acc[k], k)
    BY <1>3
  <2>4. \A i \in 1 .. k : i \in 1 .. k + 1
    BY <2>1
  <2>5. \A i \in 1 .. k + 1 : i = k + 1 \/ i \in 1 .. k
    BY <2>1
  <2>6. CASE Len(acc[k]) = 1 /\ acc[k][1].scope = "global" /\ \E i \in 1 .. k : Exists(disk, cands[i])
    <3>1. acc[k] # << >>
      BY <2>6
    <3>2. acc[k + 1] = acc[k]
      BY <2>2, <3>1 DEF FirstFound
    <3>3. Right(acc[k + 1], k + 1)
      BY <2>4, <2>6, <3>2
    <3> QED
      BY <2>1, <3>3
  <2>7. CASE acc[k] = << >> /\ \A i \in 1 .. k : ~Exists(disk, cands[i])
    <3> DEFINE layer == [scope |-> "global", dir |-> cands[k + 1]]
    <3>1. acc[k + 1] = AddLayer(disk, << >>, "global", cands[k + 1])
      BY <2>2, <2>7 DEF FirstFound
    <3>2. CASE Exists(disk, cands[k + 1])
      <4>1. acc[k + 1] = Append(<< >>, layer)
        BY <3>1, <3>2 DEF AddLayer
      <4>2. layer.scope = "global"
        OBVIOUS
      <4> HIDE DEF layer
      <4>3. Len(acc[k + 1]) = 1 /\ acc[k + 1][1] = layer
        BY <4>1
      <4>4. Right(acc[k + 1], k + 1)
        BY <2>1, <3>2, <4>2, <4>3
      <4> QED
        BY <2>1, <4>4
    <3>3. CASE ~Exists(disk, cands[k + 1])
      <4>1. acc[k + 1] = << >>
        BY <3>1, <3>3 DEF AddLayer
      <4>2. Right(acc[k + 1], k + 1)
        BY <2>5, <2>7, <3>3, <4>1
      <4> QED
        BY <2>1, <4>2
    <3> QED
      BY <3>2, <3>3
  <2> QED
    BY <2>3, <2>6, <2>7
<1>4. Right(acc[n], n)
  <2>1. n \in K
    <3> HIDE DEF K, n
    <3> QED
      BY <1>0, <1>2, <1>3, Induction
  <2> QED
    BY <2>1
<1>5. acc[n] \in Lists(P)
  BY <1>0, <1>1
<1> QED
  BY <1>0, <1>1, <1>4, <1>5

(***************************************************************************)
(* The layers after the first k directories, g being the global one.       *)
(***************************************************************************)

Key(disk, out, i) == KeyOf(disk, out[i].dir)

FromDirs(out, g, target, dirs, k) ==
  \A i \in Len(g) + 1 .. Len(out) :
    \E m \in 1 .. k : out[i] = [scope |-> ScopeForDir(dirs[m], target), dir |-> dirs[m]]

Descending(out, g) ==
  \A i, j \in Len(g) + 1 .. Len(out) : i < j => Len(out[i].dir) < Len(out[j].dir)

Distinct(disk, out) ==
  \A i, j \in 1 .. Len(out) : i # j => Key(disk, out, i) # Key(disk, out, j)

Complete(disk, out, dirs, k) ==
  \A m \in 1 .. k : Exists(disk, dirs[m]) =>
    \E i \in 1 .. Len(out) : Key(disk, out, i) = KeyOf(disk, dirs[m])

GlobalKept(out, g) == Len(g) <= Len(out) /\ \A i \in 1 .. Len(g) : out[i] = g[i]

LayersUpTo(disk, target, g, dirs, out, k) ==
  /\ GlobalKept(out, g) /\ FromDirs(out, g, target, dirs, k) /\ Descending(out, g)
  /\ Distinct(disk, out) /\ Complete(disk, out, dirs, k)

(* Directories on the way down have longer and longer names. *)
Deeper(dirs, n) ==
  /\ \A m \in 1 .. n : Len(dirs[m]) \in Nat
  /\ \A l, m \in 1 .. n : l < m => Len(dirs[l]) < Len(dirs[m])

(* One more directory. *)
LEMMA NextDirectory ==
  ASSUME NEW disk, NEW target, NEW P, NEW g \in Lists(P), NEW dirs \in Seq(P),
         NEW n \in Nat, Deeper(dirs, n), n = Len(dirs),
         NEW k \in 0 .. n, k < n, NEW out \in Lists(P),
         LayersUpTo(disk, target, g, dirs, out, k)
  PROVE  LayersUpTo(disk, target, g, dirs, WithDir(disk, target, out, dirs[k + 1]), k + 1)
<1> DEFINE dir   == dirs[k + 1]
           layer == [scope |-> ScopeForDir(dir, target), dir |-> dir]
           new   == WithDir(disk, target, out, dir)
           E     == [scope : Scopes, dir : P]
<1>0. k \in Nat /\ k + 1 \in 1 .. n /\ (\A m \in 1 .. k : m \in 1 .. n /\ m < k + 1)
      /\ (\A m \in 1 .. k : m \in 1 .. k + 1) /\ (\A m \in 1 .. k + 1 : m = k + 1 \/ m \in 1 .. k)
  OBVIOUS
<1>1. /\ GlobalKept(out, g) /\ FromDirs(out, g, target, dirs, k) /\ Descending(out, g)
      /\ Distinct(disk, out) /\ Complete(disk, out, dirs, k)
  BY DEF LayersUpTo
<1>2. dir \in P
  BY <1>0
<1>3. layer \in E /\ layer.dir = dir
  BY <1>2, ScopeType
<1>4. layer = [scope |-> ScopeForDir(dirs[k + 1], target), dir |-> dirs[k + 1]]
  OBVIOUS
<1>5. CASE Exists(disk, dir) /\ \A i \in DOMAIN out : KeyOf(disk, out[i].dir) # KeyOf(disk, dir)
  <2>1. new = Append(out, layer)
    BY <1>5 DEF WithDir, AddLayer
  <2>2. out \in Seq(E) /\ g \in Seq(E)
    BY DEF Lists
  <2> HIDE DEF E, layer, new
  <2>3. /\ Len(out) \in Nat /\ Len(g) \in Nat /\ DOMAIN out = 1 .. Len(out)
        /\ Len(new) = Len(out) + 1
        /\ \A i \in 1 .. Len(out) : new[i] = out[i]
        /\ new[Len(out) + 1] = layer
    BY <1>3, <2>1, <2>2, Appended
  <2>4. \A i \in 1 .. Len(new) : i \in 1 .. Len(out) \/ i = Len(new)
    BY <2>3
  <2>5. \A i \in Len(g) + 1 .. Len(new) : i \in Len(g) + 1 .. Len(out) \/ i = Len(new)
    BY <2>3
  <2>6. \A i \in Len(g) + 1 .. Len(out) : i \in 1 .. Len(out) /\ new[i] = out[i]
    BY <2>3
  <2>7. Len(new) \notin 1 .. Len(out) /\ new[Len(new)] = layer
    BY <2>3
  <2>8. GlobalKept(new, g)
    BY <1>1, <2>3 DEF GlobalKept
  <2>9. FromDirs(new, g, target, dirs, k + 1)
    <3>1. ASSUME NEW i \in Len(g) + 1 .. Len(new)
          PROVE  \E m \in 1 .. k + 1 : new[i] = [scope |-> ScopeForDir(dirs[m], target), dir |-> dirs[m]]
      <4>1. CASE i \in Len(g) + 1 .. Len(out)
        BY <1>0, <1>1, <2>6, <4>1 DEF FromDirs
      <4>2. CASE i = Len(new)
        <5>1. new[i] = [scope |-> ScopeForDir(dirs[k + 1], target), dir |-> dirs[k + 1]]
          BY <1>4, <2>7, <4>2
        <5>2. k + 1 \in 1 .. k + 1
          BY <1>0
        <5> QED
          BY <5>1, <5>2
      <4> QED
        BY <2>5, <4>1, <4>2
    <3> QED
      BY <3>1 DEF FromDirs
  <2>10. Descending(new, g)
    <3>1. \A i \in Len(g) + 1 .. Len(out) : Len(out[i].dir) < Len(dir)
      <4>1. ASSUME NEW i \in Len(g) + 1 .. Len(out) PROVE Len(out[i].dir) < Len(dir)
        <5>1. PICK m \in 1 .. k : out[i] = [scope |-> ScopeForDir(dirs[m], target), dir |-> dirs[m]]
          BY <1>1 DEF FromDirs
        <5>2. out[i].dir = dirs[m]
          BY <5>1
        <5>3. Len(dirs[m]) < Len(dirs[k + 1])
          BY <1>0 DEF Deeper
        <5> QED
          BY <5>2, <5>3
      <4> QED
        BY <4>1
    <3>2. ASSUME NEW i \in Len(g) + 1 .. Len(new), NEW j \in Len(g) + 1 .. Len(new), i < j
          PROVE  Len(new[i].dir) < Len(new[j].dir)
      <4>1. i \in Len(g) + 1 .. Len(out)
        BY <2>3, <3>2
      <4>2. new[i] = out[i]
        BY <2>6, <4>1
      <4>3. CASE j \in Len(g) + 1 .. Len(out)
        <5>1. new[j] = out[j]
          BY <2>6, <4>3
        <5> QED
          BY <1>1, <3>2, <4>1, <4>2, <4>3, <5>1 DEF Descending
      <4>4. CASE j = Len(new)
        <5>1. new[j].dir = dir
          BY <1>3, <2>7, <4>4
        <5> HIDE DEF dir
        <5> QED
          BY <3>1, <4>1, <4>2, <5>1
      <4> QED
        BY <2>5, <4>3, <4>4
    <3> QED
      BY <3>2 DEF Descending
  <2>11. Distinct(disk, new)
    <3>1. \A i \in 1 .. Len(out) : Key(disk, new, i) = Key(disk, out, i) /\ Key(disk, out, i) # KeyOf(disk, dir)
      BY <1>5, <2>3 DEF Key
    <3>2. Key(disk, new, Len(new)) = KeyOf(disk, dir)
      BY <1>3, <2>7 DEF Key
    <3> HIDE DEF dir
    <3>3. ASSUME NEW i \in 1 .. Len(new), NEW j \in 1 .. Len(new), i # j
          PROVE  Key(disk, new, i) # Key(disk, new, j)
      BY <1>1, <2>4, <3>1, <3>2, <3>3 DEF Distinct
    <3> QED
      BY <3>3 DEF Distinct
  <2>12. Complete(disk, new, dirs, k + 1)
    <3>1. \A i \in 1 .. Len(out) : i \in 1 .. Len(new) /\ Key(disk, new, i) = Key(disk, out, i)
      BY <2>3 DEF Key
    <3>2. Key(disk, new, Len(new)) = KeyOf(disk, dirs[k + 1]) /\ Len(new) \in 1 .. Len(new)
      BY <1>3, <2>3, <2>7 DEF Key
    <3> QED
      BY <1>0, <1>1, <3>1, <3>2 DEF Complete
  <2> QED
    BY <2>8, <2>9, <2>10, <2>11, <2>12 DEF LayersUpTo, new
<1>6. CASE ~(Exists(disk, dir) /\ \A i \in DOMAIN out : KeyOf(disk, out[i].dir) # KeyOf(disk, dir))
  <2>1. new = out
    BY <1>6 DEF WithDir, AddLayer
  <2>2. DOMAIN out = 1 .. Len(out)
    BY DEF Lists
  <2>3. Exists(disk, dir) => \E i \in 1 .. Len(out) : Key(disk, out, i) = KeyOf(disk, dir)
    BY <1>6, <2>2 DEF Key
  <2>4. Complete(disk, out, dirs, k + 1)
    BY <1>0, <1>1, <2>3 DEF Complete
  <2>5. FromDirs(out, g, target, dirs, k + 1)
    BY <1>0, <1>1 DEF FromDirs
  <2> QED
    BY <1>1, <2>1, <2>4, <2>5 DEF LayersUpTo
<1> QED
  BY <1>5, <1>6

(* The beginning of a path. *)
LEMMA Prefix ==
  ASSUME NEW S, NEW path \in Seq(S), NEW n \in 0 .. Len(path)
  PROVE  /\ SubSeq(path, 1, n) \in Seq(S) /\ Len(SubSeq(path, 1, n)) = n
         /\ \A i \in 1 .. n : SubSeq(path, 1, n)[i] = path[i]
  OBVIOUS

(* The beginning of the beginning of a path. *)
LEMMA PrefixOfPrefix ==
  ASSUME NEW S, NEW path \in Seq(S), NEW n \in 0 .. Len(path), NEW m \in 0 .. n
  PROVE  SubSeq(SubSeq(path, 1, n), 1, m) = SubSeq(path, 1, m)
  OBVIOUS

(* The directories on the way to path. *)
LEMMA OnTheWay ==
  ASSUME NEW S, NEW path \in Seq(S)
  PROVE  /\ DirsTo(path) \in Seq(Range(DirsTo(path)))
         /\ \A m \in 1 .. Len(DirsTo(path)) :
              \E k \in 0 .. Len(path) : DirsTo(path)[m] = SubSeq(path, 1, k)
         /\ Deeper(DirsTo(path), Len(DirsTo(path)))
<1> DEFINE top == IF IsPrefix(Home, path) THEN Len(Home) ELSE 0
           n   == Len(path) - top + 1
           D   == [i \in 1 .. n |-> SubSeq(path, 1, top + i - 1)]
<1>1. top \in 0 .. Len(path)
  BY DEF IsPrefix, Home
<1>2. DirsTo(path) = D
  BY DEF DirsTo
<1> HIDE DEF top
<1>3. n \in Nat /\ Len(D) = n /\ \A i \in 1 .. n : D[i] \in Range(D)
  BY <1>1 DEF Range
<1>4. D \in Seq(Range(D))
  <2> DEFINE R == Range(D)
  <2>1. D = [i \in 1 .. n |-> D[i]] /\ \A i \in 1 .. n : D[i] \in R
    BY <1>3
  <2> HIDE DEF D, R
  <2>2. D \in [1 .. n -> R]
    BY <2>1
  <2>3. n \in Nat
    BY <1>3
  <2> HIDE DEF n
  <2>4. D \in Seq(R)
    BY <2>2, <2>3
  <2> QED
    BY <2>4 DEF R
<1>5. ASSUME NEW m \in 1 .. n
      PROVE  /\ top + m - 1 \in 0 .. Len(path)
             /\ D[m] = SubSeq(path, 1, top + m - 1)
             /\ Len(D[m]) = top + m - 1
  <2>1. top + m - 1 \in 0 .. Len(path)
    BY <1>1
  <2>2. D[m] = SubSeq(path, 1, top + m - 1)
    OBVIOUS
  <2> HIDE DEF D
  <2> QED
    BY <2>1, <2>2, Prefix
<1> HIDE DEF D
<1>6. \A m \in 1 .. n : \E k \in 0 .. Len(path) : D[m] = SubSeq(path, 1, k)
  BY <1>5
<1>7. Deeper(D, n)
  <2>1. \A m \in 1 .. n : Len(D[m]) \in Nat
    BY <1>5
  <2>2. ASSUME NEW l \in 1 .. n, NEW m \in 1 .. n, l < m PROVE Len(D[l]) < Len(D[m])
    <3>1. Len(D[l]) = top + l - 1 /\ Len(D[m]) = top + m - 1
      BY <1>5
    <3> QED
      BY <1>1, <2>2, <3>1
  <2> QED
    BY <2>1, <2>2 DEF Deeper
<1> QED
  BY <1>2, <1>3, <1>4, <1>6, <1>7

(* What DiscoverLayers finds. *)
LEMMA Discovered ==
  ASSUME NEW disk, NEW S, NEW path \in Seq(S)
  PROVE  \E g, P : /\ g \in Lists(P) /\ DiscoverLayers(disk, path) \in Lists(P)
                   /\ Len(g) = IF \E d \in Range(GlobalCandidates) : Exists(disk, d) THEN 1 ELSE 0
                   /\ Len(g) = 1 => g[1].scope = "global"
                   /\ LayersUpTo(disk, path, g, DirsTo(path), DiscoverLayers(disk, path),
                                 Len(DirsTo(path)))
<1> DEFINE dirs == DirsTo(path)
           n == Len(dirs)
           P == Range(GlobalCandidates) \union Range(dirs)
           g == GlobalLayers(disk, GlobalCandidates)
<1>1. dirs \in Seq(P) /\ n \in Nat /\ Deeper(dirs, n)
  <2>1. dirs \in Seq(Range(dirs)) /\ Deeper(dirs, n)
    BY OnTheWay
  <2> HIDE DEF dirs
  <2>2. Range(dirs) \subseteq P
    OBVIOUS
  <2> HIDE DEF P
  <2> QED
    BY <2>1, <2>2
<1>2. GlobalCandidates \in Seq(P) /\ DOMAIN GlobalCandidates = 1 .. Len(GlobalCandidates)
  <2>1. \A i \in DOMAIN GlobalCandidates : GlobalCandidates[i] \in P
    BY DEF Range
  <2>2. Len(GlobalCandidates) = 4 /\ DOMAIN GlobalCandidates = 1 .. 4
    BY DEF GlobalCandidates
  <2>3. GlobalCandidates = [i \in 1 .. 4 |-> GlobalCandidates[i]]
    BY DEF GlobalCandidates
  <2> HIDE DEF P
  <2> QED
    BY <2>1, <2>2, <2>3
<1>3. DiscoverLayers(disk, path) = DirLayers(disk, path, g, dirs)
  BY DEF DiscoverLayers, DirLayers, GlobalLayers
<1> HIDE DEF P, dirs
<1>4. /\ g \in Lists(P)
      /\ Len(g) = IF \E i \in DOMAIN GlobalCandidates : Exists(disk, GlobalCandidates[i]) THEN 1 ELSE 0
      /\ Len(g) = 1 => g[1].scope = "global"
  BY <1>2, OneGlobalLayer
<1>5. (\E i \in DOMAIN GlobalCandidates : Exists(disk, GlobalCandidates[i]))
        <=> \E d \in Range(GlobalCandidates) : Exists(disk, d)
  BY DEF Range
<1> HIDE DEF g
<1>13. PICK acc : LayerRun(acc, disk, path, P, g, dirs)
  BY <1>1, <1>4, LayerSteps
<1>6. /\ acc \in [0 .. n -> Lists(P)]
      /\ acc[0] = g
      /\ \A k \in 1 .. n : acc[k] = WithDir(disk, path, acc[k - 1], dirs[k])
      /\ DirLayers(disk, path, g, dirs) = acc[n]
  BY <1>13 DEF LayerRun
<1> DEFINE K == {k \in 0 .. n : LayersUpTo(disk, path, g, dirs, acc[k], k)}
<1>7. 0 \in K
  <2>0. Len(g) \in {0, 1}
    BY <1>4
  <2>1. GlobalKept(g, g)
    BY <2>0 DEF GlobalKept
  <2>4. FromDirs(g, g, path, dirs, 0) /\ Descending(g, g)
    <3>1. \A i \in Len(g) + 1 .. Len(g) : FALSE
      BY <2>0
    <3> QED
      BY <3>1 DEF FromDirs, Descending
  <2>5. Distinct(disk, g)
    <3>1. \A i \in 1 .. Len(g) : i = 1
      <4>1. CASE Len(g) = 0
        BY <4>1
      <4>2. CASE Len(g) = 1
        BY <4>2
      <4> QED
        BY <2>0, <4>1, <4>2
    <3> QED
      BY <3>1 DEF Distinct
  <2>6. Complete(disk, g, dirs, 0)
    BY DEF Complete
  <2>2. LayersUpTo(disk, path, g, dirs, g, 0)
    BY <2>1, <2>4, <2>5, <2>6 DEF LayersUpTo
  <2>3. 0 \in 0 .. n
    BY <1>1
  <2> QED
    BY <1>6, <2>2, <2>3
<1>8. ASSUME NEW k \in 0 .. n, k \in K, k < n PROVE k + 1 \in K
  <2>1. k + 1 \in 0 .. n /\ k + 1 \in 1 .. n /\ (k + 1) - 1 = k
    BY <1>1, <1>8
  <2>2. acc[k + 1] = WithDir(disk, path, acc[k], dirs[k + 1]) /\ acc[k] \in Lists(P)
    BY <1>6, <2>1
  <2>3. LayersUpTo(disk, path, g, dirs, acc[k], k)
    BY <1>8
  <2>4. LayersUpTo(disk, path, g, dirs, acc[k + 1], k + 1)
    BY <1>1, <1>4, <1>8, <2>2, <2>3, NextDirectory
  <2> QED
    BY <2>1, <2>4
<1>9. LayersUpTo(disk, path, g, dirs, acc[n], n)
  <2>1. n \in K
    <3>1. n \in Nat
      BY <1>1
    <3>2. 0 \in K /\ \A k \in 0 .. n : k \in K /\ k < n => k + 1 \in K
      <4> HIDE DEF K, n
      <4> QED
        BY <1>7, <1>8
    <3> HIDE DEF K, n
    <3>3. \A k \in 0 .. n : k \in K
      BY <3>1, <3>2, Induction
    <3> QED
      BY <3>1, <3>3
  <2> QED
    BY <2>1
<1>10. acc[n] \in Lists(P)
  BY <1>1, <1>6
<1>11. DiscoverLayers(disk, path) = acc[n]
  BY <1>3, <1>6
<1>12. /\ g \in Lists(P) /\ DiscoverLayers(disk, path) \in Lists(P)
       /\ Len(g) = IF \E d \in Range(GlobalCandidates) : Exists(disk, d) THEN 1 ELSE 0
       /\ Len(g) = 1 => g[1].scope = "global"
       /\ LayersUpTo(disk, path, g, DirsTo(path), DiscoverLayers(disk, path), Len(DirsTo(path)))
  BY <1>4, <1>5, <1>9, <1>10, <1>11 DEF dirs
<1> QED
  BY <1>12

(* Whatever the disk and its links, and for every path. *)
LEMMA LayersApplyOnce ==
  ASSUME NEW disk, NEW S, NEW path \in Seq(S)
  PROVE  LayersInOrder(disk, path)
<1> DEFINE layers == DiscoverLayers(disk, path)
           dirs   == DirsTo(path)
           n      == Len(dirs)
           found  == \E d \in Range(GlobalCandidates) : Exists(disk, d)
<1>1. PICK g, P : /\ g \in Lists(P) /\ layers \in Lists(P)
                  /\ Len(g) = IF found THEN 1 ELSE 0
                  /\ Len(g) = 1 => g[1].scope = "global"
                  /\ LayersUpTo(disk, path, g, dirs, layers, n)
  BY Discovered
<1>2. /\ dirs \in Seq(Range(dirs))
      /\ \A m \in 1 .. n : \E k \in 0 .. Len(path) : dirs[m] = SubSeq(path, 1, k)
  BY OnTheWay
<1>3. n \in Nat /\ DOMAIN dirs = 1 .. n
  BY <1>2
<1> HIDE DEF layers, dirs, n, found
<1>4. /\ GlobalKept(layers, g) /\ FromDirs(layers, g, path, dirs, n) /\ Descending(layers, g)
      /\ Distinct(disk, layers) /\ Complete(disk, layers, dirs, n)
  BY <1>1 DEF LayersUpTo
<1>5. /\ DOMAIN layers = 1 .. Len(layers) /\ Len(layers) \in Nat
      /\ Len(g) \in {0, 1} /\ (Len(g) = 1 <=> found)
  BY <1>1 DEF Lists
<1>6. \A i \in 1 .. Len(layers) : i \in 1 .. Len(g) \/ i \in Len(g) + 1 .. Len(layers)
  BY <1>5
(* Where a layer after the global one comes from. *)
<1>7. ASSUME NEW i \in Len(g) + 1 .. Len(layers)
      PROVE  \E k \in 0 .. Len(path) : /\ layers[i].dir = SubSeq(path, 1, k)
                                       /\ layers[i].scope = ScopeForDir(layers[i].dir, path)
  <2>1. PICK m \in 1 .. n : layers[i] = [scope |-> ScopeForDir(dirs[m], path), dir |-> dirs[m]]
    BY <1>4 DEF FromDirs
  <2>2. layers[i].dir = dirs[m] /\ layers[i].scope = ScopeForDir(dirs[m], path)
    BY <2>1
  <2> QED
    BY <1>2, <2>2
<1>8. ASSUME NEW d \in Range(dirs), Exists(disk, d)
      PROVE  Cardinality({i \in DOMAIN layers : disk.real[layers[i].dir] = disk.real[d]}) = 1
  <2>1. PICK m \in 1 .. n : d = dirs[m]
    BY <1>3 DEF Range
  <2>2. PICK i \in 1 .. Len(layers) : Key(disk, layers, i) = KeyOf(disk, d)
    BY <1>4, <1>8, <2>1 DEF Complete
  <2>3. \A j \in 1 .. Len(layers) : Key(disk, layers, j) = KeyOf(disk, d) => j = i
    BY <1>4, <2>2 DEF Distinct
  <2>4. {j \in DOMAIN layers : disk.real[layers[j].dir] = disk.real[d]} = {i}
    BY <1>5, <2>2, <2>3 DEF Key, KeyOf
  <2> QED
    BY <2>4, FS_Singleton
<1>9. ASSUME NEW i \in DOMAIN layers
      PROVE  layers[i].scope = "global" <=> (found /\ i = 1)
  <2>0. i \in 1 .. Len(layers)
    BY <1>5
  <2>1. CASE i \in 1 .. Len(g)
    <3>1. Len(g) = 1 /\ i = 1
      <4>1. CASE Len(g) = 0
        BY <2>1, <4>1
      <4>2. CASE Len(g) = 1
        BY <2>1, <4>2
      <4> QED
        BY <1>5, <4>1, <4>2
    <3>2. layers[i] = g[i]
      BY <1>4, <2>1 DEF GlobalKept
    <3> QED
      BY <1>1, <1>5, <3>1, <3>2
  <2>2. CASE i \in Len(g) + 1 .. Len(layers)
    <3>1. layers[i].scope = ScopeForDir(layers[i].dir, path)
      BY <1>7, <2>2
    <3>2. layers[i].scope # "global"
      BY <3>1, ScopeType
    <3>3. ~(found /\ i = 1)
      BY <1>5, <2>2
    <3> QED
      BY <3>2, <3>3
  <2> QED
    BY <1>6, <2>0, <2>1, <2>2
<1>10. ASSUME NEW i \in DOMAIN layers, NEW j \in DOMAIN layers, 1 < i, i < j
       PROVE  IsStrictPrefix(layers[i].dir, layers[j].dir)
  <2>1. i \in Len(g) + 1 .. Len(layers) /\ j \in Len(g) + 1 .. Len(layers)
    <3>1. i \in 1 .. Len(layers) /\ j \in 1 .. Len(layers) /\ Len(layers) \in Nat
      BY <1>5
    <3>2. CASE Len(g) = 0
      BY <3>1, <3>2
    <3>3. CASE Len(g) = 1
      BY <1>10, <3>1, <3>3
    <3> QED
      BY <1>5, <3>2, <3>3
  <2>2. Len(layers[i].dir) < Len(layers[j].dir)
    BY <1>4, <1>10, <2>1 DEF Descending
  <2>3. PICK k \in 0 .. Len(path) : layers[i].dir = SubSeq(path, 1, k)
    BY <1>7, <2>1
  <2>4. PICK l \in 0 .. Len(path) : layers[j].dir = SubSeq(path, 1, l)
    BY <1>7, <2>1
  <2> DEFINE a == layers[i].dir
             b == layers[j].dir
  <2>5. Len(a) = k /\ Len(b) = l
    BY <2>3, <2>4, Prefix
  <2>6. k < l /\ k \in 0 .. k /\ k \in 0 .. l
    BY <2>2, <2>5
  <2>7. SubSeq(a, 1, k) = SubSeq(path, 1, k)
    BY <2>3, <2>6, PrefixOfPrefix
  <2>8. SubSeq(b, 1, k) = SubSeq(path, 1, k)
    BY <2>4, <2>6, PrefixOfPrefix
  <2> HIDE DEF a, b
  <2>9. Len(a) <= Len(b) /\ SubSeq(a, 1, Len(a)) = SubSeq(b, 1, Len(a)) /\ a # b
    BY <2>5, <2>6, <2>7, <2>8
  <2> QED
    BY <2>9 DEF IsStrictPrefix, IsPrefix, a, b
<1>11. ASSUME NEW i \in DOMAIN layers, layers[i].scope = "workspace"
       PROVE  Last(layers[i].dir) = WorkspaceFor(path)
  <2> DEFINE dir == layers[i].dir
  <2>0. i \in 1 .. Len(layers) /\ layers[i].scope # "global"
    BY <1>5, <1>11
  <2>1. i \in Len(g) + 1 .. Len(layers)
    <3>1. i \notin 1 .. Len(g)
      BY <1>1, <1>4, <1>5, <2>0 DEF GlobalKept
    <3> QED
      BY <1>6, <2>0, <3>1
  <2>2. PICK k \in 0 .. Len(path) : dir = SubSeq(path, 1, k) /\ ScopeForDir(dir, path) = "workspace"
    BY <1>7, <1>11, <2>1
  <2>3. dir # Root /\ Front(dir) = GitRoot
    <3> HIDE DEF dir
    <3>1. CASE dir = Home
      BY <2>2, <3>1 DEF ScopeForDir
    <3>2. CASE dir # Home /\ dir = path
      BY <2>2, <3>2 DEF ScopeForDir
    <3>3. CASE dir # Home /\ dir # path
      BY <2>2, <3>3 DEF ScopeForDir
    <3> QED
      BY <3>1, <3>2, <3>3
  <2>4. Len(dir) = k /\ dir \in Seq(S) /\ \A m \in 1 .. k : dir[m] = path[m]
    BY <2>2, Prefix
  <2> HIDE DEF dir
  <2>5. k >= 1
    BY <2>3, <2>4 DEF Root
  <2>6. GitRoot = SubSeq(path, 1, k - 1) /\ Len(GitRoot) = k - 1
    <3>1. k - 1 \in 0 .. k /\ k - 1 \in 0 .. Len(path)
      BY <2>5
    <3>2. GitRoot = SubSeq(dir, 1, k - 1)
      BY <2>3, <2>4 DEF Front
    <3>3. SubSeq(dir, 1, k - 1) = SubSeq(path, 1, k - 1)
      BY <2>2, <3>1, PrefixOfPrefix
    <3> QED
      BY <3>1, <3>2, <3>3, Prefix
  <2>7. IsStrictPrefix(GitRoot, path)
    <3>1. SubSeq(GitRoot, 1, Len(GitRoot)) = SubSeq(path, 1, Len(GitRoot))
      <4>1. k - 1 \in 0 .. k - 1 /\ k - 1 \in 0 .. Len(path)
        BY <2>5
      <4>2. SubSeq(SubSeq(path, 1, k - 1), 1, k - 1) = SubSeq(path, 1, k - 1)
        BY <4>1, PrefixOfPrefix
      <4> QED
        BY <2>6, <4>2
    <3>2. Len(GitRoot) < Len(path)
      BY <2>5, <2>6
    <3> QED
      BY <3>1, <3>2 DEF IsStrictPrefix, IsPrefix
  <2>8. WorkspaceFor(path) = path[k]
    BY <2>5, <2>6, <2>7 DEF WorkspaceFor
  <2>9. Last(dir) = path[k]
    BY <2>4, <2>5 DEF Last
  <2> QED
    BY <2>8, <2>9 DEF dir
<1> QED
  BY <1>8, <1>9, <1>10, <1>11 DEF LayersInOrder, layers, dirs, found

(***************************************************************************)
(* Recent sessions                                                         *)
(***************************************************************************)

(* What comes before the i-th of n in a stable sort by time, latest first. *)
Before(time, n, i) == {j \in 1 .. n : time[j] > time[i] \/ (time[j] = time[i] /\ j < i)}

(* Of two, one precedes the other, and then so does whatever precedes it. *)
LEMMA BeforeIsOrder ==
  ASSUME NEW n \in Nat, NEW time \in [1 .. n -> Int], NEW i \in 1 .. n, NEW j \in 1 .. n, i # j
  PROVE  /\ i \in Before(time, n, j) \/ j \in Before(time, n, i)
         /\ i \in Before(time, n, j) =>
              /\ Before(time, n, i) \subseteq Before(time, n, j)
              /\ i \notin Before(time, n, i)
              /\ time[i] >= time[j]
  BY DEF Before

(* There are n numbers from 1 to n, and from 0 to n - 1. *)
LEMMA IntervalSize ==
  ASSUME NEW n \in Nat
  PROVE  /\ IsFiniteSet(1 .. n) /\ Cardinality(1 .. n) = n
         /\ IsFiniteSet(0 .. n - 1) /\ Cardinality(0 .. n - 1) = n
<1>1. 1 \in Int /\ 0 \in Int /\ n \in Int /\ n - 1 \in Int
  OBVIOUS
<1>2. IsFiniteSet(1 .. n) /\ Cardinality(1 .. n) = IF 1 > n THEN 0 ELSE n - 1 + 1
  BY <1>1, FS_Interval
<1>3. IsFiniteSet(0 .. n - 1) /\ Cardinality(0 .. n - 1) = IF 0 > n - 1 THEN 0 ELSE n - 1 - 0 + 1
  BY <1>1, FS_Interval
<1> QED
  BY <1>2, <1>3

(* The later of two has more before it. *)
LEMMA RankGrows ==
  ASSUME NEW n \in Nat, NEW time \in [1 .. n -> Int], NEW i \in 1 .. n, NEW j \in 1 .. n,
         i \in Before(time, n, j)
  PROVE  Cardinality(Before(time, n, i)) < Cardinality(Before(time, n, j))
<1>1. i # j
  BY DEF Before
<1>2. Before(time, n, i) \subseteq Before(time, n, j) /\ i \notin Before(time, n, i)
  BY <1>1, BeforeIsOrder
<1>3. IsFiniteSet(1 .. n)
  BY IntervalSize
<1>4. Before(time, n, j) \in SUBSET (1 .. n)
  BY DEF Before
<1>5. IsFiniteSet(Before(time, n, j))
  BY <1>3, <1>4, FS_Subset
<1>6. /\ Cardinality(Before(time, n, i)) \in Nat /\ Cardinality(Before(time, n, j)) \in Nat
      /\ Cardinality(Before(time, n, i)) <= Cardinality(Before(time, n, j))
      /\ Cardinality(Before(time, n, i)) # Cardinality(Before(time, n, j))
  BY <1>2, <1>5, FS_Subset, FS_CardinalityType
<1> QED
  BY <1>6

(* Latest is a rearrangement of what it sorts, and sorted. *)
IsOrder(order, n, time) ==
  /\ order \in [1 .. n -> 1 .. n]
  /\ \A p, q \in 1 .. n : p # q => order[p] # order[q]
  /\ \A i \in 1 .. n : \E p \in 1 .. n : order[p] = i
  /\ \A p, q \in 1 .. n : p < q => time[order[p]] >= time[order[q]]

SortedBy(order, cands, n, time) ==
  IsOrder(order, n, time) /\ Latest(cands, time) = [p \in 1 .. n |-> cands[order[p]]]

(* Latest sorts. *)
LEMMA LatestSorts ==
  ASSUME NEW C, NEW cands \in Seq(C), NEW n, n = Len(cands), NEW time \in [1 .. n -> Int]
  PROVE  \E order : SortedBy(order, cands, n, time)
<1> DEFINE rank == [i \in 1 .. n |-> Cardinality(Before(time, n, i))]
           order == [p \in 1 .. n |-> CHOOSE i \in 1 .. n : Cardinality(Before(time, n, i)) = p - 1]
<1>0. n \in Nat /\ DOMAIN cands = 1 .. n
  OBVIOUS
<1>1. \A i, j \in 1 .. n : i \in Before(time, n, j) => rank[i] < rank[j]
  BY <1>0, RankGrows
<1>2. ASSUME NEW i \in 1 .. n PROVE rank[i] \in 0 .. n - 1
  <2>1. Before(time, n, i) \in SUBSET ((1 .. n) \ {i})
    BY DEF Before
  <2>2. IsFiniteSet(1 .. n) /\ Cardinality(1 .. n) = n
    BY <1>0, IntervalSize
  <2>3. IsFiniteSet((1 .. n) \ {i}) /\ Cardinality((1 .. n) \ {i}) = n - 1
    BY <2>2, FS_RemoveElement
  <2>4. Cardinality(Before(time, n, i)) \in Nat /\ Cardinality(Before(time, n, i)) <= n - 1
    BY <2>1, <2>3, FS_Subset, FS_CardinalityType
  <2> QED
    BY <1>0, <2>4
<1>3. \A i, j \in 1 .. n : i # j => rank[i] # rank[j]
  <2>1. ASSUME NEW i \in 1 .. n, NEW j \in 1 .. n, i # j PROVE rank[i] # rank[j]
    <3>1. i \in Before(time, n, j) \/ j \in Before(time, n, i)
      BY <1>0, <2>1, BeforeIsOrder
    <3>2. rank[i] \in 0 .. n - 1 /\ rank[j] \in 0 .. n - 1
      BY <1>2
    <3>3. rank[i] < rank[j] \/ rank[j] < rank[i]
      BY <1>1, <3>1
    <3> HIDE DEF rank
    <3> QED
      BY <3>2, <3>3
  <2> QED
    BY <2>1
<1> HIDE DEF rank
<1>4. ASSUME NEW p \in 1 .. n PROVE \E i \in 1 .. n : Cardinality(Before(time, n, i)) = p - 1
  <2>0. rank \in [1 .. n -> 0 .. n - 1]
    <3>1. rank = [i \in 1 .. n |-> rank[i]]
      BY DEF rank
    <3> QED
      BY <1>2, <3>1
  <2>1. rank \in Injection(1 .. n, 0 .. n - 1)
    BY <1>3, <2>0 DEF Injection, IsInjective
  <2>2. IsFiniteSet(0 .. n - 1) /\ Cardinality(0 .. n - 1) = n /\ Cardinality(1 .. n) = n
    BY <1>0, IntervalSize
  <2>3. rank \in Surjection(1 .. n, 0 .. n - 1)
    BY <2>1, <2>2, FS_Injection
  <2>4. p - 1 \in 0 .. n - 1
    BY <1>0
  <2> QED
    BY <2>3, <2>4 DEF Surjection, rank
<1>5. \A p \in 1 .. n : order[p] \in 1 .. n /\ rank[order[p]] = p - 1
  BY <1>4 DEF rank
<1>6. Latest(cands, time) = [p \in 1 .. n |-> cands[order[p]]]
  BY <1>0 DEF Latest, Before
<1> HIDE DEF order
<1>7. order \in [1 .. n -> 1 .. n]
  <2>1. order = [p \in 1 .. n |-> order[p]]
    BY DEF order
  <2> QED
    BY <1>5, <2>1
<1>8. \A p, q \in 1 .. n : p # q => order[p] # order[q]
  <2>1. ASSUME NEW p \in 1 .. n, NEW q \in 1 .. n, order[p] = order[q] PROVE p = q
    <3>1. p - 1 = q - 1
      BY <1>5, <2>1
    <3> QED
      BY <3>1
  <2> QED
    BY <2>1
<1>9. ASSUME NEW i \in 1 .. n PROVE \E p \in 1 .. n : order[p] = i
  <2>1. rank[i] \in 0 .. n - 1
    BY <1>2
  <2>2. rank[i] + 1 \in 1 .. n /\ (rank[i] + 1) - 1 = rank[i]
    BY <1>0, <2>1
  <2>3. order[rank[i] + 1] \in 1 .. n /\ rank[order[rank[i] + 1]] = rank[i]
    BY <1>5, <2>2
  <2> QED
    BY <1>3, <2>2, <2>3
<1>10. ASSUME NEW p \in 1 .. n, NEW q \in 1 .. n, p < q PROVE time[order[p]] >= time[order[q]]
  <2>1. /\ order[p] \in 1 .. n /\ order[q] \in 1 .. n /\ order[p] # order[q]
        /\ rank[order[p]] = p - 1 /\ rank[order[q]] = q - 1
    BY <1>5, <1>8, <1>10
  <2>2. order[q] \notin Before(time, n, order[p])
    BY <1>1, <1>10, <2>1
  <2> QED
    BY <1>0, <2>1, <2>2, BeforeIsOrder
<1>11. IsOrder(order, n, time)
  BY <1>7, <1>8, <1>9, <1>10 DEF IsOrder
<1> QED
  BY <1>6, <1>11 DEF SortedBy

Parse(budget, out, c) == IF Len(out) >= budget \/ ~c.parses THEN out ELSE Append(out, c)

ParseRun(acc, C, ranked, budget) ==
  /\ acc \in [0 .. Len(ranked) -> Seq(C)]
  /\ acc[0] = << >>
  /\ \A k \in 1 .. Len(ranked) : acc[k] = Parse(budget, acc[k - 1], ranked[k])
  /\ ParseUpTo(ranked, budget) = acc[Len(ranked)]

(* ParseUpTo, candidate by candidate. *)
LEMMA ParseSteps ==
  ASSUME NEW C, NEW ranked \in Seq(C), NEW budget \in Nat
  PROVE  \E acc : ParseRun(acc, C, ranked, budget)
<1> DEFINE n == Len(ranked)
           A == Seq(C)
           move == [p \in A \X (1 .. n) |-> Parse(budget, p[1], ranked[p[2]])]
           Folded(g) == [s \in SUBSET DOMAIN ranked |->
                           IF s = {} THEN << >> ELSE Parse(budget, g[s \ {Max(s)}], ranked[Max(s)])]
           iter == CHOOSE g : g = Folded(g)
<1>0. n \in Nat /\ DOMAIN ranked = 1 .. n /\ \A i \in 1 .. n : ranked[i] \in C
  OBVIOUS
<1>1. << >> \in A
  OBVIOUS
<1>2. move \in [A \X (1 .. n) -> A]
  <2>1. \A out \in A, c \in C : Parse(budget, out, c) \in A
    BY DEF Parse
  <2> HIDE DEF A
  <2> QED
    BY <1>0, <2>1
<1>3. \E g : g = Folded(g)
  <2>0. PICK g : IsFold(g, n, A, << >>, move)
    <3> HIDE DEF move, A, n
    <3> QED
      BY <1>0, <1>1, <1>2, FoldExists
  <2>1. /\ g \in [SUBSET (1 .. n) -> A]
        /\ \A s \in SUBSET (1 .. n) :
             g[s] = IF s = {} THEN << >> ELSE move[<<g[s \ {Max(s)}], Max(s)>>]
    BY <2>0 DEF IsFold
  <2> HIDE DEF A
  <2>2. ASSUME NEW s \in SUBSET (1 .. n), s # {}
        PROVE  g[s] = Parse(budget, g[s \ {Max(s)}], ranked[Max(s)])
    <3>1. Max(s) \in 1 .. n /\ s \ {Max(s)} \in SUBSET (1 .. n)
      BY <1>0, <2>2, MaxIsLast
    <3>2. <<g[s \ {Max(s)}], Max(s)>> \in A \X (1 .. n)
      BY <2>1, <3>1
    <3>3. g[s] = move[<<g[s \ {Max(s)}], Max(s)>>]
      BY <2>1, <2>2
    <3> QED
      BY <3>2, <3>3
  <2>3. g[{}] = << >> /\ {} \in SUBSET (1 .. n)
    BY <2>1
  <2>4. \A s \in SUBSET (1 .. n) : g[s] = Folded(g)[s]
    BY <1>0, <2>2, <2>3
  <2>5. g = Folded(g)
    BY <1>0, <2>1, <2>4
  <2> QED
    BY <2>5
<1>4. iter = Folded(iter)
  BY <1>3
<1>5. ParseUpTo(ranked, budget) = iter[DOMAIN ranked]
  BY DEF ParseUpTo, FoldLeft, MapThenFoldSet, Parse
<1> HIDE DEF iter, A
<1>6. iter[{}] = << >>
  BY <1>4
<1>7. ASSUME NEW s \in SUBSET (1 .. n), s # {}, iter[s \ {Max(s)}] \in A
      PROVE  iter[s] = move[<<iter[s \ {Max(s)}], Max(s)>>]
  <2>1. Max(s) \in 1 .. n
    BY <1>0, <1>7, MaxIsLast
  <2>2. iter[s] = Parse(budget, iter[s \ {Max(s)}], ranked[Max(s)])
    BY <1>0, <1>4, <1>7
  <2> QED
    BY <1>7, <2>1, <2>2
<1>8. /\ iter[1 .. 0] = << >>
      /\ \A k \in 0 .. n : iter[1 .. k] \in A
      /\ \A k \in 1 .. n : iter[1 .. k] = move[<<iter[1 .. (k - 1)], k>>]
  <2>1. GoesUp(iter, n, A, << >>, move)
    <3> HIDE DEF move, n
    <3> QED
      BY <1>0, <1>1, <1>2, <1>6, <1>7, FoldStays
  <2> QED
    BY <2>1 DEF GoesUp
<1>9. ASSUME NEW k \in 1 .. n PROVE iter[1 .. k] = Parse(budget, iter[1 .. (k - 1)], ranked[k])
  <2>1. k - 1 \in 0 .. n
    BY <1>0
  <2>2. <<iter[1 .. (k - 1)], k>> \in A \X (1 .. n)
    BY <1>8, <2>1
  <2> QED
    BY <1>8, <2>2
<1> DEFINE acc == [k \in 0 .. n |-> iter[1 .. k]]
<1>10. acc \in [0 .. n -> A]
  BY <1>8
<1>11. acc[0] = << >> /\ ParseUpTo(ranked, budget) = acc[n]
  BY <1>0, <1>5, <1>8
<1>12. ASSUME NEW k \in 1 .. n PROVE acc[k] = Parse(budget, acc[k - 1], ranked[k])
  <2>1. k \in 0 .. n /\ k - 1 \in 0 .. n
    BY <1>0
  <2> QED
    BY <1>9, <2>1
<1> HIDE DEF acc
<1> QED
  BY <1>10, <1>11, <1>12 DEF A, ParseRun

(* What is parsed of the first k: those that parse, up to the budget. *)
Kept(out, ranked, at, k, budget) ==
  /\ Len(out) <= budget
  /\ at \in [1 .. Len(out) -> 1 .. k]
  /\ \A r \in 1 .. Len(out) : out[r] = ranked[at[r]] /\ ranked[at[r]].parses
  /\ \A r, s \in 1 .. Len(out) : r < s => at[r] < at[s]
  /\ \A p \in 1 .. k : ranked[p].parses =>
       \/ \E r \in 1 .. Len(out) : at[r] = p
       \/ Len(out) = budget /\ \A r \in 1 .. Len(out) : at[r] < p

(* One more candidate. *)
LEMMA ParseOne ==
  ASSUME NEW C, NEW ranked, NEW budget \in Nat, NEW k \in Nat, NEW out \in Seq(C), NEW at,
         ranked[k + 1] \in C, Kept(out, ranked, at, k, budget)
  PROVE  \E new : Kept(Parse(budget, out, ranked[k + 1]), ranked, new, k + 1, budget)
<1> DEFINE c == ranked[k + 1]
           n == Len(out)
<1>0. n \in Nat
  OBVIOUS
<1>1. /\ n <= budget
      /\ at \in [1 .. n -> 1 .. k]
      /\ \A r \in 1 .. n : out[r] = ranked[at[r]] /\ ranked[at[r]].parses
      /\ \A r, s \in 1 .. n : r < s => at[r] < at[s]
      /\ \A p \in 1 .. k : ranked[p].parses =>
           \/ \E r \in 1 .. n : at[r] = p
           \/ n = budget /\ \A r \in 1 .. n : at[r] < p
  BY DEF Kept
<1>2. /\ \A p \in 1 .. k : p \in 1 .. k + 1 /\ p < k + 1
      /\ \A p \in 1 .. k + 1 : p \in 1 .. k \/ p = k + 1
      /\ k + 1 \in 1 .. k + 1
  OBVIOUS
<1>3. CASE n >= budget \/ ~c.parses
  <2>1. Parse(budget, out, c) = out
    BY <1>3 DEF Parse
  <2>2. at \in [1 .. n -> 1 .. k + 1]
    BY <1>1, <1>2
  <2>3. ASSUME NEW p \in 1 .. k + 1, ranked[p].parses
        PROVE  \/ \E r \in 1 .. n : at[r] = p
               \/ n = budget /\ \A r \in 1 .. n : at[r] < p
    <3>1. CASE p \in 1 .. k
      BY <1>1, <2>3, <3>1
    <3>2. CASE p = k + 1
      <4>1. n = budget
        BY <1>0, <1>1, <1>3, <2>3, <3>2
      <4>2. \A r \in 1 .. n : at[r] < p
        BY <1>1, <1>2, <3>2
      <4> QED
        BY <4>1, <4>2
    <3> QED
      BY <1>2, <3>1, <3>2
  <2>4. Kept(out, ranked, at, k + 1, budget)
    BY <1>1, <2>2, <2>3 DEF Kept
  <2> QED
    BY <2>1, <2>4
<1>4. CASE n < budget /\ c.parses
  <2> DEFINE more == Append(out, c)
             new  == [r \in 1 .. n + 1 |-> IF r = n + 1 THEN k + 1 ELSE at[r]]
  <2>1. Parse(budget, out, c) = more
    BY <1>0, <1>4 DEF Parse
  <2>2. /\ Len(more) = n + 1 /\ more[n + 1] = c
        /\ \A r \in 1 .. n : more[r] = out[r]
    BY Appended
  <2>3. /\ \A r \in 1 .. n + 1 : r \in 1 .. n \/ r = n + 1
        /\ \A r \in 1 .. n : r \in 1 .. n + 1 /\ r # n + 1
        /\ n + 1 \in 1 .. n + 1
    BY <1>0
  <2> HIDE DEF more
  <2>4. new[n + 1] = k + 1 /\ \A r \in 1 .. n : new[r] = at[r]
    BY <2>3
  <2>5. new \in [1 .. n + 1 -> 1 .. k + 1]
    BY <1>1, <1>2, <2>3
  <2> HIDE DEF new
  <2>6. \A r \in 1 .. n + 1 : more[r] = ranked[new[r]] /\ ranked[new[r]].parses
    BY <1>1, <1>4, <2>2, <2>3, <2>4
  <2>7. ASSUME NEW r \in 1 .. n + 1, NEW s \in 1 .. n + 1, r < s PROVE new[r] < new[s]
    <3>1. r \in 1 .. n
      BY <1>0, <2>7
    <3>2. CASE s \in 1 .. n
      BY <1>1, <2>4, <2>7, <3>1, <3>2
    <3>3. CASE s = n + 1
      <4>1. at[r] \in 1 .. k
        BY <1>1, <3>1
      <4> QED
        BY <1>2, <2>4, <3>1, <3>3, <4>1
    <3> QED
      BY <2>3, <3>2, <3>3
  <2>8. ASSUME NEW p \in 1 .. k + 1, ranked[p].parses PROVE \E r \in 1 .. n + 1 : new[r] = p
    <3>1. CASE p \in 1 .. k
      <4>1. PICK r \in 1 .. n : at[r] = p
        BY <1>1, <1>4, <2>8, <3>1
      <4> QED
        BY <2>3, <2>4, <4>1
    <3>2. CASE p = k + 1
      BY <2>3, <2>4, <3>2
    <3> QED
      BY <1>2, <3>1, <3>2
  <2>9. n + 1 <= budget
    BY <1>0, <1>4
  <2>10. Kept(more, ranked, new, k + 1, budget)
    BY <2>2, <2>5, <2>6, <2>7, <2>8, <2>9 DEF Kept
  <2> QED
    BY <2>1, <2>10
<1>5. n >= budget \/ n < budget
  BY <1>0
<1>6. c.parses \/ ~c.parses
  OBVIOUS
<1> QED
  BY <1>3, <1>4, <1>5, <1>6

(* What is parsed, up to the budget, is kept, in order. *)
LEMMA ParsedAreKept ==
  ASSUME NEW C, NEW ranked \in Seq(C), NEW budget \in Nat
  PROVE  /\ ParseUpTo(ranked, budget) \in Seq(C)
         /\ \E at : Kept(ParseUpTo(ranked, budget), ranked, at, Len(ranked), budget)
<1> DEFINE n == Len(ranked)
<1>0. n \in Nat /\ \A i \in 1 .. n : ranked[i] \in C
  OBVIOUS
<1>1. PICK acc : ParseRun(acc, C, ranked, budget)
  BY ParseSteps
<1>2. /\ acc \in [0 .. n -> Seq(C)]
      /\ acc[0] = << >>
      /\ \A k \in 1 .. n : acc[k] = Parse(budget, acc[k - 1], ranked[k])
      /\ ParseUpTo(ranked, budget) = acc[n]
  BY <1>1 DEF ParseRun
<1> HIDE DEF n
<1> DEFINE K == {k \in 0 .. n : \E at : Kept(acc[k], ranked, at, k, budget)}
<1>3. 0 \in K
  <2>1. Len(acc[0]) = 0 /\ 0 \in 0 .. n
    BY <1>0, <1>2
  <2>2. 1 .. 0 = {} /\ << >> \in [1 .. 0 -> 1 .. 0]
    OBVIOUS
  <2>3. Kept(acc[0], ranked, << >>, 0, budget)
    BY <2>1, <2>2 DEF Kept
  <2> QED
    BY <2>1, <2>3
<1>4. ASSUME NEW k \in 0 .. n, k \in K, k < n PROVE k + 1 \in K
  <2>1. k \in Nat /\ k + 1 \in 0 .. n /\ k + 1 \in 1 .. n /\ (k + 1) - 1 = k
    BY <1>0, <1>4
  <2>2. PICK at : Kept(acc[k], ranked, at, k, budget)
    BY <1>4
  <2>3. acc[k] \in Seq(C) /\ ranked[k + 1] \in C /\ acc[k + 1] = Parse(budget, acc[k], ranked[k + 1])
    BY <1>0, <1>2, <2>1
  <2>4. \E new : Kept(acc[k + 1], ranked, new, k + 1, budget)
    BY <2>1, <2>2, <2>3, ParseOne
  <2> QED
    BY <2>1, <2>4
<1>5. n \in K
  <2>1. n \in Nat
    BY <1>0
  <2>2. 0 \in K /\ \A k \in 0 .. n : k \in K /\ k < n => k + 1 \in K
    <3> HIDE DEF K
    <3> QED
      BY <1>3, <1>4
  <2> HIDE DEF K
  <2>3. \A k \in 0 .. n : k \in K
    BY <2>1, <2>2, Induction
  <2> QED
    BY <2>1, <2>3
<1>6. acc[n] \in Seq(C)
  BY <1>0, <1>2
<1> QED
  BY <1>2, <1>5, <1>6 DEF n

(* Min and Max of two numbers. *)
LEMMA MinMaxOfTwo ==
  ASSUME NEW a \in Nat, NEW b \in Nat
  PROVE  Min({a, b}) = (IF a <= b THEN a ELSE b) /\ Max({a, b}) = (IF a <= b THEN b ELSE a)
<1>1. \E x \in {a, b} : \A y \in {a, b} : x <= y
  OBVIOUS
<1>2. \E x \in {a, b} : \A y \in {a, b} : x >= y
  OBVIOUS
<1>3. Min({a, b}) \in {a, b} /\ \A y \in {a, b} : Min({a, b}) <= y
  BY <1>1 DEF Min
<1>4. Max({a, b}) \in {a, b} /\ \A y \in {a, b} : Max({a, b}) >= y
  BY <1>2 DEF Max
<1> QED
  BY <1>3, <1>4

(* At least as many are parsed as are asked for. *)
LEMMA BudgetIsEnough ==
  ASSUME NEW limit \in Nat, NEW minBudget \in Nat
  PROVE  Budget(limit, minBudget) \in Nat /\ limit <= Budget(limit, minBudget)
<1>1. 2 * limit \in Nat
  OBVIOUS
<1>2. Max({2 * limit, minBudget}) = IF 2 * limit <= minBudget THEN minBudget ELSE 2 * limit
  BY <1>1, MinMaxOfTwo
<1> QED
  BY <1>2 DEF Budget

(***************************************************************************)
(* The candidates that are parsed, and where they are among all.           *)
(***************************************************************************)

Times(cands) == [i \in DOMAIN cands |-> cands[i].mtime]

Good(cands) == {i \in DOMAIN cands : cands[i].parses}

Candidate == [mtime : Nat, last : Nat, parses : BOOLEAN]

Chosen(parsed, cands, src, budget) ==
  /\ Len(parsed) <= budget
  /\ src \in [1 .. Len(parsed) -> Good(cands)]
  /\ \A r \in 1 .. Len(parsed) : parsed[r] = cands[src[r]]
  /\ \A r, s \in 1 .. Len(parsed) : r # s => src[r] # src[s]
  /\ \A i \in Good(cands) :
       \/ \E r \in 1 .. Len(parsed) : src[r] = i
       \/ /\ Len(parsed) = budget
          /\ \A r \in 1 .. Len(parsed) : src[r] # i /\ cands[src[r]].mtime >= cands[i].mtime

(* The sessions parsed, as places among the candidates. *)
LEMMA ParsedAreChosen ==
  ASSUME NEW cands \in Seq(Candidate), NEW budget \in Nat
  PROVE  LET parsed == ParseUpTo(Latest(cands, Times(cands)), budget) IN
         parsed \in Seq(Candidate) /\ \E src : Chosen(parsed, cands, src, budget)
<1> DEFINE n == Len(cands)
           time == Times(cands)
           ranked == Latest(cands, time)
           parsed == ParseUpTo(ranked, budget)
           m == Len(parsed)
<1>0. n \in Nat /\ DOMAIN cands = 1 .. n /\ \A i \in 1 .. n : cands[i] \in Candidate
  OBVIOUS
<1>1. time \in [1 .. n -> Int] /\ \A i \in 1 .. n : time[i] = cands[i].mtime
  <2>1. \A i \in 1 .. n : cands[i].mtime \in Int
    BY <1>0 DEF Candidate
  <2> QED
    BY <1>0, <2>1 DEF Times
<1> HIDE DEF time
<1>16. PICK order : SortedBy(order, cands, n, time)
  <2>1. n = Len(cands)
    OBVIOUS
  <2> HIDE DEF n
  <2> QED
    BY <1>1, <2>1, LatestSorts
<1>2. IsOrder(order, n, time) /\ ranked = [p \in 1 .. n |-> cands[order[p]]]
  BY <1>16 DEF SortedBy
<1>3. /\ order \in [1 .. n -> 1 .. n]
      /\ \A p, q \in 1 .. n : p # q => order[p] # order[q]
      /\ \A i \in 1 .. n : \E p \in 1 .. n : order[p] = i
      /\ \A p, q \in 1 .. n : p < q => time[order[p]] >= time[order[q]]
  BY <1>2 DEF IsOrder
<1>4. \A p \in 1 .. n : ranked[p] = cands[order[p]] /\ order[p] \in 1 .. n
  BY <1>2, <1>3
<1>5. ranked \in Seq(Candidate) /\ Len(ranked) = n
  <2>1. ranked \in [1 .. n -> Candidate]
    BY <1>0, <1>2, <1>3
  <2> HIDE DEF ranked, n
  <2> QED
    BY <1>0, <2>1
<1> HIDE DEF ranked, n
<1>6. parsed \in Seq(Candidate) /\ \E at : Kept(parsed, ranked, at, n, budget)
  BY <1>5, ParsedAreKept
<1>7. PICK at : Kept(parsed, ranked, at, n, budget)
  BY <1>6
<1> HIDE DEF parsed
<1>8. /\ m <= budget
      /\ at \in [1 .. m -> 1 .. n]
      /\ \A r \in 1 .. m : parsed[r] = ranked[at[r]] /\ ranked[at[r]].parses
      /\ \A r, s \in 1 .. m : r < s => at[r] < at[s]
      /\ \A p \in 1 .. n : ranked[p].parses =>
           \/ \E r \in 1 .. m : at[r] = p
           \/ m = budget /\ \A r \in 1 .. m : at[r] < p
  BY <1>7 DEF Kept
<1>9. m \in Nat
  BY <1>6
<1> HIDE DEF m
<1> DEFINE src == [r \in 1 .. m |-> order[at[r]]]
<1>10. \A r \in 1 .. m : at[r] \in 1 .. n /\ src[r] = order[at[r]] /\ src[r] \in 1 .. n
  BY <1>3, <1>8
<1>11. \A r \in 1 .. m : parsed[r] = cands[src[r]] /\ cands[src[r]].parses
  BY <1>4, <1>8, <1>10
<1>12. src \in [1 .. m -> Good(cands)]
  BY <1>0, <1>10, <1>11 DEF Good
<1> HIDE DEF src
<1>13. ASSUME NEW r \in 1 .. m, NEW s \in 1 .. m, r # s PROVE src[r] # src[s]
  <2>1. r < s \/ s < r
    BY <1>9, <1>13
  <2>2. at[r] < at[s] \/ at[s] < at[r]
    BY <1>8, <2>1
  <2>3. at[r] \in 1 .. n /\ at[s] \in 1 .. n
    BY <1>10
  <2>4. at[r] # at[s]
    BY <2>2, <2>3, <1>0
  <2> QED
    BY <1>3, <1>10, <2>4
<1>14. ASSUME NEW i \in Good(cands)
       PROVE  \/ \E r \in 1 .. m : src[r] = i
              \/ /\ m = budget
                 /\ \A r \in 1 .. m : src[r] # i /\ cands[src[r]].mtime >= cands[i].mtime
  <2>1. i \in 1 .. n /\ cands[i].parses
    BY <1>0 DEF Good
  <2>2. PICK p \in 1 .. n : order[p] = i
    BY <1>3, <2>1
  <2>3. ranked[p].parses
    BY <1>4, <2>1, <2>2
  <2>4. CASE \E r \in 1 .. m : at[r] = p
    BY <1>10, <2>2, <2>4
  <2>5. CASE m = budget /\ \A r \in 1 .. m : at[r] < p
    <3>1. ASSUME NEW r \in 1 .. m PROVE src[r] # i /\ cands[src[r]].mtime >= cands[i].mtime
      <4>1. at[r] \in 1 .. n /\ at[r] < p /\ src[r] = order[at[r]] /\ src[r] \in 1 .. n
        BY <1>10, <2>5
      <4>2. at[r] # p
        BY <4>1, <1>0
      <4>3. order[at[r]] # order[p] /\ time[order[at[r]]] >= time[order[p]]
        BY <1>3, <4>1, <4>2
      <4> QED
        BY <1>1, <2>1, <2>2, <4>1, <4>3
    <3> QED
      BY <2>5, <3>1
  <2> QED
    BY <1>8, <2>3, <2>4, <2>5
<1>15. Chosen(parsed, cands, src, budget)
  BY <1>8, <1>11, <1>12, <1>13, <1>14 DEF Chosen, m
<1> QED
  BY <1>6, <1>15 DEF parsed, ranked, time

NewerThan(cands, i) == {j \in Good(cands) \ {i} : cands[j].mtime >= cands[i].mtime}

(* How many are parsed, and what it means if it is the whole budget. *)
LEMMA HowMany ==
  ASSUME NEW cands \in Seq(Candidate), NEW parsed \in Seq(Candidate), NEW budget \in Nat, NEW src,
         Chosen(parsed, cands, src, budget)
  PROVE  /\ Cardinality(Good(cands)) \in Nat
         /\ Len(parsed) <= Cardinality(Good(cands))
         /\ Len(parsed) < budget => Len(parsed) = Cardinality(Good(cands))
         /\ \A i \in Good(cands) :
              \/ \E r \in 1 .. Len(parsed) : src[r] = i
              \/ Cardinality(NewerThan(cands, i)) >= budget
<1> DEFINE m == Len(parsed)
           G == Good(cands)
<1>0. m \in Nat
  OBVIOUS
<1>1. /\ m <= budget
      /\ src \in [1 .. m -> G]
      /\ \A r, s \in 1 .. m : r # s => src[r] # src[s]
      /\ \A i \in G : \/ \E r \in 1 .. m : src[r] = i
                      \/ /\ m = budget
                         /\ \A r \in 1 .. m : src[r] # i /\ cands[src[r]].mtime >= cands[i].mtime
  BY DEF Chosen
<1>2. IsFiniteSet(G)
  <2>1. DOMAIN cands = 1 .. Len(cands) /\ Len(cands) \in Nat
    OBVIOUS
  <2>2. IsFiniteSet(1 .. Len(cands))
    BY <2>1, IntervalSize
  <2>3. G \in SUBSET (1 .. Len(cands))
    BY <2>1 DEF Good
  <2> HIDE DEF G
  <2> QED
    BY <2>2, <2>3, FS_Subset
<1>3. IsFiniteSet(1 .. m) /\ Cardinality(1 .. m) = m
  BY <1>0, IntervalSize
<1> HIDE DEF m, G
<1>4. Cardinality(G) \in Nat
  BY <1>2, FS_CardinalityType
<1>5. src \in Injection(1 .. m, G)
  BY <1>1 DEF Injection, IsInjective
<1>6. m <= Cardinality(G) /\ (m = Cardinality(G) <=> src \in Surjection(1 .. m, G))
  BY <1>2, <1>3, <1>5, FS_Injection
<1>7. ASSUME m < budget PROVE m = Cardinality(G)
  <2>1. \A i \in G : \E r \in 1 .. m : src[r] = i
    BY <1>0, <1>1, <1>7
  <2>2. src \in Surjection(1 .. m, G)
    BY <1>1, <2>1 DEF Surjection
  <2> QED
    BY <1>6, <2>2
<1>8. ASSUME NEW i \in G, ~\E r \in 1 .. m : src[r] = i
      PROVE  Cardinality(NewerThan(cands, i)) >= budget
  <2> DEFINE N == NewerThan(cands, i)
  <2>1. m = budget /\ \A r \in 1 .. m : src[r] # i /\ cands[src[r]].mtime >= cands[i].mtime
    BY <1>1, <1>8
  <2>2. src \in [1 .. m -> N]
    <3>1. \A r \in 1 .. m : src[r] \in N
      BY <1>1, <2>1 DEF NewerThan, G
    <3> HIDE DEF N
    <3> QED
      BY <1>1, <3>1
  <2>3. IsFiniteSet(N)
    <3>1. N \in SUBSET G
      BY DEF NewerThan, G
    <3> HIDE DEF N
    <3> QED
      BY <1>2, <3>1, FS_Subset
  <2> HIDE DEF N
  <2>4. src \in Injection(1 .. m, N)
    BY <1>1, <2>2 DEF Injection, IsInjective
  <2>5. m <= Cardinality(N) /\ Cardinality(N) \in Nat
    BY <1>3, <2>3, <2>4, FS_Injection, FS_CardinalityType
  <2> QED
    BY <2>1, <2>5 DEF N
<1> QED
  BY <1>4, <1>6, <1>7, <1>8 DEF m, G

(* Whatever the candidates, the limit and the budget. *)
LEMMA RecentSessionsAreLatest ==
  ASSUME NEW cands \in Seq(Candidate), NEW limit \in Nat, NEW minBudget \in Nat
  PROVE  LatestAreShown(cands, limit, minBudget)
<1> DEFINE budget == Budget(limit, minBudget)
           parsed == ParseUpTo(Latest(cands, Times(cands)), budget)
           m      == Len(parsed)
           last   == [i \in DOMAIN parsed |-> parsed[i].last]
           all    == Latest(parsed, last)
           k      == Min({limit, Len(all)})
           shown  == DiscoverRecent(cands, limit, minBudget)
           G      == Good(cands)
<1>1. budget \in Nat /\ limit <= budget
  BY BudgetIsEnough
<1>2. shown = SubSeq(all, 1, k)
  BY DEF DiscoverRecent, Times
<1> HIDE DEF budget
<1>3. parsed \in Seq(Candidate) /\ \E src : Chosen(parsed, cands, src, budget)
  BY <1>1, ParsedAreChosen
<1> HIDE DEF parsed, shown
<1>4. PICK src : Chosen(parsed, cands, src, budget)
  BY <1>3
<1>5. /\ m <= budget
      /\ src \in [1 .. m -> G]
      /\ \A r \in 1 .. m : parsed[r] = cands[src[r]]
  BY <1>4 DEF Chosen
<1>6. /\ Cardinality(G) \in Nat /\ m <= Cardinality(G) /\ (m < budget => m = Cardinality(G))
      /\ \A i \in G : \/ \E r \in 1 .. m : src[r] = i
                      \/ Cardinality(NewerThan(cands, i)) >= budget
  BY <1>1, <1>3, <1>4, HowMany
<1>7. m \in Nat /\ DOMAIN parsed = 1 .. m /\ \A r \in 1 .. m : parsed[r] \in Candidate
  BY <1>3
<1>8. last \in [1 .. m -> Int] /\ \A r \in 1 .. m : last[r] = parsed[r].last
  <2>1. \A r \in 1 .. m : parsed[r].last \in Int
    BY <1>7 DEF Candidate
  <2> HIDE DEF m
  <2> QED
    BY <1>7, <2>1
<1> HIDE DEF last
<1>19. PICK order : SortedBy(order, parsed, m, last)
  <2>1. m = Len(parsed)
    OBVIOUS
  <2>2. parsed \in Seq(Candidate)
    BY <1>3
  <2>3. last \in [1 .. m -> Int]
    BY <1>8
  <2> HIDE DEF m
  <2> QED
    BY <2>1, <2>2, <2>3, LatestSorts
<1>9. IsOrder(order, m, last) /\ all = [p \in 1 .. m |-> parsed[order[p]]]
  BY <1>19 DEF SortedBy
<1> HIDE DEF m, all, G
<1>10. /\ order \in [1 .. m -> 1 .. m]
       /\ \A i \in 1 .. m : \E p \in 1 .. m : order[p] = i
       /\ \A p, q \in 1 .. m : p < q => last[order[p]] >= last[order[q]]
  BY <1>9 DEF IsOrder
<1>11. all \in Seq(Candidate) /\ Len(all) = m /\ \A p \in 1 .. m : all[p] = parsed[order[p]]
  <2>1. \A p \in 1 .. m : parsed[order[p]] \in Candidate
    BY <1>7, <1>10
  <2>2. all \in [1 .. m -> Candidate]
    BY <1>9, <2>1
  <2> QED
    BY <1>7, <1>9, <2>2
<1>12. k = (IF limit <= m THEN limit ELSE m) /\ k \in 0 .. m
  <2>1. Min({limit, m}) = IF limit <= m THEN limit ELSE m
    BY <1>7, MinMaxOfTwo
  <2> QED
    BY <1>7, <1>11, <2>1
<1> HIDE DEF k
<1>13. /\ Len(shown) = k /\ DOMAIN shown = 1 .. k
       /\ \A p \in 1 .. k : shown[p] = parsed[order[p]] /\ p \in 1 .. m
  <2>1. k \in 0 .. Len(all)
    BY <1>11, <1>12
  <2>2. Len(shown) = k /\ (\A p \in 1 .. k : shown[p] = all[p]) /\ shown \in Seq(Candidate)
    BY <1>2, <1>11, <2>1, Prefix
  <2>3. \A p \in 1 .. k : p \in 1 .. m
    BY <1>7, <1>12
  <2> QED
    BY <1>11, <2>2, <2>3
<1>14. \A p \in 1 .. k : shown[p].last = last[order[p]] /\ order[p] \in 1 .. m
  BY <1>8, <1>10, <1>13
<1>15. Len(shown) = Min({limit, Cardinality(G)})
  <2>1. Min({limit, Cardinality(G)}) = IF limit <= Cardinality(G) THEN limit ELSE Cardinality(G)
    BY <1>6, MinMaxOfTwo
  <2> QED
    BY <1>1, <1>5, <1>6, <1>7, <1>12, <1>13, <2>1
<1>16. ASSUME NEW p \in 1 .. k, NEW q \in 1 .. k, p < q PROVE shown[p].last >= shown[q].last
  BY <1>10, <1>13, <1>14, <1>16
<1>17. ASSUME NEW i \in G
       PROVE  \/ \E p \in 1 .. k : shown[p] = cands[i]
              \/ \A p \in 1 .. k : shown[p].last >= cands[i].last
              \/ Cardinality(NewerThan(cands, i)) >= budget
  <2>1. SUFFICES ASSUME NEW r \in 1 .. m, src[r] = i
                 PROVE  \/ \E p \in 1 .. k : shown[p] = cands[i]
                        \/ \A p \in 1 .. k : shown[p].last >= cands[i].last
    BY <1>6
  <2>2. PICK p \in 1 .. m : order[p] = r
    BY <1>10
  <2>3. parsed[r] = cands[i] /\ last[r] = cands[i].last
    BY <1>5, <1>8, <2>1
  <2>4. CASE p \in 1 .. k
    BY <1>13, <2>2, <2>3, <2>4
  <2>5. CASE p \notin 1 .. k
    <3>1. \A q \in 1 .. k : q \in 1 .. m /\ q < p
      BY <1>7, <1>12, <2>5
    <3> QED
      BY <1>10, <1>14, <2>2, <2>3, <3>1
  <2> QED
    BY <2>4, <2>5
<1>18. \A i \in G : (\E p \in 1 .. k : shown[p] = cands[i]) => cands[i] \in Range(shown)
  BY <1>13 DEF Range
<1> QED
  BY <1>13, <1>15, <1>16, <1>17, <1>18 DEF LatestAreShown, G, Good, NewerThan, shown, budget

(***************************************************************************)
(* The properties of SessionEvidence about these algorithms.               *)
(***************************************************************************)

(* The overlays of a directory's layers are overlays. *)
LEMMA OverlaysType ==
  ASSUME NEW n \in 0 .. Len(LayerNames),
         NEW yaml \in [1 .. n -> [Tools -> Written]], NEW hidden \in [1 .. n -> [Tools -> Written]]
  PROVE  Overlays(yaml, hidden) \in
           Seq(OverlaysOf(Range(LayerNames) \union {"default"}, {"enabled", "disabled"}, Tools))
<1> DEFINE L == Range(LayerNames) \union {"default"}
           V == {"enabled", "disabled"}
           O == OverlaysOf(L, V, Tools)
<1>0. n \in Nat /\ \A i \in 1 .. n : LayerNames[i] \in L
  BY EvidenceAssumption DEF Range
<1>1. \A word : ParseActivation(word) \in V \union {"unset"}
  BY DEF ParseActivation
<1>2. ASSUME NEW i \in 1 .. n PROVE OverlayFor(LayerNames[i], yaml[i], hidden[i]) \in O
  <2>1. /\ yaml[i] \in [Tools -> Written] /\ hidden[i] \in [Tools -> Written]
        /\ LayerNames[i] \in L
    BY <1>0
  <2> DEFINE file == IF \A name \in DOMAIN yaml[i] : yaml[i][name] = "absent" THEN hidden[i] ELSE yaml[i]
             said == [name \in DOMAIN file |-> ParseActivation(file[name])]
  <2>2. DOMAIN file = Tools
    BY <2>1
  <2> HIDE DEF file
  <2>3. said \in [Tools -> V \union {"unset"}]
    BY <1>1, <2>2
  <2>4. OverlayFor(LayerNames[i], yaml[i], hidden[i]) = [layer |-> LayerNames[i], said |-> said]
    BY DEF OverlayFor, file
  <2> HIDE DEF said, L, V
  <2> QED
    BY <2>1, <2>3, <2>4 DEF OverlaysOf
<1> HIDE DEF O
<1>3. Overlays(yaml, hidden) = [i \in 1 .. n |-> OverlayFor(LayerNames[i], yaml[i], hidden[i])]
  BY DEF Overlays
<1>4. Overlays(yaml, hidden) \in [1 .. n -> O]
  BY <1>2, <1>3
<1>5. Overlays(yaml, hidden) \in Seq(O)
  BY <1>0, <1>4
<1> QED
  BY <1>5 DEF O

(* resolver.go calls it "the non-negotiable feature": whatever agents.yaml and
   .agents.yaml say beside any number of layers, every item names the layer that
   decided it and those it overrode, in order; and an inactive one has a reason. *)
THEOREM EveryItemIsExplained ==
  Spec => []ItemsAreExplained
<1>1. ItemsAreExplained
  <2> DEFINE L == Range(LayerNames) \union {"default"}
             V == {"enabled", "disabled"}
  <2>1. ASSUME NEW n \in 0 .. Len(LayerNames), NEW default \in V,
               NEW yaml \in [1 .. n -> [Tools -> Written]],
               NEW hidden \in [1 .. n -> [Tools -> Written]], NEW t \in Tools
        PROVE  LET overlays == Overlays(yaml, hidden)
                   items    == ResolveItems(Tools, default, overlays)
               IN /\ Explained(items[t], t, default, overlays)
                  /\ t \in ActiveNames(items) <=> WhyInactive(items[t]) = "none"
    <3> DEFINE overlays == Overlays(yaml, hidden)
               item     == ResolveItem(t, default, overlays)
    <3>1. overlays \in Seq(OverlaysOf(L, V, Tools))
      BY OverlaysType
    <3> HIDE DEF overlays
    <3>2. item \in ItemsOf(L, V) /\ Explained(item, t, default, overlays)
      <4>1. "default" \in L
        OBVIOUS
      <4> HIDE DEF L, V
      <4> QED
        BY <2>1, <3>1, <4>1, ItemIsExplained
    <3> HIDE DEF item
    <3>3. "none" \notin L
      BY EvidenceAssumption DEF Range
    <3>4. item.origin # "none" /\ item.state \in V
      BY <3>2, <3>3 DEF ItemsOf
    <3>5. item.state = "enabled" <=> WhyInactive(item) = "none"
      BY <3>4 DEF WhyInactive
    <3>6. /\ ResolveItems(Tools, default, overlays)[t] = item
          /\ DOMAIN ResolveItems(Tools, default, overlays) = Tools
      BY DEF ResolveItems, item
    <3>7. t \in ActiveNames(ResolveItems(Tools, default, overlays)) <=> item.state = "enabled"
      BY <3>6 DEF ActiveNames
    <3> QED
      BY <3>2, <3>5, <3>6, <3>7 DEF overlays
  <2> QED
    BY <2>1 DEF ItemsAreExplained
<1> QED
  BY <1>1, PTL

(* Whatever instruction files and links a disk holds, and from whatever directory:
   every file on the way applies once, and the layers are in order. *)
THEOREM EveryLayerComesOnce ==
  Spec => []LayersComeOnce
<1>1. LayersComeOnce
  BY EvidenceAssumption, LayersApplyOnce DEF LayersComeOnce
<1> QED
  BY <1>1, PTL

(* However many transcripts there are and however few are read: the sessions shown
   are the latest, and files that do not parse cost none of them its place. *)
THEOREM RecentSessionsAreFound ==
  Spec => []RecentAreFound
<1>1. RecentAreFound
  <2>1. ASSUME NEW a \in Listings, NEW b \in Listings, NEW c \in Listings
        PROVE  LatestAreShown(Candidates(a, b, c), Limit, MinBudget)
    <3>1. a \in Seq(Candidate) /\ b \in Seq(Candidate) /\ c \in Seq(Candidate)
      BY EvidenceAssumption DEF Candidate
    <3>2. Candidates(a, b, c) \in Seq(Candidate)
      BY <3>1 DEF Candidates
    <3> QED
      BY <3>2, EvidenceAssumption, RecentSessionsAreLatest
  <2> QED
    BY <2>1 DEF RecentAreFound
<1> QED
  BY <1>1, PTL

===============================================================================
