---------------------------- MODULE SessionEvidence ----------------------------
(***************************************************************************)
(* One /api/sessions request against a live machine: the evidence pipeline *)
(* of LiveSessions (a resolution, loaded or kept of an earlier session in  *)
(* the same directory) and buildView (expectations from it, two reads of   *)
(* the session's transcript, one snapshot of the captures, each matched    *)
(* with the files in its turn, Merge), while agents make requests and      *)
(* write transcripts and the user edits instruction files.                 *)
(*                                                                         *)
(* An instruction file is a layer with a version; the text of a version is *)
(* recognised only in a prompt that carries that version.  Version 0 has   *)
(* no text: the file is absent, cannot be read or is blank, as it may be   *)
(* for a moment while an editor saves it.  The captures are the RingMax    *)
(* latest, as CaptureHub shows.                                            *)
(***************************************************************************)
EXTENDS Fact, Resolver, RecentSessions

CONSTANTS
  Sessions,       \* sessions that DiscoverRecent returns
  RuntimeOf,      \* their runtimes
  Cwds, CwdOf,    \* directories, and those of the sessions
  LayersOf,       \* instruction layers that apply in a directory
  Layers, Tools,  \* instruction files, MCP servers
  RingMax,        \* maxCaptures
  MaxRequests,    \* bound of the model: requests captured
  MaxVersion,     \* bound of the model: versions of an instruction file
  MaxTexts,       \* bound of the model: instruction texts in one prompt
  \* Inputs of the algorithms the pipeline rests on, for their properties.
  LayerNames,     \* layers of a directory, broadest first
  Disks, Paths,   \* disks and the directories on them
  Listings,       \* transcript files in the directory of a runtime
  Limit, MinBudget \* sessions asked for, and how many are read at least

ASSUME EvidenceAssumption ==
  /\ IsFiniteSet(Layers) /\ IsFiniteSet(Tools)
  /\ RuntimeOf \in [Sessions -> {"claude", "codex", "antigravity"}]
  /\ CwdOf \in [Sessions -> Cwds]
  /\ LayersOf \in [Cwds -> SUBSET Layers]
  /\ RingMax \in Nat \ {0}
  /\ MaxRequests \in Nat /\ MaxVersion \in Nat \ {0} /\ MaxTexts \in Nat
  /\ LayerNames \in Seq(STRING \ {"none"})
  /\ Paths \subseteq Seq(STRING)
  /\ Listings \subseteq Seq([mtime : Nat, last : Nat, parses : BOOLEAN])
  /\ Limit \in Nat /\ MinBudget \in Nat

VARIABLES
  version,        \* the version of each instruction file; 0 is no text
  transcript,     \* what a session's transcript file records so far
  traffic,        \* history: the captures recorded, and whose they were
  edited,         \* history: files changed since the expectations were made
  step, session,  \* where buildView is, and for which session
  cache,          \* resCache: the resolution of a directory, once it is loaded
  expected,       \* keys of the expectations
  obs,            \* the observations collected so far
  caps, next,     \* the snapshot of the captures, and the one to look at next
  facts           \* the results of the last Merge

worldVars == <<version, transcript, traffic, edited>>
passVars  == <<step, session, cache, expected, obs, caps, next, facts>>
vars      == <<worldVars, passVars>>

Versions == 1 .. MaxVersion

TextKey(l, v) == [kind |-> "instruction_text", name |-> l, digest |-> v]
ToolKey(t)    == [kind |-> "tool_available", name |-> t, digest |-> 0]

(* A directory whose resolution LiveSessions has not asked for. *)
Unresolved == [known |-> FALSE, layers |-> {}, tools |-> {}]

Init ==
  /\ version \in [Layers -> {0, 1}]
  /\ transcript = [s \in Sessions |-> [text |-> {}, tools |-> {}, catalog |-> FALSE]]
  /\ traffic = << >> /\ edited = {}
  /\ step = "idle" /\ session \in Sessions
  /\ cache = [d \in Cwds |-> Unresolved] /\ expected = {}
  /\ obs = << >> /\ facts = << >>
  /\ caps = << >> /\ next = 0

(***************************************************************************)
(* The world: users, agents and the capture path.                          *)
(***************************************************************************)

(* A file is created, edited, put back, truncated, locked or deleted. *)
EditLayer(l) ==
  /\ \E v \in (0 .. MaxVersion) \ {version[l]} : version' = [version EXCEPT ![l] = v]
  /\ edited' = edited \union {l}
  /\ UNCHANGED <<transcript, traffic, passVars>>

(* What a session may put into a prompt: any version, for the agent has read
   the files at a time of its own. *)
Promptable(s) == LayersOf[CwdOf[s]] \X Versions

(* runtimeForHost of the provider host a session talks to. *)
HostRuntime(s) == IF RuntimeOf[s] = "antigravity" THEN "gemini" ELSE RuntimeOf[s]

(* A captured request; a blank one carries no text at all. *)
Request(s) ==
  /\ Len(traffic) < MaxRequests
  /\ \E text \in SUBSET Promptable(s), tools \in SUBSET Tools, blank \in BOOLEAN :
       /\ Cardinality(text) <= MaxTexts /\ (blank => text = {})
       /\ traffic' = Append(traffic, [session |-> s, host |-> HostRuntime(s),
                                      text |-> text, tools |-> tools, blank |-> blank])
  /\ UNCHANGED <<version, transcript, edited, passVars>>

(* Transcripts are appended to: instructions the CLI assembled, a tool it
   invoked, or (Claude only) the catalog of tools it offers. *)
RecordText(s) ==
  /\ RuntimeOf[s] # "antigravity" /\ Cardinality(transcript[s].text) < MaxTexts
  /\ \E p \in Promptable(s) \ transcript[s].text :
       transcript' = [transcript EXCEPT ![s].text = @ \union {p}]
  /\ UNCHANGED <<version, traffic, edited, passVars>>

RecordTool(s) ==
  /\ RuntimeOf[s] # "antigravity"
  /\ \E t \in Tools \ transcript[s].tools :
       transcript' = [transcript EXCEPT ![s].tools = @ \union {t}]
  /\ UNCHANGED <<version, traffic, edited, passVars>>

RecordCatalog(s) ==
  /\ RuntimeOf[s] = "claude"
  /\ \E added \in SUBSET Tools :
       transcript' = [transcript EXCEPT ![s].tools = @ \union added, ![s].catalog = TRUE]
  /\ transcript' # transcript
  /\ UNCHANGED <<version, traffic, edited, passVars>>

(***************************************************************************)
(* Deliberately wrong variants of definitions below.                       *)
(***************************************************************************)

(* Tool absence without asking whether the catalog is complete. *)
MissingFromAny(s) == {t \in Tools : t \notin transcript[s].tools}

(* Captures of every runtime, as with a nil hostRuntime. *)
OfAnyRuntime(c) == TRUE

(* A marker phrase of the file instead of its text. *)
CarriesMarker(l, text) == \E v \in Versions : <<l, v>> \in text

(* Text keyed by the version the prompt carries instead of the file's. *)
KeyInPrompt(l, text) ==
  TextKey(l, IF \E v \in Versions : <<l, v>> \in text
             THEN CHOOSE v \in Versions : <<l, v>> \in text ELSE version[l])

(***************************************************************************)
(* The pipeline.                                                           *)
(***************************************************************************)

Obs(k, present, level, complete, request) ==
  [key |-> k, present |-> present, level |-> level, complete |-> complete,
   session |-> session, request |-> request]

(* The instruction file as it is on disk now occurs in the text. *)
Carries(l, text) == <<l, version[l]>> \in text

KeyFor(l, text) == TextKey(l, version[l])

(* Resolution.Knowledge of the session's directory. *)
Resolved == cache[CwdOf[session]].layers

(* Those for which knowledgeFingerprint is ok: there is text to be read. *)
Readable(layers) == {l \in layers : version[l] # 0}

(* ObserveInstructionText: presence always, absence only if complete. *)
InstructionObs(text, level, complete, request) ==
  {Obs(KeyFor(l, text), Carries(l, text), level, TRUE, request) :
     l \in {m \in Readable(Resolved) : complete \/ Carries(m, text)}}

(* Servers missing from a catalog that claims to be complete. *)
MissingTools(s) ==
  IF transcript[s].catalog THEN {t \in Tools : t \notin transcript[s].tools} ELSE {}

(* The tools that the agents.yaml beside those files leave on. *)
ActiveTools(layers, yaml) ==
  LET order    == SetToSeq(layers)
      overlays == [i \in DOMAIN order |-> OverlayFor(order[i], yaml[order[i]], [t \in Tools |-> "absent"])]
  IN ActiveNames(ResolveItems(Tools, "enabled", overlays))

(* resolveCWD for the next session of LiveSessions, or for the first of another
   call, which knows no directory yet.  LoadFromDisk finds every file that can
   be read, and may find one that cannot, or is blank. *)
Load(s) ==
  /\ step \in {"idle", "merged"}
  /\ step' = "loaded" /\ session' = s
  /\ \E resCache \in {cache, [d \in Cwds |-> Unresolved]} :
       IF resCache[CwdOf[s]].known THEN cache' = resCache
       ELSE \E layers \in SUBSET LayersOf[CwdOf[s]] :
              /\ Readable(LayersOf[CwdOf[s]]) \subseteq layers
              /\ \E yaml \in [layers -> [Tools -> Written]] :
                   cache' = [resCache EXCEPT ![CwdOf[s]] =
                               [known |-> TRUE, layers |-> layers,
                                tools |-> ActiveTools(layers, yaml)]]
  /\ expected' = {} /\ obs' = << >> /\ facts' = << >>
  /\ caps' = << >> /\ next' = 0
  /\ UNCHANGED worldVars

(* ExpectationsFromResolution: it reads the files, whenever they were loaded. *)
Expect ==
  /\ step = "loaded"
  /\ step' = "resolved"
  /\ expected' = {TextKey(l, version[l]) : l \in Readable(Resolved)}
                    \union {ToolKey(t) : t \in cache[CwdOf[session]].tools}
  /\ edited' = {}
  /\ UNCHANGED <<version, transcript, traffic, session, cache, obs, caps, next, facts>>

(* An Antigravity transcript is opaque: it is not available as a source. *)
SkipTranscript ==
  /\ step = "resolved" /\ RuntimeOf[session] = "antigravity"
  /\ step' = "absence seen"
  /\ UNCHANGED <<session, cache, expected, obs, caps, next, facts, worldVars>>

(* TranscriptSource.Observe. *)
ReadTranscript ==
  LET t == transcript[session] IN
  /\ step = "resolved" /\ RuntimeOf[session] # "antigravity"
  /\ step' = "transcript seen"
  /\ obs' = obs \o SetToSeq(InstructionObs(t.text, Observed, FALSE, 0)
                   \union {Obs(ToolKey(n), TRUE, Observed, t.catalog, 0) : n \in t.tools})
  /\ UNCHANGED <<session, cache, expected, caps, next, facts, worldVars>>

(* ObserveToolAbsence: it reads the transcript once more. *)
ReadCatalog ==
  /\ step = "transcript seen"
  /\ step' = "absence seen"
  /\ obs' = obs \o SetToSeq({Obs(ToolKey(n), FALSE, Observed, TRUE, 0) :
                               n \in {m \in MissingTools(session) : ToolKey(m) \in expected}})
  /\ UNCHANGED <<session, cache, expected, caps, next, facts, worldVars>>

(* A transcript that cannot be opened (any more) yields nothing. *)
ReadFails ==
  /\ \/ step = "resolved" /\ RuntimeOf[session] # "antigravity" /\ step' = "transcript seen"
     \/ step = "transcript seen" /\ step' = "absence seen"
  /\ UNCHANGED <<session, cache, expected, obs, caps, next, facts, worldVars>>

(* Server.captures: the most recent ones. *)
Ring ==
  IF Len(traffic) > RingMax
  THEN SubSeq(traffic, Len(traffic) - RingMax + 1, Len(traffic)) ELSE traffic

(* observations takes one snapshot of the ring. *)
SnapCaptures ==
  /\ step = "absence seen"
  /\ step' = "reading wire"
  /\ caps' = Ring /\ next' = 1
  /\ UNCHANGED <<session, cache, expected, obs, facts, worldVars>>

(* hostRuntime: only captures whose host belongs to the session's runtime. *)
OfRuntime(c) == c.host = RuntimeOf[session]

(* Deliberately wrong: every capture under one request id. *)
OneRequestId(c, i) ==
  (IF c.blank THEN {} ELSE InstructionObs(c.text, Verified, TRUE, 1))
    \union {Obs(ToolKey(n), TRUE, Verified, TRUE, 1) : n \in c.tools}

(* observations for one capture, whose request id is its place in the ring. *)
CaptureObs(c, i) ==
  (IF c.blank THEN {} ELSE InstructionObs(c.text, Verified, TRUE, i))
    \union {Obs(ToolKey(n), TRUE, Verified, TRUE, i) : n \in c.tools}

(* The loop of observations: the files are read again for every capture. *)
ReadCapture ==
  /\ step = "reading wire" /\ next <= Len(caps)
  /\ next' = next + 1
  /\ obs' = IF OfRuntime(caps[next])
            THEN obs \o SetToSeq(CaptureObs(caps[next], next)) ELSE obs
  /\ UNCHANGED <<step, session, cache, expected, caps, facts, worldVars>>

MergeFacts ==
  /\ step = "reading wire" /\ next > Len(caps)
  /\ step' = "merged"
  /\ facts' = Merge(expected, obs)
  /\ UNCHANGED <<session, cache, expected, obs, caps, next, worldVars>>

-------------------------------------------------------------------------------

World ==
  \/ \E l \in Layers : EditLayer(l)
  \/ \E s \in Sessions : Request(s) \/ RecordText(s) \/ RecordTool(s) \/ RecordCatalog(s)

BuildView ==
  \/ \E s \in Sessions : Load(s)
  \/ Expect
  \/ SkipTranscript \/ ReadTranscript \/ ReadCatalog \/ ReadFails
  \/ SnapCaptures \/ ReadCapture \/ MergeFacts

Next == World \/ BuildView

Spec == Init /\ [][Next]_vars

(***************************************************************************)
(* Properties                                                              *)
(***************************************************************************)

IsTool(k) == k.kind = "tool_available"

Sent(i, k) ==
  IF IsTool(k) THEN k.name \in traffic[i].tools
               ELSE <<k.name, k.digest>> \in traffic[i].text

WroteDown(s, k) ==
  IF IsTool(k) THEN k.name \in transcript[s].tools
               ELSE <<k.name, k.digest>> \in transcript[s].text

(* Green: verified on a captured request of the runtime that carried that very
   text or tool, observed on a transcript that records it. *)
GreenIsWitnessed(k) ==
  /\ facts[k].status = "expected_verified" =>
       \E i \in DOMAIN traffic : traffic[i].host = RuntimeOf[session] /\ Sent(i, k)
  /\ facts[k].status = "expected_observed" => WroteDown(session, k)

(* Conflict: what the transcript has recorded and a request captured from a
   session of the same runtime (the code does not tell these apart) disagree.
   A transcript never contradicts itself, although it is read twice, and no
   request does, although the files are edited between two of them. *)
ConflictIsReal(k) ==
  facts[k].status = "conflict" =>
    /\ facts[k].level = Verified
    /\ \E i \in DOMAIN traffic :
         /\ RuntimeOf[traffic[i].session] = RuntimeOf[session]
         /\ Sent(i, k) <=> IsTool(k)
    /\ IF IsTool(k) THEN k \in expected ELSE WroteDown(session, k)

(* Drift of a tool: never from a transcript that lists only the tools the agent
   invoked. *)
DriftNeedsCatalog(k) ==
  IsTool(k) /\ facts[k].status \in {"missing_expected", "conflict"} => transcript[session].catalog

(* Unexpected text: its file has changed, or could be read again, since the
   expectations were made.  A file that stayed as it was is never unexpected,
   however long ago the resolution of its directory was loaded. *)
UnexpectedWasEdited(k) ==
  facts[k].status = "unexpected" /\ ~IsTool(k) => k.name \in edited

(* Every verdict of buildView rests on evidence that supports it, though files
   are edited, transcripts grow and captures arrive during the pass. *)
VerdictsAreGrounded ==
  \A k \in DOMAIN facts :
    GreenIsWitnessed(k) /\ ConflictIsReal(k) /\ DriftNeedsCatalog(k) /\ UnexpectedWasEdited(k)

(* The verdicts do not depend on the order in which observations arrived. *)
VerdictIgnoresOrder ==
  \A k \in DOMAIN facts :
    LET again == Classify(k \in expected, Reverse(obs), About(Reverse(obs), k)) IN
    again.status = facts[k].status /\ again.level = facts[k].level

(***************************************************************************)
(* The algorithms the pipeline rests on, for all inputs the constants give.*)
(* They do not depend on the state: it is enough to look at them at first. *)
(***************************************************************************)

Overlays(yaml, hidden) ==
  [i \in DOMAIN yaml |-> OverlayFor(LayerNames[i], yaml[i], hidden[i])]

(* Whatever the layers' files say: every item is explained, and inactive if and
   only if there is a reason. *)
ItemsAreExplained ==
  Init =>
    \A n \in 0 .. Len(LayerNames), default \in {"enabled", "disabled"} :
      \A yaml \in [1 .. n -> [Tools -> Written]], hidden \in [1 .. n -> [Tools -> Written]] :
        LET overlays == Overlays(yaml, hidden)
            items    == ResolveItems(Tools, default, overlays)
        IN \A t \in Tools :
             /\ Explained(items[t], t, default, overlays)
             /\ t \in ActiveNames(items) <=> WhyInactive(items[t]) = "none"

(* Every instruction file applies once, in order, whatever links lead to it. *)
LayersComeOnce == Init => \A disk \in Disks, path \in Paths : LayersInOrder(disk, path)

(* The sessions shown are the latest, although few transcripts are read. *)
RecentAreFound ==
  Init => \A a, b, c \in Listings : LatestAreShown(Candidates(a, b, c), Limit, MinBudget)

===============================================================================
