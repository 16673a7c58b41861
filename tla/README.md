# Agent Observatory: TLA+ models, checks and proofs

Agent Observatory shows what an AI coding agent was really given: it resolves the
instructions and tools a session *should* have, reads what the session's
transcript says, intercepts what the agent *sends*, and merges the three into
verdicts.  The part that can hurt the user is the interception: a
NetworkExtension that takes over TCP flows, a Go daemon that terminates TLS with
a CA of its own, and files, trust settings and markers shared by the two.  The
promise the repository makes first (`GOAL.md`) is that the agent's request path
survives whatever Observatory does; the second is that a verdict is evidence.

This directory holds TLA+ modules of that system, the TLC configurations that
check them, and TLAPS proofs.  All paths below are relative to `src/`.

- [Inventory](#inventory) — components, state, operations, hard behaviours
- [Plan](#plan) — modules, order, compositions, runs and theorems
- [Modules](#modules) — how each corresponds to the code
- [Runs](#runs) — what each one checks, its bounds, why they are enough
- [Fairness](#fairness)
- [Proofs](#proofs)
- [Disagreements found](#disagreements-found)
- [Not modelled](#not-modelled)
- [Running it](#running-it)

## Inventory

### Components

| Component | State it keeps | Operations | What makes it correct |
|---|---|---|---|
| **Flow relay** (`app/TransparentProxyExtension/TransparentProxyProvider.swift`, `CapturePauseGate.swift`) | per flow: peeked bytes, the connection to the proxy or to the origin, the one-shot `Outcome`, the fallback timer, two copy loops | `handleNewFlow`, peek, CONNECT race, fail-open, pump, close | an agent's bytes reach one destination once and in order; no connection leaks; a stalled proxy never holds a flow; only allowlisted flows are inspected |
| **Intercepting proxy** (`backend/internal/wire/proxy.go`) | per connection: the TLS leg, the request in hand, one upstream connection | `handleConnect`, `tunnel`, `pump`, `relayWebSocket`, `forwardStream` | answers stay matched to requests; nothing is replayed; every parseable request is recorded; nothing leaks or hangs |
| **Local CA** (`backend/internal/wire/ca.go`) | two files, the certificate and key in memory, a leaf cache | `LoadOrCreateCA`, `LeafFor` | restarts and crashes do not invalidate the trust agents already have |
| **Capture policy and breaker** (`policy.go`, `pause.go`, `server.go:74-88`) | the pause marker in `/tmp`, handshake error counters | `Decide`, `PauseCapture`, `ClearCapturePause` | only agents that trust the CA are inspected; a failed handshake stops capture |
| **Capture history and live stream** (`backend/internal/wire/server.go`, `cmd/agents/monitor.go`) | two bounded histories, subscriber channels | `record`, `recordBypass`, `Subscribe`, `handleSSE`, `observations` | the history is the latest entries; no client is sent an entry twice; no proxy goroutine waits for a client |
| **Fact model** (`backend/internal/fact`) | none (pure) | `Comparable`, `conflict`, `classify`, `Merge` | verdicts depend on the evidence, not on its order; conflicts are never hidden |
| **Evidence pipeline** (`backend/internal/evidence`, `internal/observatory`) | none of its own; reads files, transcripts and captures that change meanwhile | `LiveSessions`, `ObserveWithResolution`, `ObserveToolAbsence`, `Merge` | green is witnessed, conflict is real, drift needs a catalog |
| **Transcript discovery** (`backend/internal/transcript`) | none | `DiscoverRecent`, parsers | the most recent sessions are found within a parse budget |
| **Resolver** (`backend/internal/resolver`) | none | `LoadFromDisk`, `Resolve` | each instruction file applies once, broadest first; the narrowest layer that mentions an item decides, and the chain it overrode is complete |
| **Ambient install** (`backend/internal/install`, `cmd/agents/install.go`, `trust.go`) | profile block, launchd plist and job, session environment, keychain trust, files | `Install`, `Uninstall`, `Status` | idempotent; a partial install can be repaired and removed; trust does not outlive the daemon |
| **Engine client** (`app/Observatory/EngineClient.swift`) | the engine process, mode, polled sessions, the live stream, a chain of restarts | `start`, `stop`, `restart`, `pollLoop`, `refresh`, `streamLoop` | what is shown settles on the current mode; the last restart wins; no engine is forgotten, and none is spawned onto ports in use |
| **Capture control** (`app/Observatory/ProxyController.swift`) | the status shown; it changes the proxy configuration, the tunnel, the keychain's trust and the marker | `activate`, `deactivate`, `resetCaptureConfiguration`, `refreshStatus`, the reset command | trust comes before the tunnel and goes after it; "off" is true; disabling never hangs |
| **SNI parser** (`SNI.swift`) | none | `parse` | bounded, never reads past the buffer |
| Command line, doctor, views, scripts, release harness | — | — | presentation and one-shot probes |

### How they interact

    agent ──TCP──▶ Flow relay ──CONNECT + source headers──▶ Intercepting proxy ──TLS──▶ provider
                      │  ▲ reads the marker                     │        │
                      │  └──────── capture-paused file ◀── breaker ◀── handshake error
                      └─direct─▶ provider                       │ LeafFor
                                                               Local CA ◀─files─▶ agents read it at start
                     Intercepting proxy ──OnCapture/OnBypass──▶ Capture history ──SSE──▶ app
                     transcripts, instruction files, history ──▶ Evidence pipeline ──▶ Fact model ──▶ app

* The **relay and the proxy** share only a TCP connection and a status line; the
  relay gives up on it after five seconds, the proxy may dial for fifteen.
* The **proxy and the breaker** share the marker file with the relay, in another
  process, without any lock.
* The **CA** and the **agents** share a file that each agent reads once, when it
  starts; the policy sees only the agent's environment, i.e. the file's *path*.
* **Proxy goroutines, SSE handlers and pollers** share the history under one
  mutex; fan-out happens after it is released.
* The **evidence pipeline** takes no lock over the world it describes: it reads
  files, then the transcript, then the transcript again, then the history.

### What is hard

The `hazards` of `PROJECT.json` list them at their lines.  By kind:

* *Interleaving*: the CONNECT timeout against the response and against the first
  send; recording against unsubscribing; a pass over a history that rotates; mode
  switches that overlap; enabling, disabling and refreshing, each a chain of awaits.
* *Crash and restart*: the daemon dying between the four file operations of a CA
  renewal; between a failed handshake and the marker; the app quitting between
  installing the trust, starting the tunnel and reporting it, while the helper it
  launched lives on.
* *Partial failure*: the proxy dying after its `200`; the origin dying inside an
  answer; an agent stopping inside a body; one install step failing; the pause
  marker that cannot be written.
* *Stale state*: the marker and the scope read when a flow is taken but not when
  it is routed; trust an agent read from an earlier CA; instruction files edited,
  unreadable or back again between the expectation and the evidence; a leaf cache that never expires; an
  answer of the old mode that arrives in the new one; a health check made once.
* *Limits*: two bounded histories, channels of 64, an 8 KiB peek budget, an 8 MiB
  parse limit.
* *Liveness*: half-closed connections, two copy loops each waiting for an end,
  an origin that goes silent.

## Plan

Modules, in the order in which they were written; the last is not.

1. `FlowRelay` (detailed) implementing `TransparentFlow` (abstract): the promise
   that matters most, and the code with the most races.
2. `CaptureHub`: everything shared between goroutines of the daemon.
3. `StableCA`: CA files, trust, leaf cache, policy and breaker, composed because
   the properties span them.
4. `Fact` (pure algorithm) used by `SessionEvidence` (the pipeline that feeds it
   from a world that moves), with `Resolver` (what a session should have) and
   `RecentSessions` (which sessions are looked at).
5. `WireProxy`: one CONNECT through tunnel, TLS, pump and upgrade.
6. `AmbientInstall`: the installer's, uninstaller's and trust command's steps with
   failures between them, the daemon that launchd keeps alive, the user's edits.
7. `EngineClient`: the app's modes, restarts, polling and stream.
8. `CaptureControl`: the app's capture switch over the extension, the tunnel
   configuration and the trust.
9. `CapturePath` (not written): `FlowRelay` composed with `WireProxy` and the breaker
   — the five-second race against the fifteen-second dial, and the pause marker's
   effect on flows that are being peeked.

Abstract specifications worth stating: `TransparentFlow` (done); for
`CapturePath` the same one, so that the composition is shown to be what the
kernel could have done.  Every safety invariant and action property that a run
checks is a theorem.

## Modules

Every definition that models code is listed in `PROJECT.json` under `map` with
its lines; those that only keep the books (`Goes` and `Ends` of `CaptureControl`)
are not.  Each module has a section of *deliberately wrong variants*: plausible
slips in the code, each substituted for the real definition once to see that a
property notices (`mutants`).

### `FlowRelay`, `TransparentFlow`

One flow per element of `Flows`.  A callback of the Network framework is one
action: the three dispatch queues may interleave them in any order, and each
network call may fail or never be answered.  `stage` is where the provider is
with the flow, `connect` the chain send → read response → commit, `timer` the
five-second `DispatchWorkItem` (cancelling it has no effect once it has begun,
hence `TimerFires` and `TimerRuns`), `outcome` the `Outcome` latch, `conn` the
two possible connections.  Bytes are numbered chunks, the ClientHello is
complete after `hello` of them, the peek budget is `PeekMax`.  `TransparentFlow`
is what the kernel does for a flow nobody intercepts; the refinement maps
`delivered` to what both connections carried together, so a byte sent twice, out
of order or to both destinations is not a step of it.

### `WireProxy`

One goroutine per element of `Conns`; `stage` is its place in `handleConnect`,
`tunnel`, `pump` or `tunnelWebSocket`.  A request is a kind — parseable, not
parseable, above `maxParseBody`, an upgrade with an HTTP fallback (426), one
without — and how much of its body has been written.  `received` is what an
origin would take for a complete request: for a buffered body that is whatever
`io.ReadAll` returned, because `forwardStream` sends it with a `Content-Length`
of its own.  `tunnelWebSocket` has the same steps as `forwardStream` (dial,
write, read the head, relay) and shares their actions; a `101` turns the
connection into a tunnel.  Whether a flow is inspected and whether the handshake
succeeds are free choices here (see `StableCA`).

### `CaptureHub`

`Record` is `record`/`recordBypass` up to the unlock (append, trim, copy the
subscriber list); `Send` and `Drop` are the `select` of the fan-out, one client
at a time in map order; `Subscribe`/`Unsubscribe` are the two registrations of
`handleSSE` and its two deferred calls; `Stall` is a write to a client that has
stopped reading.  `TakeSnapshot`/`NameRequest`/`FinishPass` are `observations`.
Entries are numbered, so every property about loss, order and duplication is
about numbers; `author`, `during`, `dropped`, `since` and `until` are history
variables; `during` keeps, for each entry, those that were still being sent when
it was recorded, which are the only ones it may overtake.

### `StableCA`

`Generate … WriteKey` are the steps of `LoadOrCreateCA` with a possible `Crash`
between any two (`os.WriteFile` truncates, then writes).  `StartAgent` reads the
CA file as `NODE_EXTRA_CA_CERTS` is read: once.  `OpenFlow`, `Decide`,
`LeafFor`, `Handshake*`, `PauseCapture` follow one provider flow from the
extension's marker check to the breaker.  A handshake fails when the agent does
not accept the leaf, and also when it goes away: `OnClientHandshakeError` is told
of every error.  `PauseCapture` may fail to write the marker, which the code only
logs; such a flow is `unmarked`.  Certificates are numbers with an
expiry, time is a counter; 0 is a file that does not parse.

### `AmbientInstall`

One command at a time: `StepsOf` lists the steps of `Install`, `Uninstall` and the two trust
commands, `at` the next one.  The steps of `runUninstall` are in the order of the
code: keychain, profile, session environment, job, plist, state directory, pause
marker.  A step that returns its error ends an install (`failed`) or is collected
by an uninstall (`issues`); one whose error is ignored sets `slipped`.  The
profile is a sequence of tokens — user lines, newlines, the markers and the
exports — on which `StripBlock` and `WithBlock` do what `stripBlock` and
`writeProfileBlock` do, newlines included.  `os.WriteFile` is two steps, because
it truncates first, and `lost` records a rewrite that was killed or failed there,
overtook an edit, or took an unreadable file for an absent one
(`install.go:220`).  launchd starts a loaded job whose process is gone; the
daemon creates a CA when it starts and finds none.  `Installed` is what
`agents status` computes.

### `Fact`, `SessionEvidence`

`Fact` is `classify` and `Merge` as operators on a sequence of observations.
`SessionEvidence` drives them: `Load`, `Expect`, `ReadTranscript`, `ReadCatalog`,
`SnapCaptures`, `ReadCapture`, `MergeFacts` are the phases of one session's
view, each reading the world at its own moment: the captures are one
snapshot, and the instruction files are read again for every capture in it;
`EditLayer`, `Request`, `RecordText`, `RecordTool`, `RecordCatalog` are the world.
`cache` is `resCache`: the resolution of a directory is loaded for the first of its
sessions and kept for the others, or forgotten where another call of `LiveSessions`
begins, while the text of its files is read when it is needed.  Version 0 is a file
that has no text to offer (absent, unreadable or blank): `knowledgeFingerprint`
then says `ok = false`, so it is neither expected nor observed (`Readable`).  A file may
go to any version at any time, back to an earlier one or to none included, and
`edited` keeps which did since the expectations were made.  A version of an
instruction file is recognised only in a prompt that carries that version, which is what the
normalised-text match does; marker phrases are out.  The transcript is read
twice, as in the code.  `VerdictsAreGrounded` is one statement per fact of four
parts: green is witnessed; a conflict is between the transcript and a request of a
session of the same runtime, never of a source with itself; drift needs a complete
catalog; unexpected text is of a file that changed, or became readable, after the
expectations were made — not of one that was merely loaded long ago.

### `Resolver`, `RecentSessions`

Pure operators.  A path is a sequence of segments, a disk says which directories
hold an `AGENTS.md` and which directory's file each of them really is, an
`agents.yaml` says one of `Written` of an item.  `DiscoverLayers` is the walk
from home to the directory with its scopes and its memory of files already
seen, `ResolveItem` the fold over the overlays that keeps the override chain.
`SessionEvidence!Load` uses `ActiveNames` for the tools it expects.
`DiscoverRecent` ranks candidates by file time, parses until the budget is full
and ranks what parsed by recorded time.  `Latest` states the stable sort by its
result: the p-th is the one that p - 1 precede.  `Explained`, `LayersInOrder` and
`LatestAreShown` say what each algorithm is for; `SessionEvidence` states them of
the inputs that its constants give (`LayerNames`, `Disks`, `Paths`, `Listings`,
`Limit`, `MinBudget`): all small ones in the run, any in the theorems.

### `EngineClient`

Everything runs on the main actor, so an action is what happens between two
awaits.  `start()` number n owns poll and stream task n; a `cancelled` task may
still be holding an answer.  `Ask` fixes the answer when the request is made and
`HealthOK`/`Publish` run at any later time, with the mode of that time, as the
code reads `mode` and `sessions` after the await.  `restarts` is the chain:
`StopAndWait` takes the handle and terminates the engine, `SwitchAfterExit` goes
on when that process has exited, and only the newest restart starts again.
`Appear` and `Disappear` are windows (`onAppear`, `onDisappear`); `stop()` does
not wait, which `abandoned` records.  An engine that finds its ports taken exits
(`Listen`).  The daemon comes and goes until it is `steady`.

### `CaptureControl`

A handler is a task; `task[t].at` is the await it is in, `ok` what it has to
report, and `alone` says that its app has ended.  Every load, save, remove, request
and helper may fail.  `tunnel` and `config` are macOS's, `trusted` the login
keychain's, `paused` the marker.  The menu checks only whether capture is active:
its `isEnabled` assignments have no effect, because an `NSMenu` enables its items
itself unless `autoenablesItems` is turned off, and the handlers do not check
again.  So handlers may overlap in any number, also of the same kind.  `Relaunch`
ends them where they are, but not what they have asked for (`Outlives`): `agents trust
install` and `agents trust remove` are processes of their own and may still change
the keychain, at a prompt for as long as the user likes, and macOS may still carry
out a save or a removal; nobody is left to report it or to take the next step.
`excused` is a history of what no order of steps can make up for: an enabling click
while capture is being undone, by a handler or by a helper left behind, or a
disabling one while it is being started (`crossing`); a stop that could not be
requested; a terminal command that removes the trust; a refresh that could not read
the preferences.  The two safety properties name the ones they exclude.  `OffMeansOff`
is about the status `inactive`; the menu says "off" for `failed` and `unknown` as
well, which claim nothing about the tunnel.

## Runs

Every passing run checks safety and, where there is any, liveness of one
component; the runs that expect a violation check one statement each.

| Run | Instance | Shows |
|---|---|---|
| `relay` | 1 flow, peek budget 2, 3 chunks a side | `OnePath`, `NoConnectionLeaks`, `OnlyProviderFlowsReachProxy`, the refinement, `RaceIsDecided`, `FinishReachesAgent` |
| `proxy` | 1 connection, 3 requests of any kind | `AnswersMatchRequests`, `NeverReplayed`, `EvidenceIsComplete`, `NoUpstreamLeaks`, `NobodyIsLeftWaiting` |
| `hub` | 2 recorders, 1 client, 1 poller, history 2, channel 2, 3 entries | `RingIsLatest`, `OneFate`, `PendingSendsAreSafe`, `ArrivalOrder`, `IdsNameConsecutiveCaptures`, `RecorderReturns` |
| `ca` | 2 agents, 1 host, 2 CAs, time 0–4, CA life 3, leaf life 2 | `NoLeafOutlivesCA`, `ServesFileOnDisk`, `TrustSurvivesRestarts`, `RejectionTripsBreaker` |
| `install` | 3 commands, 2 user lines, 1 kill, daemon death or reboot | `ProfileIsKept`, `UninstallIsComplete`, `InstallComesUp` |
| `evidence` | a Claude and an Antigravity session, in 1 directory, 1 layer with 2 versions and without text, 1 tool, 2 requests, 1 text in a prompt; every chain of up to 3 layers, every tree of 6 directories with 1 link, up to 3 transcript files | `VerdictsAreGrounded`, `VerdictIgnoresOrder`; `ItemsAreExplained`, `LayersComeOnce`, `RecentAreFound` |
| `engine` | 2 restarts, 1 window, 1 health check | engines are held or told to stop and the feed is of the mode (`TypeOK`), `RestartsReleaseThePorts`, `LastRestartWins`, `ShownSettles` |
| `capture` | 3 clicks, 2 handlers, or what they left behind, at a time | `CaptureIsTrusted`, `OffMeansOff`, `DisableIsDecided` |
| `cut`, `pair`, `warning`, `untrusted` | smaller instances of the same modules | a statement of the repository that the code does not keep (below) |

Why the bounds suffice.  Flows share nothing but the marker, connections of the
proxy share nothing at all, SSE clients share only the recorder that sends to
them one after the other; one of each meets every order of its own callbacks.
Two recorders are needed for entries to overtake one another, three entries for
a history of two to rotate during a pass and a channel of two to overflow, three
chunks for a byte before, at and after the peek budget, three requests for one
behind a failed one behind a good one.  In `ca`, CA life 3 with leaf life 2 and a
clock to 4 lets the leaf expire under a living CA, the CA expire under a running
daemon, and a second CA be issued.  In `evidence`, two versions make an edit
between any two phases possible, the version without text a file that vanishes and
comes back, and two requests let captures disagree; the two sessions share a
directory, so the second is shown from the cached resolution of the first; the
session without a transcript is there for the properties about silence.  In `install`, three
commands are an install, an uninstall or repair, and one more; two lines put the
user on both sides of the block, and one fault hits any step of any command.  In
`engine`, two restarts and a window are a switch away and back around a start and
a stop, so three starts, each with tasks that outlive it; the number of health
checks (12 in the code) only delays the second loop.  In `capture`, three clicks
are enable, disable or reset, and one more, and two handlers, or a handler and the
helper of an earlier app, meet in every overlap of two.  A chain of three layers
has a winner, one it overrode and one before that; a link between two of six
directories identifies any pair of the candidates and the way.  Three transcript
files against a limit of 1 and a budget of 2 have one that is cut.  The theorems
below lift the most important of these to every instance.

`CHECK_DEADLOCK FALSE` where the system really may stop: every flow, connection
or request of the instance is used up.  `evidence` and `capture` never stop and check it.

## Fairness

* `FlowRelay`: callbacks that are due run, the timer fires, the copy loops read.
  Nothing is assumed of the capture proxy (it may accept and stall) or the
  origin.
* `WireProxy`: one weak fairness condition per connection: a goroutine that can
  go on does.  Dials end within their 15 s; a read returns when the peer has
  written or ended.  `forwardStream` has no deadline for the answer itself, so
  the condition includes that an origin answers or its connection ends, as it
  does for an agent that talks to it directly.
* `CaptureHub`: the recording goroutine goes on, and a handler that is not
  blocked takes what its channel holds.  `Stall` has no counterpart that is
  fair: a client may never read again.
* `StableCA`: only the callback of a failed handshake.
* `AmbientInstall`: launchd starts a loaded job whose process is gone (`RunAtLoad`,
  `KeepAlive`), and a daemon that starts gets past its CA unless it dies; deaths
  are bounded.  Nothing is assumed of the commands.
* `EngineClient`: the poll task of the last start goes on (its sleeps end and its
  requests time out), the restarts in the chain go on, and a process that was
  sent SIGTERM exits: the monitor installs no handler for it.  Nothing is assumed
  of cancelled tasks, of the stream or of the daemon.
* `CaptureControl`: a handler goes on, because helpers exit and macOS answers
  loads, saves and removals, except while it waits for the user to approve the
  extension.
* `SessionEvidence` has no liveness property.

## Proofs

| Theorem | States |
|---|---|
| `FlowRelayProofs!TypeCorrect`, `BytesTakeOnePath` | the peek stays within its budget; the CONNECT race has one winner and the agent's bytes one path |
| `FlowRelayProofs!ConnectionsAreReleased`, `ProxySeesOnlyProviders` | a flow never holds two connections and a closed one none; only an agent's flow to an allowlisted host is given to the proxy |
| `FlowRelayProofs!RelayIsTransparent` | the relay implements `TransparentFlow` |
| `FlowRelayProofs!ServerFirstIsNeverDialled` | a flow that was taken and whose server speaks first is never dialled, by either way |
| `WireProxyProofs!AnswersMatch`, `NothingIsReplayed` | answers stay matched to pipelined requests; the origin gets each request at most once, in order |
| `WireProxyProofs!EvidenceComplete`, `UpstreamIsReleased` | nothing whole reaches the origin unrecorded; an upstream connection is held only while its request or tunnel is in progress |
| `CaptureHubProofs!TypeCorrect`, `LatestHistory`, `NoEntryLostOrDuplicated` | histories and channels stay within their capacity; the history is always the latest entries in order; every entry has exactly one fate at every client |
| `CaptureHubProofs!SendsAreSafe`, `ArrivalsAreOrdered`, `IdsAreStable` | no send meets a closed channel; an entry overtakes only those of other connections that were still being sent; the ids of a pass name consecutive captures |
| `StableCAProofs!FileIsServed`, `RestartsKeepTrust`, `LeavesEndWithTheirCA` | the certificate on disk is the one served; an agent that trusts a CA which has served accepts what it is shown until an expiry; no leaf outlives the CA that signed it |
| `AmbientInstallProofs!TypeCorrect`, `UninstallRemovesAll` | types; an uninstall that reports success has removed everything managed |
| `AmbientInstallProofs!ProfileKept` | the profile has the user's lines in their order and at most one managed block |
| `AmbientInstallProofs!InstallsSettle`, `UninstallUndoesInstall` | whatever is in the profile, two undisturbed installs reach one that further installs leave alone; uninstalling gives back every token of a profile without markers, ended with one newline |
| `EngineClientProofs!TypeCorrect`, `EnginesAreKept`, `PortsAreReleased` | the feed is of the mode; the app holds a handle on every engine it has not told to stop; a restart spawns an engine only when all others have exited or were abandoned by `stop()` |
| `CaptureControlProofs!TypeCorrect`, `CaptureTrusted`, `OffIsOff` | a running tunnel has an enabled configuration; trust brackets the tunnel; off means off |
| `CaptureControlProofs!StrandedUntilTheUserActs` | a status left at `activating` after the tunnel failed is changed only by a button or a relaunch |
| `SessionEvidenceProofs!VerdictsGrounded` | every verdict rests on evidence that supports it, whatever changes during the pass |
| `SessionEvidenceProofs!VerdictsNeedNoOrder`, `VerdictsNeedOnlyTheEvidence` | asking the sources in the opposite order gives the same verdicts; so does any list of the same observations, reordered or repeated |
| `SessionEvidenceProofs!EveryItemIsExplained` | whatever the layers say of an item: the narrowest that mentions it decides, and the chain it overrode is complete and in order |
| `SessionEvidenceProofs!EveryLayerComesOnce` | on any disk, whatever its links: every instruction file on the way applies once, broadest first |
| `SessionEvidenceProofs!RecentSessionsAreFound` | of any number of transcripts, parsed within the budget: those shown are the latest, and files that do not parse cost none its place |
| `SessionEvidenceProofs!ConflictOutlivesEvidence`, `VerifiedOutlivesEvidence`, `MissingNeedsCompleteSource` | what further evidence can and cannot do to a verdict |

Assumptions: only the named `ASSUME` of each module (capacities and lifetimes
are positive naturals, the sets of instruction files and tools are finite).  No
bound on the numbers of flows, clients, recorders, agents, hosts, entries,
connections, requests, CAs, sessions, files, versions, commands, faults, restarts,
windows, clicks or handlers is used beyond those constants being naturals.

*`OnePath`* is not inductive: a step that sends the first bytes must know that
the other connection has carried, and will carry, nothing.  `RaceInv` ties
`outcome`, `connect` and `conn` together: while the outcome is unclaimed nothing
has gone to the proxy and no direct connection exists; once a direct connection
exists the proxy has carried nothing and the CONNECT chain cannot be about to
send; as long as there is none, nothing was carried directly.

*`NoConnectionLeaks`* needs to know where in the flow's stages the connections are:
`LeakInv` says that both are made and torn down only while the flow is relaying —
the CONNECT chain and the direct connection's start included — so that a commit or
a fall-back leaves exactly the one that `path` names.  *`OnlyProviderFlowsReachProxy`*
needs that only an agent's flow gets as far as peeking (`ProviderInv`), and
`RouteToProxy`: within the budget the route leads to the proxy only after a complete
ClientHello.

*The refinement.*  `DeliveredInv` says that nothing has been carried before the
first bytes are handed over, and that from then on the connection in use has
carried exactly the chunks that were read.  Each of the relay's 26 actions is then
`AgentWrites`, `OriginWrites`, `Deliver`, `Return` or `Cut` of the abstract flow,
or leaves its variables alone; the hand-over delivers all the bytes read so far in
one step.

*The four theorems of `WireProxy`* share one invariant, a conjunction per connection.
`TurnInv` ties the stage to the numbers of requests read and answered; `AnswerInv`
and `OrderInv` say that answers are the first requests in order and that requests
reach the origin in order, never the one whose body is still being read;
`RecordInv` and `ReportInv` that a request is recorded or reported before it is
sent, and that a body read in part — the agent stopped — is not; `UpstreamInv` where
an upstream connection may exist.

*`OneFate`* needs `HandlerInv` (which registries a handler is in follows from
its stage), `PastInv` (numbers refer to entries that exist), `DistinctEntries`
(two goroutines never fan out the same number — the lock) and `QueueInv` (a
channel holds no number twice).  Each action has its own lemma.

*`ArrivalOrder`* is about the stream a client has been and will be written (`sent`
and then `queue`), which receiving leaves alone.  `AheadInv` says of the entry a
goroutine still has to send, and of whatever has been recorded, that the latter may
precede it: what is newer was recorded by another connection while it was in flight,
since a goroutine that has clients left to send to is still inside `record`.
*`PendingSendsAreSafe`* follows from every registered channel being open, because
targets are copied from the registry and nothing closes a channel.
*`IdsNameConsecutiveCaptures`* uses `RingIsLatest`: the copy is a stretch of the
history and what is named is its beginning.

*`TrustSurvivesRestarts`* needs `FileInv` (the certificate in memory is the one
on disk, and while a new one is being written it is the last one generated),
`ServedInv` (a CA that has served is in both files as long as it is valid, and a
renewal is in progress only when every such CA has expired) and `LeafInv` (every
leaf the daemon can hand out or has handed out to a flow in progress is of the
CA it has loaded; a crash ends those flows).

*`NoLeafOutlivesCA`* follows from `SignedInv`, which says the same of the leaf
cache and of the leaves agents hold, and that those name a CA that exists:
renewals only append CAs, so earlier leaves keep their meaning.

*`UninstallIsComplete`* is about what each finished step leaves for good
(`ProgressInv`), and three facts make that inductive.  `MintInv` counts: a CA is
created only when a command is there to answer for it, so an uninstall that has
removed the state finds no daemon that would create another.  `Tidy`: however
rewrites are cut short, an end marker follows a begin marker and nothing managed
follows it, so one `StripBlock` removes all of it; lemmas say what the text
operators do to a text of any length.  `PlaceInv` says which steps a command has.

*`ProfileIsKept`* says that the user's lines are those of the profile through an
increasing map between their places (`SameLines`), so that the relation can be
composed: slices, concatenation, trimming and the cut of the block each have a
lemma that says they keep it, for texts of any length, and `StripBlock` and
`WithBlock` are chains of these.  `KeptInv` says the same of what a command is about
to write, between reading the profile and having written it; an edit in between
makes the rewrite one of the exempt ones.

*`InstallsSettle`* and *`UninstallUndoesInstall`* are about what `StripBlock` takes
from a text to which a block was appended (`BlockTaken`): everything from the
first begin marker of the text on, or only the block when there is none, and the
newlines before it.  `FenceAppended` finds the markers, `TrimmedTo` characterises
trimming by where the last word is.  `Tidy`, from the invariant above, is what
makes two installs enough for every profile that commands can leave; one is not,
because blank lines before the block, and the beginning of a block whose writing
was cut short, only go with the next.

Two theorems say what the code does where no property could ask for less.
*`ServerFirstIsNeverDialled`*: while the agent is silent the flow is at the peek, and
nothing that dials is enabled there (`SilentInv`).  *`StrandedUntilTheUserActs`*
is an action property: a refresh that finds the tunnel down leaves that status as it
is, and what an earlier app has left behind does not write it.

*`RestartsReleaseThePorts`* needs four parts.  `ChainInv`: some number of
restarts at the head of the chain is done and at most the next one waits for an
engine; it also counts the starts, so that an engine's number is never used
twice.  `Held`: an engine that was not told to stop is the one of the handle.
`Awaited`: one that was, and has not exited, is awaited by a restart or was
abandoned.  When a restart ends, nothing else waits (`NobodyIsAwaited`), so every
engine that is still alive was abandoned.  `TypeOK` adds `FeedInv`: a stream that is
read asked the engine of the current mode, since the step that changes the mode
ends every stream.

*`CaptureIsTrusted` and `OffMeansOff`* say what holds when the tunnel is connected
and when nothing is under way; the invariant says it also while the tunnel comes
up (`TrustedInv`) and while a handler runs (`OffInv`).  Both need `OneWay` (until a
button crosses it, capture is being started or undone, not both, whatever is left
of earlier apps) and `StoppedInv` (a handler that has told the tunnel to stop, or
the helper it left behind, still finds it stopped at each later await, unless the
stop could not be requested).  `Keeps` is what all steps of handlers have in common:
a start never turns into a stop, nor a stop into a start; `LeftBehind` says the same
of a relaunch.

*`VerdictsAreGrounded`* is about the verdicts; its invariant is about each
observation from the moment it is made.  `Seen`: what it says was present is still
in the transcript or in the traffic, because both only grow.  `Missed`: a tool is
missed only in a complete catalog, a text only in a request.  `OfFile`: a text is
one that is expected, or of a file that was edited, which rests on `ResolvedInv`: a
readable file that was not edited since is expected in the version it has.  `Consistent` is about pairs: a transcript read twice does not contradict
itself, and since the second read comes later this needs no lock; two observations
of one request come from one reading of the files.  With `Dated` (wire observations
have request ids and are verified) a conflict can only be between a transcript and
a request.  *`VerdictIgnoresOrder`* would be false of arbitrary observations:
`classify` gives a missing fact the level of the first proof of absence.  It holds
because by `Missed` all proofs of absence of one fact have one level.
*`VerdictsNeedOnlyTheEvidence`* takes the same step for any sequence with the same
range: each part of `Merge` is then shown to depend on the range alone
(`SameKeys`, `SameOfAFact`).

*The three theorems about algorithms* are about folds over sequences of any length.
The library's induction theorems cannot be used with the provers at hand, so
induction is a statement about a *set* of numbers (`Induction`: a set that has 0
and, below n, the successor of each member has n), and the sets are those of
the steps at which something holds.  `FoldExists` says that a fold has the values
it runs through — a function on 0 .. n whose members are each one application
from the one before — and is itself proved that way, on the set of the lengths for
which there is such a function.  After that a fold is argued about like a
behaviour: an invariant of the accumulator that one element preserves.

* `EveryItemIsExplained`: after k overlays the item names the latest of those that
  mention it, and `Place` maps each earlier one to its place in the chain
  (`SpeakingOverlay`, `SilentOverlay`).
* `EveryLayerComesOnce`: the layers so far are of pairwise different files, each
  file on the part of the way walked is among them, and their directories are
  prefixes of one another (`NextDirectory`); the first fold leaves at most the one
  global layer (`OneGlobalLayer`).
* `RecentSessionsAreFound`: the ranks of a stable order are 1 .. n without a gap
  or a repetition (`RankGrows`, `LatestSorts`); what is parsed is the beginning of
  the readable files in that order, the budget's number of them or all
  (`ParseSteps`); so a readable file that is left out either has enough newer ones
  before it or is behind everything shown in the second order (`ParsedAreChosen`).

Model-checked only: liveness (`RaceIsDecided`, `FinishReachesAgent`,
`RecorderReturns`, `RejectionTripsBreaker`, `NobodyIsLeftWaiting`,
`InstallComesUp`, `LastRestartWins`, `ShownSettles`, `DisableIsDecided`), which
needs `ENABLED`.  What the reachable states of the small instances are is TLC's
result, too: that no operator fails on them, and that every action happens.

## Disagreements found

Each is a run that expects a violation and a finding with the quoted line.

* `cut` — an agent that stops inside a request body: the part read so far is sent
  upstream as a complete request (`proxy.go:237`).
* `pair` — a crash between the two files of a new CA leaves the new certificate
  beside the old key; both parse, so every later start reuses a pair that cannot
  sign (`ca.go:150`).
* `warning` — the app asks `/healthz` only until it has answered once, so a pause
  that begins later is never shown (`EngineClient.swift:306`).
* `untrusted` — when the preferences cannot be loaded, disabling capture leaves
  the tunnel running and removes the trust all the same
  (`ProxyController.swift:114`).

Known to the models without a run of its own:

* an install or uninstall that is killed, or fails, between the truncation and the
  write of `~/.zshenv` loses the user's profile, and an unreadable profile is
  overwritten by the block alone (`install.go:220`, `:238`); `ProfileIsKept`
  exempts exactly these rewrites;
* a flow whose server speaks first is taken, and never dialled
  (`TransparentProxyProvider.swift:109`; `README.md:249` says that other traffic
  is relayed immediately); `ServerFirstIsNeverDialled` proves it;
* the policy compares a path, so an agent that read an earlier certificate from
  that path is inspected, until its rejection trips the breaker (`policy.go:102`);
* captures are attributed to whichever session of the runtime is shown, so with
  two sessions of one runtime one contradicts the other (`monitor.go:70`);
  `VerdictsGrounded` allows for it: the request may be any session's of the runtime.
  The `evidence` run has one session per runtime, the theorem any number;
* a tool that was never expected is reported as `expected_verified`
  (`merge.go:61`);
* closing a window calls `stop()`, which does not wait: the engine of a `start()`
  right after it finds the ports taken and exits, and closing one of two windows
  stops polling for both (`EngineClient.swift:173`, `ContentView.swift:74`);
* a Refresh that was in flight when the mode changed publishes the old mode's
  sessions, and they stay while the new mode's server does not answer
  (`EngineClient.swift:348`); `restart` does not reset `captureWarning`;
* a refresh that sees the tunnel connecting sets `activating`; if the tunnel then
  fails no later refresh corrects it, and the onboarding disables its buttons; only a
  click in the menu, whose items stay enabled, or a relaunch leaves that state
  (`ProxyController.swift:50`, `StrandedUntilTheUserActs`).  A refresh whose load fails shows a running
  tunnel as off;
* an enabling and a disabling handler that cross can leave a tunnel without trust:
  the trust that the one installs is removed by the other after the tunnel is up.
  It takes no second click while a handler runs: disable, quit while `agents trust
  remove` waits at the keychain's prompt, start the app again, enable — the prompt
  is then answered under a connected tunnel.  Nothing in the code prevents it,
  although it contradicts the intent of `ProxyController.swift:66-67` and `:108-111`;
  `CaptureIsTrusted` exempts exactly this (`crossing`);
* every failed handshake pauses capture, also one the agent broke off, although the
  marker's text calls it a trust failure (`proxy.go:166`, `server.go:81`); and when
  the marker cannot be written, the agents' handshakes go on failing with a log line
  as the only trace (`server.go:83`);
* `~/git/AGENTS.md` is labelled a repository's layer, before the workspace's; a
  repository's `AGENTS.md` that is a link to the global one is skipped as already
  seen, and with it the `agents.yaml` beside it (`load.go:110`).

## Not modelled

`PROJECT.json` lists every component with its status.  Left out:

* request parsing, redacted capture files, the SNI parser, transcript parsers —
  pure functions of bytes with unit tests; the models take their result as data;
* source identification (`procenv`, signing identifiers) — a lookup that fails is
  a bypass, and the models let the decision be either;
* of the proxy: header rewriting, `Expect: 100-continue` and interim responses
  (the agents' HTTP stacks send no `Expect`), answers delimited by the end of the
  connection;
* of the installer: two commands at once (nothing locks them out) and a user who
  edits the managed block; the runs begin without blank lines at the end of the
  profile, which `stripBlock` does not restore (`UninstallUndoesInstall` says so of
  every text);
* of the app: `checkInstallStatus` and the text it parses (the buttons it enables
  are left enabled), `streamConnected`, `pulse` and the limit of 50 events;
* of the resolver: classification and device lists, which it only carries, and
  the reading of YAML and TOML;
* the throwaway CA of `agents run`, demo mode, the CLI's persisted-capture source;
* views, command-line formatting, `doctor`, scripts and release harnesses.

## Running it

    tlc -workers 2 -config CaptureHub_hub.cfg MCCaptureHub.tla
    tlapm CaptureHubProofs.tla

The configuration of a run `<Module>_<run>.cfg` goes with `MC<Module>.tla`; no
configuration replaces a definition.  The longest run (`evidence`) takes about
three minutes on two workers, the longest proof a few minutes.
