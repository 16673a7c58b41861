------------------------------- MODULE StableCA -------------------------------
(***************************************************************************)
(* The installed daemon's certificate authority, from the two files it is  *)
(* kept in to the handshake of an agent with a leaf: LoadOrCreateCA under  *)
(* crashes and restarts, the per-host leaf cache, the trust an agent reads *)
(* from the CA file when it starts, the source policy that compares only   *)
(* the file's path, and the pause marker that a failed handshake writes.   *)
(*                                                                         *)
(* CAs are numbered in the order they are generated; 0 stands for a file   *)
(* that is absent or truncated, which reads the same: it does not parse.   *)
(* Time is counted in units; a certificate is valid before its expiry.     *)
(***************************************************************************)
EXTENDS Naturals, Sequences

CONSTANTS
  Agents,      \* processes with a supported signing identifier
  Hosts,       \* allowlisted provider hosts
  CALife,      \* lifetime of a CA (five years)
  LeafLife,    \* lifetime of a leaf (ninety days)
  MaxTime,     \* bound of the model: the clock stops here
  MaxCAs       \* bound of the model: CAs generated

ASSUME CAAssumption ==
  /\ CALife \in Nat \ {0}
  /\ LeafLife \in Nat \ {0}
  /\ MaxTime \in Nat
  /\ MaxCAs \in Nat

VARIABLES
  now,         \* the clock
  expiry,      \* expiry[n] of the n-th CA generated
  served,      \* history: CAs a daemon has served leaves with
  pem, key,    \* observatory-ca.pem and observatory-ca.key
  daemon,      \* what the daemon is doing
  cert, signer,\* the CA certificate and private key in its memory
  cache,       \* its leaf for each host
  running,     \* agents that run
  path,        \* an agent's environment names the CA file
  trusts,      \* the CA that file held when the agent started
  flow,        \* an agent's current provider flow
  leaf,        \* the leaf presented on that flow
  paused       \* the capture-paused marker exists

fileVars  == <<pem, key, expiry>>
memVars   == <<daemon, cert, signer, cache, served>>
agentVars == <<running, path, trusts>>
flowVars  == <<flow, leaf, paused>>
vars      == <<now, fileVars, memVars, agentVars, flowVars>>

FlowStates == {"none", "offered", "inspecting", "handshake", "passed", "captured",
               "failed", "broken", "unmarked", "unsigned", "cut"}

NoLeaf == [ca |-> 0, until |-> 0]

Valid(n) == n # 0 /\ now < expiry[n]

NextCA == Len(expiry) + 1

MinOf(a, b) == IF a < b THEN a ELSE b

-------------------------------------------------------------------------------

Init ==
  /\ now = 0
  /\ expiry = << >> /\ served = {}
  /\ pem = 0 /\ key = 0
  /\ daemon = "down"
  /\ cert = 0 /\ signer = 0
  /\ cache = [h \in Hosts |-> NoLeaf]
  /\ running = [a \in Agents |-> FALSE]
  /\ path = [a \in Agents |-> FALSE]
  /\ trusts = [a \in Agents |-> 0]
  /\ flow = [a \in Agents |-> "none"]
  /\ leaf = [a \in Agents |-> NoLeaf]
  /\ paused = FALSE

(***************************************************************************)
(* Deliberately wrong variants, each a plausible slip in the code; the     *)
(* properties below must notice every one of them.                         *)
(***************************************************************************)

(* Renew a CA that has not expired yet. *)
RenewEarly(t) == pem # 0 /\ key # 0 /\ t + 1 < expiry[pem]

(* A leaf lifetime that is not clamped to the CA's. *)
LeafUnclamped == [ca |-> cert, until |-> now + LeafLife]

(* Serve the generated CA and leave the files for later. *)
ServeFirst ==
  /\ daemon = "down"
  /\ ~(pem # 0 /\ key # 0 /\ now < expiry[pem])
  /\ NextCA <= MaxCAs
  /\ expiry' = Append(expiry, now + CALife)
  /\ cert' = NextCA /\ signer' = NextCA
  /\ served' = served \union {NextCA}
  /\ cache' = [h \in Hosts |-> NoLeaf]
  /\ daemon' = "up"
  /\ UNCHANGED <<now, pem, key, agentVars, flowVars>>

(* A failed handshake that is counted but does not pause capture. *)
CountOnly(a) ==
  /\ flow[a] = "failed"
  /\ flow' = [flow EXCEPT ![a] = "broken"]
  /\ UNCHANGED <<leaf, paused, now, fileVars, memVars, agentVars>>

(***************************************************************************)
(* LoadOrCreateCA at daemon start.                                         *)
(***************************************************************************)

(* Both files parse and the certificate is usable at t (usableAt).  Nothing
   compares the certificate with the key. *)
Reusable(t) == pem # 0 /\ key # 0 /\ t < expiry[pem]

Serve(c, k) ==
  /\ cert' = c /\ signer' = k
  /\ served' = IF c = k THEN served \union {c} ELSE served
  /\ cache' = [h \in Hosts |-> NoLeaf]
  /\ daemon' = "up"

Load ==
  /\ daemon = "down"
  /\ Reusable(now)
  /\ Serve(pem, key)
  /\ UNCHANGED <<now, fileVars, agentVars, flowVars>>

Generate ==
  /\ daemon = "down"
  /\ ~Reusable(now)
  /\ NextCA <= MaxCAs
  /\ expiry' = Append(expiry, now + CALife)
  /\ daemon' = "generated"
  /\ UNCHANGED <<now, pem, key, cert, signer, cache, served, agentVars, flowVars>>

(* os.WriteFile truncates the file, then writes it: first the certificate,
   then the key. *)
TruncatePem ==
  /\ daemon = "generated"
  /\ pem' = 0 /\ daemon' = "pem truncated"
  /\ UNCHANGED <<now, key, expiry, cert, signer, cache, served, agentVars, flowVars>>

WritePem ==
  /\ daemon = "pem truncated"
  /\ pem' = Len(expiry) /\ daemon' = "pem written"
  /\ UNCHANGED <<now, key, expiry, cert, signer, cache, served, agentVars, flowVars>>

TruncateKey ==
  /\ daemon = "pem written"
  /\ key' = 0 /\ daemon' = "key truncated"
  /\ UNCHANGED <<now, pem, expiry, cert, signer, cache, served, agentVars, flowVars>>

WriteKey ==
  /\ daemon = "key truncated"
  /\ key' = Len(expiry)
  /\ Serve(Len(expiry), Len(expiry))
  /\ UNCHANGED <<now, pem, expiry, agentVars, flowVars>>

Starting == Load \/ Generate \/ TruncatePem \/ WritePem \/ TruncateKey \/ WriteKey

(* A crash, a failed write or a reboot: launchd (KeepAlive) starts it again.
   The flows the daemon was serving are cut, and a failed handshake whose
   callback has not written the marker yet is forgotten. *)
Crash ==
  /\ daemon # "down"
  /\ daemon' = "down" /\ cert' = 0 /\ signer' = 0
  /\ cache' = [h \in Hosts |-> NoLeaf]
  /\ flow' = [a \in Agents |->
                IF flow[a] \in {"inspecting", "handshake", "failed"} THEN "cut" ELSE flow[a]]
  /\ UNCHANGED <<now, fileVars, served, agentVars, leaf, paused>>

(***************************************************************************)
(* Agents and their provider flows.                                        *)
(***************************************************************************)

(* NODE_EXTRA_CA_CERTS and CODEX_CA_CERTIFICATE are read at process start.  A
   shell from before the install does not set them. *)
StartAgent(a) ==
  /\ ~running[a]
  /\ running' = [running EXCEPT ![a] = TRUE]
  /\ \E inherits \in BOOLEAN :
       /\ path' = [path EXCEPT ![a] = inherits]
       /\ trusts' = [trusts EXCEPT ![a] = IF inherits THEN pem ELSE 0]
  /\ UNCHANGED <<now, fileVars, memVars, flowVars>>

QuitAgent(a) ==
  /\ running[a] /\ flow[a] = "none"
  /\ running' = [running EXCEPT ![a] = FALSE]
  /\ path' = [path EXCEPT ![a] = FALSE]
  /\ trusts' = [trusts EXCEPT ![a] = 0]
  /\ UNCHANGED <<now, fileVars, memVars, flowVars>>

(* The extension declines the flow while the marker exists. *)
OpenFlow(a) ==
  /\ running[a] /\ flow[a] = "none"
  /\ flow' = [flow EXCEPT ![a] = IF paused THEN "passed" ELSE "offered"]
  /\ UNCHANGED <<leaf, paused, now, fileVars, memVars, agentVars>>

(* CapturePolicy.Decide: the environment names the daemon's CA file. *)
Inspects(a) == path[a]

(* handleConnect up to its 200; a daemon that is not listening makes the
   extension fail open. *)
Decide(a) ==
  /\ flow[a] = "offered"
  /\ flow' = [flow EXCEPT ![a] =
                IF daemon = "up" /\ Inspects(a) THEN "inspecting" ELSE "passed"]
  /\ UNCHANGED <<leaf, paused, now, fileVars, memVars, agentVars>>

MintedLeaf == [ca |-> cert, until |-> MinOf(now + LeafLife, expiry[cert])]

(* LeafFor: the cached leaf, whatever its age, else a new one; signing fails
   when the key is not the certificate's, and the flow ends after its 200. *)
LeafFor(a, h) ==
  LET found == cache[h] # NoLeaf
      given == IF found THEN cache[h] ELSE MintedLeaf IN
  /\ flow[a] = "inspecting"
  /\ IF found \/ cert = signer
     THEN /\ cache' = [cache EXCEPT ![h] = given]
          /\ leaf' = [leaf EXCEPT ![a] = given]
          /\ flow' = [flow EXCEPT ![a] = "handshake"]
     ELSE /\ flow' = [flow EXCEPT ![a] = "unsigned"]
          /\ UNCHANGED <<cache, leaf>>
  /\ UNCHANGED <<daemon, cert, signer, served, paused, now, fileVars, agentVars>>

(* What a TLS client checks of the leaf. *)
Accepts(a) == leaf[a].ca = trusts[a] /\ now < leaf[a].until /\ Valid(trusts[a])

HandshakeSucceeds(a) ==
  /\ flow[a] = "handshake"
  /\ Accepts(a)
  /\ flow' = [flow EXCEPT ![a] = "captured"]
  /\ UNCHANGED <<leaf, paused, now, fileVars, memVars, agentVars>>

(* Any error of the handshake: the agent refuses the leaf, or it went away or
   broke the protocol although it would have accepted. *)
HandshakeFails(a) ==
  /\ flow[a] = "handshake"
  /\ flow' = [flow EXCEPT ![a] = "failed"]
  /\ UNCHANGED <<leaf, paused, now, fileVars, memVars, agentVars>>

(* OnClientHandshakeError, after it has released the server's lock: write the
   marker; then the connection is closed.  A write that fails, before or after
   it has created the file, is logged and not tried again. *)
PauseCapture(a) ==
  /\ flow[a] = "failed"
  /\ \/ /\ paused' = TRUE
        /\ flow' = [flow EXCEPT ![a] = "broken"]
     \/ /\ paused' \in {paused, TRUE}
        /\ flow' = [flow EXCEPT ![a] = "unmarked"]
  /\ UNCHANGED <<leaf, now, fileVars, memVars, agentVars>>

CloseFlow(a) ==
  /\ flow[a] \in {"passed", "captured", "broken", "unmarked", "unsigned", "cut"}
  /\ flow' = [flow EXCEPT ![a] = "none"]
  /\ leaf' = [leaf EXCEPT ![a] = NoLeaf]
  /\ UNCHANGED <<paused, now, fileVars, memVars, agentVars>>

(* Whoever removes the marker: the app when the user enables capture, the reset
   command, an install, or macOS emptying /tmp. *)
ClearCapturePause ==
  /\ paused
  /\ paused' = FALSE
  /\ UNCHANGED <<flow, leaf, now, fileVars, memVars, agentVars>>

Tick ==
  /\ now < MaxTime
  /\ now' = now + 1
  /\ UNCHANGED <<fileVars, memVars, agentVars, flowVars>>

-------------------------------------------------------------------------------

AgentStep(a) ==
  \/ StartAgent(a) \/ QuitAgent(a) \/ OpenFlow(a) \/ Decide(a)
  \/ \E h \in Hosts : LeafFor(a, h)
  \/ HandshakeSucceeds(a) \/ HandshakeFails(a) \/ PauseCapture(a) \/ CloseFlow(a)

Next ==
  \/ Starting \/ Crash \/ ClearCapturePause \/ Tick
  \/ \E a \in Agents : AgentStep(a)

Spec == Init /\ [][Next]_vars

(* The goroutine that saw a handshake fail runs on.  Nothing is assumed of
   agents, users, or how often the daemon crashes or is restarted. *)
FairSpec == Spec /\ \A a \in Agents : WF_vars(PauseCapture(a))

(***************************************************************************)
(* Properties                                                              *)
(***************************************************************************)

(* A leaf never claims to outlive the CA that signed it. *)
NoLeafOutlivesCA ==
  \A a \in Agents : leaf[a].ca # 0 => leaf[a].until <= expiry[leaf[a].ca]

(* The file that new agents read, and that the keychain check fingerprints, is
   the certificate the daemon serves, across every crash between the writes. *)
ServesFileOnDisk == daemon = "up" => pem = cert

(* Restarts keep trust: at every handshake an agent that trusts a CA a daemon
   has served with accepts the leaf it is shown, unless that CA, or the leaf in
   the cache, has expired, however often the daemon crashes and renews in
   between. *)
TrustSurvivesRestarts ==
  \A a \in Agents :
    (flow[a] = "handshake" /\ trusts[a] \in served)
      => Accepts(a) \/ ~Valid(trusts[a]) \/ now >= leaf[a].until

(* The breaker: a handshake that fails, for whatever reason, leads to the
   marker, unless this very flow's callback could not write it or the daemon
   died before it had. *)
RejectionTripsBreaker ==
  \A a \in Agents :
    (flow[a] = "failed") ~> (paused \/ flow[a] \in {"unmarked", "cut"})

(* usableAt "reports whether the CA is a valid signing root": what is loaded
   can sign. *)
LoadedCACanSign == daemon = "up" => cert = signer

===============================================================================
