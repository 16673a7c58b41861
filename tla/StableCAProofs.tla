---------------------------- MODULE StableCAProofs ----------------------------
(***************************************************************************)
(* Proofs about StableCA for any agents, hosts, lifetimes and bounds: the  *)
(* daemon serves the certificate that is on disk, and a CA it has served   *)
(* with keeps the trust of the agents that read it until it expires,       *)
(* whatever the crashes between the writes of its two files.               *)
(***************************************************************************)
EXTENDS StableCA, TLAPS

Writing == {"pem written", "key truncated"}
Renewing == {"generated", "pem truncated"} \union Writing

(* The part of the type invariant that the arguments below rest on. *)
CAType ==
  /\ now \in Nat
  /\ expiry \in Seq(Nat)
  /\ pem \in 0 .. Len(expiry) /\ key \in 0 .. Len(expiry)
  /\ cert \in 0 .. Len(expiry) /\ signer \in 0 .. Len(expiry)
  /\ served \subseteq 1 .. Len(expiry)
  /\ trusts \in [Agents -> 0 .. Len(expiry)]
  /\ flow \in [Agents -> FlowStates]
  /\ cache \in [Hosts -> [ca : Nat, until : Nat]]
  /\ leaf \in [Agents -> [ca : Nat, until : Nat]]

(* The certificate in memory is the one on disk; while a new one is written,
   it is the last one generated. *)
FileInv ==
  /\ daemon = "up" => pem = cert /\ cert # 0
  /\ daemon \in Writing => pem = Len(expiry)
  /\ daemon \in Renewing => Len(expiry) > 0

(* A CA that has been served with is renewed only after it has expired. *)
ServedInv ==
  /\ \A n \in served : Valid(n) => pem = n /\ key = n
  /\ daemon \in Renewing => \A n \in served : ~Valid(n)

(* Every leaf the daemon can hand out is of the CA it has loaded. *)
LeafInv ==
  /\ \A h \in Hosts : cache[h] # NoLeaf => cache[h].ca = cert
  /\ \A a \in Agents :
       flow[a] \in {"inspecting", "handshake"} => daemon = "up"
  /\ \A a \in Agents :
       flow[a] = "handshake" => leaf[a].ca = cert
  /\ \A a \in Agents : ~running[a] => flow[a] = "none"

IInv == CAType /\ FileInv /\ ServedInv /\ LeafInv

-------------------------------------------------------------------------------

LEMMA InitInv == Init => IInv
<1> SUFFICES ASSUME Init PROVE IInv
  OBVIOUS
<1>1. CAType
  BY DEF Init, CAType, FlowStates, NoLeaf
<1>2. FileInv /\ ServedInv /\ LeafInv
  BY DEF Init, FileInv, Writing, Renewing, ServedInv, LeafInv, Valid
<1> QED
  BY <1>1, <1>2 DEF IInv

(* Generating a CA leaves the expiry of the earlier ones alone. *)
LEMMA ExpiryGrows ==
  ASSUME NEW s \in Seq(Nat), NEW e \in Nat
  PROVE  /\ Append(s, e) \in Seq(Nat)
         /\ Len(Append(s, e)) = Len(s) + 1
         /\ \A n \in 1 .. Len(s) : Append(s, e)[n] = s[n]
  OBVIOUS

(* What the bounds of the CAs' numbers give. *)
LEMMA Expiries ==
  ASSUME NEW s \in Seq(Nat)
  PROVE  /\ Len(s) \in Nat
         /\ 0 \in 0 .. Len(s)
         /\ Len(s) \in 0 .. Len(s)
         /\ \A n \in 1 .. Len(s) : s[n] \in Nat
         /\ \A n \in 0 .. Len(s) : n \in Nat
  OBVIOUS

LEMMA StepInv == IInv /\ [Next]_vars => IInv'
<1> SUFFICES ASSUME IInv, [Next]_vars PROVE IInv'
  OBVIOUS
<1>e. expiry \in Seq(Nat)
  BY DEF IInv, CAType
<1>a. /\ Len(expiry) \in Nat /\ 0 \in 0 .. Len(expiry) /\ Len(expiry) \in 0 .. Len(expiry)
      /\ \A n \in 1 .. Len(expiry) : expiry[n] \in Nat
      /\ \A n \in 0 .. Len(expiry) : n \in Nat
  BY <1>e, Expiries
<1>1. CASE Load
  <2>1. CAType'
    <3>1. cache' \in [Hosts -> [ca : Nat, until : Nat]]
      BY <1>1 DEF Load, Serve, NoLeaf
    <3> QED
      BY <1>a, <1>e, <1>1, <3>1 DEF IInv, CAType, FlowStates, Load, Serve, Reusable,
         agentVars, flowVars, fileVars
  <2>2. FileInv'
    BY <1>a, <1>e, <1>1 DEF IInv, CAType, FileInv, Writing, Renewing, Load, Serve,
       Reusable, agentVars, flowVars, fileVars
  <2>3. ServedInv'
    BY <1>a, <1>e, <1>1 DEF IInv, CAType, FileInv, ServedInv, Writing, Renewing, Valid,
       Load, Serve, Reusable, agentVars, flowVars, fileVars
  <2>4. LeafInv'
    BY <1>a, <1>e, <1>1 DEF IInv, CAType, FileInv, LeafInv, NoLeaf, Load, Serve, Reusable,
       agentVars, flowVars, fileVars
  <2> QED
    BY <2>1, <2>2, <2>3, <2>4 DEF IInv
<1>2. CASE Generate
  <2>1. CAType'
    <3>1. expiry' \in Seq(Nat) /\ Len(expiry') = Len(expiry) + 1
      <4>1. now + CALife \in Nat
        BY CAAssumption DEF IInv, CAType
      <4> QED
        BY <1>2, <1>e, <4>1, ExpiryGrows DEF Generate
    <3>2. \A n \in 0 .. Len(expiry) : n \in 0 .. Len(expiry')
      BY <3>1, <1>a
    <3> QED
      BY <1>2, <3>1, <3>2, <1>a DEF IInv, CAType, Generate, agentVars, flowVars
  <2>2. FileInv'
    BY <1>a, <1>e, <1>2 DEF IInv, CAType, FileInv, Writing, Renewing, Generate, Reusable,
       NextCA, agentVars, flowVars
  <2>3. ServedInv'
    BY <1>a, <1>e, <1>2 DEF IInv, CAType, FileInv, ServedInv, Writing, Renewing, Valid,
       Generate, Reusable, NextCA, agentVars, flowVars
  <2>4. LeafInv'
    BY <1>a, <1>e, <1>2 DEF IInv, CAType, FileInv, LeafInv, NoLeaf, Generate, Reusable,
       NextCA, agentVars, flowVars
  <2> QED
    BY <2>1, <2>2, <2>3, <2>4 DEF IInv
<1>3. CASE TruncatePem
  <2>1. CAType'
    BY <1>a, <1>e, <1>3 DEF IInv, CAType, FlowStates, TruncatePem, agentVars, flowVars
  <2>2. FileInv'
    BY <1>a, <1>e, <1>3 DEF IInv, CAType, FileInv, Writing, Renewing, TruncatePem,
       agentVars, flowVars
  <2>3. ServedInv'
    BY <1>a, <1>e, <1>3 DEF IInv, CAType, FileInv, ServedInv, Writing, Renewing, Valid,
       TruncatePem, agentVars, flowVars
  <2>4. LeafInv'
    BY <1>a, <1>e, <1>3 DEF IInv, CAType, FileInv, LeafInv, NoLeaf, TruncatePem,
       agentVars, flowVars
  <2> QED
    BY <2>1, <2>2, <2>3, <2>4 DEF IInv
<1>4. CASE WritePem
  <2>1. CAType'
    BY <1>a, <1>e, <1>4 DEF IInv, CAType, FlowStates, WritePem, agentVars, flowVars
  <2>2. FileInv'
    BY <1>a, <1>e, <1>4 DEF IInv, CAType, FileInv, Writing, Renewing, WritePem, agentVars,
       flowVars
  <2>3. ServedInv'
    BY <1>a, <1>e, <1>4 DEF IInv, CAType, FileInv, ServedInv, Writing, Renewing, Valid,
       WritePem, agentVars, flowVars
  <2>4. LeafInv'
    BY <1>a, <1>e, <1>4 DEF IInv, CAType, FileInv, LeafInv, NoLeaf, WritePem, agentVars,
       flowVars
  <2> QED
    BY <2>1, <2>2, <2>3, <2>4 DEF IInv
<1>5. CASE TruncateKey
  <2>1. CAType'
    BY <1>a, <1>e, <1>5 DEF IInv, CAType, FlowStates, TruncateKey, agentVars, flowVars
  <2>2. FileInv'
    BY <1>a, <1>e, <1>5 DEF IInv, CAType, FileInv, Writing, Renewing, TruncateKey,
       agentVars, flowVars
  <2>3. ServedInv'
    BY <1>a, <1>e, <1>5 DEF IInv, CAType, FileInv, ServedInv, Writing, Renewing, Valid,
       TruncateKey, agentVars, flowVars
  <2>4. LeafInv'
    BY <1>a, <1>e, <1>5 DEF IInv, CAType, FileInv, LeafInv, NoLeaf, TruncateKey,
       agentVars, flowVars
  <2> QED
    BY <2>1, <2>2, <2>3, <2>4 DEF IInv
<1>6. CASE WriteKey
  <2>1. CAType'
    <3>1. cache' \in [Hosts -> [ca : Nat, until : Nat]]
      BY <1>6 DEF WriteKey, Serve, NoLeaf
    <3>2. Len(expiry) > 0
      BY <1>6 DEF IInv, FileInv, Renewing, Writing, WriteKey
    <3>3. served' \subseteq 1 .. Len(expiry)
      <4>1. served' = served \union {Len(expiry)}
        BY <1>6 DEF WriteKey, Serve
      <4>2. Len(expiry) \in 1 .. Len(expiry)
        BY <1>a, <3>2
      <4> QED
        BY <4>1, <4>2 DEF IInv, CAType
    <3> QED
      BY <1>a, <1>e, <1>6, <3>1, <3>3 DEF IInv, CAType, FlowStates, WriteKey, Serve,
         agentVars, flowVars
  <2>2. FileInv'
    <3>1. Len(expiry) > 0 /\ pem = Len(expiry)
      BY <1>6 DEF IInv, FileInv, Renewing, Writing, WriteKey
    <3>2. pem' = pem /\ cert' = Len(expiry) /\ daemon' = "up" /\ expiry' = expiry
      BY <1>6 DEF WriteKey, Serve
    <3> QED
      BY <1>a, <3>1, <3>2 DEF FileInv, Renewing, Writing
  <2>3. ServedInv'
    BY <1>a, <1>e, <1>6 DEF IInv, CAType, FileInv, ServedInv, Writing, Renewing, Valid,
       WriteKey, Serve, agentVars, flowVars
  <2>4. LeafInv'
    BY <1>a, <1>e, <1>6 DEF IInv, CAType, FileInv, LeafInv, NoLeaf, WriteKey, Serve,
       agentVars, flowVars
  <2> QED
    BY <2>1, <2>2, <2>3, <2>4 DEF IInv
<1>7. CASE Crash
  <2>1. CAType'
    <3>1. cache' \in [Hosts -> [ca : Nat, until : Nat]]
      BY <1>7 DEF Crash, NoLeaf
    <3>2. flow' \in [Agents -> FlowStates]
      BY <1>7 DEF Crash, IInv, CAType, FlowStates
    <3> QED
      BY <1>a, <1>e, <1>7, <3>1, <3>2 DEF IInv, CAType, Crash, fileVars, agentVars
  <2>2. FileInv'
    BY <1>a, <1>e, <1>7 DEF IInv, CAType, FileInv, Writing, Renewing, Crash, fileVars,
       agentVars
  <2>3. ServedInv'
    BY <1>a, <1>e, <1>7 DEF IInv, CAType, FileInv, ServedInv, Writing, Renewing, Valid,
       Crash, fileVars, agentVars
  <2>4. LeafInv'
    BY <1>a, <1>e, <1>7 DEF IInv, CAType, FileInv, LeafInv, NoLeaf, Crash, fileVars,
       agentVars
  <2> QED
    BY <2>1, <2>2, <2>3, <2>4 DEF IInv
<1>8. CASE ClearCapturePause
  <2>1. CAType'
    BY <1>a, <1>e, <1>8 DEF IInv, CAType, FlowStates, ClearCapturePause, fileVars,
       memVars, agentVars
  <2>2. FileInv'
    BY <1>a, <1>e, <1>8 DEF IInv, CAType, FileInv, Writing, Renewing, ClearCapturePause,
       fileVars, memVars, agentVars
  <2>3. ServedInv'
    BY <1>a, <1>e, <1>8 DEF IInv, CAType, FileInv, ServedInv, Writing, Renewing, Valid,
       ClearCapturePause, fileVars, memVars, agentVars
  <2>4. LeafInv'
    BY <1>a, <1>e, <1>8 DEF IInv, CAType, FileInv, LeafInv, NoLeaf, ClearCapturePause,
       fileVars, memVars, agentVars
  <2> QED
    BY <2>1, <2>2, <2>3, <2>4 DEF IInv
<1>9. CASE Tick
  <2>1. CAType'
    BY <1>a, <1>e, <1>9 DEF IInv, CAType, FlowStates, Tick, fileVars, memVars, agentVars,
       flowVars
  <2>2. FileInv'
    BY <1>a, <1>e, <1>9 DEF IInv, CAType, FileInv, Writing, Renewing, Tick, fileVars,
       memVars, agentVars, flowVars
  <2>3. ServedInv'
    <3>1. \A n \in served : Valid(n)' => Valid(n)
      BY <1>a, <1>9 DEF IInv, CAType, Valid, Tick, fileVars, memVars
    <3> QED
      BY <1>9, <3>1 DEF IInv, ServedInv, Tick, Renewing, Writing, fileVars, memVars
  <2>4. LeafInv'
    BY <1>a, <1>e, <1>9 DEF IInv, CAType, FileInv, LeafInv, NoLeaf, Tick, fileVars,
       memVars, agentVars, flowVars
  <2> QED
    BY <2>1, <2>2, <2>3, <2>4 DEF IInv
<1>10. ASSUME NEW a \in Agents, AgentStep(a)
       PROVE  IInv'
  <2>1. CASE StartAgent(a)
    <3>1. CAType'
      BY <1>a, <1>e, <2>1 DEF IInv, CAType, FlowStates, StartAgent, fileVars, memVars,
         flowVars, NoLeaf
    <3>2. FileInv'
      BY <1>a, <1>e, <2>1 DEF IInv, CAType, FileInv, Writing, Renewing, StartAgent,
         fileVars, memVars, flowVars, NoLeaf
    <3>3. ServedInv'
      BY <1>a, <1>e, <2>1 DEF IInv, CAType, FileInv, ServedInv, Writing, Renewing, Valid,
         StartAgent, fileVars, memVars, flowVars, NoLeaf
    <3>4. LeafInv'
      BY <1>a, <1>e, <2>1 DEF IInv, CAType, FileInv, LeafInv, NoLeaf, StartAgent,
         fileVars, memVars, flowVars
    <3> QED
      BY <3>1, <3>2, <3>3, <3>4 DEF IInv
  <2>2. CASE QuitAgent(a)
    <3>1. CAType'
      BY <1>a, <1>e, <2>2 DEF IInv, CAType, FlowStates, QuitAgent, fileVars, memVars,
         flowVars
    <3>2. FileInv'
      BY <1>a, <1>e, <2>2 DEF IInv, CAType, FileInv, Writing, Renewing, QuitAgent,
         fileVars, memVars, flowVars
    <3>3. ServedInv'
      BY <1>a, <1>e, <2>2 DEF IInv, CAType, FileInv, ServedInv, Writing, Renewing, Valid,
         QuitAgent, fileVars, memVars, flowVars
    <3>4. LeafInv'
      BY <1>a, <1>e, <2>2 DEF IInv, CAType, FileInv, LeafInv, NoLeaf, QuitAgent, fileVars,
         memVars, flowVars
    <3> QED
      BY <3>1, <3>2, <3>3, <3>4 DEF IInv
  <2>3. CASE OpenFlow(a)
    <3>1. CAType'
      BY <1>a, <1>e, <2>3 DEF IInv, CAType, FlowStates, OpenFlow, fileVars, memVars,
         agentVars
    <3>2. FileInv'
      BY <1>a, <1>e, <2>3 DEF IInv, CAType, FileInv, Writing, Renewing, OpenFlow,
         fileVars, memVars, agentVars
    <3>3. ServedInv'
      BY <1>a, <1>e, <2>3 DEF IInv, CAType, FileInv, ServedInv, Writing, Renewing, Valid,
         OpenFlow, fileVars, memVars, agentVars
    <3>4. LeafInv'
      BY <1>a, <1>e, <2>3 DEF IInv, CAType, FileInv, LeafInv, NoLeaf, OpenFlow, fileVars,
         memVars, agentVars
    <3> QED
      BY <3>1, <3>2, <3>3, <3>4 DEF IInv
  <2>4. CASE Decide(a)
    <3>1. CAType'
      BY <1>a, <1>e, <2>4 DEF IInv, CAType, FlowStates, Decide, Inspects, fileVars,
         memVars, agentVars
    <3>2. FileInv'
      BY <1>a, <1>e, <2>4 DEF IInv, CAType, FileInv, Writing, Renewing, Decide, Inspects,
         fileVars, memVars, agentVars
    <3>3. ServedInv'
      BY <1>a, <1>e, <2>4 DEF IInv, CAType, FileInv, ServedInv, Writing, Renewing, Valid,
         Decide, Inspects, fileVars, memVars, agentVars
    <3>4. LeafInv'
      BY <1>a, <1>e, <2>4 DEF IInv, CAType, FileInv, LeafInv, NoLeaf, Decide, Inspects,
         fileVars, memVars, agentVars
    <3> QED
      BY <3>1, <3>2, <3>3, <3>4 DEF IInv
  <2>5. ASSUME NEW h \in Hosts, LeafFor(a, h)
        PROVE  IInv'
    <3>1. CAType'
      <4>a. MintedLeaf \in [ca : Nat, until : Nat]
        <5>1. cert \in 1 .. Len(expiry)
          BY <1>a, <2>5 DEF IInv, CAType, FileInv, LeafInv, LeafFor
        <5>2. now + LeafLife \in Nat /\ expiry[cert] \in Nat /\ cert \in Nat
          BY <1>a, <5>1, CAAssumption DEF IInv, CAType
        <5> QED
          BY <5>2 DEF MintedLeaf, MinOf
      <4>b. /\ cache' \in [Hosts -> [ca : Nat, until : Nat]]
            /\ leaf' \in [Agents -> [ca : Nat, until : Nat]]
        BY <2>5, <4>a DEF IInv, CAType, LeafFor
      <4>c. flow' \in [Agents -> FlowStates]
        BY <2>5 DEF IInv, CAType, FlowStates, LeafFor
      <4> QED
        BY <1>a, <1>e, <2>5, <4>b, <4>c DEF IInv, CAType, LeafFor, fileVars, agentVars
    <3>2. FileInv'
      BY <1>a, <1>e, <2>5 DEF IInv, CAType, FileInv, Writing, Renewing, LeafFor,
         MintedLeaf, MinOf, fileVars, agentVars, NoLeaf
    <3>3. ServedInv'
      BY <1>a, <1>e, <2>5 DEF IInv, CAType, FileInv, ServedInv, Writing, Renewing, Valid,
         LeafFor, MintedLeaf, MinOf, fileVars, agentVars, NoLeaf
    <3>4. LeafInv'
      <4>a. daemon = "up" /\ daemon' = daemon /\ cert' = cert
        BY <2>5 DEF IInv, LeafInv, LeafFor
      <4>b. MintedLeaf.ca = cert
        BY DEF MintedLeaf
      <4>c. \A g \in Hosts : cache'[g] # NoLeaf => cache'[g].ca = cert
        BY <2>5, <4>b DEF IInv, CAType, LeafInv, LeafFor
      <4>d. \A b \in Agents : flow'[b] = "handshake" => leaf'[b].ca = cert
        BY <2>5, <4>b DEF IInv, CAType, LeafInv, LeafFor
      <4>f. \A b \in Agents : ~running[b] => flow'[b] = "none"
        BY <2>5 DEF IInv, CAType, LeafInv, LeafFor
      <4> QED
        BY <2>5, <4>a, <4>c, <4>d, <4>f DEF LeafInv, LeafFor, agentVars
    <3> QED
      BY <3>1, <3>2, <3>3, <3>4 DEF IInv
  <2>6. CASE HandshakeSucceeds(a)
    <3>1. CAType'
      BY <1>a, <1>e, <2>6 DEF IInv, CAType, FlowStates, HandshakeSucceeds, fileVars,
         memVars, agentVars
    <3>2. FileInv'
      BY <1>a, <1>e, <2>6 DEF IInv, CAType, FileInv, Writing, Renewing, HandshakeSucceeds,
         fileVars, memVars, agentVars
    <3>3. ServedInv'
      BY <1>a, <1>e, <2>6 DEF IInv, CAType, FileInv, ServedInv, Writing, Renewing, Valid,
         HandshakeSucceeds, fileVars, memVars, agentVars
    <3>4. LeafInv'
      BY <1>a, <1>e, <2>6 DEF IInv, CAType, FileInv, LeafInv, NoLeaf, HandshakeSucceeds,
         fileVars, memVars, agentVars
    <3> QED
      BY <3>1, <3>2, <3>3, <3>4 DEF IInv
  <2>7. CASE HandshakeFails(a)
    <3>1. CAType'
      BY <1>a, <1>e, <2>7 DEF IInv, CAType, FlowStates, HandshakeFails, fileVars,
         memVars, agentVars
    <3>2. FileInv'
      BY <1>a, <1>e, <2>7 DEF IInv, CAType, FileInv, Writing, Renewing, HandshakeFails,
         fileVars, memVars, agentVars
    <3>3. ServedInv'
      BY <1>a, <1>e, <2>7 DEF IInv, CAType, FileInv, ServedInv, Writing, Renewing, Valid,
         HandshakeFails, fileVars, memVars, agentVars
    <3>4. LeafInv'
      BY <1>a, <1>e, <2>7 DEF IInv, CAType, FileInv, LeafInv, NoLeaf, HandshakeFails,
         fileVars, memVars, agentVars
    <3> QED
      BY <3>1, <3>2, <3>3, <3>4 DEF IInv
  <2>8. CASE PauseCapture(a)
    <3>1. CAType'
      BY <1>a, <1>e, <2>8 DEF IInv, CAType, FlowStates, PauseCapture, fileVars, memVars,
         agentVars
    <3>2. FileInv'
      BY <1>a, <1>e, <2>8 DEF IInv, CAType, FileInv, Writing, Renewing, PauseCapture,
         fileVars, memVars, agentVars
    <3>3. ServedInv'
      BY <1>a, <1>e, <2>8 DEF IInv, CAType, FileInv, ServedInv, Writing, Renewing, Valid,
         PauseCapture, fileVars, memVars, agentVars
    <3>4. LeafInv'
      BY <1>a, <1>e, <2>8 DEF IInv, CAType, FileInv, LeafInv, NoLeaf, PauseCapture,
         fileVars, memVars, agentVars
    <3> QED
      BY <3>1, <3>2, <3>3, <3>4 DEF IInv
  <2>9. CASE CloseFlow(a)
    <3>1. CAType'
      BY <1>a, <1>e, <2>9 DEF IInv, CAType, FlowStates, CloseFlow, fileVars, memVars,
         agentVars, NoLeaf
    <3>2. FileInv'
      BY <1>a, <1>e, <2>9 DEF IInv, CAType, FileInv, Writing, Renewing, CloseFlow,
         fileVars, memVars, agentVars, NoLeaf
    <3>3. ServedInv'
      BY <1>a, <1>e, <2>9 DEF IInv, CAType, FileInv, ServedInv, Writing, Renewing, Valid,
         CloseFlow, fileVars, memVars, agentVars, NoLeaf
    <3>4. LeafInv'
      BY <1>a, <1>e, <2>9 DEF IInv, CAType, FileInv, LeafInv, NoLeaf, CloseFlow, fileVars,
         memVars, agentVars
    <3> QED
      BY <3>1, <3>2, <3>3, <3>4 DEF IInv
  <2> QED
    BY <1>10, <2>1, <2>2, <2>3, <2>4, <2>5, <2>6, <2>7, <2>8, <2>9 DEF AgentStep
<1>11. CASE UNCHANGED vars
  BY <1>11 DEF vars, IInv, CAType, FileInv, ServedInv, LeafInv, Valid, fileVars, memVars, agentVars, flowVars
<1> QED
  BY <1>1, <1>2, <1>3, <1>4, <1>5, <1>6, <1>7, <1>8, <1>9, <1>10, <1>11 DEF Next, Starting

LEMMA Inductive == Spec => []IInv
  BY InitInv, StepInv, PTL DEF Spec

(* New agents read the certificate that the daemon serves: its file and its
   memory agree after every crash and restart. *)
THEOREM FileIsServed == Spec => []ServesFileOnDisk
<1>1. IInv => ServesFileOnDisk
  BY DEF IInv, FileInv, ServesFileOnDisk
<1> QED
  BY <1>1, Inductive, PTL

(* Restarts keep the trust of an agent in a CA that was ever served with,
   until that CA or the cached leaf expires: while the CA is valid it is the one
   on disk, in memory, and of every leaf that is shown. *)
THEOREM RestartsKeepTrust == Spec => []TrustSurvivesRestarts
<1>1. IInv => TrustSurvivesRestarts
  <2> SUFFICES ASSUME IInv, NEW a \in Agents, flow[a] = "handshake",
                      trusts[a] \in served, Valid(trusts[a]), ~(now >= leaf[a].until)
               PROVE  Accepts(a)
    BY DEF TrustSurvivesRestarts
  <2>1. leaf[a].ca = cert /\ pem = cert
    BY DEF IInv, LeafInv, FileInv
  <2>2. pem = trusts[a]
    BY DEF IInv, ServedInv
  <2>3. now < leaf[a].until
    BY DEF IInv, CAType
  <2> QED
    BY <2>1, <2>2, <2>3 DEF Accepts
<1> QED
  BY <1>1, Inductive, PTL

(* A leaf that was minted is of a known CA and ends with it. *)
Within(x) == x.ca # 0 => x.ca \in 1 .. Len(expiry) /\ x.until <= expiry[x.ca]

SignedInv == /\ \A h \in Hosts : Within(cache[h])
             /\ \A a \in Agents : Within(leaf[a])

(* A new CA changes nothing about the leaves of the earlier ones. *)
LEMMA GrowthKeepsLeaves ==
  ASSUME expiry \in Seq(Nat), NEW e \in Nat, expiry' = Append(expiry, e)
  PROVE  \A ca, until : (ca # 0 => ca \in 1 .. Len(expiry) /\ until <= expiry[ca]) =>
           (ca # 0 => ca \in 1 .. Len(expiry') /\ until <= expiry'[ca])
<1>1. /\ Len(expiry') = Len(expiry) + 1
      /\ \A n \in 1 .. Len(expiry) : expiry'[n] = expiry[n]
  BY ExpiryGrows
<1>2. Len(expiry) \in Nat
  OBVIOUS
<1> QED
  BY <1>1, <1>2

(* Minting is the one step that makes a leaf: the CA is loaded, and its end
   bounds the leaf's. *)
LEMMA SignedStep == IInv /\ SignedInv /\ [Next]_vars => SignedInv'
<1> SUFFICES ASSUME IInv, SignedInv, [Next]_vars PROVE SignedInv'
  OBVIOUS
<1>t. CAType /\ FileInv /\ LeafInv
  BY DEF IInv
<1>n. NoLeaf.ca = 0
  BY DEF NoLeaf
<1>1. CASE Load
  BY <1>1, <1>n DEF Load, Serve, SignedInv, Within, fileVars, flowVars
<1>2. CASE Generate
  <2>1. expiry \in Seq(Nat) /\ now + CALife \in Nat
    BY <1>t, CAAssumption DEF CAType
  <2>2. expiry' = Append(expiry, now + CALife) /\ cache' = cache /\ leaf' = leaf
    BY <1>2 DEF Generate, flowVars
  <2> QED
    BY <2>1, <2>2, GrowthKeepsLeaves DEF SignedInv, Within
<1>10. ASSUME NEW a \in Agents, AgentStep(a) PROVE SignedInv'
  <2>1. ASSUME NEW h \in Hosts, LeafFor(a, h) PROVE SignedInv'
    <3>1. expiry' = expiry
      BY <2>1 DEF LeafFor, fileVars
    <3>2. Within(MintedLeaf)
      <4>1. cert \in 1 .. Len(expiry)
        BY <1>t, <2>1 DEF LeafFor, LeafInv, FileInv, CAType
      <4>2. now + LeafLife \in Nat /\ expiry[cert] \in Nat
        BY <1>t, <4>1, CAAssumption DEF CAType
      <4> QED
        BY <4>1, <4>2 DEF Within, MintedLeaf, MinOf
    <3>3. CASE UNCHANGED <<cache, leaf>>
      BY <3>1, <3>3 DEF SignedInv, Within
    <3>4. CASE \E given : /\ given = cache[h] \/ given = MintedLeaf
                         /\ cache' = [cache EXCEPT ![h] = given]
                         /\ leaf' = [leaf EXCEPT ![a] = given]
      <4>1. PICK given : /\ given = cache[h] \/ given = MintedLeaf
                         /\ cache' = [cache EXCEPT ![h] = given]
                         /\ leaf' = [leaf EXCEPT ![a] = given]
        BY <3>4
      <4>2. Within(given)
        BY <3>2, <4>1 DEF SignedInv
      <4>3. (\A g \in Hosts : cache'[g] = cache[g] \/ cache'[g] = given)
            /\ \A b \in Agents : leaf'[b] = leaf[b] \/ leaf'[b] = given
        BY <1>t, <4>1 DEF CAType
      <4> QED
        BY <3>1, <4>2, <4>3 DEF SignedInv, Within
    <3> QED
      BY <2>1, <3>3, <3>4 DEF LeafFor
  <2>2. CASE CloseFlow(a)
    BY <1>t, <1>n, <2>2 DEF CloseFlow, SignedInv, Within, CAType, fileVars, memVars
  <2>3. CASE \/ StartAgent(a) \/ QuitAgent(a) \/ OpenFlow(a) \/ Decide(a)
             \/ HandshakeSucceeds(a) \/ HandshakeFails(a) \/ PauseCapture(a)
    BY <2>3 DEF StartAgent, QuitAgent, OpenFlow, Decide, HandshakeSucceeds, HandshakeFails,
       PauseCapture, SignedInv, Within, fileVars, memVars, agentVars, flowVars
  <2> QED
    BY <1>10, <2>1, <2>2, <2>3 DEF AgentStep
<1>3. CASE Crash
  BY <1>3, <1>n DEF Crash, SignedInv, Within, fileVars, flowVars
<1>4. CASE TruncatePem \/ WritePem \/ TruncateKey \/ WriteKey
  BY <1>4, <1>n DEF TruncatePem, WritePem, TruncateKey, WriteKey, Serve, SignedInv, Within,
     fileVars, memVars, flowVars
<1>5. CASE ClearCapturePause \/ Tick \/ UNCHANGED vars
  BY <1>5 DEF ClearCapturePause, Tick, vars, SignedInv, Within, fileVars, memVars, flowVars
<1> QED
  BY <1>1, <1>2, <1>3, <1>4, <1>5, <1>10 DEF Next, Starting

(* No leaf ever handed out claims to outlive the CA that signed it, whatever was
   cached and however often the CA was renewed. *)
THEOREM LeavesEndWithTheirCA == Spec => []NoLeafOutlivesCA
<1>1. Init => SignedInv
  BY DEF Init, SignedInv, Within, NoLeaf
<1>2. SignedInv => NoLeafOutlivesCA
  BY DEF SignedInv, Within, NoLeafOutlivesCA
<1> QED
  BY <1>1, <1>2, SignedStep, Inductive, PTL DEF Spec

===============================================================================
