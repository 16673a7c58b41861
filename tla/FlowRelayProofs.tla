--------------------------- MODULE FlowRelayProofs ---------------------------
(***************************************************************************)
(* Proofs about FlowRelay for every set of flows, every peek budget and    *)
(* every number of chunks: type correctness, and that the race between the *)
(* CONNECT answer, its failures and the timeout never sends the agent's    *)
(* bytes along two paths.                                                  *)
(***************************************************************************)
EXTENDS FlowRelay, FiniteSetTheorems, TLAPS

(***************************************************************************)
(* The inductive strengthening of OnePath.  What makes the latch work: as  *)
(* long as it is unclaimed nothing has gone to the proxy, and once a       *)
(* direct connection exists nothing ever will.                             *)
(***************************************************************************)

Untouched(f) == stage[f] \in {"offered", "kernel", "opening", "peeking"}

NoProxyBytes(f) == carried[f]["proxy"] = << >> /\ path[f] # "proxy"

RaceInv(f) ==
  /\ Untouched(f) => /\ connect[f] = "off" /\ timer[f] = "off"
                     /\ outcome[f] = "unclaimed" /\ conn[f]["direct"] = "none"
  /\ stage[f] = "pumping" => path[f] \in Paths
  /\ outcome[f] = "unclaimed" => NoProxyBytes(f) /\ connect[f] # "committing"
  /\ connect[f] = "committing" => NoProxyBytes(f)
  /\ conn[f]["direct"] # "none" => NoProxyBytes(f) /\ connect[f] # "committing"
  /\ conn[f]["direct"] = "none" => carried[f]["direct"] = << >> /\ path[f] # "direct"
  /\ connect[f] # "off" /\ outcome[f] = "unclaimed" => conn[f]["direct"] = "none"

IInv == TypeOK /\ \A f \in Flows : RaceInv(f)

-------------------------------------------------------------------------------

LEMMA FirstBytesType ==
  ASSUME TypeOK, NEW f \in Flows
  PROVE  FirstBytes(f) \in Seq(Nat)
<1>1. read[f] \in Nat
  BY DEF TypeOK
<1> QED
  BY <1>1 DEF FirstBytes

LEMMA SeqClosed ==
  ASSUME NEW a \in Seq(Nat), NEW b \in Seq(Nat), NEW n \in Nat
  PROVE  a \o b \in Seq(Nat) /\ Append(a, n) \in Seq(Nat)
  OBVIOUS

LEMMA CarriedType ==
  ASSUME TypeOK, NEW f \in Flows, NEW p \in Paths
  PROVE  carried[f][p] \in Seq(Nat)
<1> DEFINE S == Seq(Nat)
<1>1. carried \in [Flows -> [Paths -> S]]
  BY DEF TypeOK
<1> HIDE DEF S
<1>2. carried[f][p] \in S
  BY <1>1
<1> QED
  BY <1>2 DEF S

LEMMA CarriedUpdate ==
  ASSUME NEW c \in [Flows -> [Paths -> Seq(Nat)]],
         NEW f \in Flows, NEW p \in Paths, NEW q \in Seq(Nat)
  PROVE  LET d == [c EXCEPT ![f][p] = q] IN
         /\ d \in [Flows -> [Paths -> Seq(Nat)]]
         /\ d[f][p] = q
         /\ \A r \in Paths : r # p => d[f][r] = c[f][r]
         /\ \A h \in Flows : h # f => d[h] = c[h]
<1> DEFINE S == Seq(Nat)
<1>1. c \in [Flows -> [Paths -> S]] /\ q \in S
  OBVIOUS
<1> HIDE DEF S
<1>2. /\ [c EXCEPT ![f][p] = q] \in [Flows -> [Paths -> S]]
      /\ [c EXCEPT ![f][p] = q][f][p] = q
      /\ \A r \in Paths : r # p => [c EXCEPT ![f][p] = q][f][r] = c[f][r]
      /\ \A h \in Flows : h # f => [c EXCEPT ![f][p] = q][h] = c[h]
  BY <1>1
<1> QED
  BY <1>2 DEF S

LEMMA RelayDirectType ==
  ASSUME TypeOK, NEW f \in Flows
  PROVE  /\ RelayDirect(f) \in [Paths -> {"none", "starting", "open", "broken", "cancelled"}]
         /\ RelayDirect(f)["direct"] = "starting"
  BY DEF TypeOK, RelayDirect, Paths

(* Failing open before anyone else claims the outcome dials the destination. *)
LEMMA FailOpenClaims ==
  ASSUME TypeOK, NEW f \in Flows, FailOpen(f), outcome[f] = "unclaimed"
  PROVE  /\ outcome'[f] = "direct" /\ conn'[f]["direct"] = "starting"
         /\ \A h \in Flows : h # f => outcome'[h] = outcome[h] /\ conn'[h] = conn[h]
<1>1. conn = [h \in Flows |-> conn[h]] /\ outcome = [h \in Flows |-> outcome[h]]
  BY DEF TypeOK
<1>2. /\ conn' = [conn EXCEPT ![f] = RelayDirect(f)]
      /\ outcome' = [outcome EXCEPT ![f] = "direct"]
  BY DEF FailOpen
<1>3. RelayDirect(f)["direct"] = "starting"
  BY RelayDirectType
<1> QED
  BY <1>1, <1>2, <1>3

(* Opening, peeking and every callback keep the relay's state well typed; the
   peek reads on only under its budget. *)
LEMMA TypeInit == Init => TypeOK
<1> SUFFICES ASSUME Init PROVE TypeOK
  OBVIOUS
<1>1. 0 < PeekMax
  BY RelayAssumption
<1> QED
  BY <1>1 DEF Init, TypeOK, Paths

(* TypeOK with the ranges that play no part in a step left opaque. *)
Streams == Seq(Nat)
Hellos == 1 .. PeekMax + 1

Types ==
  /\ paused \in BOOLEAN
  /\ offer \in [Flows -> Offers]
  /\ hello \in [Flows -> Hellos]
  /\ sni \in [Flows -> Names]
  /\ serverFirst \in [Flows -> BOOLEAN]
  /\ wrote \in [Flows -> Nat] /\ replied \in [Flows -> Nat]
  /\ read \in [Flows -> Nat] /\ returned \in [Flows -> Nat]
  /\ ended \in [Flows -> BOOLEAN] /\ originEnded \in [Flows -> BOOLEAN]
  /\ stage \in [Flows -> {"offered", "kernel", "opening", "peeking", "relaying",
                          "pumping", "closed"}]
  /\ connect \in [Flows -> {"off", "sending", "waiting", "granted", "committing", "over"}]
  /\ timer \in [Flows -> {"off", "armed", "fired"}]
  /\ outcome \in [Flows -> {"unclaimed", "proxy", "direct"}]
  /\ conn \in [Flows -> [Paths -> {"none", "starting", "open", "broken", "cancelled"}]]
  /\ carried \in [Flows -> [Paths -> Streams]]
  /\ path \in [Flows -> Paths \union {"none"}]
  /\ up \in [Flows -> {"off", "running", "ended"}]
  /\ \A f \in Flows : stage[f] \in {"offered", "opening", "peeking"} => read[f] < PeekMax

LEMMA TypesAreTypeOK == (Types <=> TypeOK) /\ (Types' <=> TypeOK')
  BY DEF Types, TypeOK, Streams, Hellos

LEMMA StreamsClosed ==
  ASSUME TypeOK, NEW f \in Flows, NEW p \in Paths
  PROVE  /\ carried[f][p] \o FirstBytes(f) \in Streams
         /\ Append(carried[f][p], read[f] + 1) \in Streams
<1>1. carried[f][p] \in Seq(Nat) /\ FirstBytes(f) \in Seq(Nat)
  BY CarriedType, FirstBytesType
<1>2. read[f] + 1 \in Nat
  BY DEF TypeOK
<1> QED
  BY <1>1, <1>2, SeqClosed DEF Streams

LEMMA TypeStep == IInv /\ [Next]_vars => TypeOK'
<1> SUFFICES ASSUME TypeOK, Types, \A h \in Flows : RaceInv(h), [Next]_vars PROVE Types'
  BY TypesAreTypeOK DEF IInv
<1> USE DEF Types, Paths, agentVars, originVars, raceVars, pumpVars
<1>1. CASE TogglePause
  BY <1>1 DEF TogglePause
<1>2. ASSUME NEW f \in Flows,
             Environment(f) \/ Accepting(f) \/ Connecting(f) \/ HandingOver(f) \/ Pumping(f)
      PROVE  Types'
  <2>1. CASE AgentWrites(f)
    BY <2>1 DEF AgentWrites
  <2>2. CASE AgentEnds(f)
    BY <2>2 DEF AgentEnds
  <2>3. CASE OriginWrites(f)
    BY <2>3 DEF OriginWrites
  <2>4. CASE OriginEnds(f)
    BY <2>4 DEF OriginEnds
  <2>5. CASE HandleNewFlow(f)
    BY <2>5 DEF HandleNewFlow, Taken
  <2>6. CASE FlowOpened(f)
    BY <2>6 DEF FlowOpened
  <2>7. CASE FlowOpenFails(f)
    BY <2>7 DEF FlowOpenFails, Close
  <2>8. CASE Peek(f)
    <3>1. CASE PeekOn(f)
      BY <3>1 DEF PeekOn, PeekTo, Route
    <3>2. CASE PassThrough(f)
      BY <3>2 DEF PassThrough, PeekTo, RelayDirect
    <3>3. CASE RelayViaGoProxy(f)
      BY <3>3 DEF RelayViaGoProxy, PeekTo
    <3> QED
      BY <2>8, <3>1, <3>2, <3>3 DEF Peek
  <2>9. CASE PeekEnds(f)
    BY <2>9 DEF PeekEnds, Close
  <2>10. CASE PeekFails(f)
    BY <2>10 DEF PeekFails, Close
  <2>11. CASE ConnectSent(f)
    BY <2>11 DEF ConnectSent
  <2>12. CASE ConnectFails(f)
    <3>1. CASE outcome[f] = "unclaimed"
      <4>1. conn' = [conn EXCEPT ![f] = RelayDirect(f)]
        BY <2>12, <3>1 DEF ConnectFails, FailOpen
      <4>2. conn' \in [Flows -> [Paths -> {"none", "starting", "open", "broken", "cancelled"}]]
        BY <4>1, RelayDirectType
      <4> QED
        BY <2>12, <3>1, <4>2 DEF ConnectFails, FailOpen
    <3>2. CASE outcome[f] # "unclaimed"
      BY <2>12, <3>2 DEF ConnectFails, FailOpen
    <3> QED
      BY <3>1, <3>2
  <2>13. CASE ConnectGranted(f)
    BY <2>13 DEF ConnectGranted
  <2>14. CASE Commit(f)
    <3>1. CASE outcome[f] = "unclaimed"
      BY <2>14, <3>1 DEF Commit
    <3>2. CASE outcome[f] # "unclaimed"
      BY <2>14, <3>2 DEF Commit
    <3> QED
      BY <3>1, <3>2
  <2>15. CASE TimerFires(f)
    BY <2>15 DEF TimerFires
  <2>16. CASE TimerRuns(f)
    <3>1. CASE outcome[f] = "unclaimed"
      <4>1. conn' = [conn EXCEPT ![f] = RelayDirect(f)]
        BY <2>16, <3>1 DEF TimerRuns, FailOpen
      <4>2. conn' \in [Flows -> [Paths -> {"none", "starting", "open", "broken", "cancelled"}]]
        BY <4>1, RelayDirectType
      <4> QED
        BY <2>16, <3>1, <4>2 DEF TimerRuns, FailOpen
    <3>2. CASE outcome[f] # "unclaimed"
      BY <2>16, <3>2 DEF TimerRuns, FailOpen
    <3> QED
      BY <3>1, <3>2
  <2>17. CASE CommitSent(f)
    <3> DEFINE q == carried[f]["proxy"] \o FirstBytes(f)
    <3>1. q \in Streams
      BY StreamsClosed
    <3>2. carried' = [carried EXCEPT ![f]["proxy"] = q]
      BY <2>17 DEF CommitSent
    <3> HIDE DEF q
    <3>3. carried' \in [Flows -> [Paths -> Streams]]
      BY <3>1, <3>2
    <3> QED
      BY <2>17, <3>3 DEF CommitSent, StartPump
  <2>18. CASE CommitFails(f)
    BY <2>18 DEF CommitFails, RelayDirect
  <2>19. CASE DirectSent(f)
    <3> DEFINE q == carried[f]["direct"] \o FirstBytes(f)
    <3>1. q \in Streams
      BY StreamsClosed
    <3>2. carried' = [carried EXCEPT ![f]["direct"] = q]
      BY <2>19 DEF DirectSent
    <3> HIDE DEF q
    <3>3. carried' \in [Flows -> [Paths -> Streams]]
      BY <3>1, <3>2
    <3> QED
      BY <2>19, <3>3 DEF DirectSent, StartPump
  <2>20. CASE DirectFails(f)
    BY <2>20 DEF DirectFails, StartPump
  <2>21. CASE UpData(f)
    <3> DEFINE q == Append(carried[f][path[f]], read[f] + 1)
    <3>1. path[f] \in Paths /\ stage[f] = "pumping"
      BY <2>21 DEF Connected, UpData, RaceInv
    <3>2. q \in Streams
      BY <3>1, StreamsClosed
    <3>3. carried' = [carried EXCEPT ![f][path[f]] = q]
      BY <2>21 DEF UpData
    <3> HIDE DEF q
    <3>4. carried' \in [Flows -> [Paths -> Streams]]
      BY <3>1, <3>2, <3>3
    <3> QED
      BY <2>21, <3>1, <3>4 DEF UpData
  <2>22. CASE UpEnd(f)
    BY <2>22 DEF UpEnd
  <2>23. CASE DownData(f)
    BY <2>23 DEF DownData, Connected
  <2>24. CASE DownLast(f)
    BY <2>24 DEF DownLast, Connected, Close
  <2>25. CASE DownEnd(f)
    BY <2>25 DEF DownEnd, Connected, Close
  <2>26. CASE PumpFails(f)
    BY <2>26 DEF PumpFails, Close
  <2> QED
    BY <1>2, <2>1, <2>2, <2>3, <2>4, <2>5, <2>6, <2>7, <2>8, <2>9, <2>10, <2>11, <2>12, <2>13, <2>14, <2>15, <2>16, <2>17, <2>18, <2>19, <2>20, <2>21, <2>22, <2>23, <2>24, <2>25, <2>26
    DEF Environment, Accepting, Connecting, HandingOver, Pumping
<1>3. CASE UNCHANGED vars
  BY <1>3 DEF vars
<1> QED
  BY <1>1, <1>2, <1>3 DEF Next

-------------------------------------------------------------------------------
(* The race. *)

LEMMA RaceInit == Init => \A f \in Flows : RaceInv(f)
  BY DEF Init, RaceInv, Untouched, NoProxyBytes, Paths

LEMMA RaceStep == IInv /\ [Next]_vars => \A g \in Flows : RaceInv(g)'
<1> SUFFICES ASSUME TypeOK, \A h \in Flows : RaceInv(h), [Next]_vars,
                    NEW g \in Flows
             PROVE  RaceInv(g)'
  BY DEF IInv
<1> USE DEF TypeOK, RaceInv, Untouched, NoProxyBytes, Paths,
            agentVars, originVars, raceVars, pumpVars
<1>1. CASE TogglePause
  BY <1>1 DEF TogglePause
<1>2. ASSUME NEW f \in Flows,
             Environment(f) \/ Accepting(f) \/ Connecting(f) \/ HandingOver(f) \/ Pumping(f)
      PROVE  RaceInv(g)'
  <2>1. CASE AgentWrites(f)
    BY <2>1 DEF AgentWrites
  <2>2. CASE AgentEnds(f)
    BY <2>2 DEF AgentEnds
  <2>3. CASE OriginWrites(f)
    BY <2>3 DEF OriginWrites
  <2>4. CASE OriginEnds(f)
    BY <2>4 DEF OriginEnds
  <2>5. CASE HandleNewFlow(f)
    BY <2>5 DEF HandleNewFlow
  <2>6. CASE FlowOpened(f)
    BY <2>6 DEF FlowOpened
  <2>7. CASE FlowOpenFails(f)
    BY <2>7 DEF FlowOpenFails, Close
  <2>8. CASE Peek(f)
    <3>1. CASE PeekOn(f)
      BY <3>1 DEF PeekOn, PeekTo
    <3>2. CASE PassThrough(f)
      BY <3>2 DEF PassThrough, PeekTo, RelayDirect
    <3>3. CASE RelayViaGoProxy(f)
      BY <3>3 DEF RelayViaGoProxy, PeekTo
    <3> QED
      BY <2>8, <3>1, <3>2, <3>3 DEF Peek
  <2>9. CASE PeekEnds(f)
    BY <2>9 DEF PeekEnds, Close
  <2>10. CASE PeekFails(f)
    BY <2>10 DEF PeekFails, Close
  <2>11. CASE ConnectSent(f)
    BY <2>11 DEF ConnectSent
  <2>12. CASE ConnectFails(f)
    <3>1. CASE outcome[f] = "unclaimed"
      <4>1. CASE g = f
        <5>1. connect[f] # "off" /\ connect'[f] = "over" /\ FailOpen(f)
          BY <2>12 DEF ConnectFails
        <5>2. UNCHANGED <<stage, timer, carried, path>>
          BY <2>12 DEF ConnectFails
        <5> QED
          BY <4>1, <5>1, <5>2, <3>1, FailOpenClaims
      <4>2. CASE g # f
        BY <2>12, <3>1, <4>2 DEF ConnectFails, FailOpen
      <4> QED
        BY <4>1, <4>2
    <3>2. CASE outcome[f] # "unclaimed"
      BY <2>12, <3>2 DEF ConnectFails, FailOpen
    <3> QED
      BY <3>1, <3>2
  <2>13. CASE ConnectGranted(f)
    BY <2>13 DEF ConnectGranted
  <2>14. CASE Commit(f)
    <3>1. CASE outcome[f] = "unclaimed"
      <4>1. CASE g = f
        BY <2>14, <3>1, <4>1 DEF Commit
      <4>2. CASE g # f
        BY <2>14, <3>1, <4>2 DEF Commit
      <4> QED
        BY <4>1, <4>2
    <3>2. CASE outcome[f] # "unclaimed"
      BY <2>14, <3>2 DEF Commit
    <3> QED
      BY <3>1, <3>2
  <2>15. CASE TimerFires(f)
    BY <2>15 DEF TimerFires
  <2>16. CASE TimerRuns(f)
    <3>1. CASE outcome[f] = "unclaimed"
      <4>1. CASE g = f
        <5>1. timer[f] = "fired" /\ FailOpen(f)
          BY <2>16 DEF TimerRuns
        <5>2. UNCHANGED <<stage, connect, carried, path>>
          BY <2>16 DEF TimerRuns
        <5> QED
          BY <4>1, <5>1, <5>2, <3>1, FailOpenClaims
      <4>2. CASE g # f
        BY <2>16, <3>1, <4>2 DEF TimerRuns, FailOpen
      <4> QED
        BY <4>1, <4>2
    <3>2. CASE outcome[f] # "unclaimed"
      BY <2>16, <3>2 DEF TimerRuns, FailOpen
    <3> QED
      BY <3>1, <3>2
  <2>17. CASE CommitSent(f)
    <3> DEFINE q == carried[f]["proxy"] \o FirstBytes(f)
    <3>1. q \in Seq(Nat) /\ "proxy" \in Paths
      <4>1. carried[f]["proxy"] \in Seq(Nat) /\ FirstBytes(f) \in Seq(Nat)
        BY CarriedType, FirstBytesType
      <4> QED
        BY <4>1, SeqClosed
    <3>2. carried' = [carried EXCEPT ![f]["proxy"] = q]
      BY <2>17 DEF CommitSent
    <3> HIDE DEF q
    <3>3. /\ carried' \in [Flows -> [Paths -> Seq(Nat)]]
          /\ \A r \in Paths : r # "proxy" => carried'[f][r] = carried[f][r]
          /\ \A h \in Flows : h # f => carried'[h] = carried[h]
      BY <3>1, <3>2, CarriedUpdate
    <3> QED
      BY <2>17, <3>1, <3>3 DEF CommitSent, StartPump
  <2>18. CASE CommitFails(f)
    BY <2>18 DEF CommitFails, RelayDirect
  <2>19. CASE DirectSent(f)
    <3> DEFINE q == carried[f]["direct"] \o FirstBytes(f)
    <3>1. q \in Seq(Nat) /\ "direct" \in Paths
      <4>1. carried[f]["direct"] \in Seq(Nat) /\ FirstBytes(f) \in Seq(Nat)
        BY CarriedType, FirstBytesType
      <4> QED
        BY <4>1, SeqClosed
    <3>2. carried' = [carried EXCEPT ![f]["direct"] = q]
      BY <2>19 DEF DirectSent
    <3> HIDE DEF q
    <3>3. /\ carried' \in [Flows -> [Paths -> Seq(Nat)]]
          /\ \A r \in Paths : r # "direct" => carried'[f][r] = carried[f][r]
          /\ \A h \in Flows : h # f => carried'[h] = carried[h]
      <4>1. carried \in [Flows -> [Paths -> Seq(Nat)]]
        OBVIOUS
      <4> QED
        BY <3>1, <3>2, <4>1, CarriedUpdate, SMTT(60)
    <3> QED
      BY <2>19, <3>1, <3>3 DEF DirectSent, StartPump
  <2>20. CASE DirectFails(f)
    BY <2>20 DEF DirectFails, StartPump
  <2>21. CASE UpData(f)
    <3> DEFINE q == Append(carried[f][path[f]], read[f] + 1)
    <3>1. q \in Seq(Nat) /\ path[f] \in Paths
      <4>1. path[f] \in Paths
        BY <2>21 DEF Connected, UpData, RaceInv
      <4>2. carried[f][path[f]] \in Seq(Nat) /\ read[f] + 1 \in Nat
        BY <4>1
      <4> QED
        BY <4>1, <4>2, SeqClosed
    <3>2. carried' = [carried EXCEPT ![f][path[f]] = q]
      BY <2>21 DEF UpData
    <3> HIDE DEF q
    <3>3. /\ carried' \in [Flows -> [Paths -> Seq(Nat)]]
          /\ \A r \in Paths : r # path[f] => carried'[f][r] = carried[f][r]
          /\ \A h \in Flows : h # f => carried'[h] = carried[h]
      BY <3>1, <3>2, CarriedUpdate
    <3> QED
      BY <2>21, <3>1, <3>3 DEF UpData, Connected
  <2>22. CASE UpEnd(f)
    BY <2>22 DEF UpEnd
  <2>23. CASE DownData(f)
    BY <2>23 DEF DownData, Connected
  <2>24. CASE DownLast(f)
    BY <2>24 DEF DownLast, Connected, Close
  <2>25. CASE DownEnd(f)
    BY <2>25 DEF DownEnd, Connected, Close
  <2>26. CASE PumpFails(f)
    BY <2>26 DEF PumpFails, Close
  <2> QED
    BY <1>2, <2>1, <2>2, <2>3, <2>4, <2>5, <2>6, <2>7, <2>8, <2>9, <2>10, <2>11, <2>12, <2>13, <2>14, <2>15, <2>16, <2>17, <2>18, <2>19, <2>20, <2>21, <2>22, <2>23, <2>24, <2>25, <2>26
    DEF Environment, Accepting, Connecting, HandingOver, Pumping
<1>3. CASE UNCHANGED vars
  BY <1>3 DEF vars
<1> QED
  BY <1>1, <1>2, <1>3 DEF Next

LEMMA RaceImpliesOnePath == IInv => OnePath
  BY DEF IInv, RaceInv, NoProxyBytes, OnePath

LEMMA Inductive == Spec => []IInv
<1>1. Init => IInv
  BY TypeInit, RaceInit DEF IInv
<1>2. IInv /\ [Next]_vars => IInv'
  BY TypeStep, RaceStep DEF IInv
<1> QED
  BY <1>1, <1>2, PTL DEF Spec

(* Type correctness and the bound of the peek, for every flow set and budget. *)
THEOREM TypeCorrect == Spec => []TypeOK
<1>1. IInv => TypeOK
  BY DEF IInv
<1> QED
  BY <1>1, Inductive, PTL

(* However the CONNECT answer, its failures and the timeout are ordered, the
   agent's bytes take one path. *)
THEOREM BytesTakeOnePath == Spec => []OnePath
<1>1. IInv => OnePath
  BY RaceImpliesOnePath
<1> QED
  BY <1>1, Inductive, PTL

-------------------------------------------------------------------------------
(***************************************************************************)
(* Connections.  The strengthening of NoConnectionLeaks follows the flow   *)
(* through its stages: connections are made and torn down only while the   *)
(* flow is relaying, which is where the race and the fall-back take place. *)
(***************************************************************************)

Held(f, p) == conn[f][p] \in {"starting", "open", "broken"}

LeakInv(f) ==
  /\ conn[f]["proxy"] \in {"none", "open", "cancelled"}
  /\ Untouched(f) => conn[f]["proxy"] = "none"
  /\ conn[f]["proxy"] = "open" => ~Held(f, "direct")
  /\ stage[f] = "closed" => ~Held(f, "proxy") /\ ~Held(f, "direct")
  /\ stage[f] = "pumping" => Held(f, path[f])
  /\ connect[f] # "off" /\ outcome[f] = "unclaimed" => stage[f] = "relaying"
  /\ connect[f] = "committing" => stage[f] = "relaying"
  /\ timer[f] # "off" => connect[f] # "off"
  /\ conn[f]["direct"] = "starting" => stage[f] = "relaying"

LEMMA LeakInit == Init => \A f \in Flows : LeakInv(f)
  BY DEF Init, LeakInv, Held, Untouched, Paths

LEMMA LeakStep == IInv /\ (\A h \in Flows : LeakInv(h)) /\ [Next]_vars => \A g \in Flows : LeakInv(g)'
<1> SUFFICES ASSUME TypeOK, \A h \in Flows : RaceInv(h), \A h \in Flows : LeakInv(h),
                    [Next]_vars, NEW g \in Flows
             PROVE  LeakInv(g)'
  BY DEF IInv
<1> USE DEF TypeOK, RaceInv, LeakInv, Held, Untouched, Paths, agentVars, originVars, raceVars, pumpVars
<1>1. CASE TogglePause
  BY <1>1 DEF TogglePause
<1>2. ASSUME NEW f \in Flows,
             Environment(f) \/ Accepting(f) \/ Connecting(f) \/ HandingOver(f) \/ Pumping(f)
      PROVE  LeakInv(g)'
  <2>1. CASE AgentWrites(f)
    BY <2>1 DEF AgentWrites
  <2>2. CASE AgentEnds(f)
    BY <2>2 DEF AgentEnds
  <2>3. CASE OriginWrites(f)
    BY <2>3 DEF OriginWrites
  <2>4. CASE OriginEnds(f)
    BY <2>4 DEF OriginEnds
  <2>5. CASE HandleNewFlow(f)
    BY <2>5 DEF HandleNewFlow, Taken
  <2>6. CASE FlowOpened(f)
    BY <2>6 DEF FlowOpened
  <2>7. CASE FlowOpenFails(f)
    BY <2>7 DEF FlowOpenFails, Close
  <2>8. CASE Peek(f)
    <3>1. CASE PeekOn(f)
      BY <3>1 DEF PeekOn, PeekTo
    <3>2. CASE PassThrough(f)
      BY <3>2 DEF PassThrough, PeekTo, RelayDirect
    <3>3. CASE RelayViaGoProxy(f)
      BY <3>3 DEF RelayViaGoProxy, PeekTo, Route
    <3> QED
      BY <2>8, <3>1, <3>2, <3>3 DEF Peek
  <2>9. CASE PeekEnds(f)
    BY <2>9 DEF PeekEnds, Close
  <2>10. CASE PeekFails(f)
    BY <2>10 DEF PeekFails, Close
  <2>11. CASE ConnectSent(f)
    BY <2>11 DEF ConnectSent
  <2>12. CASE ConnectFails(f)
    <3>1. CASE outcome[f] = "unclaimed"
      BY <2>12, <3>1 DEF ConnectFails, FailOpen, RelayDirect
    <3>2. CASE outcome[f] # "unclaimed"
      BY <2>12, <3>2 DEF ConnectFails, FailOpen
    <3> QED
      BY <3>1, <3>2
  <2>13. CASE ConnectGranted(f)
    BY <2>13 DEF ConnectGranted
  <2>14. CASE Commit(f)
    <3>1. CASE outcome[f] = "unclaimed"
      BY <2>14, <3>1 DEF Commit
    <3>2. CASE outcome[f] # "unclaimed"
      BY <2>14, <3>2 DEF Commit
    <3> QED
      BY <3>1, <3>2
  <2>15. CASE TimerFires(f)
    BY <2>15 DEF TimerFires
  <2>16. CASE TimerRuns(f)
    <3>1. CASE outcome[f] = "unclaimed"
      BY <2>16, <3>1 DEF TimerRuns, FailOpen, RelayDirect
    <3>2. CASE outcome[f] # "unclaimed"
      BY <2>16, <3>2 DEF TimerRuns, FailOpen
    <3> QED
      BY <3>1, <3>2
  <2>17. CASE CommitSent(f)
    BY <2>17 DEF CommitSent, StartPump
  <2>18. CASE CommitFails(f)
    BY <2>18 DEF CommitFails, RelayDirect
  <2>19. CASE DirectSent(f)
    BY <2>19 DEF DirectSent, StartPump
  <2>20. CASE DirectFails(f)
    BY <2>20 DEF DirectFails, StartPump
  <2>21. CASE UpData(f)
    BY <2>21 DEF UpData, Connected
  <2>22. CASE UpEnd(f)
    BY <2>22 DEF UpEnd
  <2>23. CASE DownData(f)
    BY <2>23 DEF DownData, Connected
  <2>24. CASE DownLast(f)
    BY <2>24 DEF DownLast, Connected, Close
  <2>25. CASE DownEnd(f)
    BY <2>25 DEF DownEnd, Connected, Close
  <2>26. CASE PumpFails(f)
    BY <2>26 DEF PumpFails, Close
  <2> QED
    BY <1>2, <2>1, <2>2, <2>3, <2>4, <2>5, <2>6, <2>7, <2>8, <2>9, <2>10, <2>11, <2>12, <2>13, <2>14, <2>15, <2>16, <2>17, <2>18, <2>19, <2>20, <2>21, <2>22, <2>23, <2>24, <2>25, <2>26
    DEF Environment, Accepting, Connecting, HandingOver, Pumping
<1>3. CASE UNCHANGED vars
  BY <1>3 DEF vars
<1> QED
  BY <1>1, <1>2, <1>3 DEF Next

(* One held connection or none, and which. *)
LEMMA LeakImpliesNoLeaks == IInv /\ (\A f \in Flows : LeakInv(f)) => NoConnectionLeaks
<1> SUFFICES ASSUME IInv, NEW f \in Flows, LeakInv(f)
             PROVE  LET held == {p \in Paths : conn[f][p] \in {"starting", "open", "broken"}} IN
                    /\ Cardinality(held) <= 1
                    /\ stage[f] = "closed" => held = {}
                    /\ stage[f] = "pumping" => held = {path[f]}
  BY DEF NoConnectionLeaks
<1> DEFINE held == {p \in Paths : conn[f][p] \in {"starting", "open", "broken"}}
<1>1. ~Held(f, "proxy") \/ ~Held(f, "direct")
  BY DEF LeakInv, Held
<1>2. stage[f] = "pumping" => path[f] \in Paths
  BY DEF IInv, RaceInv
<1>3. \E p \in Paths : held \subseteq {p}
  BY <1>1 DEF Held, Paths
<1>4. Cardinality(held) <= 1
  <2>1. PICK p \in Paths : held \subseteq {p}
    BY <1>3
  <2> HIDE DEF held
  <2>2. held = {} \/ held = {p}
    BY <2>1
  <2>3. Cardinality({}) = 0 /\ Cardinality({p}) = 1
    BY FS_EmptySet, FS_Singleton
  <2> QED
    BY <2>2, <2>3
<1>5. stage[f] = "closed" => held = {}
  BY DEF LeakInv, Held, Paths
<1>6. stage[f] = "pumping" => held = {path[f]}
  BY <1>1, <1>2 DEF LeakInv, Held, Paths
<1> QED
  BY <1>4, <1>5, <1>6

(* No connection outlives its flow and a flow never holds two, whatever fails
   and whenever the timeout fires. *)
THEOREM ConnectionsAreReleased == Spec => []NoConnectionLeaks
<1> DEFINE Leaks == \A f \in Flows : LeakInv(f)
<1>1. Init => Leaks
  BY LeakInit
<1>2. IInv /\ Leaks /\ [Next]_vars => Leaks'
  BY LeakStep
<1>3. IInv /\ Leaks => NoConnectionLeaks
  BY LeakImpliesNoLeaks
<1> HIDE DEF Leaks
<1> QED
  BY <1>1, <1>2, <1>3, Inductive, PTL DEF Spec

-------------------------------------------------------------------------------
(***************************************************************************)
(* Routing.  Only an agent's flow is ever accepted, and what the route was *)
(* found from does not change.                                             *)
(***************************************************************************)

ProviderInv(f) ==
  /\ Untouched(f) => conn[f]["proxy"] = "none"
  /\ stage[f] \in {"opening", "peeking"} => offer[f] = "agent"
  /\ conn[f]["proxy"] # "none" =>
       offer[f] = "agent" /\ sni[f] = "allowlisted" /\ hello[f] <= PeekMax

LEMMA ProviderInit == Init => \A f \in Flows : ProviderInv(f)
  BY DEF Init, ProviderInv, Paths

(* The only way to the proxy is a complete ClientHello, read within the budget. *)
LEMMA RouteToProxy ==
  ASSUME TypeOK, NEW f \in Flows, stage[f] = "peeking", Route(f, read[f] + 1) = "proxy"
  PROVE  sni[f] = "allowlisted" /\ hello[f] <= PeekMax
<1>1. /\ read[f] \in Nat /\ hello[f] \in Nat /\ PeekMax \in Nat
      /\ read[f] < PeekMax
  BY RelayAssumption DEF TypeOK
<1>2. hello[f] <= read[f] + 1 /\ sni[f] = "allowlisted"
  BY <1>1 DEF Route
<1> QED
  BY <1>1, <1>2

(* Falling back dials the destination and makes no connection to the proxy. *)
LEMMA FailOpenDials ==
  ASSUME TypeOK, NEW f \in Flows, FailOpen(f), outcome[f] = "unclaimed"
  PROVE  /\ conn'[f]["direct"] = "starting"
         /\ conn'[f]["proxy"] # "open"
         /\ conn'[f]["proxy"] = "none" <=> conn[f]["proxy"] = "none"
         /\ \A h \in Flows : h # f => conn'[h] = conn[h]
<1>1. conn' = [conn EXCEPT ![f] = RelayDirect(f)]
  BY DEF FailOpen
<1>2. /\ RelayDirect(f)["direct"] = "starting"
      /\ RelayDirect(f)["proxy"] # "open"
      /\ RelayDirect(f)["proxy"] = "none" <=> conn[f]["proxy"] = "none"
  BY DEF RelayDirect, TypeOK, Paths
<1> QED
  BY <1>1, <1>2 DEF TypeOK

LEMMA ProviderStep ==
  IInv /\ (\A h \in Flows : LeakInv(h)) /\ (\A h \in Flows : ProviderInv(h))
    /\ [Next]_vars => \A g \in Flows : ProviderInv(g)'
<1> SUFFICES ASSUME TypeOK, \A h \in Flows : RaceInv(h) /\ LeakInv(h), \A h \in Flows : ProviderInv(h),
                    [Next]_vars, NEW g \in Flows
             PROVE  ProviderInv(g)'
  BY DEF IInv
<1> USE DEF TypeOK, ProviderInv, Untouched, Paths, agentVars, originVars, raceVars, pumpVars
<1>1. CASE TogglePause
  BY <1>1 DEF TogglePause
<1>2. ASSUME NEW f \in Flows,
             Environment(f) \/ Accepting(f) \/ Connecting(f) \/ HandingOver(f) \/ Pumping(f)
      PROVE  ProviderInv(g)'
  <2>1. CASE AgentWrites(f)
    BY <2>1 DEF AgentWrites
  <2>2. CASE AgentEnds(f)
    BY <2>2 DEF AgentEnds
  <2>3. CASE OriginWrites(f)
    BY <2>3 DEF OriginWrites
  <2>4. CASE OriginEnds(f)
    BY <2>4 DEF OriginEnds
  <2>5. CASE HandleNewFlow(f)
    BY <2>5 DEF HandleNewFlow, Taken
  <2>6. CASE FlowOpened(f)
    BY <2>6 DEF FlowOpened
  <2>7. CASE FlowOpenFails(f)
    <3>1. outcome[f] = "unclaimed" /\ path[f] # "proxy"
      BY <2>7 DEF FlowOpenFails, RaceInv, NoProxyBytes
    <3> QED
      BY <2>7, <3>1 DEF FlowOpenFails, Close
  <2>8. CASE Peek(f)
    <3>1. CASE PeekOn(f)
      BY <3>1 DEF PeekOn, PeekTo
    <3>2. CASE PassThrough(f)
      BY <3>2 DEF PassThrough, PeekTo, RelayDirect
    <3>3. CASE RelayViaGoProxy(f)
      <4>1. sni[f] = "allowlisted" /\ hello[f] <= PeekMax
        BY <3>3, RouteToProxy DEF RelayViaGoProxy, PeekTo
      <4> QED
        BY <3>3, <4>1 DEF RelayViaGoProxy, PeekTo
    <3> QED
      BY <2>8, <3>1, <3>2, <3>3 DEF Peek
  <2>9. CASE PeekEnds(f)
    <3>1. outcome[f] = "unclaimed" /\ path[f] # "proxy"
      BY <2>9 DEF PeekEnds, RaceInv, NoProxyBytes
    <3> QED
      BY <2>9, <3>1 DEF PeekEnds, Close
  <2>10. CASE PeekFails(f)
    <3>1. outcome[f] = "unclaimed" /\ path[f] # "proxy"
      BY <2>10 DEF PeekFails, RaceInv, NoProxyBytes
    <3> QED
      BY <2>10, <3>1 DEF PeekFails, Close
  <2>11. CASE ConnectSent(f)
    BY <2>11 DEF ConnectSent
  <2>12. CASE ConnectFails(f)
    <3>1. CASE outcome[f] = "unclaimed"
      <4>1. stage[f] = "relaying"
        BY <2>12, <3>1 DEF ConnectFails, LeakInv
      <4>2. /\ conn'[f]["direct"] = "starting" /\ conn'[f]["proxy"] # "open"
            /\ conn'[f]["proxy"] = "none" <=> conn[f]["proxy"] = "none"
            /\ \A h \in Flows : h # f => conn'[h] = conn[h]
        BY <2>12, <3>1, FailOpenDials DEF ConnectFails
      <4> QED
        BY <2>12, <4>1, <4>2 DEF ConnectFails
    <3>2. CASE outcome[f] # "unclaimed"
      BY <2>12, <3>2 DEF ConnectFails, FailOpen
    <3> QED
      BY <3>1, <3>2
  <2>13. CASE ConnectGranted(f)
    BY <2>13 DEF ConnectGranted
  <2>14. CASE Commit(f)
    <3>1. CASE outcome[f] = "unclaimed"
      BY <2>14, <3>1 DEF Commit
    <3>2. CASE outcome[f] # "unclaimed"
      BY <2>14, <3>2 DEF Commit
    <3> QED
      BY <3>1, <3>2
  <2>15. CASE TimerFires(f)
    BY <2>15 DEF TimerFires
  <2>16. CASE TimerRuns(f)
    <3>1. CASE outcome[f] = "unclaimed"
      <4>1. stage[f] = "relaying"
        BY <2>16, <3>1 DEF TimerRuns, LeakInv
      <4>2. /\ conn'[f]["direct"] = "starting" /\ conn'[f]["proxy"] # "open"
            /\ conn'[f]["proxy"] = "none" <=> conn[f]["proxy"] = "none"
            /\ \A h \in Flows : h # f => conn'[h] = conn[h]
        BY <2>16, <3>1, FailOpenDials DEF TimerRuns
      <4> QED
        BY <2>16, <4>1, <4>2 DEF TimerRuns
    <3>2. CASE outcome[f] # "unclaimed"
      BY <2>16, <3>2 DEF TimerRuns, FailOpen
    <3> QED
      BY <3>1, <3>2
  <2>17. CASE CommitSent(f)
    BY <2>17 DEF CommitSent, StartPump
  <2>18. CASE CommitFails(f)
    BY <2>18 DEF CommitFails, RelayDirect
  <2>19. CASE DirectSent(f)
    BY <2>19 DEF DirectSent, StartPump
  <2>20. CASE DirectFails(f)
    BY <2>20 DEF DirectFails, StartPump
  <2>21. CASE UpData(f)
    BY <2>21 DEF UpData, Connected
  <2>22. CASE UpEnd(f)
    BY <2>22 DEF UpEnd
  <2>23. CASE DownData(f)
    BY <2>23 DEF DownData, Connected
  <2>24. CASE DownLast(f)
    <3>1. path[f] \in Paths /\ conn[f][path[f]] # "none"
      BY <2>24 DEF DownLast, Connected, RaceInv, LeakInv, Held
    <3> QED
      BY <2>24, <3>1 DEF DownLast, Connected, Close
  <2>25. CASE DownEnd(f)
    <3>1. path[f] \in Paths /\ conn[f][path[f]] # "none"
      BY <2>25 DEF DownEnd, Connected, RaceInv, LeakInv, Held
    <3> QED
      BY <2>25, <3>1 DEF DownEnd, Connected, Close
  <2>26. CASE PumpFails(f)
    <3>1. path[f] \in Paths /\ conn[f][path[f]] # "none"
      BY <2>26 DEF PumpFails, Connected, RaceInv, LeakInv, Held
    <3> QED
      BY <2>26, <3>1 DEF PumpFails, Connected, Close
  <2> QED
    BY <1>2, <2>1, <2>2, <2>3, <2>4, <2>5, <2>6, <2>7, <2>8, <2>9, <2>10, <2>11, <2>12, <2>13, <2>14, <2>15, <2>16, <2>17, <2>18, <2>19, <2>20, <2>21, <2>22, <2>23, <2>24, <2>25, <2>26
    DEF Environment, Accepting, Connecting, HandingOver, Pumping
<1>3. CASE UNCHANGED vars
  BY <1>3 DEF vars
<1> QED
  BY <1>1, <1>2, <1>3 DEF Next

(* The capture proxy is offered nothing but an agent's own allowlisted flow,
   whatever is opened, however slowly its ClientHello arrives. *)
THEOREM ProxySeesOnlyProviders == Spec => []OnlyProviderFlowsReachProxy
<1> DEFINE Leaks == \A f \in Flows : LeakInv(f)
<1> DEFINE Provided == \A f \in Flows : ProviderInv(f)
<1>1. Init => Leaks /\ Provided
  BY LeakInit, ProviderInit
<1>2. IInv /\ Leaks /\ Provided /\ [Next]_vars => Leaks' /\ Provided'
  BY LeakStep, ProviderStep
<1>3. Provided => OnlyProviderFlowsReachProxy
  BY DEF ProviderInv, OnlyProviderFlowsReachProxy
<1> HIDE DEF Leaks, Provided
<1> QED
  BY <1>1, <1>2, <1>3, Inductive, PTL DEF Spec

-------------------------------------------------------------------------------
(***************************************************************************)
(* Flows whose far end speaks first.  The relay looks at the agent's bytes *)
(* before it dials anyone, and the agent writes none before it is spoken   *)
(* to: both wait.                                                          *)
(***************************************************************************)

Undialled(f) == \A p \in Paths : conn[f][p] = "none"

SilentInv(f) ==
  serverFirst[f] =>
    /\ stage[f] \in {"offered", "kernel", "opening", "peeking", "closed"}
    /\ wrote[f] = 0 /\ read[f] = 0 /\ returned[f] = 0
    /\ connect[f] = "off" /\ timer[f] = "off" /\ path[f] = "none"
    /\ Undialled(f)

LEMMA SilentInit == Init => \A f \in Flows : SilentInv(f)
  BY DEF Init, SilentInv, Undialled

LEMMA SilentStep ==
  TypeOK /\ (\A h \in Flows : SilentInv(h)) /\ [Next]_vars => \A g \in Flows : SilentInv(g)'
<1> SUFFICES ASSUME TypeOK, \A h \in Flows : SilentInv(h), [Next]_vars, NEW g \in Flows
             PROVE  SilentInv(g)'
  OBVIOUS
<1> USE DEF TypeOK, SilentInv, Undialled, Paths, agentVars, originVars, raceVars, pumpVars
<1>1. CASE TogglePause
  BY <1>1 DEF TogglePause
<1>2. ASSUME NEW f \in Flows, Environment(f) PROVE SilentInv(g)'
  <2>1. CASE AgentWrites(f)
    BY <2>1 DEF AgentWrites
  <2>2. CASE AgentEnds(f)
    BY <2>2 DEF AgentEnds
  <2>3. CASE OriginWrites(f)
    BY <2>3 DEF OriginWrites
  <2>4. CASE OriginEnds(f)
    BY <2>4 DEF OriginEnds
  <2> QED
    BY <1>2, <2>1, <2>2, <2>3, <2>4 DEF Environment
<1>3. ASSUME NEW f \in Flows, Accepting(f) PROVE SilentInv(g)'
  <2>1. CASE HandleNewFlow(f)
    BY <2>1 DEF HandleNewFlow
  <2>2. CASE FlowOpened(f)
    BY <2>2 DEF FlowOpened
  <2>3. CASE FlowOpenFails(f)
    BY <2>3 DEF FlowOpenFails, Close
  <2>4. CASE Peek(f)
    <3>1. ~serverFirst[f]
      BY <2>4 DEF Peek, PeekOn, PassThrough, RelayViaGoProxy, PeekTo
    <3>2. CASE PeekOn(f)
      BY <3>1, <3>2 DEF PeekOn, PeekTo
    <3>3. CASE PassThrough(f)
      BY <3>1, <3>3 DEF PassThrough, PeekTo
    <3>4. CASE RelayViaGoProxy(f)
      BY <3>1, <3>4 DEF RelayViaGoProxy, PeekTo
    <3> QED
      BY <2>4, <3>2, <3>3, <3>4 DEF Peek
  <2>5. CASE PeekEnds(f)
    BY <2>5 DEF PeekEnds, Close
  <2>6. CASE PeekFails(f)
    BY <2>6 DEF PeekFails, Close
  <2> QED
    BY <1>3, <2>1, <2>2, <2>3, <2>4, <2>5, <2>6 DEF Accepting
<1>4. ASSUME NEW f \in Flows, Connecting(f) PROVE SilentInv(g)'
  <2>1. ~serverFirst[f]
    BY <1>4 DEF Connecting, ConnectSent, ConnectFails, ConnectGranted, Commit, TimerFires, TimerRuns
  <2>2. UNCHANGED <<agentVars, stage, read, pumpVars>>
    BY <1>4 DEF Connecting, ConnectSent, ConnectFails, ConnectGranted, Commit, TimerFires, TimerRuns
  <2>3. \A h \in Flows : h # f =>
           conn'[h] = conn[h] /\ connect'[h] = connect[h] /\ timer'[h] = timer[h]
    <3>1. CASE ConnectSent(f)
      BY <3>1 DEF ConnectSent
    <3>2. CASE ConnectFails(f)
      BY <3>2 DEF ConnectFails, FailOpen
    <3>3. CASE ConnectGranted(f)
      BY <3>3 DEF ConnectGranted
    <3>4. CASE Commit(f)
      BY <3>4 DEF Commit
    <3>5. CASE TimerFires(f)
      BY <3>5 DEF TimerFires
    <3>6. CASE TimerRuns(f)
      BY <3>6 DEF TimerRuns, FailOpen
    <3> QED
      BY <1>4, <3>1, <3>2, <3>3, <3>4, <3>5, <3>6 DEF Connecting
  <2>4. serverFirst' = serverFirst
    BY <2>2
  <2>5. CASE g = f
    BY <2>1, <2>4, <2>5
  <2>6. CASE g # f
    BY <2>2, <2>3, <2>6
  <2> QED
    BY <2>5, <2>6
<1>5. ASSUME NEW f \in Flows, HandingOver(f) PROVE SilentInv(g)'
  <2>1. ~serverFirst[f]
    BY <1>5 DEF HandingOver, CommitSent, CommitFails, DirectSent, DirectFails
  <2>2. UNCHANGED <<agentVars, read, timer, returned>>
    BY <1>5 DEF HandingOver, CommitSent, CommitFails, DirectSent, DirectFails
  <2>3. \A h \in Flows : h # f =>
           /\ conn'[h] = conn[h] /\ connect'[h] = connect[h]
           /\ stage'[h] = stage[h] /\ path'[h] = path[h]
    <3>1. CASE CommitSent(f)
      BY <3>1 DEF CommitSent, StartPump
    <3>2. CASE CommitFails(f)
      BY <3>2 DEF CommitFails
    <3>3. CASE DirectSent(f)
      BY <3>3 DEF DirectSent, StartPump
    <3>4. CASE DirectFails(f)
      BY <3>4 DEF DirectFails, StartPump
    <3> QED
      BY <1>5, <3>1, <3>2, <3>3, <3>4 DEF HandingOver
  <2>4. serverFirst' = serverFirst
    BY <2>2
  <2>5. CASE g = f
    BY <2>1, <2>4, <2>5
  <2>6. CASE g # f
    BY <2>2, <2>3, <2>6
  <2> QED
    BY <2>5, <2>6
<1>6. ASSUME NEW f \in Flows, Pumping(f) PROVE SilentInv(g)'
  <2>1. ~serverFirst[f]
    BY <1>6 DEF Pumping, UpData, UpEnd, DownData, DownLast, DownEnd, PumpFails, Connected
  <2>2. UNCHANGED <<agentVars, raceVars, path>>
    BY <1>6 DEF Pumping, UpData, UpEnd, DownData, DownLast, DownEnd, PumpFails
  <2>3. \A h \in Flows : h # f =>
           /\ conn'[h] = conn[h] /\ stage'[h] = stage[h]
           /\ read'[h] = read[h] /\ returned'[h] = returned[h]
    <3>1. CASE UpData(f)
      BY <3>1 DEF UpData
    <3>2. CASE UpEnd(f)
      BY <3>2 DEF UpEnd
    <3>3. CASE DownData(f)
      BY <3>3 DEF DownData
    <3>4. CASE DownLast(f)
      BY <3>4 DEF DownLast, Close
    <3>5. CASE DownEnd(f)
      BY <3>5 DEF DownEnd, Close
    <3>6. CASE PumpFails(f)
      BY <3>6 DEF PumpFails, Close
    <3> QED
      BY <1>6, <3>1, <3>2, <3>3, <3>4, <3>5, <3>6 DEF Pumping
  <2>4. serverFirst' = serverFirst
    BY <2>2
  <2>5. CASE g = f
    BY <2>1, <2>4, <2>5
  <2>6. CASE g # f
    BY <2>2, <2>3, <2>6
  <2> QED
    BY <2>5, <2>6
<1>7. CASE UNCHANGED vars
  BY <1>7 DEF vars
<1> QED
  BY <1>1, <1>2, <1>3, <1>4, <1>5, <1>6, <1>7 DEF Next

(* A flow that was taken and whose far end is to speak first is never dialled, by
   either way, and its agent never writes: peekAndRoute reads before it routes
   (README.md: other traffic "is relayed immediately"). *)
THEOREM ServerFirstIsNeverDialled ==
  Spec => [](\A f \in Flows :
               serverFirst[f] /\ stage[f] \notin {"offered", "kernel"} =>
                 Undialled(f) /\ wrote[f] = 0 /\ returned[f] = 0)
<1> DEFINE Silent == \A f \in Flows : SilentInv(f)
<1> DEFINE Waits == \A f \in Flows :
                      serverFirst[f] /\ stage[f] \notin {"offered", "kernel"} =>
                        Undialled(f) /\ wrote[f] = 0 /\ returned[f] = 0
<1>1. Init => Silent
  BY SilentInit
<1>2. TypeOK /\ Silent /\ [Next]_vars => Silent'
  BY SilentStep
<1>3. Silent => Waits
  BY DEF SilentInv
<1> HIDE DEF Silent, Waits
<1>4. Spec => []Waits
  BY <1>1, <1>2, <1>3, TypeCorrect, PTL DEF Spec
<1> QED
  BY <1>4 DEF Waits

-------------------------------------------------------------------------------
(***************************************************************************)
(* The refinement of TransparentFlow.                                      *)
(***************************************************************************)

Chunks(n) == [i \in 1 .. n |-> i]

(* Nothing is sent before the first bytes are handed over; from then on what the
   working connection has carried is what the relay has read. *)
DeliveredInv(f) ==
  /\ read[f] <= wrote[f]
  /\ Untouched(f) \/ stage[f] = "relaying" =>
       carried[f]["proxy"] = << >> /\ carried[f]["direct"] = << >>
  /\ stage[f] = "pumping" =>
       /\ conn[f][path[f]] = "open" => carried[f][path[f]] = Chunks(read[f])
       /\ \A p \in Paths : p # path[f] => carried[f][p] = << >>

LEMMA ChunksType == ASSUME NEW n \in Nat PROVE Chunks(n) \in Seq(Nat) /\ Len(Chunks(n)) = n
  BY DEF Chunks

LEMMA NextChunk ==
  ASSUME NEW n \in Nat
  PROVE  Append(Chunks(n), n + 1) = Chunks(n + 1)
  BY DEF Chunks

(* Sequences that stand before or after an empty one. *)
LEMMA NoChunks ==
  /\ Chunks(0) = << >>
  /\ \A s \in Seq(Nat) : s \o << >> = s /\ << >> \o s = s
  BY DEF Chunks

LEMMA FirstBytesAreChunks ==
  ASSUME TypeOK, NEW f \in Flows
  PROVE  << >> \o FirstBytes(f) = Chunks(read[f])
<1>1. read[f] \in Nat
  BY DEF TypeOK
<1>2. FirstBytes(f) = Chunks(read[f])
  BY DEF FirstBytes, Chunks
<1> QED
  BY <1>1, <1>2, ChunksType, NoChunks

LEMMA DeliveredInit == Init => \A f \in Flows : DeliveredInv(f)
  BY DEF Init, DeliveredInv, Untouched, Paths

LEMMA DeliveredStep ==
  IInv /\ (\A h \in Flows : LeakInv(h)) /\ (\A h \in Flows : DeliveredInv(h))
    /\ [Next]_vars => \A g \in Flows : DeliveredInv(g)'
<1> SUFFICES ASSUME TypeOK, \A h \in Flows : RaceInv(h) /\ LeakInv(h), \A h \in Flows : DeliveredInv(h),
                    [Next]_vars, NEW g \in Flows
             PROVE  DeliveredInv(g)'
  BY DEF IInv
<1> USE DEF TypeOK, DeliveredInv, Untouched, Paths, agentVars, originVars, raceVars, pumpVars
<1>1. CASE TogglePause
  BY <1>1 DEF TogglePause
<1>2. ASSUME NEW f \in Flows,
             Environment(f) \/ Accepting(f) \/ Connecting(f) \/ HandingOver(f) \/ Pumping(f)
      PROVE  DeliveredInv(g)'
  <2>1. CASE AgentWrites(f)
    BY <2>1 DEF AgentWrites
  <2>2. CASE AgentEnds(f)
    BY <2>2 DEF AgentEnds
  <2>3. CASE OriginWrites(f)
    BY <2>3 DEF OriginWrites
  <2>4. CASE OriginEnds(f)
    BY <2>4 DEF OriginEnds
  <2>5. CASE HandleNewFlow(f)
    BY <2>5 DEF HandleNewFlow, Taken
  <2>6. CASE FlowOpened(f)
    BY <2>6 DEF FlowOpened
  <2>7. CASE FlowOpenFails(f)
    BY <2>7 DEF FlowOpenFails, Close
  <2>8. CASE Peek(f)
    <3>1. CASE PeekOn(f)
      BY <3>1 DEF PeekOn, PeekTo
    <3>2. CASE PassThrough(f)
      BY <3>2 DEF PassThrough, PeekTo, RelayDirect
    <3>3. CASE RelayViaGoProxy(f)
      BY <3>3 DEF RelayViaGoProxy, PeekTo, Route
    <3> QED
      BY <2>8, <3>1, <3>2, <3>3 DEF Peek
  <2>9. CASE PeekEnds(f)
    BY <2>9 DEF PeekEnds, Close
  <2>10. CASE PeekFails(f)
    BY <2>10 DEF PeekFails, Close
  <2>11. CASE ConnectSent(f)
    BY <2>11 DEF ConnectSent
  <2>12. CASE ConnectFails(f)
    <3>1. CASE outcome[f] = "unclaimed"
      <4>1. stage[f] = "relaying"
        BY <2>12, <3>1 DEF ConnectFails, LeakInv
      <4>2. /\ conn'[f]["direct"] = "starting" /\ conn'[f]["proxy"] # "open"
            /\ conn'[f]["proxy"] = "none" <=> conn[f]["proxy"] = "none"
            /\ \A h \in Flows : h # f => conn'[h] = conn[h]
        BY <2>12, <3>1, FailOpenDials DEF ConnectFails
      <4> QED
        BY <2>12, <4>1, <4>2 DEF ConnectFails
    <3>2. CASE outcome[f] # "unclaimed"
      BY <2>12, <3>2 DEF ConnectFails, FailOpen
    <3> QED
      BY <3>1, <3>2
  <2>13. CASE ConnectGranted(f)
    BY <2>13 DEF ConnectGranted
  <2>14. CASE Commit(f)
    <3>1. CASE outcome[f] = "unclaimed"
      BY <2>14, <3>1 DEF Commit
    <3>2. CASE outcome[f] # "unclaimed"
      BY <2>14, <3>2 DEF Commit
    <3> QED
      BY <3>1, <3>2
  <2>15. CASE TimerFires(f)
    BY <2>15 DEF TimerFires
  <2>16. CASE TimerRuns(f)
    <3>1. CASE outcome[f] = "unclaimed"
      <4>1. stage[f] = "relaying"
        BY <2>16, <3>1 DEF TimerRuns, LeakInv
      <4>2. /\ conn'[f]["direct"] = "starting" /\ conn'[f]["proxy"] # "open"
            /\ conn'[f]["proxy"] = "none" <=> conn[f]["proxy"] = "none"
            /\ \A h \in Flows : h # f => conn'[h] = conn[h]
        BY <2>16, <3>1, FailOpenDials DEF TimerRuns
      <4> QED
        BY <2>16, <4>1, <4>2 DEF TimerRuns
    <3>2. CASE outcome[f] # "unclaimed"
      BY <2>16, <3>2 DEF TimerRuns, FailOpen
    <3> QED
      BY <3>1, <3>2
  <2>17. CASE CommitSent(f)
    <3>1. stage[f] = "relaying"
      BY <2>17 DEF CommitSent, LeakInv
    <3>2. carried[f]["proxy"] = << >> /\ carried[f]["direct"] = << >>
      BY <3>1
    <3>3. carried' = [carried EXCEPT ![f]["proxy"] = Chunks(read[f])]
      BY <2>17, <3>2, FirstBytesAreChunks DEF CommitSent
    <3>4. Chunks(read[f]) \in Seq(Nat) /\ "proxy" \in Paths
      BY ChunksType
    <3>5. /\ carried'[f]["proxy"] = Chunks(read[f])
          /\ \A r \in Paths : r # "proxy" => carried'[f][r] = carried[f][r]
          /\ \A h \in Flows : h # f => carried'[h] = carried[h]
      BY <3>3, <3>4, CarriedUpdate
    <3> QED
      BY <2>17, <3>2, <3>5 DEF CommitSent, StartPump
  <2>18. CASE CommitFails(f)
    <3>1. stage[f] = "relaying"
      BY <2>18 DEF CommitFails, LeakInv
    <3> QED
      BY <2>18, <3>1 DEF CommitFails
  <2>19. CASE DirectSent(f)
    <3>1. stage[f] = "relaying"
      BY <2>19 DEF DirectSent, LeakInv
    <3>2. carried[f]["proxy"] = << >> /\ carried[f]["direct"] = << >>
      BY <3>1
    <3>3. carried' = [carried EXCEPT ![f]["direct"] = Chunks(read[f])]
      BY <2>19, <3>2, FirstBytesAreChunks DEF DirectSent
    <3>4. Chunks(read[f]) \in Seq(Nat) /\ "direct" \in Paths
      BY ChunksType
    <3>5. /\ carried'[f]["direct"] = Chunks(read[f])
          /\ \A r \in Paths : r # "direct" => carried'[f][r] = carried[f][r]
          /\ \A h \in Flows : h # f => carried'[h] = carried[h]
      BY <3>3, <3>4, CarriedUpdate
    <3> QED
      BY <2>19, <3>2, <3>5 DEF DirectSent, StartPump
  <2>20. CASE DirectFails(f)
    <3>1. stage[f] = "relaying"
      BY <2>20 DEF DirectFails, LeakInv
    <3>2. conn'[f]["direct"] = "broken"
      BY <2>20 DEF DirectFails
    <3> QED
      BY <2>20, <3>1, <3>2 DEF DirectFails, StartPump
  <2>21. CASE UpData(f)
    <3>1. path[f] \in Paths /\ stage[f] = "pumping" /\ conn[f][path[f]] = "open"
      BY <2>21 DEF UpData, Connected, RaceInv
    <3>2. carried[f][path[f]] = Chunks(read[f]) /\ read[f] \in Nat
      BY <3>1
    <3>3. carried' = [carried EXCEPT ![f][path[f]] = Chunks(read[f] + 1)]
      BY <2>21, <3>2, NextChunk DEF UpData
    <3>4. Chunks(read[f] + 1) \in Seq(Nat)
      BY <3>2, ChunksType
    <3>5. /\ carried'[f][path[f]] = Chunks(read[f] + 1)
          /\ \A r \in Paths : r # path[f] => carried'[f][r] = carried[f][r]
          /\ \A h \in Flows : h # f => carried'[h] = carried[h]
      BY <3>1, <3>3, <3>4, CarriedUpdate
    <3>6. /\ read' = [read EXCEPT ![f] = @ + 1] /\ read[f] < wrote[f]
          /\ UNCHANGED <<wrote, stage, conn, path>>
      BY <2>21 DEF UpData
    <3>7. CASE g = f
      BY <3>1, <3>5, <3>6, <3>7
    <3>8. CASE g # f
      BY <3>5, <3>6, <3>8
    <3> QED
      BY <3>7, <3>8
  <2>22. CASE UpEnd(f)
    BY <2>22 DEF UpEnd
  <2>23. CASE DownData(f)
    BY <2>23 DEF DownData, Connected
  <2>24. CASE DownLast(f)
    BY <2>24 DEF DownLast, Connected, Close
  <2>25. CASE DownEnd(f)
    BY <2>25 DEF DownEnd, Connected, Close
  <2>26. CASE PumpFails(f)
    BY <2>26 DEF PumpFails, Close
  <2> QED
    BY <1>2, <2>1, <2>2, <2>3, <2>4, <2>5, <2>6, <2>7, <2>8, <2>9, <2>10, <2>11, <2>12, <2>13, <2>14, <2>15, <2>16, <2>17, <2>18, <2>19, <2>20, <2>21, <2>22, <2>23, <2>24, <2>25, <2>26
    DEF Environment, Accepting, Connecting, HandingOver, Pumping
<1>3. CASE UNCHANGED vars
  BY <1>3 DEF vars
<1> QED
  BY <1>1, <1>2, <1>3 DEF Next

(* The mapped variables, and what an action's changes make of them. *)
Delivered == [f \in Flows |-> carried[f]["proxy"] \o carried[f]["direct"]]
Open == [f \in Flows |-> stage[f] # "closed"]

LEMMA DeliveredBy ==
  ASSUME NEW f \in Flows, NEW p \in Paths, NEW s \in Seq(Nat),
         carried \in [Flows -> [Paths -> Seq(Nat)]],
         carried' = [carried EXCEPT ![f][p] = s],
         \A q \in Paths : q # p => carried[f][q] = << >>
  PROVE  Delivered' = [Delivered EXCEPT ![f] = s]
<1>1. /\ carried'[f][p] = s
      /\ \A r \in Paths : r # p => carried'[f][r] = << >>
      /\ \A h \in Flows : h # f => carried'[h] = carried[h]
  BY CarriedUpdate
<1>2. carried'[f]["proxy"] \o carried'[f]["direct"] = s
  <2>1. CASE p = "proxy"
    BY <1>1, <2>1, NoChunks DEF Paths
  <2>2. CASE p = "direct"
    BY <1>1, <2>2, NoChunks DEF Paths
  <2> QED
    BY <2>1, <2>2 DEF Paths
<1> DEFINE d == [h \in Flows |-> carried'[h]["proxy"] \o carried'[h]["direct"]]
<1>3. \A h \in Flows : h # f => d[h] = Delivered[h]
  BY <1>1 DEF Delivered
<1>4. d[f] = s
  BY <1>2
<1>5. \A h \in Flows :
        /\ carried[h]["proxy"] \o carried[h]["direct"] \in Seq(Nat)
        /\ carried'[h]["proxy"] \o carried'[h]["direct"] \in Seq(Nat)
  BY CarriedUpdate, SeqClosed DEF Paths
<1>6. Delivered' = d /\ Delivered \in [Flows -> Seq(Nat)] /\ d \in [Flows -> Seq(Nat)]
  BY <1>5 DEF Delivered
<1> HIDE DEF d
<1> QED
  BY <1>3, <1>4, <1>6

LEMMA OpenKept ==
  ASSUME NEW f \in Flows, TypeOK, stage[f] # "closed", NEW s, s # "closed",
         stage' = [stage EXCEPT ![f] = s]
  PROVE  Open' = Open
  BY DEF TypeOK, Open

LEMMA ClosedBy ==
  ASSUME NEW f \in Flows, TypeOK, Close(f)
  PROVE  Open' = [Open EXCEPT ![f] = FALSE]
  BY DEF TypeOK, Open, Close

LEMMA KernelInit == Init => Kernel!Init
<1> SUFFICES ASSUME Init PROVE Kernel!Init
  OBVIOUS
<1>1. Delivered = [f \in Flows |-> << >>]
  BY DEF Init, Delivered, Paths
<1>2. Open = [f \in Flows |-> TRUE]
  BY DEF Init, Open
<1> QED
  BY <1>1, <1>2 DEF Init, Kernel!Init, Delivered, Open

(* The steps of the kernel's delivery, in terms of the mapped variables. *)
LEMMA Unseen ==
  ASSUME UNCHANGED <<wrote, replied, returned, carried>>, Open' = Open
  PROVE  UNCHANGED Kernel!vars
  BY DEF Kernel!vars, Delivered, Open

LEMMA Handed ==
  ASSUME NEW f \in Flows, NEW p \in Paths, NEW n \in Nat,
         TypeOK, stage[f] # "closed",
         carried' = [carried EXCEPT ![f][p] = Chunks(n)],
         \A q \in Paths : q # p => carried[f][q] = << >>,
         \E m \in Nat : carried[f][p] = Chunks(m) /\ m < n, n <= wrote[f],
         UNCHANGED <<wrote, replied, returned>>, Open' = Open
  PROVE  Kernel!Deliver(f)
<1>1. PICK m \in Nat : carried[f][p] = Chunks(m) /\ m < n
  OBVIOUS
<1>2. wrote[f] \in Nat /\ carried \in [Flows -> [Paths -> Seq(Nat)]]
  BY DEF TypeOK
<1>3. Delivered' = [Delivered EXCEPT ![f] = Chunks(n)]
  BY <1>2, ChunksType, DeliveredBy
<1>4. Delivered[f] = Chunks(m)
  <2>1. CASE p = "proxy"
    BY <1>1, <2>1, ChunksType, NoChunks DEF Delivered, Paths
  <2>2. CASE p = "direct"
    BY <1>1, <2>2, ChunksType, NoChunks DEF Delivered, Paths
  <2> QED
    BY <2>1, <2>2 DEF Paths
<1>5. n \in Len(Delivered[f]) + 1 .. wrote[f]
  BY <1>1, <1>2, <1>4, ChunksType
<1>6. Delivered' = [Delivered EXCEPT ![f] = Kernel!FirstChunks(n)]
  BY <1>3 DEF Chunks, Kernel!FirstChunks
<1>7. Open[f]
  BY DEF Open
<1> QED
  BY <1>5, <1>6, <1>7 DEF Kernel!Deliver, Delivered, Open

LEMMA CutBy ==
  ASSUME NEW f \in Flows, TypeOK, stage[f] # "closed", Close(f),
         UNCHANGED <<wrote, replied, returned, carried>>
  PROVE  Kernel!Cut(f)
<1>1. Open[f] /\ Open' = [Open EXCEPT ![f] = FALSE]
  BY ClosedBy DEF Open
<1> QED
  BY <1>1 DEF Kernel!Cut, Delivered, Open

LEMMA Returned ==
  ASSUME NEW f \in Flows, NEW b \in BOOLEAN, TypeOK, stage[f] # "closed",
         returned[f] < replied[f], returned' = [returned EXCEPT ![f] = @ + 1],
         Open' = [Open EXCEPT ![f] = b], UNCHANGED <<wrote, replied, carried>>
  PROVE  Kernel!Return(f)
  BY DEF Kernel!Return, Delivered, Open

LEMMA NothingHanded ==
  ASSUME NEW f \in Flows, NEW p \in Paths, TypeOK, Open' = Open,
         carried' = [carried EXCEPT ![f][p] = Chunks(0)],
         \A q \in Paths : carried[f][q] = << >>,
         UNCHANGED <<wrote, replied, returned>>
  PROVE  UNCHANGED Kernel!vars
<1>1. Chunks(0) \in Seq(Nat) /\ carried \in [Flows -> [Paths -> Seq(Nat)]]
  BY ChunksType DEF TypeOK
<1>2. Delivered' = [Delivered EXCEPT ![f] = Chunks(0)]
  BY <1>1, DeliveredBy
<1>3. Delivered[f] = Chunks(0)
  <2>1. Delivered[f] = carried[f]["proxy"] \o carried[f]["direct"]
    BY DEF Delivered
  <2>2. << >> \in Seq(Nat) /\ << >> \o << >> = << >>
    BY NoChunks
  <2>3. carried[f]["proxy"] = << >> /\ carried[f]["direct"] = << >>
    BY DEF Paths
  <2> QED
    BY <2>1, <2>2, <2>3, NoChunks
<1>4. Delivered' = Delivered
  BY <1>2, <1>3 DEF Delivered
<1> QED
  BY <1>4 DEF Kernel!vars, Delivered, Open

(* The copy loops start: what the peek has read is delivered, or nothing has
   been read and nothing is seen to happen. *)
LEMMA FirstHanded ==
  ASSUME NEW f \in Flows, NEW p \in Paths, TypeOK, DeliveredInv(f), stage[f] = "relaying",
         carried' = [carried EXCEPT ![f][p] = @ \o FirstBytes(f)],
         stage' = [stage EXCEPT ![f] = "pumping"],
         UNCHANGED <<wrote, replied, returned>>
  PROVE  Kernel!Deliver(f) \/ UNCHANGED Kernel!vars
<1>1. carried[f]["proxy"] = << >> /\ carried[f]["direct"] = << >>
  BY DEF DeliveredInv
<1>2. \A q \in Paths : carried[f][q] = << >>
  BY <1>1 DEF Paths
<1>3. carried' = [carried EXCEPT ![f][p] = Chunks(read[f])]
  BY <1>2, FirstBytesAreChunks
<1>4. read[f] \in Nat /\ read[f] <= wrote[f]
  BY DEF TypeOK, DeliveredInv
<1>5. Open' = Open
  BY OpenKept
<1>6. CASE read[f] = 0
  <2>1. carried' = [carried EXCEPT ![f][p] = Chunks(0)]
    BY <1>3, <1>6
  <2> QED
    BY <1>2, <1>5, <2>1, NothingHanded
<1>7. CASE read[f] # 0
  <2>1. 0 < read[f] /\ carried[f][p] = Chunks(0)
    BY <1>2, <1>4, <1>7, NoChunks
  <2> QED
    BY <1>2, <1>3, <1>4, <1>5, <2>1, Handed
<1> QED
  BY <1>6, <1>7

LEMMA NextHanded ==
  ASSUME NEW f \in Flows, TypeOK, RaceInv(f), DeliveredInv(f), UpData(f)
  PROVE  Kernel!Deliver(f)
<1>1. path[f] \in Paths /\ stage[f] = "pumping" /\ conn[f][path[f]] = "open"
  BY DEF UpData, Connected, RaceInv
<1>2. /\ read[f] \in Nat /\ carried[f][path[f]] = Chunks(read[f])
      /\ \A q \in Paths : q # path[f] => carried[f][q] = << >>
  BY <1>1 DEF TypeOK, DeliveredInv
<1>3. carried' = [carried EXCEPT ![f][path[f]] = Chunks(read[f] + 1)]
  BY <1>2, NextChunk DEF UpData
<1>4. UNCHANGED <<wrote, replied, returned, stage>> /\ read[f] < wrote[f]
  BY DEF UpData, agentVars, originVars, pumpVars
<1>5. Open' = Open
  BY <1>4 DEF Open
<1>6. wrote[f] \in Nat /\ read[f] + 1 \in Nat /\ read[f] < read[f] + 1 /\ read[f] + 1 <= wrote[f]
  BY <1>2, <1>4 DEF TypeOK
<1>7. stage[f] # "closed"
  BY <1>1
<1> QED
  BY <1>1, <1>2, <1>3, <1>4, <1>5, <1>6, <1>7, Handed


LEMMA KernelStep ==
  IInv /\ (\A h \in Flows : LeakInv(h)) /\ (\A h \in Flows : DeliveredInv(h))
    /\ [Next]_vars => [Kernel!Next]_(Kernel!vars)
<1> SUFFICES ASSUME TypeOK, \A h \in Flows : RaceInv(h) /\ LeakInv(h) /\ DeliveredInv(h), [Next]_vars
             PROVE  Kernel!Next \/ UNCHANGED Kernel!vars
  BY DEF IInv
<1> USE DEF agentVars, originVars, raceVars, pumpVars
<1>1. CASE TogglePause
  <2>1. UNCHANGED <<wrote, replied, returned, carried, stage>>
    BY <1>1 DEF TogglePause
  <2>2. Open' = Open
    BY <2>1 DEF Open
  <2> QED
    BY <2>1, <2>2, Unseen
<1>2. ASSUME NEW f \in Flows,
             Environment(f) \/ Accepting(f) \/ Connecting(f) \/ HandingOver(f) \/ Pumping(f)
      PROVE  Kernel!Next \/ UNCHANGED Kernel!vars
  <2>1. CASE AgentWrites(f)
    <3>1. Kernel!AgentWrites(f)
      BY <2>1 DEF AgentWrites, Kernel!AgentWrites, Delivered, Open
    <3> QED
      BY <3>1 DEF Kernel!Next
  <2>2. CASE AgentEnds(f)
    <3>1. UNCHANGED <<wrote, replied, returned, carried, stage>>
      BY <2>2 DEF AgentEnds
    <3>2. Open' = Open
      BY <3>1 DEF Open
    <3> QED
      BY <3>1, <3>2, Unseen
  <2>3. CASE OriginWrites(f)
    <3>1. Kernel!OriginWrites(f)
      BY <2>3 DEF OriginWrites, Kernel!OriginWrites, Delivered, Open
    <3> QED
      BY <3>1 DEF Kernel!Next
  <2>4. CASE OriginEnds(f)
    <3>1. UNCHANGED <<wrote, replied, returned, carried, stage>>
      BY <2>4 DEF OriginEnds
    <3>2. Open' = Open
      BY <3>1 DEF Open
    <3> QED
      BY <3>1, <3>2, Unseen
  <2>5. CASE HandleNewFlow(f)
    <3>1. /\ stage[f] = "offered"
          /\ \/ stage' = [stage EXCEPT ![f] = "opening"]
             \/ stage' = [stage EXCEPT ![f] = "kernel"]
      BY <2>5 DEF HandleNewFlow
    <3>2. UNCHANGED <<wrote, replied, returned, carried>>
      BY <2>5 DEF HandleNewFlow
    <3>3. Open' = Open
      BY <3>1, OpenKept
    <3> QED
      BY <3>2, <3>3, Unseen
  <2>6. CASE FlowOpened(f)
    <3>1. stage[f] = "opening" /\ stage' = [stage EXCEPT ![f] = "peeking"]
      BY <2>6 DEF FlowOpened
    <3>2. UNCHANGED <<wrote, replied, returned, carried>>
      BY <2>6 DEF FlowOpened
    <3>3. Open' = Open
      BY <3>1, OpenKept
    <3> QED
      BY <3>2, <3>3, Unseen
  <2>7. CASE FlowOpenFails(f)
    <3>1. /\ stage[f] # "closed" /\ Close(f)
          /\ UNCHANGED <<wrote, replied, returned, carried>>
      BY <2>7 DEF FlowOpenFails
    <3>2. Kernel!Cut(f)
      BY <3>1, CutBy
    <3> QED
      BY <3>2 DEF Kernel!Next
  <2>8. CASE Peek(f)
    <3>1. /\ stage[f] = "peeking"
          /\ \/ stage' = [stage EXCEPT ![f] = "peeking"]
             \/ stage' = [stage EXCEPT ![f] = "relaying"]
      BY <2>8 DEF Peek, PeekOn, PassThrough, RelayViaGoProxy, PeekTo
    <3>2. UNCHANGED <<wrote, replied, returned, carried>>
      BY <2>8 DEF Peek, PeekOn, PassThrough, RelayViaGoProxy, PeekTo
    <3>3. Open' = Open
      BY <3>1, OpenKept
    <3> QED
      BY <3>2, <3>3, Unseen
  <2>9. CASE PeekEnds(f)
    <3>1. /\ stage[f] # "closed" /\ Close(f)
          /\ UNCHANGED <<wrote, replied, returned, carried>>
      BY <2>9 DEF PeekEnds
    <3>2. Kernel!Cut(f)
      BY <3>1, CutBy
    <3> QED
      BY <3>2 DEF Kernel!Next
  <2>10. CASE PeekFails(f)
    <3>1. /\ stage[f] # "closed" /\ Close(f)
          /\ UNCHANGED <<wrote, replied, returned, carried>>
      BY <2>10 DEF PeekFails
    <3>2. Kernel!Cut(f)
      BY <3>1, CutBy
    <3> QED
      BY <3>2 DEF Kernel!Next
  <2>11. CASE ConnectSent(f)
    <3>1. UNCHANGED <<wrote, replied, returned, carried, stage>>
      BY <2>11 DEF ConnectSent
    <3>2. Open' = Open
      BY <3>1 DEF Open
    <3> QED
      BY <3>1, <3>2, Unseen
  <2>12. CASE ConnectFails(f)
    <3>1. UNCHANGED <<wrote, replied, returned, carried, stage>>
      BY <2>12 DEF ConnectFails
    <3>2. Open' = Open
      BY <3>1 DEF Open
    <3> QED
      BY <3>1, <3>2, Unseen
  <2>13. CASE ConnectGranted(f)
    <3>1. UNCHANGED <<wrote, replied, returned, carried, stage>>
      BY <2>13 DEF ConnectGranted
    <3>2. Open' = Open
      BY <3>1 DEF Open
    <3> QED
      BY <3>1, <3>2, Unseen
  <2>14. CASE Commit(f)
    <3>1. UNCHANGED <<wrote, replied, returned, carried, stage>>
      BY <2>14 DEF Commit
    <3>2. Open' = Open
      BY <3>1 DEF Open
    <3> QED
      BY <3>1, <3>2, Unseen
  <2>15. CASE TimerFires(f)
    <3>1. UNCHANGED <<wrote, replied, returned, carried, stage>>
      BY <2>15 DEF TimerFires
    <3>2. Open' = Open
      BY <3>1 DEF Open
    <3> QED
      BY <3>1, <3>2, Unseen
  <2>16. CASE TimerRuns(f)
    <3>1. UNCHANGED <<wrote, replied, returned, carried, stage>>
      BY <2>16 DEF TimerRuns
    <3>2. Open' = Open
      BY <3>1 DEF Open
    <3> QED
      BY <3>1, <3>2, Unseen
  <2>17. CASE CommitSent(f)
    <3>1. stage[f] = "relaying" /\ DeliveredInv(f) /\ "proxy" \in Paths
      BY <2>17 DEF CommitSent, LeakInv, Paths
    <3>2. /\ carried' = [carried EXCEPT ![f]["proxy"] = @ \o FirstBytes(f)]
          /\ stage' = [stage EXCEPT ![f] = "pumping"]
          /\ UNCHANGED <<wrote, replied, returned>>
      BY <2>17 DEF CommitSent, StartPump
    <3>3. Kernel!Deliver(f) \/ UNCHANGED Kernel!vars
      BY <3>1, <3>2, FirstHanded
    <3> QED
      BY <3>3 DEF Kernel!Next
  <2>18. CASE CommitFails(f)
    <3>1. UNCHANGED <<wrote, replied, returned, carried, stage>>
      BY <2>18 DEF CommitFails
    <3>2. Open' = Open
      BY <3>1 DEF Open
    <3> QED
      BY <3>1, <3>2, Unseen
  <2>19. CASE DirectSent(f)
    <3>1. stage[f] = "relaying" /\ DeliveredInv(f) /\ "direct" \in Paths
      BY <2>19 DEF DirectSent, LeakInv, Paths
    <3>2. /\ carried' = [carried EXCEPT ![f]["direct"] = @ \o FirstBytes(f)]
          /\ stage' = [stage EXCEPT ![f] = "pumping"]
          /\ UNCHANGED <<wrote, replied, returned>>
      BY <2>19 DEF DirectSent, StartPump
    <3>3. Kernel!Deliver(f) \/ UNCHANGED Kernel!vars
      BY <3>1, <3>2, FirstHanded
    <3> QED
      BY <3>3 DEF Kernel!Next
  <2>20. CASE DirectFails(f)
    <3>1. stage[f] = "relaying" /\ stage' = [stage EXCEPT ![f] = "pumping"]
      BY <2>20 DEF DirectFails, StartPump, LeakInv
    <3>2. UNCHANGED <<wrote, replied, returned, carried>>
      BY <2>20 DEF DirectFails, StartPump
    <3>3. Open' = Open
      BY <3>1, OpenKept
    <3> QED
      BY <3>2, <3>3, Unseen
  <2>21. CASE UpData(f)
    <3>1. Kernel!Deliver(f)
      BY <2>21, NextHanded
    <3> QED
      BY <3>1 DEF Kernel!Next
  <2>22. CASE UpEnd(f)
    <3>1. UNCHANGED <<wrote, replied, returned, carried, stage>>
      BY <2>22 DEF UpEnd
    <3>2. Open' = Open
      BY <3>1 DEF Open
    <3> QED
      BY <3>1, <3>2, Unseen
  <2>23. CASE DownData(f)
    <3>1. /\ stage[f] # "closed" /\ returned[f] < replied[f]
          /\ returned' = [returned EXCEPT ![f] = @ + 1]
          /\ UNCHANGED <<wrote, replied, carried, stage>>
      BY <2>23 DEF DownData, Connected
    <3>2. Open' = [Open EXCEPT ![f] = TRUE]
      BY <3>1 DEF Open
    <3>3. Kernel!Return(f)
      BY <3>1, <3>2, Returned
    <3> QED
      BY <3>3 DEF Kernel!Next
  <2>24. CASE DownLast(f)
    <3>1. /\ stage[f] # "closed" /\ Close(f)
          /\ returned' = [returned EXCEPT ![f] = @ + 1]
          /\ UNCHANGED <<wrote, replied, carried>>
      BY <2>24 DEF DownLast, Connected
    <3>2. returned[f] < replied[f]
      BY <2>24 DEF DownLast, TypeOK
    <3>3. Open' = [Open EXCEPT ![f] = FALSE]
      BY <3>1, ClosedBy
    <3>4. Kernel!Return(f)
      BY <3>1, <3>2, <3>3, Returned
    <3> QED
      BY <3>4 DEF Kernel!Next
  <2>25. CASE DownEnd(f)
    <3>1. /\ stage[f] # "closed" /\ Close(f)
          /\ UNCHANGED <<wrote, replied, returned, carried>>
      BY <2>25 DEF DownEnd, Connected
    <3>2. Kernel!Cut(f)
      BY <3>1, CutBy
    <3> QED
      BY <3>2 DEF Kernel!Next
  <2>26. CASE PumpFails(f)
    <3>1. /\ stage[f] # "closed" /\ Close(f)
          /\ UNCHANGED <<wrote, replied, returned, carried>>
      BY <2>26 DEF PumpFails
    <3>2. Kernel!Cut(f)
      BY <3>1, CutBy
    <3> QED
      BY <3>2 DEF Kernel!Next
  <2> QED
    BY <1>2, <2>1, <2>2, <2>3, <2>4, <2>5, <2>6, <2>7, <2>8, <2>9, <2>10, <2>11, <2>12, <2>13, <2>14, <2>15, <2>16, <2>17, <2>18, <2>19, <2>20, <2>21, <2>22, <2>23, <2>24, <2>25, <2>26
    DEF Environment, Accepting, Connecting, HandingOver, Pumping
<1>3. CASE UNCHANGED vars
  BY <1>3 DEF vars, Kernel!vars, Delivered, Open
<1> QED
  BY <1>1, <1>2, <1>3 DEF Next

(* Whatever the race, the fall-back and the failures do to a flow, it is a pair
   of byte streams that may be cut: what has left for the far end is a prefix of
   what the agent wrote, sent once and in order. *)
THEOREM RelayIsTransparent == Spec => ImplementsTransparentFlow
<1> DEFINE Leaks == \A f \in Flows : LeakInv(f)
<1> DEFINE Sent == \A f \in Flows : DeliveredInv(f)
<1>1. Init => Leaks /\ Sent /\ Kernel!Init
  BY LeakInit, DeliveredInit, KernelInit
<1>2. IInv /\ Leaks /\ Sent /\ [Next]_vars => Leaks' /\ Sent'
  BY LeakStep, DeliveredStep
<1>3. IInv /\ Leaks /\ Sent /\ [Next]_vars => [Kernel!Next]_(Kernel!vars)
  BY KernelStep
<1> HIDE DEF Leaks, Sent
<1> QED
  BY <1>1, <1>2, <1>3, Inductive, PTL DEF Spec, Kernel!Spec, ImplementsTransparentFlow

===============================================================================
