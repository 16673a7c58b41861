---------------------------- MODULE WireProxyProofs ----------------------------
(***************************************************************************)
(* Proofs about WireProxy for any number of connections and requests: the  *)
(* answers match the requests, nothing is replayed, the evidence is        *)
(* complete and no upstream connection leaks, whoever stops or dies when.  *)
(***************************************************************************)
EXTENDS WireProxy, TLAPS

RequestType  == [kind : Kinds, close : BOOLEAN, body : Bodies]
AnswerType   == [n : Nat, status : {"origin", "426", "502"}, complete : BOOLEAN]
ReceivedType == [n : Nat, whole : BOOLEAN]

ProxyType ==
  /\ agent \in [Conns -> {"open", "ended", "gone"}]
  /\ requests \in [Conns -> Seq(RequestType)]
  /\ stage \in [Conns -> Stages]
  /\ upstream \in [Conns -> {"none", "open", "dead"}]
  /\ received \in [Conns -> Seq(ReceivedType)]
  /\ answers \in [Conns -> Seq(AnswerType)]
  /\ serving \in [Conns -> Nat]
  /\ captured \in [Conns -> SUBSET Nat]
  /\ bypassed \in [Conns -> SUBSET Nat]

(***************************************************************************)
(* The inductive strengthening.                                            *)
(***************************************************************************)

(* pump has a request and has sent the agent nothing for it yet. *)
Working(c) == stage[c] \in {"body", "dialing", "sending", "awaiting"}

(* Only a body above maxParseBody is ever read in part, and an upgrade has none. *)
RequestInv(c) ==
  \A n \in 1 .. Len(requests[c]) :
    /\ requests[c][n].body = "prefix" => requests[c][n].kind = "large"
    /\ requests[c][n].kind \in Upgrades => requests[c][n].body = "whole"

(* The request pump is on, and how many it has answered. *)
TurnInv(c) ==
  /\ serving[c] <= Len(requests[c])
  /\ stage[c] \in {"accepted", "dialing tunnel", "handshake"} => serving[c] = 0
  /\ Working(c) \/ stage[c] = "relaying" => serving[c] > 0
  /\ stage[c] \in {"accepted", "dialing tunnel", "handshake", "idle", "relaying"}
       => Len(answers[c]) = serving[c]
  /\ Working(c) => Len(answers[c]) + 1 = serving[c]

(* Every answer is whole and the origin's but the last one, which may be cut
   short or the proxy's own only if it is still being relayed, or was the end. *)
AnswerInv(c) ==
  \A i \in 1 .. Len(answers[c]) :
    /\ answers[c][i].n = i
    /\ i < Len(answers[c]) \/ stage[c] = "idle" \/ Working(c) => answers[c][i].complete
    /\ i < Len(answers[c]) \/ stage[c] \in {"idle", "relaying"} \/ Working(c)
         => answers[c][i].status = "origin"

(* What the origin has got are requests up to the one pump is on, and not that
   one before it is sent. *)
OrderInv(c) ==
  /\ \A i \in 1 .. Len(received[c]) :
       /\ received[c][i].n \in 1 .. serving[c]
       /\ stage[c] \in {"body", "dialing", "sending"} => received[c][i].n < serving[c]
  /\ \A i, j \in 1 .. Len(received[c]) : i < j => received[c][i].n < received[c][j].n

(* What is recorded was read to its end, and what the origin has got was
   recorded or reported. *)
RecordInv(c) ==
  /\ \A n \in captured[c] : n \in 1 .. serving[c] /\ requests[c][n].body = "whole"
  /\ \A i \in 1 .. Len(received[c]) :
       LET m == received[c][i] IN
       /\ m.whole /\ requests[c][m.n].kind = "llm" => m.n \in captured[c]
       /\ requests[c][m.n].kind \in Upgrades => m.n \in bypassed[c]

(* The request between its report and its sending: a body that was read in part
   is not completed behind the report. *)
ReportInv(c) ==
  /\ stage[c] = "body" => Request(c).kind \notin Upgrades
  /\ stage[c] \in {"dialing", "sending"} =>
       /\ Request(c).kind \in Upgrades => serving[c] \in bypassed[c]
       /\ Request(c).kind = "llm" =>
            \/ Request(c).body = "whole" /\ serving[c] \in captured[c]
            \/ Request(c).body = "part" /\ agent[c] # "open"

UpstreamInv(c) ==
  upstream[c] # "none" => stage[c] \in {"tunnel", "sending", "awaiting", "relaying"}

ConnInv(c) ==
  RequestInv(c) /\ TurnInv(c) /\ AnswerInv(c) /\ OrderInv(c) /\ RecordInv(c)
    /\ ReportInv(c) /\ UpstreamInv(c)

IInv == ProxyType /\ \A c \in Conns : ConnInv(c)
-------------------------------------------------------------------------------
(* Facts about sequences. *)

LEMMA AppendFacts ==
  ASSUME NEW S, NEW q \in Seq(S), NEW e \in S
  PROVE  /\ Append(q, e) \in Seq(S)
         /\ Len(Append(q, e)) = Len(q) + 1
         /\ Append(q, e)[Len(q) + 1] = e
         /\ \A i \in 1 .. Len(q) : Append(q, e)[i] = q[i]
  OBVIOUS

LEMMA ReplaceFacts ==
  ASSUME NEW S, NEW q \in Seq(S), NEW n \in 1 .. Len(q), NEW e \in S
  PROVE  LET p == [q EXCEPT ![n] = e] IN
         /\ p \in Seq(S) /\ Len(p) = Len(q) /\ p[n] = e
         /\ \A i \in 1 .. Len(q) : i # n => p[i] = q[i]
  OBVIOUS

LEMMA ElementType ==
  ASSUME NEW S, NEW q \in Seq(S)
  PROVE  Len(q) \in Nat /\ \A n \in 1 .. Len(q) : q[n] \in S
  OBVIOUS

-------------------------------------------------------------------------------
(* What an action of one connection leaves alone. *)

LEMMA OthersUntouched ==
  ASSUME ProxyType, NEW c \in Conns, Environment(c) \/ Connect(c) \/ Pump(c),
         NEW d \in Conns, d # c
  PROVE  /\ agent'[d] = agent[d] /\ requests'[d] = requests[d] /\ stage'[d] = stage[d]
         /\ upstream'[d] = upstream[d] /\ received'[d] = received[d]
         /\ answers'[d] = answers[d] /\ serving'[d] = serving[d]
         /\ captured'[d] = captured[d] /\ bypassed'[d] = bypassed[d]
<1> USE DEF ProxyType, agentVars, recordVars, wireVars
<1>1. CASE WriteRequest(c)
  BY <1>1 DEF WriteRequest
<1>2. CASE WriteBody(c)
  BY <1>2 DEF WriteBody
<1>3. CASE AgentStops(c)
  BY <1>3 DEF AgentStops
<1>4. CASE OriginDies(c)
  BY <1>4 DEF OriginDies
<1>5. CASE HandleConnect(c)
  BY <1>5 DEF HandleConnect
<1>6. CASE DialTunnel(c)
  BY <1>6 DEF DialTunnel
<1>7. CASE TunnelEnds(c)
  BY <1>7 DEF TunnelEnds
<1>8. CASE Handshake(c)
  BY <1>8 DEF Handshake
<1>9. CASE ReadRequest(c)
  BY <1>9 DEF ReadRequest, Refuse
<1>10. CASE ReadEnd(c)
  BY <1>10 DEF ReadEnd
<1>11. CASE ReadBody(c)
  BY <1>11 DEF ReadBody
<1>12. CASE DialOrigin(c)
  BY <1>12 DEF DialOrigin, Refuse
<1>13. CASE Send(c)
  BY <1>13 DEF Send
<1>14. CASE SendFails(c)
  BY <1>14 DEF SendFails, Refuse
<1>15. CASE ReadResponse(c)
  BY <1>15 DEF ReadResponse
<1>16. CASE AwaitFails(c)
  BY <1>16 DEF AwaitFails, Refuse
<1>17. CASE FinishAnswer(c)
  BY <1>17 DEF FinishAnswer
<1>18. CASE FinishUpgrade(c)
  BY <1>18 DEF FinishUpgrade
<1>19. CASE RelayFails(c)
  BY <1>19 DEF RelayFails
<1> QED
  BY <1>1, <1>2, <1>3, <1>4, <1>5, <1>6, <1>7, <1>8, <1>9, <1>10, <1>11, <1>12, <1>13, <1>14, <1>15, <1>16, <1>17, <1>18, <1>19
  DEF Environment, Connect, Pump

-------------------------------------------------------------------------------
(* What the actions that lengthen or change a sequence do to it. *)

LEMMA WriteRequestEffect ==
  ASSUME ProxyType, NEW c \in Conns, WriteRequest(c)
  PROVE  \E r \in RequestType :
           /\ r.body = IF r.kind \in Upgrades THEN "whole" ELSE "part"
           /\ requests' = [requests EXCEPT ![c] = Append(requests[c], r)]
<1>1. PICK k \in Kinds, close \in BOOLEAN :
        requests' = [requests EXCEPT ![c] = Append(@,
          [kind |-> k, close |-> close, body |-> IF k \in Upgrades THEN "whole" ELSE "part"])]
  BY DEF WriteRequest
<1> DEFINE r == [kind |-> k, close |-> close, body |-> IF k \in Upgrades THEN "whole" ELSE "part"]
<1>2. r \in RequestType /\ r.body = IF r.kind \in Upgrades THEN "whole" ELSE "part"
  BY DEF RequestType, Bodies
<1>3. requests' = [requests EXCEPT ![c] = Append(requests[c], r)]
  BY <1>1
<1> QED
  BY <1>2, <1>3

LEMMA WriteBodyEffect ==
  ASSUME ProxyType, NEW c \in Conns, WriteBody(c)
  PROVE  LET n == Len(requests[c]) IN
         /\ n \in 1 .. Len(requests[c]) /\ requests[c][n].body # "whole"
         /\ \E r \in RequestType :
              /\ r.kind = requests[c][n].kind
              /\ \/ r.body = "prefix" /\ r.kind = "large"
                 \/ r.body = "whole"
              /\ requests' = [requests EXCEPT ![c] = [requests[c] EXCEPT ![n] = r]]
<1> DEFINE n == Len(requests[c])
<1>1. requests[c] \in Seq(RequestType) /\ requests[c] # << >>
  BY DEF ProxyType, WriteBody
<1>2. n \in 1 .. Len(requests[c])
  BY <1>1
<1>3. requests[c][n] \in RequestType
  BY <1>1, <1>2, ElementType
<1>4. PICK b \in Bodies :
        /\ \/ requests[c][n].body = "part" /\ requests[c][n].kind = "large" /\ b = "prefix"
           \/ requests[c][n].body = "part" /\ requests[c][n].kind # "large" /\ b = "whole"
           \/ requests[c][n].body = "prefix" /\ b = "whole"
        /\ requests' = [requests EXCEPT ![c] =
                          [requests[c] EXCEPT ![n] = [requests[c][n] EXCEPT !.body = b]]]
  BY DEF WriteBody, LastOf
<1> DEFINE r == [requests[c][n] EXCEPT !.body = b]
<1>5. r \in RequestType /\ r.kind = requests[c][n].kind /\ r.body = b
  BY <1>3 DEF RequestType
<1>6. requests' = [requests EXCEPT ![c] = [requests[c] EXCEPT ![n] = r]]
  BY <1>4
<1> HIDE DEF r
<1> QED
  BY <1>2, <1>4, <1>5, <1>6

LEMMA CompleteEffect ==
  ASSUME ProxyType, NEW c \in Conns, FinishAnswer(c) \/ FinishUpgrade(c), answers[c] # << >>
  PROVE  \E a \in AnswerType :
           /\ a.n = answers[c][Len(answers[c])].n
           /\ a.status = answers[c][Len(answers[c])].status /\ a.complete
           /\ answers' = [answers EXCEPT ![c] = [answers[c] EXCEPT ![Len(answers[c])] = a]]
<1> DEFINE n == Len(answers[c])
           a == [answers[c][n] EXCEPT !.complete = TRUE]
<1>1. answers[c] \in Seq(AnswerType) /\ n \in 1 .. Len(answers[c])
  BY DEF ProxyType
<1>2. answers[c][n] \in AnswerType
  BY <1>1, ElementType
<1>3. /\ a \in AnswerType /\ a.n = answers[c][n].n
      /\ a.status = answers[c][n].status /\ a.complete
  BY <1>2 DEF AnswerType
<1>4. answers' = [answers EXCEPT ![c] = [answers[c] EXCEPT ![n] = a]]
  BY DEF FinishAnswer, FinishUpgrade
<1> HIDE DEF a
<1> QED
  BY <1>3, <1>4

LEMMA RefuseEffect ==
  ASSUME ProxyType, NEW c \in Conns, NEW n \in Nat, NEW status \in {"426", "502"},
         Refuse(c, n, status)
  PROVE  /\ \E a \in AnswerType : a.n = n /\ answers' = [answers EXCEPT ![c] = Append(answers[c], a)]
         /\ stage' = [stage EXCEPT ![c] = "closed"]
         /\ upstream' = [upstream EXCEPT ![c] = "none"]
<1> DEFINE a == [n |-> n, status |-> status, complete |-> TRUE]
<1>1. a \in AnswerType /\ a.n = n
  BY DEF AnswerType
<1>2. answers' = [answers EXCEPT ![c] = Append(answers[c], a)]
  BY DEF Refuse
<1> HIDE DEF a
<1> QED
  BY <1>1, <1>2 DEF Refuse

LEMMA ReadResponseEffect ==
  ASSUME ProxyType, NEW c \in Conns, ReadResponse(c)
  PROVE  \E a \in AnswerType :
           /\ a.n = serving[c] /\ a.status = "origin"
           /\ answers' = [answers EXCEPT ![c] = Append(answers[c], a)]
<1> DEFINE a == [n |-> serving[c], status |-> "origin", complete |-> FALSE]
<1>1. a \in AnswerType /\ a.n = serving[c] /\ a.status = "origin"
  BY DEF AnswerType, ProxyType
<1>2. answers' = [answers EXCEPT ![c] = Append(answers[c], a)]
  BY DEF ReadResponse
<1> HIDE DEF a
<1> QED
  BY <1>1, <1>2

LEMMA SendEffect ==
  ASSUME ProxyType, NEW c \in Conns, Send(c)
  PROVE  \E m \in ReceivedType :
           /\ m.n = serving[c] /\ m.whole = (Request(c).body = "whole")
           /\ received' = [received EXCEPT ![c] = Append(received[c], m)]
<1> DEFINE m == [n |-> serving[c], whole |-> Request(c).body = "whole"]
<1>1. m \in ReceivedType /\ m.n = serving[c] /\ m.whole = (Request(c).body = "whole")
  BY DEF ReceivedType, ProxyType
<1>2. received' = [received EXCEPT ![c] = Append(received[c], m)]
  BY DEF Send
<1> HIDE DEF m
<1> QED
  BY <1>1, <1>2

-------------------------------------------------------------------------------

(* Nothing is connected yet. *)
LEMMA InitInv == Init => IInv
<1> SUFFICES ASSUME Init PROVE IInv
  OBVIOUS
<1>1. << >> \in Seq(RequestType) /\ << >> \in Seq(AnswerType) /\ << >> \in Seq(ReceivedType)
  OBVIOUS
<1>2. ProxyType
  BY <1>1 DEF Init, ProxyType, Stages
<1>3. ASSUME NEW c \in Conns PROVE ConnInv(c)
  BY DEF Init, ConnInv, RequestInv, TurnInv, Working, AnswerInv, OrderInv, RecordInv, ReportInv,
         UpstreamInv
<1> QED
  BY <1>2, <1>3 DEF IInv

LEMMA RefuseType ==
  ASSUME ProxyType, NEW c \in Conns, NEW n \in Nat, NEW status \in {"426", "502"},
         Refuse(c, n, status), UNCHANGED <<agentVars, received, captured>>,
         serving' \in [Conns -> Nat], bypassed' \in [Conns -> SUBSET Nat]
  PROVE  ProxyType'
<1>1. PICK a \in AnswerType : answers' = [answers EXCEPT ![c] = Append(answers[c], a)]
  BY RefuseEffect
<1>2. Append(answers[c], a) \in Seq(AnswerType)
  BY AppendFacts DEF ProxyType
<1> QED
  BY <1>1, <1>2, RefuseEffect DEF ProxyType, Stages, agentVars

LEMMA TypeStep ==
  ASSUME IInv, NEW c \in Conns, Environment(c) \/ Connect(c) \/ Pump(c)
  PROVE  ProxyType'
<1>0. ProxyType
  BY DEF IInv
<1> USE DEF ProxyType, Stages, agentVars, recordVars, wireVars
<1>1. CASE WriteRequest(c)
  <2>1. PICK r \in RequestType : requests' = [requests EXCEPT ![c] = Append(requests[c], r)]
    BY <1>0, <1>1, WriteRequestEffect
  <2>2. Append(requests[c], r) \in Seq(RequestType)
    BY <1>0, AppendFacts
  <2> QED
    BY <1>0, <1>1, <2>1, <2>2 DEF WriteRequest
<1>2. CASE WriteBody(c)
  <2> DEFINE n == Len(requests[c])
  <2>1. PICK r \in RequestType : requests' = [requests EXCEPT ![c] = [requests[c] EXCEPT ![n] = r]]
    BY <1>0, <1>2, WriteBodyEffect
  <2>2. n \in 1 .. Len(requests[c])
    BY <1>0, <1>2, WriteBodyEffect
  <2>3. [requests[c] EXCEPT ![n] = r] \in Seq(RequestType)
    BY <1>0, <2>2, ReplaceFacts
  <2> QED
    BY <1>0, <1>2, <2>1, <2>3 DEF WriteBody
<1>3. CASE AgentStops(c)
  BY <1>0, <1>3 DEF AgentStops
<1>4. CASE OriginDies(c)
  BY <1>0, <1>4 DEF OriginDies
<1>5. CASE HandleConnect(c)
  <2>0. bypassed[c] \subseteq Nat
    BY <1>0
  <2>1. bypassed[c] \union {0} \in SUBSET Nat
    BY <2>0
  <2>2. bypassed' \in [Conns -> SUBSET Nat]
    BY <1>0, <1>5, <2>1 DEF HandleConnect
  <2>3. stage' \in [Conns -> Stages]
    BY <1>0, <1>5 DEF HandleConnect
  <2> QED
    BY <1>0, <1>5, <2>2, <2>3 DEF HandleConnect
<1>6. CASE DialTunnel(c)
  BY <1>0, <1>6 DEF DialTunnel
<1>7. CASE TunnelEnds(c)
  BY <1>0, <1>7 DEF TunnelEnds
<1>8. CASE Handshake(c)
  BY <1>0, <1>8 DEF Handshake
<1>9. ASSUME NEW n \in Nat, NEW status \in {"426", "502"}, Refuse(c, n, status),
             UNCHANGED <<agentVars, received, captured>>,
             serving' \in [Conns -> Nat], bypassed' \in [Conns -> SUBSET Nat]
      PROVE  ProxyType'
  BY <1>0, <1>9, RefuseType
<1>10. CASE ReadRequest(c)
  <2>1. serving' \in [Conns -> Nat] /\ bypassed' \in [Conns -> SUBSET Nat] /\ serving[c] + 1 \in Nat
    <3>0. serving[c] + 1 \in Nat
      <4>1. serving[c] \in Nat
        BY <1>0
      <4> QED
        BY <4>1
    <3>1. bypassed[c] \union {serving[c] + 1} \in SUBSET Nat
      <4>1. bypassed[c] \subseteq Nat
        BY <1>0
      <4> QED
        BY <3>0, <4>1
    <3>2. serving' = [serving EXCEPT ![c] = serving[c] + 1]
          /\ \/ bypassed' = bypassed
             \/ bypassed' = [bypassed EXCEPT ![c] = bypassed[c] \union {serving[c] + 1}]
      BY <1>10 DEF ReadRequest
    <3> QED
      BY <1>0, <3>0, <3>1, <3>2
  <2>2. CASE Refuse(c, serving[c] + 1, "426")
    BY <1>9, <1>10, <2>1, <2>2 DEF ReadRequest
  <2>3. CASE ~Refuse(c, serving[c] + 1, "426")
    BY <1>0, <1>10, <2>1, <2>3 DEF ReadRequest
  <2> QED
    BY <2>2, <2>3
<1>11. CASE ReadEnd(c)
  BY <1>0, <1>11 DEF ReadEnd
<1>12. CASE ReadBody(c)
  BY <1>0, <1>12 DEF ReadBody
<1>13. CASE DialOrigin(c)
  <2>1. CASE Refuse(c, serving[c], "502")
    BY <1>0, <1>9, <1>13, <2>1 DEF DialOrigin
  <2>2. CASE ~Refuse(c, serving[c], "502")
    BY <1>0, <1>13, <2>2 DEF DialOrigin
  <2> QED
    BY <2>1, <2>2
<1>14. CASE Send(c)
  <2>1. PICK m \in ReceivedType : received' = [received EXCEPT ![c] = Append(received[c], m)]
    BY <1>0, <1>14, SendEffect
  <2>2. Append(received[c], m) \in Seq(ReceivedType)
    BY <1>0, AppendFacts
  <2> QED
    BY <1>0, <1>14, <2>1, <2>2 DEF Send
<1>15. CASE SendFails(c)
  BY <1>0, <1>9, <1>15 DEF SendFails
<1>16. CASE ReadResponse(c)
  <2>1. PICK a \in AnswerType : answers' = [answers EXCEPT ![c] = Append(answers[c], a)]
    BY <1>0, <1>16, ReadResponseEffect
  <2>2. Append(answers[c], a) \in Seq(AnswerType)
    BY <1>0, AppendFacts
  <2> QED
    BY <1>0, <1>16, <2>1, <2>2 DEF ReadResponse
<1>17. CASE AwaitFails(c)
  BY <1>0, <1>9, <1>17 DEF AwaitFails
<1>18. CASE FinishAnswer(c) \/ FinishUpgrade(c)
  <2>1. answers[c] # << >> /\ Len(answers[c]) \in 1 .. Len(answers[c])
    <3>1. answers[c] \in Seq(AnswerType) /\ Len(answers[c]) > 0
      BY <1>0, <1>18 DEF FinishAnswer, FinishUpgrade, IInv, ConnInv, TurnInv
    <3> QED
      BY <3>1
  <2>2. PICK a \in AnswerType :
          answers' = [answers EXCEPT ![c] = [answers[c] EXCEPT ![Len(answers[c])] = a]]
    BY <1>0, <1>18, <2>1, CompleteEffect
  <2>3. [answers[c] EXCEPT ![Len(answers[c])] = a] \in Seq(AnswerType)
    BY <1>0, <2>1, ReplaceFacts
  <2>4. answers' \in [Conns -> Seq(AnswerType)]
    BY <1>0, <2>2, <2>3
  <2>5. stage' \in [Conns -> Stages] /\ upstream' \in [Conns -> {"none", "open", "dead"}]
    BY <1>0, <1>18 DEF FinishAnswer, FinishUpgrade
  <2> QED
    BY <1>0, <1>18, <2>4, <2>5 DEF FinishAnswer, FinishUpgrade
<1>19. CASE RelayFails(c)
  BY <1>0, <1>19 DEF RelayFails
<1> QED
  BY <1>1, <1>2, <1>3, <1>4, <1>5, <1>6, <1>7, <1>8, <1>10, <1>11, <1>12, <1>13, <1>14, <1>15,
     <1>16, <1>17, <1>18, <1>19
  DEF Environment, Connect, Pump

(* The actions that touch neither sequence of the connection. *)
LEMMA PlainStep ==
  ASSUME IInv, NEW c \in Conns,
         \/ AgentStops(c) \/ OriginDies(c) \/ Connect(c) \/ ReadEnd(c) \/ RelayFails(c)
  PROVE  ConnInv(c)'
<1>0. ProxyType /\ ConnInv(c)
  BY DEF IInv
<1> USE DEF ProxyType, ConnInv, RequestInv, TurnInv, Working, AnswerInv, OrderInv, RecordInv,
            ReportInv, UpstreamInv, Request, agentVars, recordVars, wireVars
<1>1. CASE AgentStops(c)
  BY <1>0, <1>1 DEF AgentStops
<1>2. CASE OriginDies(c)
  BY <1>0, <1>2 DEF OriginDies
<1>3. CASE HandleConnect(c)
  <2>1. /\ stage[c] = "accepted"
        /\ stage'[c] \in {"dialing tunnel", "handshake", "closed"}
    BY <1>0, <1>3 DEF HandleConnect
  <2>2. UNCHANGED <<agent, requests, received, answers, captured, upstream, serving>>
    BY <1>3 DEF HandleConnect
  <2>3. bypassed[c] \subseteq bypassed'[c]
    <3>1. \/ bypassed' = bypassed
          \/ bypassed' = [bypassed EXCEPT ![c] = bypassed[c] \union {0}]
      BY <1>3 DEF HandleConnect
    <3>2. bypassed = [d \in Conns |-> bypassed[d]]
      BY <1>0
    <3> QED
      BY <3>1, <3>2
  <2> QED
    BY <1>0, <2>1, <2>2, <2>3
<1>4. CASE DialTunnel(c)
  <2>1. /\ stage[c] = "dialing tunnel" /\ stage'[c] \in {"tunnel", "closed"}
        /\ upstream'[c] = "none" \/ stage'[c] = "tunnel"
    BY <1>0, <1>4 DEF DialTunnel
  <2>2. UNCHANGED <<agent, requests, received, answers, captured, bypassed, serving>>
    BY <1>4 DEF DialTunnel
  <2> QED
    BY <1>0, <2>1, <2>2
<1>5. CASE TunnelEnds(c)
  BY <1>0, <1>5 DEF TunnelEnds
<1>6. CASE Handshake(c)
  BY <1>0, <1>6 DEF Handshake
<1>7. CASE ReadEnd(c)
  BY <1>0, <1>7 DEF ReadEnd
<1>8. CASE RelayFails(c)
  BY <1>0, <1>8 DEF RelayFails
<1> QED
  BY <1>1, <1>2, <1>3, <1>4, <1>5, <1>6, <1>7, <1>8 DEF Connect

(* An answer of the proxy's own is the last one. *)
LEMMA RefuseStep ==
  ASSUME IInv, NEW c \in Conns, NEW n \in Nat, NEW status \in {"426", "502"},
         Refuse(c, n, status), stage[c] = "idle" \/ Working(c),
         n = Len(answers[c]) + 1, n <= Len(requests[c]), serving'[c] = n,
         UNCHANGED <<agentVars, recordVars, received>>
  PROVE  ConnInv(c)'
<1>0. ProxyType /\ ConnInv(c)
  BY DEF IInv
<1>1. PICK a \in AnswerType : a.n = n /\ answers' = [answers EXCEPT ![c] = Append(answers[c], a)]
  BY <1>0, RefuseEffect
<1>2. stage'[c] = "closed" /\ upstream'[c] = "none"
  BY <1>0, RefuseEffect DEF ProxyType
<1>3. /\ answers'[c] = Append(answers[c], a) /\ answers[c] \in Seq(AnswerType)
      /\ Len(answers[c]) \in Nat /\ Len(received[c]) \in Nat /\ Len(requests[c]) \in Nat
      /\ serving[c] \in Nat
  BY <1>0, <1>1 DEF ProxyType
<1>4. /\ Len(answers'[c]) = Len(answers[c]) + 1 /\ answers'[c][n] = a
      /\ \A i \in 1 .. Len(answers[c]) : answers'[c][i] = answers[c][i]
  BY <1>3, AppendFacts
<1>5. serving[c] <= n
  <2>1. TurnInv(c)
    BY <1>0 DEF ConnInv
  <2>2. Len(answers[c]) = serving[c] \/ Len(answers[c]) + 1 = serving[c]
    BY <2>1 DEF TurnInv
  <2> QED
    BY <1>3, <2>2
<1>6. requests' = requests /\ received' = received /\ captured' = captured /\ bypassed' = bypassed
  BY DEF agentVars, recordVars
<1>7. RequestInv(c)' /\ ReportInv(c)' /\ UpstreamInv(c)'
  BY <1>0, <1>2, <1>6 DEF ConnInv, RequestInv, ReportInv, UpstreamInv
<1>8. TurnInv(c)'
  BY <1>2, <1>6 DEF TurnInv, Working
<1>9. AnswerInv(c)'
  BY <1>0, <1>1, <1>2, <1>3, <1>4 DEF ConnInv, AnswerInv, Working
<1>10. OrderInv(c)'
  BY <1>0, <1>2, <1>3, <1>5, <1>6 DEF ConnInv, OrderInv
<1>11. RecordInv(c)'
  BY <1>0, <1>3, <1>5, <1>6 DEF ConnInv, RecordInv
<1> QED
  BY <1>7, <1>8, <1>9, <1>10, <1>11 DEF ConnInv

LEMMA ReadRequestStep == ASSUME IInv, NEW c \in Conns, ReadRequest(c) PROVE ConnInv(c)'
<1>0. ProxyType /\ ConnInv(c)
  BY DEF IInv
<1> DEFINE n == serving[c] + 1
<1>1. /\ stage[c] = "idle" /\ serving[c] < Len(requests[c]) /\ serving'[c] = n
      /\ Len(answers[c]) = serving[c] /\ serving[c] \in Nat /\ Len(requests[c]) \in Nat
      /\ Len(received[c]) \in Nat
      /\ UNCHANGED <<agent, requests, captured, received>>
  BY <1>0 DEF ReadRequest, ProxyType, ConnInv, TurnInv, agentVars
<1>2. CASE Refuse(c, n, "426") /\ UNCHANGED bypassed
  BY <1>1, <1>2, RefuseStep DEF agentVars, recordVars
<1>3. CASE /\ stage'[c] \in {"body", "dialing"} /\ UNCHANGED <<answers, upstream>>
           /\ bypassed[c] \subseteq bypassed'[c]
           /\ stage'[c] = "body" => requests[c][n].kind \notin Upgrades
           /\ stage'[c] = "dialing" => requests[c][n].kind = "realtime" /\ n \in bypassed'[c]
  <2>0. RequestInv(c)'
    BY <1>0, <1>1, <1>3 DEF ConnInv, RequestInv
  <2>1. UpstreamInv(c)'
    BY <1>0, <1>1, <1>3 DEF ConnInv, UpstreamInv
  <2>6. TurnInv(c)'
    <3>1. /\ stage'[c] \in {"body", "dialing"}
          /\ requests'[c] = requests[c] /\ answers'[c] = answers[c] /\ serving'[c] = n
          /\ n > 0 /\ n <= Len(requests[c]) /\ Len(answers[c]) + 1 = n
      BY <1>1, <1>3
    <3> HIDE DEF n
    <3> QED
      BY <3>1 DEF TurnInv, Working
  <2>5. ReportInv(c)'
    BY <1>1, <1>3 DEF ReportInv, Request, Upgrades
  <2>2. AnswerInv(c)'
    BY <1>0, <1>1, <1>3 DEF ConnInv, AnswerInv, Working
  <2>3. OrderInv(c)'
    BY <1>0, <1>1, <1>3 DEF ConnInv, OrderInv
  <2>4. RecordInv(c)'
    BY <1>0, <1>1, <1>3 DEF ConnInv, RecordInv
  <2> QED
    BY <2>0, <2>1, <2>2, <2>3, <2>4, <2>5, <2>6 DEF ConnInv
<1>4. CASE /\ requests[c][n].kind = "realtime"
           /\ bypassed' = [bypassed EXCEPT ![c] = bypassed[c] \union {n}]
           /\ stage' = [stage EXCEPT ![c] = "dialing"]
           /\ UNCHANGED <<answers, upstream>>
  <2>1. stage'[c] = "dialing" /\ bypassed'[c] = bypassed[c] \union {n}
    BY <1>0, <1>4 DEF ProxyType
  <2> QED
    BY <1>3, <1>4, <2>1
<1>5. CASE /\ requests[c][n].kind \notin Upgrades
           /\ stage' = [stage EXCEPT ![c] = "body"]
           /\ UNCHANGED <<answers, upstream, bypassed>>
  <2>1. stage'[c] = "body"
    BY <1>0, <1>5 DEF ProxyType
  <2> QED
    BY <1>3, <1>5, <2>1
<1> QED
  BY <1>2, <1>4, <1>5 DEF ReadRequest

LEMMA ReadBodyStep == ASSUME IInv, NEW c \in Conns, ReadBody(c) PROVE ConnInv(c)'
<1>0. ProxyType /\ ConnInv(c)
  BY DEF IInv
<1>1. /\ stage[c] = "body" /\ BodyRead(c) /\ stage'[c] = "dialing"
      /\ captured'[c] = IF Parses(c) THEN captured[c] \union {serving[c]} ELSE captured[c]
      /\ UNCHANGED <<agent, requests, bypassed, received, answers, upstream, serving>>
  BY <1>0 DEF ReadBody, ProxyType, agentVars, wireVars
<1>2. serving[c] \in 1 .. Len(requests[c]) /\ requests[c] \in Seq(RequestType)
  BY <1>0, <1>1 DEF ProxyType, ConnInv, TurnInv, Working
<1>3. requests[c][serving[c]] \in RequestType
  BY <1>2, ElementType
<1>4. RequestInv(c)' /\ UpstreamInv(c)' /\ TurnInv(c)'
  BY <1>0, <1>1 DEF ConnInv, RequestInv, UpstreamInv, TurnInv, Working
<1>5. ReportInv(c)'
  <2>1. Request(c).body = "part" \/ Request(c).body = "whole" \/ Request(c).body = "prefix"
    BY <1>3 DEF RequestType, Bodies, Request
  <2>2. Request(c).kind = "llm" => Request(c).body # "prefix"
    BY <1>0, <1>2 DEF ConnInv, RequestInv, Request
  <2> QED
    BY <1>0, <1>1, <2>1, <2>2 DEF ConnInv, ReportInv, BodyRead, Parses, Request
<1>6. AnswerInv(c)' /\ OrderInv(c)'
  BY <1>0, <1>1 DEF ConnInv, AnswerInv, OrderInv, Working
<1>7. RecordInv(c)'
  BY <1>0, <1>1, <1>2 DEF ConnInv, RecordInv, Parses, Request
<1> QED
  BY <1>4, <1>5, <1>6, <1>7 DEF ConnInv

LEMMA DialOriginStep == ASSUME IInv, NEW c \in Conns, DialOrigin(c) PROVE ConnInv(c)'
<1>0. ProxyType /\ ConnInv(c)
  BY DEF IInv
<1>1. /\ stage[c] = "dialing" /\ serving' = serving
      /\ UNCHANGED <<agent, requests, captured, bypassed, received>>
  BY DEF DialOrigin, agentVars, recordVars
<1>2. CASE Refuse(c, serving[c], "502")
  <2>1. /\ Working(c) /\ serving[c] = Len(answers[c]) + 1 /\ serving[c] <= Len(requests[c])
        /\ serving[c] \in Nat
    BY <1>0, <1>1 DEF Working, ConnInv, TurnInv, ProxyType
  <2> QED
    BY <1>1, <1>2, <2>1, RefuseStep DEF agentVars, recordVars
<1>3. CASE /\ stage' = [stage EXCEPT ![c] = "sending"]
           /\ upstream' = [upstream EXCEPT ![c] = "open"]
           /\ UNCHANGED answers
  <2>1. stage'[c] = "sending"
    BY <1>0, <1>3 DEF ProxyType
  <2>2. RequestInv(c)' /\ UpstreamInv(c)' /\ ReportInv(c)'
    BY <1>0, <1>1, <2>1 DEF ConnInv, RequestInv, UpstreamInv, ReportInv, Request
  <2>4. TurnInv(c)'
    BY <1>0, <1>1, <1>3, <2>1 DEF ConnInv, TurnInv, Working
  <2>3. AnswerInv(c)' /\ OrderInv(c)' /\ RecordInv(c)'
    BY <1>0, <1>1, <1>3, <2>1 DEF ConnInv, AnswerInv, OrderInv, RecordInv, Working
  <2> QED
    BY <2>2, <2>3, <2>4 DEF ConnInv
<1> QED
  BY <1>2, <1>3 DEF DialOrigin

LEMMA SendStep == ASSUME IInv, NEW c \in Conns, Send(c) PROVE ConnInv(c)'
<1>0. ProxyType /\ ConnInv(c)
  BY DEF IInv
<1>1. /\ stage[c] = "sending" /\ Request(c).body # "prefix" /\ stage'[c] = "awaiting"
      /\ UNCHANGED <<agent, requests, captured, bypassed, answers, upstream, serving>>
  BY <1>0 DEF Send, ProxyType, agentVars, recordVars
<1>2. PICK m \in ReceivedType :
        /\ m.n = serving[c] /\ m.whole = (Request(c).body = "whole")
        /\ received' = [received EXCEPT ![c] = Append(received[c], m)]
  BY <1>0, SendEffect
<1>3. /\ received'[c] = Append(received[c], m) /\ received[c] \in Seq(ReceivedType)
      /\ Len(received[c]) \in Nat /\ serving[c] \in Nat /\ serving[c] > 0
      /\ requests[c] \in Seq(RequestType)
  BY <1>0, <1>1, <1>2 DEF ProxyType, ConnInv, TurnInv, Working
<1>4. /\ Len(received'[c]) = Len(received[c]) + 1 /\ received'[c][Len(received[c]) + 1] = m
      /\ \A i \in 1 .. Len(received[c]) : received'[c][i] = received[c][i]
  BY <1>3, AppendFacts
<1>5. RequestInv(c)' /\ UpstreamInv(c)' /\ TurnInv(c)' /\ ReportInv(c)'
  BY <1>0, <1>1 DEF ConnInv, RequestInv, UpstreamInv, TurnInv, Working, ReportInv
<1>6. AnswerInv(c)'
  BY <1>0, <1>1 DEF ConnInv, AnswerInv, Working
<1>7. OrderInv(c)'
  BY <1>0, <1>1, <1>2, <1>3, <1>4 DEF ConnInv, OrderInv
<1>8. RecordInv(c)'
  <2>1. /\ m.whole /\ requests[c][m.n].kind = "llm" => m.n \in captured[c]
        /\ requests[c][m.n].kind \in Upgrades => m.n \in bypassed[c]
    <3>1. ReportInv(c)
      BY <1>0 DEF ConnInv
    <3>2. Request(c) = requests[c][m.n]
      BY <1>2 DEF Request
    <3> QED
      BY <1>1, <1>2, <3>1, <3>2 DEF ReportInv
  <2>2. \A i \in 1 .. Len(received'[c]) :
          i \in 1 .. Len(received[c]) \/ i = Len(received[c]) + 1
    BY <1>3, <1>4
  <2>3. RecordInv(c)
    BY <1>0 DEF ConnInv
  <2> QED
    BY <1>1, <1>4, <2>1, <2>2, <2>3 DEF RecordInv
<1> QED
  BY <1>5, <1>6, <1>7, <1>8 DEF ConnInv

LEMMA FailStep ==
  ASSUME IInv, NEW c \in Conns, SendFails(c) \/ AwaitFails(c)
  PROVE  ConnInv(c)'
<1>0. ProxyType /\ ConnInv(c)
  BY DEF IInv
<1>1. /\ stage[c] \in {"sending", "awaiting"} /\ serving' = serving
      /\ Refuse(c, serving[c], "502") /\ UNCHANGED <<agentVars, recordVars, received>>
  BY DEF SendFails, AwaitFails
<1>2. /\ Working(c) /\ serving[c] = Len(answers[c]) + 1 /\ serving[c] <= Len(requests[c])
      /\ serving[c] \in Nat
  BY <1>0, <1>1 DEF Working, ConnInv, TurnInv, ProxyType
<1> QED
  BY <1>1, <1>2, RefuseStep

LEMMA ReadResponseStep == ASSUME IInv, NEW c \in Conns, ReadResponse(c) PROVE ConnInv(c)'
<1>0. ProxyType /\ ConnInv(c)
  BY DEF IInv
<1>1. /\ stage[c] = "awaiting" /\ stage'[c] = "relaying"
      /\ UNCHANGED <<agent, requests, captured, bypassed, received, upstream, serving>>
  BY <1>0 DEF ReadResponse, ProxyType, agentVars, recordVars
<1>2. PICK a \in AnswerType :
        /\ a.n = serving[c] /\ a.status = "origin"
        /\ answers' = [answers EXCEPT ![c] = Append(answers[c], a)]
  BY <1>0, ReadResponseEffect
<1>3. /\ answers'[c] = Append(answers[c], a) /\ answers[c] \in Seq(AnswerType)
      /\ Len(answers[c]) \in Nat /\ serving[c] = Len(answers[c]) + 1
  BY <1>0, <1>1, <1>2 DEF ProxyType, ConnInv, TurnInv, Working
<1>4. /\ Len(answers'[c]) = Len(answers[c]) + 1 /\ answers'[c][Len(answers[c]) + 1] = a
      /\ \A i \in 1 .. Len(answers[c]) : answers'[c][i] = answers[c][i]
  BY <1>3, AppendFacts
<1>5. RequestInv(c)' /\ UpstreamInv(c)' /\ ReportInv(c)'
  BY <1>0, <1>1 DEF ConnInv, RequestInv, UpstreamInv, ReportInv
<1>6. TurnInv(c)'
  BY <1>0, <1>1, <1>3, <1>4 DEF ConnInv, TurnInv, Working
<1>7. AnswerInv(c)'
  BY <1>0, <1>1, <1>2, <1>3, <1>4 DEF ConnInv, AnswerInv, Working
<1>8. OrderInv(c)' /\ RecordInv(c)'
  BY <1>0, <1>1 DEF ConnInv, OrderInv, RecordInv
<1> QED
  BY <1>5, <1>6, <1>7, <1>8 DEF ConnInv

LEMMA FinishStep ==
  ASSUME IInv, NEW c \in Conns, FinishAnswer(c) \/ FinishUpgrade(c)
  PROVE  ConnInv(c)'
<1>0. ProxyType /\ ConnInv(c)
  BY DEF IInv
<1> DEFINE n == Len(answers[c])
<1>1. /\ stage[c] = "relaying" /\ stage'[c] \in {"idle", "closed", "tunnel"}
      /\ stage'[c] = "tunnel" \/ upstream'[c] = "none"
      /\ UNCHANGED <<agent, requests, captured, bypassed, received, serving>>
  BY <1>0 DEF FinishAnswer, FinishUpgrade, ProxyType, agentVars, recordVars
<1>2. answers[c] \in Seq(AnswerType) /\ n \in 1 .. n /\ answers[c] # << >> /\ n = serving[c]
  <2>1. answers[c] \in Seq(AnswerType) /\ n = serving[c] /\ serving[c] > 0 /\ serving[c] \in Nat
    BY <1>0, <1>1 DEF ProxyType, ConnInv, TurnInv
  <2> QED
    BY <2>1
<1>3. PICK a \in AnswerType :
        /\ a.n = answers[c][n].n /\ a.status = answers[c][n].status /\ a.complete
        /\ answers' = [answers EXCEPT ![c] = [answers[c] EXCEPT ![n] = a]]
  BY <1>0, <1>2, CompleteEffect
<1>4. answers'[c] = [answers[c] EXCEPT ![n] = a]
  BY <1>0, <1>3 DEF ProxyType
<1>5. /\ Len(answers'[c]) = n /\ answers'[c][n] = a
      /\ \A i \in 1 .. n : i # n => answers'[c][i] = answers[c][i]
  BY <1>2, <1>4, ReplaceFacts
<1>6. RequestInv(c)' /\ UpstreamInv(c)' /\ ReportInv(c)'
  BY <1>0, <1>1 DEF ConnInv, RequestInv, UpstreamInv, ReportInv
<1>7. TurnInv(c)'
  BY <1>0, <1>1, <1>2, <1>5 DEF ConnInv, TurnInv, Working
<1>8. AnswerInv(c)'
  BY <1>0, <1>1, <1>2, <1>3, <1>5 DEF ConnInv, AnswerInv, Working
<1>9. OrderInv(c)' /\ RecordInv(c)'
  BY <1>0, <1>1 DEF ConnInv, OrderInv, RecordInv
<1> QED
  BY <1>6, <1>7, <1>8, <1>9 DEF ConnInv

(* The agent's writes, while pump is on an earlier request or on this one. *)
LEMMA WriteRequestStep == ASSUME IInv, NEW c \in Conns, WriteRequest(c) PROVE ConnInv(c)'
<1>0. ProxyType /\ ConnInv(c)
  BY DEF IInv
<1>1. UNCHANGED <<agent, captured, bypassed, received, answers, upstream, stage, serving>>
  BY DEF WriteRequest, recordVars, wireVars
<1>2. PICK r \in RequestType :
        /\ r.body = IF r.kind \in Upgrades THEN "whole" ELSE "part"
        /\ requests' = [requests EXCEPT ![c] = Append(requests[c], r)]
  BY <1>0, WriteRequestEffect
<1>3. /\ requests'[c] = Append(requests[c], r) /\ requests[c] \in Seq(RequestType)
      /\ Len(requests[c]) \in Nat /\ serving[c] \in Nat
  BY <1>0, <1>2 DEF ProxyType
<1>11. TurnInv(c) /\ serving[c] <= Len(requests[c])
  BY <1>0 DEF ConnInv, TurnInv
<1>4. /\ Len(requests'[c]) = Len(requests[c]) + 1 /\ requests'[c][Len(requests[c]) + 1] = r
      /\ \A i \in 1 .. Len(requests[c]) : requests'[c][i] = requests[c][i]
  BY <1>3, AppendFacts
<1>5. \A i \in 1 .. serving[c] : requests'[c][i] = requests[c][i]
  BY <1>3, <1>4, <1>11
<1>6. RequestInv(c)'
  BY <1>0, <1>2, <1>3, <1>4 DEF ConnInv, RequestInv
<1>7. TurnInv(c)'
  <2>1. serving'[c] <= Len(requests'[c])
    BY <1>1, <1>3, <1>4, <1>11
  <2> QED
    BY <1>1, <1>11, <2>1 DEF TurnInv, Working
<1>8. AnswerInv(c)' /\ OrderInv(c)' /\ UpstreamInv(c)'
  BY <1>0, <1>1 DEF ConnInv, AnswerInv, OrderInv, UpstreamInv, Working
<1>9. RecordInv(c)'
  BY <1>0, <1>1, <1>5 DEF ConnInv, RecordInv, OrderInv
<1>10. ReportInv(c)'
  <2>1. Working(c) => Request(c)' = Request(c)
    <3>1. Working(c) => serving[c] > 0
      BY <1>11, Zenon DEF TurnInv
    <3>2. serving[c] > 0 => serving[c] \in 1 .. serving[c]
      BY <1>3
    <3> QED
      BY <1>1, <1>5, <3>1, <3>2 DEF Request
  <2> QED
    BY <1>0, <1>1, <2>1 DEF ConnInv, ReportInv, Working
<1> QED
  BY <1>6, <1>7, <1>8, <1>9, <1>10 DEF ConnInv

LEMMA WriteBodyStep == ASSUME IInv, NEW c \in Conns, WriteBody(c) PROVE ConnInv(c)'
<1>0. ProxyType /\ ConnInv(c)
  BY DEF IInv
<1> DEFINE n == Len(requests[c])
<1>1. /\ agent[c] = "open"
      /\ UNCHANGED <<agent, captured, bypassed, received, answers, upstream, stage, serving>>
  BY DEF WriteBody, recordVars, wireVars
<1>2. n \in 1 .. Len(requests[c]) /\ requests[c][n].body # "whole"
  BY <1>0, WriteBodyEffect
<1>3. PICK r \in RequestType :
        /\ r.kind = requests[c][n].kind
        /\ \/ r.body = "prefix" /\ r.kind = "large"
           \/ r.body = "whole"
        /\ requests' = [requests EXCEPT ![c] = [requests[c] EXCEPT ![n] = r]]
  BY <1>0, WriteBodyEffect
<1>4. /\ requests'[c] = [requests[c] EXCEPT ![n] = r] /\ requests[c] \in Seq(RequestType)
      /\ serving[c] \in Nat /\ serving[c] <= Len(requests[c])
  BY <1>0, <1>3 DEF ProxyType, ConnInv, TurnInv
<1>5. /\ Len(requests'[c]) = n /\ requests'[c][n] = r
      /\ \A i \in 1 .. n : i # n => requests'[c][i] = requests[c][i]
  BY <1>2, <1>4, ReplaceFacts
<1>6. /\ \A i \in 1 .. n : requests'[c][i].kind = requests[c][i].kind
      /\ \A i \in 1 .. n : requests[c][i].body = "whole" => requests'[c][i] = requests[c][i]
  BY <1>2, <1>3, <1>5
<1>7. RequestInv(c)'
  BY <1>0, <1>3, <1>5, <1>6 DEF ConnInv, RequestInv, Upgrades
<1>8. TurnInv(c)'
  BY <1>0, <1>1, <1>5 DEF ConnInv, TurnInv, Working
<1>9. AnswerInv(c)' /\ OrderInv(c)' /\ UpstreamInv(c)'
  BY <1>0, <1>1 DEF ConnInv, AnswerInv, OrderInv, UpstreamInv, Working
<1>10. \A i \in 1 .. serving[c] : i \in 1 .. n
  BY <1>4
<1>11. RecordInv(c)'
  BY <1>0, <1>1, <1>6, <1>10 DEF ConnInv, RecordInv, OrderInv
<1>12. ReportInv(c)'
  <2>1. Working(c) => serving[c] \in 1 .. n
    <3>1. TurnInv(c)
      BY <1>0 DEF ConnInv
    <3>2. Working(c) => serving[c] > 0
      BY <3>1, Zenon DEF TurnInv
    <3>3. serving[c] > 0 => serving[c] \in 1 .. n
      BY <1>2, <1>4
    <3> QED
      BY <3>2, <3>3
  <2> QED
    BY <1>0, <1>1, <1>6, <2>1 DEF ConnInv, ReportInv, Working, Request
<1> QED
  BY <1>7, <1>8, <1>9, <1>11, <1>12 DEF ConnInv

-------------------------------------------------------------------------------

LEMMA InvStep == IInv /\ [Next]_vars => IInv'
<1> SUFFICES ASSUME IInv, [Next]_vars PROVE IInv'
  OBVIOUS
<1>1. ASSUME NEW c \in Conns, Environment(c) \/ Connect(c) \/ Pump(c)
      PROVE  IInv'
  <2>1. ProxyType'
    BY <1>1, TypeStep
  <2>2. ConnInv(c)'
    BY <1>1, PlainStep, WriteRequestStep, WriteBodyStep, ReadRequestStep, ReadBodyStep,
       DialOriginStep, SendStep, FailStep, ReadResponseStep, FinishStep
    DEF Environment, Pump
  <2>3. ASSUME NEW d \in Conns, d # c PROVE ConnInv(d)'
    <3>1. /\ agent'[d] = agent[d] /\ requests'[d] = requests[d] /\ stage'[d] = stage[d]
          /\ upstream'[d] = upstream[d] /\ received'[d] = received[d]
          /\ answers'[d] = answers[d] /\ serving'[d] = serving[d]
          /\ captured'[d] = captured[d] /\ bypassed'[d] = bypassed[d]
      BY <1>1, <2>3, OthersUntouched DEF IInv
    <3>2. ConnInv(d)
      BY DEF IInv
    <3>3. RequestInv(d)' /\ AnswerInv(d)'
      BY <3>1, <3>2 DEF ConnInv, RequestInv, AnswerInv, Working
    <3>6. TurnInv(d)'
      BY <3>1, <3>2 DEF ConnInv, TurnInv, Working
    <3>4. OrderInv(d)' /\ RecordInv(d)' /\ UpstreamInv(d)'
      BY <3>1, <3>2 DEF ConnInv, OrderInv, RecordInv, UpstreamInv
    <3>5. ReportInv(d)'
      BY <3>1, <3>2 DEF ConnInv, ReportInv, Request
    <3> QED
      BY <3>3, <3>4, <3>5, <3>6 DEF ConnInv
  <2> QED
    BY <2>1, <2>2, <2>3 DEF IInv
<1>2. CASE UNCHANGED vars
  <2>1. UNCHANGED <<agent, requests, stage, upstream, received, answers, serving, captured, bypassed>>
    BY <1>2 DEF vars, agentVars, recordVars, wireVars
  <2>2. ProxyType'
    BY <2>1 DEF IInv, ProxyType
  <2>3. ASSUME NEW c \in Conns PROVE ConnInv(c)'
    <3>1. ConnInv(c)
      BY DEF IInv
    <3>2. RequestInv(c)' /\ AnswerInv(c)' /\ OrderInv(c)'
      BY <2>1, <3>1 DEF ConnInv, RequestInv, AnswerInv, OrderInv, Working
    <3>3. TurnInv(c)'
      BY <2>1, <3>1 DEF ConnInv, TurnInv, Working
    <3>4. RecordInv(c)' /\ ReportInv(c)' /\ UpstreamInv(c)'
      BY <2>1, <3>1 DEF ConnInv, RecordInv, ReportInv, UpstreamInv, Request
    <3> QED
      BY <3>2, <3>3, <3>4 DEF ConnInv
  <2> QED
    BY <2>2, <2>3 DEF IInv
<1> QED
  BY <1>1, <1>2 DEF Next

LEMMA Inductive == Spec => []IInv
  BY InitInv, InvStep, PTL DEF Spec

(* The i-th answer on a kept-alive connection is the answer to the i-th request,
   and nothing follows a refusal or an answer that was cut short. *)
THEOREM AnswersMatch == Spec => []AnswersMatchRequests
<1>1. IInv => AnswersMatchRequests
  BY DEF IInv, ConnInv, AnswerInv, AnswersMatchRequests
<1> QED
  BY <1>1, Inductive, PTL

(* No request reaches the origin twice or out of order. *)
THEOREM NothingIsReplayed == Spec => []NeverReplayed
<1>1. IInv => NeverReplayed
  BY DEF IInv, ConnInv, OrderInv, NeverReplayed
<1> QED
  BY <1>1, Inductive, PTL

(* What reaches the origin was recorded or reported before, and what was recorded
   had been read to its end. *)
THEOREM EvidenceComplete == Spec => []EvidenceIsComplete
<1>1. IInv => EvidenceIsComplete
  BY DEF IInv, ConnInv, RecordInv, EvidenceIsComplete
<1> QED
  BY <1>1, Inductive, PTL

(* An upstream connection is held only while its request or tunnel is in progress. *)
THEOREM UpstreamIsReleased == Spec => []NoUpstreamLeaks
<1>1. IInv => NoUpstreamLeaks
  BY DEF IInv, ConnInv, UpstreamInv, NoUpstreamLeaks
<1> QED
  BY <1>1, Inductive, PTL

===============================================================================
