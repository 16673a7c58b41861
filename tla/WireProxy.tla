------------------------------- MODULE WireProxy -------------------------------
(***************************************************************************)
(* The Go proxy behind the NetworkExtension (wire.Proxy): a CONNECT is     *)
(* tunnelled opaquely, or answered 200 and TLS-terminated, whereupon pump  *)
(* takes the agent's requests one by one, records what it can parse,       *)
(* replays each over a fresh upstream connection and streams the answer    *)
(* back.  One goroutine serves one connection; agents and origins write,   *)
(* stop and vanish at any point.                                           *)
(*                                                                         *)
(* A request is its kind and how much of its body the agent has written;   *)
(* its bytes matter only in whether the origin is sent all of them.  The   *)
(* policy's decision and the handshake's outcome are StableCA's subject    *)
(* and open here.                                                          *)
(***************************************************************************)
EXTENDS Naturals, Sequences

CONSTANTS
  Conns,          \* CONNECTs accepted by the proxy
  MaxRequests     \* bound of the model: requests written on one of them

ASSUME ProxyAssumption == MaxRequests \in Nat

(* What an agent may send: a small body that parses or does not, a body above
   maxParseBody, an upgrade with an HTTP fallback and one without. *)
Upgrades == {"responses", "realtime"}
Kinds    == {"llm", "other", "large"} \union Upgrades

(* "part" fits maxParseBody, "prefix" exceeds it and is not yet the end. *)
Bodies == {"part", "prefix", "whole"}

Stages == {"accepted", "dialing tunnel", "tunnel", "handshake", "idle", "body",
           "dialing", "sending", "awaiting", "relaying", "closed"}

VARIABLES
  agent,          \* "open"; "ended": wrote its last byte; "gone": closed
  requests,       \* what the agent has written
  stage,          \* where handleConnect is
  grant,          \* its answer to the CONNECT
  upstream,       \* the connection to the origin: none, open or dead
  received,       \* history: requests the origin took for complete
  answers,        \* what the agent was sent, by request
  serving,        \* the request pump is on
  hangup,         \* resp.Close of the answer being relayed
  captured,       \* history: requests given to OnCapture
  bypassed        \* history: what was reported to OnBypass

agentVars  == <<agent, requests>>
recordVars == <<captured, bypassed>>
wireVars   == <<received, answers, grant>>
vars       == <<agentVars, recordVars, wireVars, stage, upstream, serving, hangup>>

Init ==
  /\ agent    = [c \in Conns |-> "open"]
  /\ requests = [c \in Conns |-> << >>]
  /\ stage    = [c \in Conns |-> "accepted"]
  /\ grant    = [c \in Conns |-> "none"]
  /\ upstream = [c \in Conns |-> "none"]
  /\ received = [c \in Conns |-> << >>]
  /\ answers  = [c \in Conns |-> << >>]
  /\ serving  = [c \in Conns |-> 0]
  /\ hangup   = [c \in Conns |-> FALSE]
  /\ captured = [c \in Conns |-> {}]
  /\ bypassed = [c \in Conns |-> {}]

(***************************************************************************)
(* The agent and the origin.                                               *)
(***************************************************************************)

(* TLS is up and pump has the connection. *)
Pumping(c) == stage[c] \in {"idle", "body", "dialing", "sending", "awaiting", "relaying"}

LastOf(s) == s[Len(s)]

(* After an upgrade or a "Connection: close" the agent starts no request. *)
MayAsk(c) ==
  requests[c] # << >> =>
    LET r == LastOf(requests[c]) IN
    r.body = "whole" /\ ~r.close /\ r.kind \notin Upgrades

WriteRequest(c) ==
  /\ agent[c] = "open" /\ Pumping(c)
  /\ Len(requests[c]) < MaxRequests /\ MayAsk(c)
  /\ \E k \in Kinds, close \in BOOLEAN :
       requests' = [requests EXCEPT ![c] = Append(@,
         [kind |-> k, close |-> close, body |-> IF k \in Upgrades THEN "whole" ELSE "part"])]
  /\ UNCHANGED <<agent, recordVars, wireVars, stage, upstream, serving, hangup>>

WriteBody(c) ==
  /\ agent[c] = "open" /\ requests[c] # << >>
  /\ LET r == LastOf(requests[c]) IN
     \E b \in Bodies :
       /\ \/ r.body = "part" /\ r.kind = "large" /\ b = "prefix"
          \/ r.body = "part" /\ r.kind # "large" /\ b = "whole"
          \/ r.body = "prefix" /\ b = "whole"
       /\ requests' = [requests EXCEPT ![c][Len(requests[c])].body = b]
  /\ UNCHANGED <<agent, recordVars, wireVars, stage, upstream, serving, hangup>>

AgentStops(c) ==
  /\ \/ agent[c] = "open" /\ agent' = [agent EXCEPT ![c] = "ended"]
     \/ agent[c] # "gone" /\ agent' = [agent EXCEPT ![c] = "gone"]
  /\ UNCHANGED <<requests, recordVars, wireVars, stage, upstream, serving, hangup>>

OriginDies(c) ==
  /\ upstream[c] = "open"
  /\ upstream' = [upstream EXCEPT ![c] = "dead"]
  /\ UNCHANGED <<agentVars, recordVars, wireVars, stage, serving, hangup>>

(***************************************************************************)
(* Deliberately wrong variants of what follows.                            *)
(***************************************************************************)

(* The error of resp.Write ignored: on to the next request. *)
CarryOn(c) ==
  /\ stage[c] = "relaying"
  /\ upstream[c] = "dead" \/ agent[c] = "gone"
  /\ stage'    = [stage EXCEPT ![c] = "idle"]
  /\ upstream' = [upstream EXCEPT ![c] = "none"]
  /\ UNCHANGED <<agentVars, recordVars, wireVars, serving, hangup>>

(* A failed request tried again on a new connection. *)
Redial(c) ==
  /\ stage[c] = "awaiting" /\ upstream[c] = "dead"
  /\ stage'    = [stage EXCEPT ![c] = "dialing"]
  /\ upstream' = [upstream EXCEPT ![c] = "none"]
  /\ UNCHANGED <<agentVars, recordVars, wireVars, serving, hangup>>

(* A failed request dropped without an answer. *)
SkipFailed(c) ==
  /\ stage[c] = "awaiting" /\ upstream[c] = "dead"
  /\ stage'    = [stage EXCEPT ![c] = "idle"]
  /\ upstream' = [upstream EXCEPT ![c] = "none"]
  /\ UNCHANGED <<agentVars, recordVars, wireVars, serving, hangup>>

(* Only the first request of a connection parsed. *)
ParsesFirst(c) == serving[c] = 1 /\ requests[c][1].kind = "llm"

(* upstream.Close() forgotten when the connection is kept. *)
KeepUpstream(c) ==
  /\ stage[c] = "relaying" /\ requests[c][serving[c]].kind # "realtime"
  /\ answers' = [answers EXCEPT ![c][Len(answers[c])].complete = TRUE]
  /\ stage' = [stage EXCEPT ![c] =
       IF requests[c][serving[c]].close \/ hangup[c] THEN "closed" ELSE "idle"]
  /\ upstream' = [upstream EXCEPT ![c] = IF stage'[c] = "closed" THEN "none" ELSE @]
  /\ UNCHANGED <<agentVars, recordVars, received, grant, serving, hangup>>

(* A tunnel that waits for both of its copies to end. *)
BothLegsEnd(c) ==
  /\ stage[c] = "tunnel"
  /\ agent[c] # "open" /\ upstream[c] = "dead"
  /\ stage'    = [stage EXCEPT ![c] = "closed"]
  /\ upstream' = [upstream EXCEPT ![c] = "none"]
  /\ UNCHANGED <<agentVars, recordVars, wireVars, serving, hangup>>

(***************************************************************************)
(* CONNECT: tunnel, or terminate TLS.                                      *)
(***************************************************************************)

(* A host that is not inspected; a provider flow the policy lets pass, which
   is reported; an inspected one, answered 200 unless the agent has gone. *)
HandleConnect(c) ==
  /\ stage[c] = "accepted"
  /\ \/ /\ stage' = [stage EXCEPT ![c] = "dialing tunnel"]
        /\ UNCHANGED <<grant, bypassed>>
     \/ /\ stage' = [stage EXCEPT ![c] = "dialing tunnel"]
        /\ bypassed' = [bypassed EXCEPT ![c] = @ \union {0}]
        /\ UNCHANGED grant
     \/ /\ stage' = [stage EXCEPT ![c] = "handshake"]
        /\ grant' = [grant EXCEPT ![c] = "200"]
        /\ UNCHANGED bypassed
     \/ /\ agent[c] = "gone"
        /\ stage' = [stage EXCEPT ![c] = "closed"]
        /\ UNCHANGED <<grant, bypassed>>
  /\ UNCHANGED <<agentVars, captured, received, answers, upstream, serving, hangup>>

(* tunnel: dial for at most 15 s, then 200, or 502. *)
DialTunnel(c) ==
  /\ stage[c] = "dialing tunnel"
  /\ \/ /\ stage' = [stage EXCEPT ![c] = "tunnel"]
        /\ upstream' = [upstream EXCEPT ![c] = "open"]
        /\ grant' = [grant EXCEPT ![c] = "200"]
     \/ /\ agent[c] = "gone"
        /\ stage' = [stage EXCEPT ![c] = "closed"]
        /\ UNCHANGED <<upstream, grant>>
     \/ /\ stage' = [stage EXCEPT ![c] = "closed"]
        /\ grant' = [grant EXCEPT ![c] = "502"]
        /\ UNCHANGED upstream
  /\ UNCHANGED <<agentVars, recordVars, received, answers, serving, hangup>>

(* Either copy's end closes both connections. *)
TunnelEnds(c) ==
  /\ stage[c] = "tunnel"
  /\ agent[c] # "open" \/ upstream[c] = "dead"
  /\ stage'    = [stage EXCEPT ![c] = "closed"]
  /\ upstream' = [upstream EXCEPT ![c] = "none"]
  /\ UNCHANGED <<agentVars, recordVars, wireVars, serving, hangup>>

Handshake(c) ==
  /\ stage[c] = "handshake"
  /\ \/ agent[c] = "open" /\ stage' = [stage EXCEPT ![c] = "idle"]
     \/ stage' = [stage EXCEPT ![c] = "closed"]
  /\ UNCHANGED <<agentVars, recordVars, wireVars, upstream, serving, hangup>>

(***************************************************************************)
(* pump: one request after the other.                                      *)
(***************************************************************************)

Request(c) == requests[c][serving[c]]

(* Answer request n with a status of the proxy's own, and close. *)
Refuse(c, n, status) ==
  /\ answers' = [answers EXCEPT ![c] =
       Append(@, [n |-> n, status |-> status, complete |-> TRUE])]
  /\ stage'    = [stage EXCEPT ![c] = "closed"]
  /\ upstream' = [upstream EXCEPT ![c] = "none"]

(* An upgrade with an HTTP fallback is refused; one without is a bypass. *)
ReadRequest(c) ==
  LET r == requests[c][serving[c] + 1] IN
  /\ stage[c] = "idle" /\ serving[c] < Len(requests[c])
  /\ serving' = [serving EXCEPT ![c] = @ + 1]
  /\ \/ /\ r.kind = "responses"
        /\ Refuse(c, serving[c] + 1, "426")
        /\ UNCHANGED bypassed
     \/ /\ r.kind = "realtime"
        /\ bypassed' = [bypassed EXCEPT ![c] = @ \union {serving[c] + 1}]
        /\ stage' = [stage EXCEPT ![c] = "dialing"]
        /\ UNCHANGED <<answers, upstream>>
     \/ /\ r.kind \notin Upgrades
        /\ stage' = [stage EXCEPT ![c] = "body"]
        /\ UNCHANGED <<answers, upstream, bypassed>>
  /\ UNCHANGED <<agentVars, captured, received, grant, hangup>>

(* The end of the agent's stream between two requests. *)
ReadEnd(c) ==
  /\ stage[c] = "idle" /\ serving[c] = Len(requests[c])
  /\ agent[c] # "open"
  /\ stage' = [stage EXCEPT ![c] = "closed"]
  /\ UNCHANGED <<agentVars, recordVars, wireVars, upstream, serving, hangup>>

(* ReadAll returns at the body's end, past maxParseBody, or when the agent
   stops; its error is dropped. *)
BodyRead(c) == Request(c).body # "part" \/ agent[c] # "open"

Parses(c) == Request(c).kind = "llm" /\ Request(c).body = "whole"

(* Parse and report, then forward. *)
ReadBody(c) ==
  /\ stage[c] = "body" /\ BodyRead(c)
  /\ captured' = [captured EXCEPT ![c] = IF Parses(c) THEN @ \union {serving[c]} ELSE @]
  /\ stage' = [stage EXCEPT ![c] = "dialing"]
  /\ UNCHANGED <<agentVars, bypassed, wireVars, upstream, serving, hangup>>

(* Dial and TLS handshake with the origin. *)
DialOrigin(c) ==
  /\ stage[c] = "dialing"
  /\ \/ /\ stage' = [stage EXCEPT ![c] = "sending"]
        /\ upstream' = [upstream EXCEPT ![c] = "open"]
        /\ UNCHANGED <<answers, serving>>
     \/ Refuse(c, serving[c], "502") /\ UNCHANGED serving
  /\ UNCHANGED <<agentVars, recordVars, received, grant, hangup>>

(* A body above maxParseBody is forwarded as the agent writes it. *)
Send(c) ==
  /\ stage[c] = "sending" /\ upstream[c] = "open"
  /\ Request(c).body # "prefix"
  /\ received' = [received EXCEPT ![c] =
       Append(@, [n |-> serving[c], whole |-> Request(c).body = "whole"])]
  /\ stage' = [stage EXCEPT ![c] = "awaiting"]
  /\ UNCHANGED <<agentVars, recordVars, answers, grant, upstream, serving, hangup>>

SendFails(c) ==
  /\ stage[c] = "sending"
  /\ upstream[c] = "dead" \/ (Request(c).body = "prefix" /\ agent[c] # "open")
  /\ Refuse(c, serving[c], "502")
  /\ UNCHANGED <<agentVars, recordVars, received, grant, serving, hangup>>

(* The head of the origin's answer. *)
ReadResponse(c) ==
  /\ stage[c] = "awaiting" /\ upstream[c] = "open"
  /\ \E close \in BOOLEAN : hangup' = [hangup EXCEPT ![c] = close]
  /\ answers' = [answers EXCEPT ![c] =
       Append(@, [n |-> serving[c], status |-> "origin", complete |-> FALSE])]
  /\ stage' = [stage EXCEPT ![c] = "relaying"]
  /\ UNCHANGED <<agentVars, recordVars, received, grant, upstream, serving>>

AwaitFails(c) ==
  /\ stage[c] = "awaiting" /\ upstream[c] = "dead"
  /\ Refuse(c, serving[c], "502")
  /\ UNCHANGED <<agentVars, recordVars, received, grant, serving, hangup>>

(* The last byte of the answer: the upstream connection is done with. *)
FinishAnswer(c) ==
  /\ stage[c] = "relaying" /\ Request(c).kind # "realtime"
  /\ answers' = [answers EXCEPT ![c][Len(answers[c])].complete = TRUE]
  /\ stage' = [stage EXCEPT ![c] =
       IF Request(c).close \/ hangup[c] THEN "closed" ELSE "idle"]
  /\ upstream' = [upstream EXCEPT ![c] = "none"]
  /\ UNCHANGED <<agentVars, recordVars, received, grant, serving, hangup>>

(* An upgrade is answered with 101, and becomes a tunnel, or with a refusal. *)
FinishUpgrade(c) ==
  /\ stage[c] = "relaying" /\ Request(c).kind = "realtime"
  /\ answers' = [answers EXCEPT ![c][Len(answers[c])].complete = TRUE]
  /\ \/ stage' = [stage EXCEPT ![c] = "tunnel"] /\ UNCHANGED upstream
     \/ /\ stage' = [stage EXCEPT ![c] = "closed"]
        /\ upstream' = [upstream EXCEPT ![c] = "none"]
  /\ UNCHANGED <<agentVars, recordVars, received, grant, serving, hangup>>

(* The origin ends inside its answer, or the agent is not there to take it. *)
RelayFails(c) ==
  /\ stage[c] = "relaying"
  /\ upstream[c] = "dead" \/ agent[c] = "gone"
  /\ stage'    = [stage EXCEPT ![c] = "closed"]
  /\ upstream' = [upstream EXCEPT ![c] = "none"]
  /\ UNCHANGED <<agentVars, recordVars, wireVars, serving, hangup>>

-------------------------------------------------------------------------------

Environment(c) == WriteRequest(c) \/ WriteBody(c) \/ AgentStops(c) \/ OriginDies(c)

Connect(c) == HandleConnect(c) \/ DialTunnel(c) \/ TunnelEnds(c) \/ Handshake(c)

Pump(c) ==
  \/ ReadRequest(c) \/ ReadEnd(c) \/ ReadBody(c)
  \/ DialOrigin(c) \/ Send(c) \/ SendFails(c)
  \/ ReadResponse(c) \/ AwaitFails(c)
  \/ FinishAnswer(c) \/ FinishUpgrade(c) \/ RelayFails(c)

Next == \E c \in Conns : Environment(c) \/ Connect(c) \/ Pump(c)

Spec == Init /\ [][Next]_vars

(* A goroutine that can go on does: dials are bounded by their 15 s, a read
   returns when its peer writes or ends.  A handshake and an answer that come
   late are the peer's, which is taken to answer or to end some day; no agent
   has to write anything. *)
Fairness == \A c \in Conns : WF_vars(Connect(c) \/ Pump(c))

FairSpec == Spec /\ Fairness

(***************************************************************************)
(* Properties                                                              *)
(***************************************************************************)

(* On one kept-alive connection the i-th answer is the answer to the i-th
   request, pipelined or not; after a refusal of the proxy's own, or an answer
   cut short, the agent is sent nothing more that it could mistake for one. *)
AnswersMatchRequests ==
  \A c \in Conns : \A i \in 1 .. Len(answers[c]) :
    /\ answers[c][i].n = i
    /\ (i < Len(answers[c]) \/ stage[c] = "idle")
         => answers[c][i].complete /\ answers[c][i].status = "origin"

(* No request reaches the origin twice or out of order, whatever fails: the
   proxy never replays what the provider may already have acted upon. *)
NeverReplayed ==
  \A c \in Conns : \A i, j \in 1 .. Len(received[c]) :
    i < j => received[c][i].n < received[c][j].n

(* On an inspected connection no parseable request reaches the origin
   unrecorded and no upgrade unreported, and nothing is recorded from part of
   a body. *)
EvidenceIsComplete ==
  \A c \in Conns :
    /\ \A i \in 1 .. Len(received[c]) :
         LET m == received[c][i] IN
         /\ (m.whole /\ requests[c][m.n].kind = "llm") => m.n \in captured[c]
         /\ requests[c][m.n].kind \in Upgrades => m.n \in bypassed[c]
    /\ \A n \in captured[c] : requests[c][n].body = "whole"

(* An upstream connection is held only while its own request or tunnel is in
   progress: a kept-alive agent does not accumulate them. *)
NoUpstreamLeaks ==
  \A c \in Conns :
    upstream[c] # "none" => stage[c] \in {"tunnel", "sending", "awaiting", "relaying"}

(* Nobody is left waiting: every request the agent has written whole is answered,
   by the origin or by the proxy, or its connection is closed; and when the agent
   has gone both of the goroutine's connections are given up. *)
NobodyIsLeftWaiting ==
  \A c \in Conns :
    /\ \A n \in 1 .. MaxRequests :
         (n <= Len(requests[c]) /\ requests[c][n].body = "whole")
           ~> (Len(answers[c]) >= n \/ stage[c] = "closed")
    /\ (agent[c] = "gone") ~> (stage[c] = "closed" /\ upstream[c] = "none")

(* The comment on Proxy: it forwards the request body "BYTE-IDENTICAL upstream". *)
ForwardedIsIdentical ==
  \A c \in Conns : \A i \in 1 .. Len(received[c]) : received[c][i].whole

===============================================================================
