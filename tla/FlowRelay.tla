------------------------------ MODULE FlowRelay ------------------------------
(***************************************************************************)
(* The NetworkExtension's relay of one agent's TCP flows                   *)
(* (TransparentProxyProvider): accept or decline a flow, peek at the       *)
(* ClientHello, try the capture proxy under a timeout, fall back to the    *)
(* real destination, then copy both directions until an end or an error.   *)
(*                                                                         *)
(* Callbacks of the flow, of the connections and the timeout run on        *)
(* different dispatch queues; each callback is one action.  Every call to  *)
(* the network may fail or never answer.  Bytes are numbered chunks.       *)
(***************************************************************************)
EXTENDS Naturals, Sequences, FiniteSets

CONSTANTS
  Flows,       \* the flows the kernel offers
  PeekMax,     \* chunks in the 8 KiB peek budget
  MaxChunks    \* bound of the model: chunks either side writes

ASSUME RelayAssumption ==
  /\ PeekMax \in Nat \ {0}
  /\ MaxChunks \in Nat

Paths == {"proxy", "direct"}

VARIABLES
  paused,      \* the capture-paused marker file exists
  offer,       \* who opened the flow: see Offers
  hello,       \* chunks until the ClientHello is complete
  sni,         \* what the complete ClientHello names
  serverFirst, \* the agent writes only after the far end has written
  wrote,       \* chunks the agent has written
  ended,       \* the agent has finished writing
  replied,     \* chunks the far end has written
  originEnded, \* the far end has finished writing
  stage,       \* what the relay is doing with the flow
  read,        \* chunks the relay has read from the agent
  connect,     \* the callback chain of the CONNECT to the capture proxy
  timer,       \* the five-second fallback
  outcome,     \* the one-shot Outcome latch
  conn,        \* the flow's connections, by path
  carried,     \* history: chunks each connection has carried upstream
  path,        \* the connection the copy loops use
  up,          \* the agent-to-far-end copy loop
  returned     \* chunks written back to the agent

agentVars  == <<offer, hello, sni, serverFirst, wrote, ended>>
originVars == <<replied, originEnded>>
raceVars   == <<connect, timer, outcome>>
pumpVars   == <<path, up, returned>>
vars == <<paused, agentVars, originVars, stage, read, raceVars, conn, carried, pumpVars>>

(* Not TCP to port 443; the capture daemon's own dial; an application outside
   the development scope; any other process. *)
Offers == {"notTLS", "own", "unscoped", "agent"}
Names  == {"allowlisted", "other", "none"}

-------------------------------------------------------------------------------

Init ==
  /\ paused \in BOOLEAN
  /\ offer \in [Flows -> Offers]
  /\ hello \in [Flows -> 1 .. PeekMax + 1]
  /\ sni \in [Flows -> Names]
  /\ serverFirst \in [Flows -> BOOLEAN]
  /\ \A f \in Flows : serverFirst[f] => sni[f] = "none"
  /\ wrote       = [f \in Flows |-> 0]
  /\ ended       = [f \in Flows |-> FALSE]
  /\ replied     = [f \in Flows |-> 0]
  /\ originEnded = [f \in Flows |-> FALSE]
  /\ stage       = [f \in Flows |-> "offered"]
  /\ read        = [f \in Flows |-> 0]
  /\ connect     = [f \in Flows |-> "off"]
  /\ timer       = [f \in Flows |-> "off"]
  /\ outcome     = [f \in Flows |-> "unclaimed"]
  /\ conn        = [f \in Flows |-> [p \in Paths |-> "none"]]
  /\ carried     = [f \in Flows |-> [p \in Paths |-> << >>]]
  /\ path        = [f \in Flows |-> "none"]
  /\ up          = [f \in Flows |-> "off"]
  /\ returned    = [f \in Flows |-> 0]

(* The copy loops run and their connection works. *)
Connected(f) == stage[f] = "pumping" /\ conn[f][path[f]] = "open"

(***************************************************************************)
(* Deliberately wrong variants, each a plausible slip in the code; the     *)
(* properties below must notice every one of them.                         *)
(***************************************************************************)

(* The budget compared after the read instead of before it. *)
RouteLate(f, n) ==
  IF n < hello[f]
  THEN IF n <= PeekMax THEN "peek" ELSE "direct"
  ELSE IF sni[f] = "allowlisted" THEN "proxy" ELSE "direct"

(* An unreadable ClientHello sent to the proxy instead of past it. *)
RouteUnread(f, n) ==
  IF n < hello[f]
  THEN IF n < PeekMax THEN "peek" ELSE "proxy"
  ELSE IF sni[f] = "allowlisted" THEN "proxy" ELSE "direct"

(* Only the chunk of the last read is handed on, not what was accumulated. *)
LastBytes(f) == IF read[f] = 0 THEN << >> ELSE <<read[f]>>

(* The direct relay started with the proxy connection left open. *)
RelayDirectBeside(f) == [conn[f] EXCEPT !["direct"] = "starting"]

(***************************************************************************)
(* The relay's own definitions.                                            *)
(***************************************************************************)

RelayDirect(f) == [conn[f] EXCEPT !["proxy"] = IF @ = "open" THEN "cancelled" ELSE @,
                                  !["direct"] = "starting"]

(* Fall back without claiming the outcome first. *)
FailOpenUnclaimed(f) ==
  /\ outcome' = [outcome EXCEPT ![f] = "direct"]
  /\ conn' = [conn EXCEPT ![f] = RelayDirect(f)]

(* The answer to CONNECT cancels the timeout before it is known to be a 2xx. *)
DisarmOnSent(f) ==
  /\ connect[f] = "sending"
  /\ conn[f]["proxy"] = "open"
  /\ connect' = [connect EXCEPT ![f] = "waiting"]
  /\ timer' = [timer EXCEPT ![f] = "off"]
  /\ UNCHANGED <<paused, agentVars, originVars, stage, read, outcome, conn, carried, pumpVars>>

(* An end of stream without data is not a reason to close. *)
IgnoreEnd(f) ==
  /\ Connected(f)
  /\ originEnded[f] /\ returned[f] = replied[f]
  /\ UNCHANGED vars

(* The bytes accumulated by the peek, which whoever relays must send first. *)
FirstBytes(f) == [i \in 1 .. read[f] |-> i]

(***************************************************************************)
(* The environment: the marker, the agent and the far end.                 *)
(***************************************************************************)

TogglePause ==
  /\ paused' = ~paused
  /\ UNCHANGED <<agentVars, originVars, stage, read, raceVars, conn, carried, pumpVars>>

AgentWrites(f) ==
  /\ ~ended[f] /\ wrote[f] < MaxChunks
  /\ stage[f] \notin {"offered", "kernel", "closed"}
  /\ serverFirst[f] => returned[f] > 0
  /\ wrote' = [wrote EXCEPT ![f] = @ + 1]
  /\ UNCHANGED <<paused, offer, hello, sni, serverFirst, ended, originVars, stage, read, raceVars,
                 conn, carried, pumpVars>>

AgentEnds(f) ==
  /\ ~ended[f]
  /\ stage[f] \notin {"offered", "kernel", "closed"}
  /\ ended' = [ended EXCEPT ![f] = TRUE]
  /\ UNCHANGED <<paused, offer, hello, sni, serverFirst, wrote, originVars, stage, read, raceVars,
                 conn, carried, pumpVars>>

OriginWrites(f) ==
  /\ Connected(f)
  /\ ~originEnded[f] /\ replied[f] < MaxChunks
  /\ replied' = [replied EXCEPT ![f] = @ + 1]
  /\ UNCHANGED <<paused, agentVars, originEnded, stage, read, raceVars, conn, carried,
                 pumpVars>>

OriginEnds(f) ==
  /\ Connected(f)
  /\ ~originEnded[f]
  /\ originEnded' = [originEnded EXCEPT ![f] = TRUE]
  /\ UNCHANGED <<paused, agentVars, replied, stage, read, raceVars, conn, carried, pumpVars>>

(***************************************************************************)
(* Accepting, opening and peeking.                                         *)
(***************************************************************************)

Taken(f) == offer[f] = "agent" /\ ~paused

(* Declining leaves the flow to the kernel; accepting commits the relay. *)
HandleNewFlow(f) ==
  /\ stage[f] = "offered"
  /\ stage' = [stage EXCEPT ![f] = IF Taken(f) THEN "opening" ELSE "kernel"]
  /\ UNCHANGED <<paused, agentVars, originVars, read, raceVars, conn, carried, pumpVars>>

Close(f) ==
  /\ stage' = [stage EXCEPT ![f] = "closed"]
  /\ conn'  = [conn EXCEPT ![f] = [p \in Paths |->
                 IF p = path[f] THEN "cancelled" ELSE @[p]]]

FlowOpened(f) ==
  /\ stage[f] = "opening"
  /\ stage' = [stage EXCEPT ![f] = "peeking"]
  /\ UNCHANGED <<paused, agentVars, originVars, read, raceVars, conn, carried, pumpVars>>

FlowOpenFails(f) ==
  /\ stage[f] = "opening"
  /\ Close(f)
  /\ UNCHANGED <<paused, agentVars, originVars, read, raceVars, carried, pumpVars>>

(* SNI.parse on what has been accumulated, under the peek budget. *)
Route(f, n) ==
  IF n < hello[f]
  THEN IF n < PeekMax THEN "peek" ELSE "direct"
  ELSE IF sni[f] = "allowlisted" THEN "proxy" ELSE "direct"

(* One readData with bytes, which the route found for them follows. *)
PeekTo(f, route) ==
  /\ stage[f] = "peeking"
  /\ read[f] < wrote[f]
  /\ Route(f, read[f] + 1) = route
  /\ read' = [read EXCEPT ![f] = @ + 1]
  /\ stage' = [stage EXCEPT ![f] = IF route = "peek" THEN "peeking" ELSE "relaying"]
  /\ UNCHANGED <<paused, agentVars, originVars, outcome, carried, pumpVars>>

PeekOn(f) == PeekTo(f, "peek") /\ UNCHANGED <<connect, timer, conn>>

PassThrough(f) ==
  /\ PeekTo(f, "direct")
  /\ conn' = [conn EXCEPT ![f] = RelayDirect(f)]
  /\ UNCHANGED <<connect, timer>>

RelayViaGoProxy(f) ==
  /\ PeekTo(f, "proxy")
  /\ conn' = [conn EXCEPT ![f]["proxy"] = "open"]
  /\ connect' = [connect EXCEPT ![f] = "sending"]
  /\ timer' = [timer EXCEPT ![f] = "armed"]

Peek(f) == PeekOn(f) \/ PassThrough(f) \/ RelayViaGoProxy(f)

(* readData returns no data: the agent has finished; or an error: it is gone. *)
PeekEnds(f) ==
  /\ stage[f] = "peeking"
  /\ ended[f] /\ read[f] = wrote[f]
  /\ Close(f)
  /\ UNCHANGED <<paused, agentVars, originVars, read, raceVars, carried, pumpVars>>

PeekFails(f) ==
  /\ stage[f] = "peeking"
  /\ Close(f)
  /\ UNCHANGED <<paused, agentVars, originVars, read, raceVars, carried, pumpVars>>

(***************************************************************************)
(* The CONNECT to the capture proxy against its timeout.                   *)
(***************************************************************************)

(* failOpen: whoever claims the outcome first cancels the proxy connection
   and relays direct; a later caller does nothing. *)
FailOpen(f) ==
  IF outcome[f] = "unclaimed"
  THEN /\ outcome' = [outcome EXCEPT ![f] = "direct"]
       /\ conn' = [conn EXCEPT ![f] = RelayDirect(f)]
  ELSE UNCHANGED <<outcome, conn>>

ConnectSent(f) ==
  /\ connect[f] = "sending"
  /\ conn[f]["proxy"] = "open"
  /\ connect' = [connect EXCEPT ![f] = "waiting"]
  /\ UNCHANGED <<paused, agentVars, originVars, stage, read, timer, outcome, conn, carried,
                 pumpVars>>

(* The send fails, or the answer is not a 2xx, is too long or never ends. *)
ConnectFails(f) ==
  /\ connect[f] \in {"sending", "waiting"}
  /\ FailOpen(f)
  /\ connect' = [connect EXCEPT ![f] = "over"]
  /\ UNCHANGED <<paused, agentVars, originVars, stage, read, timer, carried, pumpVars>>

(* A 2xx arrives: cancel the timeout, which has no effect once it has begun. *)
ConnectGranted(f) ==
  /\ connect[f] = "waiting"
  /\ conn[f]["proxy"] = "open"
  /\ connect' = [connect EXCEPT ![f] = "granted"]
  /\ timer' = [timer EXCEPT ![f] = IF @ = "armed" THEN "off" ELSE @]
  /\ UNCHANGED <<paused, agentVars, originVars, stage, read, outcome, conn, carried, pumpVars>>

(* Claim for the proxy, or bail out if the timeout has claimed first. *)
Commit(f) ==
  /\ connect[f] = "granted"
  /\ IF outcome[f] = "unclaimed"
     THEN /\ outcome' = [outcome EXCEPT ![f] = "proxy"]
          /\ connect' = [connect EXCEPT ![f] = "committing"]
     ELSE /\ connect' = [connect EXCEPT ![f] = "over"]
          /\ UNCHANGED outcome
  /\ UNCHANGED <<paused, agentVars, originVars, stage, read, timer, conn, carried, pumpVars>>

TimerFires(f) ==
  /\ timer[f] = "armed"
  /\ timer' = [timer EXCEPT ![f] = "fired"]
  /\ UNCHANGED <<paused, agentVars, originVars, stage, read, connect, outcome, conn, carried,
                 pumpVars>>

TimerRuns(f) ==
  /\ timer[f] = "fired"
  /\ FailOpen(f)
  /\ timer' = [timer EXCEPT ![f] = "off"]
  /\ UNCHANGED <<paused, agentVars, originVars, stage, read, connect, carried, pumpVars>>

(***************************************************************************)
(* Handing the flow over to the copy loops.                                *)
(***************************************************************************)

StartPump(f, p) ==
  /\ stage' = [stage EXCEPT ![f] = "pumping"]
  /\ path'  = [path EXCEPT ![f] = p]
  /\ up'    = [up EXCEPT ![f] = "running"]

CommitSent(f) ==
  /\ connect[f] = "committing"
  /\ conn[f]["proxy"] = "open"
  /\ carried' = [carried EXCEPT ![f]["proxy"] = @ \o FirstBytes(f)]
  /\ connect' = [connect EXCEPT ![f] = "over"]
  /\ StartPump(f, "proxy")
  /\ UNCHANGED <<paused, agentVars, originVars, read, timer, outcome, conn, returned>>

(* The proxy died after its 200, before the first bytes reached it. *)
CommitFails(f) ==
  /\ connect[f] = "committing"
  /\ conn' = [conn EXCEPT ![f] = RelayDirect(f)]
  /\ connect' = [connect EXCEPT ![f] = "over"]
  /\ UNCHANGED <<paused, agentVars, originVars, stage, read, timer, outcome, carried, pumpVars>>

DirectSent(f) ==
  /\ conn[f]["direct"] = "starting"
  /\ conn' = [conn EXCEPT ![f]["direct"] = "open"]
  /\ carried' = [carried EXCEPT ![f]["direct"] = @ \o FirstBytes(f)]
  /\ StartPump(f, "direct")
  /\ UNCHANGED <<paused, agentVars, originVars, read, raceVars, returned>>

(* The error of the direct connection's first send is ignored: the loops start
   on a connection that does not work, and meet the error themselves. *)
DirectFails(f) ==
  /\ conn[f]["direct"] = "starting"
  /\ conn' = [conn EXCEPT ![f]["direct"] = "broken"]
  /\ StartPump(f, "direct")
  /\ UNCHANGED <<paused, agentVars, originVars, read, raceVars, carried, returned>>

(***************************************************************************)
(* The copy loops.                                                         *)
(***************************************************************************)

UpData(f) ==
  /\ Connected(f) /\ up[f] = "running"
  /\ read[f] < wrote[f]
  /\ read' = [read EXCEPT ![f] = @ + 1]
  /\ carried' = [carried EXCEPT ![f][path[f]] = Append(@, read[f] + 1)]
  /\ UNCHANGED <<paused, agentVars, originVars, stage, raceVars, conn, pumpVars>>

(* The agent has finished: half-close, and keep the reverse direction. *)
UpEnd(f) ==
  /\ stage[f] = "pumping" /\ up[f] = "running"
  /\ ended[f] /\ read[f] = wrote[f]
  /\ up' = [up EXCEPT ![f] = "ended"]
  /\ UNCHANGED <<paused, agentVars, originVars, stage, read, raceVars, conn, carried, path,
                 returned>>

DownData(f) ==
  /\ Connected(f)
  /\ returned[f] < replied[f]
  /\ returned' = [returned EXCEPT ![f] = @ + 1]
  /\ UNCHANGED <<paused, agentVars, originVars, stage, read, raceVars, conn, carried, path, up>>

(* The last bytes arrive together with the end of the stream. *)
DownLast(f) ==
  /\ Connected(f)
  /\ originEnded[f] /\ returned[f] + 1 = replied[f]
  /\ returned' = [returned EXCEPT ![f] = @ + 1]
  /\ Close(f)
  /\ UNCHANGED <<paused, agentVars, originVars, read, raceVars, carried, path, up>>

DownEnd(f) ==
  /\ Connected(f)
  /\ originEnded[f] /\ returned[f] = replied[f]
  /\ Close(f)
  /\ UNCHANGED <<paused, agentVars, originVars, read, raceVars, carried, pumpVars>>

(* A read, a send, a receive or a write of either loop reports an error. *)
PumpFails(f) ==
  /\ stage[f] = "pumping"
  /\ Close(f)
  /\ UNCHANGED <<paused, agentVars, originVars, read, raceVars, carried, pumpVars>>

-------------------------------------------------------------------------------

Environment(f) == AgentWrites(f) \/ AgentEnds(f) \/ OriginWrites(f) \/ OriginEnds(f)

Accepting(f) ==
  \/ HandleNewFlow(f) \/ FlowOpened(f) \/ FlowOpenFails(f)
  \/ Peek(f) \/ PeekEnds(f) \/ PeekFails(f)

Connecting(f) ==
  \/ ConnectSent(f) \/ ConnectFails(f) \/ ConnectGranted(f) \/ Commit(f)
  \/ TimerFires(f) \/ TimerRuns(f)

HandingOver(f) == CommitSent(f) \/ CommitFails(f) \/ DirectSent(f) \/ DirectFails(f)

Pumping(f) == UpData(f) \/ UpEnd(f) \/ DownData(f) \/ DownLast(f) \/ DownEnd(f) \/ PumpFails(f)

Next ==
  \/ TogglePause
  \/ \E f \in Flows : Environment(f) \/ Accepting(f) \/ Connecting(f)
                        \/ HandingOver(f) \/ Pumping(f)

Spec == Init /\ [][Next]_vars

(* The dispatch queues run what is due: a timeout that is armed fires, a
   callback that is ready runs, and the copy loops keep reading.  Nothing is
   assumed of the capture proxy, which may accept a connection and stall, nor
   of the far end. *)
Fairness ==
  \A f \in Flows :
    /\ WF_vars(FlowOpened(f) \/ FlowOpenFails(f))
    /\ WF_vars(Peek(f) \/ PeekEnds(f))
    /\ WF_vars(TimerFires(f))
    /\ WF_vars(TimerRuns(f))
    /\ WF_vars(Commit(f))
    /\ WF_vars(UpData(f) \/ UpEnd(f))
    /\ WF_vars(DownData(f) \/ DownLast(f) \/ DownEnd(f))

FairSpec == Spec /\ Fairness

(***************************************************************************)
(* Properties                                                              *)
(***************************************************************************)

(* Type correctness of the relay's flows, connections and latches, and the
   bound of the peek: a slow or odd client cannot make it buffer without end. *)
TypeOK ==
  /\ paused \in BOOLEAN
  /\ offer \in [Flows -> Offers]
  /\ hello \in [Flows -> 1 .. PeekMax + 1]
  /\ sni \in [Flows -> Names]
  /\ serverFirst \in [Flows -> BOOLEAN]
  /\ wrote \in [Flows -> Nat] /\ replied \in [Flows -> Nat]
  /\ read \in [Flows -> Nat] /\ returned \in [Flows -> Nat]
  /\ ended \in [Flows -> BOOLEAN] /\ originEnded \in [Flows -> BOOLEAN]
  /\ stage \in [Flows -> {"offered", "kernel", "opening", "peeking", "relaying",
                          "pumping", "closed"}]
  /\ connect \in [Flows -> {"off", "sending", "waiting", "granted", "committing", "over"}]
  /\ timer \in [Flows -> {"off", "armed", "fired"}]
  /\ outcome \in [Flows -> {"unclaimed", "proxy", "direct"}]
  /\ conn \in [Flows -> [Paths -> {"none", "starting", "open", "broken", "cancelled"}]]
  /\ carried \in [Flows -> [Paths -> Seq(Nat)]]
  /\ path \in [Flows -> Paths \union {"none"}]
  /\ up \in [Flows -> {"off", "running", "ended"}]
  /\ \A f \in Flows : stage[f] \in {"offered", "opening", "peeking"} => read[f] < PeekMax

(* The agent's bytes take one path: however the CONNECT answer, its failures
   and the timeout race, what one connection has carried the other never
   does (Outcome: "never send the agent's bytes twice"). *)
OnePath ==
  \A f \in Flows : carried[f]["proxy"] = << >> \/ carried[f]["direct"] = << >>

(* No connection outlives its flow, and a flow never holds two. *)
NoConnectionLeaks ==
  \A f \in Flows :
    LET held == {p \in Paths : conn[f][p] \in {"starting", "open", "broken"}} IN
    /\ Cardinality(held) <= 1
    /\ stage[f] = "closed" => held = {}
    /\ stage[f] = "pumping" => held = {path[f]}

(* Only an agent's own allowlisted TLS flow, named within the peek budget, is
   ever offered to the capture proxy: not the daemon's dials, which would loop
   for ever, and not a connection whose host was never seen. *)
OnlyProviderFlowsReachProxy ==
  \A f \in Flows : conn[f]["proxy"] # "none" =>
    offer[f] = "agent" /\ sni[f] = "allowlisted" /\ hello[f] <= PeekMax

(* A stalled or absent capture proxy never holds an agent's flow: the race for
   the outcome is decided, for the proxy or for the real destination. *)
RaceIsDecided ==
  \A f \in Flows : (connect[f] # "off") ~> (outcome[f] # "unclaimed")

(* The far end's finish reaches the agent: the flow is closed even when the
   last bytes and the end of the stream arrive together. *)
FinishReachesAgent ==
  \A f \in Flows : (Connected(f) /\ originEnded[f]) ~> (stage[f] = "closed")

(* What the relay does with its flows the kernel's own delivery could have
   done: at every point of the race and of the fall-back, what has left for the
   far end is a prefix of what the agent wrote, sent once and in order. *)
Kernel == INSTANCE TransparentFlow WITH
  wrote     <- wrote,
  delivered <- [f \in Flows |-> carried[f]["proxy"] \o carried[f]["direct"]],
  replied   <- replied,
  returned  <- returned,
  open      <- [f \in Flows |-> stage[f] # "closed"]

ImplementsTransparentFlow == Kernel!Spec

===============================================================================
