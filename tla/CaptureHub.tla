------------------------------ MODULE CaptureHub ------------------------------
(***************************************************************************)
(* The in-memory half of the capture daemon: wire.Server's two bounded     *)
(* histories (captures, bypasses), the fan-out of a new entry to the live  *)
(* SSE handlers, and the pass that numbers a snapshot of the history as    *)
(* request ids.                                                            *)
(*                                                                         *)
(* A recorder is one CONNECT goroutine of the proxy, calling record or     *)
(* recordBypass synchronously; a subscriber is one /api/stream handler; a  *)
(* poller is one /api/sessions request.  An entry is named by its place in *)
(* the order in which the recorders took the server's lock, so its content *)
(* (host, prompt, tools) is abstracted away.                               *)
(***************************************************************************)
EXTENDS Naturals, Sequences, FiniteSets

CONSTANTS
  Recorders,      \* proxy goroutines that record captures and bypasses
  Subs,           \* SSE handlers; each serves one connection
  Pollers,        \* goroutines that derive observations from the captures
  RingMax,        \* maxCaptures and maxBypasses
  ChanCap,        \* capacity of a subscriber's channel
  MaxEntries      \* bound of the model: entries recorded, both kinds together

ASSUME HubAssumption ==
  /\ RingMax \in Nat \ {0}
  /\ ChanCap \in Nat \ {0}
  /\ MaxEntries \in Nat

Kinds == {"capture", "bypass"}

(* How far a handler is: subscribed to nothing, to captures, to both and
   relaying, blocked in a write, to captures again, gone. *)
Stages == {"new", "half", "live", "stalled", "leaving", "gone"}

VARIABLES
  author,         \* history: author[k][n] recorded the n-th entry of kind k
  during,         \* history: during[k][n] were still being sent at that moment
  ring,           \* Server.captures / Server.bypasses: numbers of entries
  registered,     \* the keys of Server.subscribers / Server.bypassSubs
  channel,        \* whether a subscriber's channel is unmade, open or closed
  queue,          \* what a subscriber's channel holds
  entry,          \* the entry a recorder is fanning out
  targets,        \* the copied subscriber list it has not yet sent to
  handler,        \* progress of handleSSE
  sent,           \* what handleSSE has written to its client
  dropped,        \* history: entries a full channel made record drop
  since, until,   \* history: entries recorded when (un)subscribing
  snapshot,       \* the copy of captures a poller indexes into
  named           \* what request id wire-0, wire-1, ... of this pass name

recVars  == <<author, during, ring, entry, targets>>
sseVars  == <<registered, channel, handler, since, until>>
pipeVars == <<queue, sent, dropped>>
pollVars == <<snapshot, named>>
vars     == <<recVars, sseVars, pipeVars, pollVars>>

-------------------------------------------------------------------------------

Recorded(k) == Len(author[k])

NoEntry == [kind |-> "capture", n |-> 0]

Init ==
  /\ author     = [k \in Kinds |-> << >>]
  /\ during     = [k \in Kinds |-> << >>]
  /\ ring       = [k \in Kinds |-> << >>]
  /\ registered = [k \in Kinds |-> {}]
  /\ channel    = [s \in Subs |-> [k \in Kinds |-> "unmade"]]
  /\ queue      = [s \in Subs |-> [k \in Kinds |-> << >>]]
  /\ entry      = [r \in Recorders |-> NoEntry]
  /\ targets    = [r \in Recorders |-> {}]
  /\ handler    = [s \in Subs |-> "new"]
  /\ sent       = [s \in Subs |-> [k \in Kinds |-> << >>]]
  /\ dropped    = [s \in Subs |-> [k \in Kinds |-> {}]]
  /\ since      = [s \in Subs |-> [k \in Kinds |-> 0]]
  /\ until      = [s \in Subs |-> [k \in Kinds |-> 0]]
  /\ snapshot   = [p \in Pollers |-> << >>]
  /\ named      = [p \in Pollers |-> << >>]

HasRoom(s, k) == Len(queue[s][k]) < ChanCap

(* The entries of a kind whose record has not returned: a goroutine that has
   clients left to send to is still inside it. *)
InFlight(k) ==
  {entry[r].n : r \in {q \in Recorders : targets[q] # {} /\ entry[q].kind = k}}

(***************************************************************************)
(* Deliberately wrong variants of the definitions below, substituted for   *)
(* them one at a time to see that the properties notice.                   *)
(***************************************************************************)

(* Mutants of Trim: no trim at all; trim the wrong end. *)
NoTrim(s) == s
TrimNewest(s) == IF Len(s) > RingMax THEN SubSeq(s, 1, RingMax) ELSE s

(* Mutants of Drop: a full channel discards its oldest entry instead; the
   sender waits for a slow client and gives up only when it has gone. *)
DropOldest(r, s) ==
  LET k == entry[r].kind IN
  /\ s \in targets[r]
  /\ ~HasRoom(s, k)
  /\ queue'   = [queue EXCEPT ![s][k] = Append(Tail(@), entry[r].n)]
  /\ targets' = [targets EXCEPT ![r] = @ \ {s}]
  /\ UNCHANGED <<author, during, ring, entry, sent, dropped, sseVars, pollVars>>
DropWhenGone(r, s) ==
  /\ s \in targets[r]
  /\ ~HasRoom(s, entry[r].kind)
  /\ handler[s] = "gone"
  /\ targets' = [targets EXCEPT ![r] = @ \ {s}]
  /\ UNCHANGED <<author, during, ring, entry, pipeVars, sseVars, pollVars>>

(* Mutant of Unsubscribe: also close the channel, as the comment warns. *)
UnsubscribeAndClose(s, k, from, to) ==
  /\ handler[s] = from
  /\ handler'    = [handler EXCEPT ![s] = to]
  /\ registered' = [registered EXCEPT ![k] = @ \ {s}]
  /\ channel'    = [channel EXCEPT ![s][k] = "closed"]
  /\ until'      = [until EXCEPT ![s][k] = Recorded(k)]
  /\ UNCHANGED <<since, recVars, pipeVars, pollVars>>

(* Mutant of NameRequest: read the live history instead of the copy. *)
NameLive(p) ==
  LET i == Len(named[p]) + 1 IN
  /\ i <= Len(snapshot[p])
  /\ named' = [named EXCEPT ![p] = Append(@, ring["capture"][i])]
  /\ UNCHANGED <<snapshot, recVars, sseVars, pipeVars>>

(***************************************************************************)
(* Recording.  The append, the trim and the copy of the subscriber list    *)
(* happen under one lock; the sends happen after it is released, in the    *)
(* order of a Go map's iteration.                                          *)
(***************************************************************************)

(* Keep the RingMax most recent entries of a history. *)
Trim(s) ==
  IF Len(s) > RingMax THEN SubSeq(s, Len(s) - RingMax + 1, Len(s)) ELSE s

(* Mutant of Record: hand the sends to a goroutine of their own and return. *)
RecordInBackground(r, k) ==
  /\ Recorded("capture") + Recorded("bypass") < MaxEntries
  /\ author'  = [author EXCEPT ![k] = Append(@, r)]
  /\ during'  = [during EXCEPT ![k] = Append(@, InFlight(k))]
  /\ ring'    = [ring EXCEPT ![k] = Trim(Append(@, Recorded(k) + 1))]
  /\ \E q \in Recorders :
       /\ targets[q] = {}
       /\ entry'   = [entry EXCEPT ![q] = [kind |-> k, n |-> Recorded(k) + 1]]
       /\ targets' = [targets EXCEPT ![q] = registered[k]]
  /\ UNCHANGED <<sseVars, pipeVars, pollVars>>

Record(r, k) ==
  /\ targets[r] = {}
  /\ Recorded("capture") + Recorded("bypass") < MaxEntries
  /\ author'  = [author EXCEPT ![k] = Append(@, r)]
  /\ during'  = [during EXCEPT ![k] = Append(@, InFlight(k))]
  /\ ring'    = [ring EXCEPT ![k] = Trim(Append(@, Recorded(k) + 1))]
  /\ entry'   = [entry EXCEPT ![r] = [kind |-> k, n |-> Recorded(k) + 1]]
  /\ targets' = [targets EXCEPT ![r] = registered[k]]
  /\ UNCHANGED <<sseVars, pipeVars, pollVars>>

Send(r, s) ==
  LET k == entry[r].kind IN
  /\ s \in targets[r]
  /\ HasRoom(s, k)
  /\ queue'   = [queue EXCEPT ![s][k] = Append(@, entry[r].n)]
  /\ targets' = [targets EXCEPT ![r] = @ \ {s}]
  /\ UNCHANGED <<author, during, ring, entry, sent, dropped, sseVars, pollVars>>

(* select's default case: the channel is full and the entry is skipped. *)
Drop(r, s) ==
  LET k == entry[r].kind IN
  /\ s \in targets[r]
  /\ ~HasRoom(s, k)
  /\ dropped' = [dropped EXCEPT ![s][k] = @ \union {entry[r].n}]
  /\ targets' = [targets EXCEPT ![r] = @ \ {s}]
  /\ UNCHANGED <<author, during, ring, entry, queue, sent, sseVars, pollVars>>

(***************************************************************************)
(* An SSE handler: subscribe to captures, then to bypasses, relay what     *)
(* arrives, and on disconnect undo the two in the reverse order (defer).   *)
(***************************************************************************)

Subscribe(s, k, from, to) ==
  /\ handler[s] = from
  /\ handler'    = [handler EXCEPT ![s] = to]
  /\ registered' = [registered EXCEPT ![k] = @ \union {s}]
  /\ channel'    = [channel EXCEPT ![s][k] = "open"]
  /\ since'      = [since EXCEPT ![s][k] = Recorded(k)]
  /\ UNCHANGED <<until, recVars, pipeVars, pollVars>>

(* The registry forgets the channel; the channel itself is not closed. *)
Unsubscribe(s, k, from, to) ==
  /\ handler[s] = from
  /\ handler'    = [handler EXCEPT ![s] = to]
  /\ registered' = [registered EXCEPT ![k] = @ \ {s}]
  /\ until'      = [until EXCEPT ![s][k] = Recorded(k)]
  /\ UNCHANGED <<channel, since, recVars, pipeVars, pollVars>>

Receive(s, k) ==
  /\ handler[s] = "live"
  /\ queue[s][k] # << >>
  /\ sent'  = [sent EXCEPT ![s][k] = Append(@, Head(queue[s][k]))]
  /\ queue' = [queue EXCEPT ![s][k] = Tail(@)]
  /\ UNCHANGED <<dropped, recVars, sseVars, pollVars>>

Connect(s) ==
  \/ Subscribe(s, "capture", "new", "half")
  \/ Subscribe(s, "bypass", "half", "live")

(* The client stops reading: the handler blocks in its write, for good or
   until the connection is gone. *)
Stall(s) ==
  /\ handler[s] = "live"
  /\ handler' = [handler EXCEPT ![s] = "stalled"]
  /\ UNCHANGED <<registered, channel, since, until, recVars, pipeVars, pollVars>>

Disconnect(s) ==
  \/ \E from \in {"live", "stalled"} : Unsubscribe(s, "bypass", from, "leaving")
  \/ Unsubscribe(s, "capture", "leaving", "gone")

(***************************************************************************)
(* Deriving observations: one copy of the history under the lock, then     *)
(* request ids by index into the copy, with recorders running.             *)
(***************************************************************************)

TakeSnapshot(p) ==
  /\ snapshot[p] = << >>
  /\ snapshot' = [snapshot EXCEPT ![p] = ring["capture"]]
  /\ named'    = [named EXCEPT ![p] = << >>]
  /\ UNCHANGED <<recVars, sseVars, pipeVars>>

NameRequest(p) ==
  LET i == Len(named[p]) + 1 IN
  /\ i <= Len(snapshot[p])
  /\ named' = [named EXCEPT ![p] = Append(@, snapshot[p][i])]
  /\ UNCHANGED <<snapshot, recVars, sseVars, pipeVars>>

FinishPass(p) ==
  /\ snapshot[p] # << >>
  /\ Len(named[p]) = Len(snapshot[p])
  /\ snapshot' = [snapshot EXCEPT ![p] = << >>]
  /\ UNCHANGED <<named, recVars, sseVars, pipeVars>>

-------------------------------------------------------------------------------

Recording   == \E r \in Recorders, k \in Kinds : Record(r, k)
FanOut(r)   == \E s \in Subs : Send(r, s) \/ Drop(r, s)
Serving(s)  ==
  Connect(s) \/ Stall(s) \/ Disconnect(s) \/ \E k \in Kinds : Receive(s, k)
Polling(p)  == TakeSnapshot(p) \/ NameRequest(p) \/ FinishPass(p)

Next ==
  \/ Recording
  \/ \E r \in Recorders : FanOut(r)
  \/ \E s \in Subs : Serving(s)
  \/ \E p \in Pollers : Polling(p)

Spec == Init /\ [][Next]_vars

(* A goroutine inside record always continues; an SSE handler whose channel
   holds an entry takes it unless it is blocked.  Nothing obliges agents to make
   requests, clients to connect, read or leave, or the app to poll. *)
Fairness ==
  /\ \A r \in Recorders : WF_vars(FanOut(r))
  /\ \A s \in Subs, k \in Kinds : WF_vars(Receive(s, k))

FairSpec == Spec /\ Fairness

(***************************************************************************)
(* Properties                                                              *)
(***************************************************************************)

SeqElems(s) == {s[i] : i \in 1 .. Len(s)}

(* Type correctness of the server, its handlers and its pollers, with the two
   bounds that keep an always-on daemon small: no history outgrows maxCaptures
   and no channel its capacity. *)
TypeOK ==
  /\ \A k \in Kinds : Len(ring[k]) <= RingMax
  /\ \A s \in Subs, k \in Kinds : Len(queue[s][k]) <= ChanCap
  /\ author \in [Kinds -> Seq(Recorders)]
  /\ during \in [Kinds -> Seq(SUBSET Nat)]
  /\ ring \in [Kinds -> Seq(Nat)]
  /\ registered \in [Kinds -> SUBSET Subs]
  /\ channel \in [Subs -> [Kinds -> {"unmade", "open", "closed"}]]
  /\ queue \in [Subs -> [Kinds -> Seq(Nat)]]
  /\ entry \in [Recorders -> [kind : Kinds, n : Nat]]
  /\ targets \in [Recorders -> SUBSET Subs]
  /\ handler \in [Subs -> Stages]
  /\ sent \in [Subs -> [Kinds -> Seq(Nat)]]
  /\ dropped \in [Subs -> [Kinds -> SUBSET Nat]]
  /\ since \in [Subs -> [Kinds -> Nat]]
  /\ until \in [Subs -> [Kinds -> Nat]]
  /\ snapshot \in [Pollers -> Seq(Nat)]
  /\ named \in [Pollers -> Seq(Nat)]

(* How many of n entries a history retains. *)
Kept(n) == IF n < RingMax THEN n ELSE RingMax

(* The history is at every moment exactly the most recent entries, oldest
   first, none missing and none twice, however many goroutines record at once
   (record: append, then keep the last maxCaptures). *)
RingIsLatest ==
  \A k \in Kinds :
    LET kept == Kept(Recorded(k)) IN
    /\ Len(ring[k]) = kept
    /\ \A i \in 1 .. kept : ring[k][i] = Recorded(k) - kept + i

(* The entries a handler is owed: recorded after it subscribed and, when it
   has left, before it did. *)
Owed(s, k) ==
  IF s \in registered[k] THEN since[s][k] + 1 .. Recorded(k)
                         ELSE since[s][k] + 1 .. until[s][k]

Written(s, k) == SeqElems(sent[s][k])
Waiting(s, k) == SeqElems(queue[s][k])
Pending(s, k) ==
  {entry[r].n : r \in {q \in Recorders : s \in targets[q] /\ entry[q].kind = k}}

(* Every entry recorded while a handler is subscribed has exactly one fate at
   that handler: written to the client, waiting in its channel, about to be
   sent by the goroutine that recorded it, or dropped; and no other entry
   reaches it (no replay of older ones, none after it left). *)
OneFateAt(s, k) ==
  /\ Owed(s, k) = Written(s, k) \union Waiting(s, k)
                    \union Pending(s, k) \union dropped[s][k]
  /\ Written(s, k) \intersect Waiting(s, k) = {}
  /\ (Written(s, k) \union Waiting(s, k))
       \intersect (Pending(s, k) \union dropped[s][k]) = {}
  /\ Pending(s, k) \intersect dropped[s][k] = {}

OneFate == \A s \in Subs, k \in Kinds : OneFateAt(s, k)

(* A goroutine about to send never holds a channel that was closed or never
   made: sending on a closed channel would panic the daemon, and record sends
   without the lock, so handlers do leave while their channel is a target. *)
PendingSendsAreSafe ==
  \A r \in Recorders : \A s \in targets[r] : channel[s][entry[r].kind] = "open"

(* Sends run after the unlock, so entries of two connections may overtake each
   other on the way to a client, but no further than that: an entry arrives
   ahead of an older one only if another connection recorded it while the older
   one was still being sent.  What a connection records arrives in order, and an
   entry whose record had returned is never overtaken by one recorded since. *)
ArrivalOrder ==
  \A s \in Subs, k \in Kinds :
    LET stream == sent[s][k] \o queue[s][k] IN
    \A i, j \in 1 .. Len(stream) :
      LET early == stream[i]
          late  == stream[j] IN
      (i < j /\ early > late) => /\ author[k][early] # author[k][late]
                                /\ late \in during[k][early]

(* In one pass the request ids name consecutive captures, each once, although
   the history rotates while the pass runs (observations indexes its copy). *)
IdsNameConsecutiveCaptures ==
  \A p \in Pollers : \A i \in 1 .. Len(named[p]) :
    named[p][i] = named[p][1] + i - 1

(* record never waits for a consumer: a goroutine that has taken the lock
   finishes its fan-out even when no client ever reads again. *)
RecorderReturns == \A r \in Recorders : (targets[r] # {}) ~> (targets[r] = {})

===============================================================================
