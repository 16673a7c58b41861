--------------------------- MODULE CaptureHubProofs ---------------------------
(***************************************************************************)
(* Proofs about CaptureHub for any number of goroutines, any history and   *)
(* channel bounds and any number of entries.                               *)
(***************************************************************************)
EXTENDS CaptureHub, SequenceTheorems, TLAPS

(***************************************************************************)
(* The inductive strengthening of OneFate.                                 *)
(***************************************************************************)

(* Which registries a handler is in follows from how far handleSSE has got. *)
HandlerInv ==
  \A s \in Subs :
    /\ s \in registered["capture"] <=> handler[s] \in {"half", "live", "stalled", "leaving"}
    /\ s \in registered["bypass"] <=> handler[s] \in {"live", "stalled"}
    /\ handler[s] = "new" => since[s]["capture"] = 0 /\ until[s]["capture"] = 0
    /\ handler[s] \in {"new", "half"} =>
         since[s]["bypass"] = 0 /\ until[s]["bypass"] = 0

(* Nothing refers to an entry that was not recorded yet. *)
PastInv ==
  /\ \A s \in Subs, k \in Kinds :
       since[s][k] <= Recorded(k) /\ until[s][k] <= Recorded(k)
  /\ \A r \in Recorders : entry[r].n <= Recorded(entry[r].kind)

(* Two goroutines never fan out the same entry. *)
DistinctEntries ==
  \A r, q \in Recorders :
    (r # q /\ targets[r] # {} /\ targets[q] # {} /\ entry[r].kind = entry[q].kind)
      => entry[r].n # entry[q].n

OneToOne(q) == \A i, j \in 1 .. Len(q) : i # j => q[i] # q[j]

QueueInv == \A s \in Subs, k \in Kinds : OneToOne(queue[s][k])

FateInv ==
  /\ TypeOK
  /\ HandlerInv
  /\ PastInv
  /\ DistinctEntries
  /\ QueueInv
  /\ OneFate

-------------------------------------------------------------------------------
(* Facts about sequences of entry numbers. *)

LEMMA AppendElems ==
  ASSUME NEW q \in Seq(Nat), NEW e \in Nat
  PROVE  /\ Append(q, e) \in Seq(Nat)
         /\ SeqElems(Append(q, e)) = SeqElems(q) \union {e}
         /\ (OneToOne(q) /\ e \notin SeqElems(q)) => OneToOne(Append(q, e))
<1> DEFINE p == Append(q, e)
<1>1. /\ p \in Seq(Nat)
      /\ Len(p) = Len(q) + 1
      /\ Len(q) \in Nat
      /\ p[Len(q) + 1] = e
      /\ \A i \in 1 .. Len(q) : p[i] = q[i]
  OBVIOUS
<1> HIDE DEF p
<1>2. SeqElems(p) = SeqElems(q) \union {e}
  <2>1. 1 .. Len(p) = (1 .. Len(q)) \union {Len(q) + 1}
    BY <1>1
  <2>2. QED
    BY <1>1, <2>1 DEF SeqElems
<1>3. ASSUME OneToOne(q), e \notin SeqElems(q)
      PROVE  OneToOne(p)
  <2>1. ASSUME NEW i \in 1 .. Len(p), NEW j \in 1 .. Len(p), i # j
        PROVE  p[i] # p[j]
    <3>1. CASE i \in 1 .. Len(q) /\ j \in 1 .. Len(q)
      BY <1>1, <1>3, <2>1, <3>1 DEF OneToOne
    <3>2. CASE i = Len(q) + 1
      <4>1. j \in 1 .. Len(q)
        BY <1>1, <2>1, <3>2
      <4>2. QED
        BY <1>1, <1>3, <3>2, <4>1 DEF SeqElems
    <3>3. CASE j = Len(q) + 1
      <4>1. i \in 1 .. Len(q)
        BY <1>1, <2>1, <3>3
      <4>2. QED
        BY <1>1, <1>3, <3>3, <4>1 DEF SeqElems
    <3>4. QED
      BY <1>1, <3>1, <3>2, <3>3
  <2>2. QED
    BY <2>1 DEF OneToOne
<1>4. QED
  BY <1>1, <1>2, <1>3 DEF p

LEMMA TailElems ==
  ASSUME NEW q \in Seq(Nat), q # << >>
  PROVE  /\ Head(q) \in Nat
         /\ Tail(q) \in Seq(Nat)
         /\ Head(q) \in SeqElems(q)
         /\ OneToOne(q) => /\ OneToOne(Tail(q))
                           /\ SeqElems(Tail(q)) = SeqElems(q) \ {Head(q)}
<1> DEFINE t == Tail(q)
<1>1. /\ t \in Seq(Nat)
      /\ Len(q) \in Nat \ {0}
      /\ Len(t) = Len(q) - 1
      /\ Head(q) = q[1]
      /\ \A i \in 1 .. Len(t) : t[i] = q[i + 1]
  OBVIOUS
<1> HIDE DEF t
<1>2. Head(q) \in Nat /\ Head(q) \in SeqElems(q)
  BY <1>1 DEF SeqElems
<1>3. ASSUME OneToOne(q)
      PROVE  OneToOne(t) /\ SeqElems(t) = SeqElems(q) \ {Head(q)}
  <2>1. OneToOne(t)
    <3>1. ASSUME NEW i \in 1 .. Len(t), NEW j \in 1 .. Len(t), i # j
          PROVE  t[i] # t[j]
      <4>1. i + 1 \in 1 .. Len(q) /\ j + 1 \in 1 .. Len(q) /\ i + 1 # j + 1
        BY <1>1, <3>1
      <4>2. QED
        BY <1>1, <1>3, <4>1 DEF OneToOne
    <3>2. QED
      BY <3>1 DEF OneToOne
  <2>2. ASSUME NEW x \in SeqElems(t)
        PROVE  x \in SeqElems(q) \ {Head(q)}
    <3>1. PICK i \in 1 .. Len(t) : x = t[i]
      BY DEF SeqElems
    <3>2. i + 1 \in 1 .. Len(q) /\ i + 1 # 1 /\ 1 \in 1 .. Len(q)
      BY <1>1
    <3>3. x = q[i + 1] /\ q[i + 1] # q[1]
      BY <1>1, <1>3, <3>1, <3>2 DEF OneToOne
    <3>4. QED
      BY <1>1, <3>2, <3>3 DEF SeqElems
  <2>3. ASSUME NEW x \in SeqElems(q) \ {Head(q)}
        PROVE  x \in SeqElems(t)
    <3>1. PICK i \in 1 .. Len(q) : x = q[i]
      BY DEF SeqElems
    <3>2. i - 1 \in 1 .. Len(t) /\ (i - 1) + 1 = i
      BY <1>1, <2>3, <3>1
    <3>3. x = t[i - 1]
      BY <1>1, <3>1, <3>2
    <3>4. QED
      BY <3>2, <3>3 DEF SeqElems
  <2>4. QED
    BY <2>1, <2>2, <2>3
<1>4. QED
  BY <1>1, <1>2, <1>3 DEF t

(* Trimming keeps the last RingMax elements in their order. *)
LEMMA TrimLatest ==
  ASSUME NEW q \in Seq(Nat)
  PROVE  /\ Trim(q) \in Seq(Nat)
         /\ Len(Trim(q)) = Kept(Len(q))
         /\ \A i \in 1 .. Kept(Len(q)) : Trim(q)[i] = q[Len(q) - Kept(Len(q)) + i]
<1>1. CASE Len(q) > RingMax
  <2> DEFINE m == Len(q) - RingMax + 1
             n == Len(q)
  <2>1. m \in Int /\ n \in Int /\ m <= n /\ n - m + 1 = RingMax
    BY <1>1, HubAssumption
  <2>2. \A i \in m .. n : q[i] \in Nat
    BY <1>1, HubAssumption
  <2>3. /\ SubSeq(q, m, n) \in Seq(Nat)
        /\ Len(SubSeq(q, m, n)) = RingMax
        /\ \A i \in 1 .. RingMax : SubSeq(q, m, n)[i] = q[m + i - 1]
    BY <2>1, <2>2, SubSeqProperties
  <2>4. \A i \in 1 .. RingMax : m + i - 1 = Len(q) - RingMax + i
    BY HubAssumption
  <2>5. Trim(q) = SubSeq(q, m, n)
    BY <1>1 DEF Trim
  <2>6. Kept(Len(q)) = RingMax
    BY <1>1, HubAssumption DEF Kept
  <2> HIDE DEF m, n
  <2>7. QED
    BY <2>3, <2>4, <2>5, <2>6
<1>2. CASE ~(Len(q) > RingMax)
  <2>1. Trim(q) = q
    BY <1>2 DEF Trim
  <2>2. Kept(Len(q)) = Len(q)
    BY <1>2, HubAssumption DEF Kept
  <2>3. \A i \in 1 .. Len(q) : Len(q) - Len(q) + i = i
    OBVIOUS
  <2>4. QED
    BY <2>1, <2>2, <2>3
<1>3. QED
  BY <1>1, <1>2

LEMMA KeptBound ==
  ASSUME NEW q \in Seq(Nat)
  PROVE  Kept(Len(q)) \in Nat /\ Kept(Len(q)) <= RingMax
BY HubAssumption DEF Kept

-------------------------------------------------------------------------------
(* Type correctness. *)

LEMMA InitTypeOK == Init => TypeOK
BY HubAssumption, EmptySeq
DEF Stages, Init, TypeOK, Kinds, NoEntry

LEMMA NextTypeOK == TypeOK /\ [Next]_vars => TypeOK'
<1> SUFFICES ASSUME TypeOK, [Next]_vars PROVE TypeOK'
  OBVIOUS
<1> USE DEF TypeOK, sseVars, recVars, pipeVars, pollVars
<1>1. ASSUME NEW r \in Recorders, NEW k \in Kinds, Record(r, k)
      PROVE  TypeOK'
  <2>1. Recorded(k) + 1 \in Nat
    BY DEF Recorded
  <2>2. Append(ring[k], Recorded(k) + 1) \in Seq(Nat)
    BY <2>1, AppendElems
  <2>3. /\ Trim(Append(ring[k], Recorded(k) + 1)) \in Seq(Nat)
        /\ Len(Trim(Append(ring[k], Recorded(k) + 1))) <= RingMax
    BY <2>2, TrimLatest, KeptBound
  <2>4. ring' \in [Kinds -> Seq(Nat)] /\ \A j \in Kinds : Len(ring'[j]) <= RingMax
    BY <1>1, <2>3 DEF Record
  <2>5. author' \in [Kinds -> Seq(Recorders)]
    BY <1>1 DEF Record
  <2>6. entry' \in [Recorders -> [kind : Kinds, n : Nat]]
    BY <1>1, <2>1 DEF Record
  <2>7. targets' \in [Recorders -> SUBSET Subs]
    BY <1>1 DEF Record
  <2>8. InFlight(k) \in SUBSET Nat
    BY DEF InFlight
  <2>9. during' \in [Kinds -> Seq(SUBSET Nat)]
    BY <1>1, <2>8 DEF Record
  <2>10. QED
    BY <1>1, <2>4, <2>5, <2>6, <2>7, <2>9 DEF Record
<1>2. ASSUME NEW r \in Recorders, NEW s \in Subs, Send(r, s)
      PROVE  TypeOK'
  <2> DEFINE k == entry[r].kind
             n == entry[r].n
  <2>1. k \in Kinds /\ n \in Nat
    OBVIOUS
  <2> HIDE DEF k, n
  <2>2. /\ Append(queue[s][k], n) \in Seq(Nat)
        /\ Len(Append(queue[s][k], n)) <= ChanCap
    BY <1>2, <2>1, HubAssumption DEF Send, HasRoom, k
  <2>3. queue' = [queue EXCEPT ![s][k] = Append(@, n)]
    BY <1>2 DEF Send, k, n
  <2>4. queue' \in [Subs -> [Kinds -> Seq(Nat)]]
    BY <2>1, <2>2, <2>3
  <2>5. \A t \in Subs, j \in Kinds : Len(queue'[t][j]) <= ChanCap
    BY <2>1, <2>2, <2>3
  <2>6. QED
    BY <1>2, <2>4, <2>5 DEF Send
<1>3. ASSUME NEW r \in Recorders, NEW s \in Subs, Drop(r, s)
      PROVE  TypeOK'
  <2> DEFINE k == entry[r].kind
             n == entry[r].n
  <2>1. k \in Kinds /\ n \in Nat
    OBVIOUS
  <2> HIDE DEF k, n
  <2>2. dropped' = [dropped EXCEPT ![s][k] = @ \union {n}]
    BY <1>3 DEF Drop, k, n
  <2>3. dropped' \in [Subs -> [Kinds -> SUBSET Nat]]
    BY <2>1, <2>2
  <2>4. QED
    BY <1>3, <2>3 DEF Drop
<1>4. ASSUME NEW s \in Subs, Connect(s)
      PROVE  TypeOK'
  <2>1. ASSUME NEW k \in Kinds, NEW from, NEW to \in {"half", "live"},
               Subscribe(s, k, from, to)
        PROVE  TypeOK'
    <3>1. Recorded(k) \in Nat
      BY DEF Recorded
    <3>2. since' \in [Subs -> [Kinds -> Nat]]
      BY <2>1, <3>1 DEF Subscribe
    <3>3. channel' \in [Subs -> [Kinds -> {"unmade", "open", "closed"}]]
      BY <2>1 DEF Subscribe
    <3>4. /\ registered' \in [Kinds -> SUBSET Subs]
          /\ handler' \in [Subs -> Stages]
      BY <2>1 DEF Subscribe, Stages
    <3>5. QED
      BY <2>1, <3>2, <3>3, <3>4 DEF Subscribe
  <2>2. QED
    BY <1>4, <2>1 DEF Connect, Kinds
<1>5. ASSUME NEW s \in Subs, Disconnect(s)
      PROVE  TypeOK'
  <2>1. ASSUME NEW k \in Kinds, NEW from, NEW to \in {"leaving", "gone"},
               Unsubscribe(s, k, from, to)
        PROVE  TypeOK'
    <3>1. Recorded(k) \in Nat
      BY DEF Recorded
    <3>2. until' \in [Subs -> [Kinds -> Nat]]
      BY <2>1, <3>1 DEF Unsubscribe
    <3>3. /\ registered' \in [Kinds -> SUBSET Subs]
          /\ handler' \in [Subs -> Stages]
      BY <2>1 DEF Unsubscribe, Stages
    <3>4. QED
      BY <2>1, <3>2, <3>3 DEF Unsubscribe
  <2>2. QED
    BY <1>5, <2>1 DEF Disconnect, Kinds
<1>6. ASSUME NEW s \in Subs, NEW k \in Kinds, Receive(s, k)
      PROVE  TypeOK'
  <2> DEFINE q == queue[s][k]
  <2>1. q \in Seq(Nat) /\ q # << >> /\ Len(q) <= ChanCap
    BY <1>6 DEF Receive
  <2>2. /\ Head(q) \in Nat /\ Tail(q) \in Seq(Nat)
        /\ Len(Tail(q)) <= ChanCap
    BY <2>1, HubAssumption
  <2>3. Append(sent[s][k], Head(q)) \in Seq(Nat)
    BY <2>2
  <2>4. /\ sent'  = [sent EXCEPT ![s][k] = Append(sent[s][k], Head(q))]
        /\ queue' = [queue EXCEPT ![s][k] = Tail(q)]
    BY <1>6 DEF Receive
  <2> HIDE DEF q
  <2>5. sent' \in [Subs -> [Kinds -> Seq(Nat)]]
    BY <2>3, <2>4
  <2>6. /\ queue' \in [Subs -> [Kinds -> Seq(Nat)]]
        /\ \A t \in Subs, j \in Kinds : Len(queue'[t][j]) <= ChanCap
    BY <2>2, <2>4
  <2>7. QED
    BY <1>6, <2>5, <2>6 DEF Receive
<1>7. ASSUME NEW p \in Pollers, Polling(p)
      PROVE  TypeOK'
  <2>1. CASE TakeSnapshot(p)
    BY <2>1, EmptySeq DEF TakeSnapshot, Kinds
  <2>2. CASE NameRequest(p)
    BY <2>2 DEF NameRequest
  <2>3. CASE FinishPass(p)
    BY <2>3, EmptySeq DEF FinishPass
  <2>4. QED
    BY <1>7, <2>1, <2>2, <2>3 DEF Polling
<1>8. ASSUME NEW s \in Subs, Stall(s)
      PROVE  TypeOK'
  BY <1>8 DEF Stall, Stages
<1>9. CASE UNCHANGED vars
  BY <1>9 DEF vars
<1>10. QED
  BY <1>1, <1>2, <1>3, <1>4, <1>5, <1>6, <1>7, <1>8, <1>9
  DEF Next, Recording, FanOut, Serving

(* The server, its handlers and its pollers stay within their types, no
   history outgrows maxCaptures and no channel its capacity. *)
THEOREM TypeCorrect == Spec => []TypeOK
BY InitTypeOK, NextTypeOK, PTL DEF Spec

-------------------------------------------------------------------------------
(* The history is the most recent entries. *)

LEMMA RecordKeepsLatest ==
  ASSUME TypeOK, RingIsLatest, NEW r \in Recorders, NEW k \in Kinds, Record(r, k)
  PROVE  RingIsLatest'
<1> DEFINE n == Recorded(k)
           h == Append(ring[k], n + 1)
<1>1. n \in Nat /\ Recorded(k)' = n + 1
  BY DEF TypeOK, Record, Recorded
<1>2. ring[k] \in Seq(Nat) /\ Len(ring[k]) = Kept(n)
      /\ \A i \in 1 .. Kept(n) : ring[k][i] = n - Kept(n) + i
  BY DEF TypeOK, RingIsLatest
<1>3. /\ h \in Seq(Nat)
      /\ Len(h) = Kept(n) + 1
      /\ h[Kept(n) + 1] = n + 1
      /\ \A i \in 1 .. Kept(n) : h[i] = n - Kept(n) + i
  BY <1>1, <1>2
<1>4. ring'[k] = Trim(h) /\ \A j \in Kinds \ {k} : ring'[j] = ring[j]
  BY DEF TypeOK, Record
<1>5. \A j \in Kinds \ {k} : Recorded(j)' = Recorded(j)
  BY DEF TypeOK, Record, Recorded
<1> HIDE DEF n, h
<1>6. /\ Len(Trim(h)) = Kept(Len(h))
      /\ \A i \in 1 .. Kept(Len(h)) : Trim(h)[i] = h[Len(h) - Kept(Len(h)) + i]
  BY <1>3, TrimLatest
<1>7. /\ Len(Trim(h)) = Kept(n + 1)
      /\ \A i \in 1 .. Kept(n + 1) : Trim(h)[i] = (n + 1) - Kept(n + 1) + i
  <2>1. CASE n < RingMax
    <3>1. Kept(n) = n /\ Len(h) = n + 1 /\ Kept(n + 1) = n + 1
      BY <1>1, <1>3, <2>1, HubAssumption DEF Kept
    <3>2. \A i \in 1 .. n + 1 : h[i] = i
      BY <1>1, <1>3, <3>1
    <3>3. QED
      BY <1>1, <1>6, <3>1, <3>2
  <2>2. CASE ~(n < RingMax)
    <3>1. Kept(n) = RingMax /\ Len(h) = RingMax + 1 /\ Kept(n + 1) = RingMax
          /\ Kept(RingMax + 1) = RingMax
      BY <1>1, <1>3, <2>2, HubAssumption DEF Kept
    <3>2. \A i \in 1 .. RingMax : Trim(h)[i] = h[i + 1]
      BY <1>6, <3>1, HubAssumption
    <3>3. ASSUME NEW i \in 1 .. RingMax
          PROVE  h[i + 1] = (n + 1) - RingMax + i
      BY <1>1, <1>3, <3>1, HubAssumption
    <3>4. QED
      BY <1>6, <3>1, <3>2, <3>3
  <2>3. QED
    BY <2>1, <2>2
<1>8. QED
  BY <1>1, <1>4, <1>5, <1>7 DEF RingIsLatest

(* However many goroutines record at once, the daemon's histories hold exactly
   the maxCaptures most recent captures and bypasses, in order. *)
THEOREM LatestHistory == Spec => []RingIsLatest
<1>1. Init => RingIsLatest
  BY HubAssumption DEF Init, RingIsLatest, Recorded, Kept, Kinds
<1>2. TypeOK /\ RingIsLatest /\ [Next]_vars => RingIsLatest'
  <2> SUFFICES ASSUME TypeOK, RingIsLatest, [Next]_vars PROVE RingIsLatest'
    OBVIOUS
  <2>1. ASSUME NEW r \in Recorders, NEW k \in Kinds, Record(r, k)
        PROVE  RingIsLatest'
    BY <2>1, RecordKeepsLatest
  <2>2. ASSUME UNCHANGED <<ring, author>>
        PROVE  RingIsLatest'
    BY <2>2 DEF RingIsLatest, Recorded
  <2>3. (\E r \in Recorders : FanOut(r)) \/ (\E s \in Subs : Serving(s))
          \/ (\E p \in Pollers : Polling(p)) \/ UNCHANGED vars
          => UNCHANGED <<ring, author>>
    BY DEF FanOut, Send, Drop, Serving, Connect, Stall, Disconnect,
           Subscribe, Unsubscribe, Receive, Polling, TakeSnapshot, NameRequest,
           FinishPass, vars, recVars
  <2>4. QED
    BY <2>1, <2>2, <2>3 DEF Next, Recording
<1>3. QED
  BY <1>1, <1>2, TypeCorrect, PTL DEF Spec

-------------------------------------------------------------------------------
(* Every owed entry has one fate: the steps of the inductive invariant. *)

(* A new entry is owed to, and pending at, the handlers registered for it. *)
LEMMA RecordFate ==
  ASSUME FateInv, NEW r \in Recorders, NEW k0 \in Kinds, Record(r, k0), TypeOK'
  PROVE  FateInv'
<1> DEFINE n0 == Recorded(k0) + 1
<1> USE DEF FateInv
<1>1. /\ \A k \in Kinds : Len(author[k]) \in Nat
      /\ n0 \in Nat /\ n0 = Len(author[k0]) + 1
      /\ Len(author'[k0]) = n0
      /\ \A k \in Kinds \ {k0} : Len(author'[k]) = Len(author[k])
  BY DEF TypeOK, Record, Recorded
<1>2. /\ entry'[r].kind = k0 /\ entry'[r].n = n0
      /\ \A q \in Recorders \ {r} : entry'[q] = entry[q] /\ targets'[q] = targets[q]
      /\ targets[r] = {} /\ targets'[r] = registered[k0]
  BY DEF TypeOK, Record
<1>3. UNCHANGED <<registered, channel, queue, handler, sent, dropped, since, until>>
  BY DEF Record, sseVars, pipeVars
<1>4. \A q \in Recorders : entry[q].kind \in Kinds /\ entry[q].n \in Nat
  BY DEF TypeOK
<1>5. \A s \in Subs, k \in Kinds :
        since[s][k] \in Nat /\ until[s][k] \in Nat /\ dropped[s][k] \in SUBSET Nat
  BY DEF TypeOK
<1> HIDE DEF n0
<1>6. HandlerInv'
  BY <1>3 DEF HandlerInv
<1>7. PastInv'
  <2>1. \A k \in Kinds : Len(author[k]) <= Len(author'[k])
    BY <1>1
  <2>2. \A s \in Subs, k \in Kinds :
          since'[s][k] <= Len(author'[k]) /\ until'[s][k] <= Len(author'[k])
    BY <1>1, <1>3, <1>5, <2>1 DEF PastInv, Recorded
  <2>3. ASSUME NEW q \in Recorders
        PROVE  entry'[q].n <= Len(author'[entry'[q].kind])
    <3>1. CASE q = r
      BY <1>1, <1>2, <3>1
    <3>2. CASE q # r
      <4>1. entry'[q] = entry[q] /\ entry[q].n <= Len(author[entry[q].kind])
        BY <1>2, <3>2 DEF PastInv, Recorded
      <4>2. QED
        BY <1>1, <1>4, <2>1, <4>1
    <3>3. QED
      BY <3>1, <3>2
  <2>4. QED
    BY <2>2, <2>3 DEF PastInv, Recorded
<1>8. DistinctEntries'
  <2>1. ASSUME NEW q \in Recorders \ {r}, entry'[q].kind = k0
        PROVE  entry'[q].n # n0
    BY <1>1, <1>2, <1>4, <2>1 DEF PastInv, Recorded
  <2>2. QED
    BY <1>2, <2>1 DEF DistinctEntries
<1>9. QueueInv'
  BY <1>3 DEF QueueInv, OneToOne
<1>10. ASSUME NEW s \in Subs, NEW k \in Kinds
       PROVE  /\ Written(s, k)' = Written(s, k)
              /\ Waiting(s, k)' = Waiting(s, k)
              /\ Owed(s, k)' = IF k = k0 /\ s \in registered[k0]
                               THEN Owed(s, k) \union {n0} ELSE Owed(s, k)
              /\ Pending(s, k)' = IF k = k0 /\ s \in registered[k0]
                                  THEN Pending(s, k) \union {n0} ELSE Pending(s, k)
              /\ k = k0 => n0 \notin Owed(s, k)
  <2>1. Written(s, k)' = Written(s, k) /\ Waiting(s, k)' = Waiting(s, k)
    BY <1>3 DEF Written, Waiting, SeqElems
  <2>2. /\ since[s][k] <= Len(author[k]) /\ until[s][k] <= Len(author[k])
        /\ since[s][k] \in Nat /\ until[s][k] \in Nat
    BY <1>5 DEF PastInv, Recorded
  <2>3. /\ Owed(s, k)' = IF k = k0 /\ s \in registered[k0]
                         THEN Owed(s, k) \union {n0} ELSE Owed(s, k)
        /\ k = k0 => n0 \notin Owed(s, k)
    <3>1. CASE k = k0
      <4>1. /\ (since[s][k] + 1 .. n0) = (since[s][k] + 1 .. Len(author[k])) \union {n0}
            /\ n0 \notin since[s][k] + 1 .. Len(author[k])
            /\ n0 \notin since[s][k] + 1 .. until[s][k]
        BY <1>1, <2>2, <3>1
      <4>2. Len(author'[k]) = n0
        BY <1>1, <3>1
      <4>3. CASE s \in registered[k]
        BY <1>3, <3>1, <4>1, <4>2, <4>3 DEF Owed, Recorded
      <4>4. CASE s \notin registered[k]
        BY <1>3, <3>1, <4>1, <4>4 DEF Owed
      <4>5. QED
        BY <4>3, <4>4
    <3>2. CASE k # k0
      BY <1>1, <1>3, <2>2, <3>2 DEF Owed, Recorded
    <3>3. QED
      BY <3>1, <3>2
  <2>4. Pending(s, k)' = IF k = k0 /\ s \in registered[k0]
                         THEN Pending(s, k) \union {n0} ELSE Pending(s, k)
    BY <1>2 DEF Pending
  <2>5. QED
    BY <2>1, <2>3, <2>4
<1>11. ASSUME NEW s \in Subs, NEW k \in Kinds
       PROVE  OneFateAt(s, k)'
  <2>1. OneFateAt(s, k) /\ dropped'[s][k] = dropped[s][k]
    BY <1>3 DEF OneFate
  <2>2. QED
    BY <1>10, <2>1 DEF OneFateAt
<1>12. QED
  BY <1>6, <1>7, <1>8, <1>9, <1>11 DEF OneFate

(* A sent entry moves from the goroutine that recorded it to the channel. *)
LEMMA SendFate ==
  ASSUME FateInv, NEW r \in Recorders, NEW s0 \in Subs, Send(r, s0), TypeOK'
  PROVE  FateInv'
<1> USE DEF FateInv
<1>0. PICK k0 \in Kinds, n0 \in Nat : k0 = entry[r].kind /\ n0 = entry[r].n
  BY DEF TypeOK
<1>1. /\ s0 \in targets[r] /\ targets' = [targets EXCEPT ![r] = @ \ {s0}]
      /\ queue' = [queue EXCEPT ![s0][k0] = Append(@, n0)]
      /\ UNCHANGED <<author, entry, sent, dropped, registered, handler, since, until>>
  BY <1>0 DEF Send, sseVars
<1>2. queue[s0][k0] \in Seq(Nat) /\ queue \in [Subs -> [Kinds -> Seq(Nat)]]
  BY DEF TypeOK
<1>3. /\ DistinctEntries'
      /\ n0 \in Pending(s0, k0)
      /\ Pending(s0, k0)' = Pending(s0, k0) \ {n0}
      /\ \A s \in Subs, k \in Kinds :
           (s # s0 \/ k # k0) => Pending(s, k)' = Pending(s, k)
  <2>1. /\ targets'[r] = targets[r] \ {s0}
        /\ \A q \in Recorders \ {r} : targets'[q] = targets[q]
    BY <1>1 DEF TypeOK
  <2>2. DistinctEntries'
    BY <1>1, <2>1 DEF DistinctEntries
  <2>3. n0 \in Pending(s0, k0)
    BY <1>0, <1>1 DEF Pending
  <2>4. Pending(s0, k0)' = Pending(s0, k0) \ {n0}
    BY <1>0, <1>1, <2>1 DEF Pending, DistinctEntries
  <2>5. ASSUME NEW s \in Subs, NEW k \in Kinds, s # s0 \/ k # k0
        PROVE  Pending(s, k)' = Pending(s, k)
    BY <1>0, <1>1, <2>1, <2>5 DEF Pending
  <2>6. QED
    BY <2>2, <2>3, <2>4, <2>5
<1>4. /\ queue'[s0][k0] = Append(queue[s0][k0], n0)
      /\ \A s \in Subs, k \in Kinds :
           (s # s0 \/ k # k0) => queue'[s][k] = queue[s][k]
  BY <1>1, <1>2
<1>5. n0 \notin Waiting(s0, k0) /\ n0 \notin Written(s0, k0) /\ n0 \notin dropped[s0][k0]
  BY <1>2, <1>3 DEF OneFate, OneFateAt
<1>6. /\ Waiting(s0, k0)' = Waiting(s0, k0) \union {n0}
      /\ OneToOne(queue[s0][k0]) => OneToOne(queue'[s0][k0])
  <2>1. Waiting(s0, k0)' = SeqElems(queue'[s0][k0])
    BY DEF Waiting, SeqElems
  <2>2. QED
    BY <1>2, <1>4, <1>5, <2>1, AppendElems DEF Waiting
<1>7. \A s \in Subs, k \in Kinds :
        /\ (s # s0 \/ k # k0) => Waiting(s, k)' = Waiting(s, k)
        /\ Written(s, k)' = Written(s, k)
        /\ Owed(s, k)' = Owed(s, k)
  BY <1>1, <1>4 DEF Waiting, Written, SeqElems, Owed, Recorded
<1>8. QueueInv'
  <2>1. \A s \in Subs, k \in Kinds : OneToOne(queue'[s][k])
    BY <1>4, <1>6 DEF QueueInv
  <2>2. QED
    BY <2>1 DEF QueueInv, OneToOne
<1>9. ASSUME NEW s \in Subs, NEW k \in Kinds
      PROVE  OneFateAt(s, k)'
  <2>1. OneFateAt(s, k) /\ dropped'[s][k] = dropped[s][k]
    BY <1>1 DEF OneFate
  <2>2. CASE s = s0 /\ k = k0
    BY <1>3, <1>5, <1>6, <1>7, <2>1, <2>2 DEF OneFateAt
  <2>3. CASE s # s0 \/ k # k0
    BY <1>3, <1>7, <2>1, <2>3 DEF OneFateAt
  <2>4. QED
    BY <2>2, <2>3
<1>10. HandlerInv' /\ PastInv'
  BY <1>1 DEF HandlerInv, PastInv, Recorded
<1>11. QED
  BY <1>3, <1>8, <1>9, <1>10 DEF OneFate

(* A dropped entry moves from the goroutine that recorded it to the losses. *)
LEMMA DropFate ==
  ASSUME FateInv, NEW r \in Recorders, NEW s0 \in Subs, Drop(r, s0), TypeOK'
  PROVE  FateInv'
<1> USE DEF FateInv
<1>0. PICK k0 \in Kinds, n0 \in Nat : k0 = entry[r].kind /\ n0 = entry[r].n
  BY DEF TypeOK
<1>1. /\ s0 \in targets[r] /\ targets' = [targets EXCEPT ![r] = @ \ {s0}]
      /\ dropped' = [dropped EXCEPT ![s0][k0] = @ \union {n0}]
      /\ UNCHANGED <<author, entry, sent, queue, registered, handler, since, until>>
  BY <1>0 DEF Drop, sseVars
<1>3. /\ DistinctEntries'
      /\ n0 \in Pending(s0, k0)
      /\ Pending(s0, k0)' = Pending(s0, k0) \ {n0}
      /\ \A s \in Subs, k \in Kinds :
           (s # s0 \/ k # k0) => Pending(s, k)' = Pending(s, k)
  <2>1. /\ targets'[r] = targets[r] \ {s0}
        /\ \A q \in Recorders \ {r} : targets'[q] = targets[q]
    BY <1>1 DEF TypeOK
  <2>2. DistinctEntries'
    BY <1>1, <2>1 DEF DistinctEntries
  <2>3. n0 \in Pending(s0, k0)
    BY <1>0, <1>1 DEF Pending
  <2>4. Pending(s0, k0)' = Pending(s0, k0) \ {n0}
    BY <1>0, <1>1, <2>1 DEF Pending, DistinctEntries
  <2>5. ASSUME NEW s \in Subs, NEW k \in Kinds, s # s0 \/ k # k0
        PROVE  Pending(s, k)' = Pending(s, k)
    BY <1>0, <1>1, <2>1, <2>5 DEF Pending
  <2>6. QED
    BY <2>2, <2>3, <2>4, <2>5
<1>4. /\ dropped'[s0][k0] = dropped[s0][k0] \union {n0}
      /\ \A s \in Subs, k \in Kinds :
           (s # s0 \/ k # k0) => dropped'[s][k] = dropped[s][k]
  BY <1>1 DEF TypeOK
<1>5. \A s \in Subs, k \in Kinds :
        /\ Waiting(s, k)' = Waiting(s, k)
        /\ Written(s, k)' = Written(s, k)
        /\ Owed(s, k)' = Owed(s, k)
  BY <1>1 DEF Waiting, Written, SeqElems, Owed, Recorded
<1>6. ASSUME NEW s \in Subs, NEW k \in Kinds
      PROVE  OneFateAt(s, k)'
  <2>1. OneFateAt(s, k)
    BY DEF OneFate
  <2>2. CASE s = s0 /\ k = k0
    BY <1>3, <1>4, <1>5, <2>1, <2>2 DEF OneFateAt
  <2>3. CASE s # s0 \/ k # k0
    BY <1>3, <1>4, <1>5, <2>1, <2>3 DEF OneFateAt
  <2>4. QED
    BY <2>2, <2>3
<1>7. HandlerInv' /\ PastInv' /\ QueueInv'
  BY <1>1 DEF HandlerInv, PastInv, Recorded, QueueInv, OneToOne
<1>8. QED
  BY <1>3, <1>6, <1>7 DEF OneFate

(* A received entry moves from the channel to the client. *)
LEMMA ReceiveFate ==
  ASSUME FateInv, NEW s0 \in Subs, NEW k0 \in Kinds, Receive(s0, k0), TypeOK'
  PROVE  FateInv'
<1> DEFINE q == queue[s0][k0]
<1> USE DEF FateInv
<1>1. /\ q \in Seq(Nat) /\ q # << >>
      /\ sent'  = [sent EXCEPT ![s0][k0] = Append(@, Head(q))]
      /\ queue' = [queue EXCEPT ![s0][k0] = Tail(q)]
      /\ UNCHANGED <<author, entry, targets, dropped, registered, handler, since, until>>
  BY DEF Receive, sseVars, recVars, TypeOK
<1>2. /\ queue'[s0][k0] = Tail(q)
      /\ sent'[s0][k0] = Append(sent[s0][k0], Head(q))
      /\ \A s \in Subs, k \in Kinds : (s # s0 \/ k # k0) =>
           queue'[s][k] = queue[s][k] /\ sent'[s][k] = sent[s][k]
  <2>1. queue \in [Subs -> [Kinds -> Seq(Nat)]] /\ sent \in [Subs -> [Kinds -> Seq(Nat)]]
    BY DEF TypeOK
  <2> HIDE DEF q, FateInv
  <2>2. QED
    BY <1>1, <2>1
<1>3. sent[s0][k0] \in Seq(Nat) /\ OneToOne(q)
  BY DEF TypeOK, QueueInv
<1>4. /\ Head(q) \in Nat /\ Head(q) \in SeqElems(q)
      /\ OneToOne(Tail(q)) /\ SeqElems(Tail(q)) = SeqElems(q) \ {Head(q)}
  BY <1>1, <1>3, TailElems
<1>5. SeqElems(Append(sent[s0][k0], Head(q))) = SeqElems(sent[s0][k0]) \union {Head(q)}
  BY <1>3, <1>4, AppendElems
<1>6. /\ Waiting(s0, k0) = SeqElems(q)
      /\ Waiting(s0, k0)' = SeqElems(q) \ {Head(q)}
      /\ Written(s0, k0)' = Written(s0, k0) \union {Head(q)}
  <2>1. Waiting(s0, k0)' = SeqElems(queue'[s0][k0]) /\ Written(s0, k0)' = SeqElems(sent'[s0][k0])
    BY DEF Waiting, Written, SeqElems
  <2>2. QED
    BY <1>2, <1>4, <1>5, <2>1 DEF Waiting, Written
<1> HIDE DEF q
<1>7. \A s \in Subs, k \in Kinds :
        /\ (s # s0 \/ k # k0) => /\ Waiting(s, k)' = Waiting(s, k)
                                 /\ Written(s, k)' = Written(s, k)
        /\ Pending(s, k)' = Pending(s, k)
        /\ Owed(s, k)' = Owed(s, k)
  BY <1>1, <1>2 DEF Waiting, Written, SeqElems, Owed, Recorded, Pending
<1>8. ASSUME NEW s \in Subs, NEW k \in Kinds
      PROVE  OneFateAt(s, k)'
  <2>1. OneFateAt(s, k) /\ dropped'[s][k] = dropped[s][k]
    BY <1>1 DEF OneFate
  <2>2. CASE s = s0 /\ k = k0
    BY <1>4, <1>6, <1>7, <2>1, <2>2 DEF OneFateAt
  <2>3. CASE s # s0 \/ k # k0
    BY <1>7, <2>1, <2>3 DEF OneFateAt
  <2>4. QED
    BY <2>2, <2>3
<1>9. QueueInv'
  <2>1. \A s \in Subs, k \in Kinds : OneToOne(queue'[s][k])
    BY <1>2, <1>4 DEF QueueInv, q
  <2>2. QED
    BY <2>1 DEF QueueInv, OneToOne
<1>10. HandlerInv' /\ PastInv' /\ DistinctEntries'
  BY <1>1 DEF HandlerInv, PastInv, Recorded, DistinctEntries
<1>11. QED
  BY <1>8, <1>9, <1>10 DEF OneFate

(* Subscribing starts with nothing owed; unsubscribing freezes what is owed. *)
LEMMA SubscribeFate ==
  ASSUME FateInv, NEW s0 \in Subs, Connect(s0), TypeOK'
  PROVE  FateInv'
<1> USE DEF FateInv
<1>0. PICK k0 \in Kinds, from \in Stages, to \in Stages :
        /\ Subscribe(s0, k0, from, to)
        /\ \/ k0 = "capture" /\ from = "new" /\ to = "half"
           \/ k0 = "bypass" /\ from = "half" /\ to = "live"
  BY DEF Connect, Kinds, Stages
<1>1. /\ handler[s0] = from /\ handler'[s0] = to
      /\ \A s \in Subs \ {s0} : handler'[s] = handler[s]
      /\ registered'[k0] = registered[k0] \union {s0}
      /\ \A k \in Kinds \ {k0} : registered'[k] = registered[k]
      /\ since'[s0][k0] = Len(author[k0])
      /\ \A s \in Subs, k \in Kinds : (s # s0 \/ k # k0) => since'[s][k] = since[s][k]
      /\ UNCHANGED <<author, entry, targets, queue, sent, dropped, until>>
  BY <1>0 DEF Subscribe, recVars, pipeVars, TypeOK, Recorded
<1>2. /\ s0 \notin registered[k0] /\ since[s0][k0] = 0 /\ until[s0][k0] = 0
  BY <1>0, <1>1 DEF HandlerInv, Kinds
<1>3. HandlerInv'
  BY <1>0, <1>1 DEF HandlerInv, Kinds
<1>4. \A k \in Kinds : Len(author[k]) \in Nat
  BY DEF TypeOK
<1>5. PastInv'
  <2>1. \A s \in Subs, k \in Kinds : since'[s][k] <= Len(author'[k])
    BY <1>1, <1>4 DEF PastInv, Recorded
  <2>2. QED
    BY <1>1, <2>1 DEF PastInv, Recorded
<1>6. DistinctEntries' /\ QueueInv'
  BY <1>1 DEF DistinctEntries, QueueInv, OneToOne
<1>7. ASSUME NEW s \in Subs, NEW k \in Kinds
      PROVE  OneFateAt(s, k)'
  <2>1. /\ Written(s, k)' = Written(s, k)
        /\ Waiting(s, k)' = Waiting(s, k)
        /\ Pending(s, k)' = Pending(s, k)
        /\ dropped'[s][k] = dropped[s][k]
    BY <1>1 DEF Written, Waiting, Pending, SeqElems
  <2>2. Owed(s, k)' = Owed(s, k)
    <3>1. CASE s = s0 /\ k = k0
      <4>1. Owed(s, k) = 1 .. 0 /\ Owed(s, k)' = Len(author[k0]) + 1 .. Len(author[k0])
        BY <1>1, <1>2, <3>1 DEF Owed, Recorded
      <4>2. QED
        BY <1>4, <4>1
    <3>2. CASE s # s0 \/ k # k0
      BY <1>1, <3>2 DEF Owed, Recorded
    <3>3. QED
      BY <3>1, <3>2
  <2>3. QED
    BY <2>1, <2>2 DEF OneFate, OneFateAt
<1>8. QED
  BY <1>3, <1>5, <1>6, <1>7 DEF OneFate

LEMMA UnsubscribeFate ==
  ASSUME FateInv, NEW s0 \in Subs, Disconnect(s0), TypeOK'
  PROVE  FateInv'
<1> USE DEF FateInv
<1>0. PICK k0 \in Kinds, from \in Stages, to \in Stages :
        /\ Unsubscribe(s0, k0, from, to)
        /\ \/ k0 = "bypass" /\ from \in {"live", "stalled"} /\ to = "leaving"
           \/ k0 = "capture" /\ from = "leaving" /\ to = "gone"
  BY DEF Disconnect, Kinds, Stages
<1>1. /\ handler[s0] = from /\ handler'[s0] = to
      /\ \A s \in Subs \ {s0} : handler'[s] = handler[s]
      /\ registered'[k0] = registered[k0] \ {s0}
      /\ \A k \in Kinds \ {k0} : registered'[k] = registered[k]
      /\ until'[s0][k0] = Len(author[k0])
      /\ \A s \in Subs, k \in Kinds : (s # s0 \/ k # k0) => until'[s][k] = until[s][k]
      /\ UNCHANGED <<author, entry, targets, queue, sent, dropped, since>>
  BY <1>0 DEF Unsubscribe, recVars, pipeVars, TypeOK, Recorded
<1>2. s0 \in registered[k0]
  BY <1>0, <1>1 DEF HandlerInv
<1>3. HandlerInv'
  BY <1>0, <1>1 DEF HandlerInv, Kinds
<1>4. \A k \in Kinds : Len(author[k]) \in Nat
  BY DEF TypeOK
<1>5. PastInv'
  <2>1. \A s \in Subs, k \in Kinds : until'[s][k] <= Len(author'[k])
    BY <1>1, <1>4 DEF PastInv, Recorded
  <2>2. QED
    BY <1>1, <2>1 DEF PastInv, Recorded
<1>6. DistinctEntries' /\ QueueInv'
  BY <1>1 DEF DistinctEntries, QueueInv, OneToOne
<1>7. ASSUME NEW s \in Subs, NEW k \in Kinds
      PROVE  OneFateAt(s, k)'
  <2>1. /\ Written(s, k)' = Written(s, k)
        /\ Waiting(s, k)' = Waiting(s, k)
        /\ Pending(s, k)' = Pending(s, k)
        /\ dropped'[s][k] = dropped[s][k]
    BY <1>1 DEF Written, Waiting, Pending, SeqElems
  <2>2. Owed(s, k)' = Owed(s, k)
    <3>1. CASE s = s0 /\ k = k0
      BY <1>1, <1>2, <3>1 DEF Owed, Recorded
    <3>2. CASE s # s0 \/ k # k0
      BY <1>1, <3>2 DEF Owed, Recorded
    <3>3. QED
      BY <3>1, <3>2
  <2>3. QED
    BY <2>1, <2>2 DEF OneFate, OneFateAt
<1>8. QED
  BY <1>3, <1>5, <1>6, <1>7 DEF OneFate

(* A stalled handler stays registered, so it is owed what it was owed. *)
LEMMA StallFate ==
  ASSUME FateInv, NEW s0 \in Subs, Stall(s0), TypeOK'
  PROVE  FateInv'
<1> USE DEF FateInv
<1>1. /\ handler[s0] = "live" /\ handler'[s0] = "stalled"
      /\ \A s \in Subs \ {s0} : handler'[s] = handler[s]
      /\ UNCHANGED <<author, entry, targets, queue, sent, dropped,
                     registered, since, until>>
  BY DEF Stall, recVars, pipeVars, TypeOK
<1>2. HandlerInv'
  BY <1>1 DEF HandlerInv
<1>3. PastInv' /\ DistinctEntries' /\ QueueInv'
  BY <1>1 DEF PastInv, DistinctEntries, QueueInv, OneToOne, Recorded
<1>4. ASSUME NEW s \in Subs, NEW k \in Kinds
      PROVE  OneFateAt(s, k)'
  <2>1. /\ Written(s, k)' = Written(s, k)
        /\ Waiting(s, k)' = Waiting(s, k)
        /\ Pending(s, k)' = Pending(s, k)
        /\ dropped'[s][k] = dropped[s][k]
        /\ Owed(s, k)' = Owed(s, k)
    BY <1>1 DEF Written, Waiting, Pending, SeqElems, Owed, Recorded
  <2>2. QED
    BY <2>1 DEF OneFate, OneFateAt
<1>5. QED
  BY <1>2, <1>3, <1>4 DEF OneFate

(* What the pollers do concerns no handler. *)
LEMMA IdleFate ==
  ASSUME FateInv, TypeOK', UNCHANGED <<recVars, sseVars, pipeVars>>
  PROVE  FateInv'
<1> USE DEF FateInv, recVars, sseVars, pipeVars
<1>1. HandlerInv' /\ PastInv' /\ DistinctEntries' /\ QueueInv'
  BY DEF HandlerInv, PastInv, DistinctEntries, QueueInv, OneToOne, Recorded
<1>2. ASSUME NEW s \in Subs, NEW k \in Kinds
      PROVE  OneFateAt(s, k)'
  <2>1. /\ Written(s, k)' = Written(s, k)
        /\ Waiting(s, k)' = Waiting(s, k)
        /\ Pending(s, k)' = Pending(s, k)
        /\ dropped'[s][k] = dropped[s][k]
        /\ Owed(s, k)' = Owed(s, k)
    BY DEF Written, Waiting, Pending, SeqElems, Owed, Recorded
  <2>2. QED
    BY <2>1 DEF OneFate, OneFateAt
<1>3. QED
  BY <1>1, <1>2 DEF OneFate

LEMMA InitFate == Init => FateInv
<1> SUFFICES ASSUME Init PROVE FateInv
  OBVIOUS
<1>1. TypeOK
  BY InitTypeOK
<1>2. /\ \A k \in Kinds : author[k] = << >> /\ registered[k] = {}
      /\ \A s \in Subs, k \in Kinds :
           /\ queue[s][k] = << >> /\ sent[s][k] = << >> /\ dropped[s][k] = {}
           /\ since[s][k] = 0 /\ until[s][k] = 0
      /\ \A r \in Recorders : targets[r] = {} /\ entry[r] = NoEntry
      /\ \A s \in Subs : handler[s] = "new"
  BY DEF Init
<1>3. HandlerInv
  BY <1>2 DEF HandlerInv, Kinds
<1>4. PastInv
  BY <1>2 DEF PastInv, Recorded, NoEntry, Kinds
<1>5. DistinctEntries /\ QueueInv
  BY <1>2 DEF DistinctEntries, QueueInv, OneToOne
<1>6. ASSUME NEW s \in Subs, NEW k \in Kinds
      PROVE  OneFateAt(s, k)
  <2>1. Written(s, k) = {} /\ Waiting(s, k) = {} /\ Pending(s, k) = {}
    BY <1>2 DEF Written, Waiting, Pending, SeqElems
  <2>2. Owed(s, k) = {}
    BY <1>2 DEF Owed
  <2>3. QED
    BY <1>2, <2>1, <2>2 DEF OneFateAt
<1>7. QED
  BY <1>1, <1>3, <1>4, <1>5, <1>6 DEF FateInv, OneFate

(* Every step keeps the inductive invariant. *)
LEMMA FateHolds == Spec => []FateInv
<1>1. FateInv /\ [Next]_vars => FateInv'
  <2> SUFFICES ASSUME FateInv, [Next]_vars PROVE FateInv'
    OBVIOUS
  <2>1. TypeOK'
    BY NextTypeOK DEF FateInv
  <2>2. ASSUME NEW r \in Recorders, NEW k \in Kinds, Record(r, k)
        PROVE  FateInv'
    BY <2>1, <2>2, RecordFate
  <2>3. ASSUME NEW r \in Recorders, NEW s \in Subs, Send(r, s)
        PROVE  FateInv'
    BY <2>1, <2>3, SendFate
  <2>4. ASSUME NEW r \in Recorders, NEW s \in Subs, Drop(r, s)
        PROVE  FateInv'
    BY <2>1, <2>4, DropFate
  <2>5. ASSUME NEW s \in Subs, Connect(s)
        PROVE  FateInv'
    BY <2>1, <2>5, SubscribeFate
  <2>6. ASSUME NEW s \in Subs, Disconnect(s)
        PROVE  FateInv'
    BY <2>1, <2>6, UnsubscribeFate
  <2>7. ASSUME NEW s \in Subs, NEW k \in Kinds, Receive(s, k)
        PROVE  FateInv'
    BY <2>1, <2>7, ReceiveFate
  <2>8. ASSUME NEW p \in Pollers, Polling(p)
        PROVE  FateInv'
    <3>1. UNCHANGED <<recVars, sseVars, pipeVars>>
      BY <2>8 DEF Polling, TakeSnapshot, NameRequest, FinishPass
    <3>2. QED
      BY <2>1, <3>1, IdleFate
  <2>9. ASSUME NEW s \in Subs, Stall(s)
        PROVE  FateInv'
    BY <2>1, <2>9, StallFate
  <2>10. CASE UNCHANGED vars
    BY <2>1, <2>10, IdleFate DEF vars
  <2>11. QED
    BY <2>2, <2>3, <2>4, <2>5, <2>6, <2>7, <2>8, <2>9, <2>10
    DEF Next, Recording, FanOut, Serving
<1>2. QED
  BY InitFate, <1>1, PTL DEF Spec

(* Every entry recorded during a handler's subscription is written to its
   client, waiting, pending or dropped, exactly one of them, and nothing else
   ever reaches that client: no replay, no duplicate, no silent loss. *)
THEOREM NoEntryLostOrDuplicated == Spec => []OneFate
<1>1. FateInv => OneFate
  BY DEF FateInv
<1>2. QED
  BY FateHolds, <1>1, PTL

-------------------------------------------------------------------------------
(* Sends meet open channels. *)

(* subscribe makes the channel before the registry knows it, and nothing closes
   it: what a recorder copies from the registry is open, then and later. *)
RegisteredAreOpen ==
  \A k \in Kinds : \A s \in registered[k] : channel[s][k] = "open"

OpenInv == TypeOK /\ RegisteredAreOpen /\ PendingSendsAreSafe

(* No goroutine is ever about to send on a channel that is closed or was never
   made, although handlers leave while their channel is still a target. *)
THEOREM SendsAreSafe == Spec => []PendingSendsAreSafe
<1>1. Init => OpenInv
  <2>1. Init => RegisteredAreOpen /\ PendingSendsAreSafe
    BY DEF Init, RegisteredAreOpen, PendingSendsAreSafe
  <2>2. QED
    BY <2>1, InitTypeOK DEF OpenInv
<1>2. OpenInv /\ [Next]_vars => OpenInv'
  <2> SUFFICES ASSUME OpenInv, [Next]_vars PROVE OpenInv'
    OBVIOUS
  <2>0. TypeOK /\ TypeOK' /\ RegisteredAreOpen /\ PendingSendsAreSafe
    BY NextTypeOK DEF OpenInv
  <2>1. ASSUME NEW r \in Recorders, NEW k \in Kinds, Record(r, k)
        PROVE  OpenInv'
    <3>1. /\ UNCHANGED <<registered, channel>>
          /\ targets'[r] = registered[k] /\ entry'[r].kind = k
          /\ \A q \in Recorders \ {r} :
               targets'[q] = targets[q] /\ entry'[q] = entry[q]
      BY <2>0, <2>1 DEF Record, sseVars, TypeOK
    <3>2. RegisteredAreOpen' /\ PendingSendsAreSafe'
      BY <2>0, <3>1 DEF RegisteredAreOpen, PendingSendsAreSafe
    <3>3. QED
      BY <2>0, <3>2 DEF OpenInv
  <2>2. ASSUME NEW r \in Recorders, FanOut(r)
        PROVE  OpenInv'
    <3>1. PICK s \in Subs : targets' = [targets EXCEPT ![r] = @ \ {s}]
      BY <2>2 DEF FanOut, Send, Drop
    <3>2. UNCHANGED <<registered, channel, entry>>
      BY <2>2 DEF FanOut, Send, Drop, sseVars
    <3>3. \A q \in Recorders : targets'[q] \subseteq targets[q]
      BY <2>0, <3>1 DEF TypeOK
    <3>4. RegisteredAreOpen' /\ PendingSendsAreSafe'
      BY <2>0, <3>2, <3>3 DEF RegisteredAreOpen, PendingSendsAreSafe
    <3>5. QED
      BY <2>0, <3>4 DEF OpenInv
  <2>3. ASSUME NEW s \in Subs, Connect(s)
        PROVE  OpenInv'
    <3>1. PICK k \in Kinds :
            /\ registered' = [registered EXCEPT ![k] = @ \union {s}]
            /\ channel' = [channel EXCEPT ![s][k] = "open"]
      BY <2>3 DEF Connect, Subscribe, Kinds
    <3>2. UNCHANGED <<entry, targets>>
      BY <2>3 DEF Connect, Subscribe, recVars
    <3>3. /\ registered'[k] = registered[k] \union {s} /\ channel'[s][k] = "open"
          /\ \A j \in Kinds \ {k} : registered'[j] = registered[j]
          /\ \A t \in Subs, j \in Kinds :
               (t # s \/ j # k) => channel'[t][j] = channel[t][j]
      BY <2>0, <3>1 DEF TypeOK
    <3>4. \A j \in Kinds : \A t \in registered[j] : t \in Subs
      BY <2>0 DEF TypeOK
    <3>5. RegisteredAreOpen'
      BY <2>0, <3>3, <3>4 DEF RegisteredAreOpen
    <3>6. \A r \in Recorders : entry[r].kind \in Kinds /\ targets[r] \subseteq Subs
      BY <2>0 DEF TypeOK
    <3>7. PendingSendsAreSafe'
      BY <2>0, <3>2, <3>3, <3>6 DEF PendingSendsAreSafe
    <3>8. QED
      BY <2>0, <3>5, <3>7 DEF OpenInv
  <2>4. ASSUME NEW s \in Subs, Disconnect(s)
        PROVE  OpenInv'
    <3>1. PICK k \in Kinds : registered' = [registered EXCEPT ![k] = @ \ {s}]
      BY <2>4 DEF Disconnect, Unsubscribe, Kinds
    <3>2. UNCHANGED <<entry, targets, channel>>
      BY <2>4 DEF Disconnect, Unsubscribe, recVars
    <3>3. \A j \in Kinds : registered'[j] \subseteq registered[j]
      BY <2>0, <3>1 DEF TypeOK
    <3>4. RegisteredAreOpen' /\ PendingSendsAreSafe'
      BY <2>0, <3>2, <3>3 DEF RegisteredAreOpen, PendingSendsAreSafe
    <3>5. QED
      BY <2>0, <3>4 DEF OpenInv
  <2>5. ASSUME UNCHANGED <<registered, channel, entry, targets>>
        PROVE  OpenInv'
    BY <2>0, <2>5 DEF OpenInv, RegisteredAreOpen, PendingSendsAreSafe
  <2>6. (\E s \in Subs : Stall(s) \/ \E k \in Kinds : Receive(s, k))
          \/ (\E p \in Pollers : Polling(p)) \/ UNCHANGED vars
          => UNCHANGED <<registered, channel, entry, targets>>
    BY DEF Stall, Receive, Polling, TakeSnapshot, NameRequest, FinishPass,
           vars, recVars, sseVars
  <2>7. QED
    BY <2>1, <2>2, <2>3, <2>4, <2>5, <2>6 DEF Next, Recording, Serving
<1>3. OpenInv => PendingSendsAreSafe
  BY DEF OpenInv
<1>4. QED
  BY <1>1, <1>2, <1>3, PTL DEF Spec

-------------------------------------------------------------------------------
(* The pass that numbers the captures. *)

Consecutive(q) == \A i \in 1 .. Len(q) : q[i] = q[1] + i - 1

(* A pass has named the beginning of its own copy, and the copy, taken under
   the lock, is a stretch of the history. *)
NamingInv ==
  \A p \in Pollers :
    /\ Consecutive(snapshot[p])
    /\ Consecutive(named[p])
    /\ snapshot[p] # << >> => Len(named[p]) <= Len(snapshot[p])
    /\ snapshot[p] # << >> =>
         \A i \in 1 .. Len(named[p]) : named[p][i] = snapshot[p][i]

LEMMA LatestIsConsecutive ==
  ASSUME TypeOK, RingIsLatest
  PROVE  Consecutive(ring["capture"])
<1> DEFINE n == Recorded("capture")
<1>1. /\ Len(ring["capture"]) = Kept(n)
      /\ \A i \in 1 .. Kept(n) : ring["capture"][i] = n - Kept(n) + i
  BY DEF RingIsLatest, Kinds
<1>2. n \in Nat /\ Kept(n) \in Nat
  BY HubAssumption DEF TypeOK, Recorded, Kept, Kinds
<1> HIDE DEF n
<1>3. QED
  BY <1>1, <1>2 DEF Consecutive

LEMMA NamingStep ==
  ASSUME TypeOK, RingIsLatest, NamingInv, NEW p \in Pollers, Polling(p)
  PROVE  NamingInv'
<1>1. /\ snapshot[p] \in Seq(Nat) /\ named[p] \in Seq(Nat)
      /\ snapshot \in [Pollers -> Seq(Nat)] /\ named \in [Pollers -> Seq(Nat)]
  BY DEF TypeOK
<1>2. CASE TakeSnapshot(p)
  <2>1. /\ snapshot'[p] = ring["capture"] /\ named'[p] = << >>
        /\ \A q \in Pollers \ {p} : snapshot'[q] = snapshot[q] /\ named'[q] = named[q]
    BY <1>1, <1>2 DEF TakeSnapshot
  <2>2. Consecutive(snapshot'[p])
    BY <2>1, LatestIsConsecutive
  <2>3. /\ Consecutive(named'[p]) /\ Len(named'[p]) = 0
        /\ \A i \in 1 .. Len(named'[p]) : named'[p][i] = snapshot'[p][i]
    BY <2>1 DEF Consecutive
  <2>4. Len(snapshot'[p]) \in Nat
    BY <2>1 DEF TypeOK, Kinds
  <2>5. ASSUME NEW q \in Pollers, q # p
        PROVE  /\ Consecutive(snapshot'[q]) /\ Consecutive(named'[q])
               /\ snapshot'[q] # << >> => Len(named'[q]) <= Len(snapshot'[q])
               /\ snapshot'[q] # << >> =>
                    \A i \in 1 .. Len(named'[q]) : named'[q][i] = snapshot'[q][i]
    BY <2>1, <2>5 DEF NamingInv
  <2>6. Len(named'[p]) <= Len(snapshot'[p])
    BY <2>3, <2>4
  <2>7. QED
    BY <2>2, <2>3, <2>5, <2>6 DEF NamingInv, Consecutive
<1>3. CASE NameRequest(p)
  <2> DEFINE c == snapshot[p]
             d == named[p]
             i == Len(d) + 1
  <2>1. /\ i \in 1 .. Len(c) /\ named' = [named EXCEPT ![p] = Append(d, c[i])]
        /\ UNCHANGED snapshot
    BY <1>1, <1>3 DEF NameRequest
  <2>2. /\ c # << >> /\ c[i] \in Nat /\ c[1] \in Nat
        /\ \A j \in 1 .. Len(c) : c[j] = c[1] + j - 1
        /\ \A j \in 1 .. Len(d) : d[j] = c[j]
    BY <1>1, <2>1 DEF NamingInv, Consecutive
  <2> DEFINE e == Append(d, c[i])
  <2>3. /\ Len(e) = i /\ e[i] = c[i]
        /\ \A j \in 1 .. Len(d) : e[j] = d[j]
    BY <1>1, <2>2
  <2>4. /\ named'[p] = e
        /\ \A q \in Pollers \ {p} : snapshot'[q] = snapshot[q] /\ named'[q] = named[q]
        /\ snapshot'[p] = c
    BY <1>1, <2>1
  <2>5. Len(d) \in Nat /\ Len(c) \in Nat
    BY <1>1
  <2> HIDE DEF e
  <2>6. \A j \in 1 .. Len(e) : e[j] = c[j]
    BY <2>2, <2>3, <2>5
  <2>7. Consecutive(e)
    <3>1. 1 .. Len(e) \subseteq 1 .. Len(c) /\ 1 \in 1 .. Len(e)
      BY <2>1, <2>3, <2>5
    <3>2. \A j \in 1 .. Len(e) : e[j] = c[1] + j - 1
      BY <2>2, <2>6, <3>1
    <3>3. e[1] = c[1]
      BY <2>6, <3>1
    <3>4. QED
      BY <3>2, <3>3 DEF Consecutive
  <2>8. Len(e) <= Len(c)
    BY <2>1, <2>3, <2>5
  <2> HIDE DEF c, d, i
  <2>9. QED
    BY <2>4, <2>6, <2>7, <2>8 DEF NamingInv, Consecutive, c
<1>4. CASE FinishPass(p)
  <2>1. /\ snapshot'[p] = << >> /\ UNCHANGED named
        /\ \A q \in Pollers \ {p} : snapshot'[q] = snapshot[q]
    BY <1>1, <1>4 DEF FinishPass
  <2>2. Consecutive(snapshot'[p])
    BY <2>1 DEF Consecutive
  <2>3. QED
    BY <2>1, <2>2 DEF NamingInv, Consecutive
<1>5. QED
  BY <1>2, <1>3, <1>4 DEF Polling

(* The request ids of one pass name consecutive captures, each once, however
   far the history rotates while the pass runs. *)
THEOREM IdsAreStable == Spec => []IdsNameConsecutiveCaptures
<1>1. Init => NamingInv
  BY DEF Init, NamingInv, Consecutive
<1>2. TypeOK /\ RingIsLatest /\ NamingInv /\ [Next]_vars => NamingInv'
  <2> SUFFICES ASSUME TypeOK, RingIsLatest, NamingInv, [Next]_vars PROVE NamingInv'
    OBVIOUS
  <2>1. ASSUME NEW p \in Pollers, Polling(p)
        PROVE  NamingInv'
    BY <2>1, NamingStep
  <2>2. ASSUME UNCHANGED <<snapshot, named>>
        PROVE  NamingInv'
    BY <2>2 DEF NamingInv, Consecutive
  <2>3. Recording \/ (\E r \in Recorders : FanOut(r))
          \/ (\E s \in Subs : Serving(s)) \/ UNCHANGED vars
          => UNCHANGED <<snapshot, named>>
    BY DEF Recording, Record, FanOut, Send, Drop, Serving, Connect, Stall,
           Disconnect, Subscribe, Unsubscribe, Receive, vars, pollVars
  <2>4. QED
    BY <2>1, <2>2, <2>3 DEF Next
<1>3. NamingInv => IdsNameConsecutiveCaptures
  BY DEF NamingInv, Consecutive, IdsNameConsecutiveCaptures
<1>4. QED
  BY <1>1, <1>2, <1>3, TypeCorrect, LatestHistory, PTL DEF Spec

-------------------------------------------------------------------------------
(* The order of arrivals. *)

(* What a client has been or will be written, oldest first. *)
Stream(s, k) == sent[s][k] \o queue[s][k]

AuthorInv ==
  /\ \A k \in Kinds : Len(during[k]) = Recorded(k)
  /\ \A r \in Recorders : targets[r] # {} => author[entry[r].kind][entry[r].n] = r

(* m may arrive ahead of n: it is older, or another connection recorded it
   while n was in flight. *)
MayPrecede(m, n, k) ==
  m > n => author[k][m] # author[k][n] /\ n \in during[k][m]

(* What has been recorded since r began its fan-out may precede r's entry. *)
AheadInv ==
  \A r \in Recorders : targets[r] # {} =>
    \A m \in 1 .. Recorded(entry[r].kind) : MayPrecede(m, entry[r].n, entry[r].kind)

Ordered(q, k) ==
  \A i, j \in 1 .. Len(q) : i < j => MayPrecede(q[i], q[j], k)

OrderInv ==
  /\ AuthorInv
  /\ AheadInv
  /\ \A s \in Subs, k \in Kinds : Ordered(Stream(s, k), k)

(* Moving the head of one sequence to the end of another keeps their join. *)
LEMMA MoveHead ==
  ASSUME NEW a \in Seq(Nat), NEW b \in Seq(Nat), b # << >>
  PROVE  Append(a, Head(b)) \o Tail(b) = a \o b
<1>1. /\ Head(b) \in Nat /\ Tail(b) \in Seq(Nat) /\ Len(Tail(b)) = Len(b) - 1
      /\ \A i \in 1 .. Len(Tail(b)) : Tail(b)[i] = b[i + 1]
      /\ Head(b) = b[1] /\ Len(b) \in Nat \ {0}
  BY HeadTailProperties, EmptySeq
<1> DEFINE c == Append(a, Head(b))
           t == Tail(b)
<1>2. /\ c \in Seq(Nat) /\ Len(c) = Len(a) + 1 /\ Len(a) \in Nat
      /\ \A i \in 1 .. Len(a) : c[i] = a[i]
      /\ c[Len(a) + 1] = b[1]
  BY <1>1, AppendProperties
<1>3. t \in Seq(Nat) /\ Len(t) = Len(b) - 1 /\ \A i \in 1 .. Len(t) : t[i] = b[i + 1]
  BY <1>1
<1> HIDE DEF c, t
<1>4. /\ c \o t \in Seq(Nat) /\ Len(c \o t) = Len(c) + Len(t)
      /\ \A i \in 1 .. Len(c) + Len(t) :
           (c \o t)[i] = IF i <= Len(c) THEN c[i] ELSE t[i - Len(c)]
  BY <1>2, <1>3, ConcatProperties
<1>5. /\ a \o b \in Seq(Nat) /\ Len(a \o b) = Len(a) + Len(b)
      /\ \A i \in 1 .. Len(a) + Len(b) :
           (a \o b)[i] = IF i <= Len(a) THEN a[i] ELSE b[i - Len(a)]
  BY ConcatProperties
<1>6. Len(c) + Len(t) = Len(a) + Len(b)
  BY <1>1, <1>2, <1>3
<1>7. ASSUME NEW i \in 1 .. Len(a) + Len(b)
      PROVE  (c \o t)[i] = (a \o b)[i]
  <2>1. CASE i <= Len(a)
    BY <1>2, <1>4, <1>5, <1>6, <2>1
  <2>2. CASE i = Len(a) + 1
    <3>1. i - Len(a) = 1 /\ i <= Len(c) /\ ~(i <= Len(a))
      BY <1>2, <2>2
    <3>2. QED
      BY <1>2, <1>4, <1>5, <1>6, <2>2, <3>1
  <2>3. CASE i > Len(a) + 1
    <3>1. /\ i - Len(c) \in 1 .. Len(t) /\ (i - Len(c)) + 1 = i - Len(a)
          /\ ~(i <= Len(c)) /\ ~(i <= Len(a))
      BY <1>1, <1>2, <1>3, <2>3
    <3>2. QED
      BY <1>3, <1>4, <1>5, <1>6, <3>1
  <2>4. i <= Len(a) \/ i = Len(a) + 1 \/ i > Len(a) + 1
    <3>1. i \in Int /\ Len(a) \in Int
      BY <1>2, ConcatProperties
    <3>2. QED
      BY <3>1
  <2>5. QED
    BY <2>1, <2>2, <2>3, <2>4
<1>8. QED
  BY <1>4, <1>5, <1>6, <1>7, SeqEqual DEF c, t

(* Appending to the second sequence appends to the join. *)
LEMMA AppendToJoin ==
  ASSUME NEW a \in Seq(Nat), NEW b \in Seq(Nat), NEW e \in Nat
  PROVE  a \o Append(b, e) = Append(a \o b, e)
<1>1. /\ Append(b, e) = b \o <<e>> /\ <<e>> \in Seq(Nat)
      /\ a \o b \in Seq(Nat)
  BY AppendIsConcat, ConcatProperties
<1>2. Append(a \o b, e) = (a \o b) \o <<e>>
  BY <1>1, AppendIsConcat
<1>3. QED
  BY <1>1, <1>2, ConcatAssociative

(* A stream holds recorded entries only: it is part of what is owed. *)
LEMMA StreamOwed ==
  ASSUME FateInv, NEW s \in Subs, NEW k \in Kinds
  PROVE  /\ Stream(s, k) \in Seq(Nat)
         /\ \A i \in 1 .. Len(Stream(s, k)) : Stream(s, k)[i] \in 1 .. Recorded(k)
<1>1. /\ sent[s][k] \in Seq(Nat) /\ queue[s][k] \in Seq(Nat)
      /\ Recorded(k) \in Nat /\ since[s][k] \in Nat /\ until[s][k] \in Nat
      /\ since[s][k] <= Recorded(k) /\ until[s][k] <= Recorded(k)
  BY DEF FateInv, TypeOK, PastInv, Recorded
<1>2. Owed(s, k) \subseteq 1 .. Recorded(k)
  BY <1>1 DEF Owed
<1>3. Written(s, k) \union Waiting(s, k) \subseteq Owed(s, k)
  BY DEF FateInv, OneFate, OneFateAt
<1> DEFINE a == sent[s][k]
           b == queue[s][k]
<1>4. /\ a \in Seq(Nat) /\ b \in Seq(Nat)
      /\ Written(s, k) = SeqElems(a) /\ Waiting(s, k) = SeqElems(b)
      /\ Stream(s, k) = a \o b
  BY <1>1 DEF Written, Waiting, Stream
<1> HIDE DEF a, b
<1>5. /\ a \o b \in Seq(Nat) /\ Len(a \o b) = Len(a) + Len(b)
      /\ Len(a) \in Nat /\ Len(b) \in Nat
      /\ \A i \in 1 .. Len(a) + Len(b) :
           (a \o b)[i] = IF i <= Len(a) THEN a[i] ELSE b[i - Len(a)]
  BY <1>4, ConcatProperties, LenProperties
<1>6. ASSUME NEW i \in 1 .. Len(a) + Len(b)
      PROVE  (a \o b)[i] \in Written(s, k) \union Waiting(s, k)
  <2>1. CASE i <= Len(a)
    BY <1>5, <1>4, <2>1 DEF SeqElems
  <2>2. CASE ~(i <= Len(a))
    <3>1. i - Len(a) \in 1 .. Len(b)
      BY <1>5, <2>2
    <3>2. QED
      BY <1>5, <1>4, <2>2, <3>1 DEF SeqElems
  <2>3. QED
    BY <2>1, <2>2
<1>7. QED
  BY <1>2, <1>3, <1>5, <1>6, <1>4

LEMMA PendingIsRecorded ==
  ASSUME FateInv, NEW r \in Recorders, targets[r] # {}
  PROVE  entry[r].n \in 1 .. Recorded(entry[r].kind)
<1>1. PICK s \in Subs : s \in targets[r]
  BY DEF FateInv, TypeOK
<1>2. /\ entry[r].kind \in Kinds /\ entry[r].n \in Nat
      /\ since[s][entry[r].kind] \in Nat
      /\ entry[r].n <= Recorded(entry[r].kind)
  BY DEF FateInv, TypeOK, PastInv
<1>3. entry[r].n \in Pending(s, entry[r].kind)
  BY <1>1 DEF Pending
<1>4. entry[r].n \in Owed(s, entry[r].kind)
  BY <1>2, <1>3 DEF FateInv, OneFate, OneFateAt
<1>5. entry[r].n >= 1
  <2> DEFINE k == entry[r].kind
  <2>1. CASE s \in registered[k]
    BY <1>2, <1>4, <2>1 DEF Owed
  <2>2. CASE s \notin registered[k]
    <3>1. entry[r].n \in since[s][k] + 1 .. until[s][k]
      BY <1>4, <2>2 DEF Owed
    <3>2. QED
      BY <1>2, <3>1
  <2>3. QED
    BY <2>1, <2>2
<1>6. Recorded(entry[r].kind) \in Nat
  BY <1>2 DEF FateInv, TypeOK, Recorded
<1>7. QED
  BY <1>2, <1>5, <1>6

(* A new entry is in no stream, and whatever is in flight is in its history. *)
LEMMA RecordOrder ==
  ASSUME FateInv, OrderInv, NEW r \in Recorders, NEW k0 \in Kinds, Record(r, k0)
  PROVE  OrderInv'
<1> DEFINE n0 == Recorded(k0) + 1
<1>0. TypeOK
  BY DEF FateInv
<1>1. /\ author[k0] \in Seq(Recorders) /\ Recorded(k0) \in Nat
      /\ author'[k0] = Append(author[k0], r)
      /\ \A k \in Kinds \ {k0} : author'[k] = author[k]
  BY <1>0 DEF TypeOK, Record, Recorded
<1>2. /\ author'[k0][n0] = r
      /\ Recorded(k0)' = n0
      /\ \A k \in Kinds \ {k0} : Recorded(k)' = Recorded(k)
      /\ \A k \in Kinds : \A n \in 1 .. Recorded(k) : author'[k][n] = author[k][n]
  BY <1>1 DEF Recorded
<1>3. /\ during[k0] \in Seq(SUBSET Nat)
      /\ Len(during[k0]) = Recorded(k0)
      /\ InFlight(k0) \in SUBSET Nat
      /\ during'[k0] = Append(during[k0], InFlight(k0))
      /\ \A k \in Kinds \ {k0} : during'[k] = during[k]
  BY <1>0 DEF TypeOK, Record, OrderInv, AuthorInv, InFlight
<1>4. /\ during'[k0][n0] = InFlight(k0)
      /\ Len(during'[k0]) = n0
      /\ \A n \in 1 .. Recorded(k0) : during'[k0][n] = during[k0][n]
  BY <1>1, <1>3
<1>5. \A k \in Kinds : \A n \in 1 .. Recorded(k) : during'[k][n] = during[k][n]
  BY <1>3, <1>4
<1>6. /\ entry'[r].kind = k0 /\ entry'[r].n = n0 /\ targets[r] = {}
      /\ \A q \in Recorders \ {r} : entry'[q] = entry[q] /\ targets'[q] = targets[q]
      /\ \A q \in Recorders : entry[q].kind \in Kinds
  BY <1>0 DEF TypeOK, Record
<1>7. ASSUME NEW k \in Kinds, NEW m \in 1 .. Recorded(k), NEW n \in 1 .. Recorded(k),
             MayPrecede(m, n, k)
      PROVE  MayPrecede(m, n, k)'
  BY <1>2, <1>5, <1>7 DEF MayPrecede
<1>8. AuthorInv'
  <2>1. ASSUME NEW q \in Recorders, targets'[q] # {}
        PROVE  author'[entry'[q].kind][entry'[q].n] = q
    <3>1. CASE q = r
      BY <1>2, <1>6, <3>1
    <3>2. CASE q # r
      <4>1. entry'[q] = entry[q] /\ targets[q] # {}
        BY <1>6, <2>1, <3>2
      <4>2. entry[q].n \in 1 .. Recorded(entry[q].kind)
        BY <4>1, PendingIsRecorded
      <4>3. QED
        BY <1>2, <1>6, <4>1, <4>2 DEF OrderInv, AuthorInv
    <3>3. QED
      BY <3>1, <3>2
  <2>2. \A k \in Kinds : Len(during'[k]) = Recorded(k)'
    BY <1>2, <1>3, <1>4 DEF OrderInv, AuthorInv
  <2>3. QED
    BY <2>1, <2>2 DEF AuthorInv
<1>9. AheadInv'
  <2>1. ASSUME NEW q \in Recorders, targets'[q] # {},
               NEW k \in Kinds, k = entry'[q].kind,
               NEW m \in 1 .. Recorded(k)', NEW n, n = entry'[q].n
        PROVE  MayPrecede(m, n, k)'
    <3>1. CASE q = r
      <4>1. ~(m > n)
        BY <1>1, <1>2, <1>6, <2>1, <3>1
      <4>2. QED
        BY <4>1 DEF MayPrecede
    <3>2. CASE q # r
      <4>1. entry'[q] = entry[q] /\ targets[q] # {}
        BY <1>6, <2>1, <3>2
      <4>2. n \in 1 .. Recorded(k)
        BY <2>1, <4>1, PendingIsRecorded
      <4>3. CASE m \in 1 .. Recorded(k)
        <5>1. MayPrecede(m, n, k)
          BY <2>1, <4>1, <4>3 DEF OrderInv, AheadInv
        <5>2. QED
          BY <1>7, <4>2, <4>3, <5>1
      <4>4. CASE k = k0 /\ m = n0
        <5>1. author[k][n] = q /\ n \in InFlight(k0)
          BY <2>1, <4>1, <4>4 DEF OrderInv, AuthorInv, InFlight
        <5>2. author'[k][n] = q /\ author'[k][m] = r
          BY <1>2, <4>2, <4>4, <5>1
        <5>3. QED
          BY <1>4, <3>2, <4>4, <5>1, <5>2 DEF MayPrecede
      <4>5. QED
        BY <1>1, <1>2, <2>1, <4>3, <4>4
    <3>3. QED
      BY <3>1, <3>2
  <2>2. \A q \in Recorders : entry'[q].kind \in Kinds
    BY <1>6
  <2>3. QED
    BY <2>1, <2>2 DEF AheadInv
<1>10. ASSUME NEW s \in Subs, NEW k \in Kinds
       PROVE  Ordered(Stream(s, k), k)'
  <2> DEFINE q == Stream(s, k)
  <2>1. \A i \in 1 .. Len(q) : q[i] \in 1 .. Recorded(k)
    BY StreamOwed
  <2>2. Ordered(q, k) /\ q' = q
    BY DEF OrderInv, Record, pipeVars, Stream
  <2> HIDE DEF q
  <2>3. \A i, j \in 1 .. Len(q) : i < j => MayPrecede(q[i], q[j], k)'
    BY <1>7, <2>1, <2>2 DEF Ordered
  <2>4. Ordered(q, k)'
    BY <2>2, <2>3 DEF Ordered
  <2>5. QED
    BY <2>4 DEF q
<1>11. QED
  BY <1>8, <1>9, <1>10 DEF OrderInv

(* Everything ahead of the entry that is sent may precede it. *)
LEMMA SendOrder ==
  ASSUME FateInv, OrderInv, NEW r \in Recorders, NEW s0 \in Subs, Send(r, s0)
  PROVE  OrderInv'
<1>0. TypeOK
  BY DEF FateInv
<1>1. PICK k0 \in Kinds, n0 \in Nat : k0 = entry[r].kind /\ n0 = entry[r].n
  BY <1>0 DEF TypeOK
<1>2. /\ s0 \in targets[r] /\ targets' = [targets EXCEPT ![r] = @ \ {s0}]
      /\ queue' = [queue EXCEPT ![s0][k0] = Append(@, n0)]
      /\ UNCHANGED <<author, during, entry, sent>>
  BY <1>1 DEF Send
<1>3. \A q \in Recorders : targets'[q] \subseteq targets[q]
  BY <1>0, <1>2 DEF TypeOK
<1>4. /\ queue'[s0][k0] = Append(queue[s0][k0], n0)
      /\ \A s \in Subs, k \in Kinds :
           (s # s0 \/ k # k0) => queue'[s][k] = queue[s][k]
  BY <1>0, <1>2 DEF TypeOK
<1>5. /\ Stream(s0, k0)' = Append(Stream(s0, k0), n0)
      /\ \A s \in Subs, k \in Kinds :
           (s # s0 \/ k # k0) => Stream(s, k)' = Stream(s, k)
  <2>1. sent[s0][k0] \in Seq(Nat) /\ queue[s0][k0] \in Seq(Nat)
    BY <1>0 DEF TypeOK
  <2>2. sent[s0][k0] \o Append(queue[s0][k0], n0) = Append(Stream(s0, k0), n0)
    BY <2>1, AppendToJoin DEF Stream
  <2>3. QED
    BY <1>2, <1>4, <2>2 DEF Stream
<1> DEFINE q == Stream(s0, k0)
           e == Append(q, n0)
<1>6. /\ q \in Seq(Nat)
      /\ Len(e) = Len(q) + 1 /\ Len(q) \in Nat /\ e[Len(q) + 1] = n0
      /\ \A i \in 1 .. Len(q) : e[i] = q[i] /\ q[i] \in 1 .. Recorded(k0)
  <2>1. q \in Seq(Nat) /\ \A i \in 1 .. Len(q) : q[i] \in 1 .. Recorded(k0)
    BY StreamOwed
  <2>2. QED
    BY <2>1, AppendProperties, LenProperties, ElementOfSeq
<1>7. /\ \A m \in 1 .. Recorded(k0) : MayPrecede(m, n0, k0)
      /\ Ordered(q, k0)
  BY <1>1, <1>2 DEF OrderInv, AheadInv
<1>8. Stream(s0, k0)' = e
  BY <1>5
<1> HIDE DEF q, e
<1>9. Ordered(e, k0)
  <2>1. ASSUME NEW i \in 1 .. Len(e), NEW j \in 1 .. Len(e), i < j
        PROVE  MayPrecede(e[i], e[j], k0)
    <3>1. i \in 1 .. Len(q)
      BY <1>6, <2>1
    <3>2. CASE j \in 1 .. Len(q)
      BY <1>6, <1>7, <2>1, <3>1, <3>2 DEF Ordered
    <3>3. CASE j = Len(q) + 1
      BY <1>6, <1>7, <3>1, <3>3
    <3>4. QED
      BY <1>6, <3>2, <3>3
  <2>2. QED
    BY <2>1 DEF Ordered
<1>10. ASSUME NEW s \in Subs, NEW k \in Kinds
       PROVE  Ordered(Stream(s, k), k)'
  <2>1. CASE s = s0 /\ k = k0
    BY <1>2, <1>8, <1>9, <2>1 DEF Ordered, MayPrecede
  <2>2. CASE s # s0 \/ k # k0
    BY <1>2, <1>5, <2>2 DEF OrderInv, Ordered, MayPrecede
  <2>3. QED
    BY <2>1, <2>2
<1>11. AuthorInv' /\ AheadInv'
  BY <1>2, <1>3 DEF OrderInv, AuthorInv, AheadInv, MayPrecede, Recorded
<1>12. QED
  BY <1>10, <1>11 DEF OrderInv

(* Nothing else changes a stream or a history, or adds a pending entry. *)
LEMMA SteadyOrder ==
  ASSUME OrderInv, UNCHANGED <<author, during, entry>>,
         \A s \in Subs, k \in Kinds : Stream(s, k)' = Stream(s, k),
         \A r \in Recorders : targets'[r] \subseteq targets[r]
  PROVE  OrderInv'
<1>1. AuthorInv' /\ AheadInv'
  BY DEF OrderInv, AuthorInv, AheadInv, MayPrecede, Recorded
<1>2. \A s \in Subs, k \in Kinds : Ordered(Stream(s, k), k)'
  BY DEF OrderInv, Ordered, MayPrecede
<1>3. QED
  BY <1>1, <1>2 DEF OrderInv

LEMMA ReceiveKeepsStream ==
  ASSUME TypeOK, NEW s0 \in Subs, NEW k0 \in Kinds, Receive(s0, k0),
         NEW s \in Subs, NEW k \in Kinds
  PROVE  Stream(s, k)' = Stream(s, k)
<1> DEFINE a == sent[s0][k0]
           b == queue[s0][k0]
<1>1. a \in Seq(Nat) /\ b \in Seq(Nat) /\ b # << >>
  BY DEF TypeOK, Receive
<1>2. /\ sent' = [sent EXCEPT ![s0][k0] = Append(@, Head(b))]
      /\ queue' = [queue EXCEPT ![s0][k0] = Tail(@)]
      /\ sent \in [Subs -> [Kinds -> Seq(Nat)]] /\ queue \in [Subs -> [Kinds -> Seq(Nat)]]
  BY DEF Receive, TypeOK
<1>3. CASE s = s0 /\ k = k0
  <2>1. sent'[s][k] = Append(a, Head(b)) /\ queue'[s][k] = Tail(b)
    BY <1>2, <1>3
  <2>2. QED
    BY <1>1, <1>3, <2>1, MoveHead DEF Stream
<1>4. CASE s # s0 \/ k # k0
  <2>1. sent'[s][k] = sent[s][k] /\ queue'[s][k] = queue[s][k]
    BY <1>2, <1>4
  <2>2. QED
    BY <2>1 DEF Stream
<1>5. QED
  BY <1>3, <1>4

(* An entry arrives ahead of an older one only if another connection recorded it
   while the older one was in flight, however the goroutines' sends interleave. *)
THEOREM ArrivalsAreOrdered == Spec => []ArrivalOrder
<1>1. Init => OrderInv
  <2> SUFFICES ASSUME Init PROVE OrderInv
    OBVIOUS
  <2>1. \A s \in Subs, k \in Kinds : Stream(s, k) = << >>
    BY DEF Init, Stream
  <2>2. AuthorInv /\ AheadInv
    BY DEF Init, AuthorInv, AheadInv, Recorded
  <2>3. \A s \in Subs, k \in Kinds : Ordered(Stream(s, k), k)
    BY <2>1 DEF Ordered
  <2>4. QED
    BY <2>2, <2>3 DEF OrderInv
<1>2. FateInv /\ OrderInv /\ [Next]_vars => OrderInv'
  <2> SUFFICES ASSUME FateInv, OrderInv, [Next]_vars PROVE OrderInv'
    OBVIOUS
  <2>0. TypeOK
    BY DEF FateInv
  <2>1. ASSUME NEW r \in Recorders, NEW k \in Kinds, Record(r, k)
        PROVE  OrderInv'
    BY <2>1, RecordOrder
  <2>2. ASSUME NEW r \in Recorders, NEW s \in Subs, Send(r, s)
        PROVE  OrderInv'
    BY <2>2, SendOrder
  <2>3. ASSUME NEW r \in Recorders, NEW s \in Subs, Drop(r, s)
        PROVE  OrderInv'
    <3>1. /\ targets' = [targets EXCEPT ![r] = @ \ {s}]
          /\ UNCHANGED <<author, during, entry, sent, queue>>
      BY <2>3 DEF Drop
    <3>2. \A q \in Recorders : targets'[q] \subseteq targets[q]
      BY <2>0, <3>1 DEF TypeOK
    <3>3. \A t \in Subs, k \in Kinds : Stream(t, k)' = Stream(t, k)
      BY <3>1 DEF Stream
    <3>4. QED
      BY <3>1, <3>2, <3>3, SteadyOrder
  <2>4. ASSUME NEW s \in Subs, NEW k \in Kinds, Receive(s, k)
        PROVE  OrderInv'
    <3>1. UNCHANGED <<author, during, entry, targets>>
      BY <2>4 DEF Receive, recVars
    <3>2. \A t \in Subs, j \in Kinds : Stream(t, j)' = Stream(t, j)
      BY <2>0, <2>4, ReceiveKeepsStream
    <3>3. QED
      BY <3>1, <3>2, SteadyOrder
  <2>5. ASSUME UNCHANGED <<author, during, entry, targets, sent, queue>>
        PROVE  OrderInv'
    <3>1. \A t \in Subs, k \in Kinds : Stream(t, k)' = Stream(t, k)
      BY <2>5 DEF Stream
    <3>2. QED
      BY <2>5, <3>1, SteadyOrder
  <2>6. (\E s \in Subs : Connect(s) \/ Stall(s) \/ Disconnect(s))
          \/ (\E p \in Pollers : Polling(p)) \/ UNCHANGED vars
          => UNCHANGED <<author, during, entry, targets, sent, queue>>
    BY DEF Connect, Subscribe, Stall, Disconnect, Unsubscribe, Polling,
           TakeSnapshot, NameRequest, FinishPass, vars, recVars, pipeVars
  <2>7. QED
    BY <2>1, <2>2, <2>3, <2>4, <2>5, <2>6
    DEF Next, Recording, FanOut, Serving
<1>3. OrderInv => ArrivalOrder
  BY DEF OrderInv, Ordered, MayPrecede, Stream, ArrivalOrder
<1>4. QED
  BY <1>1, <1>2, <1>3, FateHolds, PTL DEF Spec

===============================================================================
