------------------------------ MODULE EngineClient ------------------------------
(***************************************************************************)
(* The app's view of the engine: the demo engine it spawns, the daemon it  *)
(* only renders, the poll and stream tasks of each start(), the chain of   *)
(* restarts, and what all of them publish.                                 *)
(*                                                                         *)
(* Everything runs on the main actor, so a step is what happens between    *)
(* two awaits.  An answer may be in hand before the task that awaits it    *)
(* runs again; cancelling a task makes an await that has no answer throw.  *)
(* Task n is created by the n-th start(); task 0 is the Refresh button's.  *)
(* A published list of sessions is taken to be non-empty.                  *)
(***************************************************************************)
EXTENDS Naturals

CONSTANTS
  MaxRestarts,    \* bound of the model: restarts requested
  MaxAppears,     \* bound of the model: windows ever opened
  MaxTries,       \* attempts of pollLoop at /healthz (12 in the code)
  Pauses          \* the values the pause marker takes

ASSUME EngineAssumption ==
  /\ MaxRestarts \in Nat /\ MaxAppears \in Nat /\ MaxTries \in Nat \ {0}
  /\ Pauses \subseteq BOOLEAN

VARIABLES
  mode,           \* "demo" or "live"
  state,          \* what the sidebar shows: "starting", "running" or "failed"
  sessions,       \* whose sessions are shown, or "none"
  events,         \* whose live events are shown
  warning,        \* captureWarning is not nil
  process,        \* the engine the app holds a handle on, 0 for none
  engine,         \* the state of each engine process ever spawned
  abandoned,      \* history: engines terminated by stop(), which does not wait
  starts,         \* start() has been called that often
  cancelled,      \* the tasks of that many first starts are cancelled
  poll, stream,   \* the tasks
  generation,     \* restartGeneration
  restarts,       \* the chain of restarts
  windows,        \* windows on screen
  appears,        \* windows opened so far
  steady,         \* the launchd daemon is up to stay; before, it comes, goes and fails
  paused          \* capture is paused

Modes   == {"demo", "live"}
Starts  == 1 .. (MaxRestarts + MaxAppears)
Engines == Starts
Pollers == {0} \union Starts

shownVars   == <<mode, state, sessions, events, warning>>
engineVars  == <<process, engine, abandoned>>
taskVars    == <<starts, cancelled, poll, stream>>
restartVars == <<generation, restarts>>
windowVars  == <<windows, appears>>
worldVars   == <<steady, paused>>
vars == <<shownVars, engineVars, taskVars, restartVars, windowVars, worldVars>>

NoPoll   == [at |-> "done", asked |-> "demo", answer |-> "none", tries |-> 0]
NoStream == [at |-> "done", asked |-> "demo"]

Init ==
  /\ mode = "demo" /\ state = "starting" /\ sessions = "none"
  /\ events = {} /\ warning = FALSE
  /\ process = 0 /\ engine = [e \in Engines |-> "unborn"] /\ abandoned = {}
  /\ starts = 0 /\ cancelled = 0
  /\ poll = [n \in Pollers |-> NoPoll] /\ stream = [n \in Starts |-> NoStream]
  /\ generation = 0 /\ restarts = [r \in 1 .. MaxRestarts |->
                                     [at |-> "none", to |-> "demo", awaits |-> 0]]
  /\ windows = 0 /\ appears = 0
  /\ steady = FALSE /\ paused = FALSE

Cancelled(n) == n # 0 /\ n <= cancelled
Polling      == starts > cancelled

Alive(e) == engine[e] \in {"starting", "serving", "stopping"}

Serving == \E e \in Engines : engine[e] = "serving"

Up(m) == IF m = "live" THEN steady ELSE Serving

-------------------------------------------------------------------------------
(***************************************************************************)
(* Starting and stopping.  p is the handle left by what came before in the *)
(* same step, and fleet the engines.                                       *)
(***************************************************************************)

(* Deliberately wrong variant: the handle is not looked at. *)
SpawnsAnyway(m, p) == m = "demo"

(* startEngineIfNeeded: only in demo mode, and only without a handle. *)
Spawns(m, p) == m = "demo" /\ p = 0

(* The bundled helper may be missing or fail to launch. *)
StartEngine(m, p, fleet, shown) ==
  IF Spawns(m, p)
  THEN \/ /\ process' = starts + 1
          /\ engine' = [fleet EXCEPT ![starts + 1] = "starting"]
          /\ state' = shown
       \/ process' = p /\ engine' = fleet /\ state' = "failed"
  ELSE process' = p /\ engine' = fleet /\ state' = shown

(* Cancelling the tasks of all starts so far: a poll that sleeps is woken and
   returns, one that awaits an answer returns after it. *)
EndedPolls == [n \in Pollers |-> IF poll[n].at \in {"check", "loop"} THEN NoPoll ELSE poll[n]]

(* Deliberately wrong variant: the lines of a cancelled stream are still read. *)
LetStreamsRun == stream

(* consumeStream looks for cancellation at every line. *)
EndedStreams == [n \in Starts |-> NoStream]

CancelTasks == cancelled' = starts /\ poll' = EndedPolls /\ stream' = EndedStreams

(* Deliberately wrong variant: a poll task that exists is kept. *)
KeepTasks ==
  /\ starts' = starts + 1
  /\ IF starts = 0 THEN cancelled' = 0 /\ poll' = [poll EXCEPT ![1].at = "check"]
                   ELSE UNCHANGED <<cancelled, poll>>
  /\ stream' = [EndedStreams EXCEPT ![starts + 1].at = "check"]

(* start() replaces the tasks of the start before. *)
StartTasks ==
  /\ cancelled' = starts
  /\ starts' = starts + 1
  /\ poll' = [EndedPolls EXCEPT ![starts + 1].at = "check"]
  /\ stream' = [EndedStreams EXCEPT ![starts + 1].at = "check"]

(* terminate() of a handle, which an engine that has exited ignores. *)
Terminated(fleet, p) ==
  IF p # 0 /\ fleet[p] # "exited" THEN [fleet EXCEPT ![p] = "stopping"] ELSE fleet

(* ContentView.onAppear: start(mode: engine.mode). *)
Appear ==
  /\ appears < MaxAppears
  /\ appears' = appears + 1 /\ windows' = windows + 1
  /\ StartEngine(mode, process, engine, state)
  /\ StartTasks
  /\ UNCHANGED <<mode, sessions, events, warning, abandoned, restartVars, worldVars>>

(* ContentView.onDisappear: stop(). *)
Disappear ==
  /\ windows > 0
  /\ windows' = windows - 1
  /\ CancelTasks
  /\ engine' = Terminated(engine, process)
  /\ abandoned' = IF process = 0 THEN abandoned ELSE abandoned \union {process}
  /\ process' = 0
  /\ UNCHANGED <<shownVars, starts, restartVars, appears, worldVars>>

(***************************************************************************)
(* Restarts.                                                               *)
(***************************************************************************)

(* Every button that restarts asks for the other mode. *)
Restart(to) ==
  /\ to # mode /\ generation < MaxRestarts
  /\ generation' = generation + 1
  /\ restarts' = [restarts EXCEPT ![generation + 1] = [at |-> "queued", to |-> to, awaits |-> 0]]
  /\ UNCHANGED <<shownVars, engineVars, taskVars, windowVars, worldVars>>

(* Deliberately wrong variant: the restart that runs first wins. *)
SwitchFirst(r, p, fleet) ==
  /\ restarts' = [restarts EXCEPT ![r] = [@ EXCEPT !.at = "done", !.awaits = 0]]
  /\ IF r = 1
     THEN /\ mode' = restarts[r].to
          /\ sessions' = "none" /\ events' = {}
          /\ StartEngine(restarts[r].to, p, fleet, "starting")
          /\ StartTasks
     ELSE /\ process' = p /\ engine' = fleet /\ CancelTasks
          /\ UNCHANGED <<mode, state, sessions, events, starts>>

(* The rest of restart(mode:) once nothing is left to wait for. *)
Switch(r, p, fleet) ==
  /\ restarts' = [restarts EXCEPT ![r] = [@ EXCEPT !.at = "done", !.awaits = 0]]
  /\ IF r = generation
     THEN /\ mode' = restarts[r].to
          /\ sessions' = "none" /\ events' = {}
          /\ StartEngine(restarts[r].to, p, fleet, "starting")
          /\ StartTasks
     ELSE /\ process' = p /\ engine' = fleet /\ CancelTasks
          /\ UNCHANGED <<mode, state, sessions, events, starts>>

MyTurn(r) == \A q \in 1 .. MaxRestarts : q + 1 = r => restarts[q].at = "done"

(* stopAndWait: without a handle nothing is awaited. *)
StopAndWait(r) ==
  /\ restarts[r].at = "queued" /\ MyTurn(r)
  /\ IF process = 0
     THEN Switch(r, 0, engine)
     ELSE /\ restarts' = [restarts EXCEPT ![r] = [@ EXCEPT !.at = "stopping", !.awaits = process]]
          /\ engine' = Terminated(engine, process) /\ process' = 0
          /\ CancelTasks
          /\ UNCHANGED <<mode, state, sessions, events, starts>>
  /\ UNCHANGED <<warning, abandoned, generation, windowVars, worldVars>>

(* Deliberately wrong variant: terminate() is taken for the exit. *)
Resume(r) ==
  /\ restarts[r].at = "stopping"
  /\ Switch(r, process, engine)
  /\ UNCHANGED <<warning, abandoned, generation, windowVars, worldVars>>

(* waitUntilExit has returned. *)
SwitchAfterExit(r) ==
  /\ restarts[r].at = "stopping" /\ engine[restarts[r].awaits] = "exited"
  /\ Switch(r, process, engine)
  /\ UNCHANGED <<warning, abandoned, generation, windowVars, worldVars>>

-------------------------------------------------------------------------------
(***************************************************************************)
(* The poll tasks.                                                         *)
(***************************************************************************)

(* What a server may say when it is asked.  /healthz of the demo engine and of
   the daemon read the same pause marker. *)
Answers(what) ==
  LET said == IF what = "health" /\ paused THEN "paused" ELSE "ok" IN
  CASE Up(mode) -> {said}
    [] ~Up(mode) /\ mode = "demo" -> {"none"}
    [] ~Up(mode) /\ mode = "live" -> {said, "none"} \union (IF what = "sessions" THEN {"error"} ELSE {})

(* What the task that asked finds when it runs again, at any later time. *)
Heard(n) == {poll[n].answer} \union (IF Cancelled(n) THEN {"none"} ELSE {})

Ask(n, what) ==
  \E a \in Answers(what) :
    poll' = [poll EXCEPT ![n] = [@ EXCEPT !.at = what, !.asked = mode, !.answer = a]]

(* pollLoop's first loop, then its second one; the sleeps between them end at
   any time. *)
CheckHealth(n) ==
  /\ poll[n].at = "check"
  /\ Ask(n, "health")
  /\ UNCHANGED <<shownVars, engineVars, starts, cancelled, stream, restartVars, windowVars, worldVars>>

AskSessions(n) ==
  /\ poll[n].at = "loop"
  /\ Ask(n, "sessions")
  /\ UNCHANGED <<shownVars, engineVars, starts, cancelled, stream, restartVars, windowVars, worldVars>>

(* The Refresh button: a task nobody cancels. *)
Refresh ==
  /\ poll[0].at = "done"
  /\ Ask(0, "sessions")
  /\ UNCHANGED <<shownVars, engineVars, starts, cancelled, stream, restartVars, windowVars, worldVars>>

(* healthOK, with the mode of now and the answer of then. *)
HealthOK(n) ==
  /\ poll[n].at = "health"
  /\ \E answer \in Heard(n) :
       /\ warning' = IF answer = "none" THEN warning ELSE mode = "live" /\ answer = "paused"
       /\ poll' = [poll EXCEPT ![n] =
            IF Cancelled(n) THEN NoPoll
            ELSE IF answer # "none" \/ poll[n].tries + 1 = MaxTries
            THEN [NoPoll EXCEPT !.at = "loop"]
            ELSE [NoPoll EXCEPT !.at = "check", !.tries = poll[n].tries + 1]]
  /\ UNCHANGED <<mode, state, sessions, events, engineVars, starts, cancelled, stream,
                 restartVars, windowVars, worldVars>>

(* refresh after its await: no look at the mode, nor at cancellation. *)
Publish(n) ==
  /\ poll[n].at = "sessions"
  /\ \E answer \in Heard(n) :
       /\ sessions' = IF answer = "ok" THEN poll[n].asked ELSE sessions
       /\ state' = CASE answer = "ok"    -> "running"
                     [] answer = "error" -> "failed"
                     [] answer = "none"  -> IF sessions = "none" THEN "failed" ELSE state
  /\ poll' = [poll EXCEPT ![n] = IF n = 0 \/ Cancelled(n) THEN NoPoll
                                 ELSE [NoPoll EXCEPT !.at = "loop"]]
  /\ UNCHANGED <<mode, events, warning, engineVars, starts, cancelled, stream,
                 restartVars, windowVars, worldVars>>

(***************************************************************************)
(* The stream tasks.                                                       *)
(***************************************************************************)

StreamOpens(n) ==
  /\ stream[n].at = "check" /\ (mode = "demo" => Serving)
  /\ stream' = [stream EXCEPT ![n] = [at |-> "open", asked |-> mode]]
  /\ UNCHANGED <<shownVars, engineVars, starts, cancelled, poll, restartVars, windowVars, worldVars>>

StreamEvent(n) ==
  /\ stream[n].at = "open" /\ (stream[n].asked = "demo" => Serving)
  /\ events' = events \union {stream[n].asked}
  /\ UNCHANGED <<mode, state, sessions, warning, engineVars, taskVars, restartVars, windowVars,
                 worldVars>>

StreamEnds(n) ==
  /\ stream[n].at = "open" /\ ~Up(stream[n].asked)
  /\ stream' = [stream EXCEPT ![n] = [NoStream EXCEPT !.at = "check"]]
  /\ UNCHANGED <<shownVars, engineVars, starts, cancelled, poll, restartVars, windowVars, worldVars>>

-------------------------------------------------------------------------------
(***************************************************************************)
(* Engine processes, the daemon and the capture path.                      *)
(***************************************************************************)

(* runMonitor listens on the demo ports or exits. *)
Listen(e) ==
  /\ engine[e] = "starting"
  /\ engine' = [engine EXCEPT ![e] =
       IF \E f \in Engines : engine[f] \in {"serving", "stopping"} THEN "exited" ELSE "serving"]
  /\ UNCHANGED <<shownVars, process, abandoned, taskVars, restartVars, windowVars, worldVars>>

Exit(e) ==
  /\ engine[e] = "stopping"
  /\ engine' = [engine EXCEPT ![e] = "exited"]
  /\ UNCHANGED <<shownVars, process, abandoned, taskVars, restartVars, windowVars, worldVars>>

(* launchd's daemon stops failing; the breaker trips, and capture is enabled
   again. *)
WorldChanges ==
  /\ steady' \in {steady, TRUE} /\ paused' \in Pauses
  /\ UNCHANGED <<shownVars, engineVars, taskVars, restartVars, windowVars>>

-------------------------------------------------------------------------------

PollStep(n) == CheckHealth(n) \/ AskSessions(n) \/ HealthOK(n) \/ Publish(n)

StreamStep(n) == StreamOpens(n) \/ StreamEvent(n) \/ StreamEnds(n)

RestartStep(r) == StopAndWait(r) \/ SwitchAfterExit(r)

Next ==
  \/ Appear \/ Disappear \/ Refresh
  \/ \E to \in Modes : Restart(to)
  \/ \E r \in 1 .. MaxRestarts : RestartStep(r)
  \/ \E n \in Pollers : PollStep(n)
  \/ \E n \in Starts : StreamStep(n)
  \/ \E e \in Engines : Listen(e) \/ Exit(e)
  \/ WorldChanges

Spec == Init /\ [][Next]_vars

(* The poll task of the last start goes on, requests time out, the restarts in
   the chain go on, and a process that was sent SIGTERM exits (the monitor
   installs no handler for it).  Nothing is assumed of cancelled tasks. *)
Fairness ==
  /\ WF_vars(\E n \in Starts : n = starts /\ PollStep(n))
  /\ WF_vars(\E r \in 1 .. MaxRestarts : RestartStep(r))
  /\ WF_vars(\E e \in Engines : Exit(e))

FairSpec == Spec /\ Fairness

(***************************************************************************)
(* Properties                                                              *)
(***************************************************************************)

(* Types, and: an engine that was not told to stop is the one the app holds a
   handle on, so that no demo engine runs that nothing will ever stop; and the
   live feed shows events of the current mode only, although streams are torn
   down while others are set up. *)
TypeOK ==
  /\ mode \in Modes /\ state \in {"starting", "running", "failed"}
  /\ sessions \in Modes \union {"none"} /\ events \subseteq {mode}
  /\ warning \in BOOLEAN /\ paused \in BOOLEAN
  /\ process \in {0} \union Engines /\ abandoned \subseteq Engines
  /\ engine \in [Engines -> {"unborn", "starting", "serving", "stopping", "exited"}]
  /\ \A e \in Engines : engine[e] \in {"starting", "serving"} => e = process
  /\ starts \in 0 .. (MaxRestarts + MaxAppears) /\ cancelled \in 0 .. starts
  /\ poll \in [Pollers -> [at : {"done", "check", "health", "loop", "sessions"}, asked : Modes,
                           answer : {"none", "ok", "error", "paused"},
                           tries : 0 .. MaxTries]]
  /\ stream \in [Starts -> [at : {"done", "check", "open"}, asked : Modes]]
  /\ generation \in 0 .. MaxRestarts
  /\ restarts \in [1 .. MaxRestarts -> [at : {"none", "queued", "stopping", "done"}, to : Modes,
                                        awaits : {0} \union Engines]]
  /\ windows \in 0 .. appears /\ appears \in 0 .. MaxAppears
  /\ steady \in BOOLEAN

(* An engine that a restart spawns finds the demo ports free: whatever was
   running has exited, however fast the modes are toggled, except an engine that
   stop() terminated without waiting (EngineClient.swift:144-148). *)
RestartsReleaseThePorts ==
  [][\A e \in Engines : (engine[e] = "unborn" /\ engine'[e] = "starting" /\ windows' = windows) =>
       \A f \in Engines \ {e} : Alive(f)' => f \in abandoned]_vars

(* The mode becomes the one asked for last, however many restarts are queued
   and whatever windows open and close meanwhile ("a newer restart supersedes an
   older queued one"). *)
LastRestartWins ==
  \A r \in 1 .. MaxRestarts :
    generation = r ~> generation # r \/ mode = restarts[r].to

(* What the sidebar shows settles on the current mode's sessions once that mode
   stays, its engine answers and a poll task is alive: answers that were in
   flight when the mode changed are overwritten. *)
ShownSettles ==
  \A m \in Modes : <>[](mode = m /\ Up(m) /\ Polling) => <>[](sessions = m /\ state = "running")

(* captureWarning is "non-nil when capture is paused" in live mode. *)
PauseIsShown == <>[](mode = "live" /\ steady /\ Polling /\ paused) => <>warning

===============================================================================
