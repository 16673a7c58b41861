--------------------------- MODULE EngineClientProofs ---------------------------
(***************************************************************************)
(* Proofs about EngineClient, for any numbers of restarts, windows and     *)
(* health checks: the app never forgets an engine it has not told to stop, *)
(* and a restart spawns one only when the ports are free.                  *)
(***************************************************************************)
EXTENDS EngineClient, TLAPS

EngineStates  == {"unborn", "starting", "serving", "stopping", "exited"}
RestartStates == [at : {"none", "queued", "stopping", "done"}, to : Modes,
                  awaits : {0} \union Engines]

EngineType ==
  /\ process \in {0} \union Engines
  /\ engine \in [Engines -> EngineStates]
  /\ restarts \in [1 .. MaxRestarts -> RestartStates]
  /\ generation \in Nat /\ starts \in Nat /\ windows \in Nat
  /\ appears \in 0 .. MaxAppears

(* The first k restarts in the chain are done, at most the next one waits for an
   engine, and each of them and each window has started at most once. *)
Chain(k) ==
  /\ \A r \in 1 .. MaxRestarts : restarts[r].at = "done" <=> r <= k
  /\ \A r \in 1 .. MaxRestarts : restarts[r].at = "stopping" => r = k + 1
  /\ \A r \in 1 .. MaxRestarts : r > generation => restarts[r].at = "none"
  /\ starts <= appears + k

ChainInv == \E k \in 0 .. MaxRestarts : Chain(k)

(* An engine that was not told to stop is the one the app holds a handle on. *)
Held == \A e \in Engines : engine[e] \in {"starting", "serving"} => e = process

(* One that was, and has not exited, is waited for, unless stop() told it. *)
Awaited ==
  \A e \in Engines : engine[e] = "stopping" =>
    \/ e \in abandoned
    \/ \E r \in 1 .. MaxRestarts : restarts[r].at = "stopping" /\ restarts[r].awaits = e

IInv == EngineType /\ ChainInv /\ Held /\ Awaited

-------------------------------------------------------------------------------

(* Nothing has been spawned at first. *)
LEMMA InitInv == Init => IInv
<1> SUFFICES ASSUME Init PROVE IInv
  OBVIOUS
<1>1. EngineType
  BY EngineAssumption DEF Init, EngineType, EngineStates, RestartStates, Modes
<1>2. Chain(0)
  BY EngineAssumption DEF Init, Chain
<1>3. ChainInv
  BY <1>2, EngineAssumption DEF ChainInv
<1>4. Held /\ Awaited
  BY DEF Init, Held, Awaited
<1> QED
  BY <1>1, <1>3, <1>4 DEF IInv

(* What spawning leaves: the handle and the engines are as they were, or there
   was no handle and the new engine is the one held. *)
LEMMA SpawnEffect ==
  ASSUME NEW m, NEW p \in {0} \union Engines, NEW fleet \in [Engines -> EngineStates], NEW shown,
         starts + 1 \in Engines, StartEngine(m, p, fleet, shown)
  PROVE  \/ process' = p /\ engine' = fleet
         \/ /\ p = 0 /\ process' = starts + 1
            /\ engine' = [fleet EXCEPT ![starts + 1] = "starting"]
  BY DEF StartEngine, Spawns

(* What terminating leaves: only the engine of the handle changes, and it is no
   longer running on its own account. *)
LEMMA TerminateEffect ==
  ASSUME NEW p \in {0} \union Engines, NEW fleet \in [Engines -> EngineStates]
  PROVE  /\ Terminated(fleet, p) \in [Engines -> EngineStates]
         /\ \A e \in Engines : e # p => Terminated(fleet, p)[e] = fleet[e]
         /\ p # 0 => Terminated(fleet, p)[p] \in {"stopping", "exited"}
  BY DEF Terminated, EngineStates, Engines, Starts

(* There is room for one more start when a window opens or a restart ends. *)
LEMMA Room ==
  ASSUME EngineType, NEW k \in 0 .. MaxRestarts, Chain(k),
         appears < MaxAppears \/ k < MaxRestarts
  PROVE  starts + 1 \in Engines
  BY EngineAssumption DEF EngineType, Chain, Engines, Starts

(* A restart whose turn it is, is the one after those that are done. *)
LEMMA TurnIsNext ==
  ASSUME EngineType, NEW k \in 0 .. MaxRestarts, Chain(k), NEW r \in 1 .. MaxRestarts,
         \/ restarts[r].at = "stopping"
         \/ restarts[r].at = "queued" /\ MyTurn(r)
  PROVE  r = k + 1
<1>1. CASE restarts[r].at = "stopping"
  BY <1>1 DEF Chain
<1>2. CASE restarts[r].at = "queued" /\ MyTurn(r)
  <2>1. ~(r <= k)
    BY <1>2 DEF Chain
  <2>2. ASSUME r # 1 PROVE r - 1 <= k
    BY <1>2, <2>2, EngineAssumption DEF Chain, MyTurn
  <2> QED
    BY <2>1, <2>2, EngineAssumption
<1> QED
  BY <1>1, <1>2

(* The end of a restart whose turn it is, when every engine that runs or still
   has to exit is the app's or was abandoned. *)
LEMMA SwitchStep ==
  ASSUME IInv, NEW r \in 1 .. MaxRestarts, Switch(r, process, engine),
         UNCHANGED <<abandoned, generation, windowVars>>,
         \/ restarts[r].at = "stopping"
         \/ restarts[r].at = "queued" /\ MyTurn(r),
         \A e \in Engines : engine[e] = "stopping" => e \in abandoned
  PROVE  IInv' /\ (process' # process => process = 0)
<1>1. PICK k \in 0 .. MaxRestarts : Chain(k)
  BY DEF IInv, ChainInv
<1>2. r = k + 1
  BY <1>1, TurnIsNext DEF IInv
<1>3. starts + 1 \in Engines
  BY <1>1, <1>2, Room, EngineAssumption DEF IInv
<1>4. \/ process' = process /\ engine' = engine
      \/ /\ process = 0 /\ process' = starts + 1
         /\ engine' = [engine EXCEPT ![starts + 1] = "starting"]
  BY <1>3, SpawnEffect DEF Switch, IInv, EngineType
<1>5. restarts' = [restarts EXCEPT ![r] = [@ EXCEPT !.at = "done", !.awaits = 0]]
      /\ starts' \in {starts, starts + 1}
      /\ UNCHANGED <<abandoned, generation, windows, appears>>
  BY DEF Switch, StartTasks, windowVars
<1>6. \A q \in 1 .. MaxRestarts :
        restarts'[q].at = (IF q = r THEN "done" ELSE restarts[q].at)
  BY <1>5 DEF IInv, EngineType, RestartStates
<1>7. EngineType'
  <2>1. restarts' \in [1 .. MaxRestarts -> RestartStates]
    BY <1>5 DEF IInv, EngineType, RestartStates
  <2>2. engine' \in [Engines -> EngineStates] /\ process' \in {0} \union Engines
    BY <1>3, <1>4 DEF IInv, EngineType, EngineStates
  <2> QED
    BY <1>5, <2>1, <2>2 DEF IInv, EngineType
<1>8. ChainInv'
  <2>1. Chain(k + 1)'
    BY <1>1, <1>2, <1>5, <1>6, EngineAssumption DEF Chain, IInv, EngineType
  <2> QED
    BY <1>2, <2>1, EngineAssumption DEF ChainInv
<1>9. Held'
  <2>1. CASE process' = process /\ engine' = engine
    BY <2>1 DEF IInv, Held
  <2>2. CASE /\ process = 0 /\ process' = starts + 1
             /\ engine' = [engine EXCEPT ![starts + 1] = "starting"]
    <3> SUFFICES ASSUME NEW e \in Engines, engine'[e] \in {"starting", "serving"}
                 PROVE  e = process'
      BY DEF Held
    <3>1. e # 0
      BY EngineAssumption DEF Engines, Starts
    <3>2. CASE e = starts + 1
      BY <2>2, <3>2
    <3>3. CASE e # starts + 1
      <4>1. engine'[e] = engine[e]
        BY <2>2, <3>3, <1>3 DEF IInv, EngineType
      <4> QED
        BY <4>1, <3>1, <2>2 DEF IInv, Held
    <3> QED
      BY <3>2, <3>3
  <2> QED
    BY <1>4, <2>1, <2>2
<1>10. Awaited'
  BY <1>3, <1>4, <1>5 DEF IInv, EngineType, Awaited
<1> QED
  BY <1>4, <1>7, <1>8, <1>9, <1>10 DEF IInv

(* When a restart ends, the engine it waited for has exited and no other restart
   waits for one. *)
LEMMA NobodyIsAwaited ==
  ASSUME IInv, NEW r \in 1 .. MaxRestarts,
         \/ restarts[r].at = "queued" /\ MyTurn(r)
         \/ restarts[r].at = "stopping" /\ engine[restarts[r].awaits] = "exited"
  PROVE  \A e \in Engines : engine[e] = "stopping" => e \in abandoned
<1>1. PICK k \in 0 .. MaxRestarts : Chain(k)
  BY DEF IInv, ChainInv
<1>2. r = k + 1
  BY <1>1, TurnIsNext DEF IInv
<1>3. \A q \in 1 .. MaxRestarts : restarts[q].at = "stopping" => q = r
  BY <1>1, <1>2 DEF Chain
<1> QED
  BY <1>3 DEF IInv, Awaited

-------------------------------------------------------------------------------

(* A window that opens starts at most the engine it then holds. *)
LEMMA AppearKeeps == IInv /\ Appear => IInv'
<1> SUFFICES ASSUME IInv, Appear PROVE IInv'
  OBVIOUS
<1>1. PICK k \in 0 .. MaxRestarts : Chain(k)
  BY DEF IInv, ChainInv
<1>2. starts + 1 \in Engines
  BY <1>1, Room DEF IInv, Appear
<1>3. \/ process' = process /\ engine' = engine
      \/ /\ process = 0 /\ process' = starts + 1
         /\ engine' = [engine EXCEPT ![starts + 1] = "starting"]
  BY <1>2, SpawnEffect DEF Appear, IInv, EngineType
<1>4. /\ starts' = starts + 1 /\ appears' = appears + 1 /\ windows' = windows + 1
      /\ appears < MaxAppears
      /\ UNCHANGED <<abandoned, generation, restarts>>
  BY DEF Appear, StartTasks, restartVars
<1>5. EngineType'
  <2>1. engine' \in [Engines -> EngineStates] /\ process' \in {0} \union Engines
    BY <1>2, <1>3 DEF IInv, EngineType, EngineStates
  <2> QED
    BY <1>4, <2>1, EngineAssumption DEF IInv, EngineType
<1>6. ChainInv'
  <2>1. Chain(k)'
    BY <1>1, <1>4, EngineAssumption DEF Chain, IInv, EngineType
  <2> QED
    BY <2>1 DEF ChainInv
<1>7. Held'
  <2>1. CASE process' = process /\ engine' = engine
    BY <2>1 DEF IInv, Held
  <2>2. CASE /\ process = 0 /\ process' = starts + 1
             /\ engine' = [engine EXCEPT ![starts + 1] = "starting"]
    <3> SUFFICES ASSUME NEW e \in Engines, engine'[e] \in {"starting", "serving"},
                        e # starts + 1
                 PROVE  FALSE
      BY <2>2 DEF Held
    <3>1. e # 0
      BY EngineAssumption DEF Engines, Starts
    <3>2. engine'[e] = engine[e]
      BY <2>2, <1>2 DEF IInv, EngineType
    <3> QED
      BY <3>1, <3>2, <2>2 DEF IInv, Held
  <2> QED
    BY <1>3, <2>1, <2>2
<1>8. Awaited'
  BY <1>2, <1>3, <1>4 DEF IInv, EngineType, Awaited
<1> QED
  BY <1>5, <1>6, <1>7, <1>8 DEF IInv

(* stop() abandons the engine it tells to stop. *)
LEMMA DisappearKeeps == IInv /\ Disappear => IInv'
<1> SUFFICES ASSUME IInv, Disappear PROVE IInv'
  OBVIOUS
<1>1. /\ engine' = Terminated(engine, process) /\ process' = 0
      /\ abandoned' = IF process = 0 THEN abandoned ELSE abandoned \union {process}
      /\ windows' = windows - 1 /\ windows > 0
      /\ UNCHANGED <<starts, generation, restarts, appears>>
  BY DEF Disappear, restartVars
<1>2. /\ engine' \in [Engines -> EngineStates]
      /\ \A e \in Engines : e # process => engine'[e] = engine[e]
      /\ process # 0 => engine'[process] \in {"stopping", "exited"}
  BY <1>1, TerminateEffect DEF IInv, EngineType
<1>3. EngineType'
  BY <1>1, <1>2 DEF IInv, EngineType
<1>4. ChainInv'
  BY <1>1 DEF IInv, ChainInv, Chain
<1>5. \A e \in Engines : e # 0
  BY EngineAssumption DEF Engines, Starts
<1>6. Held'
  <2> SUFFICES ASSUME NEW e \in Engines, engine'[e] \in {"starting", "serving"} PROVE FALSE
    BY DEF Held
  <2>1. e # process
    BY <1>2, <1>5
  <2> QED
    BY <1>2, <2>1 DEF IInv, Held
<1>7. Awaited'
  <2> SUFFICES ASSUME NEW e \in Engines, engine'[e] = "stopping", e \notin abandoned'
               PROVE  \E r \in 1 .. MaxRestarts :
                        restarts'[r].at = "stopping" /\ restarts'[r].awaits = e
    BY DEF Awaited
  <2>1. e # process /\ e \notin abandoned
    BY <1>1, <1>5
  <2> QED
    BY <1>1, <1>2, <2>1 DEF IInv, Awaited
<1> QED
  BY <1>3, <1>4, <1>6, <1>7 DEF IInv

(* A new restart is queued behind the others. *)
LEMMA RestartKeeps == ASSUME NEW to \in Modes, IInv, Restart(to) PROVE IInv'
<1>1. PICK k \in 0 .. MaxRestarts : Chain(k)
  BY DEF IInv, ChainInv
<1>2. /\ generation < MaxRestarts /\ generation' = generation + 1
      /\ restarts' = [restarts EXCEPT ![generation + 1] =
                                        [at |-> "queued", to |-> to, awaits |-> 0]]
      /\ UNCHANGED <<process, engine, abandoned, starts, windows, appears>>
  BY DEF Restart, engineVars, taskVars, windowVars
<1>3. \A q \in 1 .. MaxRestarts :
        restarts'[q] = IF q = generation + 1 THEN [at |-> "queued", to |-> to, awaits |-> 0]
                                             ELSE restarts[q]
  BY <1>2 DEF IInv, EngineType
<1>4. generation + 1 \in 1 .. MaxRestarts /\ restarts[generation + 1].at = "none"
  BY <1>1, <1>2, EngineAssumption DEF IInv, EngineType, Chain
<1>5. EngineType'
  <2>1. [at |-> "queued", to |-> to, awaits |-> 0] \in RestartStates
    BY DEF RestartStates
  <2>2. restarts' \in [1 .. MaxRestarts -> RestartStates]
    <3> DEFINE new == [at |-> "queued", to |-> to, awaits |-> 0]
    <3> HIDE DEF new
    <3>1. new \in RestartStates /\ restarts' = [restarts EXCEPT ![generation + 1] = new]
      BY <1>2, <2>1 DEF new
    <3> QED
      BY <3>1 DEF IInv, EngineType
  <2> QED
    BY <1>2, <2>2 DEF IInv, EngineType
<1>6. ChainInv'
  <2>1. Chain(k)'
    BY <1>1, <1>2, <1>3, <1>4 DEF Chain, IInv, EngineType
  <2> QED
    BY <2>1 DEF ChainInv
<1>7. Held'
  BY <1>2 DEF IInv, Held
<1>8. Awaited'
  BY <1>2, <1>3, <1>4 DEF IInv, Awaited
<1> QED
  BY <1>5, <1>6, <1>7, <1>8 DEF IInv

(* A restart whose turn comes tells the engine to stop and waits for it, or ends
   at once when there is none. *)
LEMMA StopAndWaitKeeps == ASSUME NEW r \in 1 .. MaxRestarts, IInv, StopAndWait(r) PROVE IInv'
<1>1. restarts[r].at = "queued" /\ MyTurn(r)
  BY DEF StopAndWait
<1>2. CASE process = 0
  <2>1. Switch(r, process, engine) /\ UNCHANGED <<abandoned, generation, windowVars>>
    BY <1>2 DEF StopAndWait
  <2>2. \A e \in Engines : engine[e] = "stopping" => e \in abandoned
    BY <1>1, NobodyIsAwaited
  <2> QED
    BY <1>1, <2>1, <2>2, SwitchStep
<1>3. CASE process # 0
  <2>1. PICK k \in 0 .. MaxRestarts : Chain(k)
    BY DEF IInv, ChainInv
  <2>2. /\ restarts' = [restarts EXCEPT ![r] = [@ EXCEPT !.at = "stopping", !.awaits = process]]
        /\ engine' = Terminated(engine, process) /\ process' = 0
        /\ UNCHANGED <<abandoned, starts, generation, windows, appears>>
    BY <1>3 DEF StopAndWait, windowVars
  <2>3. r = k + 1
    BY <1>1, <2>1, TurnIsNext DEF IInv
  <2>4. /\ restarts'[r].at = "stopping" /\ restarts'[r].awaits = process
        /\ \A q \in 1 .. MaxRestarts : q # r => restarts'[q] = restarts[q]
    BY <2>2 DEF IInv, EngineType, RestartStates
  <2>5. /\ engine' \in [Engines -> EngineStates]
        /\ \A e \in Engines : e # process => engine'[e] = engine[e]
        /\ engine'[process] \in {"stopping", "exited"}
    BY <1>3, <2>2, TerminateEffect DEF IInv, EngineType
  <2>6. EngineType'
    <3>1. restarts' \in [1 .. MaxRestarts -> RestartStates]
      BY <2>2 DEF IInv, EngineType, RestartStates
    <3> QED
      BY <2>2, <2>5, <3>1 DEF IInv, EngineType
  <2>7. ChainInv'
    <3>1. r <= generation
      BY <1>1, <2>1 DEF Chain, IInv, EngineType
    <3>2. Chain(k)'
      BY <2>1, <2>2, <2>3, <2>4, <1>1, <3>1 DEF Chain, IInv, EngineType
    <3> QED
      BY <3>2 DEF ChainInv
  <2>8. Held'
    BY <2>5 DEF IInv, Held
  <2>9. Awaited'
    <3>1. \A e \in Engines : engine[e] = "stopping" => e \in abandoned
      BY <1>1, NobodyIsAwaited
    <3> QED
      BY <2>2, <2>4, <2>5, <3>1 DEF Awaited
  <2> QED
    BY <2>6, <2>7, <2>8, <2>9 DEF IInv
<1> QED
  BY <1>2, <1>3

(* The engine of the restart has exited. *)
LEMMA SwitchAfterExitKeeps ==
  ASSUME NEW r \in 1 .. MaxRestarts, IInv, SwitchAfterExit(r) PROVE IInv'
<1>1. /\ restarts[r].at = "stopping" /\ engine[restarts[r].awaits] = "exited"
      /\ Switch(r, process, engine) /\ UNCHANGED <<abandoned, generation, windowVars>>
  BY DEF SwitchAfterExit
<1>2. \A e \in Engines : engine[e] = "stopping" => e \in abandoned
  BY <1>1, NobodyIsAwaited
<1> QED
  BY <1>1, <1>2, SwitchStep

(* An engine that starts serving, finds the ports taken, or exits. *)
LEMMA EngineKeeps ==
  ASSUME NEW f \in Engines, IInv, Listen(f) \/ Exit(f) PROVE IInv'
<1>1. /\ UNCHANGED <<process, abandoned, starts, restarts, generation, windows, appears>>
      /\ engine' \in [Engines -> EngineStates]
      /\ \A e \in Engines : e # f => engine'[e] = engine[e]
  BY DEF Listen, Exit, taskVars, restartVars, windowVars, IInv, EngineType, EngineStates
<1>2. \/ engine[f] = "starting" /\ engine'[f] \in {"exited", "serving"}
      \/ engine[f] = "stopping" /\ engine'[f] = "exited"
  BY DEF Listen, Exit, IInv, EngineType
<1>3. EngineType' /\ ChainInv'
  BY <1>1 DEF IInv, EngineType, ChainInv, Chain
<1>4. Held'
  BY <1>1, <1>2 DEF IInv, Held
<1>5. Awaited'
  BY <1>1, <1>2 DEF IInv, Awaited
<1> QED
  BY <1>3, <1>4, <1>5 DEF IInv

(* The steps of the tasks, the daemon and the breaker touch none of it. *)
LEMMA OthersKeep ==
  ASSUME \/ Refresh \/ WorldChanges \/ UNCHANGED vars
         \/ \E n \in Pollers : PollStep(n)
         \/ \E n \in Starts : StreamStep(n)
  PROVE  UNCHANGED <<process, engine, abandoned, starts, generation, restarts, windows, appears>>
  BY DEF Refresh, WorldChanges, PollStep, StreamStep, CheckHealth, AskSessions, HealthOK, Publish,
         StreamOpens, StreamEvent, StreamEnds, vars, engineVars, taskVars, restartVars, windowVars

LEMMA InvStep == IInv /\ [Next]_vars => IInv'
<1> SUFFICES ASSUME IInv, [Next]_vars PROVE IInv'
  OBVIOUS
<1>1. CASE Appear
  BY <1>1, AppearKeeps
<1>2. CASE Disappear
  BY <1>2, DisappearKeeps
<1>3. CASE \E to \in Modes : Restart(to)
  BY <1>3, RestartKeeps
<1>4. CASE \E r \in 1 .. MaxRestarts : RestartStep(r)
  BY <1>4, StopAndWaitKeeps, SwitchAfterExitKeeps DEF RestartStep
<1>5. CASE \E e \in Engines : Listen(e) \/ Exit(e)
  BY <1>5, EngineKeeps
<1>6. CASE \/ Refresh \/ WorldChanges \/ UNCHANGED vars
           \/ \E n \in Pollers : PollStep(n)
           \/ \E n \in Starts : StreamStep(n)
  <2>1. UNCHANGED <<process, engine, abandoned, starts, generation, restarts, windows, appears>>
    BY <1>6, OthersKeep
  <2> QED
    BY <2>1 DEF IInv, EngineType, ChainInv, Chain, Held, Awaited
<1> QED
  BY <1>1, <1>2, <1>3, <1>4, <1>5, <1>6 DEF Next

(* The invariant, for every reachable state. *)
THEOREM EnginesAreKept == Spec => []IInv
<1> QED
  BY InitInv, InvStep, PTL DEF Spec

-------------------------------------------------------------------------------

(* The steps that begin an engine. *)
LEMMA ReleasingStep ==
  ASSUME IInv, [Next]_vars, NEW e \in Engines,
         engine[e] = "unborn", engine'[e] = "starting", windows' = windows,
         NEW f \in Engines \ {e}, Alive(f)'
  PROVE  f \in abandoned
<1>1. ~Appear /\ ~Disappear
  BY DEF Appear, Disappear, IInv, EngineType
<1>2. ~(\E to \in Modes : Restart(to))
  BY DEF Restart, engineVars
<1>3. ASSUME NEW g \in Engines, Listen(g) \/ Exit(g) PROVE FALSE
  BY <1>3 DEF Listen, Exit, IInv, EngineType
<1>4. ~(\/ Refresh \/ WorldChanges \/ UNCHANGED vars
        \/ \E n \in Pollers : PollStep(n)
        \/ \E n \in Starts : StreamStep(n))
  BY OthersKeep
<1>5. PICK r \in 1 .. MaxRestarts : RestartStep(r)
  BY <1>1, <1>2, <1>3, <1>4 DEF Next
<1>6. ASSUME process # 0, StopAndWait(r) PROVE FALSE
  <2>1. engine' = Terminated(engine, process)
    BY <1>6 DEF StopAndWait
  <2> QED
    BY <2>1 DEF Terminated, IInv, EngineType
<1>7. /\ \/ restarts[r].at = "stopping" /\ engine[restarts[r].awaits] = "exited"
         \/ restarts[r].at = "queued" /\ MyTurn(r)
      /\ Switch(r, process, engine) /\ UNCHANGED <<abandoned, generation, windowVars>>
  BY <1>5, <1>6 DEF RestartStep, StopAndWait, SwitchAfterExit
<1>8. \A g \in Engines : engine[g] = "stopping" => g \in abandoned
  BY <1>7, NobodyIsAwaited
<1>9. PICK k \in 0 .. MaxRestarts : Chain(k)
  BY DEF IInv, ChainInv
<1>10. starts + 1 \in Engines
  <2>1. r = k + 1
    BY <1>7, <1>9, TurnIsNext DEF IInv
  <2> QED
    BY <1>9, <2>1, Room, EngineAssumption DEF IInv
<1>11. process = 0 /\ engine' = [engine EXCEPT ![starts + 1] = "starting"]
  <2>1. engine' # engine
    OBVIOUS
  <2>2. \/ process' = process /\ engine' = engine
        \/ /\ process = 0 /\ process' = starts + 1
           /\ engine' = [engine EXCEPT ![starts + 1] = "starting"]
    BY <1>7, <1>10, SpawnEffect DEF Switch, IInv, EngineType
  <2> QED
    BY <2>1, <2>2
<1>12. e = starts + 1 /\ engine'[f] = engine[f]
  BY <1>10, <1>11 DEF IInv, EngineType
<1>13. f # 0
  BY EngineAssumption DEF Engines, Starts
<1>14. engine[f] \notin {"starting", "serving"}
  BY <1>11, <1>13 DEF IInv, Held
<1> QED
  BY <1>8, <1>12, <1>14 DEF Alive

(* An engine that a restart spawns finds the demo ports free, except for engines
   that stop() abandoned: waitUntilExit stands between any two engines of the
   chain, however many restarts are queued. *)
THEOREM PortsAreReleased == Spec => RestartsReleaseThePorts
<1>1. ASSUME IInv, [Next]_vars
      PROVE  [\A e \in Engines :
                (engine[e] = "unborn" /\ engine'[e] = "starting" /\ windows' = windows) =>
                  \A f \in Engines \ {e} : Alive(f)' => f \in abandoned]_vars
  BY <1>1, ReleasingStep
<1> QED
  BY <1>1, EnginesAreKept, PTL DEF Spec, RestartsReleaseThePorts
-------------------------------------------------------------------------------

(* What the user sees, and the tasks that publish it. *)

PollStates ==
  {p \in [at : {"done", "check", "health", "loop", "sessions"}, asked : Modes,
          answer : {"none", "ok", "error", "paused"}, tries : Nat] :
     /\ p.tries < MaxTries
     /\ p.at = "sessions" => p.answer # "paused"}
StreamStates == [at : {"done", "check", "open"}, asked : Modes]

ShownType ==
  /\ mode \in Modes
  /\ state \in {"starting", "running", "failed"}
  /\ sessions \in Modes \union {"none"}
  /\ warning \in BOOLEAN

TaskType ==
  /\ cancelled \in Nat /\ cancelled <= starts
  /\ poll \in [Pollers -> PollStates]
  /\ stream \in [Starts -> StreamStates]

CountType ==
  /\ abandoned \subseteq Engines
  /\ generation <= MaxRestarts
  /\ windows <= appears

WorldType == steady \in BOOLEAN /\ paused \in BOOLEAN

(* A stream that is read asked the engine of the current mode: the step that
   changes the mode also ends every stream. *)
FeedInv ==
  /\ events \subseteq {mode}
  /\ \A n \in Starts : stream[n].at = "open" => stream[n].asked = mode

ViewInv == ShownType /\ TaskType /\ CountType /\ WorldType /\ FeedInv

(* No line is read before a stream of the new tasks opens. *)
Silent == \A n \in Starts : stream[n].at # "open"

LEMMA NoTaskType == NoPoll \in PollStates /\ NoStream \in StreamStates
  BY EngineAssumption DEF NoPoll, NoStream, PollStates, StreamStates, Modes

LEMMA EndedType ==
  ASSUME TaskType
  PROVE  EndedPolls \in [Pollers -> PollStates] /\ EndedStreams \in [Starts -> StreamStates]
<1>1. \A n \in Pollers :
        (IF poll[n].at \in {"check", "loop"} THEN NoPoll ELSE poll[n]) \in PollStates
  BY NoTaskType DEF TaskType
<1> QED
  BY <1>1, NoTaskType DEF EndedPolls, EndedStreams

(* start() leaves well-formed tasks and no open stream. *)
LEMMA StartEffect ==
  ASSUME IInv, TaskType, starts + 1 \in Starts, StartTasks
  PROVE  TaskType' /\ Silent'
<1>1. /\ cancelled' = starts /\ starts' = starts + 1 /\ starts \in Nat
      /\ poll' = [EndedPolls EXCEPT ![starts + 1].at = "check"]
      /\ stream' = [EndedStreams EXCEPT ![starts + 1].at = "check"]
  BY DEF StartTasks, IInv, EngineType
<1>2. starts + 1 \in Pollers
  BY DEF Pollers
<1>3. \A p \in PollStates : [p EXCEPT !.at = "check"] \in PollStates
  BY DEF PollStates
<1>4. \A t \in StreamStates :
        [t EXCEPT !.at = "check"] \in StreamStates /\ [t EXCEPT !.at = "check"].at = "check"
  BY DEF StreamStates
<1>5. poll' \in [Pollers -> PollStates]
  BY <1>1, <1>2, <1>3, EndedType
<1>6. stream' \in [Starts -> StreamStates]
  BY <1>1, <1>4, EndedType
<1>7. Silent'
  <2>1. \A n \in Starts : EndedStreams[n].at # "open"
    BY DEF EndedStreams, NoStream
  <2>2. \A n \in Starts : n # starts + 1 => stream'[n] = EndedStreams[n]
    BY <1>1, EndedType
  <2>3. stream'[starts + 1] = [EndedStreams[starts + 1] EXCEPT !.at = "check"]
    BY <1>1, EndedType
  <2>4. stream'[starts + 1].at = "check"
    BY <1>4, <2>3, EndedType
  <2> QED
    BY <2>1, <2>2, <2>4 DEF Silent
<1> QED
  BY <1>1, <1>5, <1>6, <1>7 DEF TaskType

LEMMA CancelEffect ==
  ASSUME IInv, TaskType, CancelTasks, starts' = starts
  PROVE  TaskType' /\ Silent'
<1>1. Silent'
  BY DEF CancelTasks, Silent, EndedStreams, NoStream
<1> QED
  BY <1>1, EndedType DEF TaskType, CancelTasks, IInv, EngineType

(* What StartEngine shows. *)
LEMMA SpawnShows ==
  ASSUME NEW m, NEW p, NEW fleet, NEW shown, StartEngine(m, p, fleet, shown)
  PROVE  state' \in {shown, "failed"}
  BY DEF StartEngine

(* A restart that ends, superseded or not, leaves a well-formed view. *)
LEMMA SwitchView ==
  ASSUME IInv, ViewInv, NEW r \in 1 .. MaxRestarts, Switch(r, process, engine),
         \/ restarts[r].at = "stopping"
         \/ restarts[r].at = "queued" /\ MyTurn(r),
         UNCHANGED <<warning, abandoned, generation, windowVars, worldVars>>
  PROVE  ViewInv'
<1>1. PICK k \in 0 .. MaxRestarts : Chain(k)
  BY DEF IInv, ChainInv
<1>2. starts + 1 \in Starts
  <2>1. r = k + 1
    BY <1>1, TurnIsNext DEF IInv
  <2> QED
    BY <1>1, <2>1, Room, EngineAssumption DEF IInv, Engines
<1>3. CountType' /\ WorldType'
  BY DEF ViewInv, CountType, WorldType, windowVars, worldVars
<1>4. CASE r = generation
  <2>1. /\ mode' = restarts[r].to /\ sessions' = "none" /\ events' = {}
        /\ StartEngine(restarts[r].to, process, engine, "starting")
        /\ StartTasks
    BY <1>4 DEF Switch
  <2>2. TaskType' /\ Silent'
    BY <1>2, <2>1, StartEffect DEF ViewInv
  <2>3. restarts[r].to \in Modes
    BY DEF IInv, EngineType, RestartStates
  <2>4. ShownType'
    BY <2>1, <2>3, SpawnShows DEF ViewInv, ShownType
  <2> QED
    BY <1>3, <2>1, <2>2, <2>4 DEF ViewInv, FeedInv, Silent
<1>5. CASE r # generation
  <2>1. CancelTasks /\ UNCHANGED <<mode, state, sessions, events, starts>>
    BY <1>5 DEF Switch
  <2>2. TaskType' /\ Silent'
    BY <2>1, CancelEffect DEF ViewInv
  <2> QED
    BY <1>3, <2>1, <2>2 DEF ViewInv, ShownType, FeedInv, Silent
<1> QED
  BY <1>4, <1>5

(* The three places where a poll task asks. *)
LEMMA AskType ==
  ASSUME ViewInv, NEW n \in Pollers, NEW what \in {"health", "sessions"}, Ask(n, what)
  PROVE  poll' \in [Pollers -> PollStates]
<1>1. PICK a \in Answers(what) :
        poll' = [poll EXCEPT ![n] = [@ EXCEPT !.at = what, !.asked = mode, !.answer = a]]
  BY DEF Ask
<1>2. mode \in Modes /\ poll \in [Pollers -> PollStates]
  BY DEF ViewInv, ShownType, TaskType
<1>3. /\ a \in {"none", "ok", "error", "paused"}
      /\ what = "sessions" => a # "paused"
  <2>1. mode \in {"demo", "live"}
    BY <1>2 DEF Modes
  <2> DEFINE said == IF what = "health" /\ paused THEN "paused" ELSE "ok"
  <2>2. /\ said \in {"ok", "paused"}
        /\ what = "sessions" => said = "ok"
    OBVIOUS
  <2>3. Answers(what) \subseteq {said, "none", "error"}
    <3>1. Answers(what) =
            CASE Up(mode) -> {said}
              [] ~Up(mode) /\ mode = "demo" -> {"none"}
              [] ~Up(mode) /\ mode = "live" ->
                   {said, "none"} \union (IF what = "sessions" THEN {"error"} ELSE {})
      BY DEF Answers
    <3> HIDE DEF said
    <3>2. CASE Up(mode)
      BY <2>1, <3>1, <3>2
    <3>3. CASE ~Up(mode)
      BY <2>1, <3>1, <3>3
    <3> QED
      BY <3>2, <3>3
  <2> QED
    BY <2>2, <2>3
<1>4. \A p \in PollStates : [p EXCEPT !.at = what, !.asked = mode, !.answer = a] \in PollStates
  BY <1>2, <1>3 DEF PollStates
<1> QED
  BY <1>1, <1>2, <1>4

LEMMA PollView ==
  ASSUME IInv, ViewInv, NEW n \in Pollers, PollStep(n) \/ (n = 0 /\ Refresh)
  PROVE  ViewInv'
<1>1. ShownType /\ TaskType /\ CountType /\ WorldType /\ FeedInv
  BY DEF ViewInv
<1>2. CASE CheckHealth(n) \/ AskSessions(n) \/ (n = 0 /\ Refresh)
  <2>1. /\ \E what \in {"health", "sessions"} : Ask(n, what)
        /\ UNCHANGED <<shownVars, engineVars, starts, cancelled, stream, restartVars, windowVars,
                       worldVars>>
    BY <1>2 DEF CheckHealth, AskSessions, Refresh
  <2>2. poll' \in [Pollers -> PollStates]
    BY <2>1, AskType
  <2> QED
    BY <1>1, <2>1, <2>2 DEF ViewInv, ShownType, TaskType, CountType, WorldType, FeedInv,
       shownVars, engineVars, restartVars, windowVars, worldVars
<1>3. CASE HealthOK(n)
  <2>1. PICK answer \in Heard(n) :
          /\ warning' = IF answer = "none" THEN warning ELSE mode = "live" /\ answer = "paused"
          /\ poll' = [poll EXCEPT ![n] =
               IF Cancelled(n) THEN NoPoll
               ELSE IF answer # "none" \/ poll[n].tries + 1 = MaxTries
               THEN [NoPoll EXCEPT !.at = "loop"]
               ELSE [NoPoll EXCEPT !.at = "check", !.tries = poll[n].tries + 1]]
          /\ UNCHANGED <<mode, state, sessions, events, engineVars, starts, cancelled, stream,
                         restartVars, windowVars, worldVars>>
    BY <1>3 DEF HealthOK
  <2>2. warning' \in BOOLEAN
    BY <1>1, <2>1 DEF ShownType
  <2>3. poll[n].tries \in Nat /\ poll[n].tries < MaxTries
    BY <1>1 DEF TaskType, PollStates
  <2>4. /\ [NoPoll EXCEPT !.at = "loop"] \in PollStates
        /\ poll[n].tries + 1 # MaxTries =>
             [NoPoll EXCEPT !.at = "check", !.tries = poll[n].tries + 1] \in PollStates
    <3>1. [NoPoll EXCEPT !.at = "loop"] \in PollStates
      BY EngineAssumption DEF NoPoll, PollStates, Modes
    <3>2. ASSUME NEW t \in Nat, t < MaxTries
          PROVE  [NoPoll EXCEPT !.at = "check", !.tries = t] \in PollStates
      BY <3>2 DEF NoPoll, PollStates, Modes
    <3>3. poll[n].tries + 1 \in Nat
          /\ (poll[n].tries + 1 # MaxTries => poll[n].tries + 1 < MaxTries)
      BY <2>3, EngineAssumption
    <3> QED
      BY <3>1, <3>2, <3>3
  <2>5. poll' \in [Pollers -> PollStates]
    BY <1>1, <2>1, <2>4, NoTaskType DEF TaskType
  <2> QED
    BY <1>1, <2>1, <2>2, <2>5 DEF ViewInv, ShownType, TaskType, CountType, WorldType, FeedInv,
       engineVars, restartVars, windowVars, worldVars
<1>4. CASE Publish(n)
  <2>1. PICK answer \in Heard(n) :
          /\ sessions' = IF answer = "ok" THEN poll[n].asked ELSE sessions
          /\ state' = CASE answer = "ok"    -> "running"
                        [] answer = "error" -> "failed"
                        [] answer = "none"  -> IF sessions = "none" THEN "failed" ELSE state
    BY <1>4 DEF Publish
  <2>2. /\ poll[n].at = "sessions"
        /\ poll' = [poll EXCEPT ![n] = IF n = 0 \/ Cancelled(n) THEN NoPoll
                                       ELSE [NoPoll EXCEPT !.at = "loop"]]
        /\ UNCHANGED <<mode, events, warning, engineVars, starts, cancelled, stream,
                       restartVars, windowVars, worldVars>>
    BY <1>4 DEF Publish
  <2>3. poll[n].answer \in {"none", "ok", "error"} /\ poll[n].asked \in Modes
    BY <1>1, <2>2 DEF TaskType, PollStates
  <2>4. answer \in {"none", "ok", "error"}
    BY <2>3 DEF Heard
  <2>5. sessions' \in Modes \union {"none"}
    BY <1>1, <2>1, <2>3 DEF ShownType
  <2>6. state' \in {"starting", "running", "failed"}
    BY <1>1, <2>1, <2>4 DEF ShownType
  <2>7. [NoPoll EXCEPT !.at = "loop"] \in PollStates
    BY EngineAssumption DEF NoPoll, PollStates, Modes
  <2>8. poll' \in [Pollers -> PollStates]
    BY <1>1, <2>2, <2>7, NoTaskType DEF TaskType
  <2> QED
    BY <1>1, <2>2, <2>5, <2>6, <2>8 DEF ViewInv, ShownType, TaskType, CountType, WorldType,
       FeedInv, engineVars, restartVars, windowVars, worldVars
<1> QED
  BY <1>2, <1>3, <1>4 DEF PollStep

LEMMA StreamView ==
  ASSUME IInv, ViewInv, NEW n \in Starts, StreamStep(n)
  PROVE  ViewInv'
<1>1. ShownType /\ TaskType /\ CountType /\ WorldType /\ FeedInv
  BY DEF ViewInv
<1>2. UNCHANGED <<mode, state, sessions, warning, engineVars, starts, cancelled, poll,
                  restartVars, windowVars, worldVars>>
  BY DEF StreamStep, StreamOpens, StreamEvent, StreamEnds, shownVars, taskVars
<1>3. ShownType' /\ CountType' /\ WorldType'
  BY <1>1, <1>2 DEF ShownType, CountType, WorldType, engineVars, restartVars, windowVars, worldVars
<1>4. CASE StreamOpens(n)
  <2>1. stream' = [stream EXCEPT ![n] = [at |-> "open", asked |-> mode]] /\ UNCHANGED events
    BY <1>4 DEF StreamOpens, shownVars
  <2>2. [at |-> "open", asked |-> mode] \in StreamStates
    BY <1>1 DEF ShownType, StreamStates
  <2>3. stream' \in [Starts -> StreamStates]
    BY <1>1, <2>1, <2>2 DEF TaskType
  <2>4. FeedInv'
    BY <1>1, <1>2, <2>1 DEF FeedInv, TaskType
  <2> QED
    BY <1>1, <1>2, <1>3, <2>3, <2>4 DEF ViewInv, TaskType
<1>5. CASE StreamEvent(n)
  <2>1. stream[n].at = "open" /\ events' = events \union {stream[n].asked} /\ UNCHANGED stream
    BY <1>5 DEF StreamEvent, taskVars
  <2>2. FeedInv'
    BY <1>1, <1>2, <2>1 DEF FeedInv
  <2> QED
    BY <1>1, <1>2, <1>3, <2>1, <2>2 DEF ViewInv, TaskType
<1>6. CASE StreamEnds(n)
  <2>1. stream' = [stream EXCEPT ![n] = [NoStream EXCEPT !.at = "check"]] /\ UNCHANGED events
    BY <1>6 DEF StreamEnds, shownVars
  <2>2. [NoStream EXCEPT !.at = "check"] \in StreamStates /\ [NoStream EXCEPT !.at = "check"].at = "check"
    BY DEF NoStream, StreamStates, Modes
  <2>3. stream' \in [Starts -> StreamStates]
    BY <1>1, <2>1, <2>2 DEF TaskType
  <2>4. FeedInv'
    BY <1>1, <1>2, <2>1, <2>2 DEF FeedInv, TaskType
  <2> QED
    BY <1>1, <1>2, <1>3, <2>3, <2>4 DEF ViewInv, TaskType
<1> QED
  BY <1>4, <1>5, <1>6 DEF StreamStep

LEMMA ViewStep == IInv /\ ViewInv /\ [Next]_vars => ViewInv'
<1> SUFFICES ASSUME IInv, ViewInv, [Next]_vars PROVE ViewInv'
  OBVIOUS
<1>1. ShownType /\ TaskType /\ CountType /\ WorldType /\ FeedInv
  BY DEF ViewInv
<1>2. CASE Appear
  <2>1. /\ StartEngine(mode, process, engine, state) /\ StartTasks /\ appears < MaxAppears
        /\ appears' = appears + 1 /\ windows' = windows + 1
        /\ UNCHANGED <<mode, sessions, events, warning, abandoned, generation, worldVars>>
    BY <1>2 DEF Appear, restartVars
  <2>2. PICK k \in 0 .. MaxRestarts : Chain(k)
    BY DEF IInv, ChainInv
  <2>3. starts + 1 \in Starts
    BY <2>1, <2>2, Room DEF IInv, Engines
  <2>4. TaskType' /\ Silent'
    BY <1>1, <2>1, <2>3, StartEffect
  <2>5. ShownType'
    BY <1>1, <2>1, SpawnShows DEF ShownType
  <2>6. CountType' /\ WorldType'
    BY <1>1, <2>1 DEF CountType, WorldType, worldVars, IInv, EngineType
  <2> QED
    BY <1>1, <2>1, <2>4, <2>5, <2>6 DEF ViewInv, FeedInv, Silent
<1>3. CASE Disappear
  <2>1. /\ CancelTasks /\ windows' = windows - 1
        /\ abandoned' = IF process = 0 THEN abandoned ELSE abandoned \union {process}
        /\ UNCHANGED <<mode, state, sessions, events, warning, starts, generation, appears,
                       worldVars>>
    BY <1>3 DEF Disappear, shownVars, restartVars
  <2>2. TaskType' /\ Silent'
    BY <1>1, <2>1, CancelEffect
  <2>3. CountType'
    BY <1>1, <2>1 DEF CountType, IInv, EngineType
  <2> QED
    BY <1>1, <2>1, <2>2, <2>3 DEF ViewInv, ShownType, WorldType, FeedInv, Silent, worldVars
<1>4. CASE \E to \in Modes : Restart(to)
  <2>1. /\ generation < MaxRestarts /\ generation' = generation + 1
        /\ UNCHANGED <<shownVars, engineVars, taskVars, windowVars, worldVars>>
    BY <1>4 DEF Restart
  <2>2. generation' <= MaxRestarts
    BY <2>1, EngineAssumption DEF IInv, EngineType
  <2> QED
    BY <1>1, <2>1, <2>2 DEF ViewInv, ShownType, TaskType, CountType, WorldType, FeedInv,
       shownVars, engineVars, taskVars, windowVars, worldVars
<1>5. ASSUME NEW r \in 1 .. MaxRestarts, RestartStep(r) PROVE ViewInv'
  <2>1. CASE SwitchAfterExit(r) \/ (StopAndWait(r) /\ process = 0)
    <3>1. /\ Switch(r, process, engine)
          /\ \/ restarts[r].at = "stopping"
             \/ restarts[r].at = "queued" /\ MyTurn(r)
          /\ UNCHANGED <<warning, abandoned, generation, windowVars, worldVars>>
      BY <2>1 DEF SwitchAfterExit, StopAndWait
    <3> QED
      BY <3>1, SwitchView
  <2>2. CASE StopAndWait(r) /\ process # 0
    <3>1. CancelTasks /\ UNCHANGED <<mode, state, sessions, events, starts, warning, abandoned,
                                     generation, windowVars, worldVars>>
      BY <2>2 DEF StopAndWait
    <3>2. TaskType' /\ Silent'
      BY <1>1, <3>1, CancelEffect
    <3> QED
      BY <1>1, <3>1, <3>2 DEF ViewInv, ShownType, CountType, WorldType, FeedInv, Silent,
         windowVars, worldVars
  <2> QED
    BY <1>5, <2>1, <2>2 DEF RestartStep
<1>6. CASE Refresh \/ \E n \in Pollers : PollStep(n)
  BY <1>6, PollView DEF Pollers
<1>7. CASE \E n \in Starts : StreamStep(n)
  BY <1>7, StreamView
<1>8. CASE (\E e \in Engines : Listen(e) \/ Exit(e)) \/ UNCHANGED vars
  <2>1. UNCHANGED <<shownVars, abandoned, taskVars, restartVars, windowVars, worldVars>>
    BY <1>8 DEF Listen, Exit, vars, engineVars
  <2> QED
    BY <1>1, <2>1 DEF ViewInv, ShownType, TaskType, CountType, WorldType, FeedInv,
       shownVars, taskVars, restartVars, windowVars, worldVars
<1>9. CASE WorldChanges
  <2>1. steady' \in {steady, TRUE} /\ paused' \in Pauses
        /\ UNCHANGED <<shownVars, engineVars, taskVars, restartVars, windowVars>>
    BY <1>9 DEF WorldChanges
  <2>2. WorldType'
    BY <1>1, <2>1, EngineAssumption DEF WorldType
  <2> QED
    BY <1>1, <2>1, <2>2 DEF ViewInv, ShownType, TaskType, CountType, FeedInv,
       shownVars, engineVars, taskVars, restartVars, windowVars
<1> QED
  BY <1>2, <1>3, <1>4, <1>5, <1>6, <1>7, <1>8, <1>9 DEF Next

(* Every variable keeps its type, no demo engine runs that the app holds no
   handle on, and the live feed shows events of the current mode only. *)
THEOREM TypeCorrect == Spec => []TypeOK
<1>1. Init => ViewInv
  <2> SUFFICES ASSUME Init PROVE ViewInv
    OBVIOUS
  <2>1. ShownType /\ WorldType /\ FeedInv
    BY DEF Init, ShownType, WorldType, FeedInv, Modes, NoStream
  <2>2. TaskType
    BY NoTaskType DEF Init, TaskType
  <2>3. CountType
    BY EngineAssumption DEF Init, CountType
  <2> QED
    BY <2>1, <2>2, <2>3 DEF ViewInv
<1>2. IInv /\ ViewInv => TypeOK
  <2> SUFFICES ASSUME IInv, ViewInv PROVE TypeOK
    OBVIOUS
  <2>1. PICK k \in 0 .. MaxRestarts : Chain(k)
    BY DEF IInv, ChainInv
  <2>2. starts \in 0 .. (MaxRestarts + MaxAppears) /\ cancelled \in 0 .. starts
    BY <2>1, EngineAssumption DEF Chain, IInv, EngineType, ViewInv, TaskType
  <2>3. poll \in [Pollers -> [at : {"done", "check", "health", "loop", "sessions"},
                              asked : Modes, answer : {"none", "ok", "error", "paused"},
                              tries : 0 .. MaxTries]]
    <3>1. PollStates \subseteq [at : {"done", "check", "health", "loop", "sessions"},
                                asked : Modes, answer : {"none", "ok", "error", "paused"},
                                tries : 0 .. MaxTries]
      BY EngineAssumption DEF PollStates
    <3> QED
      BY <3>1 DEF ViewInv, TaskType
  <2>4. generation \in 0 .. MaxRestarts /\ windows \in 0 .. appears
    BY EngineAssumption DEF IInv, EngineType, ViewInv, CountType
  <2> QED
    BY <2>2, <2>3, <2>4 DEF TypeOK, IInv, EngineType, EngineStates, RestartStates, Held, ViewInv,
       ShownType, TaskType, CountType, WorldType, FeedInv, StreamStates
<1> QED
  BY <1>1, <1>2, ViewStep, EnginesAreKept, PTL DEF Spec

===============================================================================
