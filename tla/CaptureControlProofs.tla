-------------------------- MODULE CaptureControlProofs --------------------------
(***************************************************************************)
(* Proofs about CaptureControl, for any number of handlers at a time and   *)
(* of clicks: flows are intercepted only under a trusted CA, and capture   *)
(* that is shown as off is off.                                            *)
(***************************************************************************)
EXTENDS CaptureControl, TLAPS

Calm == "crossing" \notin excused

(* Handlers that have told the tunnel to stop, and helpers they left behind. *)
Stopping(t) == Undoing(t) /\ task[t].at \in {"stopSaving", "removing", "untrusting"}

(* Until a button crosses it, capture is being started or undone, not both. *)
OneWay == Calm => \A t, u \in Tasks : ~(Starting(t) /\ Undoing(u))

(* Nobody starts the tunnel again behind a handler that has stopped it, and a
   handler that could not request the stop has nothing good to report. *)
StoppedInv ==
  Calm => \A t \in Tasks : Stopping(t) =>
            \/ tunnel \notin Running
            \/ At(t, "untrusting") /\ ~task[t].ok /\ "stopFailed" \in excused

(* CaptureIsTrusted, also for a tunnel that is coming up. *)
TrustedInv ==
  excused \intersect {"crossing", "stopFailed", "commandLine"} = {} =>
    (tunnel \in Running => trusted)

(* OffMeansOff, also while a handler is under way. *)
OffInv ==
  excused \intersect {"crossing", "blindRefresh"} = {} =>
    (status = "inactive" => tunnel \notin Running)

IInv == TypeOK /\ OneWay /\ StoppedInv /\ TrustedInv /\ OffInv

-------------------------------------------------------------------------------

(* The app starts with no handler under way. *)
LEMMA InitInv == Init => IInv
<1> SUFFICES ASSUME Init PROVE IInv
  OBVIOUS
<1>1. TypeOK
  <2>1. task \in [Tasks -> Handler]
    BY DEF Init, Handler, Idle
  <2>2. config \in {"none", "enabled", "disabled"} /\ (tunnel \in Running => config = "enabled")
    BY DEF Init, Running
  <2>3. trusted \in BOOLEAN /\ paused \in BOOLEAN /\ installed \in BOOLEAN
    BY DEF Init
  <2>4. status = "unknown" /\ tunnel \in {"disconnected", "connected"} /\ excused = {}
    BY DEF Init
  <2>5. clicks \in 0 .. MaxClicks
    BY CaptureAssumption DEF Init
  <2> QED
    BY <2>1, <2>2, <2>3, <2>4, <2>5 DEF TypeOK
<1>2. \A t \in Tasks : task[t].at = "idle"
  BY DEF Init, Idle
<1>3. OneWay /\ StoppedInv
  BY <1>2 DEF OneWay, StoppedInv, Stopping, Starting, Undoing, StartAwaits, StopAwaits, At
<1>4. TrustedInv /\ OffInv
  BY DEF Init, TrustedInv, OffInv, Running
<1> QED
  BY <1>1, <1>3, <1>4 DEF IInv

Awaits == StartAwaits \union StopAwaits

(* Where a handler may go, and how it ends. *)
LEMMA GoesType ==
  ASSUME task \in [Tasks -> Handler], NEW t \in Tasks, NEW next \in Awaits, Goes(t, next)
  PROVE  task' \in [Tasks -> Handler]
<1>1. Idle \in Handler
  BY DEF Handler, Idle
<1>2. ~task[t].alone => [task[t] EXCEPT !.at = next] \in Handler
  BY DEF Handler, Awaits
<1>3. task' = [task EXCEPT ![t] = IF task[t].alone THEN Idle ELSE [task[t] EXCEPT !.at = next]]
  BY DEF Goes
<1> QED
  BY <1>1, <1>2, <1>3

LEMMA EndsType ==
  ASSUME task \in [Tasks -> Handler], NEW t \in Tasks, NEW said, Ends(t, said)
  PROVE  task' \in [Tasks -> Handler] /\ status' \in {said, status}
<1>1. Idle \in Handler
  BY DEF Handler, Idle
<1> QED
  BY <1>1 DEF Ends

LEMMA FailsType ==
  ASSUME task \in [Tasks -> Handler], NEW t \in Tasks, GoesOnFailed(t)
  PROVE  task' \in [Tasks -> Handler]
<1>1. /\ [at |-> "untrusting", ok |-> FALSE, alone |-> FALSE] \in Handler
      /\ Idle \in Handler
  BY DEF Handler, StopAwaits, Idle
<1> QED
  BY <1>1 DEF GoesOnFailed

LEMMA LeftType ==
  ASSUME task \in [Tasks -> Handler],
         NEW left \in SUBSET {t \in Tasks : task[t].at \in Outlives},
         task' = [t \in Tasks |-> IF t \in left \/ task[t].alone
                                  THEN [task[t] EXCEPT !.alone = TRUE] ELSE Idle]
  PROVE  task' \in [Tasks -> Handler]
<1>1. \A t \in Tasks : t \in left \/ task[t].alone => [task[t] EXCEPT !.alone = TRUE] \in Handler
  BY DEF Handler
<1>2. Idle \in Handler
  BY DEF Handler, Idle
<1> QED
  BY <1>1, <1>2

(* Every step keeps the types, and an enabled configuration under a running tunnel. *)
LEMMA TypeStep == TypeOK /\ [Next]_vars => TypeOK'
<1> SUFFICES ASSUME TypeOK, [Next]_vars PROVE TypeOK'
  OBVIOUS
<1> USE CaptureAssumption
<1>1. ASSUME NEW t \in Tasks, Activate(t) PROVE TypeOK'
  BY <1>1, GoesType DEF Activate, Click, TypeOK, Awaits, StartAwaits, StopAwaits,
     Running, Stopped
<1>2. ASSUME NEW t \in Tasks, Deactivate(t) PROVE TypeOK'
  BY <1>2, GoesType DEF Deactivate, Click, TypeOK, Awaits, StartAwaits, StopAwaits,
     Running, Stopped
<1>3. ASSUME NEW t \in Tasks, Reset(t) PROVE TypeOK'
  BY <1>3, GoesType DEF Reset, Click, TypeOK, Awaits, StartAwaits, StopAwaits, Running,
     Stopped
<1>4. ASSUME NEW t \in Tasks, SubmitRequest(t) PROVE TypeOK'
  BY <1>4, GoesType, EndsType, FailsType DEF SubmitRequest, TypeOK, Awaits, StartAwaits,
     StopAwaits, Running, Stopped
<1>5. ASSUME NEW t \in Tasks, RequestFinishes(t) PROVE TypeOK'
  BY <1>5, GoesType, EndsType, FailsType DEF RequestFinishes, TypeOK, Awaits,
     StartAwaits, StopAwaits, Running, Stopped
<1>6. ASSUME NEW t \in Tasks, Configure(t) PROVE TypeOK'
  BY <1>6, GoesType, EndsType, FailsType DEF Configure, TypeOK, Awaits, StartAwaits,
     StopAwaits, Running, Stopped
<1>7. ASSUME NEW t \in Tasks, SaveEnabled(t) PROVE TypeOK'
  BY <1>7, GoesType, EndsType, FailsType DEF SaveEnabled, TypeOK, Awaits, StartAwaits,
     StopAwaits, Running, Stopped
<1>8. ASSUME NEW t \in Tasks, TrustAndStart(t) PROVE TypeOK'
  BY <1>8, GoesType, EndsType, FailsType DEF TrustAndStart, TypeOK, Awaits, StartAwaits,
     StopAwaits, Running, Stopped
<1>9. ASSUME NEW t \in Tasks, TrustAlone(t) PROVE TypeOK'
  BY <1>9, GoesType, EndsType, FailsType DEF TrustAlone, TypeOK, Awaits, StartAwaits,
     StopAwaits, Running, Stopped
<1>10. ASSUME NEW t \in Tasks, Confirm(t) PROVE TypeOK'
  BY <1>10, GoesType, EndsType, FailsType DEF Confirm, TypeOK, Awaits, StartAwaits,
     StopAwaits, Running, Stopped
<1>11. ASSUME NEW t \in Tasks, StopTunnel(t) PROVE TypeOK'
  BY <1>11, GoesType, EndsType, FailsType DEF StopTunnel, TypeOK, Awaits, StartAwaits,
     StopAwaits, Running, Stopped
<1>12. ASSUME NEW t \in Tasks, SaveDisabled(t) PROVE TypeOK'
  BY <1>12, GoesType, EndsType, FailsType DEF SaveDisabled, TypeOK, Awaits, StartAwaits,
     StopAwaits, Running, Stopped
<1>13. ASSUME NEW t \in Tasks, ResetTunnel(t) PROVE TypeOK'
  BY <1>13, GoesType, EndsType, FailsType DEF ResetTunnel, TypeOK, Awaits, StartAwaits,
     StopAwaits, Running, Stopped
<1>14. ASSUME NEW t \in Tasks, RemoveConfig(t) PROVE TypeOK'
  BY <1>14, GoesType, EndsType, FailsType DEF RemoveConfig, TypeOK, Awaits, StartAwaits,
     StopAwaits, Running, Stopped
<1>15. ASSUME NEW t \in Tasks, RemoveTrust(t) PROVE TypeOK'
  BY <1>15, GoesType, EndsType, FailsType DEF RemoveTrust, TypeOK, Awaits, StartAwaits,
     StopAwaits, Running, Stopped
<1>16. ASSUME NEW t \in Tasks, NeedsUserApproval(t) PROVE TypeOK'
  BY <1>16, GoesType, EndsType, FailsType DEF NeedsUserApproval, TypeOK, Awaits,
     StartAwaits, StopAwaits, Running, Stopped
<1>17. ASSUME RefreshStatus PROVE TypeOK'
  BY <1>17 DEF RefreshStatus, TypeOK, Running, Stopped
<1>18. ASSUME Relaunch PROVE TypeOK'
  <2>1. task' \in [Tasks -> Handler]
    BY <1>18, LeftType DEF Relaunch, TypeOK
  <2> QED
    BY <1>18, <2>1 DEF Relaunch, TypeOK
<1>19. ASSUME ResetCommand PROVE TypeOK'
  BY <1>19 DEF ResetCommand, TypeOK, Running, Stopped
<1>20. ASSUME TunnelChanges PROVE TypeOK'
  BY <1>20 DEF TunnelChanges, TypeOK, Running, Stopped
<1>21. ASSUME PauseCapture PROVE TypeOK'
  BY <1>21 DEF PauseCapture, TypeOK, Running, Stopped
<1>22. ASSUME CommandLine PROVE TypeOK'
  BY <1>22 DEF CommandLine, TypeOK, Running, Stopped
<1>23. CASE UNCHANGED vars
  BY <1>23 DEF vars, TypeOK, Running, Stopped
<1> QED
  BY <1>1, <1>2, <1>3, <1>4, <1>5, <1>6, <1>7, <1>8, <1>9, <1>10, <1>11, <1>12, <1>13,
     <1>14, <1>15, <1>16, <1>17, <1>18, <1>19, <1>20, <1>21, <1>22, <1>23 DEF Next, TaskStep

(* The steps of a handler are its own, and neither turn a start into a stop nor a
   stop into a start. *)
Keeps(t) ==
  /\ \A u \in Tasks \ {t} : task'[u] = task[u]
  /\ Starting(t)' => Starting(t)
  /\ Undoing(t)' => Undoing(t)
  /\ excused \subseteq excused'

LEMMA GoesKeeps ==
  ASSUME TypeOK, NEW t \in Tasks, NEW next, Goes(t, next), excused \subseteq excused',
         \/ task[t].at \in StartAwaits /\ next \in StartAwaits
         \/ task[t].at \in StopAwaits \ {"untrusting"} /\ next \in StopAwaits
  PROVE  Keeps(t)
<1>1. task[t] \in Handler
  BY DEF TypeOK
<1>2. \A u \in Tasks \ {t} : task'[u] = task[u]
  BY DEF Goes, TypeOK
<1>3. CASE task[t].alone
  <2>1. task'[t] = Idle
    BY <1>3 DEF Goes, TypeOK
  <2> QED
    BY <1>2, <2>1 DEF Keeps, Idle, Starting, Undoing, At, StartAwaits, StopAwaits
<1>4. CASE ~task[t].alone
  <2>1. task'[t] = [task[t] EXCEPT !.at = next]
    BY <1>4 DEF Goes, TypeOK
  <2>2. task'[t].at = next /\ task'[t].alone = task[t].alone
    BY <1>1, <2>1 DEF Handler
  <2> QED
    BY <1>2, <1>4, <2>2 DEF Keeps, Starting, Undoing, At, StartAwaits, StopAwaits
<1> QED
  BY <1>3, <1>4

LEMMA EndsKeeps ==
  ASSUME TypeOK, NEW t \in Tasks, NEW said, Ends(t, said), excused \subseteq excused'
  PROVE  Keeps(t)
<1>1. task'[t] = Idle /\ \A u \in Tasks \ {t} : task'[u] = task[u]
  BY DEF Ends, TypeOK
<1> QED
  BY <1>1 DEF Keeps, Idle, Starting, Undoing, At, StartAwaits, StopAwaits

LEMMA FailsKeeps ==
  ASSUME TypeOK, NEW t \in Tasks, GoesOnFailed(t), task[t].at \in StopAwaits,
         excused \subseteq excused'
  PROVE  Keeps(t)
<1>1. \A u \in Tasks \ {t} : task'[u] = task[u]
  BY DEF GoesOnFailed, TypeOK
<1>2. CASE task[t].alone
  <2>1. task'[t] = Idle
    BY <1>2 DEF GoesOnFailed, TypeOK
  <2> QED
    BY <1>1, <2>1 DEF Keeps, Idle, Starting, Undoing, At, StartAwaits, StopAwaits
<1>3. CASE ~task[t].alone
  <2>1. task'[t].at = "untrusting" /\ Undoing(t)
    BY <1>3 DEF GoesOnFailed, TypeOK, Undoing
  <2> QED
    BY <1>1, <2>1 DEF Keeps, Starting, At, StartAwaits
<1> QED
  BY <1>2, <1>3

LEMMA Moves ==
  ASSUME TypeOK, NEW t \in Tasks, TaskStep(t) \/ NeedsUserApproval(t)
  PROVE  Keeps(t)
<1>1. CASE SubmitRequest(t)
  BY <1>1, GoesKeeps, EndsKeeps DEF SubmitRequest, At, StartAwaits
<1>2. CASE RequestFinishes(t)
  BY <1>2, GoesKeeps, EndsKeeps DEF RequestFinishes, At, StartAwaits
<1>3. CASE Configure(t)
  BY <1>3, GoesKeeps, EndsKeeps DEF Configure, At, StartAwaits
<1>4. CASE SaveEnabled(t)
  BY <1>4, GoesKeeps, EndsKeeps DEF SaveEnabled, At, StartAwaits
<1>5. CASE TrustAndStart(t)
  BY <1>5, GoesKeeps, EndsKeeps DEF TrustAndStart, At, StartAwaits
<1>6. CASE TrustAlone(t)
  BY <1>6, EndsKeeps DEF TrustAlone
<1>7. CASE Confirm(t)
  BY <1>7, EndsKeeps DEF Confirm
<1>8. CASE StopTunnel(t)
  BY <1>8, GoesKeeps, FailsKeeps DEF StopTunnel, At, StopAwaits
<1>9. CASE SaveDisabled(t)
  BY <1>9, GoesKeeps, FailsKeeps DEF SaveDisabled, At, StopAwaits
<1>10. CASE ResetTunnel(t)
  BY <1>10, GoesKeeps, FailsKeeps DEF ResetTunnel, At, StopAwaits
<1>11. CASE RemoveConfig(t)
  BY <1>11, GoesKeeps, FailsKeeps DEF RemoveConfig, At, StopAwaits
<1>12. CASE RemoveTrust(t)
  BY <1>12, EndsKeeps DEF RemoveTrust
<1>13. CASE NeedsUserApproval(t)
  BY <1>13 DEF NeedsUserApproval, Keeps, Starting, Undoing, At
<1> QED
  BY <1>1, <1>2, <1>3, <1>4, <1>5, <1>6, <1>7, <1>8, <1>9, <1>10, <1>11, <1>12, <1>13 DEF TaskStep

(* What a relaunch leaves behind only removes the trust. *)
LEMMA LeftBehind ==
  ASSUME TypeOK, Relaunch, NEW t \in Tasks
  PROVE  /\ ~Starting(t)'
         /\ Undoing(t)' => Undoing(t) /\ task'[t].at = task[t].at /\ task'[t].ok = task[t].ok
                           /\ At(t, "untrusting")
<1>1. \/ task'[t] = [task[t] EXCEPT !.alone = TRUE]
      \/ task'[t] = Idle
  BY DEF Relaunch
<1>2. task[t] \in Handler
  BY DEF TypeOK
<1>3. CASE task'[t] = [task[t] EXCEPT !.alone = TRUE]
  <2>1. task'[t].at = task[t].at /\ task'[t].ok = task[t].ok /\ task'[t].alone = TRUE
    BY <1>2, <1>3 DEF Handler
  <2> QED
    BY <2>1 DEF Starting, Undoing, At
<1>4. CASE task'[t] = Idle
  BY <1>4 DEF Idle, Starting, Undoing, At, StartAwaits, StopAwaits
<1> QED
  BY <1>1, <1>3, <1>4

(* A handler that goes the other way is started only by a click that is recorded. *)
LEMMA OneWayStep == TypeOK /\ OneWay /\ [Next]_vars => OneWay'
<1> SUFFICES ASSUME TypeOK, OneWay, [Next]_vars PROVE OneWay'
  OBVIOUS
<1>1. ASSUME NEW t \in Tasks, Activate(t) PROVE OneWay'
  BY <1>1 DEF Activate, OneWay, Calm, Starting, Undoing, At, Click,
     Goes, TypeOK, Idle, StartAwaits, StopAwaits
<1>2. ASSUME NEW t \in Tasks, Deactivate(t) PROVE OneWay'
  BY <1>2 DEF Deactivate, OneWay, Calm, Starting, Undoing, At, Click,
     Goes, TypeOK, Idle, StartAwaits, StopAwaits
<1>3. ASSUME NEW t \in Tasks, Reset(t) PROVE OneWay'
  BY <1>3 DEF Reset, OneWay, Calm, Starting, Undoing, At, Click,
     Goes, TypeOK, Idle, StartAwaits, StopAwaits
<1>4. ASSUME NEW t \in Tasks, TaskStep(t) \/ NeedsUserApproval(t) PROVE OneWay'
  <2>1. Keeps(t)
    BY <1>4, Moves
  <2>2. \A u \in Tasks : /\ Starting(u)' => Starting(u)
                         /\ Undoing(u)' => Undoing(u)
    BY <2>1 DEF Keeps, Starting, Undoing, At
  <2>3. Calm' => Calm
    BY <2>1 DEF Keeps, Calm
  <2> QED
    BY <2>2, <2>3 DEF OneWay
<1>5. CASE Relaunch
  BY <1>5, LeftBehind DEF OneWay
<1>6. CASE RefreshStatus \/ ResetCommand \/ TunnelChanges \/ PauseCapture \/ CommandLine
           \/ UNCHANGED vars
  <2>1. task' = task /\ excused \subseteq excused'
    BY <1>6 DEF RefreshStatus, ResetCommand, TunnelChanges, PauseCapture, CommandLine, vars
  <2> QED
    BY <2>1 DEF OneWay, Calm, Starting, Undoing, At
<1> QED
  BY <1>1, <1>2, <1>3, <1>4, <1>5, <1>6 DEF Next

(* Nothing starts the tunnel between the stop and the end of the handler. *)
LEMMA StoppedStep == TypeOK /\ OneWay /\ StoppedInv /\ [Next]_vars => StoppedInv'
<1> SUFFICES ASSUME TypeOK, OneWay, StoppedInv, [Next]_vars PROVE StoppedInv'
  OBVIOUS
<1>1. ASSUME NEW t \in Tasks, Activate(t) PROVE StoppedInv'
  BY <1>1 DEF Activate, Click, StoppedInv, Stopping, OneWay, Calm, TypeOK, Handler, Goes,
     GoesOnFailed, Ends, At, Idle, Starting, Undoing, StartAwaits, StopAwaits, Running,
     Stopped
<1>2. ASSUME NEW t \in Tasks, Deactivate(t) PROVE StoppedInv'
  BY <1>2 DEF Deactivate, Click, StoppedInv, Stopping, OneWay, Calm, TypeOK, Handler,
     Goes, GoesOnFailed, Ends, At, Idle, Starting, Undoing, StartAwaits, StopAwaits,
     Running, Stopped
<1>3. ASSUME NEW t \in Tasks, Reset(t) PROVE StoppedInv'
  BY <1>3 DEF Reset, Click, StoppedInv, Stopping, OneWay, Calm, TypeOK, Handler, Goes,
     GoesOnFailed, Ends, At, Idle, Starting, Undoing, StartAwaits, StopAwaits, Running,
     Stopped
<1>4. ASSUME NEW t \in Tasks, SubmitRequest(t) PROVE StoppedInv'
  BY <1>4 DEF SubmitRequest, StoppedInv, Stopping, OneWay, Calm, TypeOK, Handler, Goes,
     GoesOnFailed, Ends, At, Idle, Starting, Undoing, StartAwaits, StopAwaits, Running,
     Stopped
<1>5. ASSUME NEW t \in Tasks, RequestFinishes(t) PROVE StoppedInv'
  BY <1>5 DEF RequestFinishes, StoppedInv, Stopping, OneWay, Calm, TypeOK, Handler, Goes,
     GoesOnFailed, Ends, At, Idle, Starting, Undoing, StartAwaits, StopAwaits, Running,
     Stopped
<1>6. ASSUME NEW t \in Tasks, Configure(t) PROVE StoppedInv'
  BY <1>6 DEF Configure, StoppedInv, Stopping, OneWay, Calm, TypeOK, Handler, Goes,
     GoesOnFailed, Ends, At, Idle, Starting, Undoing, StartAwaits, StopAwaits, Running,
     Stopped
<1>7. ASSUME NEW t \in Tasks, SaveEnabled(t) PROVE StoppedInv'
  BY <1>7 DEF SaveEnabled, StoppedInv, Stopping, OneWay, Calm, TypeOK, Handler, Goes,
     GoesOnFailed, Ends, At, Idle, Starting, Undoing, StartAwaits, StopAwaits, Running,
     Stopped
<1>8. ASSUME NEW t \in Tasks, TrustAndStart(t) PROVE StoppedInv'
  <2>1. Keeps(t)
    BY <1>8, Moves DEF TaskStep
  <2>2. Starting(t)
    BY <1>8 DEF TrustAndStart, Starting, At, StartAwaits
  <2>3. Calm' => Calm
    BY <2>1 DEF Keeps, Calm
  <2>4. Calm => \A u \in Tasks : ~Undoing(u)
    BY <2>2 DEF OneWay
  <2>5. Calm => \A u \in Tasks : ~Undoing(u)'
    BY <2>1, <2>4 DEF Keeps, Undoing, At
  <2> QED
    BY <2>3, <2>5 DEF StoppedInv, Stopping
<1>9. ASSUME NEW t \in Tasks, TrustAlone(t) PROVE StoppedInv'
  BY <1>9 DEF TrustAlone, StoppedInv, Stopping, OneWay, Calm, TypeOK, Handler, Goes,
     GoesOnFailed, Ends, At, Idle, Starting, Undoing, StartAwaits, StopAwaits, Running,
     Stopped
<1>10. ASSUME NEW t \in Tasks, Confirm(t) PROVE StoppedInv'
  BY <1>10 DEF Confirm, StoppedInv, Stopping, OneWay, Calm, TypeOK, Handler, Goes,
     GoesOnFailed, Ends, At, Idle, Starting, Undoing, StartAwaits, StopAwaits, Running,
     Stopped
<1>11. ASSUME NEW t \in Tasks, StopTunnel(t) PROVE StoppedInv'
  BY <1>11 DEF StopTunnel, StoppedInv, Stopping, OneWay, Calm, TypeOK, Handler, Goes,
     GoesOnFailed, Ends, At, Idle, Starting, Undoing, StartAwaits, StopAwaits, Running,
     Stopped
<1>12. ASSUME NEW t \in Tasks, SaveDisabled(t) PROVE StoppedInv'
  BY <1>12 DEF SaveDisabled, StoppedInv, Stopping, OneWay, Calm, TypeOK, Handler, Goes,
     GoesOnFailed, Ends, At, Idle, Starting, Undoing, StartAwaits, StopAwaits, Running,
     Stopped
<1>13. ASSUME NEW t \in Tasks, ResetTunnel(t) PROVE StoppedInv'
  BY <1>13 DEF ResetTunnel, StoppedInv, Stopping, OneWay, Calm, TypeOK, Handler, Goes,
     GoesOnFailed, Ends, At, Idle, Starting, Undoing, StartAwaits, StopAwaits, Running,
     Stopped
<1>14. ASSUME NEW t \in Tasks, RemoveConfig(t) PROVE StoppedInv'
  BY <1>14 DEF RemoveConfig, StoppedInv, Stopping, OneWay, Calm, TypeOK, Handler, Goes,
     GoesOnFailed, Ends, At, Idle, Starting, Undoing, StartAwaits, StopAwaits, Running,
     Stopped
<1>15. ASSUME NEW t \in Tasks, RemoveTrust(t) PROVE StoppedInv'
  <2>1. /\ task' = [task EXCEPT ![t] = Idle]
        /\ tunnel' = tunnel /\ excused' = excused
    BY <1>15 DEF RemoveTrust, Ends
  <2>2. /\ \A u \in Tasks \ {t} : task'[u] = task[u]
        /\ task'[t].at = "idle"
    BY <2>1 DEF TypeOK, Idle
  <2>3. \A u \in Tasks : Stopping(u)' => u # t /\ Stopping(u)
    BY <2>2 DEF Stopping, Undoing, At
  <2> QED
    BY <2>1, <2>2, <2>3 DEF StoppedInv, Calm, At, Running
<1>16. ASSUME NEW t \in Tasks, NeedsUserApproval(t) PROVE StoppedInv'
  BY <1>16 DEF NeedsUserApproval, StoppedInv, Stopping, OneWay, Calm, TypeOK, Handler,
     Goes, GoesOnFailed, Ends, At, Idle, Starting, Undoing, StartAwaits, StopAwaits,
     Running, Stopped
<1>17. ASSUME RefreshStatus PROVE StoppedInv'
  BY <1>17 DEF RefreshStatus, StoppedInv, Stopping, Calm, At, Undoing, Running, Stopped
<1>18. ASSUME Relaunch PROVE StoppedInv'
  BY <1>18, LeftBehind DEF Relaunch, StoppedInv, Stopping, Calm, At, Running
<1>19. ASSUME ResetCommand PROVE StoppedInv'
  BY <1>19 DEF ResetCommand, StoppedInv, Stopping, Calm, At, Undoing, Running, Stopped
<1>20. ASSUME TunnelChanges PROVE StoppedInv'
  BY <1>20 DEF TunnelChanges, StoppedInv, Stopping, Calm, At, Undoing, Running, Stopped
<1>21. ASSUME PauseCapture PROVE StoppedInv'
  BY <1>21 DEF PauseCapture, StoppedInv, Stopping, Calm, At, Undoing, Running, Stopped
<1>22. ASSUME CommandLine PROVE StoppedInv'
  BY <1>22 DEF CommandLine, StoppedInv, Stopping, Calm, At, Undoing, Running, Stopped
<1>23. CASE UNCHANGED vars
  BY <1>23 DEF vars, StoppedInv, Stopping, Calm, At, Undoing, Running, Stopped
<1> QED
  BY <1>1, <1>2, <1>3, <1>4, <1>5, <1>6, <1>7, <1>8, <1>9, <1>10, <1>11, <1>12, <1>13,
     <1>14, <1>15, <1>16, <1>17, <1>18, <1>19, <1>20, <1>21, <1>22, <1>23 DEF Next, TaskStep

(* The trust is there before the tunnel is started, and goes when it is stopped. *)
LEMMA TrustedStep == TypeOK /\ StoppedInv /\ TrustedInv /\ [Next]_vars => TrustedInv'
<1> SUFFICES ASSUME TypeOK, StoppedInv, TrustedInv, [Next]_vars PROVE TrustedInv'
  OBVIOUS
<1>1. ASSUME NEW t \in Tasks, Activate(t) PROVE TrustedInv'
  BY <1>1 DEF Activate, Click, TrustedInv, StoppedInv, Stopping, Undoing, Calm, TypeOK,
     Goes, GoesOnFailed, Ends, At, Idle, Running, Stopped
<1>2. ASSUME NEW t \in Tasks, Deactivate(t) PROVE TrustedInv'
  BY <1>2 DEF Deactivate, Click, TrustedInv, StoppedInv, Stopping, Undoing, Calm, TypeOK,
     Goes, GoesOnFailed, Ends, At, Idle, Running, Stopped
<1>3. ASSUME NEW t \in Tasks, Reset(t) PROVE TrustedInv'
  BY <1>3 DEF Reset, Click, TrustedInv, StoppedInv, Stopping, Undoing, Calm, TypeOK,
     Goes, GoesOnFailed, Ends, At, Idle, Running, Stopped
<1>4. ASSUME NEW t \in Tasks, SubmitRequest(t) PROVE TrustedInv'
  BY <1>4 DEF SubmitRequest, TrustedInv, StoppedInv, Stopping, Undoing, Calm, TypeOK,
     Goes, GoesOnFailed, Ends, At, Idle, Running, Stopped
<1>5. ASSUME NEW t \in Tasks, RequestFinishes(t) PROVE TrustedInv'
  BY <1>5 DEF RequestFinishes, TrustedInv, StoppedInv, Stopping, Undoing, Calm, TypeOK,
     Goes, GoesOnFailed, Ends, At, Idle, Running, Stopped
<1>6. ASSUME NEW t \in Tasks, Configure(t) PROVE TrustedInv'
  BY <1>6 DEF Configure, TrustedInv, StoppedInv, Stopping, Undoing, Calm, TypeOK, Goes,
     GoesOnFailed, Ends, At, Idle, Running, Stopped
<1>7. ASSUME NEW t \in Tasks, SaveEnabled(t) PROVE TrustedInv'
  BY <1>7 DEF SaveEnabled, TrustedInv, StoppedInv, Stopping, Undoing, Calm, TypeOK, Goes,
     GoesOnFailed, Ends, At, Idle, Running, Stopped
<1>8. ASSUME NEW t \in Tasks, TrustAndStart(t) PROVE TrustedInv'
  <2>1. \/ trusted' = TRUE
        \/ trusted' = trusted /\ tunnel' = tunnel
    BY <1>8 DEF TrustAndStart
  <2>2. excused' = excused
    BY <1>8 DEF TrustAndStart
  <2> QED
    BY <2>1, <2>2 DEF TrustedInv, Running
<1>9. ASSUME NEW t \in Tasks, TrustAlone(t) PROVE TrustedInv'
  BY <1>9 DEF TrustAlone, TrustedInv, StoppedInv, Stopping, Undoing, Calm, TypeOK, Goes,
     GoesOnFailed, Ends, At, Idle, Running, Stopped
<1>10. ASSUME NEW t \in Tasks, Confirm(t) PROVE TrustedInv'
  BY <1>10 DEF Confirm, TrustedInv, StoppedInv, Stopping, Undoing, Calm, TypeOK, Goes,
     GoesOnFailed, Ends, At, Idle, Running, Stopped
<1>11. ASSUME NEW t \in Tasks, StopTunnel(t) PROVE TrustedInv'
  BY <1>11 DEF StopTunnel, TrustedInv, StoppedInv, Stopping, Undoing, Calm, TypeOK, Goes,
     GoesOnFailed, Ends, At, Idle, Running, Stopped
<1>12. ASSUME NEW t \in Tasks, SaveDisabled(t) PROVE TrustedInv'
  BY <1>12 DEF SaveDisabled, TrustedInv, StoppedInv, Stopping, Undoing, Calm, TypeOK,
     Goes, GoesOnFailed, Ends, At, Idle, Running, Stopped
<1>13. ASSUME NEW t \in Tasks, ResetTunnel(t) PROVE TrustedInv'
  BY <1>13 DEF ResetTunnel, TrustedInv, StoppedInv, Stopping, Undoing, Calm, TypeOK,
     Goes, GoesOnFailed, Ends, At, Idle, Running, Stopped
<1>14. ASSUME NEW t \in Tasks, RemoveConfig(t) PROVE TrustedInv'
  BY <1>14 DEF RemoveConfig, TrustedInv, StoppedInv, Stopping, Undoing, Calm, TypeOK,
     Goes, GoesOnFailed, Ends, At, Idle, Running, Stopped
<1>15. ASSUME NEW t \in Tasks, RemoveTrust(t) PROVE TrustedInv'
  BY <1>15 DEF RemoveTrust, TrustedInv, StoppedInv, Stopping, Undoing, Calm, TypeOK,
     Goes, GoesOnFailed, Ends, At, Idle, Running, Stopped
<1>16. ASSUME NEW t \in Tasks, NeedsUserApproval(t) PROVE TrustedInv'
  BY <1>16 DEF NeedsUserApproval, TrustedInv, StoppedInv, Stopping, Undoing, Calm,
     TypeOK, Goes, GoesOnFailed, Ends, At, Idle, Running, Stopped
<1>17. ASSUME RefreshStatus PROVE TrustedInv'
  BY <1>17 DEF RefreshStatus, TrustedInv, TypeOK, Running, Stopped
<1>18. ASSUME Relaunch PROVE TrustedInv'
  BY <1>18 DEF Relaunch, TrustedInv, TypeOK, Running, Stopped
<1>19. ASSUME ResetCommand PROVE TrustedInv'
  BY <1>19 DEF ResetCommand, TrustedInv, TypeOK, Running, Stopped
<1>20. ASSUME TunnelChanges PROVE TrustedInv'
  BY <1>20 DEF TunnelChanges, TrustedInv, TypeOK, Running, Stopped
<1>21. ASSUME PauseCapture PROVE TrustedInv'
  BY <1>21 DEF PauseCapture, TrustedInv, TypeOK, Running, Stopped
<1>22. ASSUME CommandLine PROVE TrustedInv'
  BY <1>22 DEF CommandLine, TrustedInv, TypeOK, Running, Stopped
<1>23. CASE UNCHANGED vars
  BY <1>23 DEF vars, TrustedInv, TypeOK, Running, Stopped
<1> QED
  BY <1>1, <1>2, <1>3, <1>4, <1>5, <1>6, <1>7, <1>8, <1>9, <1>10, <1>11, <1>12, <1>13,
     <1>14, <1>15, <1>16, <1>17, <1>18, <1>19, <1>20, <1>21, <1>22, <1>23 DEF Next, TaskStep

(* The status becomes inactive only when the tunnel is seen or made to be down. *)
LEMMA OffStep == TypeOK /\ StoppedInv /\ OffInv /\ [Next]_vars => OffInv'
<1> SUFFICES ASSUME TypeOK, StoppedInv, OffInv, [Next]_vars PROVE OffInv'
  OBVIOUS
<1>1. ASSUME NEW t \in Tasks, Activate(t) PROVE OffInv'
  BY <1>1 DEF Activate, Click, OffInv, StoppedInv, Stopping, Undoing, Calm, TypeOK, Goes,
     GoesOnFailed, Ends, At, Idle, Running, Stopped
<1>2. ASSUME NEW t \in Tasks, Deactivate(t) PROVE OffInv'
  BY <1>2 DEF Deactivate, Click, OffInv, StoppedInv, Stopping, Undoing, Calm, TypeOK,
     Goes, GoesOnFailed, Ends, At, Idle, Running, Stopped
<1>3. ASSUME NEW t \in Tasks, Reset(t) PROVE OffInv'
  BY <1>3 DEF Reset, Click, OffInv, StoppedInv, Stopping, Undoing, Calm, TypeOK, Goes,
     GoesOnFailed, Ends, At, Idle, Running, Stopped
<1>4. ASSUME NEW t \in Tasks, SubmitRequest(t) PROVE OffInv'
  BY <1>4 DEF SubmitRequest, OffInv, StoppedInv, Stopping, Undoing, Calm, TypeOK, Goes,
     GoesOnFailed, Ends, At, Idle, Running, Stopped
<1>5. ASSUME NEW t \in Tasks, RequestFinishes(t) PROVE OffInv'
  BY <1>5 DEF RequestFinishes, OffInv, StoppedInv, Stopping, Undoing, Calm, TypeOK, Goes,
     GoesOnFailed, Ends, At, Idle, Running, Stopped
<1>6. ASSUME NEW t \in Tasks, Configure(t) PROVE OffInv'
  BY <1>6 DEF Configure, OffInv, StoppedInv, Stopping, Undoing, Calm, TypeOK, Goes,
     GoesOnFailed, Ends, At, Idle, Running, Stopped
<1>7. ASSUME NEW t \in Tasks, SaveEnabled(t) PROVE OffInv'
  BY <1>7 DEF SaveEnabled, OffInv, StoppedInv, Stopping, Undoing, Calm, TypeOK, Goes,
     GoesOnFailed, Ends, At, Idle, Running, Stopped
<1>8. ASSUME NEW t \in Tasks, TrustAndStart(t) PROVE OffInv'
  BY <1>8 DEF TrustAndStart, OffInv, StoppedInv, Stopping, Undoing, Calm, TypeOK, Goes,
     GoesOnFailed, Ends, At, Idle, Running, Stopped
<1>9. ASSUME NEW t \in Tasks, TrustAlone(t) PROVE OffInv'
  BY <1>9 DEF TrustAlone, OffInv, StoppedInv, Stopping, Undoing, Calm, TypeOK, Goes,
     GoesOnFailed, Ends, At, Idle, Running, Stopped
<1>10. ASSUME NEW t \in Tasks, Confirm(t) PROVE OffInv'
  BY <1>10 DEF Confirm, OffInv, StoppedInv, Stopping, Undoing, Calm, TypeOK, Goes,
     GoesOnFailed, Ends, At, Idle, Running, Stopped
<1>11. ASSUME NEW t \in Tasks, StopTunnel(t) PROVE OffInv'
  BY <1>11 DEF StopTunnel, OffInv, StoppedInv, Stopping, Undoing, Calm, TypeOK, Goes,
     GoesOnFailed, Ends, At, Idle, Running, Stopped
<1>12. ASSUME NEW t \in Tasks, SaveDisabled(t) PROVE OffInv'
  BY <1>12 DEF SaveDisabled, OffInv, StoppedInv, Stopping, Undoing, Calm, TypeOK, Goes,
     GoesOnFailed, Ends, At, Idle, Running, Stopped
<1>13. ASSUME NEW t \in Tasks, ResetTunnel(t) PROVE OffInv'
  BY <1>13 DEF ResetTunnel, OffInv, StoppedInv, Stopping, Undoing, Calm, TypeOK, Goes,
     GoesOnFailed, Ends, At, Idle, Running, Stopped
<1>14. ASSUME NEW t \in Tasks, RemoveConfig(t) PROVE OffInv'
  BY <1>14 DEF RemoveConfig, OffInv, StoppedInv, Stopping, Undoing, Calm, TypeOK, Goes,
     GoesOnFailed, Ends, At, Idle, Running, Stopped
<1>15. ASSUME NEW t \in Tasks, RemoveTrust(t) PROVE OffInv'
  BY <1>15 DEF RemoveTrust, OffInv, StoppedInv, Stopping, Undoing, Calm, TypeOK, Goes,
     GoesOnFailed, Ends, At, Idle, Running, Stopped
<1>16. ASSUME NEW t \in Tasks, NeedsUserApproval(t) PROVE OffInv'
  BY <1>16 DEF NeedsUserApproval, OffInv, StoppedInv, Stopping, Undoing, Calm, TypeOK,
     Goes, GoesOnFailed, Ends, At, Idle, Running, Stopped
<1>17. ASSUME RefreshStatus PROVE OffInv'
  BY <1>17 DEF RefreshStatus, OffInv, TypeOK, Running, Stopped
<1>18. ASSUME Relaunch PROVE OffInv'
  BY <1>18 DEF Relaunch, OffInv, TypeOK, Running, Stopped
<1>19. ASSUME ResetCommand PROVE OffInv'
  BY <1>19 DEF ResetCommand, OffInv, TypeOK, Running, Stopped
<1>20. ASSUME TunnelChanges PROVE OffInv'
  BY <1>20 DEF TunnelChanges, OffInv, TypeOK, Running, Stopped
<1>21. ASSUME PauseCapture PROVE OffInv'
  BY <1>21 DEF PauseCapture, OffInv, TypeOK, Running, Stopped
<1>22. ASSUME CommandLine PROVE OffInv'
  BY <1>22 DEF CommandLine, OffInv, TypeOK, Running, Stopped
<1>23. CASE UNCHANGED vars
  BY <1>23 DEF vars, OffInv, TypeOK, Running, Stopped
<1> QED
  BY <1>1, <1>2, <1>3, <1>4, <1>5, <1>6, <1>7, <1>8, <1>9, <1>10, <1>11, <1>12, <1>13,
     <1>14, <1>15, <1>16, <1>17, <1>18, <1>19, <1>20, <1>21, <1>22, <1>23 DEF Next, TaskStep

(* IInv is inductive. *)
LEMMA InvStep == IInv /\ [Next]_vars => IInv'
  BY TypeStep, OneWayStep, StoppedStep, TrustedStep, OffStep DEF IInv

(* The types hold, and a running tunnel has an enabled configuration, whatever handlers,
   failures, quits and resets (TypeOK). *)
THEOREM TypeCorrect == Spec => []TypeOK
<1>1. Init => TypeOK
  BY InitInv DEF IInv
<1> QED
  BY <1>1, TypeStep, PTL DEF Spec

(* Flows are intercepted only while agents can trust the CA (CaptureIsTrusted). *)
THEOREM CaptureTrusted == Spec => []CaptureIsTrusted
<1>1. IInv => CaptureIsTrusted
  BY DEF IInv, TrustedInv, CaptureIsTrusted, Running
<1> QED
  BY <1>1, InitInv, InvStep, PTL DEF Spec

(* Capture that is shown as off, with no handler under way, is off (OffMeansOff). *)
THEOREM OffIsOff == Spec => []OffMeansOff
<1>1. IInv => OffMeansOff
  BY DEF IInv, OffInv, OffMeansOff
<1> QED
  BY <1>1, InitInv, InvStep, PTL DEF Spec
-------------------------------------------------------------------------------

(* The tunnel failed after a refresh had seen it coming up, and no handler is left
   to say so. *)
Stranded == ~Busy /\ status = "activating" /\ tunnel = "disconnected"

Button == \E t \in Tasks : Activate(t) \/ Deactivate(t) \/ Reset(t)

(* A refresh that sees no tunnel keeps the status, and what a former app has left
   behind does not write it (refreshStatus, ProxyController.swift). *)
LEMMA StrandedStep == TypeOK /\ Stranded /\ [Next]_vars => Stranded' \/ Button \/ Relaunch
<1> SUFFICES ASSUME TypeOK, Stranded, [Next]_vars, ~Relaunch, ~Button
             PROVE  Stranded'
  OBVIOUS
<1>0. /\ \A t \in Tasks : task[t].at = "idle" \/ task[t].alone
      /\ status = "activating" /\ tunnel = "disconnected"
  BY DEF Stranded, Busy, At
<1>1. ASSUME task' = task, status' = "activating", tunnel' = "disconnected"
      PROVE  Stranded'
  BY <1>0, <1>1 DEF Stranded, Busy, At
<1>2. ASSUME NEW t \in Tasks, task[t].at # "idle", task' = [task EXCEPT ![t] = Idle],
             status' = status, tunnel' = tunnel
      PROVE  Stranded'
  <2>1. \A u \in Tasks : task'[u].at = "idle" \/ task'[u].alone
    BY <1>0, <1>2 DEF TypeOK, Idle
  <2> QED
    BY <1>0, <1>2, <2>1 DEF Stranded, Busy, At
<1>3. ASSUME NEW t \in Tasks, TaskStep(t) PROVE Stranded'
  <2>1. task[t].at # "idle"
    BY <1>3 DEF TaskStep, SubmitRequest, RequestFinishes, Configure, SaveEnabled,
       TrustAndStart, TrustAlone, Confirm, StopTunnel, SaveDisabled, ResetTunnel,
       RemoveConfig, RemoveTrust, At
  <2>2. task[t].alone
    BY <1>0, <2>1
  <2>3. task' = [task EXCEPT ![t] = Idle]
    BY <1>3, <2>2 DEF TaskStep, SubmitRequest, RequestFinishes, Configure, SaveEnabled,
       TrustAndStart, TrustAlone, Confirm, StopTunnel, SaveDisabled, ResetTunnel,
       RemoveConfig, RemoveTrust, Goes, GoesOnFailed, Ends
  <2>4. status' = status \/ SubmitRequest(t)
    BY <1>3, <2>2 DEF TaskStep, RequestFinishes, Configure, SaveEnabled,
       TrustAndStart, TrustAlone, Confirm, StopTunnel, SaveDisabled, ResetTunnel,
       RemoveConfig, RemoveTrust, Ends
  <2>5. tunnel' = tunnel
    BY <1>0, <1>3, <2>2 DEF TaskStep, SubmitRequest, RequestFinishes, Configure, SaveEnabled,
       TrustAndStart, TrustAlone, Confirm, StopTunnel, SaveDisabled, ResetTunnel,
       RemoveConfig, RemoveTrust, Stopped, Running
  <2>6. status' = status
    BY <1>0, <2>2, <2>4 DEF SubmitRequest, Ends
  <2> QED
    BY <1>2, <2>1, <2>3, <2>5, <2>6
<1>4. ASSUME NEW t \in Tasks, NeedsUserApproval(t) PROVE Stranded'
  BY <1>0, <1>4 DEF NeedsUserApproval, At, TypeOK, Handler, Outlives
<1>5. CASE RefreshStatus
  BY <1>0, <1>1, <1>5 DEF RefreshStatus
<1>6. CASE ResetCommand
  BY <1>0, <1>1, <1>6 DEF ResetCommand, Stopped, Running
<1>7. CASE TunnelChanges
  BY <1>0, <1>7 DEF TunnelChanges
<1>8. CASE PauseCapture
  BY <1>0, <1>8 DEF PauseCapture
<1>9. CASE CommandLine
  BY <1>0, <1>1, <1>9 DEF CommandLine
<1>10. CASE UNCHANGED vars
  BY <1>0, <1>1, <1>10 DEF vars
<1> QED
  BY <1>3, <1>4, <1>5, <1>6, <1>7, <1>8, <1>9, <1>10 DEF Next, Button

(* A status that a refresh left at "activating" when the tunnel then failed stays
   there until the user presses a button or starts the app again: nothing that
   the app, macOS, the daemon or the command line does corrects it. *)
THEOREM StrandedUntilTheUserActs ==
  Spec => [][Stranded => Stranded' \/ Button \/ Relaunch]_vars
<1>1. TypeOK /\ [Next]_vars => [Stranded => Stranded' \/ Button \/ Relaunch]_vars
  BY StrandedStep
<1> QED
  BY <1>1, TypeCorrect, PTL DEF Spec

===============================================================================
