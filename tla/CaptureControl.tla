----------------------------- MODULE CaptureControl -----------------------------
(***************************************************************************)
(* The app's capture switch: enabling, disabling and resetting the         *)
(* transparent proxy, and reading its state back.                          *)
(*                                                                         *)
(* Every handler starts a task that awaits a helper process, the           *)
(* NetworkExtension preferences or the system extension, and writes status *)
(* when it gets there.  A step is what happens between two awaits.  When   *)
(* the app ends, so do its tasks, but not what they have asked for: the    *)
(* helper is a process of its own, and macOS may still save.  What macOS,  *)
(* `agents` on the command line and the daemon do meanwhile is the         *)
(* environment.                                                            *)
(***************************************************************************)
EXTENDS Naturals

CONSTANTS
  Tasks,          \* bound of the model: handlers, and what outlives them, at a time
  MaxClicks       \* bound of the model: buttons pressed

ASSUME CaptureAssumption == MaxClicks \in Nat

VARIABLES
  status,         \* ProxyController.status
  task,           \* where each handler is, and what it has to report
  tunnel,         \* the connection of our manager
  config,         \* our manager in the preferences: "none", "enabled" or "disabled"
  trusted,        \* the login keychain trusts the CA
  paused,         \* the pause marker exists
  installed,      \* `agents status` says installed
  clicks,         \* buttons pressed
  excused         \* history: what happened that no order of steps makes up for

vars == <<status, task, tunnel, config, trusted, paused, installed, clicks, excused>>

Running == {"connected", "connecting"}

(* Where a handler can be, what it has to report, and whether its app has ended. *)
StartAwaits == {"asking", "requested", "loading", "saving", "trusting", "confirming"}
StopAwaits  == {"stopLoading", "stopSaving", "resetLoading", "removing", "untrusting"}

(* Requests of a handler that are carried out without it. *)
Outlives == {"saving", "stopSaving", "removing", "trusting", "untrusting"}

Handler ==
  {h \in [at : {"idle"} \union StartAwaits \union StopAwaits, ok : BOOLEAN, alone : BOOLEAN] :
     h.alone => h.at \in Outlives}

Idle == [at |-> "idle", ok |-> TRUE, alone |-> FALSE]

Init ==
  /\ status = "unknown" /\ task = [t \in Tasks |-> Idle]
  /\ tunnel \in {"disconnected", "connected"} /\ config \in {"none", "enabled", "disabled"}
  /\ tunnel = "connected" => config = "enabled"
  /\ trusted \in BOOLEAN /\ (tunnel = "connected" => trusted)
  /\ paused = FALSE /\ installed \in BOOLEAN
  /\ clicks = 0 /\ excused = {}

At(t, here) == task[t].at = here
Busy        == \E t \in Tasks : ~At(t, "idle") /\ ~task[t].alone

(* A handler that may start the tunnel; one that stops it or will remove the
   trust, or the helper it has left behind to remove it. *)
Starting(t) == task[t].at \in StartAwaits /\ ~task[t].alone
Undoing(t)  == At(t, "untrusting") \/ (task[t].at \in StopAwaits /\ ~task[t].alone)

(* The next await, and the end with its report, of which there are none without
   the app. *)
Goes(t, next) ==
  task' = [task EXCEPT ![t] = IF @.alone THEN Idle ELSE [@ EXCEPT !.at = next]]

GoesOnFailed(t) ==
  task' = [task EXCEPT ![t] = IF @.alone THEN Idle
                              ELSE [at |-> "untrusting", ok |-> FALSE, alone |-> FALSE]]

Ends(t, said) ==
  task' = [task EXCEPT ![t] = Idle] /\ status' = IF task[t].alone THEN status ELSE said

(* Deliberately wrong variant: the connection is not told to stop. *)
LeftRunning == tunnel

(* stopVPNTunnel, and what macOS does to a tunnel whose configuration is disabled
   or removed. *)
Stopped == IF tunnel \in Running THEN "disconnecting" ELSE tunnel

-------------------------------------------------------------------------------
(***************************************************************************)
(* Buttons.  The menu and the onboarding offer the same handlers, however  *)
(* many are under way: the menu enables its items by itself, whatever      *)
(* menuNeedsUpdate says of them, and only asks whether capture is active.  *)
(***************************************************************************)

Click(t, first, crossing) ==
  /\ At(t, "idle") /\ clicks < MaxClicks
  /\ clicks' = clicks + 1
  /\ Goes(t, first)
  /\ excused' = IF crossing THEN excused \union {"crossing"} ELSE excused
  /\ UNCHANGED <<status, tunnel, config, trusted, paused, installed>>

Activate(t)   == status # "active" /\ Click(t, "asking", \E u \in Tasks : Undoing(u))
Deactivate(t) == status = "active" /\ Click(t, "stopLoading", \E u \in Tasks : Starting(u))
Reset(t)      == Click(t, "resetLoading", \E u \in Tasks : Starting(u))

(***************************************************************************)
(* activate.                                                               *)
(***************************************************************************)

(* The answer of `agents status`. *)
SubmitRequest(t) ==
  /\ At(t, "asking")
  /\ IF installed THEN status' = "activating" /\ Goes(t, "requested")
                  ELSE Ends(t, "failed")
  /\ UNCHANGED <<tunnel, config, trusted, paused, installed, clicks, excused>>

NeedsUserApproval(t) ==
  /\ At(t, "requested")
  /\ status' = "needsApproval"
  /\ UNCHANGED <<task, tunnel, config, trusted, paused, installed, clicks, excused>>

(* The request completes, or fails or waits for a reboot. *)
RequestFinishes(t) ==
  /\ At(t, "requested")
  /\ \/ Goes(t, "loading") /\ UNCHANGED status
     \/ Ends(t, "failed")
  /\ UNCHANGED <<tunnel, config, trusted, paused, installed, clicks, excused>>

(* configureAndStart: the preferences are loaded, then saved with our manager
   enabled, then loaded again. *)
Configure(t) ==
  /\ At(t, "loading")
  /\ \/ Goes(t, "saving") /\ UNCHANGED status
     \/ Ends(t, "failed")
  /\ UNCHANGED <<tunnel, config, trusted, paused, installed, clicks, excused>>

(* Deliberately wrong variant: the tunnel is started before the CA is trusted. *)
StartUntrusted(t) ==
  /\ At(t, "saving")
  /\ config' = "enabled" /\ Goes(t, "trusting") /\ UNCHANGED status
  /\ tunnel' = IF tunnel = "connected" THEN tunnel ELSE "connecting"
  /\ UNCHANGED <<trusted, paused, installed, clicks, excused>>

SaveEnabled(t) ==
  /\ At(t, "saving")
  /\ \/ config' = "enabled" /\ Goes(t, "trusting") /\ UNCHANGED status
     \/ Ends(t, "failed") /\ UNCHANGED config
  /\ UNCHANGED <<tunnel, trusted, paused, installed, clicks, excused>>

(* CA trust first; then, in one step, the marker is cleared, if it can be, and
   the tunnel is started, which throws if the configuration has gone meanwhile. *)
TrustAndStart(t) ==
  /\ At(t, "trusting") /\ ~task[t].alone
  /\ \/ /\ installed
        /\ trusted' = TRUE /\ paused' \in {FALSE, paused}
        /\ \/ /\ config = "enabled"
              /\ tunnel' = IF tunnel = "connected" THEN tunnel ELSE "connecting"
              /\ status' = "activating" /\ Goes(t, "confirming")
           \/ Ends(t, "failed") /\ UNCHANGED tunnel
     \/ Ends(t, "failed") /\ UNCHANGED <<trusted, paused, tunnel>>
  /\ UNCHANGED <<config, installed, clicks, excused>>

(* `agents trust install` without the app: nobody starts the tunnel. *)
TrustAlone(t) ==
  /\ At(t, "trusting") /\ task[t].alone
  /\ Ends(t, status)
  /\ (installed /\ trusted' = TRUE) \/ UNCHANGED trusted
  /\ UNCHANGED <<tunnel, config, paused, installed, clicks, excused>>

(* confirmTunnelConnected looks every 250 ms, for 8 seconds. *)
Confirm(t) ==
  /\ At(t, "confirming")
  /\ \/ tunnel = "connected" /\ Ends(t, "active")
     \/ tunnel # "connected" /\ Ends(t, "failed")
  /\ UNCHANGED <<tunnel, config, trusted, paused, installed, clicks, excused>>

(***************************************************************************)
(* deactivate.                                                             *)
(***************************************************************************)

(* Deliberately wrong variant: the continuation is not resumed after an error. *)
StopOrHang(t) ==
  /\ At(t, "stopLoading")
  /\ \/ Goes(t, "hung") /\ UNCHANGED tunnel
     \/ /\ tunnel' = IF config = "none" THEN tunnel ELSE Stopped
        /\ Goes(t, IF config = "enabled" THEN "stopSaving" ELSE "untrusting")
  /\ UNCHANGED <<status, config, trusted, paused, installed, clicks, excused>>

(* stopAndDisableTunnel up to its save.  When the preferences cannot be loaded
   the tunnel is left alone. *)
StopTunnel(t) ==
  /\ At(t, "stopLoading")
  /\ \/ /\ GoesOnFailed(t)
        /\ excused' = excused \union {"stopFailed"}
        /\ UNCHANGED tunnel
     \/ /\ tunnel' = IF config = "none" THEN tunnel ELSE Stopped
        /\ Goes(t, IF config = "enabled" THEN "stopSaving" ELSE "untrusting")
        /\ UNCHANGED excused
  /\ UNCHANGED <<status, config, trusted, paused, installed, clicks>>

SaveDisabled(t) ==
  /\ At(t, "stopSaving")
  /\ \/ /\ config' = "disabled" /\ tunnel' = Stopped
        /\ Goes(t, "untrusting")
     \/ /\ GoesOnFailed(t)
        /\ UNCHANGED <<config, tunnel>>
  /\ UNCHANGED <<status, trusted, paused, installed, clicks, excused>>

(* Deliberately wrong variant: only the helper's result is reported. *)
ReportTrust(t) ==
  /\ At(t, "untrusting")
  /\ \/ trusted' \in {trusted, FALSE} /\ Ends(t, "inactive")
     \/ UNCHANGED trusted /\ Ends(t, "failed")
  /\ UNCHANGED <<tunnel, config, paused, installed, clicks, excused>>

(* removeCATrust, whatever became of the tunnel.  `agents trust remove` says 0
   even when the keychain kept a certificate; launching it may fail. *)
RemoveTrust(t) ==
  /\ At(t, "untrusting")
  /\ \/ trusted' \in {trusted, FALSE} /\ Ends(t, IF task[t].ok THEN "inactive" ELSE "failed")
     \/ UNCHANGED trusted /\ Ends(t, "failed")
  /\ UNCHANGED <<tunnel, config, paused, installed, clicks, excused>>

(***************************************************************************)
(* resetCaptureConfiguration, and refreshStatus.                           *)
(***************************************************************************)

ResetTunnel(t) ==
  /\ At(t, "resetLoading")
  /\ \/ /\ GoesOnFailed(t)
        /\ excused' = excused \union {"stopFailed"}
        /\ UNCHANGED tunnel
     \/ /\ tunnel' = IF config = "none" THEN tunnel ELSE Stopped
        /\ Goes(t, IF config = "none" THEN "untrusting" ELSE "removing")
        /\ UNCHANGED excused
  /\ UNCHANGED <<status, config, trusted, paused, installed, clicks>>

RemoveConfig(t) ==
  /\ At(t, "removing")
  /\ \/ /\ config' = "none" /\ tunnel' = Stopped
        /\ Goes(t, "untrusting")
     \/ /\ GoesOnFailed(t)
        /\ UNCHANGED <<config, tunnel>>
  /\ UNCHANGED <<status, trusted, paused, installed, clicks, excused>>

(* A load that fails looks like a configuration that is absent. *)
RefreshStatus ==
  /\ \E seen \in {IF config = "none" THEN "disconnected" ELSE tunnel, "disconnected"} :
       /\ status' = CASE seen = "connected"  -> "active"
                      [] seen = "connecting" -> "activating"
                      [] OTHER -> IF status \in {"needsApproval", "activating"}
                                  THEN status ELSE "inactive"
       /\ excused' = IF seen # tunnel /\ tunnel \in Running
                     THEN excused \union {"blindRefresh"} ELSE excused
  /\ UNCHANGED <<task, tunnel, config, trusted, paused, installed, clicks>>

(* The app quits, or is restarted: its tasks end where they are.  A helper that
   was launched, and a request that macOS was given, may live on. *)
Relaunch ==
  /\ status' = "unknown"
  /\ \E left \in SUBSET {t \in Tasks : task[t].at \in Outlives} :
       task' = [t \in Tasks |-> IF t \in left \/ task[t].alone
                                THEN [task[t] EXCEPT !.alone = TRUE] ELSE Idle]
  /\ UNCHANGED <<tunnel, config, trusted, paused, installed, clicks, excused>>

(* CaptureResetCommand: every step may fail, and the next one is taken. *)
ResetCommand ==
  /\ \/ config' = "none" /\ tunnel' = Stopped
     \/ UNCHANGED <<config, tunnel>>
  /\ trusted' \in {trusted, FALSE}
  /\ paused' = FALSE
  /\ excused' = excused \union {"commandLine"}
  /\ UNCHANGED <<status, task, installed, clicks>>

-------------------------------------------------------------------------------
(***************************************************************************)
(* The environment.                                                        *)
(***************************************************************************)

(* A connection comes up, fails, drops, or goes down. *)
TunnelChanges ==
  /\ \/ tunnel = "connecting" /\ tunnel' \in {"connected", "disconnected"}
     \/ tunnel = "connected" /\ tunnel' = "disconnected"
     \/ tunnel = "disconnecting" /\ tunnel' = "disconnected"
  /\ UNCHANGED <<status, task, config, trusted, paused, installed, clicks, excused>>

(* The daemon's breaker trips. *)
PauseCapture ==
  /\ tunnel = "connected" /\ paused' = TRUE
  /\ UNCHANGED <<status, task, tunnel, config, trusted, installed, clicks, excused>>

(* `agents install` and `agents uninstall` in a terminal; the latter removes the
   trust and the marker. *)
CommandLine ==
  /\ \/ installed' = TRUE /\ UNCHANGED <<trusted, paused, excused>>
     \/ /\ installed' = FALSE /\ trusted' = FALSE /\ paused' = FALSE
        /\ excused' = excused \union {"commandLine"}
  /\ UNCHANGED <<status, task, tunnel, config, clicks>>

-------------------------------------------------------------------------------

TaskStep(t) ==
  \/ SubmitRequest(t) \/ RequestFinishes(t) \/ Configure(t) \/ SaveEnabled(t)
  \/ TrustAndStart(t) \/ TrustAlone(t) \/ Confirm(t)
  \/ StopTunnel(t) \/ SaveDisabled(t) \/ ResetTunnel(t) \/ RemoveConfig(t) \/ RemoveTrust(t)

Next ==
  \/ \E t \in Tasks : Activate(t) \/ Deactivate(t) \/ Reset(t)
  \/ \E t \in Tasks : TaskStep(t) \/ NeedsUserApproval(t)
  \/ RefreshStatus \/ Relaunch \/ ResetCommand
  \/ TunnelChanges \/ PauseCapture \/ CommandLine

Spec == Init /\ [][Next]_vars

(* Helpers exit, and macOS answers load, save and remove.  Nobody has to approve
   an extension. *)
FairSpec ==
  Spec /\ \A t \in Tasks : WF_vars(~At(t, "requested") /\ TaskStep(t))

(***************************************************************************)
(* Properties                                                              *)
(***************************************************************************)

(* Types, and: a running tunnel has an enabled configuration, apart from the
   moment in which it is stopped. *)
TypeOK ==
  /\ status \in {"unknown", "inactive", "activating", "needsApproval", "active", "failed"}
  /\ task \in [Tasks -> Handler]
  /\ tunnel \in {"disconnected", "connecting", "connected", "disconnecting"}
  /\ config \in {"none", "enabled", "disabled"} /\ (tunnel \in Running => config = "enabled")
  /\ trusted \in BOOLEAN /\ paused \in BOOLEAN /\ installed \in BOOLEAN
  /\ clicks \in 0 .. MaxClicks
  /\ excused \subseteq {"crossing", "stopFailed", "commandLine", "blindRefresh"}

(* Flows are intercepted only while agents can trust the CA: trust comes before
   the tunnel and goes after it, in every order of failures, refreshes, double
   clicks, quits and relaunches of the app.  Not when an enabling and a disabling
   handler, or the helper that one left behind at a quit, cross; nor after a stop
   that could not be requested, nor when the command line removes the trust. *)
CaptureIsTrusted ==
  tunnel = "connected" /\ excused \intersect {"crossing", "stopFailed", "commandLine"} = {} => trusted

(* "Capture extension: off" is true: when the status is inactive and no handler
   is under way, flows are not intercepted and no start is in progress. *)
OffMeansOff ==
  status = "inactive" /\ ~Busy /\ excused \intersect {"crossing", "blindRefresh"} = {}
    => tunnel \notin Running

(* Disabling stops the tunnel, says that it failed, or is cut off by the app's
   end: it never hangs with capture on. *)
DisableIsDecided ==
  \A t \in Tasks :
    At(t, "stopLoading") ~> (tunnel # "connected" \/ status = "failed" \/ status = "unknown")

(* deactivate goes on to remove the trust only when the tunnel has been told to
   stop ("Stop the tunnel FIRST, then remove CA trust"). *)
UntrustsStoppedTunnel ==
  [][\A t \in Tasks : At(t, "stopLoading") /\ At(t, "untrusting")' => tunnel' # "connected"]_vars

===============================================================================
